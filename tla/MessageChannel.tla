--------------------------- MODULE MessageChannel ---------------------------
(***************************************************************************)
(* What the transfer loops promise: messages of Size bytes are taken whole *)
(* and in the order they were offered; what is not taken is lost from some *)
(* message on.  The bytes of all messages are numbered through: the        *)
(* message offered after b bytes consists of the bytes b+1 to b+Size.      *)
(***************************************************************************)
EXTENDS Integers, Sequences

CONSTANT Size

VARIABLES offered, taken,   \* bytes of the messages offered, and of those taken
          last              \* the message taken last

vars == <<offered, taken, last>>

Message(b) == [i \in 1..Size |-> b + i]

Init == offered = 0 /\ taken = 0 /\ last = <<>>

Offer == /\ offered' = offered + Size
         /\ UNCHANGED <<taken, last>>

Take == /\ taken < offered
        /\ taken' = taken + Size
        /\ last' = Message(taken)
        /\ UNCHANGED offered

Next == Offer \/ Take

Spec == Init /\ [][Next]_vars
=============================================================================
