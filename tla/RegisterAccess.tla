--------------------------- MODULE RegisterAccess ---------------------------
(***************************************************************************)
(* What the chain of daemon, thin-server and emulator promises the kernel: *)
(* an access to a register that returns was performed once, in one step,   *)
(* and returns what that step answered.  An access the kernel gives up may *)
(* still be performed, but at most once and before any later one.          *)
(***************************************************************************)
EXTENDS DoeProtocol

CONSTANT KernelOps       \* the accesses the kernel makes

VARIABLES waiting,       \* the kernel waits for the answer to its last access
          kop,           \* that access, with the number it was issued under
          kres,          \* the last answer the kernel was given
          pending,       \* accesses issued and not yet performed
          answer         \* number and answer of the last access performed

vars == <<waiting, kop, kres, pending, answer>>

NoOp == [id |-> 0, type |-> 0, offset |-> 0, value |-> 0]

Init == /\ waiting = FALSE
        /\ kop = NoOp
        /\ kres = NoOp
        /\ pending = {}
        /\ answer = [id |-> 0, data |-> 0]

Issue(op) ==
  /\ ~waiting
  /\ waiting' = TRUE
  /\ kop' = [op EXCEPT !.id = kop.id + 1]
  /\ pending' = pending \cup {kop'}
  /\ UNCHANGED <<kres, answer>>

\* An access that was overtaken is never performed.
Perform(op) ==
  /\ op \in pending
  /\ answer'.id = op.id /\ answer'.data \in Dword
  /\ pending' = {p \in pending : p.id > op.id}
  /\ UNCHANGED <<waiting, kop, kres>>

Return ==
  /\ waiting /\ answer.id = kop.id
  /\ waiting' = FALSE
  /\ kres' = [kop EXCEPT !.value = answer.data]
  /\ UNCHANGED <<kop, pending, answer>>

Abandon == /\ waiting
           /\ waiting' = FALSE
           /\ UNCHANGED <<kop, kres, pending, answer>>

Next == \/ \E op \in KernelOps : Issue(op)
        \/ \E op \in pending : Perform(op)
        \/ Return
        \/ Abandon

Spec == Init /\ [][Next]_vars
=============================================================================
