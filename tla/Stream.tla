------------------------------- MODULE Stream -------------------------------
(***************************************************************************)
(* One direction of the TCP connection between daemon-doe and thin-server: *)
(* the loops that send and receive an operation piece by piece (send_all   *)
(* and xrecv one way, xsend and recv_all the other; those on the pipes are *)
(* the same).  A call moves any number of bytes up to what is asked for;   *)
(* either process may die at any point of its loop.                        *)
(*                                                                         *)
(* The bytes of all operations are numbered through, as in MessageChannel. *)
(***************************************************************************)
EXTENDS Integers, Sequences

CONSTANTS Size,          \* sizeof(struct avery_pci_config_op)
          Capacity,      \* bytes the connection holds
          MaxMsgs        \* operations sent

ASSUME StreamAssumption ==
  Size \in Nat \ {0} /\ Capacity \in Nat \ {0} /\ MaxMsgs \in Nat

VARIABLES sender, offered,  \* "up" or "gone"; bytes of the operations handed to it
          p, len,           \* its loop: bytes before the pointer, bytes to go
          wire,             \* the bytes under way
          receiver, buf,    \* "up" or "gone"; what its loop has so far
          taken, last       \* bytes of the operations it took, and the last one

vars == <<sender, offered, p, len, wire, receiver, buf, taken, last>>

Init == /\ sender = "up" /\ offered = 0 /\ p = 0 /\ len = 0
        /\ wire = <<>>
        /\ receiver = "up" /\ buf = <<>>
        /\ taken = 0 /\ last = <<>>
-----------------------------------------------------------------------------
Begin == /\ sender = "up" /\ len = 0 /\ offered < MaxMsgs * Size
         /\ offered' = offered + Size
         /\ p' = offered /\ len' = Size
         /\ UNCHANGED <<sender, wire, receiver, buf, taken, last>>

\* A loop that leaves p where it is.
MutAdvance(n) == len' = len - n /\ UNCHANGED p

Advance(n) == p' = p + n /\ len' = len - n

\* A sender that waits until all the rest fits.
MutSendSome ==
  /\ sender = "up" /\ receiver = "up" /\ len > 0
  /\ Len(wire) + len <= Capacity
  /\ wire' = wire \o [i \in 1..len |-> p + i]
  /\ Advance(len)
  /\ UNCHANGED <<sender, offered, receiver, buf, taken, last>>

SendSome ==
  /\ sender = "up" /\ receiver = "up"
  /\ \E n \in 1..len :
       /\ Len(wire) + n <= Capacity
       /\ wire' = wire \o [i \in 1..n |-> p + i]
       /\ Advance(n)
  /\ UNCHANGED <<sender, offered, receiver, buf, taken, last>>

\* The receiver is gone: the bytes are lost, or send fails and the sender exits.
SendLost ==
  /\ sender = "up" /\ receiver = "gone"
  /\ \E n \in 1..len : Advance(n)
  /\ UNCHANGED <<sender, offered, wire, receiver, buf, taken, last>>

SendFails ==
  /\ sender = "up" /\ receiver = "gone" /\ len > 0
  /\ sender' = "gone"
  /\ UNCHANGED <<offered, p, len, wire, receiver, buf, taken, last>>

SenderStep == SendSome \/ SendLost \/ SendFails
-----------------------------------------------------------------------------
\* A loop that puts every piece at the front of the buffer.
MutRecvSome ==
  /\ receiver = "up"
  /\ \E n \in 1..(Size - Len(buf)) :
       /\ n <= Len(wire)
       /\ wire' = SubSeq(wire, n + 1, Len(wire))
       /\ IF n < Size
            THEN buf' = SubSeq(wire, 1, n) /\ UNCHANGED <<taken, last>>
            ELSE buf' = <<>> /\ taken' = taken + Size /\ last' = SubSeq(wire, 1, n)
  /\ UNCHANGED <<sender, offered, p, len, receiver>>

RecvSome ==
  /\ receiver = "up"
  /\ \E n \in 1..(Size - Len(buf)) :
       /\ n <= Len(wire)
       /\ wire' = SubSeq(wire, n + 1, Len(wire))
       /\ LET got == buf \o SubSeq(wire, 1, n)
          IN IF Len(buf) + n < Size
               THEN buf' = got /\ UNCHANGED <<taken, last>>
               ELSE buf' = <<>> /\ taken' = taken + Size /\ last' = got
  /\ UNCHANGED <<sender, offered, p, len, receiver>>

\* A loop that takes an end of file for an empty piece and asks again.
MutRecvEnd == /\ receiver = "up" /\ sender = "gone" /\ wire = <<>>
              /\ UNCHANGED vars

\* recv returns 0 and the process exits; what is in its buffer is not used.
RecvEnd == /\ receiver = "up" /\ sender = "gone" /\ wire = <<>>
           /\ receiver' = "gone"
           /\ UNCHANGED <<sender, offered, p, len, wire, buf, taken, last>>

ReceiverStep == RecvSome \/ RecvEnd
-----------------------------------------------------------------------------
SenderDies == /\ sender = "up"
              /\ sender' = "gone"
              /\ UNCHANGED <<offered, p, len, wire, receiver, buf, taken, last>>

ReceiverDies == /\ receiver = "up"
                /\ receiver' = "gone" /\ wire' = <<>>
                /\ UNCHANGED <<sender, offered, p, len, buf, taken, last>>

Next == Begin \/ SenderStep \/ ReceiverStep \/ SenderDies \/ ReceiverDies

\* A loop whose call can return goes on.
Spec == Init /\ [][Next]_vars /\ WF_vars(SenderStep) /\ WF_vars(ReceiverStep)
-----------------------------------------------------------------------------
(* Properties *)

Channel == INSTANCE MessageChannel

\* However the bytes are split over calls, and wherever one end dies, the
\* receiver takes whole operations in the order they were sent, and never one
\* put together from two or from the front of one.
ImplementsChannel == Channel!Spec

\* An operation whose last byte has been sent is taken unless the receiver dies.
SentIsTaken ==
  \A m \in 1..MaxMsgs :
    receiver = "up" /\ offered - len >= m * Size
      ~> taken >= m * Size \/ receiver = "gone"

\* The send loop comes to an end although the connection may hold less than an
\* operation.
SendReturns == len > 0 ~> len = 0 \/ sender = "gone"

\* A receiver whose sender is gone, be it in the middle of an operation, does
\* not wait for the rest.
EndNoticed == sender = "gone" ~> receiver = "gone"
=============================================================================
