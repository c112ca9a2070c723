---------------------------- MODULE StreamProofs ----------------------------
(***************************************************************************)
(* The transfer loops implement MessageChannel for every size of an        *)
(* operation and every capacity of the connection.                         *)
(***************************************************************************)
EXTENDS Stream, TLAPS

\* What is in the buffer and under way are the bytes that follow those taken,
\* without a gap, up to the pointer of the send loop.  A receiver that is gone
\* leaves nothing under way.
IInv == /\ offered \in Nat /\ p \in Nat /\ len \in Nat /\ taken \in Nat
        /\ receiver \in {"up", "gone"}
        /\ wire \in Seq(Int) /\ buf \in Seq(Int)
        /\ p + len = offered
        /\ Len(buf) < Size
        /\ \A i \in 1..Len(buf) : buf[i] = taken + i
        /\ \A i \in 1..Len(wire) : wire[i] = taken + Len(buf) + i
        /\ receiver = "up" => taken + Len(buf) + Len(wire) = p

\* A sequence is determined by its length and its elements.
LEMMA SequenceIsItsElements ==
  ASSUME NEW s \in Seq(Int), NEW n \in Nat, Len(s) = n
  PROVE  s = [i \in 1..n |-> s[i]]
  OBVIOUS

\* Moving n bytes from the connection to the buffer, or into the connection.
LEMMA Moved ==
  \A t, b, w, q, n \in Int :
    t + b + w = q => t + (b + n) + (w - n) = q /\ t + b + (w + n) = q + n
  OBVIOUS

LEMMA Concatenation ==
  ASSUME NEW s \in Seq(Int), NEW t \in Seq(Int)
  PROVE  s \o t \in Seq(Int) /\ Len(s \o t) = Len(s) + Len(t)
  OBVIOUS

\* What a send adds to the bytes under way.
LEMMA AppendedBytes ==
  ASSUME NEW w \in Seq(Int), NEW n \in Nat, NEW q \in Int
  PROVE  LET r == w \o [i \in 1..n |-> q + i]
         IN /\ r \in Seq(Int)
            /\ Len(r) = Len(w) + n
            /\ \A i \in 1..Len(w) : r[i] = w[i]
            /\ \A i \in (Len(w) + 1)..(Len(w) + n) : r[i] = q + (i - Len(w))
<1> DEFINE c == [i \in 1..n |-> q + i]
<1>1. c \in Seq(Int) /\ Len(c) = n
  OBVIOUS
<1>2. \A i \in 1..n : c[i] = q + i
  OBVIOUS
<1> HIDE DEF c
<1>3. /\ w \o c \in Seq(Int)
      /\ Len(w \o c) = Len(w) + n
      /\ \A i \in 1..Len(w) : (w \o c)[i] = w[i]
  BY <1>1
<1>4. \A i \in (Len(w) + 1)..(Len(w) + n) : (w \o c)[i] = q + (i - Len(w))
  BY <1>1, <1>2
<1> QED
  BY <1>3, <1>4 DEF c

\* What a receive takes from the bytes under way, and what it leaves.
LEMMA SplitBytes ==
  ASSUME NEW w \in Seq(Int), NEW b \in Seq(Int), NEW n \in Nat, n <= Len(w)
  PROVE  /\ SubSeq(w, n + 1, Len(w)) \in Seq(Int)
         /\ Len(SubSeq(w, n + 1, Len(w))) = Len(w) - n
         /\ \A i \in 1..(Len(w) - n) : SubSeq(w, n + 1, Len(w))[i] = w[n + i]
         /\ b \o SubSeq(w, 1, n) \in Seq(Int)
         /\ Len(b \o SubSeq(w, 1, n)) = Len(b) + n
         /\ \A i \in 1..Len(b) : (b \o SubSeq(w, 1, n))[i] = b[i]
         /\ \A i \in (Len(b) + 1)..(Len(b) + n) :
              (b \o SubSeq(w, 1, n))[i] = w[i - Len(b)]
<1> DEFINE c == SubSeq(w, 1, n)
<1>1. c \in Seq(Int) /\ Len(c) = n
  OBVIOUS
<1>2. \A i \in 1..n : c[i] = w[i]
  OBVIOUS
<1>3. /\ SubSeq(w, n + 1, Len(w)) \in Seq(Int)
      /\ Len(SubSeq(w, n + 1, Len(w))) = Len(w) - n
      /\ \A i \in 1..(Len(w) - n) : SubSeq(w, n + 1, Len(w))[i] = w[n + i]
  OBVIOUS
<1> HIDE DEF c
<1>4. b \o c \in Seq(Int) /\ Len(b \o c) = Len(b) + n
  BY <1>1, Concatenation
<1>5. \A i \in 1..Len(b) : (b \o c)[i] = b[i]
  BY <1>1
<1>6. ASSUME NEW i \in (Len(b) + 1)..(Len(b) + n)
      PROVE  (b \o c)[i] = w[i - Len(b)]
  <2>1. i - Len(b) \in 1..n /\ (b \o c)[i] = c[i - Len(b)]
    BY <1>1
  <2> QED
    BY <1>2, <2>1
<1> QED
  BY <1>3, <1>4, <1>5, <1>6 DEF c
-----------------------------------------------------------------------------
LEMMA InitIInv == Init => IInv
  BY StreamAssumption DEF Init, IInv

\* The invariant holds of the state after any piece the receive loop takes, and
\* the operation it completes is the next one, whole.
LEMMA PieceReceived ==
  ASSUME IInv, RecvSome
  PROVE  /\ IInv'
         /\ \/ UNCHANGED <<offered, taken, last>>
            \/ /\ taken < offered
               /\ taken' = taken + Size
               /\ last' = [i \in 1..Size |-> taken + i]
               /\ UNCHANGED offered
<1>1. PICK n \in 1..(Size - Len(buf)) :
        /\ n <= Len(wire)
        /\ wire' = SubSeq(wire, n + 1, Len(wire))
        /\ IF Len(buf) + n < Size
             THEN buf' = buf \o SubSeq(wire, 1, n) /\ UNCHANGED <<taken, last>>
             ELSE buf' = <<>> /\ taken' = taken + Size
                  /\ last' = buf \o SubSeq(wire, 1, n)
  BY DEF RecvSome
<1>2. UNCHANGED <<sender, offered, p, len, receiver>> /\ receiver = "up"
  BY DEF RecvSome
<1> DEFINE got  == buf \o SubSeq(wire, 1, n)
           rest == SubSeq(wire, n + 1, Len(wire))
<1>3. /\ n \in Nat /\ n > 0 /\ Len(buf) + n <= Size
      /\ wire \in Seq(Int) /\ buf \in Seq(Int)
      /\ Len(buf) \in Nat /\ Len(wire) \in Nat
  BY StreamAssumption DEF IInv
<1>4. /\ rest \in Seq(Int) /\ Len(rest) = Len(wire) - n
      /\ \A i \in 1..(Len(wire) - n) : rest[i] = wire[n + i]
      /\ got \in Seq(Int) /\ Len(got) = Len(buf) + n
      /\ \A i \in 1..Len(buf) : got[i] = buf[i]
      /\ \A i \in (Len(buf) + 1)..(Len(buf) + n) : got[i] = wire[i - Len(buf)]
  BY <1>1, <1>3, SplitBytes
<1>5. \A i \in 1..(Len(buf) + n) : got[i] = taken + i
  <2> SUFFICES ASSUME NEW i \in 1..(Len(buf) + n)
               PROVE  got[i] = taken + i
    OBVIOUS
  <2>1. CASE i <= Len(buf)
    BY <1>3, <1>4, <2>1 DEF IInv
  <2>2. CASE i > Len(buf)
    <3> DEFINE j == i - Len(buf)
    <3>1. j \in 1..Len(wire)
      BY <1>1, <1>3, <2>2
    <3>2. got[i] = wire[j] /\ wire[j] = taken + Len(buf) + j
      BY <1>3, <1>4, <2>2, <3>1 DEF IInv
    <3> QED
      BY <1>3, <3>2 DEF IInv
  <2> QED
    BY <1>3, <2>1, <2>2
<1>6. \A i \in 1..Len(rest) : rest[i] = taken + Len(buf) + n + i
  <2> SUFFICES ASSUME NEW i \in 1..Len(rest)
               PROVE  rest[i] = taken + Len(buf) + n + i
    OBVIOUS
  <2>1. n + i \in 1..Len(wire) /\ rest[i] = wire[n + i]
    BY <1>1, <1>3, <1>4
  <2> QED
    BY <1>3, <2>1 DEF IInv
<1>7. Len(rest) = Len(wire) - n /\ taken + Len(buf) + Len(wire) = p
  BY <1>2, <1>4 DEF IInv
<1> HIDE DEF got, rest
<1>8. wire' = rest
  BY <1>1 DEF rest
<1>9. CASE Len(buf) + n < Size
  <2>1. buf' = got /\ UNCHANGED <<taken, last>>
    BY <1>1, <1>9 DEF got
  <2>2. IInv'
    <3>1. /\ buf' \in Seq(Int) /\ wire' \in Seq(Int)
          /\ Len(buf') = Len(buf) + n /\ Len(wire') = Len(wire) - n
      BY <1>4, <1>8, <2>1
    <3>2. \A i \in 1..Len(buf') : buf'[i] = taken' + i
      BY <1>5, <2>1, <3>1
    <3>3. \A i \in 1..Len(wire') : wire'[i] = taken' + Len(buf') + i
      <4>1. taken' + Len(buf') = taken + Len(buf) + n
        BY <1>3, <2>1, <3>1 DEF IInv
      <4> QED
        BY <1>6, <1>8, <4>1
    <3>4. taken' + Len(buf') + Len(wire') = p'
      <4>1. taken' = taken /\ p' = p /\ taken \in Nat /\ p \in Nat
        BY <1>2, <2>1 DEF IInv
      <4>2. taken + (Len(buf) + n) + (Len(wire) - n) = p
        <5>1. /\ taken \in Int /\ Len(buf) \in Int /\ Len(wire) \in Int
              /\ p \in Int /\ n \in Int /\ taken + Len(buf) + Len(wire) = p
          BY <1>3, <1>7, <4>1
        <5> QED
          BY <5>1, Moved
      <4> QED
        BY <3>1, <4>1, <4>2
    <3> QED
      BY <1>2, <1>9, <2>1, <3>1, <3>2, <3>3, <3>4 DEF IInv
  <2> QED
    BY <1>2, <2>1, <2>2
<1>10. CASE Len(buf) + n = Size
  <2>1. buf' = <<>> /\ taken' = taken + Size /\ last' = got
    BY <1>1, <1>3, <1>10 DEF got
  <2>2. IInv'
    <3>1. \A i \in 1..Len(rest) : rest[i] = taken + Size + i
      BY <1>3, <1>6, <1>10 DEF IInv
    <3>2. taken + Size + Len(rest) = p
      BY <1>3, <1>7, <1>10 DEF IInv
    <3>3. buf' \in Seq(Int) /\ Len(buf') = 0 /\ wire' \in Seq(Int)
      BY <1>4, <1>8, <2>1
    <3>4. /\ taken' \in Nat
          /\ \A i \in 1..Len(buf') : buf'[i] = taken' + i
          /\ \A i \in 1..Len(wire') : wire'[i] = taken' + Len(buf') + i
          /\ taken' + Len(buf') + Len(wire') = p'
      BY <1>2, <1>8, <2>1, <3>1, <3>2, <3>3, StreamAssumption DEF IInv
    <3> QED
      BY <1>2, <3>3, <3>4, StreamAssumption DEF IInv
  <2>3. taken < offered
    BY <1>1, <1>3, <1>7, <1>10, StreamAssumption DEF IInv
  <2>4. got = [i \in 1..Size |-> got[i]]
    BY <1>4, <1>10, SequenceIsItsElements, StreamAssumption
  <2>5. last' = [i \in 1..Size |-> taken + i]
    BY <1>5, <1>10, <2>1, <2>4
  <2> QED
    BY <1>2, <2>1, <2>2, <2>3, <2>5
<1> QED
  BY <1>3, <1>9, <1>10, StreamAssumption

LEMMA PieceSent == ASSUME IInv, SendSome PROVE IInv'
<1>1. PICK n \in 1..len : /\ wire' = wire \o [i \in 1..n |-> p + i]
                          /\ Advance(n)
  BY DEF SendSome
<1> DEFINE sent == wire \o [i \in 1..n |-> p + i]
<1>2. n \in Nat /\ n <= len /\ wire \in Seq(Int) /\ p \in Int /\ Len(wire) \in Nat
  BY DEF IInv
<1>3. /\ sent \in Seq(Int) /\ Len(sent) = Len(wire) + n
      /\ \A i \in 1..Len(wire) : sent[i] = wire[i]
      /\ \A i \in (Len(wire) + 1)..(Len(wire) + n) : sent[i] = p + (i - Len(wire))
  BY <1>2, AppendedBytes
<1> HIDE DEF sent
<1>4. wire' = sent /\ UNCHANGED <<offered, receiver, buf, taken>> /\ receiver = "up"
  BY <1>1 DEF SendSome, sent
<1>5. taken + Len(buf) + Len(wire) = p /\ Len(buf) \in Nat /\ taken \in Nat
  BY <1>4 DEF IInv
<1>6. ASSUME NEW i \in 1..Len(sent) PROVE sent[i] = taken + Len(buf) + i
  <2>1. CASE i <= Len(wire)
    BY <1>2, <1>3, <2>1 DEF IInv
  <2>2. CASE i > Len(wire)
    <3>1. i \in (Len(wire) + 1)..(Len(wire) + n)
      BY <1>2, <1>3, <2>2
    <3>2. sent[i] = p + (i - Len(wire))
      BY <1>3, <3>1
    <3> QED
      BY <1>2, <1>5, <3>1, <3>2
  <2> QED
    BY <1>2, <1>3, <2>1, <2>2
<1>7. p' = p + n /\ len' = len - n
  BY <1>1 DEF Advance
<1>8. \A i \in 1..Len(wire') : wire'[i] = taken' + Len(buf') + i
  BY <1>4, <1>6
<1>9. wire' \in Seq(Int) /\ taken' + Len(buf') + Len(wire') = p'
  <2>1. /\ wire' \in Seq(Int) /\ Len(wire') = Len(wire) + n
        /\ taken' = taken /\ Len(buf') = Len(buf) /\ p' = p + n
    BY <1>3, <1>4, <1>7
  <2>2. taken + Len(buf) + (Len(wire) + n) = p + n
    BY <1>2, <1>5, Moved
  <2> QED
    BY <2>1, <2>2
<1> QED
  BY <1>2, <1>4, <1>7, <1>8, <1>9 DEF IInv

\* One step per action.
LEMMA NextIInv == IInv /\ [Next]_vars => IInv'
<1> SUFFICES ASSUME IInv, [Next]_vars PROVE IInv'
  OBVIOUS
<1>1. CASE Begin
  BY <1>1, StreamAssumption DEF IInv, Begin
<1>2. CASE SendSome
  BY <1>2, PieceSent
<1>3. CASE SendLost
  BY <1>3 DEF IInv, SendLost, Advance
<1>4. CASE SendFails
  BY <1>4 DEF IInv, SendFails
<1>5. CASE RecvSome
  BY <1>5, PieceReceived
<1>6. CASE RecvEnd
  BY <1>6 DEF IInv, RecvEnd
<1>7. CASE SenderDies
  BY <1>7 DEF IInv, SenderDies
<1>8. CASE ReceiverDies
  BY <1>8 DEF IInv, ReceiverDies
<1>9. CASE UNCHANGED vars
  BY <1>9 DEF IInv, vars
<1> QED
  BY <1>1, <1>2, <1>3, <1>4, <1>5, <1>6, <1>7, <1>8, <1>9
     DEF Next, SenderStep, ReceiverStep

\* Every step of the loops is one of the channel, or none.
LEMMA StepSimulation == IInv /\ [Next]_vars => [Channel!Next]_Channel!vars
<1> USE DEF Channel!Next, Channel!Offer, Channel!Take, Channel!Message, Channel!vars
<1> SUFFICES ASSUME IInv, [Next]_vars PROVE [Channel!Next]_Channel!vars
  OBVIOUS
<1>1. CASE Begin
  BY <1>1 DEF Begin
<1>2. CASE RecvSome
  BY <1>2, PieceReceived
<1>3. CASE SendSome \/ SendLost \/ SendFails
  BY <1>3 DEF SendSome, SendLost, SendFails
<1>4. CASE RecvEnd \/ SenderDies \/ ReceiverDies
  BY <1>4 DEF RecvEnd, SenderDies, ReceiverDies
<1>5. CASE UNCHANGED vars
  BY <1>5 DEF vars
<1> QED
  BY <1>1, <1>2, <1>3, <1>4, <1>5 DEF Next, SenderStep, ReceiverStep

\* The loops of send_all, recv_all, xsend and xrecv move whole operations in
\* order, for every size of an operation, every capacity of the connection,
\* every split of the bytes over calls, and every point at which an end dies.
THEOREM LoopsImplementChannel == Spec => ImplementsChannel
<1>1. Init => Channel!Init
  BY DEF Init, Channel!Init
<1>2. Spec => []IInv
  BY InitIInv, NextIInv, PTL DEF Spec
<1> QED
  BY <1>1, <1>2, StepSimulation, PTL DEF Spec, ImplementsChannel, Channel!Spec
=============================================================================
