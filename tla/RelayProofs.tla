---------------------------- MODULE RelayProofs ----------------------------
(***************************************************************************)
(* That thin-server never takes the reply to another request for its own,  *)
(* for any accesses and any number of them, of connections and of kills,   *)
(* as long as it is not killed between its write and its read; and that    *)
(* the steps of kernel, daemon and thin-server preserve the invariant on   *)
(* where an access is.                                                     *)
(***************************************************************************)
EXTENDS Relay, TLAPS

EmuIdle == epc # "serve"

\* What thin-server has written for the access in its hands.
UnderWay == [op |-> top, req |-> Translate(top, seq)]

\* That and nothing else is between thin-server's write and its read: in one
\* pipe, in the emulator, or its reply in the other pipe; or it was lost with
\* the emulator.
OneUnderWay ==
  \/ req_pipe = <<UnderWay>> /\ rep_pipe = <<>> /\ EmuIdle
  \/ req_pipe = <<>> /\ rep_pipe = <<>> /\ (EmuIdle \/ ereq = UnderWay)
  \/ /\ \E y : rep_pipe = <<y>> /\ y.packet_number = seq
     /\ req_pipe = <<>> /\ EmuIdle

PipesInv ==
  /\ tpc # "read" => req_pipe = <<>> /\ rep_pipe = <<>> /\ EmuIdle
  /\ tpc = "read" => OneUnderWay

\* A queue of one message is empty once it is read.
LEMMA Single ==
  ASSUME NEW x
  PROVE  /\ <<x>> # <<>> /\ Head(<<x>>) = x /\ Tail(<<x>>) = <<>>
         /\ Append(<<>>, x) = <<x>>
         /\ \A y : <<x>> = <<y>> => x = y
  OBVIOUS

\* The pipes are empty when the processes start.
LEMMA InitPipes == RelayInit => PipesInv
  BY DEF RelayInit, PipesInv, EmuIdle

\* Whoever leaves thin-server, the pipes and the emulator's request alone.
LEMMA PipesAlone ==
  ASSUME PipesInv, UNCHANGED <<seq, req_pipe, rep_pipe, epc, ereq>>,
         tpc' = "read" <=> tpc = "read", tpc = "read" => top' = top
  PROVE  PipesInv'
<1>1. tpc = "read" => UnderWay' = UnderWay
  BY DEF UnderWay
<1> QED
  BY <1>1 DEF PipesInv, OneUnderWay, EmuIdle

\* thin-server may end where it waits for nothing from the emulator.
LEMMA ServerGonePipes ==
  ASSUME PipesInv, tpc # "read", ServerGone, UNCHANGED <<epc, ereq>>
  PROVE  PipesInv'
  BY DEF PipesInv, EmuIdle, ServerGone, PipesAfterExit

\* The request thin-server writes is the only one under way.
LEMMA ThinWritePipes == ASSUME PipesInv, ThinWrite PROVE PipesInv'
<1>1. /\ tpc = "write" /\ tpc' = "read"
      /\ req_pipe' = Append(req_pipe, UnderWay')
      /\ UNCHANGED <<rep_pipe, epc, ereq>>
  BY DEF ThinWrite, emuproc, UnderWay
<1>2. req_pipe' = <<UnderWay'>> /\ rep_pipe' = <<>> /\ EmuIdle'
  BY <1>1, Single DEF PipesInv, EmuIdle
<1> QED
  BY <1>1, <1>2 DEF PipesInv, OneUnderWay

\* thin-server reads the reply, and nothing is under way.
LEMMA ThinReadPipes == ASSUME PipesInv, ThinRead PROVE PipesInv'
<1>1. /\ tpc = "read" /\ tpc' = "send" /\ rep_pipe # <<>> /\ rep_pipe' = Tail(rep_pipe)
      /\ UNCHANGED <<req_pipe, epc, ereq>>
  BY DEF ThinRead, emuproc
<1>2. PICK y : rep_pipe = <<y>> /\ req_pipe = <<>> /\ EmuIdle
  BY <1>1 DEF PipesInv, OneUnderWay
<1> QED
  BY <1>1, <1>2, Single DEF PipesInv, EmuIdle

\* The request moves from its pipe into the emulator.
LEMMA EmuReadPipes == ASSUME PipesInv, EmuRead PROVE PipesInv'
<1>1. /\ epc = "read" /\ epc' = "serve" /\ req_pipe # <<>>
      /\ ereq' = Head(req_pipe) /\ req_pipe' = Tail(req_pipe)
      /\ UNCHANGED <<tpc, seq, top, rep_pipe>>
  BY DEF EmuRead, server
<1>2. req_pipe = <<UnderWay>> /\ rep_pipe = <<>>
  BY <1>1 DEF PipesInv, OneUnderWay
<1>3. tpc = "read" /\ UnderWay' = UnderWay
  BY <1>1 DEF PipesInv, UnderWay
<1>4. req_pipe' = <<>> /\ ereq' = UnderWay
  BY <1>1, <1>2, Single
<1> QED
  BY <1>1, <1>2, <1>3, <1>4 DEF PipesInv, OneUnderWay

\* A reply has the number of its request, whichever way run() goes.
LEMMA ReplyNumber ==
  ASSUME NEW req, Serve(req)
  PROVE  rsp'.packet_number = req.packet_number
  BY DEF Serve, SkipWrite, Access, Reply

\* The emulator turns its request into the one reply.
LEMMA EmuServePipes == ASSUME PipesInv, EmuServe PROVE PipesInv'
<1>1. /\ epc = "serve" /\ epc' = "read" /\ rep_pipe' = Append(rep_pipe, rsp')
      /\ UNCHANGED <<tpc, seq, req_pipe>>
  BY DEF EmuServe, server
<1>2. rsp'.packet_number = ereq.req.packet_number
  BY ReplyNumber DEF EmuServe
<1>3. /\ tpc = "read" /\ req_pipe = <<>> /\ rep_pipe = <<>>
      /\ ereq.req.packet_number = seq
  <2>1. UnderWay.req.packet_number = seq
    BY DEF UnderWay, Translate, Transaction
  <2> QED
    BY <1>1, <2>1 DEF PipesInv, OneUnderWay, EmuIdle
<1>4. rep_pipe' = <<rsp'>>
  BY <1>1, <1>3, Single
<1> QED
  BY <1>1, <1>2, <1>3, <1>4 DEF PipesInv, OneUnderWay, EmuIdle

\* The end of the emulator loses the request it holds, if any.
LEMMA KillEmuPipes == ASSUME PipesInv, KillEmu PROVE PipesInv'
<1>1. /\ epc' = "down" /\ PipesAfterExit(tpc) /\ UNCHANGED <<ereq, tpc, seq, top>>
  BY DEF KillEmu, server
<1>2. CASE tpc # "read"
  BY <1>1, <1>2 DEF PipesInv, EmuIdle, PipesAfterExit
<1>3. CASE tpc = "read"
  <2>1. UnderWay' = UnderWay
    BY <1>1 DEF UnderWay
  <2> QED
    BY <1>1, <1>3, <2>1 DEF PipesInv, OneUnderWay, EmuIdle, PipesAfterExit
<1> QED
  BY <1>2, <1>3

\* Every step keeps the invariant.
LEMMA NextPipes ==
  ASSUME "read" \notin KillServerAt, PipesInv, [RelayNext]_vars
  PROVE  PipesInv'
<1>1. CASE Issue \/ Abandon \/ DaemonStart \/ DaemonStep \/ KillDaemon \/ UNCHANGED vars
  <2>1. UNCHANGED <<tpc, seq, top, req_pipe, rep_pipe, epc, ereq>>
    BY <1>1 DEF Issue, Abandon, DaemonStart, DaemonStep, DaemonRead, DaemonSend,
       DaemonRecv, DaemonWrite, KillDaemon, vars, server, emuproc, pipes
  <2> QED
    BY <2>1, PipesAlone
<1>2. CASE ThinStart \/ ThinAccept
  BY <1>2, PipesAlone DEF ThinStart, ThinAccept, open_pipes, emuproc, pipes
<1>3. CASE ThinRecv
  BY <1>3, PipesAlone, ServerGonePipes DEF ThinRecv, emuproc, pipes
<1>4. CASE ThinWrite
  BY <1>4, ThinWritePipes
<1>5. CASE ThinRead
  BY <1>5, ThinReadPipes
<1>6. CASE ThinSend
  BY <1>6, PipesAlone, ServerGonePipes DEF ThinSend, emuproc, pipes
<1>7. CASE EmuStart
  <2>1. UNCHANGED <<tpc, seq, top, req_pipe, rep_pipe>> /\ EmuIdle'
    BY <1>7 DEF EmuStart, server, pipes, EmuIdle
  <2>2. EmuIdle /\ UnderWay' = UnderWay
    BY <1>7, <2>1 DEF EmuStart, EmuIdle, UnderWay
  <2> QED
    BY <2>1, <2>2 DEF PipesInv, OneUnderWay
<1>8. CASE EmuRead
  BY <1>8, EmuReadPipes
<1>9. CASE EmuServe
  BY <1>9, EmuServePipes
<1>10. CASE KillServer
  BY <1>10, ServerGonePipes DEF KillServer, emuproc
<1>11. CASE KillEmu
  BY <1>11, KillEmuPipes
<1>12. CASE StopAll
  BY <1>12 DEF StopAll, PipesInv, EmuIdle
<1> QED
  BY <1>1, <1>2, <1>3, <1>4, <1>5, <1>6, <1>7, <1>8, <1>9, <1>10, <1>11, <1>12
     DEF RelayNext, ThinStep, EmuStep

\* Unless thin-server is killed between its write to request_server_pipe and its
\* read from reply_server_pipe, the reply it reads is the one to its request.
THEOREM RepliesMatch ==
  ASSUME "read" \notin KillServerAt
  PROVE  RelaySpec => []ReplyMatchesRequest
<1>1. PipesInv => ReplyMatchesRequest
  BY Single DEF PipesInv, OneUnderWay, ReplyMatchesRequest
<1>2. PipesInv /\ [RelayNext]_vars => PipesInv'
  BY NextPipes
<1> QED
  BY <1>1, <1>2, InitPipes, PTL DEF RelaySpec
-----------------------------------------------------------------------------
(* Where an access is between the kernel and the emulator *)

Ops   == [id : Nat, type : Nat, offset : Nat, value : Dword]
Conns == [d : {"open", "closed"}, s : {"open", "closed"}, up : Seq(Ops), down : Seq(Ops)]

RTypeInv ==
  /\ kpc \in {"idle", "pending", "taken"} /\ kop \in Ops
  /\ dpc \in {"down", "poll", "send", "recv", "write"} /\ sockfd \in 0..Len(conns)
  /\ tpc \in {"down", "accept", "recv", "write", "read", "send"} /\ top \in Ops
  /\ client \in 0..Len(conns) /\ backlog \in Seq(Nat)
  /\ conns \in Seq(Conns)
  /\ pending \subseteq Ops /\ performed \in Nat
  /\ rsp.data \in Dword

\* The accesses not performed are later than the last one performed.
PendingInv ==
  /\ performed <= kop.id
  /\ \A p \in pending : p.id > performed /\ p.id <= kop.id

\* The daemon's connection is the last; a server that is down or has no client
\* waiting has none.
EndsInv ==
  /\ dpc = "down" => sockfd = 0
  /\ dpc # "down" => sockfd = Len(conns) /\ sockfd # 0
  /\ \A c \in 1..Len(conns) : c # sockfd => conns[c].d = "closed"
  /\ \A c \in 1..Len(conns) : conns[c].s = "closed" => conns[c].up = <<>>
  /\ tpc = "down" => backlog = <<>>
  /\ tpc \in {"down", "accept"} /\ backlog = <<>> =>
       \A c \in 1..Len(conns) : conns[c].s = "closed"
  /\ \A i \in 1..Len(backlog) : backlog[i] \in 1..Len(conns)
  /\ tpc \notin {"down", "accept"} => client # 0

\* An access on its way to a server is not performed yet; connections made
\* later carry later ones, and those before the client's carry none.
QueueInv ==
  /\ \A c \in 1..Len(conns) :
       conns[c].up = <<>> \/ \E b \in pending : conns[c].up = <<b>>
  /\ \A c, e \in 1..Len(conns), a, b \in Ops :
       c < e /\ conns[c].up = <<a>> /\ conns[e].up = <<b>> => a.id < b.id
  /\ tpc = "accept" /\ backlog # <<>> =>
       \A c \in 1..Len(conns) : c < backlog[1] => conns[c].up = <<>>
  /\ tpc \notin {"down", "accept"} =>
       \A c \in 1..Len(conns) : c < client => conns[c].up = <<>>

\* The kernel's access is still in the kernel or in the daemon.
Fresh == kpc = "pending" \/ dpc = "send"

\* thin-server's access is on its way to the emulator.
Unserved == \/ tpc = "write"
            \/ tpc = "read" /\ (req_pipe # <<>> \/ epc = "serve")

\* The three places an access may be before it is performed, in their order.
OrderInv ==
  /\ Fresh => /\ kop \in pending
              /\ \A c \in 1..Len(conns), b \in Ops : conns[c].up = <<b>> => b.id < kop.id
  /\ Unserved => /\ top \in pending
                 /\ \A c \in 1..Len(conns), b \in Ops :
                      conns[c].up = <<b>> => top.id < b.id
                 /\ Fresh => top.id < kop.id
  /\ tpc = "read" =>
       \A y : rep_pipe = <<y>> => performed = top.id /\ y.data = rsp.data

InServer == client = sockfd /\ tpc \in {"write", "read", "send"}
Quiet    == conns[sockfd].up = <<>> /\ conns[sockfd].down = <<>> /\ ~InServer
Answer   == [kop EXCEPT !.value = rsp.data]

\* What the daemon waits for is its own access on the way there, in the server,
\* or its answer on the way back; or it is lost.
DaemonInv ==
  /\ dpc \in {"send", "recv", "write"} => kpc = "taken"
  /\ dpc = "send" => dop = kop
  /\ dpc \in {"poll", "send", "write"} => Quiet
  /\ dpc = "recv" =>
       \/ Quiet
       \/ conns[sockfd].up = <<kop>> /\ conns[sockfd].down = <<>> /\ ~InServer
       \/ /\ conns[sockfd].up = <<>> /\ conns[sockfd].down = <<>> /\ InServer
          /\ tpc # "send" => top = kop
          /\ tpc = "send" => top = Answer /\ performed = kop.id
       \/ /\ conns[sockfd].up = <<>> /\ conns[sockfd].down = <<Answer>> /\ ~InServer
          /\ performed = kop.id
  /\ dpc = "write" => dop = Answer /\ performed = kop.id

AccessInv == RTypeInv /\ PendingInv /\ EndsInv /\ QueueInv /\ OrderInv /\ DaemonInv
-----------------------------------------------------------------------------
(* Connections *)

\* Nothing under way is a sequence of operations, and so is one.
LEMMA Carried ==
  ASSUME NEW x \in Ops
  PROVE  <<>> \in Seq(Ops) /\ <<x>> \in Seq(Ops)
  OBVIOUS

\* What a transfer makes of the record of a connection.
LEMMA Transferred ==
  ASSUME NEW r \in Conns, NEW q \in Seq(Ops)
  PROVE  /\ [r EXCEPT !.up = q] \in Conns
         /\ [r EXCEPT !.up = q].d = r.d
         /\ [r EXCEPT !.up = q].s = r.s
         /\ [r EXCEPT !.up = q].up = q
         /\ [r EXCEPT !.up = q].down = r.down
         /\ [r EXCEPT !.down = q] \in Conns
         /\ [r EXCEPT !.down = q].d = r.d
         /\ [r EXCEPT !.down = q].s = r.s
         /\ [r EXCEPT !.down = q].up = r.up
         /\ [r EXCEPT !.down = q].down = q
  BY Zenon DEF Conns

\* What the daemon leaves of a connection it closes.
LEMMA ClosedByDaemon ==
  ASSUME NEW r \in Conns
  PROVE  /\ [r EXCEPT !.d = "closed", !.down = <<>>] \in Conns
         /\ [r EXCEPT !.d = "closed", !.down = <<>>].d = "closed"
         /\ [r EXCEPT !.d = "closed", !.down = <<>>].s = r.s
         /\ [r EXCEPT !.d = "closed", !.down = <<>>].up = r.up
<1>1. <<>> \in Seq(Ops)
  OBVIOUS
<1> QED
  BY <1>1, Zenon DEF Conns

\* What the server leaves of one.
LEMMA ClosedByServer ==
  ASSUME NEW r \in Conns
  PROVE  /\ [r EXCEPT !.s = "closed", !.up = <<>>] \in Conns
         /\ [r EXCEPT !.s = "closed", !.up = <<>>].s = "closed"
         /\ [r EXCEPT !.s = "closed", !.up = <<>>].d = r.d
         /\ [r EXCEPT !.s = "closed", !.up = <<>>].up = <<>>
         /\ [r EXCEPT !.s = "closed", !.up = <<>>].down = r.down
<1>1. <<>> \in Seq(Ops)
  OBVIOUS
<1> QED
  BY <1>1, Zenon DEF Conns

\* Replacing one connection leaves the others.
LEMMA OneConnection ==
  ASSUME NEW cs \in Seq(Conns), NEW k \in 1..Len(cs), NEW v \in Conns
  PROVE  /\ [cs EXCEPT ![k] = v] \in Seq(Conns)
         /\ Len([cs EXCEPT ![k] = v]) = Len(cs)
         /\ [cs EXCEPT ![k] = v][k] = v
         /\ \A c \in 1..Len(cs) : c # k => [cs EXCEPT ![k] = v][c] = cs[c]
  OBVIOUS

\* The daemon closes its connection, if it has one.
LEMMA DaemonEnd ==
  ASSUME conns \in Seq(Conns), sockfd \in 0..Len(conns)
  PROVE  /\ CloseDaemonEnd \in Seq(Conns) /\ Len(CloseDaemonEnd) = Len(conns)
         /\ \A c \in 1..Len(conns) :
              /\ CloseDaemonEnd[c].s = conns[c].s
              /\ CloseDaemonEnd[c].up = conns[c].up
              /\ CloseDaemonEnd[c].d =
                   IF c = sockfd THEN "closed" ELSE conns[c].d
<1>1. CASE sockfd = 0
  BY <1>1 DEF CloseDaemonEnd
<1>2. CASE sockfd # 0
  <2> DEFINE v == [conns[sockfd] EXCEPT !.d = "closed", !.down = <<>>]
  <2>1. sockfd \in 1..Len(conns) /\ conns[sockfd] \in Conns
    BY <1>2
  <2>2. /\ v \in Conns /\ v.s = conns[sockfd].s /\ v.up = conns[sockfd].up
        /\ v.d = "closed"
    BY <2>1, ClosedByDaemon, Zenon
  <2>3. CloseDaemonEnd = [conns EXCEPT ![sockfd] = v]
    BY <1>2, <2>1 DEF CloseDaemonEnd
  <2> HIDE DEF v
  <2>4. /\ CloseDaemonEnd \in Seq(Conns) /\ Len(CloseDaemonEnd) = Len(conns)
        /\ CloseDaemonEnd[sockfd] = v
        /\ \A c \in 1..Len(conns) : c # sockfd => CloseDaemonEnd[c] = conns[c]
    BY <2>1, <2>2, <2>3, OneConnection
  <2> QED
    BY <2>2, <2>4
<1> QED
  BY <1>1, <1>2

\* The server closes all of them.
LEMMA ServerEnds ==
  ASSUME NEW cs \in Seq(Conns)
  PROVE  /\ CloseServerEnds(cs) \in Seq(Conns) /\ Len(CloseServerEnds(cs)) = Len(cs)
         /\ \A c \in 1..Len(cs) :
              /\ CloseServerEnds(cs)[c].s = "closed"
              /\ CloseServerEnds(cs)[c].up = <<>>
              /\ CloseServerEnds(cs)[c].d = cs[c].d
              /\ CloseServerEnds(cs)[c].down = cs[c].down
<1> DEFINE v(c) == [cs[c] EXCEPT !.s = "closed", !.up = <<>>]
<1>1. CloseServerEnds(cs) = [c \in 1..Len(cs) |-> v(c)]
  <2>1. DOMAIN cs = 1..Len(cs)
    OBVIOUS
  <2> QED
    BY <2>1, Zenon DEF CloseServerEnds
<1>2. \A c \in 1..Len(cs) : cs[c] \in Conns
  OBVIOUS
<1>3. \A c \in 1..Len(cs) : /\ v(c) \in Conns /\ v(c).s = "closed" /\ v(c).up = <<>>
                            /\ v(c).d = cs[c].d /\ v(c).down = cs[c].down
  BY <1>2, ClosedByServer, Zenon
<1> HIDE DEF v
<1>4. Len(cs) \in Nat
  OBVIOUS
<1> QED
  BY <1>1, <1>3, <1>4
-----------------------------------------------------------------------------
(* What most steps keep *)

\* No end is opened or closed.
LEMMA EndsKept ==
  ASSUME EndsInv, Len(conns') = Len(conns), UNCHANGED <<sockfd, client, backlog>>,
         \A c \in 1..Len(conns) :
           /\ conns'[c].d = conns[c].d /\ conns'[c].s = conns[c].s
           /\ conns'[c].s = "closed" => conns'[c].up = conns[c].up,
         dpc' = "down" <=> dpc = "down",
         tpc' = tpc \/ {tpc, tpc'} \cap {"down", "accept"} = {}
  PROVE  EndsInv'
  BY DEF EndsInv

\* No access is put on its way.
LEMMA QueueKept ==
  ASSUME QueueInv, Len(conns') = Len(conns), UNCHANGED <<client, backlog>>,
         \A c \in 1..Len(conns) : conns'[c].up = conns[c].up \/ conns'[c].up = <<>>,
         \A c \in 1..Len(conns), b \in pending : conns[c].up = <<b>> => b \in pending',
         tpc' = tpc \/ {tpc, tpc'} \cap {"down", "accept"} = {}
  PROVE  QueueInv'
<1>1. \A b : <<b>> # <<>>
  BY Single
<1> QED
  BY <1>1 DEF QueueInv

\* The accesses not performed stay where they are.
LEMMA OrderKept ==
  ASSUME OrderInv, Len(conns') = Len(conns),
         \A c \in 1..Len(conns) : conns'[c].up = conns[c].up \/ conns'[c].up = <<>>,
         Fresh' => Fresh /\ kop' = kop /\ kop \in pending',
         Unserved' => Unserved /\ top' = top /\ top \in pending',
         tpc' = "read" => \/ rep_pipe' = <<>>
                          \/ tpc = "read" /\ UNCHANGED <<rep_pipe, performed, top, rsp>>
  PROVE  OrderInv'
<1>1. \A b : <<b>> # <<>>
  BY Single
<1> QED
  BY <1>1 DEF OrderInv

\* The daemon and its access are left alone.
LEMMA DaemonKept ==
  ASSUME DaemonInv, UNCHANGED <<kpc, kop, dpc, dop, sockfd, rsp, performed>>,
         dpc # "down" => /\ conns'[sockfd].up = conns[sockfd].up
                         /\ conns'[sockfd].down = conns[sockfd].down,
         InServer' <=> InServer,
         InServer => UNCHANGED top /\ (tpc' = "send" <=> tpc = "send")
  PROVE  DaemonInv'
<1>1. Answer' = Answer
  BY DEF Answer
<1> QED
  BY <1>1 DEF DaemonInv, Quiet
-----------------------------------------------------------------------------
(* The steps of the kernel and the daemon *)

\* An access is numbered when it is issued, and answered by its value.
LEMMA OpFields ==
  /\ \A op \in KernelOps, n \in Nat : /\ [op EXCEPT !.id = n] \in Ops
                                      /\ [op EXCEPT !.id = n].id = n
  /\ \A op \in Ops, v \in Dword : /\ [op EXCEPT !.value = v] \in Ops
                                  /\ [op EXCEPT !.value = v].id = op.id
<1>1. KernelOps \subseteq Ops
  <2>1. AVERY_OP_WRITE \in Nat /\ AVERY_OP_READ \in Nat /\ 0 \in Nat
    BY SMT DEF AVERY_OP_WRITE, AVERY_OP_READ
  <2>2. [id : {0}, type : {AVERY_OP_WRITE, AVERY_OP_READ}, offset : Nat, value : Dword]
          \subseteq Ops
    BY <2>1, Zenon DEF Ops
  <2> QED
    BY <2>2, RelayAssumption
<1>2. \A op \in Ops, n \in Nat : /\ [op EXCEPT !.id = n] \in Ops
                                 /\ [op EXCEPT !.id = n].id = n
  BY Zenon DEF Ops
<1>3. \A op \in Ops, v \in Dword : /\ [op EXCEPT !.value = v] \in Ops
                                   /\ [op EXCEPT !.value = v].id = op.id
  BY Zenon DEF Ops
<1> QED
  BY <1>1, <1>2, <1>3

\* The numbers of accesses are numbers.
LEMMA Numbers ==
  ASSUME RTypeInv
  PROVE  /\ kop.id \in Nat /\ top.id \in Nat /\ performed \in Nat
         /\ \A p \in pending : p \in Ops /\ p.id \in Nat
         /\ \A p \in Ops : p.id \in Nat
  BY DEF RTypeInv, Ops

\* A new access is later than all before it.
LEMMA IssueAccess == ASSUME AccessInv, Issue PROVE AccessInv'
<1>1. PICK op \in KernelOps : kop' = [op EXCEPT !.id = kop.id + 1]
  BY DEF Issue
<1>2. /\ kpc = "idle" /\ kpc' = "pending" /\ pending' = pending \cup {kop'}
      /\ UNCHANGED <<performed, dpc, dop, sockfd, tpc, top, client, backlog, rsp, epc,
                     conns, req_pipe, rep_pipe>>
  BY DEF Issue, daemon, server, emuproc, emu, pipes
<1>3. kop' \in Ops /\ kop'.id = kop.id + 1
  BY <1>1, Numbers, OpFields DEF AccessInv
<1>4. RTypeInv'
  BY <1>2, <1>3 DEF AccessInv, RTypeInv
<1>5. PendingInv'
  BY <1>2, <1>3, Numbers DEF AccessInv, PendingInv
<1>6. EndsInv'
  BY <1>2, EndsKept DEF AccessInv
<1>7. QueueInv'
  BY <1>2, QueueKept DEF AccessInv
<1>8. \A p \in pending : p.id < kop'.id
  BY <1>3, Numbers DEF AccessInv, PendingInv
<1>9. OrderInv'
  <2>1. \A c \in 1..Len(conns), b \in Ops : conns[c].up = <<b>> => b \in pending
    BY Single DEF AccessInv, QueueInv
  <2>2. Unserved' = Unserved
    BY <1>2 DEF Unserved
  <2>3. Unserved => top \in pending
    BY DEF AccessInv, OrderInv
  <2> QED
    BY <1>2, <1>8, <2>1, <2>2, <2>3 DEF AccessInv, OrderInv
<1>10. DaemonInv'
  <2>1. dpc \notin {"send", "recv", "write"}
    BY <1>2 DEF AccessInv, DaemonInv
  <2> QED
    BY <1>2, <2>1 DEF AccessInv, DaemonInv, Quiet, InServer
<1> QED
  BY <1>4, <1>5, <1>6, <1>7, <1>9, <1>10 DEF AccessInv

\* Steps that only move the kernel's access on, into the daemon or out of it.
LEMMA KernelMoves ==
  ASSUME AccessInv, Abandon \/ DaemonRead \/ DaemonWrite
  PROVE  AccessInv'
<1>1. UNCHANGED <<kop, sockfd, tpc, top, client, backlog, rsp, epc, conns, req_pipe,
                  rep_pipe, pending, performed>>
  BY DEF Abandon, DaemonRead, DaemonWrite, daemon, server, emuproc, emu, pipes, history
<1>2. \/ kpc' = "idle" /\ UNCHANGED <<dpc, dop>> /\ dpc \in {"down", "poll"}
      \/ /\ kpc = "pending" /\ kpc' = "taken" /\ dpc = "poll" /\ dpc' = "send"
         /\ dop' = kop
      \/ kpc' = "idle" /\ dpc = "write" /\ dpc' = "poll"
  BY DEF Abandon, Orphaned, DaemonRead, DaemonWrite, daemon
<1>3. RTypeInv'
  BY <1>1, <1>2 DEF AccessInv, RTypeInv
<1>4. PendingInv'
  BY <1>1 DEF AccessInv, PendingInv
<1>5. EndsInv'
  BY <1>1, <1>2, EndsKept DEF AccessInv
<1>6. QueueInv'
  BY <1>1, QueueKept DEF AccessInv
<1>7. OrderInv'
  <2>1. Fresh' => Fresh
    BY <1>2 DEF Fresh
  <2>2. Unserved' = Unserved
    BY <1>1 DEF Unserved
  <2> QED
    BY <1>1, <2>1, <2>2 DEF AccessInv, OrderInv
<1>8. DaemonInv'
  <2>1. Quiet' = Quiet
    BY <1>1 DEF Quiet, InServer
  <2> QED
    BY <1>1, <1>2, <2>1 DEF AccessInv, DaemonInv
<1> QED
  BY <1>3, <1>4, <1>5, <1>6, <1>7, <1>8 DEF AccessInv

\* A new daemon has a new connection, the last.
LEMMA DaemonStartAccess == ASSUME AccessInv, DaemonStart PROVE AccessInv'
<1>1. /\ dpc = "down" /\ dpc' = "poll" /\ tpc # "down"
      /\ conns' = Append(conns, Connection) /\ sockfd' = Len(conns')
      /\ backlog' = Append(backlog, sockfd')
      /\ UNCHANGED <<dop, kpc, kop, tpc, top, client, rsp, epc, req_pipe, rep_pipe,
                     pending, performed>>
  BY DEF DaemonStart, connect_remote, kernel, emuproc, emu, pipes, history
<1>2. Connection \in Conns
  BY Carried DEF Connection, Conns
<1>3. /\ conns' \in Seq(Conns) /\ Len(conns') = Len(conns) + 1 /\ Len(conns) \in Nat
      /\ conns'[Len(conns) + 1] = Connection
      /\ \A c \in 1..Len(conns) : conns'[c] = conns[c]
      /\ client \in 0..Len(conns)
  BY <1>1, <1>2 DEF AccessInv, RTypeInv
<1>4. /\ \A c \in 1..Len(conns') : c \in 1..Len(conns) \/ c = Len(conns) + 1
      /\ Connection.d = "open" /\ Connection.s = "open"
      /\ Connection.up = <<>> /\ Connection.down = <<>>
  BY <1>3 DEF Connection
<1>5. /\ backlog' \in Seq(Nat) /\ backlog' # <<>>
      /\ \A i \in 1..Len(backlog') : backlog'[i] \in 1..Len(conns')
      /\ backlog # <<>> => backlog'[1] = backlog[1]
      /\ backlog = <<>> => backlog'[1] = Len(conns) + 1
  <2>1. backlog \in Seq(Nat) /\ sockfd' \in Nat /\ sockfd' = Len(conns) + 1
    BY <1>1, <1>3 DEF AccessInv, RTypeInv
  <2>2. /\ backlog' \in Seq(Nat) /\ Len(backlog') = Len(backlog) + 1 /\ Len(backlog) \in Nat
        /\ backlog'[Len(backlog) + 1] = Len(conns) + 1
        /\ \A i \in 1..Len(backlog) : backlog'[i] = backlog[i]
    BY <1>1, <2>1
  <2>3. \A i \in 1..Len(backlog) : backlog[i] \in 1..Len(conns)
    BY DEF AccessInv, EndsInv
  <2>4. backlog # <<>> => 1 \in 1..Len(backlog)
    BY <2>1
  <2>5. backlog = <<>> => Len(backlog) = 0
    OBVIOUS
  <2>6. backlog' # <<>>
    BY <1>1, <2>1
  <2>7. \A i \in 1..Len(backlog') : backlog'[i] \in 1..Len(conns')
    <3> SUFFICES ASSUME NEW i \in 1..(Len(backlog) + 1) PROVE backlog'[i] \in 1..(Len(conns) + 1)
      BY <1>3, <2>2
    <3>1. CASE i = Len(backlog) + 1
      BY <1>3, <2>2, <3>1
    <3>2. CASE i \in 1..Len(backlog)
      <4>1. backlog'[i] \in 1..Len(conns)
        BY <2>2, <2>3, <3>2
      <4> QED
        BY <1>3, <4>1
    <3> QED
      BY <2>2, <3>1, <3>2
  <2>8. backlog = <<>> => backlog'[1] = Len(conns) + 1
    BY <2>2, <2>5
  <2> QED
    BY <2>2, <2>4, <2>6, <2>7, <2>8
<1>6. RTypeInv'
  BY <1>1, <1>3, <1>5 DEF AccessInv, RTypeInv
<1>7. PendingInv'
  BY <1>1 DEF AccessInv, PendingInv
<1>8. EndsInv'
  <2>1. sockfd = 0 /\ sockfd' = Len(conns) + 1
    BY <1>1, <1>3 DEF AccessInv, EndsInv
  <2>2. \A c \in 1..Len(conns) : /\ conns[c].d = "closed"
                                 /\ conns[c].s = "closed" => conns[c].up = <<>>
    BY <2>1 DEF AccessInv, EndsInv
  <2>3. tpc \notin {"down", "accept"} => client # 0
    BY DEF AccessInv, EndsInv
  <2> QED
    BY <1>1, <1>3, <1>4, <1>5, <2>1, <2>2, <2>3 DEF EndsInv
<1>9. QueueInv'
  <2>1. \A c \in 1..Len(conns') : conns'[c].up # <<>> =>
          c \in 1..Len(conns) /\ conns'[c].up = conns[c].up
    BY <1>3, <1>4
  <2>2. \A b : <<b>> # <<>>
    BY Single
  <2>3. \A c \in 1..Len(conns) :
          conns[c].up = <<>> \/ \E b \in pending : conns[c].up = <<b>>
    BY DEF AccessInv, QueueInv
  <2>4. (\A c \in 1..Len(conns) :
           conns[c].up = <<>> \/ \E b \in pending : conns[c].up = <<b>>)'
    BY <1>1, <2>1, <2>3
  <2>5. (\A c, e \in 1..Len(conns), a, b \in Ops :
           c < e /\ conns[c].up = <<a>> /\ conns[e].up = <<b>> => a.id < b.id)'
    BY <2>1, <2>2 DEF AccessInv, QueueInv
  <2>6. (tpc = "accept" /\ backlog # <<>> =>
           \A c \in 1..Len(conns) : c < backlog[1] => conns[c].up = <<>>)'
    <3>1. CASE backlog # <<>>
      BY <1>1, <1>5, <2>1, <3>1 DEF AccessInv, QueueInv
    <3>2. CASE backlog = <<>> /\ tpc = "accept"
      BY <2>1, <3>2 DEF AccessInv, EndsInv
    <3> QED
      BY <1>1, <3>1, <3>2
  <2>7. (tpc \notin {"down", "accept"} =>
           \A c \in 1..Len(conns) : c < client => conns[c].up = <<>>)'
    BY <1>1, <2>1 DEF AccessInv, QueueInv
  <2> QED
    BY <2>4, <2>5, <2>6, <2>7 DEF QueueInv
<1>10. OrderInv'
  <2>1. \A c \in 1..Len(conns') : conns'[c].up # <<>> =>
          c \in 1..Len(conns) /\ conns'[c].up = conns[c].up
    BY <1>3, <1>4
  <2>2. \A b : <<b>> # <<>>
    BY Single
  <2>3. (Fresh' => Fresh) /\ Unserved' = Unserved
    BY <1>1 DEF Fresh, Unserved
  <2> QED
    BY <1>1, <2>1, <2>2, <2>3 DEF AccessInv, OrderInv
<1>11. DaemonInv'
  <2>1. Quiet'
    BY <1>1, <1>3, <1>4 DEF Quiet, InServer
  <2> QED
    BY <1>1, <2>1 DEF DaemonInv
<1> QED
  BY <1>6, <1>7, <1>8, <1>9, <1>10, <1>11 DEF AccessInv

\* A daemon that is gone waits for nothing; what it has sent stays.
LEMMA DaemonGoneAccess ==
  ASSUME AccessInv, DaemonGone, UNCHANGED <<kernel, server, emuproc, pipes, history>>
  PROVE  AccessInv'
<1>1. /\ dpc' = "down" /\ sockfd' = 0 /\ conns' = CloseDaemonEnd
      /\ UNCHANGED <<kpc, kop, tpc, top, client, backlog, rsp, epc, req_pipe, rep_pipe,
                     pending, performed>>
  BY DEF DaemonGone, kernel, server, emuproc, emu, pipes, history
<1>2. /\ conns' \in Seq(Conns) /\ Len(conns') = Len(conns)
      /\ \A c \in 1..Len(conns) :
           /\ conns'[c].s = conns[c].s /\ conns'[c].up = conns[c].up
           /\ conns'[c].d = IF c = sockfd THEN "closed" ELSE conns[c].d
  BY <1>1, DaemonEnd DEF AccessInv, RTypeInv
<1>3. RTypeInv'
  <2>1. 0 \in 0..Len(conns)
    BY DEF AccessInv, RTypeInv
  <2> QED
    BY <1>1, <1>2, <2>1 DEF AccessInv, RTypeInv
<1>4. PendingInv'
  BY <1>1 DEF AccessInv, PendingInv
<1>5. EndsInv'
  BY <1>1, <1>2 DEF AccessInv, EndsInv
<1>6. QueueInv'
  BY <1>1, <1>2, QueueKept DEF AccessInv
<1>7. OrderInv'
  <2>1. (Fresh' => Fresh) /\ Unserved' = Unserved
    BY <1>1 DEF Fresh, Unserved
  <2>2. (Fresh => kop \in pending) /\ (Unserved => top \in pending)
    BY DEF AccessInv, OrderInv
  <2> QED
    BY <1>1, <1>2, <2>1, <2>2, OrderKept DEF AccessInv
<1>8. DaemonInv'
  BY <1>1 DEF DaemonInv
<1> QED
  BY <1>3, <1>4, <1>5, <1>6, <1>7, <1>8 DEF AccessInv

\* The daemon puts its access on the way, the latest of all.
LEMMA DaemonSendAccess == ASSUME AccessInv, DaemonSend PROVE AccessInv'
<1>1. /\ dpc = "send"
      /\ UNCHANGED <<kpc, kop, tpc, top, client, backlog, rsp, epc, req_pipe, rep_pipe,
                     pending, performed>>
  BY DEF DaemonSend, kernel, server, emuproc, emu, pipes, history
<1>2. /\ dop = kop /\ kpc = "taken" /\ Quiet /\ kop \in pending
      /\ sockfd = Len(conns) /\ sockfd \in 1..Len(conns)
  BY <1>1 DEF AccessInv, DaemonInv, EndsInv, OrderInv, Fresh, RTypeInv
<1>3. CASE DaemonGone
  BY <1>3, DaemonGoneAccess DEF DaemonSend
<1>4. CASE dpc' = "recv" /\ UNCHANGED <<dop, sockfd, conns>>
  <2>1. RTypeInv'
    BY <1>1, <1>4 DEF AccessInv, RTypeInv
  <2>2. PendingInv'
    BY <1>1 DEF AccessInv, PendingInv
  <2>3. EndsInv'
    BY <1>1, <1>4, EndsKept DEF AccessInv
  <2>4. QueueInv'
    BY <1>1, <1>4, QueueKept DEF AccessInv
  <2>5. OrderInv'
    <3>1. ~Fresh' /\ Unserved' = Unserved
      BY <1>1, <1>2, <1>4 DEF Fresh, Unserved
    <3> QED
      BY <1>1, <1>4, <3>1 DEF AccessInv, OrderInv
  <2>6. DaemonInv'
    <3>1. Quiet'
      BY <1>1, <1>2, <1>4 DEF Quiet, InServer
    <3> QED
      BY <1>1, <1>2, <1>4, <3>1 DEF DaemonInv
  <2> QED
    BY <2>1, <2>2, <2>3, <2>4, <2>5, <2>6 DEF AccessInv
<1>5. CASE /\ conns[sockfd].s = "open"
           /\ conns' = [conns EXCEPT ![sockfd].up = Append(@, dop)]
           /\ dpc' = "recv" /\ UNCHANGED <<dop, sockfd>>
  <2> DEFINE v == [conns[sockfd] EXCEPT !.up = <<kop>>]
  <2>1. conns[sockfd] \in Conns /\ conns \in Seq(Conns) /\ <<kop>> \in Seq(Ops)
    BY <1>2, Carried DEF AccessInv, RTypeInv
  <2>2. conns' = [conns EXCEPT ![sockfd] = v]
    <3>1. Append(conns[sockfd].up, dop) = <<kop>>
      BY <1>2, Single DEF Quiet
    <3> QED
      BY <1>5, <2>1, <3>1
  <2>3. /\ v \in Conns /\ v.up = <<kop>> /\ v.d = conns[sockfd].d
        /\ v.s = conns[sockfd].s /\ v.down = conns[sockfd].down
    BY <2>1, Transferred, Zenon
  <2> HIDE DEF v
  <2>4. /\ conns' \in Seq(Conns) /\ Len(conns') = Len(conns) /\ conns'[sockfd] = v
        /\ \A c \in 1..Len(conns) : c # sockfd => conns'[c] = conns[c]
    BY <1>2, <2>1, <2>2, <2>3, OneConnection
  <2>5. RTypeInv'
    BY <1>1, <1>5, <2>4 DEF AccessInv, RTypeInv
  <2>6. PendingInv'
    BY <1>1 DEF AccessInv, PendingInv
  <2>7. EndsInv'
    <3>1. \A c \in 1..Len(conns) :
            /\ conns'[c].d = conns[c].d /\ conns'[c].s = conns[c].s
            /\ conns'[c].s = "closed" => conns'[c].up = conns[c].up
      BY <1>5, <2>3, <2>4
    <3> QED
      BY <1>1, <1>5, <2>4, <3>1, EndsKept DEF AccessInv
  <2>8. \A c \in 1..Len(conns), b \in Ops : conns[c].up = <<b>> => b.id < kop.id
    BY <1>1 DEF AccessInv, OrderInv, Fresh
  <2>9. \A b : \A c \in 1..Len(conns) :
          conns'[c].up = <<b>> => \/ c = sockfd /\ b = kop
                                  \/ c # sockfd /\ conns[c].up = <<b>>
    BY <2>3, <2>4, Single
  <2>10. QueueInv'
    <3>1. (\A c \in 1..Len(conns) :
             conns[c].up = <<>> \/ \E b \in pending : conns[c].up = <<b>>)'
      BY <1>1, <1>2, <2>3, <2>4 DEF AccessInv, QueueInv
    <3>2. (\A c, e \in 1..Len(conns), a, b \in Ops :
             c < e /\ conns[c].up = <<a>> /\ conns[e].up = <<b>> => a.id < b.id)'
      <4> SUFFICES ASSUME NEW c \in 1..Len(conns), NEW e \in 1..Len(conns),
                          NEW a \in Ops, NEW b \in Ops, c < e,
                          conns'[c].up = <<a>>, conns'[e].up = <<b>>
                   PROVE  a.id < b.id
        BY <2>4
      <4>1. c # sockfd
        BY <1>2
      <4>2. conns[c].up = <<a>>
        BY <2>9, <4>1
      <4>3. CASE e = sockfd
        BY <2>8, <2>9, <4>2, <4>3
      <4>4. CASE e # sockfd
        BY <2>9, <4>2, <4>4 DEF AccessInv, QueueInv
      <4> QED
        BY <4>3, <4>4
    <3>3. (tpc = "accept" /\ backlog # <<>> =>
             \A c \in 1..Len(conns) : c < backlog[1] => conns[c].up = <<>>)'
      <4>1. backlog # <<>> => backlog[1] \in 1..Len(conns)
        <5>1. backlog # <<>> => 1 \in 1..Len(backlog)
          BY DEF AccessInv, RTypeInv
        <5> QED
          BY <5>1 DEF AccessInv, EndsInv
      <4>2. backlog # <<>> => ~(sockfd < backlog[1])
        BY <1>2, <4>1
      <4> QED
        BY <1>1, <2>4, <4>2 DEF AccessInv, QueueInv
    <3>4. (tpc \notin {"down", "accept"} =>
             \A c \in 1..Len(conns) : c < client => conns[c].up = <<>>)'
      <4>1. ~(sockfd < client)
        BY <1>2 DEF AccessInv, RTypeInv
      <4> QED
        BY <1>1, <2>4, <4>1 DEF AccessInv, QueueInv
    <3> QED
      BY <3>1, <3>2, <3>3, <3>4 DEF QueueInv
  <2>11. OrderInv'
    <3>1. ~Fresh' /\ Unserved' = Unserved /\ Fresh
      BY <1>1, <1>2, <1>5 DEF Fresh, Unserved
    <3> QED
      BY <1>1, <1>2, <2>4, <2>9, <3>1 DEF AccessInv, OrderInv
  <2>12. DaemonInv'
    <3>1. /\ conns'[sockfd'].up = <<kop>> /\ conns'[sockfd'].down = <<>> /\ ~InServer'
      BY <1>1, <1>2, <1>5, <2>3, <2>4 DEF Quiet, InServer
    <3> QED
      BY <1>1, <1>2, <1>5, <3>1 DEF DaemonInv
  <2> QED
    BY <2>5, <2>6, <2>7, <2>10, <2>11, <2>12 DEF AccessInv
<1> QED
  BY <1>3, <1>4, <1>5 DEF DaemonSend

\* What the daemon takes from its connection is the answer to its access.
LEMMA DaemonRecvAccess == ASSUME AccessInv, DaemonRecv PROVE AccessInv'
<1>1. /\ dpc = "recv"
      /\ UNCHANGED <<kpc, kop, tpc, top, client, backlog, rsp, epc, req_pipe, rep_pipe,
                     pending, performed>>
  BY DEF DaemonRecv, kernel, server, emuproc, emu, pipes, history
<1>2. sockfd \in 1..Len(conns) /\ kpc = "taken"
  BY <1>1 DEF AccessInv, DaemonInv, EndsInv, RTypeInv
<1>3. CASE DaemonGone
  BY <1>3, DaemonGoneAccess DEF DaemonRecv
<1>4. CASE /\ conns[sockfd].down # <<>> /\ dop' = Head(conns[sockfd].down)
           /\ conns' = [conns EXCEPT ![sockfd].down = Tail(@)]
           /\ dpc' = "write" /\ UNCHANGED sockfd
  <2>1. /\ conns[sockfd].up = <<>> /\ conns[sockfd].down = <<Answer>> /\ ~InServer
        /\ performed = kop.id
    BY <1>1, <1>4 DEF AccessInv, DaemonInv, Quiet
  <2> DEFINE v == [conns[sockfd] EXCEPT !.down = <<>>]
  <2>2. conns[sockfd] \in Conns /\ conns \in Seq(Conns) /\ <<>> \in Seq(Ops)
    BY <1>2 DEF AccessInv, RTypeInv
  <2>3. conns' = [conns EXCEPT ![sockfd] = v] /\ dop' = Answer
    <3>1. Tail(conns[sockfd].down) = <<>> /\ Head(conns[sockfd].down) = Answer
      BY <2>1, Single
    <3> QED
      BY <1>4, <2>2, <3>1
  <2>4. /\ v \in Conns /\ v.up = conns[sockfd].up /\ v.d = conns[sockfd].d
        /\ v.s = conns[sockfd].s /\ v.down = <<>>
    BY <2>2, Transferred, Zenon
  <2> HIDE DEF v
  <2>5. /\ conns' \in Seq(Conns) /\ Len(conns') = Len(conns) /\ conns'[sockfd] = v
        /\ \A c \in 1..Len(conns) : c # sockfd => conns'[c] = conns[c]
    BY <1>2, <2>2, <2>3, <2>4, OneConnection
  <2>6. \A c \in 1..Len(conns) : /\ conns'[c].d = conns[c].d /\ conns'[c].s = conns[c].s
                                 /\ conns'[c].up = conns[c].up
    BY <2>4, <2>5
  <2>7. RTypeInv'
    BY <1>1, <1>4, <2>5 DEF AccessInv, RTypeInv
  <2>8. PendingInv'
    BY <1>1 DEF AccessInv, PendingInv
  <2>9. EndsInv'
    BY <1>1, <1>4, <2>5, <2>6, EndsKept DEF AccessInv
  <2>10. QueueInv'
    BY <1>1, <2>5, <2>6, QueueKept DEF AccessInv
  <2>11. OrderInv'
    <3>1. ~Fresh' /\ Unserved' = Unserved
      BY <1>1, <1>2, <1>4 DEF Fresh, Unserved
    <3>2. Unserved => top \in pending
      BY DEF AccessInv, OrderInv
    <3> QED
      BY <1>1, <2>5, <2>6, <3>1, <3>2, OrderKept DEF AccessInv
  <2>12. DaemonInv'
    <3>1. Quiet' /\ Answer' = Answer
      BY <1>1, <1>4, <2>1, <2>4, <2>5 DEF Quiet, InServer, Answer
    <3> QED
      BY <1>1, <1>2, <1>4, <2>1, <2>3, <3>1 DEF DaemonInv
  <2> QED
    BY <2>7, <2>8, <2>9, <2>10, <2>11, <2>12 DEF AccessInv
<1> QED
  BY <1>3, <1>4 DEF DaemonRecv-----------------------------------------------------------------------------
(* The steps of thin-server *)

\* thin-server starts with no connection and no client waiting.
LEMMA ThinStartAccess == ASSUME AccessInv, ThinStart PROVE AccessInv'
<1>1. /\ tpc = "down" /\ tpc' = "accept"
      /\ UNCHANGED <<kpc, kop, dpc, dop, sockfd, top, client, backlog, rsp, epc, conns,
                     req_pipe, rep_pipe, pending, performed>>
  BY DEF ThinStart, open_pipes, kernel, daemon, emuproc, emu, history
<1>2. RTypeInv' /\ PendingInv'
  BY <1>1 DEF AccessInv, RTypeInv, PendingInv
<1>3. EndsInv'
  BY <1>1 DEF AccessInv, EndsInv
<1>4. QueueInv'
  <2>1. backlog = <<>>
    BY <1>1 DEF AccessInv, EndsInv
  <2> QED
    BY <1>1, <2>1 DEF AccessInv, QueueInv
<1>5. OrderInv'
  <2>1. Fresh' = Fresh /\ ~Unserved'
    BY <1>1 DEF Fresh, Unserved
  <2> QED
    BY <1>1, <2>1 DEF AccessInv, OrderInv
<1>6. DaemonInv'
  <2>1. InServer' = InServer /\ ~InServer
    BY <1>1 DEF InServer
  <2> QED
    BY <1>1, <2>1, DaemonKept DEF AccessInv
<1> QED
  BY <1>2, <1>3, <1>4, <1>5, <1>6 DEF AccessInv

\* The client is the first of the connections that wait: nothing is on its
\* way on those before it.
LEMMA ThinAcceptAccess == ASSUME AccessInv, ThinAccept PROVE AccessInv'
<1>1. /\ tpc = "accept" /\ tpc' = "recv" /\ backlog # <<>>
      /\ client' = Head(backlog) /\ backlog' = Tail(backlog)
      /\ UNCHANGED <<kpc, kop, dpc, dop, sockfd, top, rsp, epc, conns, req_pipe,
                     rep_pipe, pending, performed>>
  BY DEF ThinAccept, kernel, daemon, emuproc, emu, pipes, history
<1>2. /\ backlog \in Seq(Nat) /\ \A i \in 1..Len(backlog) : backlog[i] \in 1..Len(conns)
  BY DEF AccessInv, RTypeInv, EndsInv
<1>3. /\ client' = backlog[1] /\ client' \in 1..Len(conns)
      /\ backlog' \in Seq(Nat)
      /\ \A i \in 1..Len(backlog') : backlog'[i] \in 1..Len(conns)
  <2>1. 1 \in 1..Len(backlog) /\ Head(backlog) = backlog[1]
    BY <1>1, <1>2
  <2>2. /\ backlog' \in Seq(Nat) /\ Len(backlog') = Len(backlog) - 1
        /\ \A i \in 1..(Len(backlog) - 1) : backlog'[i] = backlog[i + 1]
    BY <1>1, <1>2
  <2>3. \A i \in 1..(Len(backlog) - 1) : i + 1 \in 1..Len(backlog)
    BY <1>2
  <2> QED
    BY <1>1, <1>2, <2>1, <2>2, <2>3
<1>4. RTypeInv' /\ PendingInv'
  BY <1>1, <1>3 DEF AccessInv, RTypeInv, PendingInv
<1>5. EndsInv'
  BY <1>1, <1>3 DEF AccessInv, EndsInv
<1>6. QueueInv'
  BY <1>1, <1>3 DEF AccessInv, QueueInv
<1>7. OrderInv'
  <2>1. Fresh' = Fresh /\ ~Unserved'
    BY <1>1 DEF Fresh, Unserved
  <2> QED
    BY <1>1, <2>1 DEF AccessInv, OrderInv
<1>8. DaemonInv'
  <2>1. InServer' = InServer /\ ~InServer
    BY <1>1 DEF InServer
  <2> QED
    BY <1>1, <2>1, DaemonKept DEF AccessInv
<1> QED
  BY <1>4, <1>5, <1>6, <1>7, <1>8 DEF AccessInv

\* A server that ends takes what is on its way to it along.
LEMMA ServerGoneAccess ==
  ASSUME AccessInv, ServerGone, UNCHANGED <<kernel, daemon, emuproc, history>>
  PROVE  AccessInv'
<1>1. /\ tpc' = "down" /\ top' = NoOp /\ client' = 0 /\ backlog' = <<>>
      /\ conns' = CloseServerEnds(conns)
      /\ UNCHANGED <<kpc, kop, dpc, dop, sockfd, rsp, pending, performed>>
  BY DEF ServerGone, kernel, daemon, emuproc, emu, history
<1>2. /\ conns' \in Seq(Conns) /\ Len(conns') = Len(conns)
      /\ \A c \in 1..Len(conns) :
           /\ conns'[c].s = "closed" /\ conns'[c].up = <<>>
           /\ conns'[c].d = conns[c].d /\ conns'[c].down = conns[c].down
  BY <1>1, ServerEnds DEF AccessInv, RTypeInv
<1>3. NoOp \in Ops
  BY SMT DEF NoOp, Ops, Dword
<1>4. RTypeInv' /\ PendingInv'
  <2>1. 0 \in 0..Len(conns) /\ <<>> \in Seq(Nat)
    BY DEF AccessInv, RTypeInv
  <2> QED
    BY <1>1, <1>2, <1>3, <2>1 DEF AccessInv, RTypeInv, PendingInv
<1>5. EndsInv'
  <2>1. Len(<<>>) = 0
    OBVIOUS
  <2> QED
    BY <1>1, <1>2, <2>1 DEF AccessInv, EndsInv
<1>6. \A b : <<b>> # <<>>
  BY Single
<1>7. QueueInv'
  BY <1>1, <1>2, <1>6 DEF QueueInv
<1>8. OrderInv'
  <2>1. Fresh' = Fresh /\ ~Unserved'
    BY <1>1 DEF Fresh, Unserved
  <2> QED
    BY <1>1, <1>2, <1>6, <2>1 DEF AccessInv, OrderInv
<1>9. DaemonInv'
  <2>1. ~InServer' /\ Answer' = Answer
    BY <1>1 DEF InServer, Answer
  <2>2. dpc # "down" => sockfd \in 1..Len(conns)
    BY DEF AccessInv, EndsInv, RTypeInv
  <2>3. dpc # "down" => /\ conns'[sockfd].up = <<>>
                        /\ conns'[sockfd].down = conns[sockfd].down
    BY <1>2, <2>2
  <2> QED
    BY <1>1, <2>1, <2>3 DEF AccessInv, DaemonInv, Quiet
<1> QED
  BY <1>4, <1>5, <1>7, <1>8, <1>9 DEF AccessInv

\* The access thin-server takes is the earliest on its way.
LEMMA ThinRecvAccess == ASSUME AccessInv, ThinRecv PROVE AccessInv'
<1>1. CASE ServerGone
  BY <1>1, ServerGoneAccess DEF ThinRecv
<1>2. CASE /\ tpc = "recv" /\ conns[client].up # <<>>
           /\ top' = Head(conns[client].up)
           /\ conns' = [conns EXCEPT ![client].up = Tail(@)]
           /\ tpc' = "write"
           /\ UNCHANGED <<client, backlog, kernel, daemon, emuproc, pipes, history>>
  <2>1. UNCHANGED <<kpc, kop, dpc, dop, sockfd, client, backlog, rsp, epc, req_pipe,
                    rep_pipe, pending, performed>>
    BY <1>2 DEF kernel, daemon, emuproc, emu, pipes, history
  <2>2. client \in 1..Len(conns)
    BY <1>2 DEF AccessInv, EndsInv, RTypeInv
  <2>3. PICK b \in pending : conns[client].up = <<b>>
    BY <1>2, <2>2 DEF AccessInv, QueueInv
  <2>4. top' = b /\ Tail(conns[client].up) = <<>> /\ b \in Ops
    BY <1>2, <2>3, Single, Numbers DEF AccessInv
  <2> DEFINE v == [conns[client] EXCEPT !.up = <<>>]
  <2>5. conns[client] \in Conns /\ conns \in Seq(Conns) /\ <<>> \in Seq(Ops)
    BY <2>2 DEF AccessInv, RTypeInv
  <2>6. conns' = [conns EXCEPT ![client] = v]
    BY <1>2, <2>4, <2>5
  <2>7. /\ v \in Conns /\ v.up = <<>> /\ v.d = conns[client].d
        /\ v.s = conns[client].s /\ v.down = conns[client].down
    BY <2>5, Transferred, Zenon
  <2> HIDE DEF v
  <2>8. /\ conns' \in Seq(Conns) /\ Len(conns') = Len(conns) /\ conns'[client] = v
        /\ \A c \in 1..Len(conns) : c # client => conns'[c] = conns[c]
    BY <2>2, <2>5, <2>6, <2>7, OneConnection
  <2>9. RTypeInv' /\ PendingInv'
    BY <1>2, <2>1, <2>4, <2>8 DEF AccessInv, RTypeInv, PendingInv
  <2>10. EndsInv'
    <3>1. conns[client].s # "closed"
      BY <1>2, <2>2 DEF AccessInv, EndsInv
    <3>2. \A c \in 1..Len(conns) :
            /\ conns'[c].d = conns[c].d /\ conns'[c].s = conns[c].s
            /\ conns'[c].s = "closed" => conns'[c].up = conns[c].up
      BY <2>7, <2>8, <3>1
    <3> QED
      BY <1>2, <2>1, <2>8, <3>2, EndsKept DEF AccessInv
  <2>11. \A c \in 1..Len(conns) : conns'[c].up = conns[c].up \/ conns'[c].up = <<>>
    BY <2>7, <2>8
  <2>12. QueueInv'
    BY <1>2, <2>1, <2>8, <2>11, QueueKept DEF AccessInv
  <2>13. \A c \in 1..Len(conns), x \in Ops : conns'[c].up = <<x>> => b.id < x.id
    <3> SUFFICES ASSUME NEW c \in 1..Len(conns), NEW x \in Ops, conns'[c].up = <<x>>
                 PROVE  b.id < x.id
      OBVIOUS
    <3>1. c # client /\ conns[c].up = <<x>> /\ conns[c].up # <<>>
      BY <2>7, <2>8, Single
    <3>2. client < c
      <4>1. ~(c < client)
        BY <1>2, <3>1 DEF AccessInv, QueueInv
      <4> QED
        BY <2>2, <3>1, <4>1
    <3> QED
      BY <2>2, <2>3, <2>4, <3>1, <3>2 DEF AccessInv, QueueInv
  <2>14. OrderInv'
    <3>1. Fresh' = Fresh /\ (Fresh => kop \in pending /\ b.id < kop.id)
      BY <2>1, <2>2, <2>3, <2>4 DEF AccessInv, OrderInv, Fresh
    <3>2. Fresh => \A c \in 1..Len(conns), x \in Ops : conns[c].up = <<x>> => x.id < kop.id
      BY DEF AccessInv, OrderInv
    <3>3. \A x : <<x>> # <<>>
      BY Single
    <3> QED
      BY <1>2, <2>1, <2>4, <2>8, <2>11, <2>13, <3>1, <3>2, <3>3 DEF OrderInv
  <2>15. DaemonInv'
    <3>1. CASE client # sockfd
      <4>1. ~InServer /\ ~InServer'
        BY <2>1, <3>1 DEF InServer
      <4>2. dpc # "down" => conns'[sockfd] = conns[sockfd]
        <5>1. dpc # "down" => sockfd \in 1..Len(conns)
          BY DEF AccessInv, EndsInv, RTypeInv
        <5> QED
          BY <2>8, <3>1, <5>1
      <4> QED
        BY <2>1, <4>1, <4>2, DaemonKept DEF AccessInv
    <3>2. CASE client = sockfd
      <4>1. dpc = "recv" /\ conns[sockfd].up = <<kop>> /\ conns[sockfd].down = <<>>
        BY <1>2, <2>2, <3>2 DEF AccessInv, DaemonInv, EndsInv, RTypeInv, Quiet
      <4>2. top' = kop
        BY <2>3, <2>4, <3>2, <4>1, Single
      <4>3. /\ conns'[sockfd'].up = <<>> /\ conns'[sockfd'].down = <<>> /\ InServer'
        BY <1>2, <2>1, <2>7, <2>8, <3>2, <4>1 DEF InServer
      <4>4. kpc = "taken"
        BY <4>1 DEF AccessInv, DaemonInv
      <4> QED
        BY <1>2, <2>1, <4>1, <4>2, <4>3, <4>4 DEF DaemonInv
    <3> QED
      BY <3>1, <3>2
  <2> QED
    BY <2>9, <2>10, <2>12, <2>14, <2>15 DEF AccessInv
<1> QED
  BY <1>1, <1>2 DEF ThinRecv

\* Writing the request leaves the access on its way to the emulator.
LEMMA ThinWriteAccess == ASSUME PipesInv, AccessInv, ThinWrite PROVE AccessInv'
<1>1. /\ tpc = "write" /\ tpc' = "read"
      /\ UNCHANGED <<kpc, kop, dpc, dop, sockfd, top, client, backlog, rsp, epc, conns,
                     rep_pipe, pending, performed>>
  BY DEF ThinWrite, kernel, daemon, emuproc, emu, history
<1>2. RTypeInv' /\ PendingInv'
  BY <1>1 DEF AccessInv, RTypeInv, PendingInv
<1>3. EndsInv' /\ QueueInv'
  BY <1>1, EndsKept, QueueKept DEF AccessInv
<1>4. OrderInv'
  <2>1. Fresh' = Fresh /\ Unserved /\ rep_pipe' = <<>>
    BY <1>1 DEF Fresh, Unserved, PipesInv
  <2>2. (Fresh => kop \in pending) /\ top \in pending
    BY <2>1 DEF AccessInv, OrderInv
  <2> QED
    BY <1>1, <2>1, <2>2, OrderKept DEF AccessInv
<1>5. DaemonInv'
  <2>1. InServer' = InServer
    BY <1>1 DEF InServer
  <2> QED
    BY <1>1, <2>1, DaemonKept DEF AccessInv
<1> QED
  BY <1>2, <1>3, <1>4, <1>5 DEF AccessInv

\* The reply makes the access of the server the answer to it.
LEMMA ThinReadAccess == ASSUME PipesInv, AccessInv, ThinRead PROVE AccessInv'
<1>1. /\ tpc = "read" /\ tpc' = "send" /\ rep_pipe # <<>>
      /\ top' = [top EXCEPT !.value = Head(rep_pipe).data]
      /\ UNCHANGED <<kpc, kop, dpc, dop, sockfd, client, backlog, rsp, epc, conns,
                     pending, performed>>
  BY DEF ThinRead, kernel, daemon, emuproc, emu, history
<1>2. PICK y : rep_pipe = <<y>>
  BY <1>1 DEF PipesInv, OneUnderWay
<1>3. performed = top.id /\ top' = [top EXCEPT !.value = rsp.data]
  BY <1>1, <1>2, Single DEF AccessInv, OrderInv
<1>4. RTypeInv' /\ PendingInv'
  <2>1. top' \in Ops
    BY <1>3, OpFields DEF AccessInv, RTypeInv
  <2> QED
    BY <1>1, <2>1 DEF AccessInv, RTypeInv, PendingInv
<1>5. EndsInv' /\ QueueInv'
  BY <1>1, EndsKept, QueueKept DEF AccessInv
<1>6. OrderInv'
  <2>1. Fresh' = Fresh /\ ~Unserved'
    BY <1>1 DEF Fresh, Unserved
  <2> QED
    BY <1>1, <2>1 DEF AccessInv, OrderInv
<1>7. DaemonInv'
  <2>1. CASE ~InServer
    <3>1. ~InServer'
      BY <1>1, <2>1 DEF InServer
    <3> QED
      BY <1>1, <2>1, <3>1, DaemonKept DEF AccessInv
  <2>2. CASE InServer /\ dpc # "down"
    <3>1. /\ dpc = "recv" /\ kpc = "taken" /\ top = kop
          /\ conns[sockfd].up = <<>> /\ conns[sockfd].down = <<>>
      BY <1>1, <2>2 DEF AccessInv, RTypeInv, DaemonInv, Quiet
    <3>2. top' = Answer' /\ performed' = kop.id /\ InServer'
      BY <1>1, <1>3, <2>2, <3>1 DEF Answer, InServer
    <3> QED
      BY <1>1, <3>1, <3>2 DEF DaemonInv
  <2>3. CASE dpc = "down"
    BY <1>1, <2>3 DEF DaemonInv
  <2> QED
    BY <2>1, <2>2, <2>3
<1> QED
  BY <1>4, <1>5, <1>6, <1>7 DEF AccessInv

\* The answer goes to the daemon that waits for it, or to nobody.
LEMMA ThinSendAccess == ASSUME PipesInv, AccessInv, ThinSend PROVE AccessInv'
<1>1. CASE ServerGone
  BY <1>1, ServerGoneAccess DEF ThinSend
<1>2. CASE /\ conns' = IF conns[client].d = "open"
                         THEN [conns EXCEPT ![client].down = Append(@, top)]
                         ELSE conns
           /\ tpc = "send" /\ tpc' = "recv"
           /\ UNCHANGED <<top, client, backlog, kernel, daemon, emuproc, pipes, history>>
  <2>1. UNCHANGED <<kpc, kop, dpc, dop, sockfd, top, client, backlog, rsp, epc, req_pipe,
                    rep_pipe, pending, performed>>
    BY <1>2 DEF kernel, daemon, emuproc, emu, pipes, history
  <2>2. client \in 1..Len(conns)
    BY <1>2 DEF AccessInv, EndsInv, RTypeInv
  <2>3. ~InServer' /\ Answer' = Answer
    BY <1>2, <2>1 DEF InServer, Answer
  <2>4. Fresh' = Fresh /\ ~Unserved'
    BY <1>2, <2>1 DEF Fresh, Unserved
  <2>5. CASE conns[client].d # "open"
    <3>1. RTypeInv' /\ PendingInv'
      BY <1>2, <2>1, <2>5 DEF AccessInv, RTypeInv, PendingInv
    <3>2. EndsInv' /\ QueueInv'
      BY <1>2, <2>1, <2>5, EndsKept, QueueKept DEF AccessInv
    <3>3. OrderInv'
      BY <1>2, <2>1, <2>4, <2>5 DEF AccessInv, OrderInv
    <3>4. DaemonInv'
      BY <1>2, <2>1, <2>3, <2>5 DEF AccessInv, DaemonInv, Quiet
    <3> QED
      BY <3>1, <3>2, <3>3, <3>4 DEF AccessInv
  <2>6. CASE conns[client].d = "open"
    <3>1. client = sockfd /\ dpc # "down"
      BY <2>2, <2>6 DEF AccessInv, EndsInv
    <3>2. /\ dpc = "recv" /\ kpc = "taken" /\ top = Answer /\ performed = kop.id
          /\ conns[sockfd].up = <<>> /\ conns[sockfd].down = <<>>
      BY <1>2, <3>1 DEF AccessInv, RTypeInv, DaemonInv, Quiet, InServer
    <3> DEFINE v == [conns[client] EXCEPT !.down = <<top>>]
    <3>3. conns[client] \in Conns /\ conns \in Seq(Conns) /\ <<top>> \in Seq(Ops)
      BY <2>2, Carried DEF AccessInv, RTypeInv
    <3>4. conns' = [conns EXCEPT ![client] = v]
      <4>1. Append(conns[client].down, top) = <<top>>
        BY <3>1, <3>2, Single
      <4> QED
        BY <1>2, <2>6, <3>3, <4>1
    <3>5. /\ v \in Conns /\ v.up = conns[client].up /\ v.d = conns[client].d
          /\ v.s = conns[client].s /\ v.down = <<top>>
      BY <3>3, Transferred, Zenon
    <3> HIDE DEF v
    <3>6. /\ conns' \in Seq(Conns) /\ Len(conns') = Len(conns) /\ conns'[client] = v
          /\ \A c \in 1..Len(conns) : c # client => conns'[c] = conns[c]
      BY <2>2, <3>3, <3>4, <3>5, OneConnection
    <3>7. \A c \in 1..Len(conns) : /\ conns'[c].d = conns[c].d
                                   /\ conns'[c].s = conns[c].s
                                   /\ conns'[c].up = conns[c].up
      BY <3>5, <3>6
    <3>8. RTypeInv' /\ PendingInv'
      BY <1>2, <2>1, <3>6 DEF AccessInv, RTypeInv, PendingInv
    <3>9. EndsInv' /\ QueueInv'
      BY <1>2, <2>1, <3>6, <3>7, EndsKept, QueueKept DEF AccessInv
    <3>10. OrderInv'
      <4>1. Fresh => kop \in pending
        BY DEF AccessInv, OrderInv
      <4> QED
        BY <1>2, <2>1, <2>4, <3>6, <3>7, <4>1, OrderKept DEF AccessInv
    <3>11. DaemonInv'
      BY <2>1, <2>3, <3>1, <3>2, <3>5, <3>6 DEF DaemonInv
    <3> QED
      BY <3>8, <3>9, <3>10, <3>11 DEF AccessInv
  <2> QED
    BY <2>5, <2>6
<1> QED
  BY <1>1, <1>2 DEF ThinSend
=============================================================================
