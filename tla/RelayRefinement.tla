-------------------------- MODULE RelayRefinement --------------------------
(***************************************************************************)
(* That the chain of daemon-doe, thin-server and doe-emu implements an     *)
(* atomic register access: for any accesses and any number of them, of     *)
(* connections, of kills and of stops, as long as thin-server is not       *)
(* killed between its write and its read.                                  *)
(***************************************************************************)
EXTENDS RelayProofs, DoeMailboxProofs

\* The mailbox, the pipes, and where the access is.
RInv == IInv /\ PipesInv /\ AccessInv
-----------------------------------------------------------------------------
(* The steps of doe-emu *)

\* Starting, reading a request and being killed leave the accesses where they
\* are.
LEMMA EmuMoves ==
  ASSUME AccessInv, UNCHANGED <<kernel, daemon, server, rsp, conns, history>>,
         Unserved' => Unserved,
         rep_pipe' = <<>> \/ UNCHANGED rep_pipe
  PROVE  AccessInv'
<1>1. UNCHANGED <<kpc, kop, dpc, dop, sockfd, tpc, top, client, backlog, rsp, conns,
                  pending, performed>>
  BY DEF kernel, daemon, server, history
<1>2. RTypeInv' /\ PendingInv'
  BY <1>1 DEF AccessInv, RTypeInv, PendingInv
<1>3. EndsInv' /\ QueueInv'
  BY <1>1, EndsKept, QueueKept DEF AccessInv
<1>4. OrderInv'
  <2>1. Fresh' = Fresh
    BY <1>1 DEF Fresh
  <2>2. (Fresh => kop \in pending) /\ (Unserved => top \in pending)
    BY DEF AccessInv, OrderInv
  <2> QED
    BY <1>1, <2>1, <2>2, OrderKept DEF AccessInv
<1>5. DaemonInv'
  <2>1. InServer' = InServer
    BY <1>1 DEF InServer
  <2> QED
    BY <1>1, <2>1, DaemonKept DEF AccessInv
<1> QED
  BY <1>2, <1>3, <1>4, <1>5 DEF AccessInv

\* The emulator serves what thin-server has written last.
LEMMA InHand ==
  ASSUME PipesInv, epc = "serve"
  PROVE  /\ tpc = "read" /\ req_pipe = <<>> /\ rep_pipe = <<>>
         /\ ereq.op = top /\ ereq.req = Translate(top, seq) /\ Unserved
<1>1. tpc = "read"
  BY DEF PipesInv, EmuIdle
<1>2. req_pipe = <<>> /\ rep_pipe = <<>> /\ ereq = UnderWay
  BY <1>1 DEF PipesInv, OneUnderWay, EmuIdle
<1> QED
  BY <1>1, <1>2 DEF UnderWay, Unserved

\* The fields of the transaction that thin-server makes of an access.
LEMMA Translated ==
  ASSUME NEW op \in Ops, NEW n
  PROVE  /\ Translate(op, n).packet_number = n
         /\ Translate(op, n).data \in Dword
  BY DEF Translate, Transaction, Ops

\* A read of any register returns a dword.
LEMMA ReadIsDword == ASSUME IInv, NEW reg PROVE reg_read(reg) \in Dword
<1>1. status \in Dword
  BY SMT DEF IInv, TypeOK, Dword, DOE_STATUS_IDLE, DOE_STATUS_ERROR,
             DOE_STATUS_DATA_OBJECT_READY
<1>2. rsp_idx < rsp_len => rsp_buf[rsp_idx] \in Dword
  BY RspDwordsAssumption, SMT DEF IInv, TypeOK
<1>3. (IF rsp_idx >= rsp_len THEN -1 ELSE rsp_buf[rsp_idx]) \in Dword
  <2>1. -1 \in Dword
    BY SMT DEF Dword
  <2>2. rsp_idx \in Int /\ rsp_len \in Int
    BY RspDwordsAssumption, SMT DEF IInv, TypeOK
  <2> QED
    BY <1>2, <2>1, <2>2
<1>4. 0 \in Dword
  BY SMT DEF Dword
<1>5. DOE_REG_STATUS # DOE_REG_READ
  BY SMT DEF DOE_REG_STATUS, DOE_REG_READ
<1> QED
  BY <1>1, <1>3, <1>4, <1>5 DEF reg_read

\* Every reply carries a dword.
LEMMA ReplyIsDword ==
  ASSUME IInv, NEW req, Serve(req)
  PROVE  rsp'.data \in Dword
<1>1. 0 \in Dword
  BY SMT DEF Dword
<1>2. \A v : Reply(req, v).data = v
  BY DEF Reply
<1>3. \E v \in Dword : rsp' = Reply(req, v)
  BY <1>1, ReadIsDword DEF Serve, SkipWrite, Access
<1> QED
  BY <1>2, <1>3

\* A mailbox that is left alone keeps its invariant.
LEMMA MailboxKept == ASSUME IInv, UNCHANGED mailbox PROVE IInv'
  BY DEF mailbox, IInv, TypeOK, StatusMatchesResponse, LengthHeaderMatches

\* Serving a request whose data is a dword keeps the invariant of the mailbox.
LEMMA ServeIInv ==
  ASSUME IInv, NEW req, req.data \in Dword, Serve(req)
  PROVE  IInv'
<1>1. CASE UNCHANGED mailbox
  BY <1>1, MailboxKept
<1>2. CASE reg_write(req.physical_address - CapBase(req), req.data)
  BY <1>2, WriteIInv
<1> QED
  BY <1>1, <1>2 DEF Serve, SkipWrite, Access, mailbox

\* What the emulator performs, it performs for the first time, and before
\* every access that is still on its way.
LEMMA EmuServeAccess == ASSUME RInv, EmuServe PROVE AccessInv'
<1>1. /\ epc = "serve" /\ epc' = "read" /\ Serve(ereq.req)
      /\ rep_pipe' = Append(rep_pipe, rsp')
      /\ pending' = {p \in pending : p.id > ereq.op.id} /\ performed' = ereq.op.id
      /\ UNCHANGED <<kpc, kop, dpc, dop, sockfd, tpc, top, client, backlog, conns, req_pipe>>
  BY DEF EmuServe, kernel, daemon, server
<1>2. /\ tpc = "read" /\ req_pipe = <<>> /\ rep_pipe = <<>> /\ ereq.op = top /\ Unserved
  BY <1>1, InHand DEF RInv
<1>3. /\ pending' = {p \in pending : p.id > top.id} /\ performed' = top.id
      /\ rep_pipe' = <<rsp'>>
  BY <1>1, <1>2, Single
<1>4. /\ top \in pending /\ top.id > performed /\ top.id <= kop.id
      /\ top.id \in Nat /\ kop.id \in Nat /\ performed \in Nat
  <2>1. top \in pending /\ top \in Ops /\ kop \in Ops
    BY <1>2 DEF RInv, AccessInv, OrderInv, RTypeInv
  <2> QED
    BY <2>1 DEF RInv, AccessInv, PendingInv, RTypeInv, Ops
<1>5. RTypeInv'
  <2>1. rsp'.data \in Dword
    BY <1>1, ReplyIsDword DEF RInv
  <2>2. pending' \subseteq Ops /\ performed' \in Nat
    BY <1>3, <1>4 DEF RInv, AccessInv, RTypeInv
  <2> QED
    BY <1>1, <2>1, <2>2 DEF RInv, AccessInv, RTypeInv
<1>6. PendingInv'
  BY <1>1, <1>3, <1>4 DEF RInv, AccessInv, PendingInv
<1>7. EndsInv'
  BY <1>1, EndsKept DEF RInv, AccessInv
<1>8. QueueInv'
  <2>1. \A c \in 1..Len(conns), b \in pending : conns[c].up = <<b>> => b \in pending'
    <3> SUFFICES ASSUME NEW c \in 1..Len(conns), NEW b \in pending, conns[c].up = <<b>>
                 PROVE  b.id > top.id
      BY <1>3
    <3>1. b \in Ops /\ b.id \in Nat
      BY DEF RInv, AccessInv, RTypeInv, Ops
    <3>2. top.id < b.id
      BY <1>2, <3>1 DEF RInv, AccessInv, OrderInv
    <3> QED
      BY <1>4, <3>1, <3>2
  <2> QED
    BY <1>1, <2>1, QueueKept DEF RInv, AccessInv
<1>9. OrderInv'
  <2>1. Fresh' = Fresh
    BY <1>1 DEF Fresh
  <2>2. ~Unserved'
    BY <1>1, <1>2 DEF Unserved
  <2>3. Fresh => kop \in pending'
    BY <1>2, <1>3, <1>4 DEF RInv, AccessInv, OrderInv
  <2>4. \A y : rep_pipe' = <<y>> => performed' = top'.id /\ y.data = rsp'.data
    BY <1>1, <1>3, Single
  <2> QED
    BY <1>1, <2>1, <2>2, <2>3, <2>4 DEF RInv, AccessInv, OrderInv
<1>10. DaemonInv'
  <2>1. performed # kop.id
    BY <1>4
  <2>2. (InServer' <=> InServer) /\ (dpc \in {"poll", "send", "write"} => Quiet)
    BY <1>1 DEF InServer, RInv, AccessInv, DaemonInv
  <2> QED
    BY <1>1, <1>2, <2>1, <2>2 DEF RInv, AccessInv, DaemonInv, Quiet
<1> QED
  BY <1>5, <1>6, <1>7, <1>8, <1>9, <1>10 DEF AccessInv

\* Stopping everything closes every connection.
LEMMA StopAllAccess == ASSUME AccessInv, StopAll PROVE AccessInv'
<1>1. /\ dpc' = "down" /\ sockfd' = 0 /\ dop' = NoOp
      /\ tpc' = "down" /\ top' = NoOp /\ client' = 0 /\ backlog' = <<>>
      /\ conns' = CloseServerEnds(CloseDaemonEnd)
      /\ UNCHANGED <<kpc, kop, rsp, pending, performed>>
  BY DEF StopAll, kernel, emu, history
<1>2. /\ CloseDaemonEnd \in Seq(Conns) /\ Len(CloseDaemonEnd) = Len(conns)
      /\ \A c \in 1..Len(conns) : CloseDaemonEnd[c].d = "closed"
  <2>1. conns \in Seq(Conns) /\ sockfd \in 0..Len(conns)
    BY DEF AccessInv, RTypeInv
  <2> QED
    BY <2>1, DaemonEnd DEF AccessInv, EndsInv
<1>3. /\ conns' \in Seq(Conns) /\ Len(conns') = Len(conns)
      /\ \A c \in 1..Len(conns) : /\ conns'[c].d = "closed" /\ conns'[c].s = "closed"
                                  /\ conns'[c].up = <<>>
  BY <1>1, <1>2, ServerEnds
<1>4. RTypeInv' /\ PendingInv'
  <2>1. 0 \in 0..Len(conns) /\ <<>> \in Seq(Nat)
    BY DEF AccessInv, RTypeInv
  <2>2. NoOp \in Ops
    BY SMT DEF NoOp, Ops, Dword
  <2> QED
    BY <1>1, <1>3, <2>1, <2>2 DEF AccessInv, RTypeInv, PendingInv
<1>5. EndsInv'
  <2>1. Len(<<>>) = 0
    OBVIOUS
  <2> QED
    BY <1>1, <1>3, <2>1 DEF EndsInv
<1>6. \A b : <<b>> # <<>>
  BY Single
<1>7. QueueInv'
  BY <1>1, <1>3, <1>6 DEF QueueInv
<1>8. OrderInv'
  <2>1. (Fresh' => Fresh) /\ ~Unserved'
    BY <1>1 DEF Fresh, Unserved
  <2> QED
    BY <1>1, <1>3, <1>6, <2>1 DEF AccessInv, OrderInv
<1>9. DaemonInv'
  BY <1>1 DEF DaemonInv
<1> QED
  BY <1>4, <1>5, <1>7, <1>8, <1>9 DEF AccessInv
-----------------------------------------------------------------------------
(* The invariant, and the abstract register access *)

\* Nothing is under way when the processes start.
LEMMA InitRInv == RelayInit => RInv
<1> SUFFICES ASSUME RelayInit PROVE RInv
  OBVIOUS
<1>1. /\ kpc = "idle" /\ kop = NoOp /\ dpc = "down" /\ sockfd = 0
      /\ tpc = "down" /\ top = NoOp /\ client = 0 /\ backlog = <<>> /\ conns = <<>>
      /\ pending = {} /\ performed = 0 /\ rsp = NoReply
  BY DEF RelayInit, EmuInit
<1>2. NoOp \in Ops /\ NoOp.id = 0 /\ NoReply.data \in Dword
  BY SMT DEF NoOp, NoReply, Ops, Dword
<1>3. Len(conns) = 0 /\ Len(backlog) = 0
  BY <1>1
<1>4. RTypeInv /\ PendingInv
  BY <1>1, <1>2, <1>3 DEF RTypeInv, PendingInv
<1>5. EndsInv /\ QueueInv
  BY <1>1, <1>3 DEF EndsInv, QueueInv
<1>6. OrderInv /\ DaemonInv
  BY <1>1 DEF OrderInv, DaemonInv, Fresh, Unserved
<1>7. IInv /\ PipesInv
  BY InitIInv, InitPipes DEF RelayInit, EmuInit
<1> QED
  BY <1>4, <1>5, <1>6, <1>7 DEF RInv, AccessInv

\* Only doe-emu changes the mailbox.
LEMMA NextMailbox == ASSUME RInv, [RelayNext]_vars PROVE IInv'
<1>1. CASE EmuServe
  <2>1. epc = "serve" /\ Serve(ereq.req)
    BY <1>1 DEF EmuServe
  <2>2. ereq.req.data \in Dword
    BY <2>1, InHand, Translated DEF RInv, AccessInv, RTypeInv
  <2> QED
    BY <2>1, <2>2, ServeIInv DEF RInv
<1>2. CASE EmuStart
  <2>1. 0 \in Dword /\ EmuRestart
    BY <1>2, SMT DEF Dword, EmuStart
  <2> QED
    BY <2>1, StatusValues, ReqDwordsAssumption, RspDwordsAssumption, SMT
       DEF EmuRestart, IInv, TypeOK, StatusMatchesResponse, LengthHeaderMatches
<1>3. CASE UNCHANGED emu
  BY <1>3, MailboxKept DEF RInv, emu
<1>4. RelayNext => EmuServe \/ EmuStart \/ UNCHANGED emu
  BY DEF RelayNext, Issue, Abandon, DaemonStart, DaemonStep, DaemonRead, DaemonSend,
         DaemonRecv, DaemonWrite, ThinStart, ThinStep, ThinAccept, ThinRecv, ThinWrite,
         ThinRead, ThinSend, EmuStep, EmuRead, KillDaemon, KillServer, KillEmu, StopAll,
         emuproc
<1>5. UNCHANGED vars => UNCHANGED emu
  BY DEF vars, emuproc
<1> QED
  BY <1>1, <1>2, <1>3, <1>4, <1>5

\* No step of any process breaks the invariant on where the access is.
LEMMA NextAccess == ASSUME RInv, [RelayNext]_vars PROVE AccessInv'
<1>1. CASE Issue
  BY <1>1, IssueAccess DEF RInv
<1>2. CASE Abandon \/ DaemonRead \/ DaemonWrite
  BY <1>2, KernelMoves DEF RInv
<1>3. CASE DaemonStart
  BY <1>3, DaemonStartAccess DEF RInv
<1>4. CASE DaemonSend
  BY <1>4, DaemonSendAccess DEF RInv
<1>5. CASE DaemonRecv
  BY <1>5, DaemonRecvAccess DEF RInv
<1>6. CASE ThinStart
  BY <1>6, ThinStartAccess DEF RInv
<1>7. CASE ThinAccept
  BY <1>7, ThinAcceptAccess DEF RInv
<1>8. CASE ThinRecv
  BY <1>8, ThinRecvAccess DEF RInv
<1>9. CASE ThinWrite
  BY <1>9, ThinWriteAccess DEF RInv
<1>10. CASE ThinRead
  BY <1>10, ThinReadAccess DEF RInv
<1>11. CASE ThinSend
  BY <1>11, ThinSendAccess DEF RInv
<1>12. CASE EmuStart
  <2>1. /\ UNCHANGED <<kernel, daemon, server, rsp, conns, history, rep_pipe>>
        /\ Unserved' => Unserved
    BY <1>12 DEF EmuStart, EmuRestart, pipes, server, Unserved
  <2> QED
    BY <2>1, EmuMoves DEF RInv
<1>13. CASE EmuRead
  <2>1. /\ UNCHANGED <<kernel, daemon, server, rsp, conns, history, rep_pipe>>
        /\ Unserved' => Unserved
    BY <1>13 DEF EmuRead, emu, server, Unserved
  <2> QED
    BY <2>1, EmuMoves DEF RInv
<1>14. CASE EmuServe
  BY <1>14, EmuServeAccess
<1>15. CASE KillEmu
  <2>1. /\ UNCHANGED <<kernel, daemon, server, rsp, conns, history>>
        /\ rep_pipe' = <<>> \/ UNCHANGED rep_pipe
        /\ Unserved' => Unserved
    BY <1>15 DEF KillEmu, PipesAfterExit, emu, server, Unserved
  <2> QED
    BY <2>1, EmuMoves DEF RInv
<1>16. CASE KillDaemon
  BY <1>16, DaemonGoneAccess DEF KillDaemon, RInv
<1>17. CASE KillServer
  BY <1>17, ServerGoneAccess DEF KillServer, RInv
<1>18. CASE StopAll
  BY <1>18, StopAllAccess DEF RInv
<1>19. CASE UNCHANGED vars
  <2>1. /\ UNCHANGED <<kernel, daemon, server, rsp, conns, history, rep_pipe>>
        /\ Unserved' => Unserved
    BY <1>19 DEF vars, emuproc, emu, pipes, server, Unserved
  <2> QED
    BY <2>1, EmuMoves DEF RInv
<1> QED
  BY <1>1, <1>2, <1>3, <1>4, <1>5, <1>6, <1>7, <1>8, <1>9, <1>10, <1>11, <1>12, <1>13,
     <1>14, <1>15, <1>16, <1>17, <1>18, <1>19
     DEF RelayNext, DaemonStep, ThinStep, EmuStep

\* So the three hold together throughout.
LEMMA SpecRInv ==
  ASSUME "read" \notin KillServerAt
  PROVE  RelaySpec => []RInv
<1>1. RInv /\ [RelayNext]_vars => RInv'
  BY NextMailbox, NextPipes, NextAccess DEF RInv
<1> QED
  BY <1>1, InitRInv, PTL DEF RelaySpec
\* The abstract access waits for nothing at the start.
LEMMA InitRefines == RelayInit => Registers!Init
<1> SUFFICES ASSUME RelayInit PROVE Registers!Init
  OBVIOUS
<1>1. /\ kpc = "idle" /\ kop = NoOp /\ kres = NoOp /\ pending = {} /\ performed = 0
      /\ rsp.data = 0
  BY DEF RelayInit, EmuInit, NoReply
<1>2. (kpc # "idle") = FALSE
  BY <1>1
<1> QED
  BY <1>1, <1>2, Zenon DEF Registers!Init, Registers!NoOp, NoOp

\* The kernel's accesses and answers are those of the abstract register.
LEMMA IssueRefines == ASSUME Issue PROVE Registers!Next
<1>1. /\ kpc = "idle" /\ kpc' = "pending" /\ pending' = pending \cup {kop'}
      /\ UNCHANGED <<kres, performed, rsp>>
  BY DEF Issue, emuproc, emu
<1>2. PICK op \in KernelOps : kop' = [op EXCEPT !.id = kop.id + 1]
  BY DEF Issue
<1>3. ~(kpc # "idle") /\ (kpc # "idle")' = TRUE
  BY <1>1
<1>4. [id |-> performed, data |-> rsp.data]' = [id |-> performed, data |-> rsp.data]
  BY <1>1
<1>5. Registers!Issue(op)
  BY <1>1, <1>2, <1>3, <1>4, Zenon DEF Registers!Issue
<1> QED
  BY <1>5 DEF Registers!Next

\* An access the kernel gives up is given up.
LEMMA AbandonRefines == ASSUME Abandon PROVE Registers!Next
<1>1. /\ kpc = "taken" /\ kpc' = "idle"
      /\ UNCHANGED <<kop, kres, pending, performed, rsp>>
  BY DEF Abandon, Orphaned, emuproc, emu, history
<1>2. (kpc # "idle") /\ (kpc # "idle")' = FALSE
  BY <1>1
<1>3. [id |-> performed, data |-> rsp.data]' = [id |-> performed, data |-> rsp.data]
  BY <1>1
<1>4. Registers!Abandon
  BY <1>1, <1>2, <1>3, Zenon DEF Registers!Abandon
<1> QED
  BY <1>4 DEF Registers!Next

\* What the daemon writes back is the answer of the last access performed, and
\* that is the kernel's.
LEMMA ReturnRefines == ASSUME RInv, DaemonWrite PROVE Registers!Next
<1>1. /\ dpc = "write" /\ kpc' = "idle" /\ kres' = dop
      /\ UNCHANGED <<kop, pending, performed, rsp>>
  BY DEF DaemonWrite, emuproc, emu, history
<1>2. kpc = "taken" /\ dop = [kop EXCEPT !.value = rsp.data] /\ performed = kop.id
  BY <1>1 DEF RInv, AccessInv, DaemonInv, Answer
<1>3. (kpc # "idle") /\ (kpc # "idle")' = FALSE
  BY <1>1, <1>2
<1>4. /\ [id |-> performed, data |-> rsp.data]' = [id |-> performed, data |-> rsp.data]
      /\ [id |-> performed, data |-> rsp.data].id = performed
      /\ [id |-> performed, data |-> rsp.data].data = rsp.data
  BY <1>1
<1>5. Registers!Return
  BY <1>1, <1>2, <1>3, <1>4, Zenon DEF Registers!Return
<1> QED
  BY <1>5 DEF Registers!Next

\* Where doe-emu serves a request the access is performed.
LEMMA ServeRefines == ASSUME RInv, EmuServe PROVE Registers!Next
<1>1. /\ epc = "serve" /\ Serve(ereq.req)
      /\ pending' = {p \in pending : p.id > ereq.op.id} /\ performed' = ereq.op.id
      /\ UNCHANGED <<kpc, kop, kres>>
  BY DEF EmuServe, kernel
<1>2. ereq.op = top /\ top \in pending
  BY <1>1, InHand DEF RInv, AccessInv, OrderInv
<1>3. rsp'.data \in Registers!Dword
  BY <1>1, ReplyIsDword DEF RInv, Dword, Registers!Dword
<1>4. /\ [id |-> performed, data |-> rsp.data]'.id = top.id
      /\ [id |-> performed, data |-> rsp.data]'.data = rsp'.data
  BY <1>1, <1>2
<1>5. (kpc # "idle")' = (kpc # "idle")
  BY <1>1
<1>6. Registers!Perform(top)
  BY <1>1, <1>2, <1>3, <1>4, <1>5, Zenon DEF Registers!Perform
<1> QED
  BY <1>2, <1>6 DEF Registers!Next

\* Every other step happens inside the access.
LEMMA InsideRefines ==
  ASSUME UNCHANGED <<kop, kres, pending, performed, rsp>>,
         kpc' = "idle" <=> kpc = "idle"
  PROVE  UNCHANGED Registers!vars
<1>1. (kpc # "idle")' = (kpc # "idle")
  OBVIOUS
<1>2. [id |-> performed, data |-> rsp.data]' = [id |-> performed, data |-> rsp.data]
  OBVIOUS
<1> QED
  BY <1>1, <1>2, Zenon DEF Registers!vars

\* Every step of the chain is a step of the register access, or none.
LEMMA NextRefines ==
  ASSUME RInv, [RelayNext]_vars
  PROVE  [Registers!Next]_(Registers!vars)
<1>1. \/ Issue \/ Abandon \/ DaemonWrite \/ EmuServe
      \/ /\ UNCHANGED <<kop, kres, pending, performed, rsp>>
         /\ kpc' = "idle" <=> kpc = "idle"
  BY DEF RelayNext, DaemonStart, DaemonStep, DaemonRead, DaemonSend, DaemonRecv,
         ThinStart, ThinStep, ThinAccept, ThinRecv, ThinWrite, ThinRead, ThinSend,
         EmuStart, EmuRestart, EmuStep, EmuRead, KillDaemon, KillServer, KillEmu, StopAll,
         vars, kernel, emuproc, emu, history
<1> QED
  BY <1>1, IssueRefines, AbandonRefines, ReturnRefines, ServeRefines, InsideRefines

\* For any accesses and any number of them, of connections, of kills and of
\* stops, as long as thin-server is not killed between its write and its read:
\* daemon-doe, thin-server and doe-emu together are an atomic register access.
THEOREM AccessIsAtomic ==
  ASSUME "read" \notin KillServerAt
  PROVE  RelaySpec => ImplementsAccess
<1>1. RInv /\ [RelayNext]_vars => [Registers!Next]_(Registers!vars)
  BY NextRefines
<1> QED
  BY <1>1, SpecRInv, InitRefines, PTL DEF RelaySpec, ImplementsAccess, Registers!Spec
=============================================================================
