------------------------------ MODULE Netlink ------------------------------
(***************************************************************************)
(* daemon-doe-netlink between the kernel's generic netlink family and a    *)
(* TCP connection to remote-rc.  The daemon looks at the result of neither *)
(* send nor recv: when the server has gone, an operation goes back to the  *)
(* kernel as it came, until a send raises SIGPIPE.                         *)
(*                                                                         *)
(* Of an avery_pci_config_op the model keeps who filled it in last.  The   *)
(* operation fits one segment and is sent and received as a whole.         *)
(***************************************************************************)
EXTENDS Naturals, Sequences, FiniteSets

CONSTANTS MaxOps,        \* requests the kernel makes
          MaxConns,      \* connections the daemons make
          MaxKills       \* processes that are killed

ASSUME NetlinkAssumption == MaxOps \in Nat /\ MaxConns \in Nat /\ MaxKills \in Nat

VARIABLES
  kseq, waiting, portid,   \* kernel: the last request, the daemon whose answer is
                           \* awaited, the daemon that has registered
  nl_sock,                 \* what the daemon has not read yet
  dpc, req, op, sockfd,    \* daemon-doe-netlink
  rpc, rop, client, backlog,  \* remote-rc
  conns, kills,
  answers                  \* history: what the kernel was sent as an answer

kernel == <<kseq, waiting, portid>>
daemon == <<dpc, req, op, sockfd>>
server == <<rpc, rop, client, backlog>>
vars   == <<kernel, nl_sock, daemon, server, conns, kills, answers>>

\* id is history: the request an operation came with.
Operation(id, by) == [id |-> id, by |-> by]
NoOp == Operation(0, "nobody")

Init ==
  /\ kseq = 0 /\ waiting = 0 /\ portid = 0 /\ nl_sock = <<>>
  /\ dpc = "down" /\ req = 0 /\ op = NoOp /\ sockfd = 0
  /\ rpc = "down" /\ rop = NoOp /\ client = 0 /\ backlog = <<>>
  /\ conns = <<>> /\ kills = 0 /\ answers = {}
-----------------------------------------------------------------------------
(* TCP: the ends that are open, what is under way, and the daemon's error    *)
(* state: "reset" is a reset it has not been told of, "broken" one it has.   *)

Connection == [d |-> "open", s |-> "open", up |-> <<>>, down |-> <<>>, err |-> "none"]

DaemonGone ==
  /\ dpc' = "down" /\ sockfd' = 0 /\ op' = NoOp /\ req' = 0
  /\ nl_sock' = <<>>
  /\ conns' = IF sockfd = 0 THEN conns
                            ELSE [conns EXCEPT ![sockfd].d = "closed", ![sockfd].down = <<>>]

\* A connection that holds unread data, or was never accepted, is reset.
ServerGone ==
  /\ rpc' = "down" /\ rop' = NoOp /\ client' = 0 /\ backlog' = <<>>
  /\ conns' = [c \in DOMAIN conns |->
       [conns[c] EXCEPT !.s = "closed", !.up = <<>>,
                        !.err = IF /\ conns[c].s = "open"
                                   /\ conns[c].up # <<>> \/ c # client
                                  THEN "reset" ELSE @]]
-----------------------------------------------------------------------------
(* The kernel *)

\* The next request; it need not have an answer to the last one.
Issue == /\ portid # 0 /\ kseq < MaxOps
         /\ kseq' = kseq + 1
         /\ waiting' = portid
         /\ nl_sock' = IF portid = sockfd
                         THEN Append(nl_sock, [cmd |-> "AVERY_CMD_REQUEST", seq |-> kseq'])
                         ELSE nl_sock
         /\ UNCHANGED <<portid, daemon, server, conns, kills, answers>>

\* An answer nobody waits for is returned to the daemon as an error.
KernelReceives(seq) ==
  IF waiting # 0 /\ seq = kseq
    THEN waiting' = 0 /\ UNCHANGED nl_sock
    ELSE nl_sock' = Append(nl_sock, [cmd |-> "error", seq |-> seq]) /\ UNCHANGED waiting
-----------------------------------------------------------------------------
(* daemon-doe-netlink *)

connect_remote ==
  /\ dpc = "down" /\ rpc # "down" /\ Len(conns) < MaxConns
  /\ conns' = Append(conns, Connection)
  /\ sockfd' = Len(conns')
  /\ backlog' = Append(backlog, sockfd')
  /\ dpc' = "register"
  /\ UNCHANGED <<kernel, nl_sock, req, op, rpc, rop, client, kills, answers>>

\* A daemon is known to the kernel by the process; here by its connection.
nl_register_daemon ==
  /\ dpc = "register"
  /\ portid' = sockfd
  /\ dpc' = "request"
  /\ UNCHANGED <<kseq, waiting, nl_sock, req, op, sockfd, server, conns, kills, answers>>

\* A daemon that answers under the number of the first request it had.
MutNlRecvRequest ==
  /\ dpc = "request" /\ nl_sock # <<>>
  /\ nl_sock' = Tail(nl_sock)
  /\ IF Head(nl_sock).cmd = "AVERY_CMD_REQUEST"
       THEN /\ req' = IF req = 0 THEN Head(nl_sock).seq ELSE req
            /\ op' = Operation(Head(nl_sock).seq, "kernel")
            /\ dpc' = "send"
       ELSE UNCHANGED <<req, op, dpc>>
  /\ UNCHANGED <<kernel, sockfd, server, conns, kills, answers>>

nl_recv_request ==
  /\ dpc = "request" /\ nl_sock # <<>>
  /\ nl_sock' = Tail(nl_sock)
  /\ IF Head(nl_sock).cmd = "AVERY_CMD_REQUEST"
       THEN /\ req' = Head(nl_sock).seq
            /\ op' = Operation(Head(nl_sock).seq, "kernel")
            /\ dpc' = "send"
       ELSE UNCHANGED <<req, op, dpc>>
  /\ UNCHANGED <<kernel, sockfd, server, conns, kills, answers>>

\* A daemon that ignores SIGPIPE.
MutSend ==
  /\ dpc = "send"
  /\ dpc' = "recv"
  /\ conns' = IF conns[sockfd].s = "open"
                THEN [conns EXCEPT ![sockfd].up = Append(@, op)]
                ELSE [conns EXCEPT ![sockfd].err = "broken"]
  /\ UNCHANGED <<kernel, nl_sock, req, op, sockfd, server, kills, answers>>

\* The first send after the server has gone draws a reset, or reports one.
Send ==
  /\ dpc = "send"
  /\ \/ /\ conns[sockfd].err # "broken"
        /\ dpc' = "recv"
        /\ conns' = IF conns[sockfd].s = "open"
                      THEN [conns EXCEPT ![sockfd].up = Append(@, op)]
                      ELSE [conns EXCEPT ![sockfd].err = "broken"]
        /\ UNCHANGED <<nl_sock, req, op, sockfd>>
     \/ /\ conns[sockfd].err = "broken"
        /\ DaemonGone
  /\ UNCHANGED <<kernel, server, kills, answers>>

\* A receive that does not wait for the answer.
MutRecv ==
  /\ dpc = "recv"
  /\ IF conns[sockfd].down # <<>>
       THEN /\ op' = Head(conns[sockfd].down)
            /\ conns' = [conns EXCEPT ![sockfd].down = Tail(@)]
       ELSE UNCHANGED <<op, conns>>
  /\ dpc' = "respond"
  /\ UNCHANGED <<kernel, nl_sock, req, sockfd, server, kills, answers>>

\* Without an answer op keeps the request; a reset is thereby reported.
Recv ==
  /\ dpc = "recv"
  /\ \/ /\ conns[sockfd].down # <<>>
        /\ op' = Head(conns[sockfd].down)
        /\ conns' = [conns EXCEPT ![sockfd].down = Tail(@)]
     \/ /\ conns[sockfd].down = <<>> /\ conns[sockfd].s = "closed"
        /\ conns' = [conns EXCEPT ![sockfd].err = IF @ = "reset" THEN "broken" ELSE @]
        /\ UNCHANGED op
  /\ dpc' = "respond"
  /\ UNCHANGED <<kernel, nl_sock, req, sockfd, server, kills, answers>>

nl_send_response ==
  /\ dpc = "respond"
  /\ answers' = answers \cup {[seq |-> req, op |-> op, conn |-> sockfd]}
  /\ KernelReceives(req)
  /\ dpc' = "request"
  /\ UNCHANGED <<kseq, portid, req, op, sockfd, server, conns, kills>>

DaemonStep == nl_register_daemon \/ nl_recv_request \/ Send \/ Recv \/ nl_send_response
-----------------------------------------------------------------------------
(* remote-rc *)

RcStart == /\ rpc = "down"
           /\ rpc' = "accept"
           /\ UNCHANGED <<kernel, nl_sock, daemon, rop, client, backlog, conns, kills, answers>>

\* One client in its life.
RcAccept == /\ rpc = "accept" /\ backlog # <<>>
            /\ client' = Head(backlog) /\ backlog' = Tail(backlog)
            /\ rpc' = "recv"
            /\ UNCHANGED <<kernel, nl_sock, daemon, rop, conns, kills, answers>>

\* A server that goes on after an end of file.
MutRcRecv ==
  /\ rpc = "recv" /\ conns[client].up # <<>>
  /\ rop' = Operation(Head(conns[client].up).id, "remote_rc")
  /\ conns' = [conns EXCEPT ![client].up = Tail(@)]
  /\ rpc' = "send"
  /\ UNCHANGED <<kernel, nl_sock, daemon, client, backlog, kills, answers>>

RcRecv ==
  /\ rpc = "recv"
  /\ \/ /\ conns[client].up # <<>>
        /\ rop' = Operation(Head(conns[client].up).id, "remote_rc")
        /\ conns' = [conns EXCEPT ![client].up = Tail(@)]
        /\ rpc' = "send"
        /\ UNCHANGED <<client, backlog>>
     \/ /\ conns[client].up = <<>> /\ conns[client].d = "closed"
        /\ ServerGone
  /\ UNCHANGED <<kernel, nl_sock, daemon, kills, answers>>

\* To a daemon that is gone the send fails, or seems to succeed.
RcSend ==
  /\ rpc = "send"
  /\ \/ /\ conns' = IF conns[client].d = "open"
                      THEN [conns EXCEPT ![client].down = Append(@, rop)]
                      ELSE conns
        /\ rpc' = "recv"
        /\ UNCHANGED <<rop, client, backlog>>
     \/ /\ conns[client].d = "closed"
        /\ ServerGone
  /\ UNCHANGED <<kernel, nl_sock, daemon, kills, answers>>

RcStep == RcAccept \/ RcRecv \/ RcSend
-----------------------------------------------------------------------------
KillDaemon == /\ dpc # "down"
              /\ kills < MaxKills /\ kills' = kills + 1
              /\ DaemonGone
              /\ UNCHANGED <<kernel, server, answers>>

KillServer == /\ rpc # "down"
              /\ kills < MaxKills /\ kills' = kills + 1
              /\ ServerGone
              /\ UNCHANGED <<kernel, nl_sock, daemon, answers>>

Next == \/ Issue
        \/ connect_remote \/ DaemonStep
        \/ RcStart \/ RcStep
        \/ KillDaemon \/ KillServer

\* A process that is not blocked is scheduled; nobody is forced to start one.
Spec == Init /\ [][Next]_vars /\ WF_vars(DaemonStep) /\ WF_vars(RcStep)
-----------------------------------------------------------------------------
(* Properties *)

\* What the kernel is sent under the number of a request is that operation,
\* although the daemon goes on after failed transfers, serves requests the
\* kernel has given up, and the kernel can match by the number alone.
AnswerIsOfItsRequest == \A a \in answers : a.op.id = a.seq

FalseAnswers(c) == {a \in answers : a.conn = c /\ a.op.by = "kernel"}

\* The server having gone, a daemon passes at most two requests off as their
\* own answers before SIGPIPE ends it.
FalseAnswersBounded == \A c \in DOMAIN conns : Cardinality(FalseAnswers(c)) <= 2

\* On one connection no answer of the server comes after a false one: what the
\* kernel believes wrongly is at the end of a daemon's life.
FalseAnswersLast ==
  \A c \in DOMAIN conns : \A a \in FalseAnswers(c) : \A b \in answers :
    b.conn = c /\ b.seq > a.seq => b.op.by = "kernel"

Awaited == waiting # 0 /\ waiting = sockfd

\* A request sent to a registered daemon is answered, truly or not, unless the
\* daemon goes; none is left waiting for a server that will not answer.
RequestReturns == Awaited ~> ~Awaited
=============================================================================
