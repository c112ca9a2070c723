--------------------------- MODULE NetlinkProofs ---------------------------
(***************************************************************************)
(* That every answer the netlink daemon gives is to its request, for any   *)
(* number of requests, connections and kills.                              *)
(***************************************************************************)
EXTENDS Netlink, TLAPS

Ops == [id : Nat, by : {"nobody", "kernel", "remote_rc"}]
Conns == [d : {"open", "closed"}, s : {"open", "closed"}, up : Seq(Ops), down : Seq(Ops),
          err : {"none", "reset", "broken"}]
Messages == [cmd : {"AVERY_CMD_REQUEST", "error"}, seq : Nat]

TypeInv ==
  /\ kseq \in Nat
  /\ nl_sock \in Seq(Messages)
  /\ dpc \in {"down", "register", "request", "send", "recv", "respond"}
  /\ req \in Nat /\ op \in Ops /\ sockfd \in 0..Len(conns)
  /\ rpc \in {"down", "accept", "recv", "send"}
  /\ rop \in Ops /\ client \in 0..Len(conns) /\ backlog \in Seq(Nat)
  /\ conns \in Seq(Conns)

\* The server has its ends of the connections it knows, and has nothing unread
\* on any other.
ServerInv ==
  /\ client # 0 => conns[client].s = "open"
  /\ rpc \in {"recv", "send"} => client # 0
  /\ \A c \in 1..Len(conns) : conns[c].s = "closed" => conns[c].up = <<>>
  /\ \A i \in 1..Len(backlog) : backlog[i] \in 1..Len(conns) /\ conns[backlog[i]].s = "open"

InServer(c) == rpc = "send" /\ client = c

\* No operation is under way on connection c.
Quiet(c) == conns[c].up = <<>> /\ conns[c].down = <<>> /\ ~InServer(c)

\* One operation is, that of request n.
Carries(c, n) ==
  \/ /\ Len(conns[c].up) = 1 /\ conns[c].up[1].id = n
     /\ conns[c].down = <<>> /\ ~InServer(c)
  \/ /\ Len(conns[c].down) = 1 /\ conns[c].down[1].id = n
     /\ conns[c].up = <<>> /\ ~InServer(c)
  \/ /\ InServer(c) /\ rop.id = n
     /\ conns[c].up = <<>> /\ conns[c].down = <<>>

\* The daemon's connection carries an operation only while it waits for one.
DaemonInv ==
  /\ dpc # "down" => sockfd # 0
  /\ dpc \in {"register", "request", "send", "respond"} => Quiet(sockfd)
  /\ dpc = "recv" => Quiet(sockfd) \/ Carries(sockfd, req)
  /\ dpc \in {"send", "recv", "respond"} => op.id = req

IInv == TypeInv /\ ServerInv /\ DaemonInv /\ AnswerIsOfItsRequest
-----------------------------------------------------------------------------
\* An update of a function changes one value.
LEMMA Updated ==
  ASSUME NEW s \in Seq(Conns), NEW c \in 1..Len(s), NEW v \in Conns
  PROVE  /\ [s EXCEPT ![c] = v] \in Seq(Conns)
         /\ Len([s EXCEPT ![c] = v]) = Len(s)
         /\ [s EXCEPT ![c] = v][c] = v
         /\ \A k \in 1..Len(s) : k # c => [s EXCEPT ![c] = v][k] = s[k]
  OBVIOUS

\* What a sequence is after its head is taken or a message is added.
LEMMA Queue ==
  ASSUME NEW S, NEW s \in Seq(S), NEW e \in S
  PROVE  /\ Append(s, e) \in Seq(S)
         /\ s # <<>> => Head(s) \in S /\ Tail(s) \in Seq(S)
  OBVIOUS

\* The head of a queue that is not empty is one of its messages.
LEMMA First ==
  ASSUME NEW S, NEW s \in Seq(S), s # <<>>
  PROVE  /\ Head(s) = s[1] /\ s[1] \in S
         /\ Tail(s) \in Seq(S)
         /\ Len(s) = 1 => Tail(s) = <<>>
<1>1. Tail(s) \in Seq(S) /\ Len(Tail(s)) = Len(s) - 1 /\ Head(s) = s[1] /\ s[1] \in S
  OBVIOUS
<1> QED
  BY <1>1

\* The empty sequence carries no operation.
LEMMA NothingUnderWay == <<>> \in Seq(Ops)
  OBVIOUS

\* A connection as the daemon and the server leave it.
LEMMA ClosedByDaemon ==
  ASSUME NEW r \in Conns
  PROVE  /\ [r EXCEPT !.d = "closed", !.down = <<>>] \in Conns
         /\ [r EXCEPT !.d = "closed", !.down = <<>>].s = r.s
         /\ [r EXCEPT !.d = "closed", !.down = <<>>].up = r.up
  BY NothingUnderWay, Zenon DEF Conns

\* The same when the server closes its end.
LEMMA ClosedByServer ==
  ASSUME NEW r \in Conns, NEW e \in {"none", "reset", "broken"}
  PROVE  /\ [r EXCEPT !.s = "closed", !.up = <<>>, !.err = e] \in Conns
         /\ [r EXCEPT !.s = "closed", !.up = <<>>, !.err = e].s = "closed"
         /\ [r EXCEPT !.s = "closed", !.up = <<>>, !.err = e].up = <<>>
         /\ [r EXCEPT !.s = "closed", !.up = <<>>, !.err = e].down = r.down
  BY NothingUnderWay, Zenon DEF Conns

\* Before the daemon or the server runs nothing is under way.
LEMMA InitIInv == Init => IInv
  BY DEF Init, IInv, TypeInv, ServerInv, DaemonInv, AnswerIsOfItsRequest, NoOp,
         Operation, Ops

\* The end of the server leaves the connections without anything unread.
LEMMA ServerGoneIInv ==
  ASSUME IInv, ServerGone, UNCHANGED <<kernel, nl_sock, daemon, answers>>
  PROVE  IInv'
<1>1. /\ conns' \in Seq(Conns) /\ Len(conns') = Len(conns)
      /\ \A c \in 1..Len(conns) : /\ conns'[c].s = "closed" /\ conns'[c].up = <<>>
                                  /\ conns'[c].down = conns[c].down
  <2> DEFINE e(c) == IF /\ conns[c].s = "open"
                        /\ conns[c].up # <<>> \/ c # client
                       THEN "reset" ELSE conns[c].err
             v(c) == [conns[c] EXCEPT !.s = "closed", !.up = <<>>, !.err = e(c)]
  <2>1. conns' = [c \in 1..Len(conns) |-> v(c)]
    <3>1. DOMAIN conns = 1..Len(conns)
      BY DEF IInv, TypeInv
    <3> QED
      BY <3>1, Zenon DEF ServerGone
  <2>2. \A c \in 1..Len(conns) : conns[c] \in Conns
    BY DEF IInv, TypeInv
  <2>3. \A c \in 1..Len(conns) : e(c) \in {"none", "reset", "broken"}
    BY <2>2 DEF Conns
  <2> HIDE DEF e
  <2>4. \A c \in 1..Len(conns) : /\ v(c) \in Conns
                                 /\ v(c).s = "closed" /\ v(c).up = <<>>
                                 /\ v(c).down = conns[c].down
    BY <2>2, <2>3, ClosedByServer, Zenon
  <2> HIDE DEF v
  <2>5. Len(conns) \in Nat
    BY DEF IInv, TypeInv
  <2> QED
    BY <2>1, <2>4, <2>5
<1>2. /\ rpc' = "down" /\ rop' = NoOp /\ client' = 0 /\ backlog' = <<>>
      /\ UNCHANGED <<kseq, nl_sock, dpc, req, op, sockfd, answers>>
  BY DEF ServerGone, kernel, daemon
<1>3. TypeInv'
  BY <1>1, <1>2 DEF IInv, TypeInv, NoOp, Operation, Ops
<1>4. ServerInv'
  BY <1>1, <1>2 DEF ServerInv
<1>5. DaemonInv'
  <2>1. /\ dpc # "down" => sockfd # 0
        /\ dpc \in {"send", "recv", "respond"} => op.id = req
    BY DEF IInv, DaemonInv
  <2>2. dpc # "down" => sockfd \in 1..Len(conns)
    BY <2>1 DEF IInv, TypeInv
  <2>3. ASSUME dpc # "down", Quiet(sockfd) PROVE Quiet(sockfd)'
    BY <1>1, <1>2, <2>2, <2>3 DEF Quiet, InServer
  <2>4. ASSUME dpc # "down", Carries(sockfd, req)
        PROVE  (Quiet(sockfd) \/ Carries(sockfd, req))'
    BY <1>1, <1>2, <2>2, <2>4 DEF Quiet, Carries, InServer
  <2> QED
    BY <1>2, <2>1, <2>3, <2>4 DEF IInv, DaemonInv
<1>6. AnswerIsOfItsRequest'
  BY <1>2 DEF IInv, AnswerIsOfItsRequest
<1> QED
  BY <1>3, <1>4, <1>5, <1>6 DEF IInv

\* The end of the daemon leaves no request it waits for.
LEMMA DaemonGoneIInv ==
  ASSUME IInv, DaemonGone, UNCHANGED <<kernel, server, answers>>
  PROVE  IInv'
<1>1. /\ conns' \in Seq(Conns) /\ Len(conns') = Len(conns)
      /\ \A c \in 1..Len(conns) : /\ conns'[c].s = conns[c].s
                                  /\ conns'[c].up = conns[c].up
  <2>1. CASE sockfd = 0
    BY <2>1 DEF IInv, TypeInv, DaemonGone
  <2>2. CASE sockfd # 0
    <3> DEFINE v == [conns[sockfd] EXCEPT !.d = "closed", !.down = <<>>]
    <3>1. v \in Conns /\ v.s = conns[sockfd].s /\ v.up = conns[sockfd].up
      <4>1. conns[sockfd] \in Conns
        BY <2>2 DEF IInv, TypeInv
      <4> QED
        BY <4>1, ClosedByDaemon, Zenon
    <3>2. conns' = [conns EXCEPT ![sockfd] = v]
      BY <2>2 DEF DaemonGone, IInv, TypeInv
    <3> HIDE DEF v
    <3> QED
      BY <2>2, <3>1, <3>2 DEF IInv, TypeInv
  <2> QED
    BY <2>1, <2>2
<1>2. /\ dpc' = "down" /\ sockfd' = 0 /\ op' = NoOp /\ req' = 0 /\ nl_sock' = <<>>
      /\ UNCHANGED <<kseq, rpc, rop, client, backlog, answers>>
  BY DEF DaemonGone, kernel, server
<1>3. TypeInv'
  BY <1>1, <1>2 DEF IInv, TypeInv, NoOp, Operation, Ops
<1>4. ServerInv'
  <2>1. client \in 0..Len(conns) /\ Len(conns) \in Nat
    BY DEF IInv, TypeInv
  <2>2. (client # 0 => conns[client].s = "open")'
    BY <1>1, <1>2, <2>1 DEF IInv, ServerInv
  <2>3. (\A c \in 1..Len(conns) : conns[c].s = "closed" => conns[c].up = <<>>)'
    BY <1>1, <1>2 DEF IInv, ServerInv
  <2>4. (\A i \in 1..Len(backlog) :
           backlog[i] \in 1..Len(conns) /\ conns[backlog[i]].s = "open")'
    BY <1>1, <1>2 DEF IInv, ServerInv
  <2> QED
    BY <1>2, <2>2, <2>3, <2>4 DEF IInv, ServerInv
<1>5. DaemonInv'
  BY <1>2 DEF DaemonInv
<1>6. AnswerIsOfItsRequest'
  BY <1>2 DEF IInv, AnswerIsOfItsRequest
<1> QED
  BY <1>3, <1>4, <1>5, <1>6 DEF IInv

\* A step that changes what is under way on one connection.
LEMMA OneConnection ==
  ASSUME IInv, NEW k \in 1..Len(conns), NEW v \in Conns,
         conns' = [conns EXCEPT ![k] = v],
         v.s = conns[k].s, v.s = "closed" => v.up = <<>>,
         UNCHANGED <<client, backlog>>, rpc' \in {"recv", "send"} => client # 0
  PROVE  /\ ServerInv'
         /\ conns' \in Seq(Conns) /\ Len(conns') = Len(conns)
         /\ conns'[k] = v
         /\ \A c \in 1..Len(conns) : c # k => conns'[c] = conns[c]
<1>1. /\ conns' \in Seq(Conns) /\ Len(conns') = Len(conns) /\ conns'[k] = v
      /\ \A c \in 1..Len(conns) : c # k => conns'[c] = conns[c]
  BY Updated DEF IInv, TypeInv
<1>2. client \in 0..Len(conns) /\ Len(conns) \in Nat
  BY DEF IInv, TypeInv
<1>3. \A c \in 1..Len(conns) : conns'[c].s = conns[c].s
  BY <1>1
<1>4. (client # 0 => conns[client].s = "open")'
  BY <1>2, <1>3 DEF IInv, ServerInv
<1>5. (\A c \in 1..Len(conns) : conns[c].s = "closed" => conns[c].up = <<>>)'
  BY <1>1 DEF IInv, ServerInv
<1>6. (\A i \in 1..Len(backlog) :
         backlog[i] \in 1..Len(conns) /\ conns[backlog[i]].s = "open")'
  BY <1>1, <1>3 DEF IInv, ServerInv
<1> QED
  BY <1>1, <1>4, <1>5, <1>6 DEF ServerInv

\* What the transfers make of the record of a connection.
LEMMA Transferred ==
  ASSUME NEW r \in Conns, NEW q \in Seq(Ops), NEW e \in {"none", "reset", "broken"}
  PROVE  /\ [r EXCEPT !.up = q] \in Conns
         /\ [r EXCEPT !.up = q].s = r.s
         /\ [r EXCEPT !.up = q].up = q
         /\ [r EXCEPT !.up = q].down = r.down
         /\ [r EXCEPT !.down = q] \in Conns
         /\ [r EXCEPT !.down = q].s = r.s
         /\ [r EXCEPT !.down = q].up = r.up
         /\ [r EXCEPT !.down = q].down = q
         /\ [r EXCEPT !.err = e] \in Conns
         /\ [r EXCEPT !.err = e].s = r.s
         /\ [r EXCEPT !.err = e].up = r.up
         /\ [r EXCEPT !.err = e].down = r.down
  BY Zenon DEF Conns

\* A step that leaves the daemon, the server and their connections alone.
LEMMA NobodyMoves ==
  ASSUME IInv, UNCHANGED <<daemon, server, conns, answers>>
  PROVE  /\ ServerInv' /\ DaemonInv' /\ AnswerIsOfItsRequest'
         /\ kseq' \in Nat
            /\ nl_sock' \in Seq(Messages)
              => TypeInv'
<1>1. UNCHANGED <<dpc, req, op, sockfd, rpc, rop, client, backlog, conns, answers>>
  BY DEF daemon, server
<1>2. ServerInv'
  BY <1>1 DEF IInv, ServerInv
<1>3. DaemonInv'
  BY <1>1 DEF IInv, DaemonInv, Quiet, Carries, InServer
<1>4. AnswerIsOfItsRequest'
  BY <1>1 DEF IInv, AnswerIsOfItsRequest
<1>5. kseq' \in Nat /\ nl_sock' \in Seq(Messages)
        => TypeInv'
  BY <1>1 DEF IInv, TypeInv
<1> QED
  BY <1>2, <1>3, <1>4, <1>5

\* A new kernel request touches nothing the daemon holds.
LEMMA IssueIInv == ASSUME IInv, Issue PROVE IInv'
<1>1. kseq' \in Nat /\ nl_sock' \in Seq(Messages)
  <2>1. kseq' \in Nat /\ nl_sock \in Seq(Messages)
    BY DEF IInv, TypeInv, Issue
  <2>2. [cmd |-> "AVERY_CMD_REQUEST", seq |-> kseq'] \in Messages
    BY <2>1 DEF Messages
  <2> QED
    BY <2>1, <2>2, Queue, Zenon DEF Issue
<1>2. UNCHANGED <<daemon, server, conns, answers>>
  BY DEF Issue
<1> QED
  BY <1>1, <1>2, NobodyMoves DEF IInv

\* connect_remote opens a connection on which nothing is under way.
LEMMA ConnectIInv == ASSUME IInv, connect_remote PROVE IInv'
<1>1. /\ dpc' = "register" /\ rpc # "down"
      /\ conns' = Append(conns, Connection) /\ sockfd' = Len(conns')
      /\ backlog' = Append(backlog, sockfd')
      /\ UNCHANGED <<kseq, nl_sock, req, op, rpc, rop, client, answers>>
  BY DEF connect_remote, kernel
<1>2. Connection \in Conns
  BY NothingUnderWay DEF Connection, Conns
<1>3. /\ conns' \in Seq(Conns) /\ Len(conns') = Len(conns) + 1
      /\ conns'[Len(conns) + 1] = Connection
      /\ \A c \in 1..Len(conns) : conns'[c] = conns[c]
      /\ Len(conns) \in Nat /\ client \in 0..Len(conns)
  BY <1>1, <1>2 DEF IInv, TypeInv
<1>4. /\ backlog' \in Seq(Nat) /\ Len(backlog') = Len(backlog) + 1
      /\ backlog'[Len(backlog) + 1] = Len(conns) + 1
      /\ \A i \in 1..Len(backlog) : backlog'[i] = backlog[i]
      /\ Len(backlog) \in Nat
  BY <1>1, <1>3 DEF IInv, TypeInv
<1>5. TypeInv'
  BY <1>1, <1>3, <1>4 DEF IInv, TypeInv
<1>6. ServerInv'
  <2>1. /\ (client # 0 => conns[client].s = "open")'
        /\ (rpc \in {"recv", "send"} => client # 0)'
    BY <1>1, <1>3 DEF IInv, ServerInv
  <2>2. (\A c \in 1..Len(conns) : conns[c].s = "closed" => conns[c].up = <<>>)'
    BY <1>3 DEF IInv, ServerInv, Connection
  <2>3. (\A i \in 1..Len(backlog) :
           backlog[i] \in 1..Len(conns) /\ conns[backlog[i]].s = "open")'
    <3>1. ASSUME NEW i \in 1..Len(backlog)'
          PROVE  (backlog[i] \in 1..Len(conns) /\ conns[backlog[i]].s = "open")'
      <4>1. CASE i = Len(backlog) + 1
        BY <1>3, <1>4, <4>1 DEF Connection
      <4>2. CASE i \in 1..Len(backlog)
        <5>1. backlog[i] \in 1..Len(conns) /\ conns[backlog[i]].s = "open"
          BY <4>2 DEF IInv, ServerInv
        <5> QED
          BY <1>3, <1>4, <4>2, <5>1
      <4> QED
        BY <1>4, <4>1, <4>2
    <3> QED
      BY <3>1
  <2> QED
    BY <2>1, <2>2, <2>3 DEF ServerInv
<1>7. DaemonInv'
  BY <1>1, <1>3 DEF DaemonInv, Quiet, InServer, Connection
<1>8. AnswerIsOfItsRequest'
  BY <1>1 DEF IInv, AnswerIsOfItsRequest
<1> QED
  BY <1>5, <1>6, <1>7, <1>8 DEF IInv

\* Registering with the kernel moves no message of the connection.
LEMMA RegisterIInv == ASSUME IInv, nl_register_daemon PROVE IInv'
<1>1. /\ dpc = "register" /\ dpc' = "request"
      /\ UNCHANGED <<kseq, nl_sock, req, op, sockfd, rpc, rop, client, backlog, conns, answers>>
  BY DEF nl_register_daemon, server
<1>2. TypeInv'
  BY <1>1 DEF IInv, TypeInv
<1>3. ServerInv'
  BY <1>1 DEF IInv, ServerInv
<1>4. DaemonInv'
  BY <1>1 DEF IInv, DaemonInv, Quiet, InServer
<1>5. AnswerIsOfItsRequest'
  BY <1>1 DEF IInv, AnswerIsOfItsRequest
<1> QED
  BY <1>2, <1>3, <1>4, <1>5 DEF IInv

\* nl_recv_request takes a request when the connection is quiet.
LEMMA RequestIInv == ASSUME IInv, nl_recv_request PROVE IInv'
<1>1. Head(nl_sock) \in Messages
  BY DEF nl_recv_request, IInv, TypeInv
<1>2. nl_sock' \in Seq(Messages)
  BY DEF nl_recv_request, IInv, TypeInv
<1>3. /\ req' \in Nat /\ op' \in Ops /\ dpc = "request"
      /\ \/ dpc' = "send" /\ op'.id = req'
         \/ dpc' = "request"
  BY <1>1 DEF nl_recv_request, IInv, TypeInv, Operation, Ops, Messages
<1>4. UNCHANGED <<kseq, sockfd, rpc, rop, client, backlog, conns, answers>>
  BY DEF nl_recv_request, kernel, server
<1> QED
  BY <1>2, <1>3, <1>4 DEF IInv, TypeInv, ServerInv, DaemonInv, AnswerIsOfItsRequest,
     Quiet, InServer

\* The connection the daemon uses is one of the connections.
LEMMA DaemonConnection ==
  ASSUME IInv, dpc # "down"
  PROVE  /\ sockfd \in 1..Len(conns) /\ conns[sockfd] \in Conns /\ op \in Ops
         /\ conns[sockfd].up \in Seq(Ops) /\ conns[sockfd].down \in Seq(Ops)
         /\ conns[sockfd].err \in {"none", "reset", "broken"}
<1>1. sockfd # 0
  BY DEF IInv, DaemonInv
<1>2. sockfd \in 1..Len(conns) /\ conns[sockfd] \in Conns /\ op \in Ops
  BY <1>1 DEF IInv, TypeInv
<1> QED
  BY <1>2, Zenon DEF Conns

\* So is the connection the server serves.
LEMMA ServerConnection ==
  ASSUME IInv, rpc \in {"recv", "send"}
  PROVE  /\ client \in 1..Len(conns) /\ conns[client] \in Conns /\ rop \in Ops
         /\ conns[client].up \in Seq(Ops) /\ conns[client].down \in Seq(Ops)
         /\ conns[client].s = "open"
<1>1. client # 0 /\ conns[client].s = "open"
  BY DEF IInv, ServerInv
<1>2. client \in 1..Len(conns) /\ conns[client] \in Conns /\ rop \in Ops
  BY <1>1 DEF IInv, TypeInv
<1> QED
  BY <1>1, <1>2, Zenon DEF Conns

\* The request sent to the server is the only message under way.
LEMMA SendIInv == ASSUME IInv, Send PROVE IInv'
<1>1. CASE conns[sockfd].err = "broken"
  BY <1>1, DaemonGoneIInv DEF Send
<1>2. CASE conns[sockfd].err # "broken"
  <2>1. /\ dpc = "send" /\ dpc' = "recv"
        /\ UNCHANGED <<kseq, nl_sock, req, op, sockfd, rpc, rop, client, backlog, answers>>
    BY <1>2 DEF Send, kernel, server
  <2>2. /\ sockfd \in 1..Len(conns) /\ conns[sockfd] \in Conns /\ op \in Ops
        /\ conns[sockfd].up \in Seq(Ops)
    BY <2>1, DaemonConnection
  <2>3. Quiet(sockfd) /\ op.id = req /\ (rpc \in {"recv", "send"} => client # 0)
    BY <2>1 DEF IInv, DaemonInv, ServerInv
  <2>4. PICK v \in Conns :
           /\ conns' = [conns EXCEPT ![sockfd] = v]
           /\ v.s = conns[sockfd].s /\ (v.s = "closed" => v.up = <<>>)
           /\ v.down = conns[sockfd].down
           /\ v.up = <<>> \/ (Len(v.up) = 1 /\ v.up[1] = op)
    <3>1. CASE conns[sockfd].s = "open"
      <4> DEFINE q == Append(conns[sockfd].up, op)
      <4>1. q \in Seq(Ops) /\ Len(q) = 1 /\ q[1] = op
        BY <2>2, <2>3 DEF Quiet
      <4>2. conns' = [conns EXCEPT ![sockfd] = [conns[sockfd] EXCEPT !.up = q]]
        BY <1>2, <3>1, Zenon DEF Send
      <4> HIDE DEF q
      <4> DEFINE v == [conns[sockfd] EXCEPT !.up = q]
      <4>3. conns' = [conns EXCEPT ![sockfd] = v]
        BY <4>2
      <4>4. /\ v \in Conns /\ v.s = conns[sockfd].s /\ v.up = q
            /\ v.down = conns[sockfd].down
        BY <2>2, <4>1, Transferred, Zenon
      <4> HIDE DEF v
      <4> QED
        BY <3>1, <4>1, <4>3, <4>4
    <3>2. CASE conns[sockfd].s # "open"
      <4>1. conns' = [conns EXCEPT ![sockfd] = [conns[sockfd] EXCEPT !.err = "broken"]]
        BY <1>2, <3>2, Zenon DEF Send
      <4> DEFINE v == [conns[sockfd] EXCEPT !.err = "broken"]
      <4>2. /\ v \in Conns /\ v.s = conns[sockfd].s /\ v.up = conns[sockfd].up
            /\ v.down = conns[sockfd].down
        BY <2>2, NothingUnderWay, Transferred, Zenon
      <4>3. conns' = [conns EXCEPT ![sockfd] = v]
        BY <4>1
      <4> HIDE DEF v
      <4> QED
        BY <2>3, <4>2, <4>3 DEF Quiet
    <3> QED
      BY <3>1, <3>2
  <2>5. /\ ServerInv'
        /\ conns' \in Seq(Conns) /\ Len(conns') = Len(conns) /\ conns'[sockfd] = v
    BY <2>1, <2>2, <2>3, <2>4, OneConnection
  <2>6. TypeInv'
    BY <2>1, <2>5 DEF IInv, TypeInv
  <2>7. DaemonInv'
    BY <2>1, <2>2, <2>3, <2>4, <2>5 DEF DaemonInv, Quiet, Carries, InServer
  <2>8. AnswerIsOfItsRequest'
    BY <2>1 DEF IInv, AnswerIsOfItsRequest
  <2> QED
    BY <2>5, <2>6, <2>7, <2>8 DEF IInv
<1> QED
  BY <1>1, <1>2

\* nl_send_response ends the request and leaves the connection quiet.
LEMMA ResponseIInv == ASSUME IInv, nl_send_response PROVE IInv'
<1>1. /\ dpc = "respond" /\ dpc' = "request"
      /\ answers' = answers \cup {[seq |-> req, op |-> op, conn |-> sockfd]}
      /\ UNCHANGED <<kseq, req, op, sockfd, rpc, rop, client, backlog, conns>>
  BY DEF nl_send_response, server
<1>2. nl_sock' \in Seq(Messages)
  <2>1. nl_sock \in Seq(Messages) /\ [cmd |-> "error", seq |-> req] \in Messages
    BY DEF IInv, TypeInv, Messages
  <2> QED
    BY <2>1, Queue, Zenon DEF nl_send_response, KernelReceives
<1>3. TypeInv'
  BY <1>1, <1>2 DEF IInv, TypeInv
<1>4. ServerInv'
  BY <1>1 DEF IInv, ServerInv
<1>5. DaemonInv'
  BY <1>1 DEF IInv, DaemonInv, Quiet, InServer
<1>6. AnswerIsOfItsRequest'
  BY <1>1 DEF IInv, DaemonInv, AnswerIsOfItsRequest
<1> QED
  BY <1>3, <1>4, <1>5, <1>6 DEF IInv

\* A server that starts has no connection.
LEMMA RcStartIInv == ASSUME IInv, RcStart PROVE IInv'
<1>1. /\ rpc = "down" /\ rpc' = "accept"
      /\ UNCHANGED <<kseq, nl_sock, dpc, req, op, sockfd, rop, client, backlog, conns, answers>>
  BY DEF RcStart, kernel, daemon
<1>2. TypeInv'
  BY <1>1 DEF IInv, TypeInv
<1>3. ServerInv'
  BY <1>1 DEF IInv, ServerInv
<1>4. DaemonInv'
  BY <1>1 DEF IInv, DaemonInv, Quiet, Carries, InServer
<1>5. AnswerIsOfItsRequest'
  BY <1>1 DEF IInv, AnswerIsOfItsRequest
<1> QED
  BY <1>2, <1>3, <1>4, <1>5 DEF IInv

\* A connection that is accepted has at most the first request on it.
LEMMA RcAcceptIInv == ASSUME IInv, RcAccept PROVE IInv'
<1>1. /\ rpc = "accept" /\ rpc' = "recv" /\ backlog # <<>>
      /\ client' = Head(backlog) /\ backlog' = Tail(backlog)
      /\ UNCHANGED <<kseq, nl_sock, dpc, req, op, sockfd, rop, conns, answers>>
  BY DEF RcAccept, kernel, daemon
<1>2. /\ backlog \in Seq(Nat) /\ Len(backlog) > 0
      /\ client' = backlog[1]
      /\ backlog' \in Seq(Nat) /\ Len(backlog') = Len(backlog) - 1
      /\ \A i \in 1..Len(backlog') : backlog'[i] = backlog[i + 1]
  BY <1>1 DEF IInv, TypeInv
<1>3. client' \in 1..Len(conns) /\ conns[client'].s = "open"
  BY <1>2 DEF IInv, ServerInv
<1>4. TypeInv'
  BY <1>1, <1>2, <1>3 DEF IInv, TypeInv
<1>5. ServerInv'
  <2>1. (\A i \in 1..Len(backlog) :
           backlog[i] \in 1..Len(conns) /\ conns[backlog[i]].s = "open")'
    BY <1>1, <1>2 DEF IInv, ServerInv
  <2> QED
    BY <1>1, <1>3, <2>1 DEF IInv, ServerInv
<1>6. DaemonInv'
  BY <1>1 DEF IInv, DaemonInv, Quiet, Carries, InServer
<1>7. AnswerIsOfItsRequest'
  BY <1>1 DEF IInv, AnswerIsOfItsRequest
<1> QED
  BY <1>4, <1>5, <1>6, <1>7 DEF IInv

\* What the daemon receives answers the request it sent.
LEMMA RecvIInv == ASSUME IInv, Recv PROVE IInv'
<1>1. /\ dpc = "recv" /\ dpc' = "respond"
      /\ UNCHANGED <<kseq, nl_sock, req, sockfd, rpc, rop, client, backlog, answers>>
  BY DEF Recv, kernel, server
<1>2. /\ sockfd \in 1..Len(conns) /\ conns[sockfd] \in Conns /\ op \in Ops
      /\ conns[sockfd].up \in Seq(Ops) /\ conns[sockfd].down \in Seq(Ops)
      /\ conns[sockfd].err \in {"none", "reset", "broken"}
  BY <1>1, DaemonConnection
<1>3. /\ Quiet(sockfd) \/ Carries(sockfd, req)
      /\ op.id = req
      /\ conns[sockfd].s = "closed" => conns[sockfd].up = <<>> /\ ~InServer(sockfd)
      /\ rpc \in {"recv", "send"} => client # 0
  BY <1>1, <1>2 DEF IInv, DaemonInv, ServerInv, InServer
<1>4. PICK v \in Conns :
         /\ conns' = [conns EXCEPT ![sockfd] = v]
         /\ v.s = conns[sockfd].s
         /\ v.up = <<>> /\ v.down = <<>> /\ ~InServer(sockfd)
         /\ op' \in Ops /\ op'.id = req
  <2>1. CASE conns[sockfd].down # <<>>
    <3> DEFINE q == Tail(conns[sockfd].down)
               v == [conns[sockfd] EXCEPT !.down = q]
    <3>1. /\ Len(conns[sockfd].down) = 1 /\ conns[sockfd].down[1].id = req
          /\ conns[sockfd].up = <<>> /\ ~InServer(sockfd)
      BY <1>3, <2>1 DEF Quiet, Carries
    <3>2. q \in Seq(Ops) /\ q = <<>>
      BY <1>2, <2>1, <3>1, First, Zenon
    <3>3. op' = Head(conns[sockfd].down) /\ conns' = [conns EXCEPT ![sockfd] = v]
      BY <2>1, Zenon DEF Recv
    <3>4. op' \in Ops /\ op'.id = req
      BY <1>2, <3>1, <3>3
    <3> HIDE DEF q
    <3>5. v \in Conns /\ v.s = conns[sockfd].s /\ v.up = conns[sockfd].up /\ v.down = q
      BY <1>2, <3>2, Transferred, Zenon
    <3> HIDE DEF v
    <3> QED
      BY <3>1, <3>2, <3>3, <3>4, <3>5
  <2>2. CASE conns[sockfd].down = <<>>
    <3> DEFINE e == IF conns[sockfd].err = "reset" THEN "broken" ELSE conns[sockfd].err
               v == [conns[sockfd] EXCEPT !.err = e]
    <3>1. conns[sockfd].s = "closed" /\ op' = op /\ conns' = [conns EXCEPT ![sockfd] = v]
      BY <2>2, Zenon DEF Recv
    <3>2. e \in {"none", "reset", "broken"}
      BY <1>2
    <3> HIDE DEF e
    <3>3. /\ v \in Conns /\ v.s = conns[sockfd].s /\ v.up = conns[sockfd].up
          /\ v.down = conns[sockfd].down
      BY <1>2, <3>2, NothingUnderWay, Transferred, Zenon
    <3> HIDE DEF v
    <3> QED
      BY <1>2, <1>3, <2>2, <3>1, <3>3
  <2> QED
    BY <2>1, <2>2
<1>5. /\ ServerInv'
      /\ conns' \in Seq(Conns) /\ Len(conns') = Len(conns) /\ conns'[sockfd] = v
  BY <1>1, <1>2, <1>3, <1>4, OneConnection
<1>6. TypeInv'
  BY <1>1, <1>4, <1>5 DEF IInv, TypeInv
<1>7. DaemonInv'
  BY <1>1, <1>2, <1>4, <1>5 DEF DaemonInv, Quiet, InServer
<1>8. AnswerIsOfItsRequest'
  BY <1>1 DEF IInv, AnswerIsOfItsRequest
<1> QED
  BY <1>5, <1>6, <1>7, <1>8 DEF IInv

\* The request moves from the connection into the server.
LEMMA RcRecvIInv == ASSUME IInv, RcRecv PROVE IInv'
<1>1. rpc = "recv" /\ UNCHANGED <<kernel, nl_sock, daemon, answers>>
  BY DEF RcRecv
<1>2. CASE conns[client].up = <<>>
  BY <1>1, <1>2, ServerGoneIInv DEF RcRecv
<1>3. CASE conns[client].up # <<>>
  <2> DEFINE q == Tail(conns[client].up)
             v == [conns[client] EXCEPT !.up = q]
  <2>1. /\ rop' = Operation(Head(conns[client].up).id, "remote_rc")
        /\ conns' = [conns EXCEPT ![client] = v]
        /\ rpc' = "send" /\ UNCHANGED <<client, backlog>>
    BY <1>3, Zenon DEF RcRecv
  <2>2. /\ client \in 1..Len(conns) /\ conns[client] \in Conns
        /\ conns[client].up \in Seq(Ops) /\ conns[client].s = "open"
    BY <1>1, ServerConnection
  <2>3. /\ q \in Seq(Ops) /\ Head(conns[client].up) = conns[client].up[1]
        /\ conns[client].up[1] \in Ops
        /\ Len(conns[client].up) = 1 => q = <<>>
    BY <1>3, <2>2, First, Zenon
  <2>4. rop' \in Ops /\ rop'.id = conns[client].up[1].id
    BY <2>1, <2>3 DEF Operation, Ops
  <2> HIDE DEF q
  <2>5. v \in Conns /\ v.s = conns[client].s /\ v.up = q /\ v.down = conns[client].down
    BY <2>2, <2>3, NothingUnderWay, Transferred, Zenon
  <2> HIDE DEF v
  <2>6. /\ ServerInv'
        /\ conns' \in Seq(Conns) /\ Len(conns') = Len(conns) /\ conns'[client] = v
        /\ \A c \in 1..Len(conns) : c # client => conns'[c] = conns[c]
    <3>1. client # 0 /\ v.s # "closed"
      BY <2>2, <2>5
    <3> QED
      BY <2>1, <2>2, <2>5, <3>1, OneConnection, Zenon
  <2>7. UNCHANGED <<kseq, nl_sock, dpc, req, op, sockfd, answers>>
    BY <1>1 DEF kernel, daemon
  <2>8. TypeInv'
    BY <2>1, <2>4, <2>6, <2>7 DEF IInv, TypeInv
  <2>9. DaemonInv'
    <3>1. CASE dpc = "down"
      BY <2>7, <3>1 DEF DaemonInv
    <3>2. CASE dpc # "down" /\ sockfd # client
      <4>1. sockfd \in 1..Len(conns)
        BY <3>2, DaemonConnection
      <4> QED
        BY <1>1, <2>1, <2>6, <2>7, <3>2, <4>1 DEF IInv, DaemonInv, Quiet, Carries, InServer
    <3>3. CASE dpc # "down" /\ sockfd = client
      <4>1. dpc = "recv" /\ Carries(sockfd, req) /\ op.id = req
        BY <1>3, <3>3 DEF IInv, TypeInv, DaemonInv, Quiet
      <4>2. /\ Len(conns[client].up) = 1 /\ conns[client].up[1].id = req
            /\ conns[client].down = <<>>
        BY <1>1, <1>3, <3>3, <4>1 DEF Carries, InServer
      <4>3. Carries(sockfd, req)'
        BY <2>1, <2>3, <2>4, <2>5, <2>6, <2>7, <3>3, <4>2 DEF Carries, InServer
      <4> QED
        BY <2>2, <2>7, <3>3, <4>1, <4>3 DEF DaemonInv
    <3> QED
      BY <3>1, <3>2, <3>3
  <2>10. AnswerIsOfItsRequest'
    BY <2>7 DEF IInv, AnswerIsOfItsRequest
  <2> QED
    BY <2>6, <2>8, <2>9, <2>10 DEF IInv
<1> QED
  BY <1>2, <1>3

\* The answer moves from the server onto the connection.
LEMMA RcSendIInv == ASSUME IInv, RcSend PROVE IInv'
<1>1. rpc = "send" /\ UNCHANGED <<kernel, nl_sock, daemon, answers>>
  BY DEF RcSend
<1>2. /\ client \in 1..Len(conns) /\ conns[client] \in Conns /\ rop \in Ops
      /\ conns[client].down \in Seq(Ops) /\ conns[client].s = "open"
  BY <1>1, ServerConnection
<1>3. CASE ServerGone
  BY <1>1, <1>3, ServerGoneIInv
<1>4. ASSUME rpc' = "recv", UNCHANGED <<rop, client, backlog>>,
             NEW v \in Conns, conns' = [conns EXCEPT ![client] = v],
             v.s = conns[client].s, v.up = conns[client].up,
             \/ v.down = conns[client].down
             \/ conns[client].down = <<>> => Len(v.down) = 1 /\ v.down[1] = rop
      PROVE  IInv'
  <2>1. UNCHANGED <<kseq, nl_sock, dpc, req, op, sockfd, answers>>
    BY <1>1 DEF kernel, daemon
  <2>2. /\ ServerInv'
        /\ conns' \in Seq(Conns) /\ Len(conns') = Len(conns) /\ conns'[client] = v
        /\ \A c \in 1..Len(conns) : c # client => conns'[c] = conns[c]
    <3>1. client # 0 /\ v.s # "closed"
      BY <1>2, <1>4
    <3> QED
      BY <1>2, <1>4, <3>1, OneConnection, Zenon
  <2>3. TypeInv'
    BY <1>4, <2>1, <2>2 DEF IInv, TypeInv
  <2>4. DaemonInv'
    <3>1. CASE dpc = "down"
      BY <2>1, <3>1 DEF DaemonInv
    <3>2. CASE dpc # "down" /\ sockfd # client
      <4>1. sockfd \in 1..Len(conns)
        BY <3>2, DaemonConnection
      <4> QED
        BY <1>4, <2>1, <2>2, <3>2, <4>1 DEF IInv, DaemonInv, Quiet, Carries, InServer
    <3>3. CASE dpc # "down" /\ sockfd = client
      <4>1. dpc = "recv" /\ Carries(sockfd, req) /\ op.id = req
        BY <1>1, <3>3 DEF IInv, TypeInv, DaemonInv, Quiet, InServer
      <4>2. rop.id = req /\ conns[client].up = <<>> /\ conns[client].down = <<>>
        BY <1>1, <3>3, <4>1 DEF Carries, InServer
      <4>3. (Quiet(sockfd) \/ Carries(sockfd, req))'
        BY <1>4, <2>1, <2>2, <3>3, <4>2 DEF Quiet, Carries, InServer
      <4>4. sockfd # 0
        BY <1>2, <3>3
      <4> QED
        BY <2>1, <4>1, <4>3, <4>4 DEF DaemonInv
    <3> QED
      BY <3>1, <3>2, <3>3
  <2>5. AnswerIsOfItsRequest'
    BY <2>1 DEF IInv, AnswerIsOfItsRequest
  <2> QED
    BY <2>2, <2>3, <2>4, <2>5 DEF IInv
<1>5. CASE rpc' = "recv" /\ UNCHANGED <<rop, client, backlog>> /\ conns[client].d = "open"
           /\ conns' = [conns EXCEPT ![client].down = Append(@, rop)]
  <2> DEFINE q == Append(conns[client].down, rop)
             v == [conns[client] EXCEPT !.down = q]
  <2>1. q \in Seq(Ops) /\ (conns[client].down = <<>> => Len(q) = 1 /\ q[1] = rop)
    BY <1>2
  <2>2. conns' = [conns EXCEPT ![client] = v]
    BY <1>5, Zenon
  <2> HIDE DEF q
  <2>3. v \in Conns /\ v.s = conns[client].s /\ v.up = conns[client].up /\ v.down = q
    BY <1>2, <2>1, Transferred, Zenon
  <2> HIDE DEF v
  <2> QED
    BY <1>4, <1>5, <2>1, <2>2, <2>3
<1>6. CASE rpc' = "recv" /\ UNCHANGED <<rop, client, backlog, conns>>
  <2>1. conns' = [conns EXCEPT ![client] = conns[client]]
    BY <1>2, <1>6 DEF IInv, TypeInv
  <2> QED
    BY <1>2, <1>4, <1>6, <2>1
<1> QED
  BY <1>3, <1>5, <1>6 DEF RcSend

\* Every step keeps the invariant.
LEMMA NextIInv == IInv /\ [Next]_vars => IInv'
<1> SUFFICES ASSUME IInv, [Next]_vars PROVE IInv'
  OBVIOUS
<1>1. CASE Issue
  BY <1>1, IssueIInv
<1>2. CASE connect_remote
  BY <1>2, ConnectIInv
<1>3. CASE DaemonStep
  BY <1>3, RegisterIInv, RequestIInv, SendIInv, RecvIInv, ResponseIInv DEF DaemonStep
<1>4. CASE RcStart
  BY <1>4, RcStartIInv
<1>5. CASE RcStep
  BY <1>5, RcAcceptIInv, RcRecvIInv, RcSendIInv DEF RcStep
<1>6. CASE KillDaemon
  BY <1>6, DaemonGoneIInv DEF KillDaemon
<1>7. CASE KillServer
  BY <1>7, ServerGoneIInv DEF KillServer
<1>8. CASE UNCHANGED vars
  <2>1. UNCHANGED <<kseq, nl_sock, daemon, server, conns, answers>>
    BY <1>8 DEF vars, kernel
  <2>2. (kseq \in Nat /\ nl_sock \in Seq(Messages))'
    BY <2>1 DEF IInv, TypeInv
  <2> QED
    BY <2>1, <2>2, NobodyMoves DEF IInv
<1> QED
  BY <1>1, <1>2, <1>3, <1>4, <1>5, <1>6, <1>7, <1>8 DEF Next

\* However daemons, servers and connections come and go, and although the results
\* of send and recv are ignored, nl_send_response sends the kernel nothing but
\* the operation of the request whose number it uses.
THEOREM AnswersMatch == Spec => []AnswerIsOfItsRequest
<1>1. IInv => AnswerIsOfItsRequest
  BY DEF IInv
<1> QED
  BY <1>1, InitIInv, NextIInv, PTL DEF Spec
=============================================================================
