--------------------------- MODULE NetlinkAnswers ---------------------------
(***************************************************************************)
(* How far daemon-doe-netlink misleads the kernel once its server is gone: *)
(* on one connection at most two requests are handed back as their own     *)
(* answers, and no true answer comes after a false one, for any number of  *)
(* requests, connections and kills.                                        *)
(***************************************************************************)
EXTENDS NetlinkProofs, FiniteSetTheorems

Answers == [seq : Nat, op : Ops, conn : Nat]

\* The daemon has a request in hand.
Busy == dpc \in {"send", "recv", "respond"}

Asks(i) == nl_sock[i].cmd = "AVERY_CMD_REQUEST"

\* The daemon takes requests in the order of their numbers: those it has not
\* read are later than the one it has, those answered on its connection earlier.
OrderInv ==
  /\ req <= kseq
  /\ \A i \in 1..Len(nl_sock) : Asks(i) => req < nl_sock[i].seq /\ nl_sock[i].seq <= kseq
  /\ \A i, j \in 1..Len(nl_sock) :
       Asks(i) /\ Asks(j) /\ i < j => nl_sock[i].seq < nl_sock[j].seq
  /\ answers \subseteq Answers
  /\ \A a \in answers : a.conn \in 1..Len(conns)
  /\ \A a \in answers :
       a.conn = sockfd => a.seq <= req /\ (Busy => a.seq < req)

\* What comes down a connection was filled in by the server.
DownInv ==
  /\ rpc = "send" => rop.by = "remote_rc"
  /\ \A c \in 1..Len(conns) : \A i \in 1..Len(conns[c].down) :
       conns[c].down[i].by = "remote_rc"

\* Nothing will come down connection c any more.
Dead(c) == conns[c].s = "closed" /\ conns[c].down = <<>>

AtMostOne(S) == \E x : S \subseteq {x}
AtMostTwo(S) == \E x, y : S \subseteq {x, y}

\* A false answer is given on a dead connection.  The daemon may give one while
\* its socket has not reported the reset, and one when it does.
FalseInv ==
  /\ \A c \in 1..Len(conns) : conns[c].err = "broken" => conns[c].s = "closed"
  /\ \A c \in 1..Len(conns) : FalseAnswers(c) # {} => Dead(c)
  /\ \A c \in 1..Len(conns) : AtMostTwo(FalseAnswers(c))
  /\ dpc \in {"send", "recv"} => op.by = "kernel"
  /\ dpc = "respond" => \/ op.by = "remote_rc" /\ FalseAnswers(sockfd) = {}
                        \/ op.by = "kernel" /\ Dead(sockfd)
  /\ dpc \in {"register", "request", "send"} /\ conns[sockfd].err # "broken"
       => AtMostOne(FalseAnswers(sockfd))
  /\ dpc \in {"recv", "respond"} =>
       /\ AtMostOne(FalseAnswers(sockfd))
       /\ conns[sockfd].err # "broken" => FalseAnswers(sockfd) = {}

AInv == OrderInv /\ DownInv /\ FalseInv /\ FalseAnswersLast
-----------------------------------------------------------------------------
(* The numbers of the requests *)

\* Every message on the netlink socket has a number.
LEMMA MessageNumbers ==
  ASSUME nl_sock \in Seq(Messages)
  PROVE  \A i \in 1..Len(nl_sock) : nl_sock[i].seq \in Nat
<1>1. \A i \in 1..Len(nl_sock) : nl_sock[i] \in Messages
  OBVIOUS
<1>2. \A m \in Messages : m.seq \in Nat
  BY Zenon DEF Messages
<1> QED
  BY <1>1, <1>2

\* A step that neither issues, takes nor answers a request.
LEMMA OrderKept ==
  ASSUME OrderInv, UNCHANGED <<kseq, nl_sock, req, sockfd, answers>>,
         Len(conns') = Len(conns), Busy' => Busy
  PROVE  OrderInv'
  BY DEF OrderInv, Asks

\* The kernel's next request has the highest number so far.
LEMMA IssueOrder == ASSUME IInv, OrderInv, Issue PROVE OrderInv'
<1>1. /\ kseq' = kseq + 1 /\ kseq \in Nat /\ req \in Nat /\ nl_sock \in Seq(Messages)
      /\ UNCHANGED <<req, sockfd, dpc, answers, conns>>
  BY DEF Issue, daemon, IInv, TypeInv
<1> DEFINE m == [cmd |-> "AVERY_CMD_REQUEST", seq |-> kseq']
<1>2. nl_sock' = nl_sock \/ nl_sock' = Append(nl_sock, m)
  BY DEF Issue
<1>3. m \in Messages /\ m.seq = kseq + 1
  BY <1>1 DEF Messages
<1>4. \A i \in 1..Len(nl_sock) : nl_sock[i].seq \in Nat
  BY <1>1, MessageNumbers
<1> HIDE DEF m
<1>5. CASE nl_sock' = nl_sock
  BY <1>1, <1>4, <1>5 DEF OrderInv, Asks, Busy
<1>6. CASE nl_sock' = Append(nl_sock, m)
  <2>1. /\ Len(nl_sock') = Len(nl_sock) + 1 /\ Len(nl_sock) \in Nat
        /\ nl_sock'[Len(nl_sock) + 1] = m
        /\ \A i \in 1..Len(nl_sock) : nl_sock'[i] = nl_sock[i]
    BY <1>1, <1>3, <1>6
  <2>2. (\A i \in 1..Len(nl_sock) :
           Asks(i) => req < nl_sock[i].seq /\ nl_sock[i].seq <= kseq)'
    BY <1>1, <1>3, <1>4, <2>1 DEF OrderInv, Asks
  <2>3. (\A i, j \in 1..Len(nl_sock) :
           Asks(i) /\ Asks(j) /\ i < j => nl_sock[i].seq < nl_sock[j].seq)'
    <3> SUFFICES ASSUME NEW i \in 1..(Len(nl_sock) + 1), NEW j \in 1..(Len(nl_sock) + 1),
                        Asks(i)', Asks(j)', i < j
                 PROVE  nl_sock'[i].seq < nl_sock'[j].seq
      BY <2>1
    <3>1. i \in 1..Len(nl_sock) /\ nl_sock'[i] = nl_sock[i] /\ Asks(i)
      BY <2>1 DEF Asks
    <3>2. CASE j = Len(nl_sock) + 1
      BY <1>1, <1>3, <1>4, <2>1, <3>1, <3>2 DEF OrderInv
    <3>3. CASE j \in 1..Len(nl_sock)
      BY <2>1, <3>1, <3>3 DEF OrderInv, Asks
    <3> QED
      BY <2>1, <3>2, <3>3
  <2> QED
    BY <1>1, <2>2, <2>3 DEF OrderInv, Busy
<1> QED
  BY <1>2, <1>5, <1>6

\* A new connection has no answers.
LEMMA ConnectOrder == ASSUME IInv, OrderInv, connect_remote PROVE OrderInv'
<1>1. /\ sockfd' = Len(conns) + 1 /\ Len(conns') = Len(conns) + 1 /\ Len(conns) \in Nat
      /\ dpc' = "register" /\ UNCHANGED <<kseq, nl_sock, req, answers>>
  <2>1. conns' = Append(conns, Connection) /\ sockfd' = Len(conns')
    BY DEF connect_remote
  <2>2. conns \in Seq(Conns) /\ Len(conns) \in Nat
    BY DEF IInv, TypeInv
  <2>3. Len(Append(conns, Connection)) = Len(conns) + 1
    BY <2>2
  <2> QED
    BY <2>1, <2>2, <2>3 DEF connect_remote, kernel
<1> QED
  BY <1>1 DEF OrderInv, Asks, Busy

\* The end of the daemon drops what it has not read.
LEMMA DaemonGoneOrder ==
  ASSUME IInv, OrderInv, DaemonGone, UNCHANGED <<kernel, answers>>, Len(conns') = Len(conns)
  PROVE  OrderInv'
<1>1. sockfd' = 0 /\ req' = 0 /\ nl_sock' = <<>> /\ dpc' = "down" /\ UNCHANGED <<kseq, answers>>
  BY DEF DaemonGone, kernel
<1>2. kseq \in Nat
  BY DEF IInv, TypeInv
<1> QED
  BY <1>1, <1>2 DEF OrderInv, Busy

\* The request nl_recv_request takes is later than those answered, and earlier
\* than those left.
LEMMA RequestOrder == ASSUME IInv, OrderInv, nl_recv_request PROVE OrderInv'
<1>1. /\ nl_sock \in Seq(Messages) /\ nl_sock # <<>> /\ nl_sock' = Tail(nl_sock)
      /\ Head(nl_sock) = nl_sock[1] /\ req \in Nat /\ kseq \in Nat /\ dpc = "request"
      /\ UNCHANGED <<kseq, sockfd, conns, answers>>
  BY DEF nl_recv_request, IInv, TypeInv, kernel
<1>2. /\ Len(nl_sock) \in Nat /\ Len(nl_sock) > 0 /\ Len(nl_sock') = Len(nl_sock) - 1
      /\ \A i \in 1..Len(nl_sock') : nl_sock'[i] = nl_sock[i + 1] /\ i + 1 \in 1..Len(nl_sock)
  BY <1>1
<1>3. \A i \in 1..Len(nl_sock) : nl_sock[i].seq \in Nat
  BY <1>1, MessageNumbers
<1>4. \A a \in answers : a.seq \in Nat
  BY DEF OrderInv, Answers
<1>5. (\A i, j \in 1..Len(nl_sock) :
         Asks(i) /\ Asks(j) /\ i < j => nl_sock[i].seq < nl_sock[j].seq)'
  <2> SUFFICES ASSUME NEW i \in 1..Len(nl_sock'), NEW j \in 1..Len(nl_sock'),
                      Asks(i)', Asks(j)', i < j
               PROVE  nl_sock'[i].seq < nl_sock'[j].seq
    OBVIOUS
  <2>1. Asks(i + 1) /\ Asks(j + 1) /\ i + 1 < j + 1
    BY <1>2 DEF Asks
  <2> QED
    BY <1>2, <2>1 DEF OrderInv
<1>6. CASE Head(nl_sock).cmd = "AVERY_CMD_REQUEST"
  <2>1. req' = nl_sock[1].seq /\ Asks(1) /\ 1 \in 1..Len(nl_sock)
    BY <1>1, <1>2, <1>6 DEF nl_recv_request, Asks
  <2>2. req < req' /\ req' <= kseq /\ req' \in Nat
    BY <1>3, <2>1 DEF OrderInv
  <2>3. (\A i \in 1..Len(nl_sock) :
           Asks(i) => req < nl_sock[i].seq /\ nl_sock[i].seq <= kseq)'
    <3> SUFFICES ASSUME NEW i \in 1..Len(nl_sock'), Asks(i)'
                 PROVE  req' < nl_sock'[i].seq /\ nl_sock'[i].seq <= kseq'
      OBVIOUS
    <3>1. i + 1 \in 1..Len(nl_sock) /\ Asks(i + 1) /\ 1 < i + 1
      BY <1>2 DEF Asks
    <3> QED
      BY <1>1, <1>2, <2>1, <3>1 DEF OrderInv
  <2>4. (\A a \in answers : a.conn = sockfd => a.seq <= req /\ (Busy => a.seq < req))'
    BY <1>1, <1>4, <2>2 DEF OrderInv
  <2> QED
    BY <1>1, <1>5, <2>2, <2>3, <2>4 DEF OrderInv
<1>7. CASE Head(nl_sock).cmd # "AVERY_CMD_REQUEST"
  <2>1. req' = req /\ dpc' = dpc
    BY <1>7 DEF nl_recv_request
  <2>2. (\A i \in 1..Len(nl_sock) :
           Asks(i) => req < nl_sock[i].seq /\ nl_sock[i].seq <= kseq)'
    BY <1>1, <1>2, <2>1 DEF OrderInv, Asks
  <2> QED
    BY <1>1, <1>5, <2>1, <2>2 DEF OrderInv, Busy
<1> QED
  BY <1>6, <1>7

\* Once answered, the request is no longer in hand.  An error that comes back
\* is no request.
LEMMA ResponseOrder == ASSUME IInv, OrderInv, nl_send_response PROVE OrderInv'
<1> DEFINE a0 == [seq |-> req, op |-> op, conn |-> sockfd]
           m  == [cmd |-> "error", seq |-> req]
<1>1. /\ dpc = "respond" /\ dpc' = "request" /\ answers' = answers \cup {a0}
      /\ nl_sock' = nl_sock \/ nl_sock' = Append(nl_sock, m)
      /\ UNCHANGED <<kseq, req, sockfd, conns>>
  BY DEF nl_send_response, KernelReceives
<1>2. /\ req \in Nat /\ kseq \in Nat /\ sockfd \in 1..Len(conns) /\ op \in Ops
      /\ nl_sock \in Seq(Messages) /\ Len(conns) \in Nat
  BY <1>1, DaemonConnection DEF IInv, TypeInv
<1>3. a0 \in Answers /\ a0.conn = sockfd /\ a0.seq = req
  BY <1>2 DEF Answers
<1>4. m \in Messages /\ m.cmd # "AVERY_CMD_REQUEST"
  BY <1>2 DEF Messages
<1> HIDE DEF a0, m
<1>5. /\ answers' \subseteq Answers
      /\ \A a \in answers' : a.conn \in 1..Len(conns)
      /\ \A a \in answers' : a.conn = sockfd => a.seq <= req
  <2>1. \A a \in answers : a.seq \in Nat
    BY DEF OrderInv, Answers
  <2> QED
    BY <1>1, <1>2, <1>3, <2>1 DEF OrderInv
<1>6. /\ (\A i \in 1..Len(nl_sock) : Asks(i) => req < nl_sock[i].seq /\ nl_sock[i].seq <= kseq)'
      /\ (\A i, j \in 1..Len(nl_sock) :
            Asks(i) /\ Asks(j) /\ i < j => nl_sock[i].seq < nl_sock[j].seq)'
  <2>1. CASE nl_sock' = nl_sock
    BY <1>1, <2>1 DEF OrderInv, Asks
  <2>2. CASE nl_sock' = Append(nl_sock, m)
    <3>1. /\ Len(nl_sock') = Len(nl_sock) + 1 /\ Len(nl_sock) \in Nat
          /\ nl_sock'[Len(nl_sock) + 1] = m
          /\ \A i \in 1..Len(nl_sock) : nl_sock'[i] = nl_sock[i]
      BY <1>2, <1>4, <2>2
    <3>2. \A i \in 1..Len(nl_sock') : Asks(i)' => i \in 1..Len(nl_sock) /\ Asks(i)
      BY <1>4, <3>1 DEF Asks
    <3> QED
      BY <1>1, <3>1, <3>2 DEF OrderInv
  <2> QED
    BY <1>1, <2>1, <2>2
<1> QED
  BY <1>1, <1>5, <1>6 DEF OrderInv, Busy-----------------------------------------------------------------------------
(* What a step does to the connections *)

\* Every step but a transfer by the daemon leaves connection c as it is, closes
\* an end of it, or moves what is under way while the server has its end.
Kept(c) ==
  /\ conns[c].s = "closed" => conns'[c].s = "closed"
  /\ Dead(c) => Dead(c)'
  /\ \/ conns'[c].err = conns[c].err
     \/ conns[c].s = "open" /\ conns'[c].err = "reset"

\* The fields that NetlinkProofs has no need of.
LEMMA ErrorKept ==
  ASSUME NEW r \in Conns, NEW q \in Seq(Ops)
  PROVE  /\ [r EXCEPT !.up = q].err = r.err
         /\ [r EXCEPT !.down = q].err = r.err
         /\ [r EXCEPT !.d = "closed", !.down = <<>>].err = r.err
         /\ [r EXCEPT !.d = "closed", !.down = <<>>].down = <<>>
  BY Zenon DEF Conns

\* And those of a connection whose error state changes.
LEMMA ErrorSet ==
  ASSUME NEW r \in Conns, NEW e \in {"none", "reset", "broken"}
  PROVE  /\ [r EXCEPT !.err = e].err = e
         /\ [r EXCEPT !.s = "closed", !.up = <<>>, !.err = e].err = e
  BY Zenon DEF Conns

\* The end of the server closes its ends and may reset what was open.
LEMMA ServerGoneKeeps ==
  ASSUME IInv, ServerGone
  PROVE  /\ Len(conns') = Len(conns)
         /\ \A c \in 1..Len(conns) : Kept(c) /\ conns'[c].down = conns[c].down
<1> DEFINE e(c) == IF /\ conns[c].s = "open"
                      /\ conns[c].up # <<>> \/ c # client
                     THEN "reset" ELSE conns[c].err
           v(c) == [conns[c] EXCEPT !.s = "closed", !.up = <<>>, !.err = e(c)]
<1>1. conns' = [c \in 1..Len(conns) |-> v(c)]
  <2>1. DOMAIN conns = 1..Len(conns)
    BY DEF IInv, TypeInv
  <2> QED
    BY <2>1, Zenon DEF ServerGone
<1>2. \A c \in 1..Len(conns) : conns[c] \in Conns
  BY DEF IInv, TypeInv
<1>3. \A c \in 1..Len(conns) : /\ e(c) \in {"none", "reset", "broken"}
                               /\ e(c) = conns[c].err \/ (conns[c].s = "open" /\ e(c) = "reset")
  BY <1>2 DEF Conns
<1> HIDE DEF e
<1>4. \A c \in 1..Len(conns) : v(c).s = "closed" /\ v(c).down = conns[c].down
  BY <1>2, <1>3, ClosedByServer, Zenon
<1>6. \A c \in 1..Len(conns) : v(c).err = e(c)
  <2> TAKE c \in 1..Len(conns)
  <2>1. conns[c] \in Conns /\ e(c) \in {"none", "reset", "broken"}
    BY <1>2, <1>3
  <2> QED
    BY <2>1, ErrorSet
<1> HIDE DEF v
<1>5. Len(conns) \in Nat
  BY DEF IInv, TypeInv
<1> QED
  BY <1>1, <1>3, <1>4, <1>5, <1>6 DEF Kept, Dead

\* The end of the daemon closes its end of one connection.
LEMMA DaemonGoneKeeps ==
  ASSUME IInv, DaemonGone
  PROVE  /\ Len(conns') = Len(conns)
         /\ \A c \in 1..Len(conns) :
              Kept(c) /\ (conns'[c].down = conns[c].down \/ conns'[c].down = <<>>)
<1>1. CASE sockfd = 0
  BY <1>1 DEF DaemonGone, Kept, Dead
<1>2. CASE sockfd # 0
  <2> DEFINE v == [conns[sockfd] EXCEPT !.d = "closed", !.down = <<>>]
  <2>1. sockfd \in 1..Len(conns) /\ conns[sockfd] \in Conns /\ conns \in Seq(Conns)
    BY <1>2 DEF IInv, TypeInv
  <2>2. /\ v \in Conns /\ v.s = conns[sockfd].s /\ v.err = conns[sockfd].err
        /\ v.down = <<>>
    BY <2>1, NothingUnderWay, ClosedByDaemon, ErrorKept, Zenon
  <2>3. conns' = [conns EXCEPT ![sockfd] = v]
    BY <1>2 DEF DaemonGone, IInv, TypeInv
  <2> HIDE DEF v
  <2>4. /\ Len(conns') = Len(conns) /\ conns'[sockfd] = v
        /\ \A c \in 1..Len(conns) : c # sockfd => conns'[c] = conns[c]
    BY <2>1, <2>2, <2>3, Updated
  <2>5. \A c \in 1..Len(conns) : c = sockfd => Kept(c)
    BY <2>2, <2>4 DEF Kept, Dead
  <2>6. \A c \in 1..Len(conns) : c # sockfd => Kept(c) /\ conns'[c].down = conns[c].down
    BY <2>4 DEF Kept, Dead
  <2> QED
    BY <2>2, <2>4, <2>5, <2>6
<1> QED
  BY <1>1, <1>2

\* remote-rc takes an operation from a connection that it has open.
LEMMA RcTakes ==
  ASSUME IInv, rpc = "recv", conns[client].up # <<>>,
         conns' = [conns EXCEPT ![client].up = Tail(@)]
  PROVE  /\ Len(conns') = Len(conns)
         /\ \A c \in 1..Len(conns) : Kept(c) /\ conns'[c].down = conns[c].down
<1> DEFINE q == Tail(conns[client].up)
           v == [conns[client] EXCEPT !.up = q]
<1>1. /\ client \in 1..Len(conns) /\ conns[client] \in Conns
      /\ conns[client].up \in Seq(Ops) /\ conns \in Seq(Conns)
  BY ServerConnection DEF IInv, TypeInv
<1>2. q \in Seq(Ops)
  BY <1>1, First, Zenon
<1>3. conns' = [conns EXCEPT ![client] = v]
  BY Zenon
<1> HIDE DEF q
<1>4. /\ v \in Conns /\ v.s = conns[client].s /\ v.down = conns[client].down
      /\ v.err = conns[client].err
  <2>1. v \in Conns /\ v.s = conns[client].s /\ v.down = conns[client].down
    BY <1>1, <1>2, NothingUnderWay, Transferred, Zenon
  <2> QED
    BY <1>1, <1>2, <2>1, ErrorKept, Zenon
<1> HIDE DEF v
<1>5. /\ Len(conns') = Len(conns) /\ conns'[client] = v
      /\ \A c \in 1..Len(conns) : c # client => conns'[c] = conns[c]
  BY <1>1, <1>3, <1>4, Updated
<1> QED
  BY <1>4, <1>5 DEF Kept, Dead

\* remote-rc gives an answer on a connection that it has open.
LEMMA RcGives ==
  ASSUME IInv, rpc = "send", conns' = [conns EXCEPT ![client].down = Append(@, rop)]
  PROVE  /\ Len(conns') = Len(conns)
         /\ \A c \in 1..Len(conns) :
              Kept(c) /\ (\/ conns'[c].down = conns[c].down
                          \/ conns'[c].down = Append(conns[c].down, rop))
<1> DEFINE q == Append(conns[client].down, rop)
           v == [conns[client] EXCEPT !.down = q]
<1>1. /\ client \in 1..Len(conns) /\ conns[client] \in Conns /\ rop \in Ops
      /\ conns[client].down \in Seq(Ops) /\ conns \in Seq(Conns)
      /\ conns[client].s = "open"
  BY ServerConnection DEF IInv, TypeInv
<1>2. q \in Seq(Ops)
  BY <1>1
<1>3. conns' = [conns EXCEPT ![client] = v]
  BY Zenon
<1> HIDE DEF q
<1>4. /\ v \in Conns /\ v.s = conns[client].s /\ v.down = q
      /\ v.err = conns[client].err
  <2>1. v \in Conns /\ v.s = conns[client].s /\ v.down = q
    BY <1>1, <1>2, NothingUnderWay, Transferred, Zenon
  <2> QED
    BY <1>1, <1>2, <2>1, ErrorKept, Zenon
<1> HIDE DEF v
<1>5. /\ Len(conns') = Len(conns) /\ conns'[client] = v
      /\ \A c \in 1..Len(conns) : c # client => conns'[c] = conns[c]
  BY <1>1, <1>3, <1>4, Updated
<1>6. conns'[client].down = Append(conns[client].down, rop)
  BY <1>4, <1>5 DEF q
<1>7. \A c \in 1..Len(conns) : Kept(c)
  BY <1>1, <1>4, <1>5 DEF Kept, Dead
<1> QED
  BY <1>5, <1>6, <1>7
\* A connection the daemon does something to, which the others do not notice.
LEMMA DaemonMoves ==
  ASSUME IInv, dpc # "down", NEW v \in Conns, conns' = [conns EXCEPT ![sockfd] = v]
  PROVE  /\ Len(conns') = Len(conns) /\ conns'[sockfd] = v
         /\ \A c \in 1..Len(conns) : c # sockfd => conns'[c] = conns[c]
         /\ \A c \in 1..Len(conns) : c # sockfd => Kept(c)
<1>1. sockfd \in 1..Len(conns) /\ conns \in Seq(Conns)
  BY DaemonConnection DEF IInv, TypeInv
<1>2. /\ Len(conns') = Len(conns) /\ conns'[sockfd] = v
      /\ \A c \in 1..Len(conns) : c # sockfd => conns'[c] = conns[c]
  BY <1>1, Updated
<1> QED
  BY <1>2 DEF Kept, Dead

\* A send that reaches an open connection only adds to what is under way; one
\* on a connection the server has left breaks it.
LEMMA SendMoves ==
  ASSUME IInv, dpc = "send", sockfd' = sockfd,
         conns' = IF conns[sockfd].s = "open"
                    THEN [conns EXCEPT ![sockfd].up = Append(@, op)]
                    ELSE [conns EXCEPT ![sockfd].err = "broken"]
  PROVE  /\ Len(conns') = Len(conns)
         /\ \A c \in 1..Len(conns) : conns'[c].down = conns[c].down
         /\ \A c \in 1..Len(conns) : conns'[c].s = conns[c].s
         /\ \A c \in 1..Len(conns) : c # sockfd => Kept(c)
         /\ conns[sockfd].s = "open" => Kept(sockfd)
         /\ conns[sockfd].s # "open" => conns'[sockfd].err = "broken"
<1>1. /\ sockfd \in 1..Len(conns) /\ conns[sockfd] \in Conns /\ op \in Ops
      /\ conns[sockfd].up \in Seq(Ops)
  BY DaemonConnection
<1>2. CASE conns[sockfd].s = "open"
  <2> DEFINE q == Append(conns[sockfd].up, op)
             v == [conns[sockfd] EXCEPT !.up = q]
  <2>1. q \in Seq(Ops)
    BY <1>1
  <2>2. conns' = [conns EXCEPT ![sockfd] = v]
    BY <1>2, Zenon
  <2> HIDE DEF q
  <2>3. v \in Conns /\ v.s = conns[sockfd].s /\ v.down = conns[sockfd].down
    BY <1>1, <2>1, NothingUnderWay, Transferred, Zenon
  <2>4. v.err = conns[sockfd].err
    BY <1>1, <2>1, ErrorKept, Zenon
  <2> HIDE DEF v
  <2>5. /\ Len(conns') = Len(conns) /\ conns'[sockfd] = v
        /\ \A c \in 1..Len(conns) : c # sockfd => conns'[c] = conns[c]
        /\ \A c \in 1..Len(conns) : c # sockfd => Kept(c)
    BY <2>2, <2>3, DaemonMoves
  <2>6. Kept(sockfd)
    BY <1>2, <2>3, <2>4, <2>5 DEF Kept, Dead
  <2> QED
    BY <1>2, <2>3, <2>5, <2>6
<1>3. CASE conns[sockfd].s # "open"
  <2> DEFINE v == [conns[sockfd] EXCEPT !.err = "broken"]
  <2>1. conns' = [conns EXCEPT ![sockfd] = v]
    BY <1>3, Zenon
  <2>2. v \in Conns /\ v.s = conns[sockfd].s /\ v.down = conns[sockfd].down
    BY <1>1, NothingUnderWay, Transferred, Zenon
  <2>3. v.err = "broken"
    BY <1>1, ErrorSet, Zenon
  <2> HIDE DEF v
  <2>4. /\ Len(conns') = Len(conns) /\ conns'[sockfd] = v
        /\ \A c \in 1..Len(conns) : c # sockfd => conns'[c] = conns[c]
        /\ \A c \in 1..Len(conns) : c # sockfd => Kept(c)
    BY <2>1, <2>2, DaemonMoves
  <2> QED
    BY <1>3, <2>2, <2>3, <2>4
<1> QED
  BY <1>2, <1>3

\* A receive takes the head of what came down, or finds the connection dead.
LEMMA RecvMoves ==
  ASSUME IInv, Recv
  PROVE  /\ Len(conns') = Len(conns)
         /\ \A c \in 1..Len(conns) : c # sockfd => Kept(c) /\ conns'[c].down = conns[c].down
         /\ conns'[sockfd].s = conns[sockfd].s
         /\ \/ /\ conns[sockfd].down # <<>>
               /\ op' = Head(conns[sockfd].down)
               /\ conns'[sockfd].down = Tail(conns[sockfd].down)
               /\ conns'[sockfd].err = conns[sockfd].err
            \/ /\ Dead(sockfd) /\ op' = op
               /\ conns'[sockfd].down = <<>>
               /\ \/ conns'[sockfd].err = conns[sockfd].err
                  \/ conns'[sockfd].err = "broken"
<1>1. dpc = "recv"
  BY DEF Recv
<1>2. /\ sockfd \in 1..Len(conns) /\ conns[sockfd] \in Conns
      /\ conns[sockfd].down \in Seq(Ops)
      /\ conns[sockfd].err \in {"none", "reset", "broken"}
  BY <1>1, DaemonConnection
<1>3. CASE conns[sockfd].down # <<>>
  <2> DEFINE q == Tail(conns[sockfd].down)
             v == [conns[sockfd] EXCEPT !.down = q]
  <2>1. q \in Seq(Ops)
    BY <1>2, <1>3, First, Zenon
  <2>2. op' = Head(conns[sockfd].down) /\ conns' = [conns EXCEPT ![sockfd] = v]
    BY <1>3, Zenon DEF Recv
  <2> HIDE DEF q
  <2>3. v \in Conns /\ v.s = conns[sockfd].s /\ v.down = q
    BY <1>2, <2>1, Transferred, Zenon
  <2>4. v.err = conns[sockfd].err
    BY <1>2, <2>1, ErrorKept, Zenon
  <2> HIDE DEF v
  <2>5. /\ Len(conns') = Len(conns) /\ conns'[sockfd] = v
        /\ \A c \in 1..Len(conns) : c # sockfd => conns'[c] = conns[c]
        /\ \A c \in 1..Len(conns) : c # sockfd => Kept(c)
    BY <1>1, <2>2, <2>3, DaemonMoves
  <2> QED
    BY <1>3, <2>2, <2>3, <2>4, <2>5 DEF q
<1>4. CASE conns[sockfd].down = <<>>
  <2> DEFINE e == IF conns[sockfd].err = "reset" THEN "broken" ELSE conns[sockfd].err
             v == [conns[sockfd] EXCEPT !.err = e]
  <2>1. conns[sockfd].s = "closed" /\ op' = op /\ conns' = [conns EXCEPT ![sockfd] = v]
    BY <1>4, Zenon DEF Recv
  <2>2. e \in {"none", "reset", "broken"} /\ (e = conns[sockfd].err \/ e = "broken")
    BY <1>2
  <2> HIDE DEF e
  <2>3. v \in Conns /\ v.s = conns[sockfd].s /\ v.down = conns[sockfd].down
    BY <1>2, <2>2, NothingUnderWay, Transferred, Zenon
  <2>4. v.err = e
    BY <1>2, <2>2, ErrorSet
  <2> HIDE DEF v
  <2>5. /\ Len(conns') = Len(conns) /\ conns'[sockfd] = v
        /\ \A c \in 1..Len(conns) : c # sockfd => conns'[c] = conns[c]
        /\ \A c \in 1..Len(conns) : c # sockfd => Kept(c)
    BY <1>1, <2>1, <2>3, DaemonMoves
  <2> QED
    BY <1>4, <2>1, <2>2, <2>3, <2>4, <2>5 DEF Dead
<1> QED
  BY <1>3, <1>4
-----------------------------------------------------------------------------
(* Who filled in what the daemon receives *)

\* A step that sends nothing down a connection.
LEMMA DownKept ==
  ASSUME DownInv, Len(conns') = Len(conns),
         \A c \in 1..Len(conns) :
           conns'[c].down = conns[c].down \/ conns'[c].down = <<>>,
         rpc' = "send" => rpc = "send" /\ rop' = rop
  PROVE  DownInv'
  BY DEF DownInv

\* What is left after a receive was there before.
LEMMA RecvDown == ASSUME IInv, DownInv, Recv PROVE DownInv'
<1>1. UNCHANGED <<rpc, rop, sockfd>> /\ dpc = "recv"
  BY DEF Recv, server
<1>2. sockfd \in 1..Len(conns) /\ conns[sockfd].down \in Seq(Ops)
  BY <1>1, DaemonConnection
<1>3. \A i \in 1..Len(conns'[sockfd].down) : conns'[sockfd].down[i].by = "remote_rc"
  <2>1. CASE conns'[sockfd].down = <<>>
    BY <2>1
  <2>2. CASE /\ conns[sockfd].down # <<>>
             /\ conns'[sockfd].down = Tail(conns[sockfd].down)
    <3> DEFINE q == conns[sockfd].down
    <3>1. q \in Seq(Ops) /\ q # <<>> /\ \A i \in 1..Len(q) : q[i].by = "remote_rc"
      BY <1>2, <2>2 DEF DownInv
    <3> HIDE DEF q
    <3>2. \A i \in 1..Len(Tail(q)) : Tail(q)[i] = q[i + 1] /\ i + 1 \in 1..Len(q)
      BY <3>1
    <3>3. conns'[sockfd].down = Tail(q)
      BY <2>2 DEF q
    <3> QED
      BY <3>1, <3>2, <3>3
  <2> QED
    BY <2>1, <2>2, RecvMoves
<1>4. /\ Len(conns') = Len(conns)
      /\ \A c \in 1..Len(conns) : c # sockfd => conns'[c].down = conns[c].down
  BY RecvMoves
<1> QED
  BY <1>1, <1>3, <1>4 DEF DownInv

\* What remote-rc sends is its own.
LEMMA RcGivesDown ==
  ASSUME IInv, DownInv, rpc = "send", rpc' = "recv",
         conns' = [conns EXCEPT ![client].down = Append(@, rop)]
  PROVE  DownInv'
<1>1. /\ Len(conns') = Len(conns)
      /\ \A c \in 1..Len(conns) : \/ conns'[c].down = conns[c].down
                                  \/ conns'[c].down = Append(conns[c].down, rop)
  BY RcGives
<1>2. \A c \in 1..Len(conns) : \A i \in 1..Len(conns'[c].down) :
        conns'[c].down[i].by = "remote_rc"
  <2> TAKE c \in 1..Len(conns)
  <2> DEFINE q == conns[c].down
  <2>1. q \in Seq(Ops) /\ \A i \in 1..Len(q) : q[i].by = "remote_rc"
    <3>1. conns[c] \in Conns
      BY DEF IInv, TypeInv
    <3>2. q \in Seq(Ops)
      BY <3>1, Zenon DEF Conns
    <3> QED
      BY <3>2 DEF DownInv
  <2>2. conns'[c].down = q \/ conns'[c].down = Append(q, rop)
    BY <1>1
  <2> HIDE DEF q
  <2>3. rop \in Ops /\ rop.by = "remote_rc"
    BY DEF IInv, TypeInv, DownInv
  <2>4. \A i \in 1..Len(Append(q, rop)) : Append(q, rop)[i].by = "remote_rc"
    BY <2>1, <2>3
  <2> QED
    BY <2>1, <2>2, <2>4
<1> QED
  BY <1>1, <1>2 DEF DownInv-----------------------------------------------------------------------------
(* The false answers *)

\* Small sets.
LEMMA Few ==
  /\ AtMostOne({})
  /\ \A S : AtMostOne(S) => AtMostTwo(S)
  /\ \A S, x : AtMostOne(S) => AtMostTwo(S \cup {x})
  /\ \A x : AtMostOne({} \cup {x})
<1>1. AtMostOne({}) /\ \A x : AtMostOne({} \cup {x})
  BY DEF AtMostOne
<1>2. ASSUME NEW S, AtMostOne(S), NEW x PROVE AtMostTwo(S) /\ AtMostTwo(S \cup {x})
  <2>1. PICK y : S \subseteq {y}
    BY <1>2 DEF AtMostOne
  <2>2. S \subseteq {y, x} /\ S \cup {x} \subseteq {y, x}
    BY <2>1
  <2> QED
    BY <2>2 DEF AtMostTwo
<1> QED
  BY <1>1, <1>2

\* A step of the server, or the end of the daemon.
LEMMA FalseKept ==
  ASSUME IInv, FalseInv, Len(conns') = Len(conns), \A c \in 1..Len(conns) : Kept(c),
         answers' = answers, UNCHANGED <<dpc, op, sockfd>> \/ dpc' = "down"
  PROVE  FalseInv'
<1> DEFINE F(c) == FalseAnswers(c)
<1>1. \A c : FalseAnswers(c)' = F(c)
  BY DEF FalseAnswers
<1>2. dpc # "down" => sockfd \in 1..Len(conns)
  BY DaemonConnection
<1>3. /\ (\A c \in 1..Len(conns) : conns[c].err = "broken" => conns[c].s = "closed")'
      /\ (\A c \in 1..Len(conns) : FalseAnswers(c) # {} => Dead(c))'
      /\ (\A c \in 1..Len(conns) : AtMostTwo(FalseAnswers(c)))'
  <2>1. (\A c \in 1..Len(conns) : conns[c].err = "broken" => conns[c].s = "closed")'
    BY DEF FalseInv, Kept
  <2>2. (\A c \in 1..Len(conns) : FalseAnswers(c) # {} => Dead(c))'
    BY <1>1 DEF FalseInv, Kept
  <2>3. (\A c \in 1..Len(conns) : AtMostTwo(FalseAnswers(c)))'
    BY <1>1 DEF FalseInv, AtMostTwo
  <2> QED
    BY <2>1, <2>2, <2>3
<1>4. CASE dpc' = "down"
  BY <1>3, <1>4 DEF FalseInv
<1>5. CASE UNCHANGED <<dpc, op, sockfd>> /\ dpc # "down"
  <2>1. Kept(sockfd) /\ FalseAnswers(sockfd)' = F(sockfd)
    BY <1>1, <1>2, <1>5
  <2>2. F(sockfd) # {} => Dead(sockfd)
    BY <1>2, <1>5 DEF FalseInv
  <2>3. conns'[sockfd].err # "broken" => conns[sockfd].err # "broken" \/ F(sockfd) = {}
    BY <2>1, <2>2 DEF Kept, Dead
  <2>4. F(sockfd) = {} => AtMostOne(F(sockfd))
    BY Few
  <2> HIDE DEF F
  <2>5. (dpc = "respond" => \/ op.by = "remote_rc" /\ FalseAnswers(sockfd) = {}
                            \/ op.by = "kernel" /\ Dead(sockfd))'
    BY <1>5, <2>1 DEF FalseInv, Kept, F
  <2>6. (dpc \in {"register", "request", "send"} /\ conns[sockfd].err # "broken"
           => AtMostOne(FalseAnswers(sockfd)))'
    <3>1. dpc \in {"register", "request", "send"} /\ conns[sockfd].err # "broken"
            => AtMostOne(F(sockfd))
      BY DEF FalseInv, F
    <3>2. AtMostOne(FalseAnswers(sockfd))' <=> AtMostOne(F(sockfd))
      BY <2>1 DEF AtMostOne
    <3> QED
      BY <1>5, <2>3, <2>4, <3>1, <3>2
  <2>7. (dpc \in {"recv", "respond"} =>
           /\ AtMostOne(FalseAnswers(sockfd))
           /\ conns[sockfd].err # "broken" => FalseAnswers(sockfd) = {})'
    <3>1. dpc \in {"recv", "respond"} =>
            /\ AtMostOne(F(sockfd))
            /\ conns[sockfd].err # "broken" => F(sockfd) = {}
      BY DEF FalseInv, F
    <3>2. AtMostOne(FalseAnswers(sockfd))' <=> AtMostOne(F(sockfd))
      BY <2>1 DEF AtMostOne
    <3> QED
      BY <1>5, <2>1, <2>3, <3>1, <3>2
  <2>8. (dpc \in {"send", "recv"} => op.by = "kernel")'
    BY <1>5 DEF FalseInv
  <2> QED
    BY <1>3, <2>5, <2>6, <2>7, <2>8 DEF FalseInv
<1> QED
  BY <1>4, <1>5

\* On a new connection nothing has been answered.
LEMMA ConnectFalse == ASSUME IInv, OrderInv, FalseInv, connect_remote PROVE FalseInv'
<1>1. /\ conns' = Append(conns, Connection) /\ sockfd' = Len(conns') /\ dpc' = "register"
      /\ answers' = answers
  BY DEF connect_remote
<1>2. Connection \in Conns /\ Connection.err = "none"
  BY NothingUnderWay DEF Connection, Conns
<1>3. /\ Len(conns') = Len(conns) + 1 /\ Len(conns) \in Nat
      /\ conns'[Len(conns) + 1] = Connection
      /\ \A c \in 1..Len(conns) : conns'[c] = conns[c]
  BY <1>1, <1>2 DEF IInv, TypeInv
<1>4. \A c : FalseAnswers(c)' = FalseAnswers(c)
  BY <1>1 DEF FalseAnswers
<1>5. FalseAnswers(Len(conns) + 1) = {}
  BY <1>3 DEF OrderInv, FalseAnswers
<1>6. \A c \in 1..Len(conns') : c \in 1..Len(conns) \/ c = Len(conns) + 1
  BY <1>3
<1>7. (\A c \in 1..Len(conns) : conns[c].err = "broken" => conns[c].s = "closed")'
  BY <1>2, <1>3, <1>6 DEF FalseInv
<1>8. (\A c \in 1..Len(conns) : FalseAnswers(c) # {} => Dead(c))'
  BY <1>3, <1>4, <1>5, <1>6 DEF FalseInv, Dead
<1>9. (\A c \in 1..Len(conns) : AtMostTwo(FalseAnswers(c)))'
  <2> SUFFICES ASSUME NEW c \in 1..Len(conns') PROVE AtMostTwo(FalseAnswers(c)')
    BY DEF AtMostTwo
  <2> QED
    BY <1>4, <1>5, <1>6, Few DEF FalseInv
<1>10. AtMostOne(FalseAnswers(sockfd))'
  <2>1. FalseAnswers(sockfd)' = {}
    BY <1>1, <1>3, <1>5 DEF FalseAnswers
  <2> QED
    BY <2>1, Few DEF AtMostOne
<1> QED
  BY <1>1, <1>7, <1>8, <1>9, <1>10 DEF FalseInv

\* Registering, and taking a request, which the kernel has filled in.
LEMMA RequestFalse ==
  ASSUME IInv, FalseInv, nl_register_daemon \/ nl_recv_request PROVE FalseInv'
<1>1. /\ UNCHANGED <<sockfd, conns, answers>>
      /\ dpc \in {"register", "request"}
      /\ dpc' = "request" \/ (dpc' = "send" /\ op'.by = "kernel")
  BY DEF nl_register_daemon, nl_recv_request, Operation
<1> QED
  BY <1>1 DEF FalseInv, FalseAnswers, Dead, AtMostOne, AtMostTwo

\* A request is sent to an open connection, or breaks a dead one.
LEMMA SendFalse ==
  ASSUME IInv, FalseInv, Send, conns[sockfd].err # "broken" PROVE FalseInv'
<1>1. /\ dpc = "send" /\ dpc' = "recv" /\ UNCHANGED <<op, sockfd, answers>>
      /\ conns' = IF conns[sockfd].s = "open"
                    THEN [conns EXCEPT ![sockfd].up = Append(@, op)]
                    ELSE [conns EXCEPT ![sockfd].err = "broken"]
  BY DEF Send
<1>2. /\ Len(conns') = Len(conns)
      /\ \A c \in 1..Len(conns) : conns'[c].down = conns[c].down /\ conns'[c].s = conns[c].s
      /\ \A c \in 1..Len(conns) : c # sockfd => Kept(c)
      /\ conns[sockfd].s = "open" => Kept(sockfd)
      /\ conns[sockfd].s # "open" => conns'[sockfd].err = "broken"
  BY <1>1, SendMoves
<1>3. sockfd \in 1..Len(conns) /\ conns[sockfd].s \in {"open", "closed"}
  BY <1>1, DaemonConnection, Zenon DEF Conns
<1>4. \A c : FalseAnswers(c)' = FalseAnswers(c)
  BY <1>1 DEF FalseAnswers
<1>5. (\A c \in 1..Len(conns) : conns[c].err = "broken" => conns[c].s = "closed")'
  BY <1>2, <1>3 DEF FalseInv, Kept
<1>6. (\A c \in 1..Len(conns) : FalseAnswers(c) # {} => Dead(c))'
  BY <1>2, <1>4 DEF FalseInv, Dead
<1>7. (\A c \in 1..Len(conns) : AtMostTwo(FalseAnswers(c)))'
  BY <1>2, <1>4 DEF FalseInv, AtMostTwo
<1>8. AtMostOne(FalseAnswers(sockfd)) /\ op.by = "kernel"
  BY <1>1 DEF FalseInv
<1>9. FalseAnswers(sockfd)' = FalseAnswers(sockfd)
  BY <1>1 DEF FalseAnswers
<1>10. conns[sockfd].s = "open" => FalseAnswers(sockfd) = {}
  BY <1>3 DEF FalseInv, Dead
<1>11. AtMostOne(FalseAnswers(sockfd))'
  BY <1>8, <1>9 DEF AtMostOne
<1> QED
  BY <1>1, <1>2, <1>5, <1>6, <1>7, <1>8, <1>9, <1>10, <1>11 DEF FalseInv

\* Without an answer the request is kept, and only on a dead connection.
LEMMA RecvFalse == ASSUME IInv, DownInv, FalseInv, Recv PROVE FalseInv'
<1>1. dpc = "recv" /\ dpc' = "respond" /\ UNCHANGED <<sockfd, answers>>
  BY DEF Recv
<1>2. sockfd \in 1..Len(conns) /\ conns[sockfd].down \in Seq(Ops)
  BY <1>1, DaemonConnection
<1>3. /\ Len(conns') = Len(conns)
      /\ \A c \in 1..Len(conns) : c # sockfd => Kept(c)
      /\ conns'[sockfd].s = conns[sockfd].s
  BY RecvMoves
<1>4. \A c : FalseAnswers(c)' = FalseAnswers(c)
  BY <1>1 DEF FalseAnswers
<1>5. FalseAnswers(sockfd)' = FalseAnswers(sockfd)
  BY <1>1 DEF FalseAnswers
<1>6. /\ op.by = "kernel" /\ AtMostOne(FalseAnswers(sockfd))
      /\ conns[sockfd].err # "broken" => FalseAnswers(sockfd) = {}
      /\ FalseAnswers(sockfd) # {} => Dead(sockfd)
      /\ conns[sockfd].err = "broken" => conns[sockfd].s = "closed"
  BY <1>1, <1>2 DEF FalseInv
<1>7. AtMostOne(FalseAnswers(sockfd))'
  BY <1>5, <1>6 DEF AtMostOne
<1>8. (\A c \in 1..Len(conns) : AtMostTwo(FalseAnswers(c)))'
  BY <1>3, <1>4 DEF FalseInv, AtMostTwo
<1>9. CASE /\ conns[sockfd].down # <<>>
           /\ op' = Head(conns[sockfd].down)
           /\ conns'[sockfd].err = conns[sockfd].err
  <2>1. op'.by = "remote_rc"
    <3>1. 1 \in 1..Len(conns[sockfd].down) /\ op' = conns[sockfd].down[1]
      BY <1>2, <1>9
    <3> QED
      BY <1>2, <3>1 DEF DownInv
  <2>2. FalseAnswers(sockfd) = {}
    BY <1>6, <1>9 DEF Dead
  <2>3. (\A c \in 1..Len(conns) : conns[c].err = "broken" => conns[c].s = "closed")'
    BY <1>3, <1>6, <1>9 DEF FalseInv, Kept
  <2>4. (\A c \in 1..Len(conns) : FalseAnswers(c) # {} => Dead(c))'
    BY <1>3, <1>4, <2>2 DEF FalseInv, Kept
  <2> QED
    BY <1>1, <1>5, <1>7, <1>8, <2>1, <2>2, <2>3, <2>4 DEF FalseInv
<1>10. CASE /\ Dead(sockfd) /\ op' = op /\ conns'[sockfd].down = <<>>
            /\ \/ conns'[sockfd].err = conns[sockfd].err
               \/ conns'[sockfd].err = "broken"
  <2>1. Dead(sockfd)'
    BY <1>1, <1>3, <1>10 DEF Dead
  <2>2. (\A c \in 1..Len(conns) : conns[c].err = "broken" => conns[c].s = "closed")'
    BY <1>3, <1>10 DEF FalseInv, Kept, Dead
  <2>3. (\A c \in 1..Len(conns) : FalseAnswers(c) # {} => Dead(c))'
    <3> SUFFICES ASSUME NEW c \in 1..Len(conns), FalseAnswers(c)' # {} PROVE Dead(c)'
      BY <1>3
    <3>1. CASE c = sockfd
      BY <1>1, <2>1, <3>1
    <3>2. CASE c # sockfd
      BY <1>3, <1>4, <3>2 DEF FalseInv, Kept
    <3> QED
      BY <3>1, <3>2
  <2> QED
    BY <1>1, <1>5, <1>6, <1>7, <1>8, <1>10, <2>1, <2>2, <2>3 DEF FalseInv
<1> QED
  BY <1>9, <1>10, RecvMoves
\* nl_send_response adds one answer on the daemon's connection.
LEMMA ResponseAnswers ==
  ASSUME IInv, OrderInv, nl_send_response
  PROVE  \E a \in Answers :
           /\ a.seq = req /\ a.op = op /\ a.conn = sockfd
           /\ answers' = answers \cup {a}
<1> DEFINE a == [seq |-> req, op |-> op, conn |-> sockfd]
<1>1. answers' = answers \cup {a} /\ dpc = "respond"
  BY DEF nl_send_response
<1>2. req \in Nat /\ op \in Ops /\ sockfd \in Nat
  BY <1>1, DaemonConnection DEF IInv, TypeInv
<1>3. a \in Answers
  BY <1>2 DEF Answers
<1> QED
  BY <1>1, <1>3

\* The second false answer is the last: it is given when the connection is
\* known to be broken, and the next send ends the daemon.
LEMMA ResponseFalse == ASSUME IInv, OrderInv, FalseInv, nl_send_response PROVE FalseInv'
<1>1. dpc = "respond" /\ dpc' = "request" /\ UNCHANGED <<sockfd, conns>>
  BY DEF nl_send_response
<1>2. PICK a \in Answers : /\ a.op = op /\ a.conn = sockfd
                           /\ answers' = answers \cup {a}
  BY ResponseAnswers
<1>3. sockfd \in 1..Len(conns)
  BY <1>1, DaemonConnection
<1>4. \A c : c # sockfd => FalseAnswers(c)' = FalseAnswers(c)
  BY <1>2 DEF FalseAnswers
<1>5. FalseAnswers(sockfd)' = IF op.by = "kernel" THEN FalseAnswers(sockfd) \cup {a}
                                                  ELSE FalseAnswers(sockfd)
  BY <1>1, <1>2 DEF FalseAnswers
<1>6. /\ AtMostOne(FalseAnswers(sockfd))
      /\ conns[sockfd].err # "broken" => FalseAnswers(sockfd) = {}
      /\ op.by = "kernel" => Dead(sockfd)
      /\ FalseAnswers(sockfd) # {} => Dead(sockfd)
  BY <1>1, <1>3 DEF FalseInv
<1>7. /\ AtMostTwo(FalseAnswers(sockfd)')
      /\ conns[sockfd].err # "broken" => AtMostOne(FalseAnswers(sockfd)')
  BY <1>5, <1>6, Few
<1>8. (\A c \in 1..Len(conns) : AtMostTwo(FalseAnswers(c)))'
  <2> SUFFICES ASSUME NEW c \in 1..Len(conns) PROVE AtMostTwo(FalseAnswers(c)')
    BY <1>1 DEF AtMostTwo
  <2>1. CASE c = sockfd
    <3>1. FalseAnswers(c)' = FalseAnswers(sockfd)'
      BY <1>1, <2>1
    <3> QED
      BY <1>7, <3>1
  <2>2. CASE c # sockfd
    BY <1>4, <2>2 DEF FalseInv
  <2> QED
    BY <2>1, <2>2
<1>9. (\A c \in 1..Len(conns) : FalseAnswers(c) # {} => Dead(c))'
  <2> SUFFICES ASSUME NEW c \in 1..Len(conns), FalseAnswers(c)' # {} PROVE Dead(c)
    BY <1>1 DEF Dead
  <2>1. CASE c = sockfd
    <3>1. FalseAnswers(c)' = FalseAnswers(sockfd)'
      BY <1>1, <2>1
    <3> QED
      BY <1>5, <1>6, <2>1, <3>1
  <2>2. CASE c # sockfd
    BY <1>4, <2>2 DEF FalseInv
  <2> QED
    BY <2>1, <2>2
<1>10. (conns[sockfd].err # "broken" => AtMostOne(FalseAnswers(sockfd)))'
  BY <1>1, <1>7 DEF AtMostOne
<1>11. (\A c \in 1..Len(conns) : conns[c].err = "broken" => conns[c].s = "closed")'
  BY <1>1 DEF FalseInv
<1> QED
  BY <1>1, <1>8, <1>9, <1>10, <1>11 DEF FalseInv

\* A step that answers nothing; a connection that is new has no answers.
LEMMA LastKept ==
  ASSUME IInv, OrderInv, FalseAnswersLast, answers' = answers
  PROVE  FalseAnswersLast'
<1>1. \A c : FalseAnswers(c)' = FalseAnswers(c)
  BY DEF FalseAnswers
<1>2. DOMAIN conns = 1..Len(conns)
  BY DEF IInv, TypeInv
<1>3. \A c : \A a \in FalseAnswers(c) : c \in 1..Len(conns)
  BY DEF FalseAnswers, OrderInv
<1> QED
  BY <1>1, <1>2, <1>3 DEF FalseAnswersLast

\* The answer added is later than all before it on the connection, and false
\* if one of them is.
LEMMA ResponseLast ==
  ASSUME IInv, OrderInv, FalseInv, FalseAnswersLast, nl_send_response
  PROVE  FalseAnswersLast'
<1>1. dpc = "respond" /\ UNCHANGED <<sockfd, conns>>
  BY DEF nl_send_response
<1>2. PICK n \in Answers : /\ n.seq = req /\ n.op = op /\ n.conn = sockfd
                           /\ answers' = answers \cup {n}
  BY ResponseAnswers
<1>3. \A a \in answers : a.seq \in Nat /\ (a.conn = sockfd => a.seq < req)
  BY <1>1 DEF OrderInv, Busy, Answers
<1>4. DOMAIN conns' = 1..Len(conns) /\ DOMAIN conns = 1..Len(conns) /\ req \in Nat
  BY <1>1 DEF IInv, TypeInv
<1> SUFFICES ASSUME NEW c \in 1..Len(conns), NEW a \in FalseAnswers(c)', NEW b \in answers',
                    b.conn = c, b.seq > a.seq
             PROVE  b.op.by = "kernel"
  BY <1>4 DEF FalseAnswersLast
<1>5. a \in answers' /\ a.conn = c /\ a.op.by = "kernel"
  BY DEF FalseAnswers
<1>6. CASE a \in answers /\ b \in answers
  BY <1>4, <1>5, <1>6 DEF FalseAnswersLast, FalseAnswers
<1>7. CASE a \in answers /\ b = n
  <2>1. a \in FalseAnswers(sockfd)
    BY <1>2, <1>5, <1>7 DEF FalseAnswers
  <2> QED
    BY <1>1, <1>2, <1>7, <2>1 DEF FalseInv
<1>8. CASE a = n /\ b \in answers
  BY <1>2, <1>3, <1>4, <1>5, <1>8
<1>9. CASE a = n /\ b = n
  BY <1>2, <1>4, <1>9
<1> QED
  BY <1>2, <1>5, <1>6, <1>7, <1>8, <1>9
-----------------------------------------------------------------------------
(* The invariant *)

\* Nothing has been asked or answered at first.
LEMMA InitAInv == Init => AInv
<1> SUFFICES ASSUME Init PROVE AInv
  OBVIOUS
<1>1. OrderInv /\ DownInv
  BY DEF Init, OrderInv, DownInv
<1>2. FalseInv
  BY DEF Init, FalseInv
<1>3. FalseAnswersLast
  BY DEF Init, FalseAnswersLast, FalseAnswers
<1> QED
  BY <1>1, <1>2, <1>3 DEF AInv

\* A step of the server that keeps the daemon and the kernel out.
LEMMA ServerAInv ==
  ASSUME IInv, AInv, Len(conns') = Len(conns), \A c \in 1..Len(conns) : Kept(c),
         UNCHANGED <<kseq, nl_sock, daemon, answers>>, DownInv'
  PROVE  AInv'
<1>1. UNCHANGED <<dpc, op, req, sockfd>>
  BY DEF daemon
<1>2. OrderInv'
  BY <1>1, OrderKept DEF AInv, Busy
<1>3. FalseInv'
  BY <1>1, FalseKept DEF AInv
<1>4. FalseAnswersLast'
  BY LastKept DEF AInv
<1> QED
  BY <1>2, <1>3, <1>4 DEF AInv

\* The end of the server.
LEMMA ServerGoneAInv ==
  ASSUME IInv, AInv, ServerGone, UNCHANGED <<kernel, nl_sock, daemon, answers>>
  PROVE  AInv'
<1>1. /\ Len(conns') = Len(conns)
      /\ \A c \in 1..Len(conns) : Kept(c) /\ conns'[c].down = conns[c].down
  BY ServerGoneKeeps
<1>2. rpc' = "down" /\ kseq' = kseq
  BY DEF ServerGone, kernel
<1>3. DownInv'
  BY <1>1, <1>2, DownKept DEF AInv
<1> QED
  BY <1>1, <1>2, <1>3, ServerAInv

\* The end of the daemon, by SIGPIPE or a kill.
LEMMA DaemonGoneAInv ==
  ASSUME IInv, AInv, DaemonGone, UNCHANGED <<kernel, server, answers>>
  PROVE  AInv'
<1>1. /\ Len(conns') = Len(conns)
      /\ \A c \in 1..Len(conns) :
           Kept(c) /\ (conns'[c].down = conns[c].down \/ conns'[c].down = <<>>)
  BY DaemonGoneKeeps
<1>2. dpc' = "down" /\ UNCHANGED <<rpc, rop>>
  BY DEF DaemonGone, server
<1>3. OrderInv'
  BY <1>1, DaemonGoneOrder DEF AInv
<1>4. DownInv'
  BY <1>1, <1>2, DownKept DEF AInv
<1>5. FalseInv'
  BY <1>1, <1>2, FalseKept DEF AInv
<1>6. FalseAnswersLast'
  BY LastKept DEF AInv
<1> QED
  BY <1>3, <1>4, <1>5, <1>6 DEF AInv

\* A connection nobody touches is kept.
LEMMA Untouched ==
  ASSUME conns' = conns
  PROVE  \A c \in 1..Len(conns) : Kept(c) /\ conns'[c].down = conns[c].down
  BY DEF Kept, Dead

\* The steps of the daemon.
LEMMA DaemonStepAInv == ASSUME IInv, AInv, DaemonStep PROVE AInv'
<1> USE DEF AInv
<1>1. CASE nl_register_daemon
  <2>1. UNCHANGED <<kseq, nl_sock, req, sockfd, answers, conns, rpc, rop>> /\ dpc' = "request"
    BY <1>1 DEF nl_register_daemon, server
  <2>2. OrderInv'
    BY <2>1, OrderKept DEF Busy
  <2>3. DownInv'
    BY <2>1, DownKept
  <2> QED
    BY <1>1, <2>1, <2>2, <2>3, RequestFalse, LastKept
<1>2. CASE nl_recv_request
  <2>1. UNCHANGED <<answers, conns, rpc, rop>>
    BY <1>2 DEF nl_recv_request, server
  <2>2. DownInv'
    BY <2>1, DownKept
  <2> QED
    BY <1>2, <2>1, <2>2, RequestOrder, RequestFalse, LastKept
<1>3. CASE Send
  <2>1. CASE conns[sockfd].err = "broken"
    BY <1>3, <2>1, DaemonGoneAInv DEF Send
  <2>2. CASE conns[sockfd].err # "broken"
    <3>1. /\ UNCHANGED <<kseq, nl_sock, req, sockfd, answers, rpc, rop>>
          /\ dpc = "send" /\ dpc' = "recv"
          /\ conns' = IF conns[sockfd].s = "open"
                        THEN [conns EXCEPT ![sockfd].up = Append(@, op)]
                        ELSE [conns EXCEPT ![sockfd].err = "broken"]
      BY <1>3, <2>2 DEF Send, kernel, server
    <3>2. /\ Len(conns') = Len(conns)
          /\ \A c \in 1..Len(conns) : conns'[c].down = conns[c].down
      BY <3>1, SendMoves
    <3>3. OrderInv'
      BY <3>1, <3>2, OrderKept DEF Busy
    <3>4. DownInv'
      BY <3>1, <3>2, DownKept
    <3> QED
      BY <1>3, <2>2, <3>1, <3>3, <3>4, SendFalse, LastKept
  <2> QED
    BY <2>1, <2>2
<1>4. CASE Recv
  <2>1. UNCHANGED <<kseq, nl_sock, req, sockfd, answers>> /\ dpc = "recv"
    BY <1>4 DEF Recv, kernel
  <2>2. Len(conns') = Len(conns)
    BY <1>4, RecvMoves
  <2>3. OrderInv'
    BY <2>1, <2>2, OrderKept DEF Busy
  <2> QED
    BY <1>4, <2>1, <2>3, RecvDown, RecvFalse, LastKept
<1>5. CASE nl_send_response
  <2>1. UNCHANGED <<conns, rpc, rop>>
    BY <1>5 DEF nl_send_response, server
  <2>2. DownInv'
    BY <2>1, DownKept
  <2> QED
    BY <1>5, <2>2, ResponseOrder, ResponseFalse, ResponseLast
<1> QED
  BY <1>1, <1>2, <1>3, <1>4, <1>5 DEF DaemonStep

\* The steps of the server.
LEMMA RcStepAInv == ASSUME IInv, AInv, RcStart \/ RcStep PROVE AInv'
<1> USE DEF AInv
<1>1. UNCHANGED <<kseq, nl_sock, daemon, answers>>
  BY DEF RcStart, RcStep, RcAccept, RcRecv, RcSend, kernel
<1>2. CASE RcStart \/ RcAccept
  <2>1. conns' = conns /\ rpc' # "send"
    BY <1>2 DEF RcStart, RcAccept
  <2>2. DownInv'
    BY <2>1, DownKept
  <2> QED
    BY <1>1, <2>1, <2>2, Untouched, ServerAInv
<1>3. CASE RcRecv
  <2>1. CASE conns[client].up # <<>>
    <3>1. /\ rpc = "recv" /\ rop'.by = "remote_rc"
          /\ conns' = [conns EXCEPT ![client].up = Tail(@)]
      BY <1>3, <2>1 DEF RcRecv, Operation
    <3>2. /\ Len(conns') = Len(conns)
          /\ \A c \in 1..Len(conns) : Kept(c) /\ conns'[c].down = conns[c].down
      BY <2>1, <3>1, RcTakes
    <3>3. DownInv'
      BY <3>1, <3>2 DEF DownInv
    <3> QED
      BY <1>1, <3>2, <3>3, ServerAInv
  <2>2. CASE ServerGone
    BY <1>3, <2>2, ServerGoneAInv DEF RcRecv
  <2> QED
    BY <1>3, <2>1, <2>2 DEF RcRecv
<1>4. CASE RcSend
  <2>1. CASE ServerGone
    BY <1>4, <2>1, ServerGoneAInv DEF RcSend
  <2>2. CASE /\ rpc = "send" /\ rpc' = "recv"
             /\ conns' = [conns EXCEPT ![client].down = Append(@, rop)]
    <3>1. Len(conns') = Len(conns) /\ \A c \in 1..Len(conns) : Kept(c)
      BY <2>2, RcGives
    <3>2. DownInv'
      BY <2>2, RcGivesDown
    <3> QED
      BY <1>1, <3>1, <3>2, ServerAInv
  <2>3. CASE rpc' = "recv" /\ conns' = conns
    <3>1. DownInv'
      BY <2>3, DownKept
    <3> QED
      BY <1>1, <2>3, <3>1, Untouched, ServerAInv
  <2> QED
    BY <1>4, <2>1, <2>2, <2>3 DEF RcSend
<1> QED
  BY <1>2, <1>3, <1>4 DEF RcStep

\* Every step keeps the invariant.
LEMMA NextAInv == IInv /\ AInv /\ [Next]_vars => AInv'
<1> SUFFICES ASSUME IInv, AInv, [Next]_vars PROVE AInv'
  OBVIOUS
<1>1. CASE Issue
  <2>1. UNCHANGED <<dpc, op, sockfd, conns, answers, rpc, rop>>
    BY <1>1 DEF Issue, daemon, server
  <2>2. OrderInv'
    BY <1>1, IssueOrder DEF AInv
  <2>3. DownInv'
    BY <2>1, DownKept DEF AInv
  <2>4. FalseInv'
    BY <2>1, Untouched, FalseKept DEF AInv
  <2> QED
    BY <2>1, <2>2, <2>3, <2>4, LastKept DEF AInv
<1>2. CASE connect_remote
  <2>1. /\ answers' = answers /\ UNCHANGED <<rpc, rop>>
        /\ conns' = Append(conns, Connection)
    BY <1>2 DEF connect_remote
  <2>2. Connection \in Conns /\ Connection.down = <<>>
    BY NothingUnderWay DEF Connection, Conns
  <2>3. /\ \A c \in 1..Len(conns) : conns'[c] = conns[c]
        /\ \A c \in 1..Len(conns') : c \in 1..Len(conns) \/ conns'[c] = Connection
    BY <2>1, <2>2 DEF IInv, TypeInv
  <2>4. DownInv'
    BY <2>1, <2>2, <2>3 DEF AInv, DownInv
  <2> QED
    BY <1>2, <2>1, <2>4, ConnectOrder, ConnectFalse, LastKept DEF AInv
<1>3. CASE DaemonStep
  BY <1>3, DaemonStepAInv
<1>4. CASE RcStart \/ RcStep
  BY <1>4, RcStepAInv
<1>5. CASE KillDaemon
  BY <1>5, DaemonGoneAInv DEF KillDaemon
<1>6. CASE KillServer
  BY <1>6, ServerGoneAInv DEF KillServer
<1>7. CASE UNCHANGED vars
  <2>1. /\ UNCHANGED <<kseq, nl_sock, daemon, answers>>
        /\ UNCHANGED <<conns, rpc, rop>>
    BY <1>7 DEF vars, kernel, server
  <2>2. DownInv'
    BY <2>1, DownKept DEF AInv
  <2> QED
    BY <2>1, <2>2, Untouched, ServerAInv
<1> QED
  BY <1>1, <1>2, <1>3, <1>4, <1>5, <1>6, <1>7 DEF Next

\* The invariant holds throughout.
LEMMA SpecAInv == Spec => [](IInv /\ AInv)
  BY InitIInv, NextIInv, InitAInv, NextAInv, PTL DEF Spec

\* Sets of at most two elements have at most two.
LEMMA Two == ASSUME NEW S, AtMostTwo(S) PROVE Cardinality(S) <= 2
<1>1. PICK x, y : S \subseteq {x, y}
  BY DEF AtMostTwo
<1>2. IsFiniteSet({x}) /\ Cardinality({x}) = 1
  BY FS_Singleton
<1>3. /\ IsFiniteSet({x} \cup {y}) /\ Cardinality({x} \cup {y}) \in Nat
      /\ Cardinality({x} \cup {y}) <= 2
  <2>1. /\ IsFiniteSet({x} \cup {y})
        /\ Cardinality({x} \cup {y}) = 1 \/ Cardinality({x} \cup {y}) = 1 + 1
    BY <1>2, FS_AddElement
  <2> QED
    BY <2>1
<1>4. S \subseteq {x} \cup {y}
  BY <1>1
<1>5. Cardinality(S) <= Cardinality({x} \cup {y}) /\ IsFiniteSet(S)
  BY <1>3, <1>4, FS_Subset
<1>6. Cardinality(S) \in Nat
  BY <1>5, FS_CardinalityType
<1> QED
  BY <1>3, <1>5, <1>6

\* However often daemons, servers and connections come and go, a daemon whose
\* server is gone sends at most two requests back as their own answers, because
\* it ignores the results of send and recv, before SIGPIPE ends it.
THEOREM FalseAnswersAreFew == Spec => []FalseAnswersBounded
<1>1. IInv /\ AInv => FalseAnswersBounded
  <2> SUFFICES ASSUME IInv, AInv PROVE FalseAnswersBounded
    OBVIOUS
  <2>1. DOMAIN conns = 1..Len(conns)
    BY DEF IInv, TypeInv
  <2> QED
    BY <2>1, Two DEF AInv, FalseInv, FalseAnswersBounded
<1> QED
  BY <1>1, SpecAInv, PTL

\* Once nl_send_response has passed a request off as its answer, no request on
\* that connection gets an answer of the server any more.
THEOREM FalseAnswersAreLast == Spec => []FalseAnswersLast
<1>1. AInv => FalseAnswersLast
  BY DEF AInv
<1> QED
  BY <1>1, SpecAInv, PTL
=============================================================================
