------------------------------- MODULE Relay -------------------------------
(***************************************************************************)
(* The chain that carries a register access from the kernel to the         *)
(* emulator and back: daemon-doe between the character device and TCP,     *)
(* thin-server between TCP and the named pipes, doe-emu behind the pipes.  *)
(* The three are processes of their own; they are started in any order,    *)
(* may be killed, exit on errors, and are started again.                   *)
(*                                                                         *)
(* Both pipes are opened O_RDWR, so a reader never sees an end of file and *)
(* what is in a pipe survives as long as one of the two processes does.  A *)
(* transaction is smaller than PIPE_BUF and travels as a whole.            *)
(***************************************************************************)
EXTENDS DoeEmu

CONSTANTS KernelOps,     \* the accesses the kernel makes
          MaxOps,        \* how many it makes
          MaxCrashes,    \* processes that are killed one at a time
          MaxStops,      \* times the scripts stop everything
          MaxConns,      \* connections a daemon makes
          KillServerAt   \* where in its loop thin-server may be killed

AVERY_OP_WRITE == 16     \* 0x10
AVERY_OP_READ  == 20     \* 0x14

ASSUME RelayAssumption ==
  /\ MaxOps \in Nat /\ MaxCrashes \in Nat /\ MaxStops \in Nat /\ MaxConns \in Nat
  /\ KillServerAt \subseteq {"accept", "recv", "write", "read", "send"}
  /\ KernelOps \subseteq [id : {0}, type : {AVERY_OP_WRITE, AVERY_OP_READ},
                          offset : Nat, value : Dword]

VARIABLES
  kpc, kop, kres,                  \* the kernel's side of the character device
  dpc, dop, sockfd,                \* daemon-doe
  tpc, top, client, backlog, seq,  \* thin-server
  epc, ereq,                       \* doe-emu, with the variables of DoeEmu
  conns,                           \* TCP connections made so far
  fifos, req_pipe, rep_pipe,       \* the named pipes
  crashes, stops,
  pending, performed, lost         \* history: accesses not performed yet, the
                                   \* last one performed; the emulator was
                                   \* killed with one in hand

kernel  == <<kpc, kop, kres>>
daemon  == <<dpc, dop, sockfd>>
server  == <<tpc, top, client, backlog, seq>>
emuproc == <<emu, epc, ereq>>
pipes   == <<fifos, req_pipe, rep_pipe>>
faults  == <<crashes, stops, lost>>
history == <<pending, performed>>
vars    == <<kernel, daemon, server, emuproc, conns, pipes, faults, history>>

\* An avery_pci_config_op without its status, which is 0 throughout.  id is
\* history, the number the kernel issued it under: no program looks at it.
NoOp == [id |-> 0, type |-> 0, offset |-> 0, value |-> 0]

\* The transaction thin-server makes of an operation.
Translate(op, packet_number) ==
  Transaction(packet_number, IF op.type = AVERY_OP_WRITE THEN 1 ELSE 0,
              op.offset, op.value)

RelayInit ==
  /\ EmuInit
  /\ kpc = "idle" /\ kop = NoOp /\ kres = NoOp
  /\ dpc = "down" /\ dop = NoOp /\ sockfd = 0
  /\ tpc = "down" /\ top = NoOp /\ client = 0 /\ backlog = <<>> /\ seq = 0
  /\ epc = "down" /\ ereq = [op |-> NoOp, req |-> Translate(NoOp, 0)]
  /\ conns = <<>>
  /\ fifos = FALSE /\ req_pipe = <<>> /\ rep_pipe = <<>>
  /\ crashes = 0 /\ stops = 0 /\ lost = FALSE
  /\ pending = {} /\ performed = 0
-----------------------------------------------------------------------------
(* The kernel: one access at a time through the character device. *)

Issue ==
  /\ kpc = "idle" /\ kop.id < MaxOps
  /\ \E op \in KernelOps : kop' = [op EXCEPT !.id = kop.id + 1]
  /\ kpc' = "pending"
  /\ pending' = pending \cup {kop'}
  /\ UNCHANGED <<performed, kres, daemon, server, emuproc, conns, pipes, faults>>

\* The daemon that took the access is gone; nobody will answer it.
Orphaned == kpc = "taken" /\ dpc \in {"down", "poll"}

Abandon ==
  /\ Orphaned
  /\ kpc' = "idle"
  /\ UNCHANGED <<kop, kres, daemon, server, emuproc, conns, pipes, faults, history>>
-----------------------------------------------------------------------------
(* TCP.  A connection has an end at the daemon and one at the server, open  *)
(* or not, and the operations under way in each direction.                  *)

Connection == [d |-> "open", s |-> "open", up |-> <<>>, down |-> <<>>]

CloseDaemonEnd ==
  IF sockfd = 0 THEN conns
                ELSE [conns EXCEPT ![sockfd].d = "closed", ![sockfd].down = <<>>]

\* A server that ends takes the connections nobody has accepted with it.
CloseServerEnds(cs) ==
  [c \in DOMAIN cs |-> [cs[c] EXCEPT !.s = "closed", !.up = <<>>]]

DaemonGone == /\ dpc' = "down"
              /\ sockfd' = 0
              /\ dop' = NoOp
              /\ conns' = CloseDaemonEnd

\* The pipes lose what they hold when nobody has them open.
PipesAfterExit(others) ==
  IF others = "down" THEN req_pipe' = <<>> /\ rep_pipe' = <<>>
                     ELSE UNCHANGED <<req_pipe, rep_pipe>>

ServerGone == /\ tpc' = "down"
              /\ top' = NoOp
              /\ client' = 0
              /\ backlog' = <<>>
              /\ seq' = 0
              /\ conns' = CloseServerEnds(conns)
              /\ PipesAfterExit(epc)
              /\ UNCHANGED fifos
-----------------------------------------------------------------------------
(* daemon-doe *)

\* It succeeds as soon as the server listens, before the server accepts; if
\* nobody listens the process exits.
connect_remote ==
  /\ tpc # "down" /\ Len(conns) < MaxConns
  /\ conns' = Append(conns, Connection)
  /\ sockfd' = Len(conns')
  /\ backlog' = Append(backlog, sockfd')

DaemonStart ==
  /\ dpc = "down"
  /\ connect_remote
  /\ dpc' = "poll"
  /\ UNCHANGED <<dop, kernel, tpc, top, client, seq, emuproc, pipes, faults, history>>

DaemonRead ==
  /\ dpc = "poll" /\ kpc = "pending"
  /\ dop' = kop
  /\ kpc' = "taken"
  /\ dpc' = "send"
  /\ UNCHANGED <<sockfd, kop, kres, server, emuproc, conns, pipes, faults, history>>

\* send_all to a server that is gone either fails, or seems to succeed.
DaemonSend ==
  /\ dpc = "send"
  /\ \/ /\ conns[sockfd].s = "open"
        /\ conns' = [conns EXCEPT ![sockfd].up = Append(@, dop)]
        /\ dpc' = "recv"
        /\ UNCHANGED <<dop, sockfd>>
     \/ /\ conns[sockfd].s = "closed"
        /\ dpc' = "recv"
        /\ UNCHANGED <<dop, sockfd, conns>>
     \/ /\ conns[sockfd].s = "closed"
        /\ DaemonGone
  /\ UNCHANGED <<kernel, server, emuproc, pipes, faults, history>>

\* A daemon that waits on although the connection is closed.
MutDaemonRecv ==
  /\ dpc = "recv"
  /\ conns[sockfd].down # <<>>
  /\ dop' = Head(conns[sockfd].down)
  /\ conns' = [conns EXCEPT ![sockfd].down = Tail(@)]
  /\ dpc' = "write"
  /\ UNCHANGED <<sockfd, kernel, server, emuproc, pipes, faults, history>>

DaemonRecv ==
  /\ dpc = "recv"
  /\ \/ /\ conns[sockfd].down # <<>>
        /\ dop' = Head(conns[sockfd].down)
        /\ conns' = [conns EXCEPT ![sockfd].down = Tail(@)]
        /\ dpc' = "write"
        /\ UNCHANGED sockfd
     \/ /\ conns[sockfd].down = <<>> /\ conns[sockfd].s = "closed"
        /\ DaemonGone
  /\ UNCHANGED <<kernel, server, emuproc, pipes, faults, history>>

DaemonWrite ==
  /\ dpc = "write"
  /\ kres' = dop
  /\ kpc' = "idle"
  /\ dpc' = "poll"
  /\ UNCHANGED <<kop, dop, sockfd, server, emuproc, conns, pipes, faults, history>>

DaemonStep == DaemonRead \/ DaemonSend \/ DaemonRecv \/ DaemonWrite
-----------------------------------------------------------------------------
(* thin-server *)

\* mkfifo leaves a pipe that exists as it is.
open_pipes == fifos' = TRUE /\ UNCHANGED <<req_pipe, rep_pipe>>

ThinStart ==
  /\ tpc = "down"
  /\ open_pipes
  /\ tpc' = "accept"
  /\ UNCHANGED <<top, client, backlog, seq, kernel, daemon, emuproc, conns, faults,
                 history>>

\* It accepts one client in its life.
ThinAccept ==
  /\ tpc = "accept" /\ backlog # <<>>
  /\ client' = Head(backlog)
  /\ backlog' = Tail(backlog)
  /\ tpc' = "recv"
  /\ UNCHANGED <<top, seq, kernel, daemon, emuproc, conns, pipes, faults, history>>

\* xrecv; when the daemon has closed its end the server exits.
ThinRecv ==
  /\ tpc = "recv"
  /\ \/ /\ conns[client].up # <<>>
        /\ top' = Head(conns[client].up)
        /\ conns' = [conns EXCEPT ![client].up = Tail(@)]
        /\ tpc' = "write"
        /\ UNCHANGED <<client, backlog, seq, pipes>>
     \/ /\ conns[client].up = <<>> /\ conns[client].d = "closed"
        /\ ServerGone
  /\ UNCHANGED <<kernel, daemon, emuproc, faults, history>>

ThinWrite ==
  /\ tpc = "write"
  /\ seq' = seq + 1
  /\ req_pipe' = Append(req_pipe, [op |-> top, req |-> Translate(top, seq')])
  /\ tpc' = "read"
  /\ UNCHANGED <<top, client, backlog, kernel, daemon, emuproc, conns, fifos, rep_pipe,
                 faults, history>>

\* A server that does not wait for the reply when there is none yet.
MutThinRead ==
  /\ tpc = "read"
  /\ IF rep_pipe = <<>>
       THEN UNCHANGED <<top, rep_pipe>>
       ELSE /\ top' = [top EXCEPT !.value = Head(rep_pipe).data]
            /\ rep_pipe' = Tail(rep_pipe)
  /\ tpc' = "send"
  /\ UNCHANGED <<client, backlog, seq, kernel, daemon, emuproc, conns, fifos, req_pipe,
                 faults, history>>

\* The next transaction in the pipe is taken for the reply: its packet_number
\* is not compared with seq.
ThinRead ==
  /\ tpc = "read" /\ rep_pipe # <<>>
  /\ top' = [top EXCEPT !.value = Head(rep_pipe).data]
  /\ rep_pipe' = Tail(rep_pipe)
  /\ tpc' = "send"
  /\ UNCHANGED <<client, backlog, seq, kernel, daemon, emuproc, conns, fifos, req_pipe,
                 faults, history>>

\* xsend to a daemon that is gone either fails, or seems to succeed.
ThinSend ==
  /\ tpc = "send"
  /\ \/ /\ conns' = IF conns[client].d = "open"
                      THEN [conns EXCEPT ![client].down = Append(@, top)]
                      ELSE conns
        /\ tpc' = "recv"
        /\ UNCHANGED <<top, client, backlog, seq, pipes>>
     \/ /\ conns[client].d = "closed"
        /\ ServerGone
  /\ UNCHANGED <<kernel, daemon, emuproc, faults, history>>

ThinStep == ThinAccept \/ ThinRecv \/ ThinWrite \/ ThinRead \/ ThinSend
-----------------------------------------------------------------------------
(* doe-emu *)

\* It does not create the pipes: without them it exits at once.
EmuStart ==
  /\ epc = "down" /\ fifos
  /\ EmuRestart
  /\ epc' = "read"
  /\ UNCHANGED <<ereq, kernel, daemon, server, conns, pipes, faults, history>>

\* An emulator that looks at the request and leaves it in the pipe.
MutEmuRead ==
  /\ epc = "read" /\ req_pipe # <<>>
  /\ ereq' = Head(req_pipe)
  /\ epc' = "serve"
  /\ UNCHANGED <<emu, kernel, daemon, server, conns, pipes, faults, history>>

EmuRead ==
  /\ epc = "read" /\ req_pipe # <<>>
  /\ ereq' = Head(req_pipe)
  /\ req_pipe' = Tail(req_pipe)
  /\ epc' = "serve"
  /\ UNCHANGED <<emu, kernel, daemon, server, conns, fifos, rep_pipe, faults, history>>

\* An emulator that forgets to answer a write it skips.
MutEmuServe ==
  /\ epc = "serve"
  /\ Serve(ereq.req)
  /\ rep_pipe' = IF cap_detected' THEN Append(rep_pipe, rsp') ELSE rep_pipe
  /\ epc' = "read"
  /\ pending' = {p \in pending : p.id > ereq.op.id}
  /\ performed' = ereq.op.id
  /\ UNCHANGED <<ereq, kernel, daemon, server, conns, fifos, req_pipe, faults>>

\* Handling and answering are one step: an emulator killed between the two
\* loses the effect of the first.
EmuServe ==
  /\ epc = "serve"
  /\ Serve(ereq.req)
  /\ rep_pipe' = Append(rep_pipe, rsp')
  /\ epc' = "read"
  /\ pending' = {p \in pending : p.id > ereq.op.id}
  /\ performed' = ereq.op.id
  /\ UNCHANGED <<ereq, kernel, daemon, server, conns, fifos, req_pipe, faults>>

EmuStep == EmuRead \/ EmuServe
-----------------------------------------------------------------------------
(* Failures *)

KillDaemon ==
  /\ dpc # "down"
  /\ crashes < MaxCrashes /\ crashes' = crashes + 1
  /\ DaemonGone
  /\ UNCHANGED <<kernel, server, emuproc, pipes, stops, lost, history>>

KillServer ==
  /\ tpc \in KillServerAt
  /\ crashes < MaxCrashes /\ crashes' = crashes + 1
  /\ ServerGone
  /\ UNCHANGED <<kernel, daemon, emuproc, stops, lost, history>>

\* What the emulator knows is lost; EmuStart begins with a zeroed struct.
KillEmu ==
  /\ epc # "down"
  /\ crashes < MaxCrashes /\ crashes' = crashes + 1
  /\ epc' = "down"
  /\ lost' = (lost \/ epc = "serve")
  /\ PipesAfterExit(tpc)
  /\ UNCHANGED <<emu, ereq, kernel, daemon, server, conns, fifos, stops, history>>

\* The cleanup of the run scripts kills whatever runs.
StopAll ==
  /\ stops < MaxStops /\ stops' = stops + 1
  /\ {dpc, tpc, epc} # {"down"}
  /\ dpc' = "down" /\ sockfd' = 0 /\ dop' = NoOp
  /\ tpc' = "down" /\ top' = NoOp /\ client' = 0 /\ backlog' = <<>> /\ seq' = 0
  /\ conns' = CloseServerEnds(CloseDaemonEnd)
  /\ epc' = "down"
  /\ req_pipe' = <<>> /\ rep_pipe' = <<>>
  /\ lost' = FALSE
  /\ UNCHANGED <<kernel, emu, ereq, fifos, crashes, history>>
-----------------------------------------------------------------------------
RelayNext == \/ Issue \/ Abandon
             \/ DaemonStart \/ DaemonStep
             \/ ThinStart \/ ThinStep
             \/ EmuStart \/ EmuStep
             \/ KillDaemon \/ KillServer \/ KillEmu \/ StopAll

\* Every process that can take its next step is scheduled.  Nothing makes
\* anyone start a process, or the kernel an access.
RelaySpec == /\ RelayInit /\ [][RelayNext]_vars
             /\ WF_vars(DaemonStep) /\ WF_vars(ThinStep) /\ WF_vars(EmuStep)
-----------------------------------------------------------------------------
(* Properties *)

Registers == INSTANCE RegisterAccess
               WITH waiting <- kpc # "idle",
                    answer <- [id |-> performed, data |-> rsp.data]

\* The reply thin-server is about to take is the one to the transaction it has
\* just written, although serve() compares no packet_number: the pipes never
\* hold a reply to an earlier one.
ReplyMatchesRequest ==
  tpc = "read" /\ rep_pipe # <<>> => Head(rep_pipe).packet_number = seq

\* Through every start, exit and kill the chain is an atomic register access:
\* an answer the kernel gets is the emulator's to that very access, performed
\* once, and an access given up is not performed after a later one.
ImplementsAccess == Registers!Spec

\* An access of the kernel comes to an end unless a process is missing, the
\* daemon that took it is gone, or the emulator was killed after it took the
\* request from the pipe.
AccessReturns ==
  kpc # "idle" ~>
    kpc = "idle" \/ "down" \in {dpc, tpc, epc} \/ Orphaned \/ lost

\* A daemon that waits for an answer on a connection whose server is gone
\* notices and exits.
LostServerNoticed ==
  dpc = "recv" /\ conns[sockfd].s = "closed" ~> dpc # "recv"
=============================================================================
