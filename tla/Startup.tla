------------------------------ MODULE Startup ------------------------------
(***************************************************************************)
(* The five scripts that start the chain, wait until it is up, make the    *)
(* kernel rescan the PCI bus, and stop it again; and of the programs what  *)
(* they do up to their main loop.  Scripts are run one after the other and *)
(* may be interrupted anywhere, programs may die anywhere; the named pipes *)
(* stay in the file system, and the processes a script has left running    *)
(* meet the next one.                                                      *)
(*                                                                         *)
(* A signal ends a process at once.  The checks of the declared            *)
(* dependencies are left out: the lists are in an order that passes them.  *)
(***************************************************************************)
EXTENDS Naturals, Sequences

CONSTANTS Scripts,       \* the scripts that are run
          PipesLeft,     \* whether an earlier run has left the pipes: a set of Booleans
          MaxRuns,       \* scripts run one after the other
          MaxDeaths      \* programs that are killed, or that the kernel fails

ASSUME StartupAssumption ==
  /\ PipesLeft \subseteq BOOLEAN /\ MaxRuns \in Nat /\ MaxDeaths \in Nat

VARIABLES script,        \* the script that runs, or ran last
          spc, step,     \* its position: the service it is at, and what it does there
          pids,          \* the processes whose ids it has noted
          procs,         \* every process started so far
          fifos,         \* the pipes exist in PIPE_DIR
          redirect,      \* /proc/avery_doe_redirect
          inherited,     \* the processes that were running when the script began
          runs, deaths

script_vars == <<script, spc, step, pids, redirect, inherited, runs>>
vars == <<script_vars, procs, fifos, deaths>>
-----------------------------------------------------------------------------
(* The scripts: the services in start order, each with the condition that   *)
(* is awaited before the script goes on; whether the cleanup is installed   *)
(* before the first start or after the last; whether it stops processes by  *)
(* name or by the ids noted; whether the script rescans or waits for its    *)
(* services; whether it ends with the redirect switched off.                *)

Service(svc, probe) == [svc |-> svc, probe |-> probe]

Mechanisms == {"chardev", "netlink"}
Daemon(mechanism) == IF mechanism = "netlink" THEN "daemon_doe_netlink" ELSE "daemon_doe"

run_sh(mechanism) ==
  [order |-> <<Service("remote_rc", "none"), Service(Daemon(mechanism), "established")>>,
   handlers_first |-> FALSE, by_name |-> FALSE, rescans |-> TRUE, resets |-> FALSE]

run_doe2cosim_sh(mechanism) ==
  [order |-> <<Service("thin_srv", "none"), Service("doe_emu", "none"),
               Service(Daemon(mechanism), "established")>>,
   handlers_first |-> FALSE, by_name |-> FALSE, rescans |-> TRUE, resets |-> FALSE]

run_tdx_doe2cosim_sh(mechanism) ==
  [order |-> <<Service("thin_srv", "none"), Service("doe_emu", "none"),
               Service(Daemon(mechanism), "none")>>,
   handlers_first |-> FALSE, by_name |-> FALSE, rescans |-> FALSE,
   resets |-> mechanism = "chardev"]

run_doe2cosim_improved_sh(mechanism) ==
  [order |-> <<Service("doe_emu", "server_pipes"), Service("thin_srv", "listen"),
               Service(Daemon(mechanism), "established")>>,
   handlers_first |-> TRUE, by_name |-> TRUE, rescans |-> TRUE, resets |-> FALSE]

run_doe2cosim_py(mechanism) ==
  [order |-> <<Service(Daemon(mechanism), "listen"), Service("thin_srv", "doe_files"),
               Service("doe_emu", "pipe_open")>>,
   handlers_first |-> TRUE, by_name |-> FALSE, rescans |-> TRUE, resets |-> FALSE]

AllScripts == UNION { { run_sh(m), run_doe2cosim_sh(m), run_tdx_doe2cosim_sh(m),
                        run_doe2cosim_improved_sh(m), run_doe2cosim_py(m) }
                      : m \in Mechanisms }

ASSUME ScriptsAssumption == Scripts \subseteq AllScripts
-----------------------------------------------------------------------------
(* What a process has come to: "new", "open" (thin-server with its pipes,   *)
(* daemon-doe with its device), "connected" (daemon-doe-netlink without its *)
(* family), "up", "gone".  A server keeps the daemons that connected to it, *)
(* in order of connection: it accepts the first and no other.               *)

Alive(i) == procs[i].st # "gone"
Listening(i) == procs[i].svc \in {"thin_srv", "remote_rc"} /\ procs[i].st = "up"
Becomes(i, st) == procs' = [procs EXCEPT ![i].st = st]

\* Connections that /proc/net/tcp shows as ESTABLISHED.
Established(i, d) ==
  /\ Listening(i) /\ Alive(d)
  /\ \E n \in DOMAIN procs[i].conns : procs[i].conns[n] = d

(* The probes *)

ListenOn5555 == \E i \in DOMAIN procs : Listening(i)

\* A probe that is content with the server's own line in /proc/net/tcp.
MutEstablishedOn5555 == ListenOn5555

EstablishedOn5555 == \E i, d \in DOMAIN procs : Established(i, d)

\* A probe that looks for names the pipes do not have.
MutServerPipes == FALSE

ServerPipes == fifos

\* run_doe2cosim.py does: no file in PIPE_DIR has a name that begins with doe_.
DoeFiles == FALSE

\* Of the process started last.
PipeOpen == procs[Len(procs)].st = "up"

Ready(probe) == CASE probe = "none"         -> TRUE
                  [] probe = "server_pipes" -> ServerPipes
                  [] probe = "doe_files"    -> DoeFiles
                  [] probe = "pipe_open"    -> PipeOpen
                  [] probe = "listen"       -> ListenOn5555
                  [] probe = "established"  -> EstablishedOn5555
-----------------------------------------------------------------------------
Running == spc \notin {"idle", "aborted"}

Init == /\ script \in Scripts
        /\ spc = "idle" /\ step = 0
        /\ pids = {} /\ procs = <<>>
        /\ fifos \in PipesLeft
        /\ redirect = FALSE /\ inherited = {}
        /\ runs = 0 /\ deaths = 0

Begin == /\ ~Running /\ runs < MaxRuns
         /\ script' \in Scripts
         /\ redirect' = TRUE
         /\ spc' = "launch" /\ step' = 1 /\ pids' = {}
         /\ inherited' = {i \in DOMAIN procs : Alive(i)}
         /\ runs' = runs + 1
         /\ UNCHANGED <<procs, fifos, deaths>>

Launch == /\ spc = "launch"
          /\ procs' = Append(procs, [svc |-> script.order[step].svc,
                                     st |-> "new", conns |-> <<>>])
          /\ spc' = "record"
          /\ UNCHANGED <<script, step, pids, fifos, redirect, inherited, runs, deaths>>

\* The process id is noted.  A script that installs its cleanup after the last
\* start does so in this step; one that goes by names finds the process from
\* here on, because the child has become the program.
Record == /\ spc = "record"
          /\ pids' = pids \cup {Len(procs)}
          /\ spc' = "probe"
          /\ UNCHANGED <<script, step, procs, fifos, redirect, inherited, runs, deaths>>

\* The scripts wait for the probe alone: not for the process to be alive, and
\* not for a limited time.
Probe == /\ spc = "probe" /\ Ready(script.order[step].probe)
         /\ IF step < Len(script.order)
              THEN spc' = "launch" /\ step' = step + 1
              ELSE /\ spc' = IF script.rescans THEN "remove" ELSE "wait"
                   /\ UNCHANGED step
         /\ UNCHANGED <<script, pids, procs, fifos, redirect, inherited, runs, deaths>>

\* The root port is removed.  The script sleeps before and after, and does not
\* look at its services again.
Remove == /\ spc = "remove"
          /\ spc' = "rescan"
          /\ UNCHANGED <<script, step, pids, procs, fifos, redirect, inherited,
                         runs, deaths>>

\* A cleanup that knows the process started last alone.
MutStopped(i) == IF script.by_name THEN procs[i].svc # "remote_rc"
                                   ELSE i \in pids /\ i = Len(procs)

\* By name, a child that is still a copy of the script is not found.
Stopped(i) == IF script.by_name
                THEN /\ procs[i].svc # "remote_rc"
                     /\ ~(spc = "record" /\ i = Len(procs) /\ procs[i].st = "new")
                ELSE i \in pids

Cleanup == /\ procs' = [i \in DOMAIN procs |->
                          IF Stopped(i) THEN [procs[i] EXCEPT !.st = "gone"]
                                        ELSE procs[i]]
           /\ redirect' = (redirect /\ ~script.resets)
           /\ UNCHANGED <<script, step, pids, fifos, inherited, runs, deaths>>

\* The bus is rescanned and the chain stopped.
Rescan == spc = "rescan" /\ Cleanup /\ spc' = "idle"

WaitEnds == spc = "wait" /\ (\A i \in pids : ~Alive(i)) /\ Cleanup /\ spc' = "idle"

\* Where an interrupt runs a cleanup that knows of every process started.
Handled == IF script.handlers_first
             THEN spc # "record"
             ELSE \/ spc \in {"remove", "rescan", "wait"}
                  \/ spc = "probe" /\ step = Len(script.order)

Interrupt == Running /\ Handled /\ Cleanup /\ spc' = "idle"

\* Elsewhere the cleanup misses the process started last, or there is none yet.
Abort == /\ Running /\ ~Handled
         /\ spc' = "aborted"
         /\ IF script.handlers_first
              THEN Cleanup
              ELSE UNCHANGED <<script, step, pids, procs, fifos, redirect, inherited,
                               runs, deaths>>

ScriptStep == Launch \/ Record \/ Probe \/ Remove \/ Rescan \/ WaitEnds
-----------------------------------------------------------------------------
(* The programs *)

\* A server that takes pipes which exist already for an error.
MutThinOpen(i) == /\ procs[i].svc = "thin_srv" /\ procs[i].st = "new"
                  /\ fifos' = TRUE
                  /\ Becomes(i, IF fifos THEN "gone" ELSE "open")
                  /\ UNCHANGED <<script_vars, deaths>>

ThinOpen(i) == /\ procs[i].svc = "thin_srv" /\ procs[i].st = "new"
               /\ fifos' = TRUE
               /\ Becomes(i, "open")
               /\ UNCHANGED <<script_vars, deaths>>

\* bind fails while another process listens on the port.
Listen(i) == /\ \/ procs[i].svc = "thin_srv" /\ procs[i].st = "open"
                \/ procs[i].svc = "remote_rc" /\ procs[i].st = "new"
             /\ Becomes(i, IF \E j \in DOMAIN procs : Listening(j) THEN "gone" ELSE "up")
             /\ UNCHANGED <<script_vars, fifos, deaths>>

\* The server reads the end of file of the one client it has accepted.
ClientGone(i) == /\ Listening(i) /\ procs[i].conns # <<>>
                 /\ ~Alive(Head(procs[i].conns))
                 /\ Becomes(i, "gone")
                 /\ UNCHANGED <<script_vars, fifos, deaths>>

EmuOpen(i) == /\ procs[i].svc = "doe_emu" /\ procs[i].st = "new"
              /\ Becomes(i, IF fifos THEN "up" ELSE "gone")
              /\ UNCHANGED <<script_vars, fifos, deaths>>

\* daemon-doe opens its device before it connects.
OpenDevice(d) == /\ procs[d].svc = "daemon_doe" /\ procs[d].st = "new"
                 /\ Becomes(d, "open")
                 /\ UNCHANGED <<script_vars, fifos, deaths>>

\* A daemon nobody listens to ends.
Connect(d) ==
  /\ \/ procs[d].svc = "daemon_doe" /\ procs[d].st = "open"
     \/ procs[d].svc = "daemon_doe_netlink" /\ procs[d].st = "new"
  /\ \/ \E i \in DOMAIN procs :
          /\ Listening(i)
          /\ procs' = [procs EXCEPT ![d].st = IF procs[d].svc = "daemon_doe"
                                               THEN "up" ELSE "connected",
                                    ![i].conns = Append(@, d)]
     \/ /\ \A i \in DOMAIN procs : ~Listening(i)
        /\ Becomes(d, "gone")
  /\ UNCHANGED <<script_vars, fifos, deaths>>

\* daemon-doe-netlink asks for its family and registers once it is connected.
Register(d) == /\ procs[d].svc = "daemon_doe_netlink" /\ procs[d].st = "connected"
               /\ Becomes(d, "up")
               /\ UNCHANGED <<script_vars, fifos, deaths>>

ProcStep(i) == \/ ThinOpen(i) \/ Listen(i) \/ ClientGone(i) \/ EmuOpen(i)
               \/ OpenDevice(i) \/ Connect(i) \/ Register(i)

\* The kernel has no device, or no family: the daemon ends, one before it has
\* connected, the other after.
KernelFails(d) == /\ \/ procs[d].svc = "daemon_doe" /\ procs[d].st = "new"
                     \/ procs[d].svc = "daemon_doe_netlink" /\ procs[d].st = "connected"
                  /\ deaths < MaxDeaths /\ deaths' = deaths + 1
                  /\ Becomes(d, "gone")
                  /\ UNCHANGED <<script_vars, fifos>>

\* Whatever the script is doing meanwhile.
Dies(i) == /\ Alive(i)
           /\ deaths < MaxDeaths /\ deaths' = deaths + 1
           /\ Becomes(i, "gone")
           /\ UNCHANGED <<script_vars, fifos>>
-----------------------------------------------------------------------------
Next == \/ Begin \/ ScriptStep
        \/ Interrupt \/ Abort
        \/ \E i \in DOMAIN procs : ProcStep(i) \/ KernelFails(i) \/ Dies(i)

\* A script goes on when it can, and so does every process.
Fairness == /\ WF_vars(ScriptStep)
            /\ WF_vars(\E i \in DOMAIN procs : ProcStep(i))

Spec == Init /\ [][Next]_vars /\ Fairness
-----------------------------------------------------------------------------
(* Properties *)

\* When a script that found nobody running makes the kernel rescan the bus, the
\* daemon it has started is the client its own server has accepted, although
\* the probe looks for some connection in /proc/net/tcp; and the connection
\* still stands, unless one of the two has ended since the probe.
RescanOnOwnChain ==
  spc = "rescan" /\ inherited = {} =>
    \E i, d \in pids : /\ procs[i].conns # <<>> /\ Head(procs[i].conns) = d
                       /\ Alive(i) /\ Alive(d) => Established(i, d)

\* When a script that starts doe-emu makes the kernel rescan the bus, doe-emu
\* is there to answer.
RescanFindsEmulator ==
  spc = "rescan" /\ (\E n \in DOMAIN script.order : script.order[n].svc = "doe_emu")
    => \E i \in pids : procs[i].svc = "doe_emu" /\ Alive(i)

\* A script that ends by its cleanup leaves nobody running whom it has started,
\* run_doe2cosim_improved.sh nobody of an earlier script either, remote-rc
\* apart; and run_tdx_doe2cosim.sh over the character device leaves the
\* redirect switched off.
CleanStop ==
  spc = "idle" => /\ \A i \in DOMAIN procs : Alive(i) => i \in inherited
                  /\ runs > 0 /\ script.by_name =>
                       \A i \in DOMAIN procs : Alive(i) => procs[i].svc = "remote_rc"
                  /\ runs > 0 /\ script.resets => ~redirect

\* However a script ends, it leaves nobody running whom it has started.
ReliableCleanup ==
  ~Running => \A i \in DOMAIN procs : Alive(i) => i \in inherited

\* A script that found nobody running waits for ever at a probe only if a
\* process it has started is gone.
StuckOnlyIfDied ==
  spc = "probe" /\ inherited = {} ~> spc # "probe" \/ \E i \in pids : ~Alive(i)

\* The start comes to an end: the script gets to the removal of the root port or
\* waits for its services, or was ended.
StartupCompletes == spc = "launch" ~> spc \in {"remove", "wait", "idle", "aborted"}

\* run_doe2cosim_improved.sh gets to the rescan where an earlier run has left
\* the pipes and nobody running, however slowly the services come up, unless
\* one of them is killed or finds no device or family.
ImprovedCompletes ==
  script.by_name /\ spc = "launch" /\ fifos /\ inherited = {}
    ~> spc \in {"rescan", "idle", "aborted"} \/ deaths > 0
=============================================================================
