--------------------------- MODULE StartupProofs ---------------------------
(***************************************************************************)
(* That a script which ends by its cleanup leaves nobody running whom it   *)
(* has started, and that a script rescans the bus on its own chain: for    *)
(* any number of scripts run one after the other, of programs that die, of *)
(* interrupts, and of processes left running by earlier scripts.           *)
(***************************************************************************)
EXTENDS Startup, TLAPS

Svcs   == {"remote_rc", "thin_srv", "doe_emu", "daemon_doe", "daemon_doe_netlink"}
Probes == {"none", "server_pipes", "doe_files", "pipe_open", "listen", "established"}
States == {"new", "open", "connected", "up", "gone"}

Services == [svc : Svcs, probe : Probes]
Procs == [svc : Svcs, st : States, conns : Seq(Nat)]

\* The processes the script has started, the one not noted yet included.
Own(i) == i \in pids \/ (spc = "record" /\ i = Len(procs))

\* How many services of its list the script has started.
Launched == IF spc = "launch" THEN step - 1 ELSE step

STypeInv ==
  /\ script \in Scripts
  /\ spc \in {"idle", "aborted", "launch", "record", "probe", "remove", "rescan", "wait"}
  /\ procs \in Seq(Procs)
  /\ pids \subseteq 1..Len(procs)
  /\ Running => step \in 1..Len(script.order)
  /\ spc = "record" => Len(procs) >= 1

\* Who lives was running before or was started by the script that runs; the
\* processes it has started are those of its list so far.
OwnInv ==
  /\ spc # "aborted" =>
       \A i \in 1..Len(procs) : Alive(i) => i \in inherited \/ (Running /\ Own(i))
  /\ Running =>
       \A i \in 1..Len(procs) :
         Own(i) => \E k \in 1..Launched : procs[i].svc = script.order[k].svc

\* Who has clients is a server that listens or did so; its clients are of the
\* script that runs if nobody else was there before it.
ClientInv ==
  \A i \in 1..Len(procs) : \A n \in 1..Len(procs[i].conns) :
    /\ procs[i].svc \in {"thin_srv", "remote_rc"} /\ procs[i].st \in {"up", "gone"}
    /\ procs[i].conns[n] \in 1..Len(procs)
    /\ spc # "aborted" /\ inherited = {} /\ Alive(i) => Own(procs[i].conns[n])

\* The first client of a server of the script is of the script.
Chain == \E i, d \in pids : Len(procs[i].conns) >= 1 /\ procs[i].conns[1] = d

\* The script has passed the probes before the service it is at, and a script
\* that rescans the last one too.
PassedInv ==
  /\ Running => \A k \in 1..(step - 1) : script.order[k].probe # "doe_files"
  /\ spc \in {"remove", "rescan"} /\ inherited = {} => Chain

\* Redirect and processes are as the last script has left them.
EndInv ==
  spc = "idle" /\ runs > 0 =>
    /\ script.resets => ~redirect
    /\ script.by_name => \A i \in 1..Len(procs) : Alive(i) => procs[i].svc = "remote_rc"

SInv == STypeInv /\ OwnInv /\ ClientInv /\ PassedInv /\ EndInv
-----------------------------------------------------------------------------
(* The scripts *)

\* A list of two services, and one of three.
LEMMA Lists ==
  ASSUME NEW S, NEW a \in S, NEW b \in S, NEW c \in S
  PROVE  /\ <<a, b>> \in Seq(S) /\ Len(<<a, b>>) = 2
         /\ <<a, b>>[1] = a /\ <<a, b>>[2] = b
         /\ <<a, b, c>> \in Seq(S) /\ Len(<<a, b, c>>) = 3
         /\ <<a, b, c>>[1] = a /\ <<a, b, c>>[2] = b /\ <<a, b, c>>[3] = c
  OBVIOUS

\* The lists name services and probes; by name all of their processes are
\* found; and the last probe is for the daemon's connection, or is never
\* reached.
ServiceList(order) == order \in Seq(Services) /\ Len(order) >= 1

NoRemoteRc(order) == \A n \in 1..Len(order) : order[n].svc # "remote_rc"

ProbesDaemon(order) ==
  \/ order[Len(order)].probe = "established"
  \/ \E k \in 1..(Len(order) - 1) : order[k].probe = "doe_files"

\* The fields of an entry.
LEMMA Entry ==
  ASSUME NEW x \in Svcs, NEW y \in Probes
  PROVE  Service(x, y) \in Services /\ Service(x, y).svc = x /\ Service(x, y).probe = y
  BY DEF Service, Services

\* A daemon that is awaited last of two.
LEMMA TwoSound ==
  ASSUME NEW x \in Svcs, NEW p \in Probes, NEW y \in Svcs, NEW q \in Probes
  PROVE  /\ ServiceList(<<Service(x, p), Service(y, q)>>)
         /\ q = "established" => ProbesDaemon(<<Service(x, p), Service(y, q)>>)
<1> DEFINE a == Service(x, p)
           b == Service(y, q)
           l == <<a, b>>
<1>1. /\ a \in Services /\ a.svc = x
      /\ b \in Services /\ b.svc = y /\ b.probe = q
  BY Entry
<1> HIDE DEF a, b
<1>2. l \in Seq(Services) /\ Len(l) = 2 /\ l[1] = a /\ l[2] = b
  BY <1>1, Lists
<1> HIDE DEF l
<1>3. \A n \in 1..Len(l) : n = 1 \/ n = 2
  BY <1>2
<1>4. ServiceList(l) /\ (q = "established" => ProbesDaemon(l))
  BY <1>1, <1>2, <1>3 DEF ServiceList, ProbesDaemon
<1> QED
  BY <1>4 DEF l, a, b

\* A daemon that is awaited last of three, or a probe before it that no state passes.
LEMMA ThreeSound ==
  ASSUME NEW x \in Svcs, NEW p \in Probes, NEW y \in Svcs, NEW q \in Probes,
         NEW z \in Svcs, NEW r \in Probes
  PROVE  LET l == <<Service(x, p), Service(y, q), Service(z, r)>>
         IN  /\ ServiceList(l)
             /\ x # "remote_rc" /\ y # "remote_rc" /\ z # "remote_rc" => NoRemoteRc(l)
             /\ r = "established" \/ q = "doe_files" => ProbesDaemon(l)
<1> DEFINE a == Service(x, p)
           b == Service(y, q)
           c == Service(z, r)
           l == <<a, b, c>>
<1>1. /\ a \in Services /\ a.svc = x /\ b \in Services /\ b.svc = y /\ b.probe = q
      /\ c \in Services /\ c.svc = z /\ c.probe = r
  BY Entry
<1> HIDE DEF a, b, c
<1>2. l \in Seq(Services) /\ Len(l) = 3 /\ l[1] = a /\ l[2] = b /\ l[3] = c
  BY <1>1, Lists
<1> HIDE DEF l
<1>3. \A n \in 1..Len(l) : n = 1 \/ n = 2 \/ n = 3
  BY <1>2
<1>4. 2 \in 1..(Len(l) - 1)
  BY <1>2
<1>5. ServiceList(l)
  BY <1>1, <1>2, <1>3 DEF ServiceList
<1>6. x # "remote_rc" /\ y # "remote_rc" /\ z # "remote_rc" => NoRemoteRc(l)
  BY <1>1, <1>2, <1>3 DEF NoRemoteRc
<1>7. r = "established" \/ q = "doe_files" => ProbesDaemon(l)
  BY <1>1, <1>2, <1>4 DEF ProbesDaemon
<1> QED
  BY <1>5, <1>6, <1>7 DEF l, a, b, c

\* The names that occur in the lists.
LEMMA Names ==
  /\ "remote_rc" \in Svcs /\ "thin_srv" \in Svcs /\ "doe_emu" \in Svcs
  /\ \A m : Daemon(m) \in Svcs /\ Daemon(m) # "remote_rc"
  /\ "none" \in Probes /\ "server_pipes" \in Probes /\ "doe_files" \in Probes
  /\ "pipe_open" \in Probes /\ "listen" \in Probes /\ "established" \in Probes
  BY DEF Svcs, Probes, Daemon

Sound(s) == /\ ServiceList(s.order)
            /\ s.by_name => NoRemoteRc(s.order)
            /\ s.rescans => ProbesDaemon(s.order)

\* Each of the five scripts is so, over either mechanism.
LEMMA ScriptsSound == \A s \in Scripts : Sound(s)
<1>1. ASSUME NEW m \in Mechanisms PROVE Sound(run_sh(m))
  <2> DEFINE l == <<Service("remote_rc", "none"), Service(Daemon(m), "established")>>
  <2>1. ServiceList(l) /\ ProbesDaemon(l)
    BY TwoSound, Names
  <2>2. run_sh(m).order = l /\ run_sh(m).by_name = FALSE
    BY Zenon DEF run_sh
  <2> QED
    BY <2>1, <2>2, Zenon DEF Sound
<1>2. ASSUME NEW m \in Mechanisms PROVE Sound(run_doe2cosim_sh(m))
  <2> DEFINE l == <<Service("thin_srv", "none"), Service("doe_emu", "none"),
                    Service(Daemon(m), "established")>>
  <2>1. ServiceList(l) /\ ProbesDaemon(l)
    BY ThreeSound, Names
  <2>2. run_doe2cosim_sh(m).order = l /\ run_doe2cosim_sh(m).by_name = FALSE
    BY Zenon DEF run_doe2cosim_sh
  <2> QED
    BY <2>1, <2>2, Zenon DEF Sound
<1>3. ASSUME NEW m \in Mechanisms PROVE Sound(run_tdx_doe2cosim_sh(m))
  <2> DEFINE l == <<Service("thin_srv", "none"), Service("doe_emu", "none"),
                    Service(Daemon(m), "none")>>
  <2>1. ServiceList(l)
    BY ThreeSound, Names
  <2>2. /\ run_tdx_doe2cosim_sh(m).order = l /\ run_tdx_doe2cosim_sh(m).by_name = FALSE
        /\ run_tdx_doe2cosim_sh(m).rescans = FALSE
    BY Zenon DEF run_tdx_doe2cosim_sh
  <2> QED
    BY <2>1, <2>2, Zenon DEF Sound
<1>4. ASSUME NEW m \in Mechanisms PROVE Sound(run_doe2cosim_improved_sh(m))
  <2> DEFINE l == <<Service("doe_emu", "server_pipes"), Service("thin_srv", "listen"),
                    Service(Daemon(m), "established")>>
  <2>1. ServiceList(l) /\ NoRemoteRc(l) /\ ProbesDaemon(l)
    BY ThreeSound, Names
  <2>2. run_doe2cosim_improved_sh(m).order = l
    BY Zenon DEF run_doe2cosim_improved_sh
  <2> QED
    BY <2>1, <2>2, Zenon DEF Sound
<1>5. ASSUME NEW m \in Mechanisms PROVE Sound(run_doe2cosim_py(m))
  <2> DEFINE l == <<Service(Daemon(m), "listen"), Service("thin_srv", "doe_files"),
                    Service("doe_emu", "pipe_open")>>
  <2>1. ServiceList(l) /\ ProbesDaemon(l)
    BY ThreeSound, Names
  <2>2. run_doe2cosim_py(m).order = l /\ run_doe2cosim_py(m).by_name = FALSE
    BY Zenon DEF run_doe2cosim_py
  <2> QED
    BY <2>1, <2>2, Zenon DEF Sound
<1>6. ASSUME NEW s \in Scripts PROVE Sound(s)
  <2>1. PICK m \in Mechanisms :
          s \in { run_sh(m), run_doe2cosim_sh(m), run_tdx_doe2cosim_sh(m),
                  run_doe2cosim_improved_sh(m), run_doe2cosim_py(m) }
    BY ScriptsAssumption, Zenon DEF AllScripts
  <2> QED
    BY <1>1, <1>2, <1>3, <1>4, <1>5, <2>1, Zenon
<1> QED
  BY <1>6
-----------------------------------------------------------------------------
(* What a step does to the processes *)

\* A process that goes on, and a server that gets a client.
LEMMA Changed ==
  ASSUME NEW r \in Procs, NEW st \in States, NEW q \in Seq(Nat)
  PROVE  /\ [r EXCEPT !.st = st] \in Procs
         /\ [r EXCEPT !.st = st].svc = r.svc
         /\ [r EXCEPT !.st = st].st = st
         /\ [r EXCEPT !.st = st].conns = r.conns
         /\ [r EXCEPT !.conns = q] \in Procs
         /\ [r EXCEPT !.conns = q].svc = r.svc
         /\ [r EXCEPT !.conns = q].st = r.st
         /\ [r EXCEPT !.conns = q].conns = q
  BY Zenon DEF Procs, States

\* Replacing one process leaves the others.
LEMMA OneProc ==
  ASSUME NEW ps \in Seq(Procs), NEW k \in 1..Len(ps), NEW v \in Procs
  PROVE  /\ [ps EXCEPT ![k] = v] \in Seq(Procs)
         /\ Len([ps EXCEPT ![k] = v]) = Len(ps)
         /\ [ps EXCEPT ![k] = v][k] = v
         /\ \A i \in 1..Len(ps) : i # k => [ps EXCEPT ![k] = v][i] = ps[i]
  OBVIOUS

\* A process that goes on by itself.
LEMMA BecomesIs ==
  ASSUME procs \in Seq(Procs), NEW k \in 1..Len(procs), NEW st \in States, Becomes(k, st)
  PROVE  /\ procs' \in Seq(Procs) /\ Len(procs') = Len(procs)
         /\ procs'[k].svc = procs[k].svc /\ procs'[k].st = st
         /\ procs'[k].conns = procs[k].conns
         /\ \A i \in 1..Len(procs) : i # k => procs'[i] = procs[i]
<1> DEFINE v == [procs[k] EXCEPT !.st = st]
<1>1. procs[k] \in Procs /\ procs' = [procs EXCEPT ![k] = v]
  BY DEF Becomes
<1>2. <<>> \in Seq(Nat)
  OBVIOUS
<1>3. v \in Procs /\ v.svc = procs[k].svc /\ v.st = st /\ v.conns = procs[k].conns
  BY <1>1, <1>2, Changed, Zenon
<1> HIDE DEF v
<1> QED
  BY <1>1, <1>3, OneProc

\* A daemon that connects to a server.
LEMMA ConnectIs ==
  ASSUME procs \in Seq(Procs), NEW d \in 1..Len(procs), NEW i \in 1..Len(procs), i # d,
         NEW st \in States,
         procs' = [procs EXCEPT ![d].st = st, ![i].conns = Append(@, d)]
  PROVE  /\ procs' \in Seq(Procs) /\ Len(procs') = Len(procs)
         /\ procs'[d].svc = procs[d].svc /\ procs'[d].st = st
         /\ procs'[d].conns = procs[d].conns
         /\ procs'[i].svc = procs[i].svc /\ procs'[i].st = procs[i].st
         /\ procs'[i].conns = Append(procs[i].conns, d)
         /\ \A j \in 1..Len(procs) : j # i /\ j # d => procs'[j] = procs[j]
<1> DEFINE v == [procs[d] EXCEPT !.st = st]
           w == [procs[i] EXCEPT !.conns = Append(procs[i].conns, d)]
           mid == [procs EXCEPT ![d] = v]
<1>1. procs[d] \in Procs /\ procs[i] \in Procs /\ d \in Nat
  OBVIOUS
<1>2. procs[i].conns \in Seq(Nat)
  BY <1>1, Zenon DEF Procs
<1>3. Append(procs[i].conns, d) \in Seq(Nat)
  BY <1>1, <1>2
<1>4. /\ v \in Procs /\ v.svc = procs[d].svc /\ v.st = st /\ v.conns = procs[d].conns
      /\ w \in Procs /\ w.svc = procs[i].svc /\ w.st = procs[i].st
      /\ w.conns = Append(procs[i].conns, d)
  <2>1. /\ v \in Procs /\ v.svc = procs[d].svc /\ v.st = st
        /\ v.conns = procs[d].conns
    BY <1>1, <1>3, Changed, Zenon
  <2>2. /\ w \in Procs /\ w.svc = procs[i].svc /\ w.st = procs[i].st
        /\ w.conns = Append(procs[i].conns, d)
    BY <1>1, <1>3, Changed, Zenon
  <2> QED
    BY <2>1, <2>2
<1>5. procs' = [mid EXCEPT ![i] = w]
  OBVIOUS
<1> HIDE DEF v, w
<1>6. /\ mid \in Seq(Procs) /\ Len(mid) = Len(procs) /\ mid[d] = v
      /\ \A j \in 1..Len(procs) : j # d => mid[j] = procs[j]
  BY <1>4, OneProc
<1> HIDE DEF mid
<1>7. /\ procs' \in Seq(Procs) /\ Len(procs') = Len(procs) /\ procs'[i] = w
      /\ \A j \in 1..Len(procs) : j # i => procs'[j] = mid[j]
  <2>1. i \in 1..Len(mid) /\ w \in Procs
    BY <1>4, <1>6
  <2> DEFINE qs == [mid EXCEPT ![i] = w]
  <2>2. /\ qs \in Seq(Procs) /\ Len(qs) = Len(mid) /\ qs[i] = w
        /\ \A j \in 1..Len(mid) : j # i => qs[j] = mid[j]
    BY <1>6, <2>1, OneProc
  <2>3. procs' = qs
    BY <1>5
  <2> HIDE DEF qs
  <2> QED
    BY <1>6, <2>2, <2>3
<1> QED
  BY <1>4, <1>6, <1>7

\* The processes a cleanup stops are gone, the others as they were.
LEMMA CleanupIs ==
  ASSUME procs \in Seq(Procs), Cleanup
  PROVE  /\ procs' \in Seq(Procs) /\ Len(procs') = Len(procs)
         /\ \A i \in 1..Len(procs) :
              /\ procs'[i].svc = procs[i].svc /\ procs'[i].conns = procs[i].conns
              /\ procs'[i].st = "gone" \/ procs'[i].st = procs[i].st
              /\ Stopped(i) => procs'[i].st = "gone"
<1> DEFINE v(i) == IF Stopped(i) THEN [procs[i] EXCEPT !.st = "gone"] ELSE procs[i]
<1>1. procs' = [i \in 1..Len(procs) |-> v(i)]
  <2>1. DOMAIN procs = 1..Len(procs)
    OBVIOUS
  <2> QED
    BY <2>1, Zenon DEF Cleanup
<1>2. \A i \in 1..Len(procs) : procs[i] \in Procs
  OBVIOUS
<1>3. "gone" \in States /\ <<>> \in Seq(Nat)
  BY DEF States
<1>4. \A i \in 1..Len(procs) :
        /\ v(i) \in Procs /\ v(i).svc = procs[i].svc /\ v(i).conns = procs[i].conns
        /\ v(i).st = "gone" \/ v(i).st = procs[i].st
        /\ Stopped(i) => v(i).st = "gone"
  BY <1>2, <1>3, Changed, Zenon
<1> HIDE DEF v
<1>5. Len(procs) \in Nat
  OBVIOUS
<1> QED
  BY <1>1, <1>4, <1>5
-----------------------------------------------------------------------------
(* The steps of the programs *)

\* A process is one of its list's services, its clients are a sequence.
LEMMA ProcFields ==
  ASSUME procs \in Seq(Procs), NEW i \in 1..Len(procs)
  PROVE  /\ procs[i].svc \in Svcs /\ procs[i].st \in States
         /\ procs[i].conns \in Seq(Nat)
<1>1. procs[i] \in Procs
  OBVIOUS
<1> QED
  BY <1>1, Zenon DEF Procs, States

\* A step of a program leaves it the script's, and starts none.
LEMMA ProcsKept ==
  ASSUME STypeInv, OwnInv, EndInv, UNCHANGED script_vars,
         procs' \in Seq(Procs), Len(procs') = Len(procs),
         \A i \in 1..Len(procs) : /\ procs'[i].svc = procs[i].svc
                                  /\ procs'[i].st # "gone" => procs[i].st # "gone"
  PROVE  /\ STypeInv' /\ OwnInv' /\ EndInv'
         /\ \A i \in 1..Len(procs) : Own(i)' <=> Own(i)
<1>1. UNCHANGED <<script, spc, step, pids, inherited, redirect, runs>>
  BY DEF script_vars
<1>2. STypeInv' /\ (Running' <=> Running)
  BY <1>1 DEF STypeInv, Running
<1>3. \A i \in 1..Len(procs) : Own(i)' <=> Own(i)
  BY <1>1 DEF Own
<1>4. Launched' = Launched
  BY <1>1 DEF Launched
<1>5. OwnInv'
  BY <1>1, <1>2, <1>3, <1>4 DEF OwnInv, Alive
<1>6. EndInv'
  BY <1>1, Zenon DEF EndInv, Alive
<1> QED
  BY <1>2, <1>3, <1>5, <1>6

\* The clients a server has had stay what they are when it gets another.
LEMMA ChainKept ==
  ASSUME PassedInv, UNCHANGED script_vars, pids \subseteq 1..Len(procs),
         \A i \in 1..Len(procs) :
           Len(procs[i].conns) >= 1 => /\ Len(procs'[i].conns) >= 1
                                       /\ procs'[i].conns[1] = procs[i].conns[1]
  PROVE  PassedInv'
<1>1. UNCHANGED <<script, spc, step, pids, inherited>>
  BY DEF script_vars
<1>2. Chain => Chain'
  BY <1>1 DEF Chain
<1> QED
  BY <1>1, <1>2 DEF PassedInv, Running

\* A program that only goes on by itself; one that has clients stays what it
\* is until it ends.
LEMMA BecomesStep ==
  ASSUME SInv, NEW k \in 1..Len(procs), NEW st \in States, Becomes(k, st), Alive(k),
         st = "gone" \/ procs[k].st # "up", UNCHANGED script_vars
  PROVE  SInv'
<1>1. /\ procs' \in Seq(Procs) /\ Len(procs') = Len(procs)
      /\ procs'[k].svc = procs[k].svc /\ procs'[k].st = st
      /\ procs'[k].conns = procs[k].conns
      /\ \A i \in 1..Len(procs) : i # k => procs'[i] = procs[i]
  BY BecomesIs DEF SInv, STypeInv
<1>2. \A i \in 1..Len(procs) :
        /\ procs'[i].svc = procs[i].svc /\ procs'[i].conns = procs[i].conns
        /\ procs'[i].st # "gone" => procs[i].st # "gone"
        /\ procs[i].st = "up" => procs'[i].st \in {"up", "gone"}
        /\ procs[i].st = "gone" => procs'[i].st = "gone"
  BY <1>1 DEF Alive
<1>3. /\ STypeInv' /\ OwnInv' /\ EndInv'
      /\ \A i \in 1..Len(procs) : Own(i)' <=> Own(i)
  BY <1>1, <1>2, ProcsKept DEF SInv
<1>4. ClientInv'
  <2>1. UNCHANGED <<spc, pids, inherited>>
    BY DEF script_vars
  <2> SUFFICES ASSUME NEW i \in 1..Len(procs), NEW n \in 1..Len(procs[i].conns)
               PROVE  /\ procs'[i].svc \in {"thin_srv", "remote_rc"}
                      /\ procs'[i].st \in {"up", "gone"}
                      /\ procs[i].conns[n] \in 1..Len(procs)
                      /\ spc # "aborted" /\ inherited = {} /\ procs'[i].st # "gone"
                           => Own(procs[i].conns[n])'
    BY <1>1, <1>2, <2>1 DEF ClientInv, Alive
  <2>2. /\ procs[i].svc \in {"thin_srv", "remote_rc"} /\ procs[i].st \in {"up", "gone"}
        /\ procs[i].conns[n] \in 1..Len(procs)
        /\ spc # "aborted" /\ inherited = {} /\ procs[i].st # "gone"
             => Own(procs[i].conns[n])
    BY DEF SInv, ClientInv, Alive
  <2>3. procs'[i].conns[n] = procs[i].conns[n]
    BY <1>2
  <2>4. Own(procs[i].conns[n])' <=> Own(procs[i].conns[n])
    BY <1>1, <2>1, <2>3 DEF Own
  <2> QED
    BY <1>2, <2>2, <2>4
<1>5. PassedInv'
  BY <1>2, ChainKept DEF SInv, STypeInv
<1> QED
  BY <1>3, <1>4, <1>5 DEF SInv

\* The programs that go on by themselves.
LEMMA ProgramStep ==
  ASSUME SInv, NEW k \in 1..Len(procs),
         \/ ThinOpen(k) \/ Listen(k) \/ ClientGone(k) \/ EmuOpen(k)
         \/ OpenDevice(k) \/ Register(k) \/ KernelFails(k) \/ Dies(k)
  PROVE  SInv'
<1>1. PICK st \in {"open", "up", "gone"} :
        /\ Becomes(k, st) /\ Alive(k) /\ (st = "gone" \/ procs[k].st # "up")
        /\ UNCHANGED script_vars
  <2>1. CASE ThinOpen(k) \/ OpenDevice(k)
    BY <2>1 DEF ThinOpen, OpenDevice, Alive
  <2>2. CASE Listen(k)
    BY <2>2 DEF Listen, Alive
  <2>3. CASE EmuOpen(k) \/ Register(k)
    BY <2>3 DEF EmuOpen, Register, Alive
  <2>4. CASE ClientGone(k) \/ KernelFails(k) \/ Dies(k)
    BY <2>4 DEF ClientGone, KernelFails, Dies, Listening, Alive
  <2> QED
    BY <2>1, <2>2, <2>3, <2>4
<1>2. st \in States
  BY DEF States
<1> QED
  BY <1>1, <1>2, BecomesStep

\* A daemon finds a server, or ends.
LEMMA ConnectStep ==
  ASSUME SInv, NEW d \in 1..Len(procs), Connect(d)
  PROVE  SInv'
<1>1. /\ procs[d].svc \notin {"thin_srv", "remote_rc"} /\ procs[d].st \in {"new", "open"}
      /\ UNCHANGED script_vars /\ procs \in Seq(Procs)
  BY DEF Connect, SInv, STypeInv
<1>2. DOMAIN procs = 1..Len(procs)
  BY <1>1
<1>3. CASE Becomes(d, "gone")
  BY <1>1, <1>3, BecomesStep DEF States, Alive
<1>4. ASSUME NEW i \in 1..Len(procs), NEW st \in {"up", "connected"}, Listening(i),
             procs' = [procs EXCEPT ![d].st = st, ![i].conns = Append(@, d)]
      PROVE  SInv'
  <2>1. /\ i # d /\ procs[i].conns \in Seq(Nat) /\ st \in States
        /\ procs[i].svc \in {"thin_srv", "remote_rc"} /\ procs[i].st = "up"
    BY <1>1, <1>4, ProcFields DEF Listening, States
  <2>2. /\ procs' \in Seq(Procs) /\ Len(procs') = Len(procs)
        /\ procs'[d].svc = procs[d].svc /\ procs'[d].st = st
        /\ procs'[d].conns = procs[d].conns
        /\ procs'[i].svc = procs[i].svc /\ procs'[i].st = procs[i].st
        /\ procs'[i].conns = Append(procs[i].conns, d)
        /\ \A j \in 1..Len(procs) : j # i /\ j # d => procs'[j] = procs[j]
    BY <1>1, <1>4, <2>1, ConnectIs
  <2>3. \A j \in 1..Len(procs) :
          /\ procs'[j].svc = procs[j].svc
          /\ j # d => procs'[j].st = procs[j].st
          /\ j # i => procs'[j].conns = procs[j].conns
    BY <2>1, <2>2
  <2>4. /\ STypeInv' /\ OwnInv' /\ EndInv'
        /\ \A j \in 1..Len(procs) : Own(j)' <=> Own(j)
    BY <1>1, <2>2, <2>3, ProcsKept DEF SInv
  <2>5. /\ Len(procs'[i].conns) = Len(procs[i].conns) + 1
        /\ Len(procs[i].conns) \in Nat
        /\ procs'[i].conns[Len(procs[i].conns) + 1] = d
        /\ \A n \in 1..Len(procs[i].conns) : procs'[i].conns[n] = procs[i].conns[n]
    BY <2>1, <2>2
  <2>6. UNCHANGED <<spc, pids, step, script, inherited>>
    BY <1>1 DEF script_vars
  <2>7. ClientInv'
    <3> SUFFICES ASSUME NEW j \in 1..Len(procs), NEW n \in 1..Len(procs'[j].conns)
                 PROVE  /\ procs'[j].svc \in {"thin_srv", "remote_rc"}
                        /\ procs'[j].st \in {"up", "gone"}
                        /\ procs'[j].conns[n] \in 1..Len(procs)
                        /\ spc # "aborted" /\ inherited = {} /\ procs'[j].st # "gone"
                             => Own(procs[j].conns[n])'
      BY <2>2, <2>6 DEF ClientInv, Alive
    <3>1. CASE j = i /\ n = Len(procs[i].conns) + 1
      <4>1. procs'[j].conns[n] = d
        BY <2>5, <3>1
      <4>2. spc # "aborted" /\ inherited = {} => Own(d)
        BY <1>1 DEF SInv, OwnInv, Alive
      <4>3. Own(procs[j].conns[n])' <=> Own(d)
        BY <2>2, <2>6, <4>1 DEF Own
      <4> QED
        BY <1>1, <2>1, <2>2, <2>3, <3>1, <4>1, <4>2, <4>3
    <3>2. CASE ~(j = i /\ n = Len(procs[i].conns) + 1)
      <4>1. n \in 1..Len(procs[j].conns) /\ procs'[j].conns[n] = procs[j].conns[n]
        <5>1. CASE j # i
          BY <2>3, <5>1
        <5>2. CASE j = i
          <6>1. n \in 1..(Len(procs[i].conns) + 1) /\ n # Len(procs[i].conns) + 1
            BY <2>5, <3>2, <5>2
          <6>2. n \in 1..Len(procs[i].conns)
            BY <2>5, <6>1
          <6> QED
            BY <2>5, <5>2, <6>2
        <5> QED
          BY <5>1, <5>2
      <4>2. /\ procs[j].svc \in {"thin_srv", "remote_rc"} /\ procs[j].st \in {"up", "gone"}
            /\ procs[j].conns[n] \in 1..Len(procs)
            /\ spc # "aborted" /\ inherited = {} /\ procs[j].st # "gone"
                 => Own(procs[j].conns[n])
        BY <4>1 DEF SInv, ClientInv, Alive
      <4>3. Own(procs[j].conns[n])' <=> Own(procs[j].conns[n])
        BY <2>2, <2>6, <4>1 DEF Own
      <4>4. j # d
        BY <1>1, <4>2
      <4> QED
        BY <2>3, <4>1, <4>2, <4>3, <4>4
    <3> QED
      BY <3>1, <3>2
  <2>8. PassedInv'
    <3>1. \A j \in 1..Len(procs) :
            Len(procs[j].conns) >= 1 => /\ Len(procs'[j].conns) >= 1
                                        /\ procs'[j].conns[1] = procs[j].conns[1]
      <4>1. ASSUME Len(procs[i].conns) >= 1
            PROVE  Len(procs'[i].conns) >= 1 /\ procs'[i].conns[1] = procs[i].conns[1]
        BY <2>5, <4>1
      <4>2. ASSUME NEW j \in 1..Len(procs), j # i PROVE procs'[j].conns = procs[j].conns
        BY <2>3, <4>2
      <4> QED
        BY <4>1, <4>2
    <3> QED
      BY <1>1, <3>1, ChainKept DEF SInv, STypeInv
  <2> QED
    BY <2>4, <2>7, <2>8 DEF SInv
<1>5. \/ Becomes(d, "gone")
      \/ \E i \in 1..Len(procs), st \in {"up", "connected"} :
           Listening(i) /\ procs' = [procs EXCEPT ![d].st = st, ![i].conns = Append(@, d)]
  <2>1. (IF procs[d].svc = "daemon_doe" THEN "up" ELSE "connected") \in {"up", "connected"}
    OBVIOUS
  <2> QED
    BY <1>2, <2>1, Zenon DEF Connect
<1> QED
  BY <1>3, <1>4, <1>5, Zenon
-----------------------------------------------------------------------------
(* The steps of the scripts *)

\* The list of the script that runs.
LEMMA ScriptFields ==
  ASSUME STypeInv
  PROVE  /\ script.order \in Seq(Services) /\ Len(script.order) >= 1
         /\ \A k \in 1..Len(script.order) : /\ script.order[k].svc \in Svcs
                                            /\ script.order[k].probe \in Probes
<1>1. script.order \in Seq(Services) /\ Len(script.order) >= 1
  BY ScriptsSound DEF STypeInv, Sound, ServiceList
<1>2. \A k \in 1..Len(script.order) : script.order[k] \in Services
  BY <1>1
<1>3. \A r \in Services : r.svc \in Svcs /\ r.probe \in Probes
  BY DEF Services
<1> QED
  BY <1>1, <1>2, <1>3

\* Who is alive when a script begins was running before.
LEMMA BeginStep == ASSUME SInv, Begin PROVE SInv'
<1>1. /\ spc' = "launch" /\ step' = 1 /\ pids' = {} /\ script' \in Scripts
      /\ UNCHANGED procs /\ inherited' = {i \in DOMAIN procs : Alive(i)}
      /\ DOMAIN procs = 1..Len(procs)
  BY DEF Begin, SInv, STypeInv
<1>2. Len(script'.order) >= 1 /\ Len(script'.order) \in Nat
  BY <1>1, ScriptsSound DEF Sound, ServiceList
<1>3. STypeInv'
  BY <1>1, <1>2 DEF SInv, STypeInv
<1>4. \A i \in 1..Len(procs) : ~Own(i)' /\ (procs[i].st # "gone" => i \in inherited')
  BY <1>1 DEF Own, Alive
<1>5. OwnInv'
  BY <1>1, <1>4 DEF OwnInv, Alive
<1>6. ClientInv'
  BY <1>1, <1>4 DEF SInv, ClientInv, Alive
<1>7. PassedInv'
  BY <1>1 DEF PassedInv
<1>8. EndInv'
  BY <1>1 DEF EndInv
<1> QED
  BY <1>3, <1>5, <1>6, <1>7, <1>8 DEF SInv

\* The next process of the list is the script's; it has no clients.
LEMMA LaunchStep == ASSUME SInv, Launch PROVE SInv'
<1> DEFINE N == Len(procs)
           r == [svc |-> script.order[step].svc, st |-> "new", conns |-> <<>>]
<1>1. /\ spc = "launch" /\ spc' = "record" /\ procs' = Append(procs, r)
      /\ UNCHANGED <<script, step, pids, inherited>> /\ Running /\ Running'
  BY DEF Launch, Running
<1>2. /\ script \in Scripts /\ procs \in Seq(Procs) /\ pids \subseteq 1..N /\ N \in Nat
      /\ step \in 1..Len(script.order) /\ script.order[step].svc \in Svcs
  BY <1>1, ScriptFields DEF SInv, STypeInv
<1>3. r \in Procs /\ r.svc = script.order[step].svc /\ r.st = "new" /\ r.conns = <<>>
  <2>1. <<>> \in Seq(Nat)
    OBVIOUS
  <2> QED
    BY <1>2, <2>1 DEF Procs, States
<1> HIDE DEF r
<1>4. /\ procs' \in Seq(Procs) /\ Len(procs') = N + 1 /\ procs'[N + 1] = r
      /\ \A i \in 1..N : procs'[i] = procs[i]
  BY <1>1, <1>2, <1>3
<1>5. \A i \in 1..(N + 1) : i \in 1..N \/ i = N + 1
  BY <1>2
<1>6. STypeInv'
  BY <1>1, <1>2, <1>4 DEF STypeInv
<1>7. /\ \A i \in 1..N : Own(i)' <=> Own(i)
      /\ \A i : i = N + 1 => Own(i)'
      /\ Launched = step - 1 /\ Launched' = step
  <2>1. \A i \in 1..N : i # N + 1
    BY <1>2
  <2>2. \A i \in 1..N : Own(i)' <=> Own(i)
    BY <1>1, <1>4, <2>1 DEF Own
  <2>3. \A i : i = N + 1 => Own(i)'
    BY <1>1, <1>4 DEF Own
  <2> QED
    BY <1>1, <2>2, <2>3 DEF Launched
<1>8. OwnInv'
  <2>1. \A i \in 1..(N + 1) : procs'[i].st # "gone" => i \in inherited \/ Own(i)'
    BY <1>1, <1>4, <1>5, <1>7 DEF SInv, OwnInv, Alive
  <2>2. \A i \in 1..N : Own(i) => \E k \in 1..(step - 1) :
                                   procs[i].svc = script.order[k].svc
    BY <1>1, <1>7 DEF SInv, OwnInv
  <2>3. \A i \in 1..(N + 1) : Own(i)' => \E k \in 1..step :
                                          procs'[i].svc = script.order[k].svc
    <3> SUFFICES ASSUME NEW i \in 1..(N + 1), Own(i)'
                 PROVE  \E k \in 1..step : procs'[i].svc = script.order[k].svc
      OBVIOUS
    <3>1. CASE i = N + 1
      BY <1>2, <1>3, <1>4, <3>1
    <3>2. CASE i \in 1..N
      <4>1. PICK k \in 1..(step - 1) : procs[i].svc = script.order[k].svc
        BY <1>7, <2>2, <3>2
      <4>2. k \in 1..step
        BY <1>2
      <4> QED
        BY <1>4, <3>2, <4>1, <4>2
    <3> QED
      BY <1>5, <3>1, <3>2
  <2> QED
    BY <1>1, <1>4, <1>7, <2>1, <2>3 DEF OwnInv, Alive
<1>9. ClientInv'
  <2> SUFFICES ASSUME NEW i \in 1..(N + 1), NEW n \in 1..Len(procs'[i].conns)
               PROVE  /\ procs'[i].svc \in {"thin_srv", "remote_rc"}
                      /\ procs'[i].st \in {"up", "gone"}
                      /\ procs'[i].conns[n] \in 1..(N + 1)
                      /\ inherited = {} /\ procs'[i].st # "gone"
                           => Own(procs[i].conns[n])'
    BY <1>1, <1>4 DEF ClientInv, Alive
  <2>1. i \in 1..N
    <3>1. Len(<<>>) = 0
      OBVIOUS
    <3> QED
      BY <1>3, <1>4, <1>5, <3>1
  <2>2. procs'[i] = procs[i]
    BY <1>4, <2>1
  <2>3. /\ procs[i].svc \in {"thin_srv", "remote_rc"} /\ procs[i].st \in {"up", "gone"}
        /\ procs[i].conns[n] \in 1..N
        /\ inherited = {} /\ procs[i].st # "gone" => Own(procs[i].conns[n])
    BY <1>1, <2>1, <2>2 DEF SInv, ClientInv, Alive
  <2>4. procs'[procs[i].conns[n]] = procs[procs[i].conns[n]]
    BY <1>4, <2>3
  <2>5. Own(procs[i].conns[n]) => Own(procs[i].conns[n])'
    BY <1>1, <2>2 DEF Own
  <2> QED
    BY <1>2, <2>2, <2>3, <2>4, <2>5
<1>10. PassedInv'
  BY <1>1 DEF SInv, PassedInv
<1>11. EndInv'
  BY <1>1 DEF EndInv
<1> QED
  BY <1>6, <1>8, <1>9, <1>10, <1>11 DEF SInv

\* Noting a process makes it no less the script's.
LEMMA RecordStep == ASSUME SInv, Record PROVE SInv'
<1>1. /\ spc = "record" /\ spc' = "probe" /\ pids' = pids \cup {Len(procs)}
      /\ UNCHANGED <<script, step, procs, inherited>> /\ Running /\ Running'
  BY DEF Record, Running
<1>2. STypeInv'
  <2>1. Len(procs) \in 1..Len(procs)
    BY <1>1 DEF SInv, STypeInv
  <2>2. pids' \subseteq 1..Len(procs)
    BY <1>1, <2>1 DEF SInv, STypeInv
  <2> QED
    BY <1>1, <2>2 DEF SInv, STypeInv
<1>3. \A i : Own(i)' <=> Own(i)
  BY <1>1 DEF Own
<1>4. Launched' = Launched
  BY <1>1 DEF Launched
<1>5. OwnInv'
  BY <1>1, <1>3, <1>4 DEF SInv, OwnInv, Alive
<1>6. ClientInv'
  <2>1. \A i, n : Own(procs[i].conns[n])' <=> Own(procs[i].conns[n])
    BY <1>1 DEF Own
  <2> QED
    BY <1>1, <2>1 DEF SInv, ClientInv, Alive
<1>7. PassedInv'
  BY <1>1 DEF SInv, PassedInv
<1>8. EndInv'
  BY <1>1 DEF EndInv
<1> QED
  BY <1>2, <1>5, <1>6, <1>7, <1>8 DEF SInv

\* Where nobody else was running, what a script sees in /proc/net/tcp is its
\* own chain.
LEMMA SeenIsChain ==
  ASSUME SInv, spc = "probe", inherited = {}, EstablishedOn5555
  PROVE  Chain
<1>1. procs \in Seq(Procs) /\ DOMAIN procs = 1..Len(procs)
  BY DEF SInv, STypeInv
<1>2. PICK i, d \in 1..Len(procs) : Established(i, d)
  BY <1>1 DEF EstablishedOn5555
<1>3. procs[i].conns \in Seq(Nat) /\ DOMAIN procs[i].conns = 1..Len(procs[i].conns)
  BY <1>1, ProcFields
<1>4. Len(procs[i].conns) >= 1 /\ 1 \in 1..Len(procs[i].conns)
  BY <1>2, <1>3 DEF Established
<1>5. Alive(i)
  BY <1>2 DEF Established, Listening, Alive
<1>6. i \in pids
  BY <1>5 DEF SInv, OwnInv, Own
<1>7. procs[i].conns[1] \in pids
  BY <1>4, <1>5 DEF SInv, ClientInv, Own
<1> QED
  BY <1>4, <1>6, <1>7 DEF Chain

\* A script that goes on to its rescan has seen its daemon connected.
LEMMA ProbeStep == ASSUME SInv, Probe PROVE SInv'
<1>1. /\ spc = "probe" /\ Ready(script.order[step].probe)
      /\ UNCHANGED <<script, pids, procs, inherited>>
      /\ \/ step < Len(script.order) /\ spc' = "launch" /\ step' = step + 1
         \/ ~(step < Len(script.order)) /\ spc' = "remove" /\ script.rescans /\ step' = step
         \/ spc' = "wait" /\ step' = step
  BY DEF Probe
<1>2. /\ step \in 1..Len(script.order) /\ Len(script.order) \in Nat
      /\ script \in Scripts /\ STypeInv /\ Running /\ Running'
  BY <1>1, ScriptFields DEF SInv, STypeInv, Running
<1>3. STypeInv'
  <2>1. step' \in 1..Len(script.order)
    BY <1>1, <1>2
  <2> QED
    BY <1>1, <2>1 DEF SInv, STypeInv
<1>4. \A i : Own(i)' <=> Own(i)
  BY <1>1 DEF Own
<1>5. Launched' = Launched
  BY <1>1, <1>2 DEF Launched
<1>6. spc # "aborted" /\ spc' # "aborted"
  BY <1>1
<1>7. OwnInv'
  BY <1>1, <1>2, <1>4, <1>5, <1>6 DEF SInv, OwnInv, Alive
<1>8. ClientInv'
  <2>1. \A i, n : Own(procs[i].conns[n])' <=> Own(procs[i].conns[n])
    BY <1>1 DEF Own
  <2> QED
    BY <1>1, <1>6, <2>1 DEF SInv, ClientInv, Alive
<1>9. script.order[step].probe # "doe_files"
  BY <1>1 DEF Ready, DoeFiles
<1>10. \A k \in 1..(step - 1) : script.order[k].probe # "doe_files"
  BY <1>2 DEF SInv, PassedInv
<1>11. \A k \in 1..(step' - 1) : script.order[k].probe # "doe_files"
  BY <1>1, <1>2, <1>9, <1>10
<1>12. spc' = "remove" /\ inherited = {} => Chain
  <2> SUFFICES ASSUME spc' = "remove", inherited = {} PROVE Chain
    OBVIOUS
  <2>1. step = Len(script.order) /\ ProbesDaemon(script.order)
    BY <1>1, <1>2, ScriptsSound DEF Sound
  <2>2. script.order[step].probe = "established"
    BY <1>10, <2>1 DEF ProbesDaemon
  <2>3. EstablishedOn5555
    BY <1>1, <2>2 DEF Ready
  <2> QED
    BY <1>1, <2>3, SeenIsChain
<1>13. PassedInv'
  <2>1. Chain' <=> Chain
    BY <1>1 DEF Chain
  <2> QED
    BY <1>1, <1>11, <1>12, <2>1 DEF PassedInv
<1>14. EndInv'
  BY <1>1 DEF EndInv
<1> QED
  BY <1>3, <1>7, <1>8, <1>13, <1>14 DEF SInv

\* The removal of the root port changes nothing here.
LEMMA RemoveStep == ASSUME SInv, Remove PROVE SInv'
<1>1. /\ spc = "remove" /\ spc' = "rescan"
      /\ UNCHANGED <<script, step, pids, procs, inherited>> /\ Running /\ Running'
  BY DEF Remove, Running
<1>2. STypeInv'
  BY <1>1 DEF SInv, STypeInv
<1>3. (\A i : Own(i)' <=> Own(i)) /\ Launched' = Launched
  BY <1>1 DEF Own, Launched
<1>4. OwnInv'
  BY <1>1, <1>3 DEF SInv, OwnInv, Alive
<1>5. \A i, n : Own(procs[i].conns[n])' <=> Own(procs[i].conns[n])
  BY <1>1 DEF Own
<1>6. ClientInv'
  BY <1>1, <1>5 DEF SInv, ClientInv, Alive
<1>7. PassedInv'
  BY <1>1 DEF SInv, PassedInv, Chain
<1>8. EndInv'
  BY <1>1 DEF EndInv
<1> QED
  BY <1>2, <1>4, <1>6, <1>7, <1>8 DEF SInv

\* A cleanup that knows of every process started, or goes by their names,
\* leaves nobody alive but who was running before.
LEMMA CleanupStep ==
  ASSUME SInv, Running, spc # "record", Cleanup, spc' = "idle"
  PROVE  SInv'
<1>1. UNCHANGED <<script, step, pids, inherited>> /\ spc # "aborted" /\ ~Running'
  BY DEF Cleanup, Running
<1>2. /\ procs \in Seq(Procs) /\ script \in Scripts /\ step \in 1..Len(script.order)
      /\ Len(script.order) \in Nat
  BY ScriptFields DEF SInv, STypeInv
<1>3. /\ procs' \in Seq(Procs) /\ Len(procs') = Len(procs)
      /\ \A i \in 1..Len(procs) :
           /\ procs'[i].svc = procs[i].svc /\ procs'[i].conns = procs[i].conns
           /\ procs'[i].st = "gone" \/ procs'[i].st = procs[i].st
           /\ Stopped(i) => procs'[i].st = "gone"
  BY <1>2, CleanupIs
<1>4. \A i \in 1..Len(procs) : procs'[i].st # "gone" => i \in inherited
  <2> SUFFICES ASSUME NEW i \in 1..Len(procs), Alive(i), i \notin inherited PROVE Stopped(i)
    BY <1>3 DEF Alive
  <2>1. Own(i)
    BY <1>1 DEF SInv, OwnInv
  <2>2. CASE script.by_name
    <3>1. PICK k \in 1..Launched : procs[i].svc = script.order[k].svc
      BY <2>1 DEF SInv, OwnInv
    <3>2. k \in 1..Len(script.order)
      BY <1>2 DEF Launched
    <3>3. NoRemoteRc(script.order)
      BY <1>2, <2>2, ScriptsSound DEF Sound
    <3>4. procs[i].svc # "remote_rc"
      BY <3>1, <3>2, <3>3 DEF NoRemoteRc
    <3> QED
      BY <2>2, <3>4 DEF Stopped
  <2>3. CASE ~script.by_name
    BY <2>1, <2>3 DEF Own, Stopped
  <2> QED
    BY <2>2, <2>3
<1>5. STypeInv'
  BY <1>1, <1>3 DEF SInv, STypeInv
<1>6. OwnInv'
  BY <1>1, <1>3, <1>4 DEF OwnInv, Alive
<1>7. ClientInv'
  BY <1>1, <1>3, <1>4 DEF SInv, ClientInv, Alive
<1>8. PassedInv'
  BY <1>1 DEF PassedInv
<1>9. EndInv'
  <2>1. \A i \in 1..Len(procs) : script.by_name /\ procs'[i].st # "gone"
                                   => procs'[i].svc = "remote_rc"
    BY <1>3 DEF Stopped
  <2>2. script.resets => ~redirect'
    BY Zenon DEF Cleanup
  <2> QED
    BY <1>1, <1>3, <2>1, <2>2, Zenon DEF EndInv, Alive
<1> QED
  BY <1>5, <1>6, <1>7, <1>8, <1>9 DEF SInv

\* A script that is ended without a cleanup, or with one that misses the
\* process started last, leaves clients and servers what they are.
LEMMA AbortStep == ASSUME SInv, Abort PROVE SInv'
<1>1. UNCHANGED <<script, pids>> /\ spc' = "aborted" /\ ~Running'
  BY DEF Abort, Cleanup, Running
<1>2. /\ procs' \in Seq(Procs) /\ Len(procs') = Len(procs)
      /\ \A i \in 1..Len(procs) :
           /\ procs'[i].svc = procs[i].svc /\ procs'[i].conns = procs[i].conns
           /\ procs'[i].st = "gone" \/ procs'[i].st = procs[i].st
  <2>1. procs \in Seq(Procs)
    BY DEF SInv, STypeInv
  <2>2. Cleanup \/ UNCHANGED procs
    BY DEF Abort
  <2>3. CASE Cleanup
    BY <2>1, <2>3, CleanupIs
  <2>4. CASE UNCHANGED procs
    BY <2>1, <2>4
  <2> QED
    BY <2>2, <2>3, <2>4
<1>3. STypeInv'
  BY <1>1, <1>2 DEF SInv, STypeInv
<1>4. OwnInv' /\ PassedInv' /\ EndInv'
  BY <1>1 DEF OwnInv, PassedInv, EndInv
<1>5. ClientInv'
  BY <1>1, <1>2 DEF SInv, ClientInv, Alive
<1> QED
  BY <1>3, <1>4, <1>5 DEF SInv
-----------------------------------------------------------------------------
(* Theorems *)

\* No process is there when the first script is run.
LEMMA InitSInv == Init => SInv
<1> SUFFICES ASSUME Init PROVE SInv
  OBVIOUS
<1>1. script \in Scripts /\ spc = "idle" /\ pids = {} /\ procs = <<>> /\ runs = 0
  BY DEF Init
<1>2. procs \in Seq(Procs) /\ Len(procs) = 0
  BY <1>1
<1> QED
  BY <1>1, <1>2 DEF SInv, STypeInv, OwnInv, ClientInv, PassedInv, EndInv, Running

\* No step of a script or a program breaks the invariant.
LEMMA NextSInv == ASSUME SInv, [Next]_vars PROVE SInv'
<1>1. CASE Begin
  BY <1>1, BeginStep
<1>2. CASE Launch
  BY <1>2, LaunchStep
<1>3. CASE Record
  BY <1>3, RecordStep
<1>4. CASE Probe
  BY <1>4, ProbeStep
<1>5. CASE Remove
  BY <1>5, RemoveStep
<1>6. CASE Rescan \/ WaitEnds
  BY <1>6, CleanupStep DEF Rescan, WaitEnds, Running
<1>7. CASE Interrupt
  <2>1. Running /\ Cleanup /\ spc' = "idle" /\ spc # "record"
    BY <1>7 DEF Interrupt, Handled
  <2> QED
    BY <2>1, CleanupStep
<1>8. CASE Abort
  BY <1>8, AbortStep
<1>9. ASSUME NEW i \in DOMAIN procs, ProcStep(i) \/ KernelFails(i) \/ Dies(i) PROVE SInv'
  <2>1. i \in 1..Len(procs)
    BY DEF SInv, STypeInv
  <2> QED
    BY <1>9, <2>1, ProgramStep, ConnectStep DEF ProcStep
<1>10. CASE UNCHANGED vars
  <2>1. UNCHANGED <<script, spc, step, pids, procs, inherited, redirect, runs>>
    BY <1>10 DEF vars, script_vars
  <2>2. STypeInv' /\ (Running' <=> Running)
    BY <2>1 DEF SInv, STypeInv, Running
  <2>3. (\A i : Own(i)' <=> Own(i)) /\ Launched' = Launched
    BY <2>1 DEF Own, Launched
  <2>4. OwnInv'
    BY <2>1, <2>2, <2>3 DEF SInv, OwnInv, Alive
  <2>5. \A i, n : Own(procs[i].conns[n])' <=> Own(procs[i].conns[n])
    BY <2>1 DEF Own
  <2>6. ClientInv'
    BY <2>1, <2>5 DEF SInv, ClientInv, Alive
  <2>7. PassedInv'
    BY <2>1, <2>2 DEF SInv, PassedInv, Chain
  <2>8. EndInv'
    BY <2>1, Zenon DEF SInv, EndInv, Alive
  <2> QED
    BY <2>2, <2>4, <2>6, <2>7, <2>8 DEF SInv
<1> QED
  BY <1>1, <1>2, <1>3, <1>4, <1>5, <1>6, <1>7, <1>8, <1>9, <1>10 DEF Next, ScriptStep

\* However many scripts are run one after the other, whatever was left running,
\* wherever scripts are interrupted and programs die: a script that ends by its
\* cleanup leaves nobody running whom it has started, run_doe2cosim_improved.sh
\* nobody of an earlier script either, remote-rc apart, and the redirect is
\* switched off if the script says so.
THEOREM StopIsClean == Spec => []CleanStop
<1>1. SInv => CleanStop
  <2> SUFFICES ASSUME SInv PROVE CleanStop
    OBVIOUS
  <2>1. DOMAIN procs = 1..Len(procs)
    BY DEF SInv, STypeInv
  <2>2. spc = "idle" => \A i \in DOMAIN procs : Alive(i) => i \in inherited
    BY <2>1 DEF SInv, OwnInv, Running
  <2>3. EndInv
    BY DEF SInv
  <2> QED
    BY <2>1, <2>2, <2>3, Zenon DEF EndInv, CleanStop
<1>2. SInv /\ [Next]_vars => SInv'
  BY NextSInv
<1> QED
  BY <1>1, <1>2, InitSInv, PTL DEF Spec

\* And a script that found nobody running rescans the bus on its own chain: the
\* client its server has accepted is a process it has started, although the
\* probe looks for some connection in /proc/net/tcp, and the connection stands
\* at the rescan unless one of the two has ended since the probe.
THEOREM OwnChain == Spec => []RescanOnOwnChain
<1>1. SInv => RescanOnOwnChain
  <2> SUFFICES ASSUME SInv, spc = "rescan", inherited = {}
               PROVE  \E i, d \in pids :
                        /\ procs[i].conns # <<>> /\ Head(procs[i].conns) = d
                        /\ Alive(i) /\ Alive(d) => Established(i, d)
    BY DEF RescanOnOwnChain
  <2>1. PICK i, d \in pids : Len(procs[i].conns) >= 1 /\ procs[i].conns[1] = d
    BY DEF SInv, PassedInv, Chain
  <2>2. i \in 1..Len(procs) /\ procs \in Seq(Procs)
    BY DEF SInv, STypeInv
  <2>3. /\ procs[i].conns \in Seq(Nat) /\ 1 \in 1..Len(procs[i].conns)
        /\ DOMAIN procs[i].conns = 1..Len(procs[i].conns)
    BY <2>1, <2>2, ProcFields
  <2>4. procs[i].conns # <<>> /\ Head(procs[i].conns) = d
    BY <2>1, <2>3
  <2>5. procs[i].svc \in {"thin_srv", "remote_rc"} /\ procs[i].st \in {"up", "gone"}
    BY <2>2, <2>3 DEF SInv, ClientInv
  <2>6. Alive(i) => Listening(i)
    BY <2>5 DEF Alive, Listening
  <2>7. Alive(i) /\ Alive(d) => Established(i, d)
    BY <2>1, <2>3, <2>6 DEF Established
  <2> QED
    BY <2>4, <2>7
<1>2. SInv /\ [Next]_vars => SInv'
  BY NextSInv
<1> QED
  BY <1>1, <1>2, InitSInv, PTL DEF Spec
=============================================================================
