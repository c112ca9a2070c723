# remote-rootport: specifications

TLA+ models of the programs that carry the DOE (Data Object Exchange) mailbox
of a PCI root port out of the kernel to an emulator, TLC configurations that
check them on small instances, and TLAPS proofs of every safety property those
configurations check: of the mailbox, of a driver that uses it, of the loops that
move an operation over TCP, of the two chains between kernel and emulator, and of
the scripts that start and stop them.

## The system

    kernel DOE driver ── /dev/avery_doe_chardev0 ── daemon-doe
                                                       │ TCP :5555
                                                  thin-server
                                                       │ request_server_pipe
                                                       │ reply_server_pipe
                                                    doe-emu

`daemon-doe-netlink` can take the place of `daemon-doe`, over a generic netlink
family; `remote-rc` can take the place of thin-server and doe-emu, answering by
itself. Five scripts start one chain or the other, have the kernel rescan the
PCI bus, and stop it.

| part | state | operations | hard behaviour |
|---|---|---|---|
| `doe-emu.c`, mailbox | `struct doe`: status, request and response buffers, three cursors | `reg_read`, `reg_write` (ABORT, GO, WRITE, READ acknowledgement), `doe_process`, discovery, SPDM | buffers never cleared, cursors moved by the host, errors over unread responses |
| `doe-emu.c`, process | `cap_base`, `cap_detected` | `run`, `main` | position of the capability guessed from the first read; all state lost on restart |
| `thin-server.c` | `seq`, one client, the pipes | `open_pipes`, accept, `serve` | replies not matched with requests; blocks without timeout |
| `daemon-doe.c` | one operation under way | poll, read, `send_all`, `recv_all`, write | exits on any error with an operation in hand |
| `daemon-doe-netlink.c` | the same over netlink | `nl_recv_request`, `nl_send_response` | ignores results of send and recv |
| `remote-rc.c` | none | answers each operation | one client |
| `run*.sh`, `run_doe2cosim.py` | process ids, `/proc` switches | start in some order, probe, rescan, stop | races and waits on conditions that cannot come true |

The kernel driver is not part of the repository. It accesses one register at a
time and waits for the answer; it is modelled from the access order that
`doe-emu.c` records at its end (lines 471-502), and marked external.

## Modules

| module | models | state and actions |
|---|---|---|
| `DoeProtocol` | the data objects: headers, `protocols[]`, the SPDM byte strings and how `spdm_finish` packs them | operators only |
| `DoeMailboxSpec` | what a mailbox promises (abstract) | `status`, `request`, `response`; collect, abort, submit, acknowledge |
| `DoeMailbox` | `struct doe` and the handlers | the fields of the struct; one action per kind of register write |
| `DoeEmu` | one turn of `run()` around the mailbox | adds `cap_base`, `cap_detected` and the last reply; `SkipWrite`, `Access`, `EmuRestart` |
| `DoeHost` | a driver that walks discovery and asks SPDM questions | one action per register access; gives exchanges up; doe-emu restarts |
| `RegisterAccess` | what the chain promises the kernel (abstract) | issue, perform once and in order, return, abandon |
| `Relay` | daemon-doe, thin-server, doe-emu, TCP and the pipes | one program counter per process, one action per blocking call; start, exit, kill, stop all |
| `MessageChannel` | what the transfer loops promise (abstract) | offer a message, take a whole one, in order |
| `Stream` | `send_all`/`xrecv` and `xsend`/`recv_all` on one direction of a connection | the pointer and count of the sending loop, the bytes under way, the receiver's buffer; one action per call that moves bytes, per error, per death |
| `Netlink` | daemon-doe-netlink, remote-rc, TCP, the kernel's side of the family | a program counter per process; one action per blocking call; TCP's error state, because it decides between an ignored error and SIGPIPE |
| `Startup` | the five scripts, each over both mechanisms, and what each program does before its main loop | a script is a record (start order with probes, when and how it cleans up); one action per start, per process id noted, per probe, for removal, rescan and interrupt, per `mkfifo`/`bind`/`connect`/`open`/registration, per death |
| `DoeMailboxProofs` | the proofs about `DoeMailbox`: its invariants, and that it implements `DoeMailboxSpec` | |
| `DoeHostProofs` | the proofs about `DoeHost` and `DoeEmu` | |
| `RelayProofs`, `RelayRefinement` | the proofs about `Relay`: replies match, and it implements `RegisterAccess` | |
| `NetlinkProofs`, `NetlinkAnswers` | the proofs about `Netlink`: which answer goes to which request, and how many are false | |
| `StreamProofs`, `StartupProofs` | the proofs about `Stream` and `Startup` | |
| `MC*` | the instances for TLC | |

A dword is the two's complement reading of a `uint32_t` (0x80000000 is
-2147483648), because TLC's integers have 32 bits. GO is the sign, ABORT the
parity. The request and the response buffer are both `DOE_BUF_DWORDS` = 68
long in the code; the model has a constant for each, so that TLC can fill the
one without making the other shorter than a response.

A definition whose name begins with `Mut` is a mistaken variant of the one
after it. No specification uses them: each shows that a property notices the
mistake.

## Runs

`mailbox` (157,857 states). A host writes any of seven dwords to any register
in any order. They include both headers, an index on and off the table, the
longest SPDM request, ABORT, GO, and both bits at once. `REQ_DWORDS` = 3 is the
shortest buffer that takes a supported request, so requests also overflow it.
`RSP_DWORDS` = 12 exceeds the longest response, 11, by one. Checked: types,
`StatusMatchesResponse`, `LengthHeaderMatches`, and `ImplementsMailbox`, the
refinement of `DoeMailboxSpec`. The refinement is what shows that no stale
word of either buffer is ever visible.

`host` (5,340 states). The whole walk and four SPDM requests, of which one is
not supported, with two exchanges given up and two restarts of doe-emu. A
restart may come before every access except those where the driver is taking
words of a response (`MCRestartAt`). The answers are right
(`ResponseAnswersRequest`), all four protocols are met once and in order
(`WalkReportsAllProtocols`), the capability is where the emulator thinks it is
(`CapBaseIsBase`), and the driver gets to the end (`ExchangesComplete`).

`relay` (282,204 states). Three accesses out of three kinds, three
connections, two processes killed, everything stopped once. Nothing is running
at first; processes start in any order. Checked: the reply thin-server takes
is to its own request (`ReplyMatchesRequest`); the chain is an atomic register
access (`ImplementsAccess`); an access returns unless a process is missing or
took the access with it (`AccessReturns`); a daemon notices that its server is
gone (`LostServerNoticed`). Three accesses give a late reply, the access that
would take it and one more to see the effect; a third connection lets one
daemon die, its successor sit in the backlog, and another replace it. The
system may stop for good (an emulator killed with a request in hand leaves
thin-server in `read`), so deadlock is not checked.

thin-server may be killed in that run anywhere except between its write and its
read (`MCKillServerAt`). With "read" in that set `ImplementsAccess` fails: the
new thin-server finds the reply to the old request in the pipe, which doe-emu
keeps alive, and passes it off as the answer to its first request; every later
answer is then one behind. No text in the repository says otherwise, so this is
recorded as a hazard (`thin-server.c:150`) and not as a finding.

`netlink` (135,539 states). Five requests, three daemons one after the other,
three kills of daemon or server. The kernel may make a request without having
the answer to the last. Checked: what it is sent under a number is the
operation of that number (`AnswerIsOfItsRequest`), which is all it can match
by; the daemon, which looks at the result of neither `send` nor `recv`, hands
at most two requests back as their own answers (`FalseAnswersBounded`), and
never a true answer after a false one (`FalseAnswersLast`); a request to a
living daemon is answered one way or the other (`RequestReturns`). Two is tight:
a server that ends with nothing unread gives the daemon an end of file at `recv`,
and the first `send` after it still succeeds. A `recv` that reports a reset, or a
`send` that draws one, leaves room for one false answer only. Five requests leave room for true answers, two false ones and a
request that meets SIGPIPE. Processes may all be down at the end, so deadlock is
not checked.

`stream` (752 states). Operations of five bytes over a connection that holds
four, so that none fits at once and every split occurs; four operations let the
pieces of neighbours meet in the connection and the buffer. Either end dies
anywhere. Checked: `ImplementsChannel`, the refinement of `MessageChannel`;
an operation sent is taken (`SentIsTaken`), the sending loop ends
(`SendReturns`), and a receiver left in the middle of an operation gives up
(`EndNoticed`). Both ends may be gone at the end, so deadlock is not checked.

`startup` (295,666 states). Two scripts run one after the other, any of the five
(`run_doe2cosim_improved.sh` over both mechanisms, the others over one), with and
without pipes left by an earlier run. A script may be interrupted in every state,
and one program may die in every state, or find no device or no family. What an
interrupted script leaves running meets the next one (`inherited`). Checked:

* `RescanOnOwnChain`: a script that found nobody running rescans the bus on its
  own chain. The client its server has accepted is its own daemon, although the
  probes look at the port alone, and the connection stands unless one of the two
  has ended since the probe. The scripts do not look again after the probe,
  although they sleep twice before the rescan, so more than this does not hold.
  Nor does it for a script that finds a server of an earlier one on the port.
* `CleanStop`: a script that ends by its cleanup leaves nobody running whom it has
  started, and `run_doe2cosim_improved.sh`, which goes by names, nobody else's
  service either, remote-rc apart.
* `StuckOnlyIfDied`: a script hangs in a probe only if a service it started is gone.
* `ImprovedCompletes`: with the pipes in place and nobody running,
  `run_doe2cosim_improved.sh` gets to its rescan.

Two runs suffice for what one leaves to the next. An interrupt ends a script in
one of two ways. Where its cleanup knows of every process it has started
(`Handled`) the cleanup is run, and the script is "idle" again. Elsewhere
(`Abort`) there is no cleanup yet, or it misses the process started last: in
`run_doe2cosim.py` because `self.proc` is not assigned, in
`run_doe2cosim_improved.sh` because `pkill` does not find a child that is still a
copy of the shell. `Record` stands for the assignment of the process id, and after
the last start for the `trap` line that follows it too; an interrupt between the
two has the effect of one before both. The scripts end, so deadlock is not
checked.

With all ten combinations of script and mechanism and two deaths the same four
properties hold (1,603,684 states); the run has six combinations and one death to
stay short.

Six runs show where the code departs from a text in the repository.

* `pci_regs_walk`: a driver that takes the next index from bits 31:24 of
  response dword 2, where `pci_regs.h:1137` has it, ends the walk after one
  protocol. `doe_handle_discovery` puts it into a fourth dword.
* `restart_anywhere`: doe-emu restarted while the driver is taking words takes a
  read of READ for a read of STATUS, and `cap_base` is 8 too high for good. The
  comment at `doe-emu.c:403` says it is detected from the first STATUS read.
* `startup_fresh`: `run_doe2cosim_improved.sh` in an empty pipe directory waits
  for ever. Its comment at line 36 says doe-emu creates the pipes; doe-emu only
  opens them, and exits.
* `startup_python`: `run_doe2cosim.py` starts the daemon first and waits for
  LISTEN; the daemon has nobody to connect to and exits. Line 185 says it starts
  the relay stack.
* `startup_race`: `run_doe2cosim.sh` starts doe-emu without waiting for the
  pipes; doe-emu may exit and the bus is rescanned without it. Line 27 says
  doe-emu opens the pipes and replaces the root port.
* `startup_interrupt`: `run_doe2cosim.sh` sets its trap after the services are
  started; ended earlier, it leaves them running (`ReliableCleanup`). Line 47 says
  the trap makes the cleanup reliable if the script crashes.

Also noticed: `doe-emu.c:29` explains 68 as "2 headers + 256/4 payload", which
is 66. Nothing depends on it. `protocols[]`, "Supported protocols advertised via
DOE Discovery" (`doe-emu.c:100`), lists CXL table access (line 105), but
`doe_process` answers such a request with the error bit (lines 271-274); `Supported`
in `DoeMailboxSpec` follows `doe_process`. `daemon-doe-netlink` connects before it
looks up its family and registers (`daemon-doe-netlink.c:244-258`), so the
connection a script has seen may be that of a daemon which is not registered at
the rescan, or has exited.

### Fairness

`host`: the driver's next access is always made (`WF_vars(HostStep)`); giving
up and restarts are not forced. `relay`: weak fairness for each of the three
processes, which only says that the operating system schedules a process that
is not blocked. Starts, kills and the kernel's accesses are not fair. `netlink`
and `stream` are alike: the daemon and the server, the sending and the receiving
loop. `startup`: the script goes on when it can, and so do the programs it has
started, taken together (each has a fixed number of steps to take); interrupts
and deaths are not fair.

## Proofs

`DoeMailboxProofs` proves, for all buffer sizes with `REQ_DWORDS >= 3` and
`RSP_DWORDS >= 11` and every set of dwords a host may write, that

* `TypeCorrect`: `Spec => []TypeOK`;
* `StatusSound`: `Spec => []StatusMatchesResponse`;
* `LengthHeaderSound`: `Spec => []LengthHeaderMatches`.

The inductive invariant is the conjunction `IInv` of the three. `TypeOK` is
inductive alone and the other two are relative to it. The argument rests on one
notion, `WellFormed`: a response is 3 to 11 dwords and the second is their
number. `DiscoveryWellFormed` and `SpdmWellFormed` prove it of every answer,
the latter through the lemma that the byte strings pack into dwords.
`HandlersWellFormed` concludes that a submission either fails or stores a
well-formed response, and `NextIInv` goes through the register writes one by
one. The `mailbox` run checks the same invariants on one instance.

It also proves, under the same assumptions, `MailboxImplemented`:
`Spec => ImplementsMailbox`. The mapping reads the request and the response off
the buffers: the first `req_len` words of the one, the words of the other from
`rsp_idx` up to `rsp_len`. There is one lemma for each kind of register write
that changes what the mapping shows. `GoSimulates` is the heart: every word
`doe_process` looks at is a word of the request (`SupportedRequest`), and what
`Respond` stores is read back whole whatever lay in the buffer before
(`RespondResponse`). Types are the only invariant it needs.

`StreamProofs` proves, for every operation size, capacity of the connection and
number of operations, `LoopsImplementChannel`: `Spec => ImplementsChannel`. The
refinement mapping is the identity on `offered`, `taken` and `last`. The
invariant `IInv` says what the bytes between the two loops are: while the
receiver lives, `buf` holds the bytes from `taken` on, `wire` those after them,
and where they end is the sender's pointer `p`; `p + len` is `offered`. With it
a receive that fills the buffer is a `Take` of the very message at `taken`.
`PieceSent` and `PieceReceived` preserve it for a piece of any length, by lemmas
on appending to and splitting a run of consecutive numbers.

`NetlinkProofs` proves `AnswersMatch`: `Spec => []AnswerIsOfItsRequest`, for any
number of requests, connections and kills. Nothing in the protocol between
daemon and server identifies a request, so the invariant has to say that there
is never more than one to confuse: on the daemon's connection nothing is under
way (`Quiet`) except between its `send` and its `recv`, when at most one
operation is, in one direction, in the server or in the other direction, and it
is that of the request in hand (`Carries`). A daemon whose `recv` fails keeps
its own operation, which has the right number too. `ServerInv` is there because
a new server must not find what an old one left.

`NetlinkAnswers` goes on from there to the answers that are false: a daemon that
looks at no result hands a request back as its own answer once its server is
gone. For any number of requests, connections and kills it proves

* `FalseAnswersAreFew`: `Spec => []FalseAnswersBounded`, at most two of them on a
  connection;
* `FalseAnswersAreLast`: `Spec => []FalseAnswersLast`, no true answer after them.

Neither is inductive. `FalseInv` says when a false answer can be given: on a
connection that is dead, that is closed by the server with nothing left to
receive; one with the socket still whole, at an end of file, and one with the
socket broken by a reset. A later `send` raises SIGPIPE. `OrderInv` orders the requests still in the
netlink socket, the one in hand and those answered on this connection by their
numbers, so that a new answer is the last; `DownInv` says that what the server
sends has been filled in by it. Cardinality enters only at the end: the
invariant counts by naming (`AtMostTwo`), and the library's facts on finite sets
turn that into the bound.

`DoeHostProofs` proves, for all buffer sizes as above, any place of the
capability, any SPDM requests, and any number of exchanges given up and of
restarts,

* `CapBaseDetected`: `HostSpec => []CapBaseIsBase`;
* `ResponsesAnswer`: `HostSpec => []ResponseAnswersRequest`;
* `WalkComplete`: `HostSpec => []WalkReportsAllProtocols`, for a driver that takes
  the next index from the fourth dword (`NextInDword3`).

All three assume `RestartsElsewhere`: doe-emu is not restarted where the driver
is about to read or to acknowledge a word. This is needed: `restart_anywhere`
shows what happens otherwise, and `pci_regs_walk` what becomes of the walk of
the other driver. The proof allows more than the `host` run, namely a restart
between a word and the look at STATUS after it. The invariant `HInv` adds to the
mailbox's `IInv` what driver and mailbox know of each other at each access
(`StageInv`): how many words of the request are in `req_buf`, that `rsp_buf`
holds the answer and `rsp_idx` is where the driver is, or that the process was
restarted and is idle (`CapInv`), which the driver learns from its next read of
STATUS. `WalkInv` relates the index asked for to the part of the table walked.

`RelayProofs` and `RelayRefinement` prove, for any accesses and any number of them,
of connections, of kills and of stops,

* `RepliesMatch`: `RelaySpec => []ReplyMatchesRequest`;
* `AccessIsAtomic`: `RelaySpec => ImplementsAccess`, the refinement of
  `RegisterAccess`.

Both assume `"read" \notin KillServerAt`: thin-server is not killed between its
write and its read. This is needed, as said under `relay`. For the first the
invariant `PipesInv` suffices: the pipes and the emulator are empty unless
thin-server is in `read`, and then hold at most one transaction together, the
one thin-server has just written (`OneUnderWay`).

For the second the whole way of an access has to be followed. In the mapping the
kernel waits unless it is idle, and the last answer is doe-emu's last reply with
the number of the access it was for; `EmuServe` is where an access is performed,
`DaemonWrite` where it returns. Performing needs that the access in the
emulator is not performed yet and that nothing earlier is still to come;
returning needs that what the daemon has in hand is the answer to the kernel's
access and to no other. `RInv` has, besides `IInv` and `PipesInv`,

* `OrderInv` and `QueueInv`: an access is in the kernel or the daemon, on a
  connection, or in thin-server and behind it, and later places hold earlier
  accesses. Connections made later carry later ones, and those before the
  server's client carry none, because a server that ends takes its backlog along;
* `EndsInv`: the daemon's connection is the last one made, and all others are
  closed at the daemon's end, so an answer to a daemon that is gone goes nowhere;
* `DaemonInv`: what a waiting daemon waits for is its own access on the way
  there, in the server, or its answer on the way back, or it is lost; and an
  answer is there only if the kernel's access is the last one performed;
* `PendingInv`: accesses not performed are later than the last one performed.

There is one lemma for each action, and four short ones (`EndsKept` and so on) for
what most actions leave alone. The lemmas for kernel, daemon and
thin-server are in `RelayProofs`; those for doe-emu, which need the mailbox's
`IInv`, and the refinement are in `RelayRefinement`. `RInv` was checked with TLC
on the instance of `relay` before it was proved.

`StartupProofs` proves, for any number of scripts run one after the other, of
programs that die and of interrupts, in every state, and whatever earlier scripts
have left running,

* `StopIsClean`: `Spec => []CleanStop`;
* `OwnChain`: `Spec => []RescanOnOwnChain`.

That the scripts are those of the repository is an assumption on the constant
`Scripts`, from which `ScriptsSound` draws what the proof uses: a script that
stops processes by name starts none it does not name, and the last probe before a
rescan is for the daemon's connection, or is never reached. The invariant `SInv`
says that whoever lives was running before or was started by the script that runs
(`OwnInv`), which an aborted script gives up and the next one restores by taking
stock; that only a server which listens, or did so, has clients, and that they are
of the script that runs if nobody was there before (`ClientInv`); that a script
past its last probe has seen its chain (`PassedInv`), which no step undoes because
a server's first client stays the first, dead or alive; and what the last cleanup
has left (`EndInv`). However a script ends otherwise, `startup_interrupt` shows
that processes may be left.

Only model-checked: the liveness properties, which are outside the prover's
reach (`ExchangesComplete`, `AccessReturns`, `LostServerNoticed`, `RequestReturns`,
`SentIsTaken`, `SendReturns`, `EndNoticed`, `StuckOnlyIfDied`,
`ImprovedCompletes`), and the departures from the texts of the repository.

## Bounds

`MaxAborts`, `MaxRestarts` (DoeHost), `MaxOps`, `MaxCrashes`, `MaxStops`,
`MaxConns` (Relay), `MaxOps`, `MaxConns`, `MaxKills` (Netlink), `MaxMsgs`
(Stream), `MaxRuns`, `MaxDeaths` (Startup; programs killed and programs the kernel
fails) bound how often something happens; they appear in guards only. The number of packets thin-server counts in `seq` is bounded by `MaxOps`;
`seq` wraps in the code, but nobody reads it.

## Not modelled

* The exit of `run()` on QUIT_SIM_MASK: thin-server zeroes `control_status`.
* Bytes on the pipes: a transaction (344 bytes) is below PIPE_BUF and moves as a
  whole; the loops around `read` and `write` have the text of those in `Stream`.
  `Relay` and `Netlink` move whole operations.
* remote-rc taking a part of an operation for the whole (`recv` with MSG_WAITALL
  returns what there is at the end of the connection): the netlink daemon gives
  an operation to one call of `send`.
* The fields of `simics_transaction_t` that nobody reads, and `op.status`,
  which is always `cmp_status` = 0.
* A read or write error of the character device ends the daemon as a kill does.
* What the kernel does with an answer that comes after it has given up.
* The layout of netlink messages: `Netlink` keeps the command, the sequence number
  and whose values the operation has. The lookup of the family id is in `Startup`
  (`Register`, `KernelFails`) and not in `Netlink`.
* In `Startup`: the two `mkfifo` calls are one step, a signal ends a process at
  once, and the checks of declared dependencies, which the lists in the scripts
  always pass, are left out. So are the `native` command, which starts nothing, and
  a mechanism that is neither chardev nor netlink. The root port itself is not in
  the model: its removal is a step that only takes time.
* Logging, the build, `trace.sh`.
* `src/include/` and `src/include_wa_kernel_headers/`: headers of the Linux
  kernel, some 200,000 lines of declarations, of which the programs use
  `avery_doe.h` and a few constants of `pci_regs.h`. They have no behaviour to
  model, and are why the share of the repository's lines that the models stand
  for is small; of the programs and scripts themselves little is left out.
