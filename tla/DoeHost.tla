------------------------------ MODULE DoeHost ------------------------------
(***************************************************************************)
(* A host that drives the mailbox: it walks the DOE Discovery table and    *)
(* then asks the SPDM questions, one exchange after the other, in the      *)
(* order of accesses that doe-emu.c records as its expected log.  The host *)
(* is the kernel's DOE driver, which is not part of the repository.  A     *)
(* register access is one step: the relay answers one before the host      *)
(* makes the next.                                                         *)
(***************************************************************************)
EXTENDS DoeEmu

CONSTANTS Base,          \* where the capability really is in config space
          SpdmRequests,  \* payload dwords of the SPDM requests, in order
          NextInDword3,  \* TRUE: the host takes the next index from response
                         \* dword 3; FALSE: from bits 31:24 of dword 2, as
                         \* pci_regs.h lays the response out
          MaxAborts,     \* exchanges the host may give up and start again
          MaxRestarts,   \* times doe-emu may be started again
          RestartAt      \* accesses of the host before which it may be

\* Where the host may stand in an exchange.
Running == {"abort", "check", "write", "go", "poll", "read", "recheck", "ack",
            "final"}

ASSUME HostAssumption ==
  /\ Base \in Nat
  /\ SpdmRequests \in Seq(Dword)
  /\ NextInDword3 \in BOOLEAN
  /\ MaxAborts \in Nat
  /\ MaxRestarts \in Nat
  /\ RestartAt \subseteq Running

VARIABLES pc,         \* the next access of the host
          job,        \* the request in progress: its header and its payload
          sent,       \* words of the request written so far
          got,        \* words of the response taken so far
          walked,     \* protocol words discovered, in order
          asked,      \* SPDM requests answered
          aborts, restarts

host == <<pc, job, sent, got, walked, asked, aborts, restarts>>
vars == <<emu, host>>

Discovery(index) == << Header(DOE_VID_PCISIG, DOE_TYPE_DISC), index >>
Spdm(payload)    == << Header(DOE_VID_PCISIG, DOE_TYPE_CMA_SPDM), payload >>

\* The request object: two header dwords, the second its length, and a payload.
Words(j) == << j[1], 3, j[2] >>

HostInit == /\ EmuInit
            /\ pc = "abort"
            /\ job = Discovery(0)
            /\ sent = 0
            /\ got = <<>>
            /\ walked = <<>>
            /\ asked = 0
            /\ aborts = 0
            /\ restarts = 0

ReadReg(reg)       == Serve(Transaction(1, 0, Base + reg, 0))
WriteReg(reg, val) == Serve(Transaction(1, 1, Base + reg, val))
-----------------------------------------------------------------------------
\* Clear the mailbox before the first exchange, or after one given up.
WriteAbort ==
  /\ pc = "abort"
  /\ WriteReg(DOE_REG_CTRL, 1)
  /\ pc' = "check"
  /\ sent' = 0
  /\ got' = <<>>
  /\ UNCHANGED <<job, walked, asked, aborts, restarts>>

CheckIdle ==
  /\ pc = "check"
  /\ ReadReg(DOE_REG_STATUS)
  /\ pc' = IF rsp'.data = DOE_STATUS_IDLE THEN "write" ELSE "failed"
  /\ UNCHANGED <<job, sent, got, walked, asked, aborts, restarts>>

WriteWord ==
  /\ pc = "write"
  /\ WriteReg(DOE_REG_WRITE, Words(job)[sent + 1])
  /\ sent' = sent + 1
  /\ pc' = IF sent' = 3 THEN "go" ELSE "write"
  /\ UNCHANGED <<job, got, walked, asked, aborts, restarts>>

WriteGo ==
  /\ pc = "go"
  /\ WriteReg(DOE_REG_CTRL, DOE_STATUS_DATA_OBJECT_READY)   \* bit 31 alone
  /\ sent' = 0
  /\ pc' = "poll"
  /\ UNCHANGED <<job, got, walked, asked, aborts, restarts>>

\* A mailbox that shows neither an object nor an error is polled until the
\* driver's deadline, and then aborted.
Poll ==
  /\ pc = "poll"
  /\ ReadReg(DOE_REG_STATUS)
  /\ pc' = CASE rsp'.data = DOE_STATUS_DATA_OBJECT_READY -> "read"
             [] rsp'.data = DOE_STATUS_ERROR -> "failed"
             [] OTHER -> "abort"
  /\ UNCHANGED <<job, sent, got, walked, asked, aborts, restarts>>

ReadWord ==
  /\ pc = "read"
  /\ ReadReg(DOE_REG_READ)
  /\ got' = Append(got, rsp'.data)
  /\ pc' = "recheck"
  /\ UNCHANGED <<job, sent, walked, asked, aborts, restarts>>

\* The host looks at STATUS between a word and its acknowledgement.
Recheck ==
  /\ pc = "recheck"
  /\ ReadReg(DOE_REG_STATUS)
  /\ pc' = IF rsp'.data = DOE_STATUS_DATA_OBJECT_READY THEN "ack" ELSE "failed"
  /\ UNCHANGED <<job, sent, got, walked, asked, aborts, restarts>>

\* It acknowledges as many words as header dword 1 announces.
AckWord ==
  /\ pc = "ack"
  /\ WriteReg(DOE_REG_READ, 0)
  /\ pc' = IF Len(got) >= 2 /\ Len(got) >= got[2] THEN "final" ELSE "read"
  /\ UNCHANGED <<job, sent, got, walked, asked, aborts, restarts>>

NextIndexOf(words) ==
  IF NextInDword3 THEN words[4] ELSE (words[3] \div 16777216) % 256

\* After a discovery answer comes the next index, until it is 0; then SPDM.
Conclude ==
  LET discovery == TypeOf(job[1]) = DOE_TYPE_DISC
      next      == NextIndexOf(got)
  IN /\ walked' = IF discovery THEN Append(walked, got[3]) ELSE walked
     /\ asked' = IF discovery THEN 0 ELSE asked + 1
     /\ got' = <<>>
     /\ IF discovery /\ next # 0
          THEN job' = Discovery(next) /\ pc' = "check"
          ELSE IF asked' < Len(SpdmRequests)
            THEN job' = Spdm(SpdmRequests[asked' + 1]) /\ pc' = "check"
            ELSE pc' = "done" /\ UNCHANGED job

Final ==
  /\ pc = "final"
  /\ ReadReg(DOE_REG_STATUS)
  /\ IF rsp'.data = DOE_STATUS_ERROR
       THEN pc' = "failed" /\ UNCHANGED <<job, got, walked, asked>>
       ELSE Conclude
  /\ UNCHANGED <<sent, aborts, restarts>>

HostStep == \/ WriteAbort \/ CheckIdle \/ WriteWord \/ WriteGo \/ Poll
            \/ ReadWord \/ Recheck \/ AckWord \/ Final

\* The host gives the exchange up (a signal, say) and starts it again.
GiveUp ==
  /\ pc \in Running \ {"abort"}
  /\ aborts < MaxAborts
  /\ aborts' = aborts + 1
  /\ pc' = "abort"
  /\ UNCHANGED <<emu, job, sent, got, walked, asked, restarts>>

Restart ==
  /\ pc \in RestartAt
  /\ restarts < MaxRestarts
  /\ restarts' = restarts + 1
  /\ EmuRestart
  /\ UNCHANGED <<pc, job, sent, got, walked, asked, aborts>>

\* The host has finished: nothing touches the mailbox any more.
Finished == pc \in {"done", "failed"} /\ UNCHANGED vars

HostNext == HostStep \/ GiveUp \/ Restart \/ Finished

\* The driver keeps running until it is done.
HostSpec == HostInit /\ [][HostNext]_vars /\ WF_vars(HostStep)
-----------------------------------------------------------------------------
(* Properties *)

\* Whatever exchange was given up, and wherever in it, the words the host has
\* taken when it has acknowledged the last are the answer to the request it
\* sent, and the mailbox is idle again.
ResponseAnswersRequest ==
  pc = "final" => /\ got = Abstract!Answer(Words(job))
                  /\ status = DOE_STATUS_IDLE
                  /\ Response = <<>>

\* Every protocol of the table is advertised: a host that follows the next
\* index until it is 0 has met each entry of protocols[] once, in order.
WalkReportsAllProtocols ==
  pc = "done" => walked = [i \in 1..NUM_PROTOCOLS |-> ProtocolWord(i - 1)]

\* The emulator has found the capability where it is, so that it takes every
\* access for the register the host meant.
CapBaseIsBase == cap_detected => cap_base = Base

\* The driver never meets a status it has no answer for, and comes to the end
\* of the walk and of the SPDM exchanges.
ExchangesComplete == <>(pc = "done")
=============================================================================
