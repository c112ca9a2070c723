--------------------------- MODULE DoeHostProofs ---------------------------
(***************************************************************************)
(* Proofs about the host and the doe-emu process: for buffers of any size, *)
(* any place of the capability, any SPDM requests, and any number of       *)
(* exchanges given up and of restarts.  doe-emu is not restarted where the *)
(* host is about to read or acknowledge a word: there the run that allows  *)
(* it shows that cap_base goes wrong.                                      *)
(***************************************************************************)
EXTENDS DoeHost, DoeMailboxProofs

\* Restarts between a word and the look at STATUS that follows it are allowed.
RestartsElsewhere == RestartAt \cap {"read", "ack"} = {}

\* What answers a request of the host.
AnswerTo(j) ==
  IF TypeOf(j[1]) = DOE_TYPE_DISC THEN DiscoveryResponse(LowByte(j[2]))
                                  ELSE SpdmResponse(TypeOf(j[1]), j[2])
-----------------------------------------------------------------------------
(* The inductive invariant *)

\* A process that has not detected the capability is as main() left it.
CapInv ==
  /\ cap_detected => cap_base = Base
  /\ ~cap_detected => status = DOE_STATUS_IDLE /\ req_len = 0

\* The host asks for an entry of the table or for one of the SPDM requests.
JobInv ==
  /\ asked \in Nat
  /\ \/ \E k \in 0..3 : job = Discovery(k)
     \/ \E p \in Dword : job = Spdm(p)

\* req_buf holds the words sent, rsp_buf the answer, the host its beginning.
Sent  == req_len = sent /\ \A i \in 1..sent : req_buf[i - 1] = Words(job)[i]
Holds == /\ status = DOE_STATUS_DATA_OBJECT_READY
         /\ rsp_len = Len(AnswerTo(job))
         /\ \A i \in 1..Len(AnswerTo(job)) : rsp_buf[i - 1] = AnswerTo(job)[i]
Taken == /\ got \in Seq(Dword)
         /\ \A i \in 1..Len(got) : got[i] = AnswerTo(job)[i]

\* What host and mailbox know of each other at each access.  A process that
\* was restarted (~cap_detected) knows nothing, until STATUS tells the host.
StageInv ==
  /\ pc \in Running \cup {"done", "failed"}
  /\ pc \in {"check", "write", "go", "poll"} => got = <<>>
  /\ pc \in {"check", "poll", "read", "recheck", "ack", "final"} =>
       sent = 0 /\ req_len = 0
  /\ pc \in {"check", "write", "go", "final"} => status = DOE_STATUS_IDLE
  /\ pc = "write" => sent \in 0..2
  /\ pc = "go" => sent = 3
  /\ pc \in {"write", "go"} /\ cap_detected => Sent
  /\ pc = "poll" /\ cap_detected => Holds /\ rsp_idx = 0
  /\ pc = "read" => cap_detected /\ Holds /\ Taken /\ rsp_idx = Len(got)
  /\ pc \in {"recheck", "ack"} => Taken
  /\ pc \in {"recheck", "ack"} /\ cap_detected => Holds /\ rsp_idx + 1 = Len(got)
  /\ pc = "ack" => cap_detected
  /\ pc = "final" => got = AnswerTo(job)

HInv == IInv /\ CapInv /\ JobInv /\ StageInv

\* The part of the table the host has walked through.
Walked(n) == [i \in 1..n |-> ProtocolWord(i - 1)]

WalkInv ==
  \/ pc = "done" /\ walked = Walked(4)
  \/ pc # "done" /\ \E k \in 0..3 : job = Discovery(k) /\ walked = Walked(k)
  \/ pc # "done" /\ walked = Walked(4) /\ \E p \in Dword : job = Spdm(p)
-----------------------------------------------------------------------------
(* Requests and their answers *)

\* It is the answer of the abstract mailbox to the words the host writes.
LEMMA SameAnswer == \A j : Abstract!Answer(Words(j)) = AnswerTo(j)
<1>1. \A j : Words(j)[1] = j[1] /\ Words(j)[3] = j[2]
  BY DEF Words
<1> QED
  BY <1>1, SameFields, SameDiscovery, SameSpdm DEF AnswerTo, Abstract!Answer

\* A request that stays has the same words and the same answer.
LEMMA SameJob ==
  ASSUME job' = job
  PROVE  AnswerTo(job)' = AnswerTo(job) /\ Words(job)' = Words(job)
  OBVIOUS

\* Two header words and a payload, all dwords, of a protocol doe-emu serves.
LEMMA DiscoveryJob ==
  ASSUME NEW k \in 0..3
  PROVE  /\ Words(Discovery(k)) = << 1, 3, k >> /\ k \in Dword
         /\ TypeOf(Discovery(k)[1]) = DOE_TYPE_DISC
         /\ AnswerTo(Discovery(k)) = DiscoveryResponse(k)
<1>1. Header(DOE_VID_PCISIG, DOE_TYPE_DISC) = 1
  BY SMT DEF Header, DOE_VID_PCISIG, DOE_TYPE_DISC
<1>2. Discovery(k) = << 1, k >>
  BY <1>1 DEF Discovery
<1>3. Words(Discovery(k)) = << 1, 3, k >>
  BY <1>2, SMT DEF Words
<1>4. k \in Dword /\ LowByte(k) = k /\ TypeOf(1) = DOE_TYPE_DISC
  BY SMT DEF Dword, LowByte, TypeOf, DOE_TYPE_DISC
<1>5. Discovery(k)[1] = 1 /\ Discovery(k)[2] = k
  BY <1>2
<1> QED
  BY <1>3, <1>4, <1>5 DEF AnswerTo

\* The same for SPDM.
LEMMA SpdmJob ==
  ASSUME NEW p \in Dword
  PROVE  /\ Words(Spdm(p)) = << 65537, 3, p >>
         /\ TypeOf(Spdm(p)[1]) # DOE_TYPE_DISC
         /\ AnswerTo(Spdm(p)) = SpdmResponse(DOE_TYPE_CMA_SPDM, p)
<1>1. Header(DOE_VID_PCISIG, DOE_TYPE_CMA_SPDM) = 65537
  BY SMT DEF Header, DOE_VID_PCISIG, DOE_TYPE_CMA_SPDM
<1>2. Spdm(p) = << 65537, p >>
  BY <1>1 DEF Spdm
<1>3. Words(Spdm(p)) = << 65537, 3, p >>
  BY <1>2, SMT DEF Words
<1>4. TypeOf(65537) = DOE_TYPE_CMA_SPDM /\ DOE_TYPE_CMA_SPDM # DOE_TYPE_DISC
  BY SMT DEF TypeOf, DOE_TYPE_CMA_SPDM, DOE_TYPE_DISC
<1>5. Spdm(p)[1] = 65537 /\ Spdm(p)[2] = p
  BY <1>2
<1> QED
  BY <1>3, <1>4, <1>5 DEF AnswerTo

\* The header words a request of the host has in common with the others.
LEMMA JobWords ==
  ASSUME JobInv
  PROVE  /\ Words(job)[1] \in {1, 65537}
         /\ \A i \in 1..3 : Words(job)[i] \in Dword
         /\ WellFormed(AnswerTo(job))
<1>1. 1 \in Dword /\ 3 \in Dword /\ 65537 \in Dword
  BY SMT DEF Dword
<1>2. ASSUME NEW k \in 0..3, job = Discovery(k)
      PROVE  /\ Words(job)[1] \in {1, 65537}
             /\ \A i \in 1..3 : Words(job)[i] \in Dword
             /\ WellFormed(AnswerTo(job))
  <2>1. k \in Byte
    BY SMT DEF Byte
  <2>2. Words(job) = << 1, 3, k >> /\ k \in Dword
    BY <1>2, DiscoveryJob
  <2> QED
    BY <1>1, <1>2, <2>1, <2>2, DiscoveryJob, DiscoveryWellFormed
<1>3. ASSUME NEW p \in Dword, job = Spdm(p)
      PROVE  /\ Words(job)[1] \in {1, 65537}
             /\ \A i \in 1..3 : Words(job)[i] \in Dword
             /\ WellFormed(AnswerTo(job))
  <2>1. Words(job) = << 65537, 3, p >>
    BY <1>3, SpdmJob
  <2> QED
    BY <1>1, <1>3, <2>1, SpdmJob, SpdmWellFormed
<1> QED
  BY <1>2, <1>3 DEF JobInv

\* Submitting the three words of a request makes doe_process answer them.
LEMMA GoAnswers ==
  ASSUME TypeOK, JobInv, sent = 3, Sent, CtrlGo
  PROVE  Respond(AnswerTo(job))
<1>1. req_buf[0] = Words(job)[1] /\ req_buf[2] = Words(job)[3] /\ req_len = 3
  BY SMT DEF Sent
<1>2. req_len >= 3 /\ req_len >= 2 /\ ~(req_len < 3) /\ ~(req_len < 2)
  BY <1>1, SMT
<1>3. Vid(1) = DOE_VID_PCISIG /\ Vid(65537) = DOE_VID_PCISIG
  BY SMT DEF Vid, DOE_VID_PCISIG
<1>4. /\ TypeOf(1) = DOE_TYPE_DISC /\ TypeOf(65537) = DOE_TYPE_CMA_SPDM
      /\ DOE_TYPE_CMA_SPDM # DOE_TYPE_DISC
      /\ DOE_TYPE_SECURED_CMA_SPDM # DOE_TYPE_DISC
  BY SMT DEF TypeOf, DOE_TYPE_CMA_SPDM, DOE_TYPE_DISC, DOE_TYPE_SECURED_CMA_SPDM
<1>5. ASSUME NEW k \in 0..3, job = Discovery(k)
      PROVE  Respond(AnswerTo(job))
  <2>1. Words(job)[1] = 1 /\ Words(job)[3] = k
    BY <1>5, DiscoveryJob
  <2>2. LowByte(k) = k
    BY SMT DEF LowByte
  <2>3. Respond(DiscoveryResponse(k))
    BY <1>1, <1>2, <1>3, <1>4, <2>1, <2>2
       DEF CtrlGo, doe_process, doe_handle_discovery
  <2> QED
    BY <1>5, <2>3, DiscoveryJob
<1>6. ASSUME NEW p \in Dword, job = Spdm(p)
      PROVE  Respond(AnswerTo(job))
  <2>1. Words(job)[1] = 65537 /\ Words(job)[3] = p
    BY <1>6, SpdmJob
  <2>2. Respond(SpdmResponse(DOE_TYPE_CMA_SPDM, p))
    BY <1>1, <1>2, <1>3, <1>4, <2>1 DEF CtrlGo, doe_process, spdm_handle
  <2> QED
    BY <1>6, <2>2, SpdmJob
<1> QED
  BY <1>5, <1>6 DEF JobInv
-----------------------------------------------------------------------------
(* One access *)

\* The registers are at different offsets.
LEMMA Registers ==
  /\ DOE_REG_CTRL \notin {DOE_REG_STATUS, DOE_REG_WRITE, DOE_REG_READ}
  /\ DOE_REG_STATUS \notin {DOE_REG_WRITE, DOE_REG_READ}
  /\ DOE_REG_WRITE # DOE_REG_READ
  /\ DOE_REG_CTRL \in Nat /\ DOE_REG_STATUS \in Nat
  /\ DOE_REG_WRITE \in Nat /\ DOE_REG_READ \in Nat
  BY SMT DEF DOE_REG_CTRL, DOE_REG_STATUS, DOE_REG_WRITE, DOE_REG_READ

\* A read changes no register.  The first one after a start fixes cap_base,
\* which is right if it is a read of STATUS.
LEMMA ReadServed ==
  ASSUME CapInv, NEW reg \in Nat, ReadReg(reg), cap_detected \/ reg = DOE_REG_STATUS
  PROVE  /\ UNCHANGED mailbox
         /\ cap_detected' /\ cap_base' = Base
         /\ rsp'.data = reg_read(reg)
<1> DEFINE tx == Transaction(1, 0, Base + reg, 0)
<1>1. tx.r0w1 = 0 /\ tx.physical_address = Base + reg
  BY DEF Transaction
<1>2. Base \in Nat /\ DOE_REG_STATUS \in Nat
  BY HostAssumption, Registers
<1>3. Access(tx)
  BY <1>1 DEF ReadReg, Serve, SkipWrite
<1> HIDE DEF tx
<1>4. CapBase(tx) = Base
  <2>1. CASE cap_detected
    BY <2>1 DEF CapBase, CapInv
  <2>2. CASE ~cap_detected
    <3>1. tx.physical_address - DOE_REG_STATUS = Base
      BY <1>1, <1>2, <2>2, SMT
    <3> QED
      BY <2>2, <3>1 DEF CapBase
  <2> QED
    BY <2>1, <2>2
<1>5. tx.physical_address - CapBase(tx) = reg
  BY <1>1, <1>2, <1>4, SMT
<1>6. /\ UNCHANGED mailbox /\ cap_detected' /\ cap_base' = Base
      /\ rsp' = Reply(tx, reg_read(reg))
  BY <1>1, <1>3, <1>4, <1>5 DEF Access
<1> QED
  BY <1>6 DEF Reply

\* A write reaches the register the host meant, or is dropped.
LEMMA WriteServed ==
  ASSUME CapInv, NEW reg \in Nat, NEW val, WriteReg(reg, val)
  PROVE  /\ cap_detected' = cap_detected /\ cap_base' = cap_base
         /\ \/ cap_detected /\ reg_write(reg, val)
            \/ ~cap_detected /\ UNCHANGED mailbox
<1> DEFINE tx == Transaction(1, 1, Base + reg, val)
<1>1. tx.r0w1 = 1 /\ tx.physical_address = Base + reg /\ tx.data = val
  BY DEF Transaction
<1>2. Base \in Nat
  BY HostAssumption
<1>3. SkipWrite(tx) \/ Access(tx)
  BY DEF WriteReg, Serve
<1> HIDE DEF tx
<1>4. CASE SkipWrite(tx)
  BY <1>4 DEF SkipWrite
<1>5. CASE Access(tx)
  <2>1. cap_detected /\ cap_detected' = TRUE
    BY <1>1, <1>5 DEF Access
  <2>2. CapBase(tx) = Base /\ cap_base = Base
    BY <2>1 DEF CapBase, CapInv
  <2>3. tx.physical_address - CapBase(tx) = reg
    BY <1>1, <1>2, <2>2, SMT
  <2>4. cap_base' = Base /\ reg_write(reg, val)
    BY <1>1, <1>5, <2>2, <2>3 DEF Access
  <2> QED
    BY <2>1, <2>2, <2>4
<1> QED
  BY <1>3, <1>4, <1>5-----------------------------------------------------------------------------
(* The steps of the host *)

\* What the steps that only read have in common.
LEMMA ReadKeeps ==
  ASSUME HInv, UNCHANGED mailbox, cap_detected', cap_base' = Base, job' = job
  PROVE  /\ IInv' /\ CapInv'
         /\ UNCHANGED <<status, req_len, rsp_idx, rsp_len>>
         /\ Holds' = Holds
<1>1. 0 \in Dword
  BY SMT DEF Dword
<1>2. IInv'
  BY <1>1, WriteIInv DEF HInv
<1>3. CapInv'
  BY DEF CapInv
<1> QED
  BY <1>2, <1>3, SameJob DEF mailbox, Holds

\* STATUS shows status, whatever cap_base was.
LEMMA StatusRead ==
  ASSUME HInv, ReadReg(DOE_REG_STATUS)
  PROVE  /\ UNCHANGED mailbox
         /\ cap_detected' /\ cap_base' = Base
         /\ rsp'.data = status
<1>1. reg_read(DOE_REG_STATUS) = status
  BY Registers DEF reg_read
<1> QED
  BY <1>1, ReadServed, Registers DEF HInv

\* After an abort the mailbox is empty, and so it is if the abort was dropped.
LEMMA AbortStep == ASSUME HInv, WriteAbort PROVE HInv'
<1>1. /\ WriteReg(DOE_REG_CTRL, 1) /\ pc' = "check" /\ sent' = 0 /\ got' = <<>>
      /\ UNCHANGED <<job, asked>>
  BY DEF WriteAbort
<1>2. /\ cap_detected' = cap_detected /\ cap_base' = cap_base
      /\ \/ cap_detected /\ reg_write(DOE_REG_CTRL, 1)
         \/ ~cap_detected /\ UNCHANGED mailbox
  BY <1>1, WriteServed, Registers DEF HInv
<1>3. 1 \in Dword /\ HasAbort(1) /\ ~HasGo(1)
  BY SMT DEF Dword, HasAbort, HasGo
<1>4. IInv'
  BY <1>2, <1>3, WriteIInv DEF HInv
<1>5. status' = DOE_STATUS_IDLE /\ req_len' = 0
  <2>1. CASE cap_detected /\ reg_write(DOE_REG_CTRL, 1)
    BY <1>3, <2>1, Registers DEF reg_write, WriteCtrl, CtrlAbort
  <2>2. CASE ~cap_detected /\ UNCHANGED mailbox
    BY <2>2 DEF HInv, CapInv, mailbox
  <2> QED
    BY <1>2, <2>1, <2>2
<1>6. CapInv'
  BY <1>2, <1>5 DEF HInv, CapInv
<1>7. JobInv'
  BY <1>1 DEF HInv, JobInv
<1>8. StageInv'
  BY <1>1, <1>5 DEF StageInv, Running
<1> QED
  BY <1>4, <1>6, <1>7, <1>8 DEF HInv

\* The host writes into an empty mailbox.
LEMMA CheckStep == ASSUME HInv, CheckIdle PROVE HInv'
<1>1. /\ pc = "check" /\ ReadReg(DOE_REG_STATUS) /\ pc' \in {"write", "failed"}
      /\ UNCHANGED <<job, sent, got, asked>>
  BY DEF CheckIdle
<1>2. UNCHANGED mailbox /\ cap_detected' /\ cap_base' = Base
  BY <1>1, StatusRead
<1>3. /\ IInv' /\ CapInv' /\ UNCHANGED <<status, req_len>>
  BY <1>1, <1>2, ReadKeeps
<1>4. status = DOE_STATUS_IDLE /\ req_len = 0 /\ sent = 0 /\ got = <<>>
  BY <1>1 DEF HInv, StageInv
<1>5. Sent'
  BY <1>1, <1>3, <1>4, SMT DEF Sent
<1>6. JobInv'
  BY <1>1 DEF HInv, JobInv
<1>7. StageInv'
  BY <1>1, <1>3, <1>4, <1>5 DEF StageInv, Running
<1> QED
  BY <1>3, <1>6, <1>7 DEF HInv

\* Each word written joins those before it, or is dropped.
LEMMA WriteStep == ASSUME HInv, WriteWord PROVE HInv'
<1> DEFINE word == Words(job)[sent + 1]
<1>1. /\ pc = "write" /\ WriteReg(DOE_REG_WRITE, word) /\ sent' = sent + 1
      /\ pc' = IF sent' = 3 THEN "go" ELSE "write"
      /\ UNCHANGED <<job, got, asked>>
  BY DEF WriteWord
<1>2. /\ cap_detected' = cap_detected /\ cap_base' = cap_base
      /\ \/ cap_detected /\ reg_write(DOE_REG_WRITE, word)
         \/ ~cap_detected /\ UNCHANGED mailbox
  BY <1>1, WriteServed, Registers DEF HInv
<1>3. sent \in 0..2 /\ status = DOE_STATUS_IDLE /\ got = <<>>
  BY <1>1 DEF HInv, StageInv
<1>4. word \in Dword
  BY <1>3, JobWords, SMT DEF HInv
<1> HIDE DEF word
<1>5. IInv'
  BY <1>2, <1>4, WriteIInv DEF HInv
<1>6. status' = DOE_STATUS_IDLE /\ (~cap_detected => req_len' = 0)
  BY <1>2, <1>3, Registers DEF HInv, CapInv, reg_write, WriteMailbox, mailbox
<1>7. ASSUME cap_detected PROVE Sent'
  <2>1. /\ req_len = sent /\ \A i \in 1..sent : req_buf[i - 1] = Words(job)[i]
        /\ req_buf \in [0..(REQ_DWORDS - 1) -> Dword]
    BY <1>1, <1>7 DEF HInv, StageInv, Sent, IInv, TypeOK
  <2>2. req_len < REQ_DWORDS
    BY <1>3, <2>1, ReqDwordsAssumption, SMT
  <2>3. req_buf' = [req_buf EXCEPT ![sent] = word] /\ req_len' = sent + 1
    BY <1>2, <1>7, <2>1, <2>2, Registers DEF reg_write, WriteMailbox
  <2>4. \A i \in 1..(sent + 1) : req_buf'[i - 1] = Words(job)[i]
    <3> SUFFICES ASSUME NEW i \in 1..(sent + 1) PROVE req_buf'[i - 1] = Words(job)[i]
      OBVIOUS
    <3>1. CASE i = sent + 1
      <4>1. i - 1 = sent /\ sent \in 0..(REQ_DWORDS - 1)
        BY <1>3, <3>1, ReqDwordsAssumption, SMT
      <4> QED
        BY <2>1, <2>3, <3>1, <4>1 DEF word
    <3>2. CASE i # sent + 1
      <4>1. i \in 1..sent /\ i - 1 # sent /\ i - 1 \in 0..(REQ_DWORDS - 1)
        BY <1>3, <3>2, ReqDwordsAssumption, SMT
      <4> QED
        BY <2>1, <2>3, <4>1
    <3> QED
      BY <3>1, <3>2
  <2> QED
    BY <1>1, <2>3, <2>4, SameJob DEF Sent
<1>8. CapInv'
  BY <1>2, <1>6 DEF HInv, CapInv
<1>9. JobInv'
  BY <1>1 DEF HInv, JobInv
<1>10. StageInv'
  <2>1. (pc' = "go" /\ sent' = 3) \/ (pc' = "write" /\ sent' \in 0..2)
    BY <1>1, <1>3, SMT
  <2> QED
    BY <1>1, <1>2, <1>3, <1>6, <1>7, <2>1 DEF StageInv, Running
<1> QED
  BY <1>5, <1>8, <1>9, <1>10 DEF HInv

\* The submission replaces the request by its answer, or is dropped.
LEMMA GoStep == ASSUME HInv, WriteGo PROVE HInv'
<1>1. /\ pc = "go" /\ WriteReg(DOE_REG_CTRL, DOE_STATUS_DATA_OBJECT_READY)
      /\ sent' = 0 /\ pc' = "poll" /\ UNCHANGED <<job, got, asked>>
  BY DEF WriteGo
<1>2. /\ cap_detected' = cap_detected /\ cap_base' = cap_base
      /\ \/ cap_detected /\ reg_write(DOE_REG_CTRL, DOE_STATUS_DATA_OBJECT_READY)
         \/ ~cap_detected /\ UNCHANGED mailbox
  BY <1>1, WriteServed, Registers DEF HInv
<1>3. /\ DOE_STATUS_DATA_OBJECT_READY \in Dword
      /\ ~HasAbort(DOE_STATUS_DATA_OBJECT_READY) /\ HasGo(DOE_STATUS_DATA_OBJECT_READY)
  BY SMT DEF Dword, HasAbort, HasGo, DOE_STATUS_DATA_OBJECT_READY
<1>4. IInv'
  BY <1>2, <1>3, WriteIInv DEF HInv
<1>5. sent = 3 /\ got = <<>> /\ (cap_detected => Sent)
  BY <1>1 DEF HInv, StageInv
<1>6. ASSUME cap_detected PROVE Holds' /\ rsp_idx' = 0 /\ req_len' = 0
  <2>1. CtrlGo
    BY <1>2, <1>3, <1>6, Registers DEF reg_write, WriteCtrl
  <2>2. Respond(AnswerTo(job)) /\ req_len' = 0
    BY <1>5, <1>6, <2>1, GoAnswers DEF HInv, IInv, CtrlGo
  <2> DEFINE words == AnswerTo(job)
  <2>3. words \in Seq(Dword) /\ Len(words) \in 3..RSP_DWORDS
    <3>1. RSP_DWORDS \in Nat /\ RSP_DWORDS >= 11
      BY RspDwordsAssumption DEF MaxResponse
    <3>2. words \in Seq(Dword) /\ Len(words) \in 3..11
      BY JobWords DEF HInv, WellFormed, MaxResponse
    <3>3. \A n \in 3..11 : n \in 3..RSP_DWORDS
      BY <3>1, SMT
    <3> QED
      BY <3>2, <3>3
  <2>4. /\ rsp_buf' = [i \in 0..(RSP_DWORDS - 1) |->
                         IF i < Len(words) THEN words[i + 1] ELSE rsp_buf[i]]
        /\ rsp_len' = Len(words) /\ rsp_idx' = 0
        /\ status' = DOE_STATUS_DATA_OBJECT_READY
    BY <2>2 DEF Respond, HInv, IInv, TypeOK
  <2> HIDE DEF words
  <2>5. \A i \in 1..Len(words) : rsp_buf'[i - 1] = words[i]
    BY <2>3, <2>4, RspDwordsAssumption, SMT
  <2> QED
    BY <1>1, <2>2, <2>4, <2>5, SameJob DEF Holds, words
<1>7. ~cap_detected => status' = DOE_STATUS_IDLE /\ req_len' = 0
  BY <1>2 DEF HInv, CapInv, mailbox
<1>8. CapInv'
  BY <1>2, <1>7 DEF HInv, CapInv
<1>9. JobInv'
  BY <1>1 DEF HInv, JobInv
<1>10. StageInv'
  BY <1>1, <1>2, <1>5, <1>6, <1>7 DEF StageInv, Running
<1> QED
  BY <1>4, <1>8, <1>9, <1>10 DEF HInv

\* An object is ready only if the process that shows it has the answer.
LEMMA PollStep == ASSUME HInv, Poll PROVE HInv'
<1>1. /\ pc = "poll" /\ ReadReg(DOE_REG_STATUS)
      /\ pc' \in {"read", "failed", "abort"}
      /\ pc' = "read" => rsp'.data = DOE_STATUS_DATA_OBJECT_READY
      /\ UNCHANGED <<job, sent, got, asked>>
  BY DEF Poll
<1>2. UNCHANGED mailbox /\ cap_detected' /\ cap_base' = Base /\ rsp'.data = status
  BY <1>1, StatusRead
<1>3. /\ IInv' /\ CapInv' /\ UNCHANGED <<status, req_len, rsp_idx>> /\ Holds' = Holds
  BY <1>1, <1>2, ReadKeeps
<1>4. /\ sent = 0 /\ req_len = 0 /\ got = <<>>
      /\ cap_detected => Holds /\ rsp_idx = 0
      /\ ~cap_detected => status = DOE_STATUS_IDLE
  BY <1>1 DEF HInv, StageInv, CapInv
<1>5. pc' = "read" => Holds' /\ rsp_idx' = 0
  BY <1>1, <1>2, <1>3, <1>4, StatusValues
<1>6. Taken' /\ Len(got') = 0
  BY <1>1, <1>4, SMT DEF Taken
<1>7. JobInv'
  BY <1>1 DEF HInv, JobInv
<1>8. StageInv'
  BY <1>1, <1>2, <1>3, <1>4, <1>5, <1>6 DEF StageInv, Running
<1> QED
  BY <1>3, <1>7, <1>8 DEF HInv

\* The word the host takes is the next of the answer.
LEMMA ReadStep == ASSUME HInv, ReadWord PROVE HInv'
<1> DEFINE A == AnswerTo(job)
<1>1. /\ pc = "read" /\ ReadReg(DOE_REG_READ) /\ pc' = "recheck"
      /\ got' = Append(got, rsp'.data) /\ UNCHANGED <<job, sent, asked>>
  BY DEF ReadWord
<1>2. /\ cap_detected /\ Holds /\ Taken /\ rsp_idx = Len(got)
      /\ sent = 0 /\ req_len = 0
  BY <1>1 DEF HInv, StageInv
<1>3. /\ UNCHANGED mailbox /\ cap_detected' /\ cap_base' = Base
      /\ rsp'.data = reg_read(DOE_REG_READ)
  BY <1>1, <1>2, ReadServed, Registers DEF HInv
<1>4. /\ IInv' /\ CapInv' /\ UNCHANGED <<status, req_len, rsp_idx>> /\ Holds' = Holds
  BY <1>1, <1>3, ReadKeeps
<1>5. A \in Seq(Dword)
  BY JobWords DEF HInv, WellFormed
<1>6. rsp_idx < rsp_len /\ rsp_idx \in Nat /\ rsp_len \in Nat /\ rsp_len = Len(A)
  BY <1>2, RspDwordsAssumption, SMT
     DEF Holds, HInv, IInv, TypeOK, StatusMatchesResponse
<1>7. rsp'.data = rsp_buf[rsp_idx]
  BY <1>3, <1>6, Registers, SMT DEF reg_read
<1> HIDE DEF A
<1>8. rsp_buf[rsp_idx] = A[Len(got) + 1] /\ A[Len(got) + 1] \in Dword
  <2>1. /\ \A i \in 1..Len(A) : rsp_buf[i - 1] = A[i]
        /\ rsp_idx + 1 \in 1..Len(A) /\ (rsp_idx + 1) - 1 = rsp_idx
    BY <1>2, <1>6, SMT DEF Holds, A
  <2> QED
    BY <1>2, <1>5, <2>1
<1>9. got' = Append(got, A[Len(got) + 1])
  BY <1>1, <1>7, <1>8
<1>10. /\ got' \in Seq(Dword) /\ Len(got') = Len(got) + 1
       /\ \A i \in 1..Len(got') : got'[i] = A[i]
  <2>1. got \in Seq(Dword) /\ \A i \in 1..Len(got) : got[i] = A[i]
    BY <1>2 DEF Taken, A
  <2> QED
    BY <1>8, <1>9, <2>1, SMT
<1>11. Taken' /\ rsp_idx' + 1 = Len(got')
  BY <1>1, <1>2, <1>4, <1>10, SameJob DEF Taken, A
<1>12. JobInv'
  BY <1>1 DEF HInv, JobInv
<1>13. StageInv'
  BY <1>1, <1>2, <1>3, <1>4, <1>11 DEF StageInv, Running
<1> QED
  BY <1>4, <1>12, <1>13 DEF HInv

\* A process restarted since the word was read shows an idle mailbox.
LEMMA RecheckStep == ASSUME HInv, Recheck PROVE HInv'
<1>1. /\ pc = "recheck" /\ ReadReg(DOE_REG_STATUS) /\ pc' \in {"ack", "failed"}
      /\ pc' = "ack" => rsp'.data = DOE_STATUS_DATA_OBJECT_READY
      /\ UNCHANGED <<job, sent, got, asked>>
  BY DEF Recheck
<1>2. UNCHANGED mailbox /\ cap_detected' /\ cap_base' = Base /\ rsp'.data = status
  BY <1>1, StatusRead
<1>3. /\ IInv' /\ CapInv' /\ UNCHANGED <<status, req_len, rsp_idx>> /\ Holds' = Holds
  BY <1>1, <1>2, ReadKeeps
<1>4. /\ sent = 0 /\ req_len = 0 /\ Taken
      /\ cap_detected => Holds /\ rsp_idx + 1 = Len(got)
      /\ ~cap_detected => status = DOE_STATUS_IDLE
  BY <1>1 DEF HInv, StageInv, CapInv
<1>5. pc' = "ack" => Holds' /\ rsp_idx' + 1 = Len(got')
  BY <1>1, <1>2, <1>3, <1>4, StatusValues
<1>6. Taken'
  BY <1>1, <1>4, SameJob DEF Taken
<1>7. JobInv'
  BY <1>1 DEF HInv, JobInv
<1>8. StageInv'
  BY <1>1, <1>2, <1>3, <1>4, <1>5, <1>6 DEF StageInv, Running
<1> QED
  BY <1>3, <1>7, <1>8 DEF HInv
\* Header dword 1 and rsp_len agree on which word is the last.
LEMMA AckStep == ASSUME HInv, AckWord PROVE HInv'
<1> DEFINE A == AnswerTo(job)
<1>1. /\ pc = "ack" /\ WriteReg(DOE_REG_READ, 0)
      /\ pc' = IF Len(got) >= 2 /\ Len(got) >= got[2] THEN "final" ELSE "read"
      /\ UNCHANGED <<job, sent, got, asked>>
  BY DEF AckWord
<1>2. /\ cap_detected /\ Holds /\ Taken /\ rsp_idx + 1 = Len(got)
      /\ sent = 0 /\ req_len = 0
  BY <1>1 DEF HInv, StageInv
<1>3. /\ cap_detected' = cap_detected /\ cap_base' = cap_base
      /\ reg_write(DOE_REG_READ, 0)
  BY <1>1, <1>2, WriteServed, Registers DEF HInv
<1>4. AckRead(0)
  BY <1>3, Registers DEF reg_write
<1>5. 0 \in Dword
  BY SMT DEF Dword
<1>6. IInv'
  BY <1>3, <1>5, WriteIInv DEF HInv
<1>7. CapInv'
  BY <1>2, <1>3 DEF HInv, CapInv
<1>8. JobInv'
  BY <1>1 DEF HInv, JobInv
<1>9. A \in Seq(Dword) /\ Len(A) \in Nat /\ Len(A) >= 3 /\ A[2] = Len(A)
  <2>1. A \in Seq(Dword) /\ Len(A) \in 3..11 /\ A[2] = Len(A)
    BY JobWords DEF HInv, WellFormed, MaxResponse
  <2>2. \A n \in 3..11 : n \in Nat /\ n >= 3
    BY SMT
  <2> QED
    BY <2>1, <2>2
<1>10. /\ rsp_idx \in Nat /\ rsp_len = Len(A) /\ rsp_idx < rsp_len
  BY <1>2, RspDwordsAssumption, SMT
     DEF Holds, HInv, IInv, TypeOK, StatusMatchesResponse
<1>11. /\ got \in Seq(Dword) /\ \A i \in 1..Len(got) : got[i] = A[i]
  BY <1>2 DEF Taken
<1> HIDE DEF A
<1>12. CASE rsp_idx + 1 >= rsp_len
  <2>1. status' = DOE_STATUS_IDLE /\ req_len' = req_len
    BY <1>4, <1>12 DEF AckRead
  <2>2. Len(got) = Len(A)
    BY <1>2, <1>10, <1>12, <1>9, SMT
  <2>3. got[2] = Len(A)
    BY <1>9, <1>11, <2>2, SMT
  <2>4. pc' = "final"
    BY <1>1, <1>9, <2>2, <2>3, SMT
  <2>5. got = A
    <3>1. got = [i \in 1..Len(got) |-> got[i]] /\ A = [i \in 1..Len(A) |-> A[i]]
      BY <1>9, <1>11, SequenceIsItsElements
    <3> QED
      BY <1>11, <2>2, <3>1, Zenon
  <2>6. got' = AnswerTo(job)'
    BY <1>1, <2>5, SameJob DEF A
  <2>7. StageInv'
    BY <1>1, <1>2, <2>1, <2>4, <2>6 DEF StageInv, Running
  <2> QED
    BY <1>6, <1>7, <1>8, <2>7 DEF HInv
<1>13. CASE ~(rsp_idx + 1 >= rsp_len)
  <2>1. /\ rsp_idx' = rsp_idx + 1 /\ UNCHANGED <<status, req_len, rsp_len, rsp_buf>>
    BY <1>4, <1>13 DEF AckRead
  <2>2. Len(got) < Len(A) /\ Len(got) \in Nat
    BY <1>2, <1>10, <1>13, <1>9, SMT
  <2>3. Len(got) >= 2 => got[2] = Len(A)
    BY <1>9, <1>11, <2>2, SMT
  <2>4. pc' = "read"
    BY <1>1, <1>9, <2>2, <2>3, SMT
  <2>5. Holds' /\ Taken' /\ rsp_idx' = Len(got')
    BY <1>1, <1>2, <2>1, SameJob DEF Holds, Taken
  <2>6. StageInv'
    BY <1>1, <1>2, <1>3, <2>1, <2>4, <2>5 DEF StageInv, Running
  <2> QED
    BY <1>6, <1>7, <1>8, <2>6 DEF HInv
<1> QED
  BY <1>12, <1>13

\* The answer to a discovery request names an entry and the next index.
LEMMA DiscoveryAnswer ==
  ASSUME NEW k \in 0..3
  PROVE  /\ AnswerTo(Discovery(k))[3] = ProtocolWord(k)
         /\ AnswerTo(Discovery(k))[4] = NextIndex(k)
         /\ ProtocolWord(k) \in {1, 65537, 131073, 138904}
<1>1. k < NUM_PROTOCOLS
  BY SMT DEF NUM_PROTOCOLS
<1>2. DiscoveryResponse(k) = << Header(DOE_VID_PCISIG, DOE_TYPE_DISC), 4 >> \o
                             << ProtocolWord(k), NextIndex(k) >>
  BY <1>1 DEF DiscoveryResponse
<1>3. \A a, b, c, d : LET s == << a, b >> \o << c, d >> IN s[3] = c /\ s[4] = d
  OBVIOUS
<1>4. DiscoveryResponse(k)[3] = ProtocolWord(k) /\ DiscoveryResponse(k)[4] = NextIndex(k)
  BY <1>2, <1>3
<1>5. ProtocolWord(k) \in {1, 65537, 131073, 138904}
  <2>1. k \in {0, 1, 2, 3}
    BY SMT
  <2> QED
    BY <2>1, SMT DEF ProtocolWord, Header, protocols, DOE_VID_PCISIG,
       DOE_VID_CXL, DOE_TYPE_DISC, DOE_TYPE_CMA_SPDM, DOE_TYPE_SECURED_CMA_SPDM,
       DOE_TYPE_CXL_TABLE_ACCESS
<1> QED
  BY <1>4, <1>5, DiscoveryJob

\* Where the host goes from a discovery answer: to an entry of the table, to
\* SPDM, or to the end.
LEMMA NextJob ==
  ASSUME HInv, pc = "final", Conclude
  PROVE  /\ JobInv' /\ got' = <<>> /\ pc' \in {"check", "done"}
<1>1. /\ got = AnswerTo(job) /\ asked \in Nat
  BY DEF HInv, StageInv, JobInv
<1>2. asked' \in Nat /\ got' = <<>> /\ pc' \in {"check", "done"}
  BY <1>1, SMT DEF Conclude
<1>3. ASSUME asked' < Len(SpdmRequests), job' = Spdm(SpdmRequests[asked' + 1])
      PROVE  JobInv'
  <2>1. SpdmRequests[asked' + 1] \in Dword
    BY <1>2, <1>3, HostAssumption, SMT
  <2> QED
    BY <1>2, <1>3, <2>1 DEF JobInv
<1>4. ASSUME UNCHANGED job PROVE JobInv'
  BY <1>2, <1>4 DEF HInv, JobInv
<1>5. CASE TypeOf(job[1]) = DOE_TYPE_DISC /\ NextIndexOf(got) # 0
  <2>1. PICK k \in 0..3 : job = Discovery(k)
    BY <1>5, SpdmJob DEF HInv, JobInv
  <2>2. job' = Discovery(NextIndexOf(got))
    BY <1>5 DEF Conclude
  <2>3. /\ got[3] \in {1, 65537, 131073, 138904} /\ got[4] = NextIndex(k)
    BY <1>1, <2>1, DiscoveryAnswer
  <2>4. (got[3] \div 16777216) % 256 = 0 /\ NextIndex(k) \in 0..3
    BY <2>3, SMT DEF NextIndex, NUM_PROTOCOLS
  <2>5. NextIndexOf(got) \in 0..3
    BY <2>3, <2>4, <1>5 DEF NextIndexOf
  <2> QED
    BY <1>2, <2>2, <2>5 DEF JobInv
<1>6. CASE ~(TypeOf(job[1]) = DOE_TYPE_DISC /\ NextIndexOf(got) # 0)
  BY <1>3, <1>4, <1>6 DEF Conclude
<1> QED
  BY <1>2, <1>5, <1>6

\* The end of an exchange finds the mailbox as the next one needs it.
LEMMA FinalStep == ASSUME HInv, Final PROVE HInv'
<1>1. /\ pc = "final" /\ ReadReg(DOE_REG_STATUS) /\ sent' = sent
      /\ \/ pc' = "failed" /\ UNCHANGED <<job, asked>>
         \/ Conclude
  BY DEF Final
<1>2. UNCHANGED mailbox /\ cap_detected' /\ cap_base' = Base
  BY <1>1, StatusRead
<1>3. status = DOE_STATUS_IDLE /\ req_len = 0 /\ sent = 0
  BY <1>1 DEF HInv, StageInv
<1>4. UNCHANGED <<status, req_len>>
  BY <1>2 DEF mailbox
<1>5. IInv' /\ CapInv'
  <2>1. 0 \in Dword
    BY SMT DEF Dword
  <2> QED
    BY <1>2, <2>1, WriteIInv DEF HInv, CapInv
<1>6. CASE pc' = "failed" /\ UNCHANGED <<job, asked>>
  BY <1>5, <1>6 DEF HInv, JobInv, StageInv, Running
<1>7. CASE Conclude
  BY <1>1, <1>3, <1>4, <1>5, <1>7, NextJob DEF HInv, StageInv, Running
<1> QED
  BY <1>1, <1>6, <1>7

\* A new process, wherever the host is told of it in time.
LEMMA RestartStep == ASSUME HInv, RestartsElsewhere, Restart PROVE HInv'
<1>1. /\ EmuRestart /\ UNCHANGED <<pc, job, sent, got, asked>>
      /\ pc \in RestartAt
  BY DEF Restart
<1>2. pc \notin {"read", "ack"}
  BY <1>1 DEF RestartsElsewhere
<1>3. status' = DOE_STATUS_IDLE /\ req_len' = 0 /\ ~cap_detected'
  BY <1>1 DEF EmuRestart
<1>4. IInv'
  <2>1. 0 \in Dword
    BY SMT DEF Dword
  <2> QED
    BY <1>1, <2>1, StatusValues, ReqDwordsAssumption, RspDwordsAssumption, SMT
       DEF EmuRestart, IInv, TypeOK, StatusMatchesResponse, LengthHeaderMatches
<1>5. CapInv'
  BY <1>3 DEF CapInv
<1>6. JobInv'
  BY <1>1 DEF HInv, JobInv
<1>7. Taken' = Taken /\ AnswerTo(job)' = AnswerTo(job)
  BY <1>1, SameJob DEF Taken
<1>8. StageInv'
  BY <1>1, <1>2, <1>3, <1>7 DEF HInv, StageInv
<1> QED
  BY <1>4, <1>5, <1>6, <1>8 DEF HInv

\* A host that stands still, or gives an exchange up.
LEMMA OtherStep == ASSUME HInv, GiveUp \/ UNCHANGED vars PROVE HInv'
<1>1. UNCHANGED <<mailbox, cap_base, cap_detected, job, sent, got, asked>>
  BY DEF GiveUp, vars, emu, host
<1>2. IInv'
  <2>1. 0 \in Dword
    BY SMT DEF Dword
  <2> QED
    BY <1>1, <2>1, WriteIInv DEF HInv
<1>3. UNCHANGED <<status, req_buf, req_len, rsp_buf, rsp_len, rsp_idx>>
  BY <1>1 DEF mailbox
<1>4. CapInv'
  BY <1>1, <1>3 DEF HInv, CapInv
<1>5. JobInv'
  BY <1>1 DEF HInv, JobInv
<1>6. CASE GiveUp
  <2>1. pc' = "abort"
    BY <1>6 DEF GiveUp
  <2> QED
    BY <1>2, <1>4, <1>5, <2>1 DEF HInv, StageInv, Running
<1>7. CASE UNCHANGED vars
  <2>1. pc' = pc
    BY <1>7 DEF vars, host
  <2>2. /\ Sent' = Sent /\ Holds' = Holds /\ Taken' = Taken
        /\ AnswerTo(job)' = AnswerTo(job)
    BY <1>1, <1>3, SameJob DEF Sent, Holds, Taken
  <2>3. StageInv'
    BY <1>1, <1>3, <2>1, <2>2 DEF HInv, StageInv
  <2> QED
    BY <1>2, <1>4, <1>5, <2>3 DEF HInv
<1> QED
  BY <1>6, <1>7
-----------------------------------------------------------------------------
(* The invariant and what follows from it *)

\* The process has just started and the host is about to abort.
LEMMA InitHInv == HostInit => HInv
<1> SUFFICES ASSUME HostInit PROVE HInv
  OBVIOUS
<1>1. IInv
  BY InitIInv DEF HostInit, EmuInit
<1>2. CapInv /\ StageInv
  BY DEF HostInit, EmuInit, Init, CapInv, StageInv, Running
<1>3. JobInv
  BY SMT DEF HostInit, JobInv
<1> QED
  BY <1>1, <1>2, <1>3 DEF HInv

\* Every step keeps it.
LEMMA NextHInv ==
  ASSUME RestartsElsewhere
  PROVE  HInv /\ [HostNext]_vars => HInv'
  BY AbortStep, CheckStep, WriteStep, GoStep, PollStep, ReadStep, RecheckStep,
     AckStep, FinalStep, RestartStep, OtherStep DEF HostNext, HostStep, Finished

\* So it holds throughout.
LEMMA SpecHInv ==
  ASSUME RestartsElsewhere
  PROVE  HostSpec => []HInv
  BY InitHInv, NextHInv, PTL DEF HostSpec

\* Unless doe-emu is restarted just before the host reads or acknowledges a
\* word, run() takes the right access for the first read of STATUS, so that
\* every access reaches the register the host meant.
THEOREM CapBaseDetected ==
  ASSUME RestartsElsewhere
  PROVE  HostSpec => []CapBaseIsBase
<1>1. HInv => CapBaseIsBase
  BY DEF HInv, CapInv, CapBaseIsBase
<1> QED
  BY <1>1, SpecHInv, PTL

\* However often the host gives up and doe-emu is restarted (unless just
\* before the host reads or acknowledges a word), the words taken at the end
\* of an exchange are what doe_process answers to the words of this request.
THEOREM ResponsesAnswer ==
  ASSUME RestartsElsewhere
  PROVE  HostSpec => []ResponseAnswersRequest
<1>1. HInv => ResponseAnswersRequest
  <2> SUFFICES ASSUME HInv, pc = "final" PROVE ResponseAnswersRequest
    BY DEF ResponseAnswersRequest
  <2>1. got = AnswerTo(job) /\ status = DOE_STATUS_IDLE
    BY DEF HInv, StageInv
  <2>2. rsp_len = 0 /\ rsp_idx = 0
    BY <2>1, SMT DEF HInv, IInv, TypeOK, StatusMatchesResponse
  <2>3. Response = <<>>
    BY <2>2, SMT DEF Response
  <2> QED
    BY <2>1, <2>3, SameAnswer DEF ResponseAnswersRequest
<1> QED
  BY <1>1, SpecHInv, PTL-----------------------------------------------------------------------------
(* The walk *)

\* One entry more.
LEMMA WalkedOn ==
  ASSUME NEW k \in 0..3
  PROVE  Append(Walked(k), ProtocolWord(k)) = Walked(k + 1)
<1> DEFINE longer == Append(Walked(k), ProtocolWord(k))
           Word   == {1, 65537, 131073, 138904}
<1>1. \A i \in 1..(k + 1) : ProtocolWord(i - 1) \in Word
  <2> SUFFICES ASSUME NEW i \in 1..(k + 1) PROVE ProtocolWord(i - 1) \in Word
    OBVIOUS
  <2>1. i - 1 \in 0..3
    BY SMT
  <2> QED
    BY <2>1, DiscoveryAnswer
<1> HIDE DEF Word
<1>2. Walked(k) \in [1..k -> Word] /\ ProtocolWord(k) \in Word
  <2>1. \A i \in 1..k : i \in 1..(k + 1)
    BY SMT
  <2>2. k + 1 \in 1..(k + 1) /\ (k + 1) - 1 = k
    BY SMT
  <2>3. ProtocolWord((k + 1) - 1) \in Word
    BY <1>1, <2>2
  <2> QED
    BY <1>1, <2>1, <2>2, <2>3 DEF Walked
<1>3. /\ Walked(k) \in Seq(Word) /\ Len(Walked(k)) = k
  BY <1>2, Window, SMT
<1>4. /\ longer \in Seq(Word) /\ Len(longer) = k + 1
      /\ \A i \in 1..(k + 1) : longer[i] = IF i <= k THEN Walked(k)[i] ELSE ProtocolWord(k)
  BY <1>2, <1>3, SMT
<1>5. \A i \in 1..k : Walked(k)[i] = ProtocolWord(i - 1)
  BY DEF Walked
<1> HIDE DEF longer
<1>6. \A i \in 1..(k + 1) : longer[i] = ProtocolWord(i - 1)
  <2> SUFFICES ASSUME NEW i \in 1..(k + 1) PROVE longer[i] = ProtocolWord(i - 1)
    OBVIOUS
  <2>1. CASE i <= k
    BY <1>4, <1>5, <2>1, SMT
  <2>2. CASE ~(i <= k)
    <3>1. i - 1 = k
      BY <2>2, SMT
    <3> QED
      BY <1>4, <2>2, <3>1
  <2> QED
    BY <2>1, <2>2
<1>7. longer = [i \in 1..(k + 1) |-> longer[i]]
  BY <1>4, SequenceIsItsElements
<1> QED
  BY <1>6, <1>7, Zenon DEF Walked, longer

\* Nothing is walked at first; the end of an exchange adds the entry asked
\* for and goes to the next; no other step counts.
LEMMA NextWalkInv ==
  ASSUME NextInDword3, HInv, WalkInv, [HostNext]_vars
  PROVE  WalkInv'
<1>1. ASSUME UNCHANGED <<job, walked>>, pc' = "done" <=> pc = "done" PROVE WalkInv'
  BY <1>1 DEF WalkInv
<1>2. CASE HostStep /\ ~Final
  BY <1>1, <1>2 DEF HostStep, WriteAbort, CheckIdle, WriteWord, WriteGo, Poll, ReadWord,
     Recheck, AckWord
<1>3. CASE Final
  <2>1. CASE ~Conclude
    BY <1>1, <1>3, <2>1 DEF Final
  <2>2. CASE Conclude
    <3>1. pc = "final" /\ got = AnswerTo(job)
      BY <1>3 DEF Final, HInv, StageInv
    <3>2. JobInv' /\ pc' \in {"check", "done"} /\ asked' \in Nat
      BY <2>2, <3>1, NextJob DEF JobInv
    <3>3. asked' < Len(SpdmRequests) => SpdmRequests[asked' + 1] \in Dword
      BY <3>2, HostAssumption, SMT
    <3>4. ASSUME NEW k \in 0..3, job = Discovery(k), walked = Walked(k)
          PROVE  WalkInv'
      <4>1. got[3] = ProtocolWord(k) /\ NextIndexOf(got) = NextIndex(k)
        BY <3>1, <3>4, DiscoveryAnswer DEF NextIndexOf
      <4>2. TypeOf(job[1]) = DOE_TYPE_DISC
        BY <3>4, DiscoveryJob
      <4>3. walked' = Walked(k + 1)
        BY <2>2, <3>4, <4>1, <4>2, WalkedOn DEF Conclude
      <4>4. CASE k # 3
        <5>1. k + 1 \in 0..3 /\ NextIndex(k) = k + 1 /\ k + 1 # 0
          BY <4>4, SMT DEF NextIndex, NUM_PROTOCOLS
        <5>2. job' = Discovery(k + 1) /\ pc' = "check"
          BY <2>2, <4>1, <4>2, <5>1 DEF Conclude
        <5> QED
          BY <4>3, <5>1, <5>2 DEF WalkInv
      <4>5. CASE k = 3
        <5>1. NextIndex(k) = 0 /\ k + 1 = 4
          BY <4>5, SMT DEF NextIndex, NUM_PROTOCOLS
        <5>2. \/ pc' = "done"
              \/ pc' = "check" /\ \E p \in Dword : job' = Spdm(p)
          BY <2>2, <3>3, <4>1, <4>2, <5>1 DEF Conclude
        <5> QED
          BY <4>3, <5>1, <5>2 DEF WalkInv
      <4> QED
        BY <4>4, <4>5
    <3>5. ASSUME NEW p \in Dword, job = Spdm(p), walked = Walked(4)
          PROVE  WalkInv'
      <4>1. TypeOf(job[1]) # DOE_TYPE_DISC
        BY <3>5, SpdmJob
      <4>2. walked' = walked
        BY <2>2, <4>1 DEF Conclude
      <4>3. \/ pc' = "done"
            \/ pc' = "check" /\ \E q \in Dword : job' = Spdm(q)
        BY <2>2, <3>3, <4>1 DEF Conclude
      <4> QED
        BY <3>5, <4>2, <4>3 DEF WalkInv
    <3> QED
      BY <3>1, <3>4, <3>5 DEF WalkInv
  <2> QED
    BY <2>1, <2>2
<1>4. CASE GiveUp
  BY <1>1, <1>4 DEF GiveUp, Running
<1>5. CASE Restart
  BY <1>1, <1>5 DEF Restart
<1>6. CASE UNCHANGED vars
  BY <1>1, <1>6 DEF vars, host
<1> QED
  BY <1>2, <1>3, <1>4, <1>5, <1>6 DEF HostNext, Finished

\* A driver that takes the next index from response dword 3, as the handler
\* of doe-emu writes it, meets every entry of protocols[] once and in order,
\* through any exchanges given up and any restarts it is told of.
THEOREM WalkComplete ==
  ASSUME RestartsElsewhere, NextInDword3
  PROVE  HostSpec => []WalkReportsAllProtocols
<1>1. HostInit => WalkInv
  <2> SUFFICES ASSUME HostInit PROVE WalkInv
    OBVIOUS
  <2>1. walked = Walked(0)
    BY SMT DEF HostInit, Walked
  <2>2. 0 \in 0..3 /\ job = Discovery(0) /\ pc # "done"
    BY SMT DEF HostInit
  <2> QED
    BY <2>1, <2>2 DEF WalkInv
<1>2. HInv /\ WalkInv /\ [HostNext]_vars => WalkInv'
  BY NextWalkInv
<1>3. WalkInv => WalkReportsAllProtocols
  BY DEF WalkInv, WalkReportsAllProtocols, Walked, NUM_PROTOCOLS
<1> QED
  BY <1>1, <1>2, <1>3, SpecHInv, PTL DEF HostSpec
=============================================================================
