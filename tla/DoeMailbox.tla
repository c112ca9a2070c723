----------------------------- MODULE DoeMailbox -----------------------------
(***************************************************************************)
(* The DOE mailbox state machine of doe-emu.c: the static struct doe (less *)
(* its cap_base, which DoeEmu adds) and the register accesses that read    *)
(* and change it.                                                          *)
(***************************************************************************)
EXTENDS DoeProtocol

CONSTANTS REQ_DWORDS,   \* size of doe.req_buf; 68 (DOE_BUF_DWORDS) in the code
          RSP_DWORDS,   \* size of doe.rsp_buf; 68 (DOE_BUF_DWORDS) in the code
          HostDword     \* dwords the host may write to a register

ASSUME ReqDwordsAssumption == REQ_DWORDS \in Nat /\ REQ_DWORDS >= 3
ASSUME RspDwordsAssumption == RSP_DWORDS \in Nat /\ RSP_DWORDS >= MaxResponse
ASSUME HostDwordAssumption == HostDword \subseteq Dword

VARIABLES status, req_buf, req_len, rsp_buf, rsp_len, rsp_idx

mailbox == <<status, req_buf, req_len, rsp_buf, rsp_len, rsp_idx>>

Reg == {DOE_REG_CAP, DOE_REG_CTRL, DOE_REG_STATUS, DOE_REG_WRITE, DOE_REG_READ}

\* memset(&doe, 0, sizeof(doe))
Init == /\ status = DOE_STATUS_IDLE
        /\ req_buf = [i \in 0..(REQ_DWORDS - 1) |-> 0]
        /\ req_len = 0
        /\ rsp_buf = [i \in 0..(RSP_DWORDS - 1) |-> 0]
        /\ rsp_len = 0
        /\ rsp_idx = 0
-----------------------------------------------------------------------------
(* Protocol handlers.  Each sets status, rsp_buf, rsp_len and rsp_idx. *)

\* doe.status = DOE_STATUS_ERROR; return: the response fields keep their values
Fail == /\ status' = DOE_STATUS_ERROR
        /\ UNCHANGED <<rsp_buf, rsp_len, rsp_idx>>

\* A handler's response overwrites the front of rsp_buf; what an earlier,
\* longer response left behind it stays.
Respond(words) ==
  /\ rsp_buf' = [i \in DOMAIN rsp_buf |->
                   IF i < Len(words) THEN words[i + 1] ELSE rsp_buf[i]]
  /\ rsp_len' = Len(words)
  /\ rsp_idx' = 0
  /\ status' = DOE_STATUS_DATA_OBJECT_READY

\* A handler that trusts the buffer instead of req_len answers the payload
\* dword that an earlier request left there.
MutDiscovery == Respond(DiscoveryResponse(LowByte(req_buf[2])))

doe_handle_discovery ==
  \/ req_len < 3 /\ Fail
  \/ req_len >= 3 /\ Respond(DiscoveryResponse(LowByte(req_buf[2])))

spdm_handle(doe_type) ==
  \/ req_len < 3 /\ Fail
  \/ req_len >= 3 /\ Respond(SpdmResponse(doe_type, req_buf[2]))

doe_process ==
  LET vid  == Vid(req_buf[0])
      type == TypeOf(req_buf[0])
      spdm == type \in {DOE_TYPE_CMA_SPDM, DOE_TYPE_SECURED_CMA_SPDM}
  IN \/ /\ req_len < 2
        /\ Fail
     \/ /\ req_len >= 2 /\ vid = DOE_VID_PCISIG /\ type = DOE_TYPE_DISC
        /\ doe_handle_discovery
     \/ /\ req_len >= 2 /\ vid = DOE_VID_PCISIG /\ spdm
        /\ spdm_handle(type)
     \/ /\ req_len >= 2 /\ ~(vid = DOE_VID_PCISIG /\ (type = DOE_TYPE_DISC \/ spdm))
        /\ Fail
-----------------------------------------------------------------------------
(* Register accesses *)

\* reg_read changes nothing: the host advances the mailbox by a write.
reg_read(reg) ==
  CASE reg = DOE_REG_STATUS -> status
    [] reg = DOE_REG_READ   -> IF rsp_idx >= rsp_len THEN -1
                                                     ELSE rsp_buf[rsp_idx]
    [] OTHER                -> 0

\* An abort that keeps the words of the request it gives up.
MutCtrlAbort == /\ status' = DOE_STATUS_IDLE
                /\ rsp_len' = 0
                /\ rsp_idx' = 0
                /\ UNCHANGED <<req_buf, req_len, rsp_buf>>

CtrlAbort == /\ status' = DOE_STATUS_IDLE
             /\ req_len' = 0
             /\ rsp_len' = 0
             /\ rsp_idx' = 0
             /\ UNCHANGED <<req_buf, rsp_buf>>

CtrlGo == /\ doe_process
          /\ req_len' = 0
          /\ UNCHANGED req_buf

\* Both bits in one write: the abort has set req_len to 0 when doe_process
\* runs, which therefore fails.
CtrlAbortGo == /\ status' = DOE_STATUS_ERROR
               /\ req_len' = 0
               /\ rsp_len' = 0
               /\ rsp_idx' = 0
               /\ UNCHANGED <<req_buf, rsp_buf>>

WriteCtrl(val) ==
  \/ HasAbort(val) /\ HasGo(val) /\ CtrlAbortGo
  \/ HasAbort(val) /\ ~HasGo(val) /\ CtrlAbort
  \/ ~HasAbort(val) /\ HasGo(val) /\ CtrlGo
  \/ ~HasAbort(val) /\ ~HasGo(val) /\ UNCHANGED mailbox

\* A mailbox that lets the write past the end of req_buf count.
MutWriteMailbox(val) ==
  /\ req_buf' = IF req_len < REQ_DWORDS THEN [req_buf EXCEPT ![req_len] = val]
                                        ELSE req_buf
  /\ req_len' = req_len + 1
  /\ UNCHANGED <<status, rsp_buf, rsp_len, rsp_idx>>

WriteMailbox(val) ==
  /\ IF req_len < REQ_DWORDS
       THEN /\ req_buf' = [req_buf EXCEPT ![req_len] = val]
            /\ req_len' = req_len + 1
       ELSE UNCHANGED <<req_buf, req_len>>
  /\ UNCHANGED <<status, rsp_buf, rsp_len, rsp_idx>>

\* An acknowledgement that tests for the end of the response before it moves
\* the cursor.
MutAckRead(val) ==
  /\ IF val # 0
       THEN UNCHANGED <<status, rsp_len, rsp_idx>>
       ELSE IF rsp_idx >= rsp_len
         THEN status' = DOE_STATUS_IDLE /\ rsp_len' = 0 /\ rsp_idx' = 0
         ELSE rsp_idx' = rsp_idx + 1 /\ UNCHANGED <<status, rsp_len>>
  /\ UNCHANGED <<req_buf, req_len, rsp_buf>>

\* Host writes 0 to acknowledge a dword; the last one empties the mailbox.
AckRead(val) ==
  /\ IF val # 0
       THEN UNCHANGED <<status, rsp_len, rsp_idx>>
       ELSE IF rsp_idx + 1 >= rsp_len
         THEN status' = DOE_STATUS_IDLE /\ rsp_len' = 0 /\ rsp_idx' = 0
         ELSE rsp_idx' = rsp_idx + 1 /\ UNCHANGED <<status, rsp_len>>
  /\ UNCHANGED <<req_buf, req_len, rsp_buf>>

reg_write(reg, val) ==
  \/ reg = DOE_REG_CTRL /\ WriteCtrl(val)
  \/ reg = DOE_REG_WRITE /\ WriteMailbox(val)
  \/ reg = DOE_REG_READ /\ AckRead(val)
  \/ reg \notin {DOE_REG_CTRL, DOE_REG_WRITE, DOE_REG_READ} /\ UNCHANGED mailbox

Next == \E reg \in Reg, val \in HostDword : reg_write(reg, val)

Spec == Init /\ [][Next]_mailbox
-----------------------------------------------------------------------------
(* Properties *)

\* Every field of the struct stays in its range: both lengths within their
\* buffers, the read cursor within the response.
TypeOK ==
  /\ status \in {DOE_STATUS_IDLE, DOE_STATUS_ERROR, DOE_STATUS_DATA_OBJECT_READY}
  /\ req_buf \in [0..(REQ_DWORDS - 1) -> Dword]
  /\ req_len \in 0..REQ_DWORDS
  /\ rsp_buf \in [0..(RSP_DWORDS - 1) -> Dword]
  /\ rsp_len \in 0..RSP_DWORDS
  /\ rsp_idx \in 0..rsp_len

\* The status register tells the truth about the response buffer: DATA OBJECT
\* READY is shown only while a dword is left to read (a host that polls STATUS
\* never reads the all-ones of a READ overrun), and an idle mailbox holds none.
\* Only an error may hide an unread response.
StatusMatchesResponse ==
  /\ status = DOE_STATUS_DATA_OBJECT_READY => rsp_idx < rsp_len
  /\ status = DOE_STATUS_IDLE => rsp_len = 0

\* A response in the buffer announces its own length: header dword 1, from
\* which the host takes how many dwords to read and acknowledge, is the number
\* of acknowledgements after which reg_write returns the mailbox to idle.
LengthHeaderMatches ==
  rsp_len > 0 => rsp_idx < rsp_len /\ rsp_buf[1] = rsp_len

\* The words the host wrote since the last submission, and the words of the
\* response it has not acknowledged.
Request  == [i \in 1..req_len |-> req_buf[i - 1]]
Response == [i \in 1..(rsp_len - rsp_idx) |-> rsp_buf[rsp_idx + i - 1]]

Abstract == INSTANCE DoeMailboxSpec
              WITH Capacity <- REQ_DWORDS, request <- Request,
                   response <- Response

\* The buffers that are never cleared and the cursors over them behave as the
\* abstract mailbox: no request is answered with a dword of an earlier one, no
\* response shows the tail of a longer one, no word is skipped or repeated.
ImplementsMailbox == Abstract!Spec
=============================================================================
