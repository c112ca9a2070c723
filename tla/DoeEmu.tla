------------------------------- MODULE DoeEmu -------------------------------
(***************************************************************************)
(* The doe-emu process around the mailbox: one turn of run() serves one    *)
(* simics_transaction_t.  The emulator is not told where the DOE           *)
(* capability sits in config space; it takes the first read it sees for a  *)
(* read of STATUS and computes cap_base from it.                           *)
(*                                                                         *)
(* Of a transaction the model keeps the fields run() looks at or echoes.   *)
(* offset and cap_base are uint32_t in the code; reg is a difference of    *)
(* the two, so it is the same whether or not the subtraction in cap_base   *)
(* wraps.                                                                  *)
(***************************************************************************)
EXTENDS DoeMailbox

VARIABLES cap_base, cap_detected,
          rsp            \* the last reply written to reply_server_pipe

emu == <<mailbox, cap_base, cap_detected, rsp>>

Transaction(packet_number, r0w1, address, data) ==
  [packet_number |-> packet_number, r0w1 |-> r0w1,
   physical_address |-> address, data |-> data]

Reply(req, val) ==
  [packet_number |-> req.packet_number, r0w1 |-> req.r0w1, data |-> val]

NoReply == [packet_number |-> 0, r0w1 |-> 0, data |-> 0]

EmuInit == /\ Init
           /\ cap_base = 0
           /\ cap_detected = FALSE
           /\ rsp = NoReply

\* An emulator that takes cap_base from the first access of either kind.
MutSkipWrite(req) ==
  /\ ~cap_detected /\ req.r0w1 = 1
  /\ rsp' = Reply(req, 0)
  /\ cap_base' = req.physical_address - DOE_REG_STATUS
  /\ cap_detected' = TRUE
  /\ UNCHANGED mailbox

\* Writes that come before the first read are acknowledged and dropped.
SkipWrite(req) ==
  /\ ~cap_detected /\ req.r0w1 = 1
  /\ rsp' = Reply(req, 0)
  /\ UNCHANGED <<mailbox, cap_base, cap_detected>>

CapBase(req) == IF cap_detected THEN cap_base
                                ELSE req.physical_address - DOE_REG_STATUS

Access(req) ==
  LET base == CapBase(req)
      reg  == req.physical_address - base
  IN /\ cap_detected \/ req.r0w1 = 0
     /\ cap_base' = base
     /\ cap_detected' = TRUE
     /\ \/ /\ req.r0w1 = 0
           /\ rsp' = Reply(req, reg_read(reg))
           /\ UNCHANGED mailbox
        \/ /\ req.r0w1 = 1
           /\ reg_write(reg, req.data)
           /\ rsp' = Reply(req, 0)

Serve(req) == SkipWrite(req) \/ Access(req)

\* A process that starts again has lost the whole struct doe.
EmuRestart == /\ status' = DOE_STATUS_IDLE
              /\ req_buf' = [i \in 0..(REQ_DWORDS - 1) |-> 0]
              /\ req_len' = 0
              /\ rsp_buf' = [i \in 0..(RSP_DWORDS - 1) |-> 0]
              /\ rsp_len' = 0
              /\ rsp_idx' = 0
              /\ cap_base' = 0
              /\ cap_detected' = FALSE
              /\ UNCHANGED rsp
=============================================================================
