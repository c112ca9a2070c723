---------------------------- MODULE MCDoeMailbox ----------------------------
(***************************************************************************)
(* The mailbox for TLC.  Every dword below is one the host may write to    *)
(* any register: as a request header, as a payload, as a control word or   *)
(* as an acknowledgement.                                                  *)
(***************************************************************************)
EXTENDS DoeMailbox

Go == DOE_STATUS_DATA_OBJECT_READY   \* bit 31 alone: DOE_CTRL_GO

MCHostDword ==
  { 0,          \* acknowledgement; discovery index 0
    1,          \* DOE_CTRL_ABORT; header of DOE Discovery; discovery index 1
    4,          \* discovery index just past the table
    65537,      \* header of CMA/SPDM
    58128,      \* SPDM 1.0 NEGOTIATE_ALGORITHMS, the longest response
    Go,         \* DOE_CTRL_GO
    Go + 1 }    \* DOE_CTRL_ABORT and DOE_CTRL_GO in one write
=============================================================================
