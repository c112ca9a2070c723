----------------------------- MODULE MCDoeHost -----------------------------
(***************************************************************************)
(* The host and the emulator for TLC.                                      *)
(***************************************************************************)
EXTENDS DoeHost

MCHostDword == {0}

\* SPDM 1.0 GET_VERSION, 1.1 GET_CAPABILITIES, 1.2 NEGOTIATE_ALGORITHMS, and
\* GET_DIGESTS (0x81), which the emulator does not support.
MCSpdmRequests == << 33808, 57617, 58130, 33040 >>

\* Every point of an exchange but those where the host is taking words.
MCRestartAt == {"abort", "check", "write", "go", "poll", "final"}
=============================================================================
