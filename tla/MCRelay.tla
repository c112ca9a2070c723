------------------------------ MODULE MCRelay ------------------------------
(***************************************************************************)
(* The relay for TLC.                                                      *)
(***************************************************************************)
EXTENDS Relay

Op(type, reg, val) == [id |-> 0, type |-> type, offset |-> 400 + reg, value |-> val]

\* Reads of two registers that answer differently, and the write (GO) that
\* changes what one of them answers.
MCKernelOps == { Op(AVERY_OP_READ, DOE_REG_STATUS, 0),
                 Op(AVERY_OP_READ, DOE_REG_READ, 0),
                 Op(AVERY_OP_WRITE, DOE_REG_CTRL,
                    DOE_STATUS_DATA_OBJECT_READY) }

MCHostDword == {0}

\* Everywhere but between a request and its reply.
MCKillServerAt == {"accept", "recv", "write", "send"}
=============================================================================
