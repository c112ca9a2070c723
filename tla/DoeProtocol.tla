---------------------------- MODULE DoeProtocol ----------------------------
(***************************************************************************)
(* The data objects that doe-emu exchanges through the DOE mailbox: how a  *)
(* request is recognised and which words answer it.                        *)
(*                                                                         *)
(* A dword is the two's complement reading of a uint32_t, so that bit 31   *)
(* is the sign: 0x80000000 is -2147483648 and 0xFFFFFFFF is -1.            *)
(***************************************************************************)
EXTENDS Integers, Sequences

Dword == {dw \in Int : -2147483647 - 1 <= dw /\ dw <= 2147483647}

DOE_REG_CAP    == 4
DOE_REG_CTRL   == 8
DOE_REG_STATUS == 12
DOE_REG_WRITE  == 16
DOE_REG_READ   == 20

DOE_STATUS_IDLE              == 0
DOE_STATUS_ERROR             == 4
DOE_STATUS_DATA_OBJECT_READY == -2147483647 - 1

\* val & DOE_CTRL_ABORT and val & DOE_CTRL_GO
HasAbort(val) == val % 2 = 1
HasGo(val)    == val < 0

DOE_VID_PCISIG == 1
DOE_VID_CXL    == 7832     \* 0x1E98

DOE_TYPE_DISC             == 0
DOE_TYPE_CMA_SPDM         == 1
DOE_TYPE_SECURED_CMA_SPDM == 2
DOE_TYPE_CXL_TABLE_ACCESS == 2

\* The fields of header dword 0, and the two low bytes of a payload dword.
Vid(dw)     == dw % 65536
TypeOf(dw)  == (dw \div 65536) % 256
LowByte(dw) == dw % 256
HiByte(dw)  == (dw \div 256) % 256

Header(vid, type) == vid + type * 65536
-----------------------------------------------------------------------------
(* DOE Discovery *)

protocols ==
  << [vid |-> DOE_VID_PCISIG, type |-> DOE_TYPE_DISC],
     [vid |-> DOE_VID_PCISIG, type |-> DOE_TYPE_CMA_SPDM],
     [vid |-> DOE_VID_PCISIG, type |-> DOE_TYPE_SECURED_CMA_SPDM],
     [vid |-> DOE_VID_CXL,    type |-> DOE_TYPE_CXL_TABLE_ACCESS] >>

NUM_PROTOCOLS == 4

ProtocolWord(index) ==
  Header(protocols[index + 1].vid, protocols[index + 1].type)

\* A walk that never wraps runs off the table instead of ending.
MutNextIndex(index) == index + 1

NextIndex(index) == IF index + 1 < NUM_PROTOCOLS THEN index + 1 ELSE 0

DiscoveryResponse(index) ==
  << Header(DOE_VID_PCISIG, DOE_TYPE_DISC), 4 >> \o
  (IF index < NUM_PROTOCOLS
     THEN << ProtocolWord(index), NextIndex(index) >>
     ELSE << 0, 0 >>)
-----------------------------------------------------------------------------
(* SPDM over CMA and secured CMA: a response is a string of bytes, packed   *)
(* little endian into the dwords that follow the two DOE header dwords.     *)

SPDM_GET_VERSION == 132   \* 0x84
SPDM_GET_CAPS    == 225   \* 0xE1
SPDM_NEG_ALGOS   == 227   \* 0xE3
SPDM_RSP_VERSION == 4
SPDM_RSP_CAPS    == 97    \* 0x61
SPDM_RSP_ALGOS   == 99    \* 0x63
SPDM_RSP_ERROR   == 127   \* 0x7F
SPDM_ERR_UNSUP   == 7

SPDM_CAP_FLAGS    == 4 + 8 + 32   \* CERT | CHAL | MEAS
SPDM_ASYM_RSA2048 == 2
SPDM_HASH_SHA256  == 1
SPDM_MEAS_DMTF    == 1

VersionBytes ==
  << 16, SPDM_RSP_VERSION, 0, 0,   0, 0, 2, 0,   0, 16, 0, 18 >>

CapsBytes(ver) ==
  << ver, SPDM_RSP_CAPS, 0, 0,   0, 12, 0, 0,   SPDM_CAP_FLAGS, 0, 0, 0 >>

\* memset(rsp, 0, 36) and then the fields; byte k of the source is k + 1 here
AlgosBytes(ver) ==
  [[k \in 1..36 |-> 0] EXCEPT
     ![1] = ver, ![2] = SPDM_RSP_ALGOS, ![5] = 36, ![7] = SPDM_MEAS_DMTF,
     ![9] = SPDM_ASYM_RSA2048, ![13] = SPDM_HASH_SHA256]

ErrorBytes == << 16, SPDM_RSP_ERROR, SPDM_ERR_UNSUP, 0 >>

SpdmBytes(ver, code) ==
  CASE code = SPDM_GET_VERSION -> VersionBytes
    [] code = SPDM_GET_CAPS    -> CapsBytes(ver)
    [] code = SPDM_NEG_ALGOS   -> AlgosBytes(ver)
    [] OTHER                   -> ErrorBytes

\* Dwords a string of bytes occupies once spdm_finish has padded it.
DwordCount(bytes) == (Len(bytes) + 3) \div 4

\* Byte k of the padded string.
PaddedByte(bytes, k) == IF k <= Len(bytes) THEN bytes[k] ELSE 0

Pack(bytes) ==
  [i \in 1..DwordCount(bytes) |->
     PaddedByte(bytes, 4 * i - 3) + 256 * PaddedByte(bytes, 4 * i - 2) +
     65536 * PaddedByte(bytes, 4 * i - 1) + 16777216 * PaddedByte(bytes, 4 * i)]

\* A length header that counts the SPDM dwords and forgets the two headers.
MutSpdmFinish(doe_type, bytes) ==
  << Header(DOE_VID_PCISIG, doe_type), DwordCount(bytes) >> \o Pack(bytes)

spdm_finish(doe_type, bytes) ==
  << Header(DOE_VID_PCISIG, doe_type), 2 + DwordCount(bytes) >> \o Pack(bytes)

SpdmResponse(doe_type, payload) ==
  spdm_finish(doe_type, SpdmBytes(LowByte(payload), HiByte(payload)))

\* No response is longer: ALGORITHMS, two headers and nine dwords.
MaxResponse == 11
=============================================================================
