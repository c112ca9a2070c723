-------------------------- MODULE DoeMailboxProofs --------------------------
(***************************************************************************)
(* Proofs about the mailbox for buffers of any size that holds the longest *)
(* response, and for every dword a host may write: its invariants, and     *)
(* that it implements the abstract mailbox.                                *)
(***************************************************************************)
EXTENDS DoeMailbox, TLAPS

Byte == 0..255

\* What every handler relies on when it fills rsp_buf: the words fit, they are
\* dwords, and the second of them is their number.
WellFormed(words) ==
  /\ words \in Seq(Dword)
  /\ Len(words) \in 3..MaxResponse
  /\ words[2] = Len(words)
-----------------------------------------------------------------------------
(* The responses *)

\* The fields taken from a request dword are bytes, whatever the dword.
LEMMA FieldsAreBytes ==
  ASSUME NEW dw \in Dword
  PROVE  LowByte(dw) \in Byte /\ HiByte(dw) \in Byte /\ TypeOf(dw) \in Byte
<1>1. dw \in Int  BY SMT DEF Dword
<1>2. dw % 256 \in 0..255  BY <1>1, SMT
<1>3. dw \div 256 \in Int /\ dw \div 65536 \in Int  BY <1>1, SMT
<1>4. (dw \div 256) % 256 \in 0..255  BY <1>3, SMT
<1>5. (dw \div 65536) % 256 \in 0..255  BY <1>3, SMT
<1> QED  BY <1>2, <1>4, <1>5, SMT DEF LowByte, HiByte, TypeOf, Byte

\* doe_handle_discovery answers every index, on and off the table, with a
\* well-formed object.
LEMMA DiscoveryWellFormed ==
  ASSUME NEW index \in Byte
  PROVE  WellFormed(DiscoveryResponse(index))
<1>1. Header(DOE_VID_PCISIG, DOE_TYPE_DISC) = 1
  BY SMT DEF Header, DOE_VID_PCISIG, DOE_TYPE_DISC
<1>2. ASSUME NEW second \in Dword, NEW third \in Dword
      PROVE  WellFormed(<< 1, 4 >> \o << second, third >>)
  <2>1. 1 \in Dword /\ 4 \in Dword
    BY SMT DEF Dword
  <2>2. /\ << 1, 4 >> \in Seq(Dword) /\ Len(<< 1, 4 >>) = 2
        /\ << second, third >> \in Seq(Dword) /\ Len(<< second, third >>) = 2
    BY <2>1, SMT
  <2>3. /\ << 1, 4 >> \o << second, third >> \in Seq(Dword)
        /\ Len(<< 1, 4 >> \o << second, third >>) = 4
    BY <2>2, SMT
  <2>4. (<< 1, 4 >> \o << second, third >>)[2] = 4
    BY <2>2, SMT
  <2> QED  BY <2>3, <2>4, SMT DEF WellFormed, MaxResponse
<1>3. CASE index < NUM_PROTOCOLS
  <2>1. index \in {0, 1, 2, 3}
    BY <1>3, SMT DEF NUM_PROTOCOLS, Byte
  <2>2. ProtocolWord(index) \in {1, 65537, 131073, 138904}
    BY <2>1, SMT DEF ProtocolWord, Header, protocols, DOE_VID_PCISIG,
       DOE_VID_CXL, DOE_TYPE_DISC, DOE_TYPE_CMA_SPDM, DOE_TYPE_SECURED_CMA_SPDM,
       DOE_TYPE_CXL_TABLE_ACCESS
  <2>3. ProtocolWord(index) \in Dword /\ NextIndex(index) \in Dword
    BY <2>1, <2>2, SMT DEF NextIndex, NUM_PROTOCOLS, Dword
  <2>4. DiscoveryResponse(index) =
          << 1, 4 >> \o << ProtocolWord(index), NextIndex(index) >>
    BY <1>1, <1>3 DEF DiscoveryResponse
  <2> QED  BY <1>2, <2>3, <2>4
<1>4. CASE ~(index < NUM_PROTOCOLS)
  <2>1. DiscoveryResponse(index) = << 1, 4 >> \o << 0, 0 >>
    BY <1>1, <1>4 DEF DiscoveryResponse
  <2>2. 0 \in Dword
    BY SMT DEF Dword
  <2> QED  BY <1>2, <2>1, <2>2
<1> QED  BY <1>3, <1>4

\* A string of 4, 12 or 36 bytes whose every fourth leaves bit 31 clear packs
\* into dwords, as many as spdm_finish counts.
LEMMA PackDwords ==
  ASSUME NEW m \in {1, 3, 9}, NEW bytes \in [1..(4 * m) -> Byte],
         \A i \in 1..m : bytes[4 * i] <= 127
  PROVE  /\ DwordCount(bytes) = m
         /\ Pack(bytes) \in [1..m -> Dword]
<1>1. Len(bytes) = 4 * m
  BY SMT
<1>2. DwordCount(bytes) = m
  BY <1>1, SMT DEF DwordCount
<1>3. ASSUME NEW i \in 1..m
      PROVE  Pack(bytes)[i] \in Dword
  <2> DEFINE a == bytes[4 * i - 3]
             b == bytes[4 * i - 2]
             c == bytes[4 * i - 1]
             d == bytes[4 * i]
  <2>1. /\ 4 * i - 3 \in 1..(4 * m) /\ 4 * i - 2 \in 1..(4 * m)
        /\ 4 * i - 1 \in 1..(4 * m) /\ 4 * i \in 1..(4 * m)
    BY SMT
  <2>2. a \in Byte /\ b \in Byte /\ c \in Byte /\ d \in Byte
    BY <2>1
  <2>3. d <= 127
    OBVIOUS
  <2>4. \A k \in 1..(4 * m) : PaddedByte(bytes, k) = bytes[k]
    BY <1>1, SMT DEF PaddedByte
  <2>5. Pack(bytes)[i] = a + 256 * b + 65536 * c + 16777216 * d
    BY <1>2, <2>1, <2>4, SMT DEF Pack
  <2> HIDE DEF a, b, c, d
  <2>6. a + 256 * b + 65536 * c + 16777216 * d \in Dword
    BY <2>2, <2>3, SMT DEF Byte, Dword
  <2> QED  BY <2>5, <2>6, SMT
<1> QED  BY <1>2, <1>3, SMT DEF Pack

\* The shape of the byte strings of spdm_handle.
Packable(bytes, m) == /\ bytes \in [1..(4 * m) -> Byte]
                      /\ \A i \in 1..m : bytes[4 * i] <= 127

\* Each of the four answers of spdm_handle has it.
LEMMA SpdmBytesPackable ==
  ASSUME NEW ver \in Byte, NEW code \in Byte
  PROVE  \E m \in {1, 3, 9} : Packable(SpdmBytes(ver, code), m)
<1>1. Packable(VersionBytes, 3)
  BY SMT DEF VersionBytes, SPDM_RSP_VERSION, Byte, Packable
<1>2. Packable(CapsBytes(ver), 3)
  BY SMT DEF CapsBytes, SPDM_RSP_CAPS, SPDM_CAP_FLAGS, Byte, Packable
<1>3. Packable(AlgosBytes(ver), 9)
  BY SMT DEF AlgosBytes, SPDM_RSP_ALGOS, SPDM_MEAS_DMTF, SPDM_ASYM_RSA2048,
     SPDM_HASH_SHA256, Byte, Packable
<1>4. Packable(ErrorBytes, 1)
  BY SMT DEF ErrorBytes, SPDM_RSP_ERROR, SPDM_ERR_UNSUP, Byte, Packable
<1>5. SpdmBytes(ver, code) \in
        {VersionBytes, CapsBytes(ver), AlgosBytes(ver), ErrorBytes}
  BY SMT DEF SpdmBytes
<1> QED  BY <1>1, <1>2, <1>3, <1>4, <1>5

\* spdm_handle answers every payload with a well-formed object.
LEMMA SpdmWellFormed ==
  ASSUME NEW doe_type \in {DOE_TYPE_CMA_SPDM, DOE_TYPE_SECURED_CMA_SPDM},
         NEW payload \in Dword
  PROVE  WellFormed(SpdmResponse(doe_type, payload))
<1> DEFINE bytes == SpdmBytes(LowByte(payload), HiByte(payload))
           first == Header(DOE_VID_PCISIG, doe_type)
           body  == Pack(bytes)
<1>1. PICK m \in {1, 3, 9} : Packable(bytes, m)
  BY FieldsAreBytes, SpdmBytesPackable
<1> HIDE DEF bytes
<1>2. DwordCount(bytes) = m /\ body \in [1..m -> Dword]
  BY <1>1, PackDwords DEF Packable
<1>3. SpdmResponse(doe_type, payload) = << first, 2 + m >> \o body
  BY <1>2 DEF SpdmResponse, spdm_finish, bytes
<1>4. first \in Dword /\ 2 + m \in Dword
  BY SMT DEF Header, DOE_VID_PCISIG, DOE_TYPE_CMA_SPDM,
     DOE_TYPE_SECURED_CMA_SPDM, Dword
<1> HIDE DEF body, first
<1>5. body \in Seq(Dword) /\ Len(body) = m
  BY <1>2, SMT
<1>6. /\ << first, 2 + m >> \in Seq(Dword)
      /\ Len(<< first, 2 + m >>) = 2
  BY <1>4, SMT
<1>7. << first, 2 + m >> \o body \in Seq(Dword)
  BY <1>5, <1>6
<1>8. Len(<< first, 2 + m >> \o body) = 2 + m
  BY <1>5, <1>6, SMT
<1>9. (<< first, 2 + m >> \o body)[2] = 2 + m
  BY <1>5, <1>6, SMT
<1>10. 2 + m \in 3..11
  BY SMT
<1> QED  BY <1>3, <1>7, <1>8, <1>9, <1>10, SMT DEF WellFormed, MaxResponse
-----------------------------------------------------------------------------
(* The inductive invariant *)

\* TypeOK is inductive, and the two safety properties are relative to it: a
\* response can be compared with its header only while rsp_len and rsp_idx are
\* within rsp_buf.
IInv == TypeOK /\ StatusMatchesResponse /\ LengthHeaderMatches

\* The three values of the status register differ.
LEMMA StatusValues ==
  /\ DOE_STATUS_IDLE # DOE_STATUS_ERROR
  /\ DOE_STATUS_IDLE # DOE_STATUS_DATA_OBJECT_READY
  /\ DOE_STATUS_ERROR # DOE_STATUS_DATA_OBJECT_READY
BY SMT DEF DOE_STATUS_IDLE, DOE_STATUS_ERROR, DOE_STATUS_DATA_OBJECT_READY

\* main() zeroes the struct, which establishes the invariant.
LEMMA InitIInv == Init => IInv
<1>1. 0 \in Dword
  BY SMT DEF Dword
<1> QED
  BY <1>1, StatusValues, ReqDwordsAssumption, RspDwordsAssumption, SMT
  DEF Init, IInv, TypeOK, StatusMatchesResponse, LengthHeaderMatches

\* Submitting a request, which changes the response fields only through Fail
\* or through Respond with a well-formed object.
LEMMA HandlersWellFormed ==
  ASSUME TypeOK, doe_process
  PROVE  Fail \/ \E words : WellFormed(words) /\ Respond(words)
<1>1. req_buf[2] \in Dword
  BY ReqDwordsAssumption, SMT DEF TypeOK
<1>2. CASE doe_handle_discovery
  BY <1>1, <1>2, FieldsAreBytes, DiscoveryWellFormed DEF doe_handle_discovery
<1>3. ASSUME NEW type \in {DOE_TYPE_CMA_SPDM, DOE_TYPE_SECURED_CMA_SPDM},
             spdm_handle(type)
      PROVE  Fail \/ \E words : WellFormed(words) /\ Respond(words)
  BY <1>1, <1>3, SpdmWellFormed DEF spdm_handle
<1> QED  BY <1>2, <1>3 DEF doe_process

\* A well-formed response keeps the invariant: it fits the buffer, and what it
\* leaves of an earlier response lies beyond rsp_len.
LEMMA RespondIInv ==
  ASSUME TypeOK, NEW words, WellFormed(words), Respond(words),
         req_len' \in 0..REQ_DWORDS, req_buf' = req_buf
  PROVE  IInv'
<1>1. /\ words \in Seq(Dword) /\ Len(words) \in 3..RSP_DWORDS
      /\ words[2] = Len(words)
  <2>1. RSP_DWORDS \in Nat /\ RSP_DWORDS >= 11
    BY RspDwordsAssumption DEF MaxResponse
  <2>2. /\ words \in Seq(Dword) /\ Len(words) \in 3..11
        /\ words[2] = Len(words)
    BY DEF WellFormed, MaxResponse
  <2>3. \A n \in 3..11 : n \in 3..RSP_DWORDS
    BY <2>1, SMT
  <2> QED  BY <2>2, <2>3
<1>2. rsp_buf' \in [0..(RSP_DWORDS - 1) -> Dword]
  BY <1>1, RspDwordsAssumption, SMT DEF TypeOK, Respond
<1>3. rsp_buf'[1] = Len(words)
  BY <1>1, RspDwordsAssumption, SMT DEF TypeOK, Respond
<1>4. TypeOK'
  BY <1>1, <1>2, SMT DEF TypeOK, Respond
<1>5. StatusMatchesResponse'
  BY <1>1, StatusValues, SMT DEF StatusMatchesResponse, Respond
<1>6. LengthHeaderMatches'
  BY <1>1, <1>3, SMT DEF LengthHeaderMatches, Respond
<1> QED  BY <1>4, <1>5, <1>6 DEF IInv

\* No register write breaks the invariant, whatever the dword written.
LEMMA WriteIInv ==
  ASSUME IInv, NEW reg, NEW val \in Dword, reg_write(reg, val) \/ UNCHANGED mailbox
  PROVE  IInv'
<1> USE DEF IInv
<1>1. CASE UNCHANGED mailbox
  BY <1>1 DEF mailbox, TypeOK, StatusMatchesResponse, LengthHeaderMatches
<1>2. CASE CtrlAbort
  BY <1>2, StatusValues, ReqDwordsAssumption, RspDwordsAssumption, SMT
  DEF CtrlAbort, TypeOK, StatusMatchesResponse, LengthHeaderMatches
<1>3. CASE CtrlAbortGo
  BY <1>3, StatusValues, ReqDwordsAssumption, RspDwordsAssumption, SMT
  DEF CtrlAbortGo, TypeOK, StatusMatchesResponse, LengthHeaderMatches
<1>4. CASE CtrlGo
  <2>1. req_len' \in 0..REQ_DWORDS /\ req_buf' = req_buf /\ doe_process
    BY <1>4, ReqDwordsAssumption, SMT DEF CtrlGo
  <2>2. CASE Fail
    BY <2>1, <2>2, StatusValues, SMT
    DEF Fail, TypeOK, StatusMatchesResponse, LengthHeaderMatches
  <2>3. CASE \E words : WellFormed(words) /\ Respond(words)
    BY <2>1, <2>3, RespondIInv
  <2> QED  BY <2>1, <2>2, <2>3, HandlersWellFormed
<1>5. CASE WriteMailbox(val)
  BY <1>5, ReqDwordsAssumption, SMT
  DEF WriteMailbox, TypeOK, StatusMatchesResponse, LengthHeaderMatches
<1>6. CASE AckRead(val)
  <2>1. CASE val # 0
    BY <1>6, <2>1 DEF AckRead, TypeOK, StatusMatchesResponse, LengthHeaderMatches
  <2>2. CASE val = 0 /\ rsp_idx + 1 >= rsp_len
    BY <1>6, <2>2, StatusValues, RspDwordsAssumption, SMT
    DEF AckRead, TypeOK, StatusMatchesResponse, LengthHeaderMatches
  <2>3. CASE val = 0 /\ ~(rsp_idx + 1 >= rsp_len)
    BY <1>6, <2>3, StatusValues, RspDwordsAssumption, SMT
    DEF AckRead, TypeOK, StatusMatchesResponse, LengthHeaderMatches
  <2> QED  BY <2>1, <2>2, <2>3
<1> QED
  BY <1>1, <1>2, <1>3, <1>4, <1>5, <1>6 DEF reg_write, WriteCtrl

\* The dwords of the host are dwords.
LEMMA NextIInv == IInv /\ [Next]_mailbox => IInv'
<1>1. 0 \in Dword
  BY SMT DEF Dword
<1> QED
  BY <1>1, WriteIInv, HostDwordAssumption DEF Next

\* Every reachable state of the mailbox satisfies the invariant.
LEMMA SpecIInv == Spec => []IInv
BY InitIInv, NextIInv, PTL DEF Spec

\* The lengths and the cursor that reg_write and the handlers maintain never
\* leave their buffers.
THEOREM TypeCorrect == Spec => []TypeOK
BY SpecIInv, PTL DEF IInv

\* STATUS never announces an object that is not there, and an idle mailbox
\* holds none: reg_write and doe_process keep the two in step.
THEOREM StatusSound == Spec => []StatusMatchesResponse
BY SpecIInv, PTL DEF IInv

\* The length a response announces in header dword 1 is the number of
\* acknowledgements after which reg_write empties the mailbox.
THEOREM LengthHeaderSound == Spec => []LengthHeaderMatches
BY SpecIInv, PTL DEF IInv
-----------------------------------------------------------------------------
(* The operators on data objects mean the same in the abstract mailbox. *)

\* The values of the status register.
LEMMA SameStatus ==
  /\ Abstract!DOE_STATUS_IDLE = DOE_STATUS_IDLE
  /\ Abstract!DOE_STATUS_ERROR = DOE_STATUS_ERROR
  /\ Abstract!DOE_STATUS_DATA_OBJECT_READY = DOE_STATUS_DATA_OBJECT_READY
  BY DEF Abstract!DOE_STATUS_IDLE, DOE_STATUS_IDLE, Abstract!DOE_STATUS_ERROR,
     DOE_STATUS_ERROR, Abstract!DOE_STATUS_DATA_OBJECT_READY,
     DOE_STATUS_DATA_OBJECT_READY

\* The fields of a dword, and the protocols served.
LEMMA SameFields ==
  /\ \A dw : /\ Abstract!Vid(dw) = Vid(dw) /\ Abstract!TypeOf(dw) = TypeOf(dw)
             /\ Abstract!LowByte(dw) = LowByte(dw) /\ Abstract!HiByte(dw) = HiByte(dw)
  /\ Abstract!DOE_VID_PCISIG = DOE_VID_PCISIG
  /\ Abstract!DOE_TYPE_DISC = DOE_TYPE_DISC
  /\ Abstract!DOE_TYPE_CMA_SPDM = DOE_TYPE_CMA_SPDM
  /\ Abstract!DOE_TYPE_SECURED_CMA_SPDM = DOE_TYPE_SECURED_CMA_SPDM
  BY DEF Abstract!Vid, Vid, Abstract!TypeOf, TypeOf, Abstract!LowByte, LowByte,
     Abstract!HiByte, HiByte, Abstract!DOE_VID_PCISIG, DOE_VID_PCISIG,
     Abstract!DOE_TYPE_DISC, DOE_TYPE_DISC, Abstract!DOE_TYPE_CMA_SPDM,
     DOE_TYPE_CMA_SPDM, Abstract!DOE_TYPE_SECURED_CMA_SPDM, DOE_TYPE_SECURED_CMA_SPDM

\* What answers a discovery request.
LEMMA SameDiscovery == \A i : Abstract!DiscoveryResponse(i) = DiscoveryResponse(i)
  BY DEF Abstract!DiscoveryResponse, DiscoveryResponse, Abstract!Header, Header,
     Abstract!ProtocolWord, ProtocolWord, Abstract!NextIndex, NextIndex,
     Abstract!NUM_PROTOCOLS, NUM_PROTOCOLS, Abstract!protocols, protocols,
     Abstract!DOE_VID_PCISIG, DOE_VID_PCISIG, Abstract!DOE_VID_CXL, DOE_VID_CXL,
     Abstract!DOE_TYPE_DISC, DOE_TYPE_DISC, Abstract!DOE_TYPE_CMA_SPDM,
     DOE_TYPE_CMA_SPDM, Abstract!DOE_TYPE_SECURED_CMA_SPDM, DOE_TYPE_SECURED_CMA_SPDM,
     Abstract!DOE_TYPE_CXL_TABLE_ACCESS, DOE_TYPE_CXL_TABLE_ACCESS

\* What answers an SPDM request.
LEMMA SameSpdm == \A t, dw : Abstract!SpdmResponse(t, dw) = SpdmResponse(t, dw)
<1>1. \A ver, code : Abstract!SpdmBytes(ver, code) = SpdmBytes(ver, code)
  BY DEF Abstract!SpdmBytes, SpdmBytes, Abstract!VersionBytes, VersionBytes,
     Abstract!CapsBytes, CapsBytes, Abstract!AlgosBytes, AlgosBytes,
     Abstract!ErrorBytes, ErrorBytes, Abstract!SPDM_GET_VERSION, SPDM_GET_VERSION,
     Abstract!SPDM_GET_CAPS, SPDM_GET_CAPS, Abstract!SPDM_NEG_ALGOS, SPDM_NEG_ALGOS,
     Abstract!SPDM_RSP_VERSION, SPDM_RSP_VERSION, Abstract!SPDM_RSP_CAPS, SPDM_RSP_CAPS,
     Abstract!SPDM_RSP_ALGOS, SPDM_RSP_ALGOS, Abstract!SPDM_RSP_ERROR, SPDM_RSP_ERROR,
     Abstract!SPDM_ERR_UNSUP, SPDM_ERR_UNSUP, Abstract!SPDM_CAP_FLAGS, SPDM_CAP_FLAGS,
     Abstract!SPDM_ASYM_RSA2048, SPDM_ASYM_RSA2048, Abstract!SPDM_HASH_SHA256,
     SPDM_HASH_SHA256, Abstract!SPDM_MEAS_DMTF, SPDM_MEAS_DMTF
<1>2. \A bytes : Abstract!DwordCount(bytes) = DwordCount(bytes)
  BY DEF Abstract!DwordCount, DwordCount
<1>3. \A bytes : Abstract!Pack(bytes) = Pack(bytes)
  BY DEF Abstract!Pack, Pack, Abstract!DwordCount, DwordCount, Abstract!PaddedByte,
     PaddedByte
<1>4. \A v, t : Abstract!Header(v, t) = Header(v, t)
  BY DEF Abstract!Header, Header
<1> QED
  BY <1>1, <1>2, <1>3, <1>4, SameFields, Zenon
     DEF Abstract!SpdmResponse, SpdmResponse, Abstract!spdm_finish, spdm_finish
-----------------------------------------------------------------------------
(* Sequences that are windows on a buffer. *)

\* A function on 1..n is a sequence of length n.
LEMMA Window ==
  ASSUME NEW S, NEW n \in Nat, NEW s \in [1..n -> S]
  PROVE  s \in Seq(S) /\ Len(s) = n
  OBVIOUS

\* Two sequences are compared element by element.
LEMMA SequenceIsItsElements ==
  ASSUME NEW S, NEW s \in Seq(S)
  PROVE  s = [i \in 1..Len(s) |-> s[i]]
  OBVIOUS

\* What doe.req_len and the rsp_len and rsp_idx pair stand for.
LEMMA WindowsTyped ==
  ASSUME TypeOK
  PROVE  /\ Request \in Seq(Dword) /\ Len(Request) = req_len
         /\ Response \in Seq(Dword) /\ Len(Response) = rsp_len - rsp_idx
<1>1. Request \in [1..req_len -> Dword] /\ req_len \in Nat
  BY ReqDwordsAssumption, SMT DEF TypeOK, Request
<1>2. /\ rsp_len - rsp_idx \in Nat
      /\ Response \in [1..(rsp_len - rsp_idx) -> Dword]
  BY RspDwordsAssumption, SMT DEF TypeOK, Response
<1> QED
  BY <1>1, <1>2, Window

\* A length of zero hides whatever the buffer holds.
LEMMA NoRequest == ASSUME req_len' = 0 PROVE Request' = <<>>
  BY SMT DEF Request

\* And so does an empty response.
LEMMA NoResponse == ASSUME rsp_len' = 0, rsp_idx' = 0 PROVE Response' = <<>>
  BY SMT DEF Response

\* A response is what the host reads from rsp_buf once Respond has filled it,
\* whatever was in the buffer before.
LEMMA RespondResponse ==
  ASSUME TypeOK, NEW words, WellFormed(words), Respond(words)
  PROVE  Response' = words
<1>1. words \in Seq(Dword) /\ Len(words) \in Nat /\ Len(words) <= RSP_DWORDS
  <2>1. RSP_DWORDS \in Nat /\ RSP_DWORDS >= 11
    BY RspDwordsAssumption DEF MaxResponse
  <2>2. words \in Seq(Dword) /\ Len(words) \in 3..11
    BY DEF WellFormed, MaxResponse
  <2>3. \A n \in 3..11 : n \in Nat /\ n <= RSP_DWORDS
    BY <2>1, SMT
  <2> QED
    BY <2>2, <2>3
<1>2. Response' = [i \in 1..Len(words) |-> rsp_buf'[i - 1]]
  BY <1>1, SMT DEF Respond, Response
<1>3. \A i \in 1..Len(words) : rsp_buf'[i - 1] = words[i]
  BY <1>1, RspDwordsAssumption, SMT DEF Respond, TypeOK
<1>4. words = [i \in 1..Len(words) |-> words[i]]
  BY <1>1, SequenceIsItsElements
<1> QED
  BY <1>2, <1>3, <1>4, Zenon
-----------------------------------------------------------------------------
(* One step of the mailbox is one step of the abstract mailbox. *)

\* The struct that main() zeroes is an empty mailbox.
LEMMA InitSimulates == Init => Abstract!Init
<1> SUFFICES ASSUME Init PROVE Abstract!Init
  OBVIOUS
<1>1. Request = <<>>
  BY SMT DEF Init, Request
<1>2. Response = <<>>
  BY SMT DEF Init, Response
<1> QED
  BY <1>1, <1>2, SameStatus DEF Init, Abstract!Init

\* A dword written to the mailbox extends the request while it fits.
LEMMA WriteSimulates ==
  ASSUME TypeOK, NEW val \in HostDword, WriteMailbox(val)
  PROVE  Abstract!Collect(val)
<1>1. Response' = Response /\ status' = status
  BY DEF WriteMailbox, Response
<1>2. Len(Request) = req_len /\ Request \in Seq(Dword) /\ val \in Dword
  BY WindowsTyped, HostDwordAssumption
<1>3. CASE req_len < REQ_DWORDS
  <2>1. req_buf' = [req_buf EXCEPT ![req_len] = val] /\ req_len' = req_len + 1
    BY <1>3 DEF WriteMailbox
  <2>2. req_len \in Nat /\ req_buf \in [0..(REQ_DWORDS - 1) -> Dword]
    BY ReqDwordsAssumption, SMT DEF TypeOK
  <2> DEFINE longer == Append(Request, val)
  <2>3. longer \in Seq(Dword) /\ Len(longer) = req_len + 1
    BY <1>2, <2>2, SMT
  <2>4. \A i \in 1..(req_len + 1) :
          longer[i] = IF i <= req_len THEN Request[i] ELSE val
    BY <1>2, <2>2, SMT
  <2>5. \A i \in 1..req_len : Request[i] = req_buf[i - 1]
    BY <2>2, SMT DEF Request
  <2> HIDE DEF longer
  <2>6. \A i \in 1..(req_len + 1) : longer[i] = req_buf'[i - 1]
    BY <2>1, <2>2, <2>4, <2>5, <1>3, ReqDwordsAssumption, SMT
  <2>7. longer = [i \in 1..(req_len + 1) |-> longer[i]]
    BY <2>3, SequenceIsItsElements
  <2>8. Request' = [i \in 1..(req_len + 1) |-> req_buf'[i - 1]]
    BY <2>1 DEF Request
  <2>9. Request' = longer
    BY <2>6, <2>7, <2>8, Zenon
  <2> QED
    BY <1>1, <1>2, <1>3, <2>9 DEF Abstract!Collect, longer
<1>4. CASE ~(req_len < REQ_DWORDS)
  <2>1. Request' = Request
    BY <1>4 DEF WriteMailbox, Request
  <2> QED
    BY <1>1, <1>2, <1>4, <2>1 DEF Abstract!Collect
<1> QED
  BY <1>3, <1>4
\* Acknowledging a dword drops the first word of the response, and the last
\* one returns the mailbox to idle.
LEMMA AckSimulates ==
  ASSUME TypeOK, AckRead(0)
  PROVE  Abstract!Acknowledge
<1>1. Request' = Request
  BY DEF AckRead, Request
<1>2. Len(Response) = rsp_len - rsp_idx /\ Response \in Seq(Dword)
  BY WindowsTyped
<1>3. rsp_len \in Nat /\ rsp_idx \in Nat /\ rsp_idx <= rsp_len
  BY RspDwordsAssumption, SMT DEF TypeOK
<1>4. CASE rsp_idx + 1 >= rsp_len
  <2>1. status' = DOE_STATUS_IDLE /\ rsp_len' = 0 /\ rsp_idx' = 0
    BY <1>4 DEF AckRead
  <2>2. ~(Len(Response) > 1)
    BY <1>2, <1>3, <1>4, SMT
  <2> QED
    BY <1>1, <2>1, <2>2, NoResponse, SameStatus DEF Abstract!Acknowledge
<1>5. CASE ~(rsp_idx + 1 >= rsp_len)
  <2>1. /\ rsp_idx' = rsp_idx + 1 /\ rsp_len' = rsp_len
        /\ rsp_buf' = rsp_buf /\ status' = status
    BY <1>5 DEF AckRead
  <2> DEFINE n == rsp_len - rsp_idx - 1
             rest == Tail(Response)
  <2>2. n \in Nat /\ n > 0 /\ Len(Response) = n + 1 /\ Len(Response) > 1
    BY <1>2, <1>3, <1>5, SMT
  <2>3. \A i \in 1..(n + 1) : Response[i] = rsp_buf[rsp_idx + i - 1]
    BY <1>3, SMT DEF Response
  <2>4. Response' = [i \in 1..n |-> rsp_buf[rsp_idx + 1 + i - 1]]
    <3>1. rsp_len - (rsp_idx + 1) = n
      BY <1>3, SMT
    <3> QED
      BY <2>1, <3>1 DEF Response
  <2> HIDE DEF n
  <2>5. /\ rest \in Seq(Dword) /\ Len(rest) = n
        /\ \A i \in 1..n : rest[i] = Response[i + 1]
    BY <1>2, <2>2, SMT
  <2> HIDE DEF rest
  <2>6. \A i \in 1..n : rest[i] = rsp_buf[rsp_idx + 1 + i - 1]
    <3> SUFFICES ASSUME NEW i \in 1..n PROVE rest[i] = rsp_buf[rsp_idx + 1 + i - 1]
      OBVIOUS
    <3>1. i + 1 \in 1..(n + 1) /\ rsp_idx + (i + 1) - 1 = rsp_idx + 1 + i - 1
      BY <1>3, <2>2, SMT
    <3> QED
      BY <2>3, <2>5, <3>1, Zenon
  <2>7. rest = [i \in 1..n |-> rest[i]]
    BY <2>5, SequenceIsItsElements
  <2>8. Response' = rest
    BY <2>4, <2>6, <2>7, Zenon
  <2> QED
    BY <1>1, <2>1, <2>2, <2>8 DEF Abstract!Acknowledge, rest
<1> QED
  BY <1>4, <1>5

\* The fields doe_process takes from req_buf are those of the request.
LEMMA SupportedRequest ==
  ASSUME TypeOK
  PROVE  /\ Abstract!Supported(Request) <=>
              /\ req_len >= 3
              /\ Vid(req_buf[0]) = DOE_VID_PCISIG
              /\ TypeOf(req_buf[0]) \in
                   {DOE_TYPE_DISC, DOE_TYPE_CMA_SPDM, DOE_TYPE_SECURED_CMA_SPDM}
         /\ req_len >= 3 =>
              Abstract!Answer(Request) =
                IF TypeOf(req_buf[0]) = DOE_TYPE_DISC
                  THEN DiscoveryResponse(LowByte(req_buf[2]))
                  ELSE SpdmResponse(TypeOf(req_buf[0]), req_buf[2])
<1>1. Len(Request) = req_len
  BY WindowsTyped
<1>2. req_len >= 3 => Request[1] = req_buf[0] /\ Request[3] = req_buf[2]
  BY ReqDwordsAssumption, SMT DEF TypeOK, Request
<1> QED
  BY <1>1, <1>2, SameFields, SameDiscovery, SameSpdm, Zenon
     DEF Abstract!Supported, Abstract!Answer

\* doe_process answers the request the host wrote since the last submission:
\* no dword of an earlier request that is still in req_buf counts.
LEMMA GoSimulates ==
  ASSUME TypeOK, CtrlGo
  PROVE  Abstract!Submit
<1>1. Request' = <<>>
  BY NoRequest DEF CtrlGo
<1>2. req_len \in Nat
  BY ReqDwordsAssumption, SMT DEF TypeOK
<1>3. req_len >= 3 => req_buf[2] \in Dword
  BY ReqDwordsAssumption, SMT DEF TypeOK
<1>4. ASSUME Fail, ~Abstract!Supported(Request)
      PROVE  Abstract!Submit
  <2>1. Response' = Response
    BY <1>4 DEF Fail, Response
  <2> QED
    BY <1>1, <1>4, <2>1, SameStatus DEF Fail, Abstract!Submit
<1>5. ASSUME NEW words, WellFormed(words), Respond(words),
             Abstract!Supported(Request), words = Abstract!Answer(Request)
      PROVE  Abstract!Submit
  <2>1. Response' = words
    BY <1>5, RespondResponse
  <2> QED
    BY <1>1, <1>5, <2>1, SameStatus DEF Respond, Abstract!Submit
<1>6. CASE req_len < 3
  <2>1. ~(req_len >= 3)
    BY <1>2, <1>6, SMT
  <2>2. Fail
    BY <1>6, <2>1 DEF CtrlGo, doe_process, doe_handle_discovery, spdm_handle
  <2> QED
    BY <1>4, <2>1, <2>2, SupportedRequest
<1>7. CASE ~(req_len < 3)
  <2>1. req_len >= 3 /\ req_len >= 2 /\ ~(req_len < 2)
    BY <1>2, <1>7, SMT
  <2>2. CASE Vid(req_buf[0]) = DOE_VID_PCISIG /\ TypeOf(req_buf[0]) = DOE_TYPE_DISC
    <3> DEFINE words == DiscoveryResponse(LowByte(req_buf[2]))
    <3>1. TypeOf(req_buf[0]) \notin {DOE_TYPE_CMA_SPDM, DOE_TYPE_SECURED_CMA_SPDM}
      BY <2>2, SMT DEF DOE_TYPE_DISC, DOE_TYPE_CMA_SPDM, DOE_TYPE_SECURED_CMA_SPDM
    <3>2. Respond(words)
      BY <1>7, <2>1, <2>2, <3>1 DEF CtrlGo, doe_process, doe_handle_discovery
    <3>3. WellFormed(words)
      BY <1>3, <2>1, FieldsAreBytes, DiscoveryWellFormed
    <3>4. Abstract!Supported(Request) /\ words = Abstract!Answer(Request)
      BY <2>1, <2>2, SupportedRequest
    <3> QED
      BY <1>5, <3>2, <3>3, <3>4
  <2>3. CASE /\ Vid(req_buf[0]) = DOE_VID_PCISIG
             /\ TypeOf(req_buf[0]) \in {DOE_TYPE_CMA_SPDM, DOE_TYPE_SECURED_CMA_SPDM}
    <3> DEFINE words == SpdmResponse(TypeOf(req_buf[0]), req_buf[2])
    <3>1. TypeOf(req_buf[0]) # DOE_TYPE_DISC
      BY <2>3, SMT DEF DOE_TYPE_DISC, DOE_TYPE_CMA_SPDM, DOE_TYPE_SECURED_CMA_SPDM
    <3>2. Respond(words)
      BY <1>7, <2>1, <2>3, <3>1 DEF CtrlGo, doe_process, spdm_handle
    <3>3. WellFormed(words)
      BY <1>3, <2>1, <2>3, SpdmWellFormed
    <3>4. Abstract!Supported(Request) /\ words = Abstract!Answer(Request)
      BY <2>1, <2>3, <3>1, SupportedRequest
    <3> QED
      BY <1>5, <3>2, <3>3, <3>4
  <2>4. CASE ~ /\ Vid(req_buf[0]) = DOE_VID_PCISIG
               /\ TypeOf(req_buf[0]) \in
                    {DOE_TYPE_DISC, DOE_TYPE_CMA_SPDM, DOE_TYPE_SECURED_CMA_SPDM}
    <3>1. Fail
      BY <2>1, <2>4 DEF CtrlGo, doe_process
    <3> QED
      BY <1>4, <2>4, <3>1, SupportedRequest
  <2> QED
    BY <2>2, <2>3, <2>4
<1> QED
  BY <1>6, <1>7

\* Every access to a register is a step of the abstract mailbox or changes
\* nothing it shows.
LEMMA NextSimulates ==
  ASSUME TypeOK, [Next]_mailbox
  PROVE  [Abstract!Next]_(Abstract!vars)
<1>1. CASE UNCHANGED mailbox
  BY <1>1 DEF mailbox, Abstract!vars, Request, Response
<1>2. ASSUME NEW val \in HostDword, WriteCtrl(val)
      PROVE  [Abstract!Next]_(Abstract!vars)
  <2>1. CASE CtrlAbort
    BY <2>1, NoRequest, NoResponse, SameStatus
       DEF CtrlAbort, Abstract!Abort, Abstract!Next
  <2>2. CASE CtrlAbortGo
    BY <2>2, NoRequest, NoResponse, SameStatus
       DEF CtrlAbortGo, Abstract!AbortAndSubmit, Abstract!Next
  <2>3. CASE CtrlGo
    BY <2>3, GoSimulates DEF Abstract!Next
  <2> QED
    BY <1>1, <1>2, <2>1, <2>2, <2>3 DEF WriteCtrl
<1>3. ASSUME NEW val \in HostDword, WriteMailbox(val)
      PROVE  [Abstract!Next]_(Abstract!vars)
  BY <1>3, WriteSimulates DEF Abstract!Next
<1>4. ASSUME NEW val \in HostDword, AckRead(val)
      PROVE  [Abstract!Next]_(Abstract!vars)
  <2>1. CASE val = 0
    BY <1>4, <2>1, AckSimulates DEF Abstract!Next
  <2>2. CASE val # 0
    BY <1>1, <1>4, <2>2 DEF AckRead, mailbox
  <2> QED
    BY <2>1, <2>2
<1> QED
  BY <1>1, <1>2, <1>3, <1>4 DEF Next, reg_write

\* doe-emu's mailbox, with its buffers that are never cleared and the cursors
\* over them, implements the abstract mailbox: every request is answered from
\* its own words alone and every response is read whole and in order.
THEOREM MailboxImplemented == Spec => ImplementsMailbox
<1>1. IInv /\ [Next]_mailbox => [Abstract!Next]_(Abstract!vars)
  BY NextSimulates DEF IInv
<1> QED
  BY <1>1, InitSimulates, SpecIInv, PTL DEF Spec, ImplementsMailbox, Abstract!Spec
=============================================================================
