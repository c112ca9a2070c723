--------------------------- MODULE DoeMailboxSpec ---------------------------
(***************************************************************************)
(* What a DOE mailbox promises to the host, without buffers or cursors: it *)
(* collects the words of one request, and holds the words of one response  *)
(* that the host takes in order.                                           *)
(***************************************************************************)
EXTENDS DoeProtocol

CONSTANTS Capacity,    \* words of a request the mailbox keeps
          HostDword    \* dwords a host may write

VARIABLES status,      \* the status register
          request,     \* words written since the last abort or submission
          response     \* words of the response not yet acknowledged

vars == <<status, request, response>>

\* What doe_process answers.  CXL table access, which discovery lists, is not
\* among it: such a request gets the error bit.
Supported(words) ==
  /\ Len(words) >= 3
  /\ Vid(words[1]) = DOE_VID_PCISIG
  /\ TypeOf(words[1]) \in
       {DOE_TYPE_DISC, DOE_TYPE_CMA_SPDM, DOE_TYPE_SECURED_CMA_SPDM}

\* What answers a supported request: a function of its own words alone.
Answer(words) ==
  IF TypeOf(words[1]) = DOE_TYPE_DISC
    THEN DiscoveryResponse(LowByte(words[3]))
    ELSE SpdmResponse(TypeOf(words[1]), words[3])

Init == /\ status = DOE_STATUS_IDLE
        /\ request = <<>>
        /\ response = <<>>

\* Words beyond the capacity are dropped.
Collect(word) ==
  /\ request' = IF Len(request) < Capacity THEN Append(request, word)
                                           ELSE request
  /\ UNCHANGED <<status, response>>

Abort == /\ status' = DOE_STATUS_IDLE
         /\ request' = <<>>
         /\ response' = <<>>

\* A response replaces what is left of the previous one; a request that is
\* not supported raises the error bit and leaves it in place.
Submit ==
  /\ request' = <<>>
  /\ \/ /\ Supported(request)
        /\ status' = DOE_STATUS_DATA_OBJECT_READY
        /\ response' = Answer(request)
     \/ /\ ~Supported(request)
        /\ status' = DOE_STATUS_ERROR
        /\ UNCHANGED response

\* Both control bits: the abort comes first, so the request is empty.
AbortAndSubmit == /\ status' = DOE_STATUS_ERROR
                  /\ request' = <<>>
                  /\ response' = <<>>

\* The host takes a word; taking the last one returns the mailbox to idle.
Acknowledge ==
  /\ UNCHANGED request
  /\ IF Len(response) > 1
       THEN response' = Tail(response) /\ UNCHANGED status
       ELSE response' = <<>> /\ status' = DOE_STATUS_IDLE

Next == \/ \E word \in HostDword : Collect(word)
        \/ Abort
        \/ Submit
        \/ AbortAndSubmit
        \/ Acknowledge

Spec == Init /\ [][Next]_vars
=============================================================================
