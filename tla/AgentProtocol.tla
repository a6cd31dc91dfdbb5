--------------------------- MODULE AgentProtocol ---------------------------
(***************************************************************************)
(* The request/response protocol that ProtocolHandlerImpl speaks to        *)
(* agentd: what each operation accepts as its answer and what it reports   *)
(* to its caller.  Constant level only: the state machine that runs these  *)
(* operations over a connection is RemoteAgentConnection.                  *)
(*                                                                         *)
(* Every operation follows one scheme.  The request is one encrypted       *)
(* packet.  Of the answer the header (5 bytes) is read first and decrypted *)
(* to a payload size; a size outside "sizes" is refused before the body is *)
(* read.  The body (MAC and payload) is read and decrypted, and then       *)
(*   - a request id other than "id" is an InvalidRequestIdException,       *)
(*   - a status other than 0 is reported as "bad",                         *)
(*   - a payload shorter than "record" is reported as "short",             *)
(*   - anything else is the value the caller asked for.                    *)
(* Sizes are in bytes: 3 * 4 is request id, status and offset; a UUID is   *)
(* 16.                                                                     *)
(***************************************************************************)
EXTENDS Integers, Sequences

\* The largest payload that decryptHeader lets through: 10 MB.
MaxPayload == 10 * 1024 * 1024

\* What an operation can report when the agent's answer was read and was
\* an answer to this kind of request.
Answers == {"value", "empty", "one"}

\* What an operation can throw.
Exceptions ==
  { "ConnectException", "NullPointerException", "IOException",
    "IllegalStateException", "InvalidPacketTypeException",
    "InvalidPayloadSizeException", "InvalidRequestIdException",
    "ErrorStatusException", "UnsupportedProtocolVersionException",
    "UnsupportedCryptoSuiteVersion", "AgentVerificationException",
    "MessageVerificationException" }

Outcomes == Answers \cup Exceptions

-----------------------------------------------------------------------------
(***************************************************************************)
(* The operations.  Each definition stands for the write and the read      *)
(* method of one operation.                                                *)
(***************************************************************************)

\* Second round of the handshake: the client's proof that it holds the key.
acknowledgeHandshake ==
  [id |-> 1, sizes |-> {12}, record |-> 12,
   bad |-> "ErrorStatusException", short |-> "InvalidPayloadSizeException"]

\* The status of a submission is read and then dropped, so every status is
\* reported alike.
submit ==
  [id |-> 3, sizes |-> {12}, record |-> 12,
   bad |-> "value", short |-> "InvalidPayloadSizeException"]

\* Mutant of getLatestBlockId: only the size of a value is accepted.
getLatestBlockId_ValueOnly ==
  [id |-> 2, sizes |-> {28}, record |-> 28,
   bad |-> "IOException", short |-> "InvalidPayloadSizeException"]

getLatestBlockId ==
  [id |-> 2, sizes |-> {12, 28}, record |-> 28,
   bad |-> "IOException", short |-> "InvalidPayloadSizeException"]

\* A query that answers Optional.empty() on any status but 0 and on any
\* payload too short for its record.
Query(id, record) ==
  [id |-> id, sizes |-> 12 .. MaxPayload, record |-> record,
   bad |-> "empty", short |-> "empty"]

\* The answer carries one UUID behind the three words.
UuidQuery(id) == Query(id, 3 * 4 + 16)

\* A certificate of at least one byte follows a header of four UUIDs and
\* two 8-byte words.
getBlockById == Query(4, 3 * 4 + 16 * 4 + 8 * 2 + 1)

getNextBlockId == UuidQuery(5)

getPrevBlockId == UuidQuery(6)

getBlockIdByBlockHeight == UuidQuery(7)

\* A certificate of at least one byte follows a header of five UUIDs, an
\* 8-byte word and a 4-byte word.
getTransactionById == Query(16, 3 * 4 + 16 * 5 + 8 * 1 + 4 * 1 + 1)

getTransactionNextId == UuidQuery(17)

getTransactionPreviousId == UuidQuery(18)

getTransactionBlockId == UuidQuery(19)

getArtifactFirstTxnId == UuidQuery(32)

getArtifactLastTxnId == UuidQuery(33)

\* 0 for an answer of status 0 (reported here as "value"), 1 for any other.
getConnectionStatus ==
  [id |-> 40960, sizes |-> 12 .. MaxPayload, record |-> 12,
   bad |-> "one", short |-> "one"]

Operation ==
  [ack |-> acknowledgeHandshake,
   submit |-> submit,
   getLatestBlockId |-> getLatestBlockId,
   getBlockById |-> getBlockById,
   getNextBlockId |-> getNextBlockId,
   getPrevBlockId |-> getPrevBlockId,
   getBlockIdByBlockHeight |-> getBlockIdByBlockHeight,
   getTransactionById |-> getTransactionById,
   getTransactionNextId |-> getTransactionNextId,
   getTransactionPreviousId |-> getTransactionPreviousId,
   getTransactionBlockId |-> getTransactionBlockId,
   getArtifactFirstTxnId |-> getArtifactFirstTxnId,
   getArtifactLastTxnId |-> getArtifactLastTxnId,
   getConnectionStatus |-> getConnectionStatus]

\* The operations of the ProtocolHandler interface other than handshake().
ClientOps == DOMAIN Operation \ {"ack"}

-----------------------------------------------------------------------------
(***************************************************************************)
(* Reading an answer.                                                      *)
(***************************************************************************)

\* What operation o makes of a decrypted payload p, in the order in which
\* the code looks at its fields.
ReadPayload(o, p) ==
  CASE p.id # Operation[o].id -> "InvalidRequestIdException"
    [] p.id = Operation[o].id /\ p.status # 0 -> Operation[o].bad
    [] p.id = Operation[o].id /\ p.status = 0 /\ p.size < Operation[o].record
         -> Operation[o].short
    [] OTHER -> "value"

-----------------------------------------------------------------------------
(***************************************************************************)
(* The first answer of the handshake, which is not encrypted.              *)
(***************************************************************************)

HandshakeSize == 164

\* What can be wrong with an answer beside its id, status and size: the
\* packet type, a field of the handshake record, or a packet's MAC.
PacketFaults ==
  {"none", "type", "version", "suite", "agent", "pubkey", "hmac", "mac"}

FaultException(fault) ==
  CASE fault = "version" -> "UnsupportedProtocolVersionException"
    [] fault = "suite" -> "UnsupportedCryptoSuiteVersion"
    [] fault \in {"agent", "pubkey"} -> "AgentVerificationException"
    [] OTHER -> "MessageVerificationException"

\* The answer's body stays in the channel when its header already fails.
HandshakeBodyUnread(p) == p.fault = "type" \/ p.size < 12

\* initiateHandshake accepts the answer: every check passes, the HMAC last.
HandshakeAccepts(p) ==
  p.fault = "none" /\ p.size = HandshakeSize /\ p.id = 0 /\ p.status = 0

\* Only the last check, the HMAC, fails.
HandshakeBadHmac(p) ==
  p.fault = "hmac" /\ p.size = HandshakeSize /\ p.id = 0 /\ p.status = 0

\* The exception of an answer that is not accepted.
HandshakeException(p) ==
  CASE p.fault = "type" -> "InvalidPacketTypeException"
    [] p.fault # "type" /\ p.size < 12 -> "InvalidPayloadSizeException"
    [] p.fault # "type" /\ p.size >= 12 /\ p.size # HandshakeSize
         -> "AgentVerificationException"
    [] p.fault # "type" /\ p.size = HandshakeSize /\ p.id # 0
         -> "InvalidRequestIdException"
    [] p.fault # "type" /\ p.size = HandshakeSize /\ p.id = 0 /\ p.status # 0
         -> "ErrorStatusException"
    [] OTHER -> FaultException(p.fault)
=============================================================================
