-------------------- MODULE RemoteAgentConnectionProofs --------------------
(***************************************************************************)
(* Theorems about RemoteAgentConnection for every set of operations, every *)
(* number of calls and connections, and every environment.                 *)
(***************************************************************************)
EXTENDS RemoteAgentConnection, SequenceTheorems, TLAPS

-----------------------------------------------------------------------------
(***************************************************************************)
(* What the operators of AgentProtocol return.                             *)
(***************************************************************************)

\* Every operation has a numeric request id and record size, and reports a
\* bad status and a short payload with an outcome.
LEMMA OperationType ==
  \A o \in ClientOps \cup {"ack"} :
    /\ Operation[o].id \in Nat
    /\ Operation[o].record \in Nat
    /\ Operation[o].bad \in Outcomes
    /\ Operation[o].short \in Outcomes
<1> SUFFICES ASSUME NEW o \in DOMAIN Operation
             PROVE  /\ Operation[o].id \in Nat
                    /\ Operation[o].record \in Nat
                    /\ Operation[o].bad \in Outcomes
                    /\ Operation[o].short \in Outcomes
  BY DEF ClientOps, Operation
<1>1. /\ "value" \in Outcomes /\ "empty" \in Outcomes /\ "one" \in Outcomes
      /\ "IOException" \in Outcomes /\ "ErrorStatusException" \in Outcomes
      /\ "InvalidPayloadSizeException" \in Outcomes
  BY DEF Outcomes, Answers, Exceptions
<1>2. Operation[o].id \in Nat
  BY DEF Operation, acknowledgeHandshake, submit, getLatestBlockId,
       getBlockById, getNextBlockId, getPrevBlockId, getBlockIdByBlockHeight,
       getTransactionById, getTransactionNextId, getTransactionPreviousId,
       getTransactionBlockId, getArtifactFirstTxnId, getArtifactLastTxnId,
       getConnectionStatus, Query, UuidQuery
<1>3. Operation[o].record \in Nat
  BY DEF Operation, acknowledgeHandshake, submit, getLatestBlockId,
       getBlockById, getNextBlockId, getPrevBlockId, getBlockIdByBlockHeight,
       getTransactionById, getTransactionNextId, getTransactionPreviousId,
       getTransactionBlockId, getArtifactFirstTxnId, getArtifactLastTxnId,
       getConnectionStatus, Query, UuidQuery
<1>4. Operation[o].bad \in Outcomes
  BY <1>1 DEF Operation, acknowledgeHandshake, submit, getLatestBlockId,
       getBlockById, getNextBlockId, getPrevBlockId, getBlockIdByBlockHeight,
       getTransactionById, getTransactionNextId, getTransactionPreviousId,
       getTransactionBlockId, getArtifactFirstTxnId, getArtifactLastTxnId,
       getConnectionStatus, Query, UuidQuery
<1>5. Operation[o].short \in Outcomes
  BY <1>1 DEF Operation, acknowledgeHandshake, submit, getLatestBlockId,
       getBlockById, getNextBlockId, getPrevBlockId, getBlockIdByBlockHeight,
       getTransactionById, getTransactionNextId, getTransactionPreviousId,
       getTransactionBlockId, getArtifactFirstTxnId, getArtifactLastTxnId,
       getConnectionStatus, Query, UuidQuery
<1>. QED
  BY <1>2, <1>3, <1>4, <1>5

\* An operation makes an outcome of every payload.
LEMMA ReadPayloadType ==
  ASSUME NEW o \in ClientOps \cup {"ack"}, NEW p
  PROVE  ReadPayload(o, p) \in Outcomes
<1>1. "InvalidRequestIdException" \in Outcomes /\ "value" \in Outcomes
  BY DEF Outcomes, Answers, Exceptions
<1>. QED
  BY <1>1, OperationType DEF ReadPayload

\* A handshake answer that is refused is refused with an exception.
LEMMA HandshakeExceptionType ==
  ASSUME NEW p
  PROVE  HandshakeException(p) \in Outcomes
BY DEF HandshakeException, FaultException, Outcomes, Exceptions

ReplyFields == [id : Nat, status : Nat, size : Nat, fault : PacketFaults]

\* What the agent may answer has the fields of an answer.
LEMMA HandshakeRepliesType == HandshakeReplies \subseteq ReplyFields
<1> DEFINE welcome == [id |-> 0, status |-> 0, size |-> HandshakeSize,
                       fault |-> "none"]
<1>1. welcome \in ReplyFields
  BY DEF ReplyFields, PacketFaults, HandshakeSize
<1>2. [welcome EXCEPT !.status = 1, !.size = 12] \in ReplyFields
  BY <1>1 DEF ReplyFields
<1>3. \A f \in PacketFaults : [welcome EXCEPT !.fault = f] \in ReplyFields
  BY <1>1 DEF ReplyFields
<1>4. /\ [welcome EXCEPT !.id = 1] \in ReplyFields
      /\ [welcome EXCEPT !.status = 1] \in ReplyFields
      /\ [welcome EXCEPT !.size = 8] \in ReplyFields
  BY <1>1 DEF ReplyFields
<1>. QED
  BY <1>1, <1>2, <1>3, <1>4 DEF HandshakeReplies

\* Nor does an answer to an operation lack one.
LEMMA OperationRepliesType ==
  ASSUME NEW o \in ClientOps \cup {"ack"}
  PROVE  OperationReplies(o) \subseteq ReplyFields
<1> DEFINE result == [id |-> Operation[o].id, status |-> 0,
                      size |-> Operation[o].record, fault |-> "none"]
<1>1. result \in ReplyFields
  BY OperationType DEF ReplyFields, PacketFaults
<1>2. [result EXCEPT !.status = 1, !.size = 12] \in ReplyFields
  BY <1>1 DEF ReplyFields
<1>3. \A n \in ReplySizes : [result EXCEPT !.size = n] \in ReplyFields
  BY <1>1, ReplySizesAssumption DEF ReplyFields
<1>4. [result EXCEPT !.id = 0] \in ReplyFields
  BY <1>1 DEF ReplyFields
<1>5. [result EXCEPT !.fault = "mac"] \in ReplyFields
  BY <1>1 DEF ReplyFields, PacketFaults
<1>. QED
  BY <1>1, <1>2, <1>3, <1>4, <1>5 DEF OperationReplies

-----------------------------------------------------------------------------
(***************************************************************************)
(* Type correctness.                                                       *)
(***************************************************************************)

\* The agent never has to answer a second handshake packet: only the first
\* packet of a connection is one, and it is not encrypted.
TypeInv ==
  /\ TypeOK
  /\ phase # "none" => conn > 0
  /\ \A i \in 1 .. Len(c2s) : c2s[i].op = "handshake" => c2s[i].key = NoKey

Calls == [op : Ops \cup {"connect"}, no : Nat]

\* The parts of TypeOK that Transmit and EncryptFails can change.
LEMMA TransmitType ==
  ASSUME TypeInv, NEW o \in Ops \cup {"ack"}, NEW c \in Calls,
         NEW cont \in PCs \ {"idle"},
         Transmit(o, c, cont) \/ EncryptFails(c),
         calls' \in 0 .. MaxCalls,
         call' = (IF pc' = "idle" THEN NoCall ELSE c),
         UNCHANGED <<agentVars, executed, accepted, connected, tainted>>
  PROVE  TypeInv'
<1>. USE DEF TypeInv, TypeOK, Calls
<1>0. c.op \in Ops \cup {"connect"} /\ c.no \in Nat /\ c.op # "none"
  BY OpsAssumption DEF ClientOps, Operation
<1>1. "IOException" \in Outcomes /\ "IllegalStateException" \in Outcomes
  BY DEF Outcomes, Exceptions
<1>2. NoCall \in [op : Ops \cup {"connect", "none"}, no : Nat]
  BY DEF NoCall
<1>3. CASE Transmit(o, c, cont)
  <2>1. PICK q \in Requests :
             q = [key |-> secret, iv |-> wiv, op |-> o, no |-> c.no]
    BY <1>0 DEF Requests
  <2>2. c2s' = c2s \/ c2s' = Append(c2s, q)
    BY <1>3, <2>1 DEF Transmit
  <2>3. c2s' \in Seq(Requests)
    <3>1. c2s \in Seq(Requests)
      OBVIOUS
    <3>. HIDE DEF TypeInv, TypeOK
    <3>. QED
      BY <2>1, <2>2, <3>1, AppendProperties
  <2>4. \A i \in 1 .. Len(c2s') :
           c2s'[i].op = "handshake" => c2s'[i].key = NoKey
    <3>1. q.op # "handshake"
      BY <2>1, OpsAssumption DEF ClientOps, Operation
    <3>2. /\ c2s \in Seq(Requests)
          /\ \A i \in 1 .. Len(c2s) :
               c2s[i].op = "handshake" => c2s[i].key = NoKey
      OBVIOUS
    <3>. HIDE DEF TypeInv, TypeOK
    <3>3. Len(c2s) \in Nat
      BY <3>2, LenProperties
    <3>4. CASE c2s' = Append(c2s, q)
      <4>1. /\ Len(c2s') = Len(c2s) + 1
            /\ \A i \in 1 .. Len(c2s) : c2s'[i] = c2s[i]
            /\ c2s'[Len(c2s) + 1] = q
        BY <2>1, <3>2, <3>4, AppendProperties
      <4>. QED
        BY <3>1, <3>2, <3>3, <4>1
    <3>. QED
      BY <2>2, <3>2, <3>4
  <2>5. wire' \in Seq(Int \X Nat) /\ wiv' \in Nat
    BY <1>3 DEF Transmit
  <2>6. last' \in [op : Ops \cup {"connect", "none"}, no : Nat,
                   out : Outcomes \cup {"none"}, ans : Nat]
    <3>1. CASE last' = last
      BY <3>1 DEF TypeInv, TypeOK
    <3>2. CASE Ends(c, "IOException", 0)
      BY <1>0, <1>1, <3>2 DEF Ends
    <3>. QED
      BY <1>3, <3>1, <3>2 DEF Transmit
  <2>7. pc' \in PCs
    BY <1>3 DEF Transmit, Ends, PCs
  <2>8. UNCHANGED <<secret, riv, sock, conn, s2c, aligned, phase, aRiv, aWiv,
                    executed, accepted, connected, tainted>>
    BY <1>3 DEF Transmit, agentVars
  <2>. QED
    BY <1>0, <1>2, <2>3, <2>4, <2>5, <2>6, <2>7, <2>8 DEF Calls
<1>4. CASE EncryptFails(c)
  <2>1. last' \in [op : Ops \cup {"connect", "none"}, no : Nat,
                   out : Outcomes \cup {"none"}, ans : Nat]
    BY <1>0, <1>1, <1>4 DEF EncryptFails, Ends
  <2>2. pc' = "idle" /\ pc' \in PCs
    BY <1>4 DEF EncryptFails, Ends, PCs
  <2>3. UNCHANGED <<secret, wiv, riv, sock, conn, c2s, s2c, aligned, wire,
                    phase, aRiv, aWiv, executed, accepted, connected, tainted>>
    BY <1>4 DEF EncryptFails, agentVars
  <2>. QED
    BY <1>2, <2>1, <2>2, <2>3
<1>. QED
  BY <1>3, <1>4

\* Every outcome named by an action is one.
LEMMA OutcomeNames ==
  /\ {"IOException", "IllegalStateException", "InvalidPayloadSizeException",
      "MessageVerificationException", "NullPointerException",
      "ConnectException"} \subseteq Outcomes
BY DEF Outcomes, Exceptions

\* The fields of the call in progress while the thread is in it.
LEMMA CallInProgress ==
  ASSUME TypeOK, pc # "idle"
  PROVE  call \in Calls /\ WireOp(call) \in ClientOps \cup {"ack"}
BY OpsAssumption DEF TypeOK, Calls, WireOp

LastType == [op : Ops \cup {"connect", "none"}, no : Nat,
             out : Outcomes \cup {"none"}, ans : Nat]

\* A call that ends leaves a well-formed result.
LEMMA EndsType ==
  ASSUME NEW c \in Calls, NEW out \in Outcomes, NEW ans \in Nat,
         Ends(c, out, ans)
  PROVE  pc' = "idle" /\ last' \in LastType
BY DEF Calls, Ends, LastType

\* A call that ends where it begins changes nothing else of the types.
LEMMA FailsType ==
  ASSUME TypeInv, NEW o \in Ops \cup {"connect"}, NEW out \in Outcomes,
         Fails(o, out),
         UNCHANGED <<secret, wiv, riv, sock, conn, channelVars, agentVars,
                     historyVars>>
  PROVE  TypeInv'
<1>1. [op |-> o, no |-> calls + 1] \in Calls
  BY DEF TypeInv, TypeOK, Calls
<1>2. pc' = "idle" /\ last' \in LastType
  BY <1>1, EndsType DEF Fails
<1>3. calls' \in 0 .. MaxCalls /\ UNCHANGED call
  BY MaxCallsAssumption DEF Fails, TypeInv, TypeOK
<1>. QED
  BY <1>2, <1>3
     DEF TypeInv, TypeOK, LastType, PCs, channelVars, agentVars, historyVars

\* The type invariant holds initially.
LEMMA TypeInit == Init => TypeInv
<1> SUFFICES ASSUME Init PROVE TypeInv
  OBVIOUS
<1>1. <<>> \in Seq(Requests) /\ <<>> \in Seq(Replies) /\ <<>> \in Seq(Nat)
      /\ <<>> \in Seq(Int \X Nat)
  BY EmptySeq
<1>2. WriterIv0 \in Nat /\ ReaderIv0 \in Nat
  BY IvHalfAssumption DEF WriterIv0, ReaderIv0
<1>3. call \in [op : Ops \cup {"connect", "none"}, no : Nat]
      /\ last \in [op : Ops \cup {"connect", "none"}, no : Nat,
                   out : Outcomes \cup {"none"}, ans : Nat]
  BY DEF Init, NoCall, NoResult
<1>4. calls \in 0 .. MaxCalls /\ conn \in 0 .. MaxConnects
  BY MaxCallsAssumption, MaxConnectsAssumption DEF Init
<1>5. \A i \in 1 .. Len(c2s) : c2s[i].op = "handshake" => c2s[i].key = NoKey
  <2>1. 1 .. Len(c2s) = {}
    BY EmptySeq DEF Init
  <2>. QED
    BY <2>1
<1>6. TypeOK
  <2>1. /\ pc \in PCs /\ ((pc # "idle") => call.op # "none")
        /\ sock \in {"none", "open", "closed"} /\ phase \in Phases
        /\ aligned \in BOOLEAN /\ connected \in BOOLEAN /\ tainted \in BOOLEAN
    BY DEF Init, PCs, Phases
  <2>2. /\ secret \in Int /\ wiv \in Nat /\ riv \in Nat
        /\ aRiv \in Nat /\ aWiv \in Nat
    BY <1>2 DEF Init, NoKey
  <2>3. /\ c2s \in Seq(Requests) /\ s2c \in Seq(Replies)
        /\ executed \in Seq(Nat) /\ wire \in Seq(Int \X Nat)
        /\ accepted \subseteq Nat
    BY <1>1 DEF Init
  <2>. QED
    BY <1>3, <1>4, <2>1, <2>2, <2>3 DEF TypeOK
<1>. QED
  BY <1>5, <1>6 DEF TypeInv, Init

\* connect() starts a connection with well-formed, empty channels.
LEMMA ConnectType == TypeInv /\ Connect => TypeInv'
<1> SUFFICES ASSUME TypeInv, Connect PROVE TypeInv'
  OBVIOUS
<1> DEFINE q == [key |-> NoKey, iv |-> 0, op |-> "handshake", no |-> calls + 1]
<1>1. calls' \in 0 .. MaxCalls /\ calls' \in Nat /\ calls' = calls + 1
  BY MaxCallsAssumption DEF Connect, Begins, TypeInv, TypeOK
<1>2. conn' \in 0 .. MaxConnects /\ conn' > 0
  BY MaxConnectsAssumption DEF Connect, TypeInv, TypeOK
<1>3. q \in Requests
  BY <1>1 DEF Requests, NoKey
<1>4. c2s' = <<q>>
  BY DEF Connect
<1>5. c2s' \in Seq(Requests) /\ Len(c2s') = 1 /\ c2s'[1] = q
  BY <1>3, <1>4
<1>6. \A i \in 1 .. Len(c2s') :
        c2s'[i].op = "handshake" => c2s'[i].key = NoKey
  BY <1>5
<1>7. s2c' \in Seq(Replies)
  BY EmptySeq DEF Connect
<1>8. /\ call' \in [op : Ops \cup {"connect", "none"}, no : Nat]
      /\ call'.op # "none" /\ pc' \in PCs
  BY <1>1 DEF Connect, Begins, PCs
<1>9. aRiv' \in Nat /\ aWiv' \in Nat
  BY IvHalfAssumption DEF Connect, WriterIv0, ReaderIv0
<1>10. sock' = "open" /\ phase' = "hello" /\ aligned' \in BOOLEAN
       /\ connected' \in BOOLEAN /\ tainted' \in BOOLEAN
       /\ UNCHANGED <<last, secret, wiv, riv, executed, accepted, wire>>
  BY DEF Connect
<1>. QED
  BY <1>1, <1>2, <1>5, <1>6, <1>7, <1>8, <1>9, <1>10
     DEF TypeInv, TypeOK, Phases

\* The answer to the handshake, accepted or refused, keeps the types.
LEMMA RecvHandshakeType == TypeInv /\ RecvHandshake => TypeInv'
<1> SUFFICES ASSUME TypeInv, RecvHandshake PROVE TypeInv'
  OBVIOUS
<1>1. call \in Calls /\ pc = "handshake"
  BY CallInProgress DEF TypeInv, RecvHandshake
<1>2. s2c' \in Seq(Replies)
  <2>1. s2c \in Seq(Replies) /\ Tail(s2c) \in Seq(Replies)
    BY HeadTailProperties DEF TypeInv, TypeOK, RecvHandshake
  <2>2. s2c' = s2c \/ s2c' = Tail(s2c)
    BY DEF RecvHandshake
  <2>. QED
    BY <2>1, <2>2
<1>3. secret' \in Int /\ aligned' \in BOOLEAN /\ tainted' \in BOOLEAN
  <2>1. conn \in Int /\ secret \in Int
    BY MaxConnectsAssumption DEF TypeInv, TypeOK
  <2>2. secret' = conn \/ secret' = -conn \/ secret' = secret
    BY DEF RecvHandshake, SharedSecret
  <2>3. aligned' \in BOOLEAN /\ tainted' \in BOOLEAN
    BY Zenon DEF TypeInv, TypeOK, RecvHandshake
  <2>. QED
    BY <2>1, <2>2, <2>3
<1>4. /\ call' \in [op : Ops \cup {"connect", "none"}, no : Nat]
      /\ pc' \in PCs /\ (pc' # "idle" => call'.op # "none")
      /\ last' \in LastType
  <2>1. CASE UNCHANGED <<call, last>> /\ pc' = "ack"
    BY <1>1, <2>1 DEF TypeInv, TypeOK, LastType, PCs
  <2>2. CASE call' = NoCall /\ \E out \in Outcomes : Ends(call, out, 0)
    BY <1>1, <2>2, EndsType DEF NoCall, PCs
  <2>. QED
    BY <2>1, <2>2, HandshakeExceptionType, OutcomeNames DEF RecvHandshake
<1>5. UNCHANGED <<calls, wiv, riv, sock, conn, c2s, phase, aRiv, aWiv,
                  executed, accepted, connected, wire>>
  BY DEF RecvHandshake, agentVars
<1>. QED
  BY <1>2, <1>3, <1>4, <1>5 DEF TypeInv, TypeOK, LastType

\* A header that is read, or refused, keeps the types.
LEMMA RecvHeaderType == TypeInv /\ RecvHeader => TypeInv'
<1> SUFFICES ASSUME TypeInv, RecvHeader PROVE TypeInv'
  OBVIOUS
<1>1. call \in Calls /\ pc = "header"
  BY CallInProgress DEF TypeInv, RecvHeader
<1>2. aligned' \in BOOLEAN /\ tainted' \in BOOLEAN
  BY DEF TypeInv, TypeOK, RecvHeader
<1>3. /\ call' \in [op : Ops \cup {"connect", "none"}, no : Nat]
      /\ pc' \in PCs /\ (pc' # "idle" => call'.op # "none")
      /\ last' \in LastType
  <2>1. CASE UNCHANGED <<call, last>> /\ pc' = "body"
    BY <1>1, <2>1 DEF TypeInv, TypeOK, LastType, PCs
  <2>2. CASE call' = NoCall /\ \E out \in Outcomes : Ends(call, out, 0)
    BY <1>1, <2>2, EndsType DEF NoCall, PCs
  <2>. QED
    BY <2>1, <2>2, OutcomeNames DEF RecvHeader
<1>4. UNCHANGED <<calls, secret, wiv, riv, sock, conn, c2s, s2c, phase, aRiv,
                  aWiv, executed, accepted, connected, wire>>
  BY DEF RecvHeader, agentVars
<1>. QED
  BY <1>2, <1>3, <1>4 DEF TypeInv, TypeOK, LastType

\* A body that is read, or refused, keeps the types.
LEMMA RecvBodyType == TypeInv /\ RecvBody => TypeInv'
<1> SUFFICES ASSUME TypeInv, RecvBody PROVE TypeInv'
  OBVIOUS
<1> DEFINE out == ReadPayload(WireOp(call), Head(s2c))
           ans == IF out \in Answers THEN Head(s2c).no ELSE 0
<1>1. call \in Calls /\ out \in Outcomes
  BY CallInProgress, ReadPayloadType DEF TypeInv, RecvBody
<1>2. Head(s2c) \in Replies /\ s2c' \in Seq(Replies)
  BY HeadTailProperties DEF TypeInv, TypeOK, RecvBody
<1>3. ans \in Nat
  <2>1. Head(s2c).no \in Nat
    BY <1>2 DEF Replies
  <2>. QED
    BY <2>1
<1>4. riv' \in Nat /\ connected' \in BOOLEAN /\ tainted' \in BOOLEAN
  <2>1. riv \in Nat /\ (riv' = riv + 1 \/ riv' = riv)
    BY Zenon DEF TypeInv, TypeOK, RecvBody
  <2>2. connected' \in BOOLEAN /\ tainted' \in BOOLEAN
    BY Zenon DEF TypeInv, TypeOK, RecvBody
  <2>. QED
    BY <2>1, <2>2
<1>5. pc' = "idle" /\ last' \in LastType
  <2>1. CASE Ends(call, out, ans)
    BY <1>1, <1>3, <2>1, EndsType
  <2>2. CASE \E e \in Outcomes : Ends(call, e, 0)
    BY <1>1, <2>2, EndsType
  <2>. QED
    BY <2>1, <2>2, OutcomeNames DEF RecvBody
<1>6. UNCHANGED <<calls, secret, wiv, sock, conn, c2s, aligned, phase, aRiv,
                  aWiv, executed, accepted, wire>> /\ call' = NoCall
  BY DEF RecvBody, agentVars
<1>7. call' \in [op : Ops \cup {"connect", "none"}, no : Nat]
  BY <1>6 DEF NoCall
<1>. QED
  BY <1>2, <1>4, <1>5, <1>6, <1>7 DEF TypeInv, TypeOK, LastType, PCs

\* The end of the stream and a timeout keep the types.
LEMMA RecvFailsType == TypeInv /\ (RecvEof \/ RecvTimeout) => TypeInv'
<1> SUFFICES ASSUME TypeInv, RecvEof \/ RecvTimeout PROVE TypeInv'
  OBVIOUS
<1>1. call \in Calls
  BY CallInProgress DEF TypeInv, RecvEof, RecvTimeout
<1>2. pc' = "idle" /\ last' \in LastType
  BY <1>1, OutcomeNames, EndsType DEF RecvEof, RecvTimeout
<1>3. aligned' \in BOOLEAN /\ tainted' \in BOOLEAN
  BY DEF TypeInv, TypeOK, RecvEof, RecvTimeout, channelVars, historyVars
<1>4. UNCHANGED <<calls, secret, wiv, riv, sock, conn, c2s, s2c, phase, aRiv,
                  aWiv, executed, accepted, connected, wire>>
      /\ call' = NoCall
  BY DEF RecvEof, RecvTimeout, channelVars, agentVars, historyVars
<1>5. call' \in [op : Ops \cup {"connect", "none"}, no : Nat]
  BY <1>4 DEF NoCall
<1>. QED
  BY <1>2, <1>3, <1>4, <1>5 DEF TypeInv, TypeOK, LastType, PCs

\* The agent's answers are well formed, and it answers no handshake packet
\* once it has keys.
LEMMA AgentHandshakeType == TypeInv /\ AgentHandshake => TypeInv'
<1> SUFFICES ASSUME TypeInv, AgentHandshake PROVE TypeInv'
  OBVIOUS
<1>1. /\ Head(c2s) \in Requests /\ c2s' \in Seq(Requests)
      /\ Len(c2s') = Len(c2s) - 1 /\ Len(c2s) \in Nat
      /\ \A i \in 1 .. Len(c2s') : c2s'[i] = c2s[i + 1]
  BY HeadTailProperties, LenProperties DEF TypeInv, TypeOK, AgentHandshake
<1>2. \A i \in 1 .. Len(c2s') :
        c2s'[i].op = "handshake" => c2s'[i].key = NoKey
  BY <1>1 DEF TypeInv
<1>3. PICK r \in HandshakeReplies :
        /\ s2c' = Append(s2c, Reply(NoKey, 0, r, Head(c2s).no))
        /\ phase' = IF r.status = 0 THEN "challenge" ELSE "gone"
  BY DEF AgentHandshake
<1>4. Reply(NoKey, 0, r, Head(c2s).no) \in Replies
  <2>1. r \in ReplyFields /\ Head(c2s).no \in Nat
    BY <1>1, HandshakeRepliesType DEF Requests
  <2>. QED
    BY <2>1 DEF Reply, Replies, ReplyFields, NoKey
<1>5. s2c' \in Seq(Replies)
  BY <1>3, <1>4, AppendProperties DEF TypeInv, TypeOK
<1>6. phase \in Phases /\ phase' \in Phases /\ phase # "none"
  BY <1>3 DEF AgentHandshake, Phases
<1>7. UNCHANGED <<pc, call, calls, last, secret, wiv, riv, sock, conn,
                  aligned, aRiv, aWiv, executed, accepted, connected, tainted,
                  wire>>
  BY DEF AgentHandshake, clientVars, historyVars
<1>. QED
  BY <1>1, <1>2, <1>5, <1>6, <1>7 DEF TypeInv, TypeOK

\* An answered request keeps the types: it was no handshake packet.
LEMMA AgentServeType == TypeInv /\ AgentServe => TypeInv'
<1> SUFFICES ASSUME TypeInv, AgentServe PROVE TypeInv'
  OBVIOUS
<1> DEFINE q == Head(c2s)
<1>1. /\ q \in Requests /\ q = c2s[1] /\ c2s' \in Seq(Requests)
      /\ Len(c2s') = Len(c2s) - 1 /\ Len(c2s) \in Nat \ {0}
      /\ \A i \in 1 .. Len(c2s') : c2s'[i] = c2s[i + 1]
  BY HeadTailProperties, LenProperties, EmptySeq
     DEF TypeInv, TypeOK, AgentServe
<1>2. \A i \in 1 .. Len(c2s') :
        c2s'[i].op = "handshake" => c2s'[i].key = NoKey
  BY <1>1 DEF TypeInv
<1>3. conn > 0 /\ conn \in Int
  BY MaxConnectsAssumption DEF TypeInv, TypeOK, AgentServe
<1>4. q.op \in ClientOps \cup {"ack"} /\ q.no \in Nat
  <2>1. q.key = conn
    BY DEF AgentServe, Authentic
  <2>2. q.op # "handshake"
    BY <1>1, <1>3, <2>1 DEF TypeInv, NoKey
  <2>. QED
    BY <1>1, <2>2, OpsAssumption DEF Requests
<1>5. PICK r \in OperationReplies(q.op) :
        /\ s2c' = Append(s2c, Reply(conn, aWiv, r, q.no))
        /\ phase' = IF q.op = "ack" /\ r.status # 0 THEN "gone" ELSE "ready"
        /\ accepted' = accepted \cup
             (IF q.op = "submit" /\ r.status = 0 THEN {q.no} ELSE {})
  BY DEF AgentServe
<1>6. Reply(conn, aWiv, r, q.no) \in Replies
  <2>1. r \in ReplyFields
    BY <1>4, <1>5, OperationRepliesType
  <2>. QED
    BY <1>3, <1>4, <2>1 DEF Reply, Replies, ReplyFields, TypeInv, TypeOK
<1>7. s2c' \in Seq(Replies)
  BY <1>5, <1>6, AppendProperties DEF TypeInv, TypeOK
<1>8. phase' \in Phases /\ accepted' \subseteq Nat
  BY <1>4, <1>5 DEF TypeInv, TypeOK, Phases
<1>9. executed' \in Seq(Nat)
  BY <1>4, AppendProperties DEF TypeInv, TypeOK, AgentServe
<1>10. wire' \in Seq(Int \X Nat)
  BY <1>3, AppendProperties DEF TypeInv, TypeOK, AgentServe
<1>11. aRiv' \in Nat /\ aWiv' \in Nat
  BY DEF TypeInv, TypeOK, AgentServe
<1>12. UNCHANGED <<pc, call, calls, last, secret, wiv, riv, sock, conn,
                   aligned, connected, tainted>>
  BY DEF AgentServe, clientVars
<1>. QED
  BY <1>1, <1>2, <1>3, <1>7, <1>8, <1>9, <1>10, <1>11, <1>12
     DEF TypeInv, TypeOK

\* A connection that goes away keeps the types.
LEMMA AgentHangUpType ==
  TypeInv /\ phase # "none" /\ AgentHangUp => TypeInv'
<1> SUFFICES ASSUME TypeInv, phase # "none", AgentHangUp PROVE TypeInv'
  OBVIOUS
<1>1. c2s' \in Seq(Requests) /\ 1 .. Len(c2s') = {}
  BY EmptySeq DEF AgentHangUp
<1>2. s2c' \in Seq(Replies)
  <2>1. s2c' = s2c \/ s2c' = <<>>
    BY DEF AgentHangUp
  <2>2. s2c \in Seq(Replies)
    BY DEF TypeInv, TypeOK
  <2>. QED
    BY <2>1, <2>2, EmptySeq
<1>3. phase' \in Phases
  BY DEF AgentHangUp, Phases
<1>4. UNCHANGED <<pc, call, calls, last, secret, wiv, riv, sock, conn,
                  aligned, aRiv, aWiv, executed, accepted, connected, tainted,
                  wire>>
  BY DEF AgentHangUp, clientVars, historyVars
<1>. QED
  BY <1>1, <1>2, <1>3, <1>4 DEF TypeInv, TypeOK

\* Every step keeps the types.
LEMMA TypeStep == TypeInv /\ [Next]_vars => TypeInv'
<1> SUFFICES ASSUME TypeInv, [Next]_vars PROVE TypeInv'
  OBVIOUS
<1>1. CASE ConnectRefused
  BY <1>1, OutcomeNames, FailsType DEF ConnectRefused
<1>2. CASE Connect
  BY <1>2, ConnectType
<1>3. CASE Close
  <2>1. sock' \in {"none", "open", "closed"} /\ connected' \in BOOLEAN
    BY <1>3 DEF Close, TypeInv, TypeOK
  <2>2. UNCHANGED <<pc, call, calls, last, secret, wiv, riv, conn, c2s, s2c,
                    aligned, phase, aRiv, aWiv, executed, accepted, tainted,
                    wire>>
    BY <1>3 DEF Close, channelVars, agentVars
  <2>. QED
    BY <2>1, <2>2 DEF TypeInv, TypeOK
<1>4. CASE SubmitIncomplete
  BY <1>4, OutcomeNames, FailsType DEF SubmitIncomplete
<1>5. CASE \E o \in Ops : CallUnconnected(o)
  BY <1>5, OutcomeNames, FailsType DEF CallUnconnected
<1>6. CASE \E o \in Ops : CallOperation(o)
  <2>1. PICK o \in Ops : CallOperation(o)
    BY <1>6
  <2>2. [op |-> o, no |-> calls + 1] \in Calls
        /\ calls' \in 0 .. MaxCalls
    BY <2>1, MaxCallsAssumption DEF CallOperation, TypeInv, TypeOK, Calls
  <2>. QED
    BY <2>1, <2>2, TransmitType DEF CallOperation, PCs
<1>7. CASE SendAck
  <2>1. call \in Calls /\ calls' \in 0 .. MaxCalls
    BY <1>7, CallInProgress DEF SendAck, TypeInv, TypeOK
  <2>. QED
    BY <1>7, <2>1, TransmitType DEF SendAck, PCs
<1>8. CASE RecvHandshake
  BY <1>8, RecvHandshakeType
<1>9. CASE RecvHeader
  BY <1>9, RecvHeaderType
<1>10. CASE RecvBody
  BY <1>10, RecvBodyType
<1>11. CASE RecvEof \/ RecvTimeout
  BY <1>11, RecvFailsType
<1>12. CASE AgentHandshake
  BY <1>12, AgentHandshakeType
<1>13. CASE AgentServe
  BY <1>13, AgentServeType
<1>14. CASE AgentReject \/ AgentLost
  BY <1>14, AgentHangUpType DEF AgentReject, AgentLost
<1>15. CASE UNCHANGED vars
  <2>1. TypeOK'
    BY <1>15 DEF vars, TypeInv, TypeOK
  <2>. QED
    BY <1>15, <2>1 DEF vars, TypeInv
<1>. QED
  BY <1>1, <1>2, <1>3, <1>4, <1>5, <1>6, <1>7, <1>8, <1>9, <1>10, <1>11,
     <1>12, <1>13, <1>14, <1>15 DEF Next

\* The type invariant and its strengthening hold in every reachable state.
LEMMA TypeInvariant == Spec => []TypeInv
BY TypeInit, TypeStep, PTL DEF Spec

\* Type correctness, for every value of the constants.
THEOREM TypeCorrect == Spec => []TypeOK
<1>1. TypeInv => TypeOK
  BY DEF TypeInv
<1>. QED
  BY <1>1, TypeInvariant, PTL

=============================================================================
