-------------------- MODULE RemoteAgentConnectionAnswers --------------------
(***************************************************************************)
(* What a call of RemoteAgentConnection reports: the answer to its own     *)
(* request, no exception of the protocol layer as long as nothing is lost  *)
(* but the connection, and nothing that VelochainService does not allow.   *)
(***************************************************************************)
EXTENDS RemoteAgentConnectionSafety, MCRemoteAgentConnection

-----------------------------------------------------------------------------
(***************************************************************************)
(* An answer is that to the call's own request.                            *)
(*                                                                         *)
(* A call on a stream that is read from where a packet begins finds the    *)
(* channel empty, and leaves it so: without a timeout it does not end      *)
(* before the one packet that it causes was read, or was lost with the     *)
(* connection.  A call that ends otherwise leaves a stream that is read    *)
(* from the wrong place.                                                   *)
(***************************************************************************)
Quiet == c2s = <<>> /\ s2c = <<>>

Asked == \E q \in Requests : c2s = <<q>> /\ s2c = <<>> /\ q.no = call.no

Answered == \E p \in Replies : c2s = <<>> /\ s2c = <<p>> /\ p.no = call.no

MatchInv ==
  /\ AnswerMatchesRequest
  /\ pc \in {"handshake", "ack", "body"} => aligned
  /\ aligned =>
       \/ Quiet
       \/ /\ pc \in {"handshake", "header", "body"}
          /\ Answered \/ (Asked /\ phase # "gone")

\* A sequence of one element.
LEMMA OnePacket ==
  ASSUME NEW e
  PROVE  /\ <<e>> # <<>> /\ Head(<<e>>) = e /\ Tail(<<e>>) = <<>>
         /\ Append(<<>>, e) = <<e>>
         /\ \A d : <<e>> = <<d>> => e = d
OBVIOUS

\* Where the next packet of the agent is looked for, there is but one.
LEMMA OneReply ==
  ASSUME MatchInv, aligned, s2c # <<>>
  PROVE  \E p \in Replies : /\ c2s = <<>> /\ s2c = <<p>> /\ p.no = call.no
                            /\ Head(s2c) = p /\ Tail(s2c) = <<>>
<1>1. PICK p \in Replies : c2s = <<>> /\ s2c = <<p>> /\ p.no = call.no
  BY DEF MatchInv, Quiet, Asked, Answered
<1>. QED
  BY <1>1, OnePacket

\* And where the next packet of the client is, too.
LEMMA OneRequest ==
  ASSUME MatchInv, aligned, c2s # <<>>
  PROVE  \E q \in Requests : /\ c2s = <<q>> /\ s2c = <<>> /\ q.no = call.no
                             /\ Head(c2s) = q /\ Tail(c2s) = <<>>
                             /\ pc \in {"handshake", "header", "body"}
                             /\ phase # "gone"
<1>1. PICK q \in Requests : c2s = <<q>> /\ s2c = <<>> /\ q.no = call.no
  BY OnePacket DEF MatchInv, Quiet, Asked, Answered
<1>. QED
  BY <1>1, OnePacket DEF MatchInv, Quiet, Answered

\* Nothing is under way at first.
LEMMA MatchInit == Init => MatchInv
BY DEF Init, MatchInv, AnswerMatchesRequest, NoResult, Quiet

\* A call that ends without an answer and leaves an empty channel, or a
\* stream that is read from the wrong place.
LEMMA MatchEnds ==
  ASSUME NEW c, NEW out, Ends(c, out, 0), Quiet' \/ ~aligned'
  PROVE  MatchInv'
BY DEF Ends, MatchInv, AnswerMatchesRequest

\* The client sends a request into an empty channel.
LEMMA MatchTransmit ==
  ASSUME TypeInv, MatchInv, pc \in {"idle", "ack"}, NEW o \in Ops \cup {"ack"},
         NEW c \in Calls, Transmit(o, c, "header") \/ EncryptFails(c),
         call' = (IF pc' = "idle" THEN NoCall ELSE c), UNCHANGED phase
  PROVE  MatchInv'
<1>1. aligned => Quiet
  BY DEF MatchInv
<1>2. CASE Quiet' \/ ~aligned'
  <2>1. CASE last' = last /\ pc' = "header"
    BY <1>2, <2>1 DEF MatchInv, AnswerMatchesRequest
  <2>2. CASE \E out : Ends(c, out, 0)
    BY <1>2, <2>2, MatchEnds
  <2>. QED
    BY <2>1, <2>2 DEF Transmit, EncryptFails
<1>3. CASE ~Quiet' /\ aligned'
  <2>1. aligned /\ Quiet
    BY <1>1, <1>3 DEF Transmit, EncryptFails
  <2> DEFINE q == [key |-> secret, iv |-> wiv, op |-> o, no |-> c.no]
  <2>2. /\ Transmit(o, c, "header") /\ c2s' = Append(c2s, q) /\ s2c' = s2c
        /\ phase # "gone" /\ last' = last /\ pc' = "header" /\ sock = "open"
    BY <1>3, <2>1 DEF Transmit, EncryptFails, Quiet
  <2>3. q \in Requests
    BY DEF TypeInv, TypeOK, Requests, Calls
  <2>4. c2s' = <<q>> /\ s2c' = <<>> /\ call' = c
    BY <2>1, <2>2, OnePacket DEF Quiet
  <2>5. Asked'
    BY <2>3, <2>4 DEF Asked
  <2>. QED
    BY <2>2, <2>5 DEF MatchInv, AnswerMatchesRequest
<1>. QED
  BY <1>2, <1>3

\* The agent's handshake answer, accepted or refused.
LEMMA MatchRecvHandshake ==
  ASSUME TypeInv, MatchInv, RecvHandshake
  PROVE  MatchInv'
<1>1. pc = "handshake" /\ aligned /\ s2c # <<>> /\ UNCHANGED c2s
  BY DEF RecvHandshake, MatchInv
<1>2. c2s = <<>> /\ Tail(s2c) = <<>>
  BY <1>1, OneReply
<1>3. Quiet' \/ ~aligned'
  BY <1>1, <1>2 DEF RecvHandshake, Quiet
<1>4. CASE pc' = "ack" /\ UNCHANGED <<last, aligned>>
  BY <1>1, <1>3, <1>4 DEF MatchInv, AnswerMatchesRequest
<1>5. CASE \E out : Ends(call, out, 0)
  BY <1>3, <1>5, MatchEnds
<1>. QED
  BY <1>4, <1>5 DEF RecvHandshake

\* The header of the answer.
LEMMA MatchRecvHeader ==
  ASSUME TypeInv, MatchInv, RecvHeader
  PROVE  MatchInv'
<1>1. CASE pc' = "body" /\ aligned /\ UNCHANGED <<call, last, aligned>>
  BY <1>1 DEF RecvHeader, MatchInv, AnswerMatchesRequest, Quiet, Asked,
              Answered, agentVars
<1>2. CASE ~aligned' /\ \E out : Ends(call, out, 0)
  BY <1>2, MatchEnds
<1>. QED
  BY <1>1, <1>2 DEF RecvHeader, HeaderDecrypts

\* The body of the answer: the only step that reports one.
LEMMA MatchRecvBody ==
  ASSUME TypeInv, MatchInv, RecvBody
  PROVE  MatchInv'
<1>1. pc = "body" /\ aligned /\ s2c # <<>> /\ UNCHANGED <<c2s, aligned>>
  BY DEF RecvBody, MatchInv
<1>2. c2s = <<>> /\ Tail(s2c) = <<>> /\ Head(s2c).no = call.no
  BY <1>1, OneReply
<1>3. Quiet'
  BY <1>1, <1>2 DEF RecvBody, Quiet
<1>4. CASE \E out : Ends(call, out, 0)
  BY <1>3, <1>4, MatchEnds
<1>5. CASE \E out : Ends(call, out, Head(s2c).no)
  BY <1>2, <1>3, <1>5 DEF Ends, MatchInv, AnswerMatchesRequest
<1>. QED
  BY <1>4, <1>5 DEF RecvBody

\* The agent answers the one request.
LEMMA MatchAgent ==
  ASSUME TypeInv, TypeInv', MatchInv, AgentHandshake \/ AgentServe
  PROVE  MatchInv'
<1>1. /\ c2s # <<>> /\ c2s' = Tail(c2s)
      /\ UNCHANGED <<pc, call, last, aligned>>
  BY DEF AgentHandshake, AgentServe, clientVars
<1>2. CASE ~aligned
  BY <1>1, <1>2 DEF MatchInv, AnswerMatchesRequest
<1>3. CASE aligned
  <2>1. /\ s2c = <<>> /\ Tail(c2s) = <<>> /\ Head(c2s).no = call.no
        /\ pc \in {"handshake", "header", "body"}
    BY <1>1, <1>3, OneRequest
  <2>2. \E k, i, r : s2c' = Append(s2c, Reply(k, i, r, Head(c2s).no))
    BY DEF AgentHandshake, AgentServe
  <2>3. PICK k, i, r : s2c' = Append(s2c, Reply(k, i, r, Head(c2s).no))
    BY <2>2
  <2> DEFINE p == Reply(k, i, r, call.no)
  <2>4. s2c' = <<p>> /\ p.no = call.no
    BY <2>1, <2>3, OnePacket DEF Reply
  <2>5. p \in Replies
    <3>1. s2c' \in Seq(Replies)
      BY DEF TypeInv, TypeOK
    <3>2. s2c' # <<>> /\ Head(s2c') = p
      BY <2>4, OnePacket
    <3>. QED
      BY <3>1, <3>2, HeadTailProperties
  <2>6. Answered'
    BY <1>1, <2>1, <2>4, <2>5 DEF Answered
  <2>. QED
    BY <1>1, <1>3, <2>1, <2>6 DEF MatchInv, AnswerMatchesRequest
<1>. QED
  BY <1>2, <1>3

\* The connection goes away, and with it what was not read.
LEMMA MatchHangUp ==
  ASSUME MatchInv, AgentHangUp
  PROVE  MatchInv'
<1>1. /\ c2s' = <<>> /\ s2c' \in {s2c, <<>>}
      /\ UNCHANGED <<pc, call, last, aligned>>
  BY DEF AgentHangUp, clientVars
<1>2. aligned => Quiet' \/ (Answered /\ s2c' = s2c)
  BY <1>1 DEF MatchInv, Quiet, Asked
<1>3. aligned => Quiet' \/ Answered'
  BY <1>1, <1>2 DEF Answered
<1>4. aligned /\ ~Quiet' => pc \in {"handshake", "header", "body"}
  BY <1>1 DEF MatchInv, Quiet
<1>. QED
  BY <1>1, <1>3, <1>4 DEF MatchInv, AnswerMatchesRequest

\* Every step but a timeout keeps the one packet.
LEMMA MatchStep ==
  ASSUME "timeout" \notin Faults, TypeInv, TypeInv', MatchInv, [Next]_vars
  PROVE  MatchInv'
<1>1. CASE ConnectRefused \/ SubmitIncomplete \/ \E o \in Ops : CallUnconnected(o)
  <2>1. /\ pc = "idle" /\ \E c, out : Ends(c, out, 0)
        /\ UNCHANGED <<c2s, s2c, aligned>>
    BY <1>1 DEF ConnectRefused, SubmitIncomplete, CallUnconnected, Fails,
                channelVars
  <2>2. Quiet' \/ ~aligned'
    BY <2>1 DEF MatchInv, Quiet
  <2>. QED
    BY <2>1, <2>2, MatchEnds
<1>2. CASE Connect
  <2> DEFINE q == [key |-> NoKey, iv |-> 0, op |-> "handshake", no |-> calls + 1]
  <2>1. /\ c2s' = <<q>> /\ s2c' = <<>> /\ phase' = "hello"
        /\ call'.no = calls + 1 /\ pc' = "handshake" /\ aligned'
        /\ UNCHANGED last
    BY <1>2 DEF Connect, Begins
  <2>2. q \in Requests
    BY DEF TypeInv, TypeOK, Requests, NoKey
  <2>3. Asked'
    BY <2>1, <2>2 DEF Asked
  <2>. QED
    BY <2>1, <2>3 DEF MatchInv, AnswerMatchesRequest
<1>3. CASE Close
  BY <1>3 DEF Close, channelVars, agentVars, MatchInv, AnswerMatchesRequest,
              Quiet, Asked, Answered
<1>4. CASE \E o \in Ops : CallOperation(o)
  <2>1. PICK o \in Ops : CallOperation(o)
    BY <1>4
  <2>2. [op |-> o, no |-> calls + 1] \in Calls
    BY DEF TypeInv, TypeOK, Calls
  <2>. QED
    BY <2>1, <2>2, MatchTransmit DEF CallOperation, agentVars
<1>5. CASE SendAck
  <2>1. call \in Calls
    BY <1>5, CallInProgress DEF SendAck, TypeInv
  <2>. QED
    BY <1>5, <2>1, MatchTransmit DEF SendAck, agentVars
<1>6. CASE RecvHandshake
  BY <1>6, MatchRecvHandshake
<1>7. CASE RecvHeader
  BY <1>7, MatchRecvHeader
<1>8. CASE RecvBody
  BY <1>8, MatchRecvBody
<1>9. CASE RecvEof
  <2>1. /\ phase = "gone" /\ s2c = <<>> /\ Ends(call, "IOException", 0)
        /\ UNCHANGED <<c2s, s2c, aligned>>
    BY <1>9 DEF RecvEof, channelVars
  <2>2. Quiet' \/ ~aligned'
    BY <2>1, OneRequest DEF Quiet
  <2>. QED
    BY <2>1, <2>2, MatchEnds
<1>10. CASE RecvTimeout
  BY <1>10 DEF RecvTimeout
<1>11. CASE AgentHandshake \/ AgentServe
  BY <1>11, MatchAgent
<1>12. CASE AgentReject \/ AgentLost
  BY <1>12, MatchHangUp DEF AgentReject, AgentLost
<1>13. CASE UNCHANGED vars
  BY <1>13 DEF vars, MatchInv, AnswerMatchesRequest, Quiet, Asked, Answered
<1>. QED
  BY <1>1, <1>2, <1>3, <1>4, <1>5, <1>6, <1>7, <1>8, <1>9, <1>10, <1>11,
     <1>12, <1>13 DEF Next

\* On a socket without read timeout, an operation that reports an answer
\* reports the answer to its own request, whatever the agent answers and
\* whatever fails in native code.
THEOREM AnswersMatch ==
  ASSUME "timeout" \notin Faults
  PROVE  Spec => []AnswerMatchesRequest
<1>1. TypeInv /\ TypeInv' /\ MatchInv /\ [Next]_vars => MatchInv'
  BY MatchStep
<1>2. MatchInv => AnswerMatchesRequest
  BY DEF MatchInv
<1>. QED
  BY <1>1, <1>2, MatchInit, TypeInvariant, PTL DEF Spec

-----------------------------------------------------------------------------
(***************************************************************************)
(* Nothing but the loss of the connection fails.                           *)
(*                                                                         *)
(* An agent that answers what it should answers the request it was sent,   *)
(* under the key that the client holds and the IV that it expects; so that *)
(* no answer is refused and the stream is always read from the right       *)
(* place.                                                                  *)
(***************************************************************************)
\* A packet carries an answer.
Matches(p, r) ==
  /\ p.id = r.id /\ p.status = r.status
  /\ p.size = r.size /\ p.fault = r.fault

\* The outcomes that the caller of connect(), or of an operation on an object
\* that has a shared secret, has to expect.
Expected ==
  Answers \cup
    {"IOException", "ErrorStatusException", "AgentVerificationException"}

\* A step that ends such a call ends it with one of them.
EndsWell ==
  (last' # last /\ (pc # "idle" \/ secret # NoKey)) => last'.out \in Expected

LossInv ==
  /\ aligned /\ ~tainted
  /\ pc # "idle" => sock = "open"
  /\ pc \in {"handshake", "ack"} => call.op = "connect"
  /\ phase = "hello" => pc = "handshake"
  /\ pc = "handshake" =>
       \A p \in Replies : s2c = <<p>> =>
         \E r \in HandshakeReplies : Matches(p, r)
  /\ pc \in {"header", "body"} =>
       /\ \A q \in Requests : c2s = <<q>> =>
            q.key = secret /\ q.op = WireOp(call)
       /\ \A p \in Replies : s2c = <<p>> =>
            /\ p.key = secret /\ p.iv = riv
            /\ \E r \in OperationReplies(WireOp(call)) : Matches(p, r)

\* A size that every operation's record stays below, and decryptHeader's
\* limit does not.
LEMMA MaxPayloadSize == MaxPayload \in Nat /\ 200 < MaxPayload
BY SMT DEF MaxPayload

\* An operation accepts the size of its own record and of a refusal, and it
\* reports a refusal in one of the ways that a caller has to expect.
LEMMA OperationAccepts ==
  ASSUME NEW o \in ClientOps \cup {"ack"}
  PROVE  /\ Operation[o].record \in Operation[o].sizes
         /\ 12 \in Operation[o].sizes
         /\ Operation[o].record < 200
         /\ Operation[o].bad \in
              {"ErrorStatusException", "IOException", "value", "empty", "one"}
<1>1. o \in DOMAIN Operation
  BY DEF ClientOps, Operation
<1>2. 12 \in Operation[o].sizes
  BY <1>1, MaxPayloadSize
     DEF Operation, acknowledgeHandshake, submit, getLatestBlockId,
       getBlockById, getNextBlockId, getPrevBlockId, getBlockIdByBlockHeight,
       getTransactionById, getTransactionNextId, getTransactionPreviousId,
       getTransactionBlockId, getArtifactFirstTxnId, getArtifactLastTxnId,
       getConnectionStatus, Query, UuidQuery
<1>3. Operation[o].record \in Operation[o].sizes /\ Operation[o].record < 200
  BY <1>1, MaxPayloadSize
     DEF Operation, acknowledgeHandshake, submit, getLatestBlockId,
       getBlockById, getNextBlockId, getPrevBlockId, getBlockIdByBlockHeight,
       getTransactionById, getTransactionNextId, getTransactionPreviousId,
       getTransactionBlockId, getArtifactFirstTxnId, getArtifactLastTxnId,
       getConnectionStatus, Query, UuidQuery
<1>4. Operation[o].bad \in
        {"ErrorStatusException", "IOException", "value", "empty", "one"}
  BY <1>1
     DEF Operation, acknowledgeHandshake, submit, getLatestBlockId,
       getBlockById, getNextBlockId, getPrevBlockId, getBlockIdByBlockHeight,
       getTransactionById, getTransactionNextId, getTransactionPreviousId,
       getTransactionBlockId, getArtifactFirstTxnId, getArtifactLastTxnId,
       getConnectionStatus, Query, UuidQuery
<1>. QED
  BY <1>2, <1>3, <1>4

\* A refusal differs from an answer in its status and its size.
LEMMA RefusalFields ==
  ASSUME NEW i, NEW n, NEW r,
         r = [[id |-> i, status |-> 0, size |-> n, fault |-> "none"]
                EXCEPT !.status = 1, !.size = 12]
  PROVE  r.id = i /\ r.status = 1 /\ r.size = 12 /\ r.fault = "none"
OBVIOUS

\* What an agent that does not deviate answers is not refused for its form.
LEMMA AnswerIsRead ==
  ASSUME Faults = {}, NEW o \in ClientOps \cup {"ack"},
         NEW p \in Replies, NEW r \in OperationReplies(o), Matches(p, r)
  PROVE  /\ p.size \in Operation[o].sizes /\ p.size <= MaxPayload
         /\ MacVerifies(p)
         /\ ReadPayload(o, p) \in Expected
<1> DEFINE result == [id |-> Operation[o].id, status |-> 0,
                      size |-> Operation[o].record, fault |-> "none"]
           failure == [result EXCEPT !.status = 1, !.size = 12]
<1>0. r = result \/ r = failure
  BY DEF OperationReplies
<1>1. /\ r.id = Operation[o].id /\ r.fault = "none"
      /\ \/ r.status = 0 /\ r.size = Operation[o].record
         \/ r.status = 1 /\ r.size = 12
  <2>1. CASE r = result
    BY <2>1
  <2>2. CASE r = failure
    <3>1. /\ r.id = Operation[o].id /\ r.status = 1
          /\ r.size = 12 /\ r.fault = "none"
      BY <2>2, RefusalFields, Zenon
    <3>. QED
      BY <3>1
  <2>. QED
    BY <1>0, <2>1, <2>2, Zenon
<1>2. /\ p.id = Operation[o].id /\ p.fault = "none"
      /\ \/ p.status = 0 /\ p.size = Operation[o].record
         \/ p.status = 1 /\ p.size = 12
  BY <1>1 DEF Matches
<1>3. /\ Operation[o].record \in Operation[o].sizes
      /\ 12 \in Operation[o].sizes
      /\ Operation[o].record \in Nat /\ Operation[o].record < 200
      /\ Operation[o].bad \in
           {"ErrorStatusException", "IOException", "value", "empty", "one"}
  BY OperationAccepts, OperationType
<1>4. p.size \in Operation[o].sizes /\ p.size <= MaxPayload
  BY <1>2, <1>3, MaxPayloadSize
<1>5. ReadPayload(o, p) \in {Operation[o].bad, "value"}
  BY <1>2, <1>3 DEF ReadPayload
<1>6. ReadPayload(o, p) \in Expected
  BY <1>3, <1>5 DEF Expected, Answers
<1>. QED
  BY <1>2, <1>4, <1>6 DEF MacVerifies

\* Nor is its answer to the handshake, unless it refuses the handshake.
LEMMA HandshakeIsRead ==
  ASSUME Faults = {}, NEW p \in Replies, NEW r \in HandshakeReplies,
         Matches(p, r)
  PROVE  /\ ~HandshakeBodyUnread(p)
         /\ ~HandshakeAccepts(p) => HandshakeException(p) \in Expected
<1> DEFINE welcome == [id |-> 0, status |-> 0, size |-> HandshakeSize,
                       fault |-> "none"]
           refusal == [welcome EXCEPT !.status = 1, !.size = 12]
<1>0. r = welcome \/ r = refusal
  BY DEF HandshakeReplies
<1>1. /\ r.id = 0 /\ r.fault = "none"
      /\ \/ r.status = 0 /\ r.size = HandshakeSize
         \/ r.status = 1 /\ r.size = 12
  <2>1. CASE r = welcome
    BY <2>1
  <2>2. CASE r = refusal
    <3>1. r.id = 0 /\ r.status = 1 /\ r.size = 12 /\ r.fault = "none"
      BY <2>2, RefusalFields, Zenon
    <3>. QED
      BY <3>1
  <2>. QED
    BY <1>0, <2>1, <2>2, Zenon
<1>2. /\ p.id = 0 /\ p.fault = "none"
      /\ \/ p.status = 0 /\ p.size = HandshakeSize
         \/ p.status = 1 /\ p.size = 12
  BY <1>1 DEF Matches
<1>3. CASE p.status = 0 /\ p.size = HandshakeSize
  BY <1>2, <1>3 DEF HandshakeBodyUnread, HandshakeAccepts, HandshakeSize
<1>4. CASE p.status = 1 /\ p.size = 12
  <2>1. HandshakeException(p) = "AgentVerificationException"
    BY <1>2, <1>4 DEF HandshakeException, HandshakeSize
  <2>. QED
    BY <1>2, <1>4, <2>1 DEF HandshakeBodyUnread, Expected
<1>. QED
  BY <1>2, <1>3, <1>4

\* A connection that is lost is one of them.
LEMMA LossNames == "IOException" \in Expected
BY DEF Expected

\* Nothing has failed yet.
LEMMA LossInit == Init => LossInv
BY DEF Init, LossInv

\* A call that ends otherwise.
LEMMA LossEnds ==
  ASSUME LossInv, NEW c, NEW out \in Expected, NEW ans, Ends(c, out, ans),
         aligned', ~tainted', phase' # "hello"
  PROVE  LossInv' /\ EndsWell
BY DEF LossInv, Ends, EndsWell

\* A request goes out under the key that its answer is read with.
LEMMA LossTransmit ==
  ASSUME Faults = {}, TypeInv, MatchInv, LossInv, pc \in {"idle", "ack"},
         NEW o \in Ops \cup {"ack"}, NEW c \in Calls, o = WireOp(c),
         Transmit(o, c, "header") \/ EncryptFails(c),
         call' = (IF pc' = "idle" THEN NoCall ELSE c),
         UNCHANGED <<phase, tainted>>
  PROVE  LossInv' /\ EndsWell
<1>1. phase # "hello" /\ aligned /\ Quiet
  BY DEF LossInv, MatchInv
<1>2. Transmit(o, c, "header")
  BY DEF EncryptFails
<1>3. UNCHANGED <<aligned, tainted, phase, secret, sock, s2c>>
  BY <1>2 DEF Transmit
<1>4. CASE Ends(c, "IOException", 0)
  BY <1>1, <1>3, <1>4, LossNames, LossEnds DEF LossInv
<1>5. CASE sock = "open" /\ pc' = "header" /\ UNCHANGED last
  <2> DEFINE q == [key |-> secret, iv |-> wiv, op |-> o, no |-> c.no]
  <2>1. c2s' = c2s \/ c2s' = Append(c2s, q)
    BY <1>2 DEF Transmit
  <2>2. c2s' = <<>> \/ c2s' = <<q>>
    BY <1>1, <2>1, OnePacket DEF Quiet
  <2>3. \A d \in Requests : c2s' = <<d>> => d = q
    BY <2>2, OnePacket
  <2>4. s2c' = <<>> /\ call' = c
    BY <1>1, <1>3, <1>5 DEF Quiet
  <2>5. \A d \in Requests : c2s' = <<d>> =>
           d.key = secret' /\ d.op = WireOp(call')
    BY <1>3, <2>3, <2>4
  <2>6. \A p \in Replies : s2c' # <<p>>
    BY <2>4, OnePacket
  <2>. QED
    BY <1>1, <1>3, <1>5, <2>5, <2>6 DEF LossInv, WireOp, EndsWell
<1>. QED
  BY <1>2, <1>4, <1>5 DEF Transmit

\* The handshake is accepted, or refused in the open.
LEMMA LossRecvHandshake ==
  ASSUME Faults = {}, TypeInv, MatchInv, SyncInv, LossInv, RecvHandshake
  PROVE  LossInv' /\ EndsWell
<1>1. pc = "handshake" /\ s2c # <<>> /\ aligned /\ ~tainted /\ sock = "open"
      /\ UNCHANGED <<sock, phase>>
  BY DEF RecvHandshake, LossInv, agentVars
<1>2. PICK p \in Replies : s2c = <<p>> /\ Head(s2c) = p
  BY <1>1, OneReply
<1>3. PICK r \in HandshakeReplies : Matches(p, r)
  BY <1>1, <1>2 DEF LossInv
<1>4. /\ ~HandshakeBodyUnread(p)
      /\ ~HandshakeAccepts(p) => HandshakeException(p) \in Expected
  BY <1>3, HandshakeIsRead
<1>5. phase # "hello"
  BY <1>1 DEF SyncInv
<1>6. CASE HandshakeAccepts(p)
  <2>1. pc' = "ack" /\ UNCHANGED <<call, last, aligned, tainted>>
    BY <1>2, <1>6 DEF RecvHandshake
  <2>. QED
    BY <1>1, <1>5, <2>1 DEF LossInv, EndsWell
<1>7. CASE ~HandshakeAccepts(p)
  <2>1. /\ Ends(call, HandshakeException(p), 0)
        /\ aligned' = ~HandshakeBodyUnread(p)
        /\ tainted' = (tainted \/ HandshakeBodyUnread(p))
    BY <1>2, <1>7 DEF RecvHandshake
  <2>2. aligned' /\ ~tainted'
    BY <1>1, <1>4, <2>1, Zenon
  <2>. QED
    BY <1>1, <1>4, <1>5, <1>7, <2>1, <2>2, LossEnds
<1>. QED
  BY <1>6, <1>7

\* What is waited for is the answer to the request, in its place.
LEMMA LossAnswer ==
  ASSUME Faults = {}, TypeInv, MatchInv, LossInv, pc \in {"header", "body"},
         s2c # <<>>
  PROVE  /\ HeaderDecrypts(Head(s2c))
         /\ Head(s2c).size \in Operation[WireOp(call)].sizes
         /\ MacVerifies(Head(s2c))
         /\ ReadPayload(WireOp(call), Head(s2c)) \in Expected
<1>1. aligned
  BY DEF LossInv
<1>2. PICK p \in Replies : s2c = <<p>> /\ Head(s2c) = p
  BY <1>1, OneReply
<1>3. p.key = secret /\ p.iv = riv
  BY <1>2 DEF LossInv
<1>4. PICK r \in OperationReplies(WireOp(call)) : Matches(p, r)
  BY <1>2 DEF LossInv
<1>5. WireOp(call) \in ClientOps \cup {"ack"}
  BY CallInProgress DEF TypeInv
<1>6. /\ p.size \in Operation[WireOp(call)].sizes /\ p.size <= MaxPayload
      /\ MacVerifies(p)
      /\ ReadPayload(WireOp(call), p) \in Expected
  BY <1>4, <1>5, AnswerIsRead
<1>. QED
  BY <1>1, <1>2, <1>3, <1>6 DEF HeaderDecrypts

\* Its header is taken.
LEMMA LossRecvHeader ==
  ASSUME Faults = {}, TypeInv, MatchInv, LossInv, RecvHeader
  PROVE  LossInv' /\ EndsWell
<1>1. pc = "header" /\ s2c # <<>>
  BY DEF RecvHeader
<1>2. /\ HeaderDecrypts(Head(s2c))
      /\ Head(s2c).size \in Operation[WireOp(call)].sizes
  BY <1>1, LossAnswer
<1>3. pc' = "body" /\ UNCHANGED <<call, last, aligned, tainted>>
  BY <1>2 DEF RecvHeader
<1>4. UNCHANGED <<secret, riv, sock, c2s, s2c, phase>>
  BY DEF RecvHeader, agentVars
<1>. QED
  BY <1>1, <1>3, <1>4 DEF LossInv, EndsWell

\* Its body is read.
LEMMA LossRecvBody ==
  ASSUME Faults = {}, TypeInv, MatchInv, LossInv, RecvBody
  PROVE  LossInv' /\ EndsWell
<1>1. pc = "body" /\ s2c # <<>> /\ UNCHANGED <<aligned, phase>>
  BY DEF RecvBody, agentVars
<1> DEFINE out == ReadPayload(WireOp(call), Head(s2c))
<1>2. MacVerifies(Head(s2c)) /\ out \in Expected
  BY <1>1, LossAnswer
<1> HIDE DEF out
<1>3. UNCHANGED tainted /\ \E ans : Ends(call, out, ans)
  BY <1>2 DEF RecvBody, out
<1>4. phase # "hello"
  BY <1>1 DEF LossInv
<1>. QED
  BY <1>1, <1>2, <1>3, <1>4, LossEnds DEF LossInv

\* The agent answers the handshake.
LEMMA LossAgentHandshake ==
  ASSUME Faults = {}, TypeInv, MatchInv, LossInv, AgentHandshake
  PROVE  LossInv' /\ EndsWell
<1>1. /\ pc = "handshake" /\ c2s # <<>> /\ c2s' = Tail(c2s)
      /\ UNCHANGED <<pc, call, last, sock, aligned, tainted>>
  BY DEF AgentHandshake, LossInv, clientVars, historyVars
<1>2. s2c = <<>>
  BY <1>1, OneRequest DEF LossInv
<1>3. PICK r \in HandshakeReplies :
        /\ s2c' = Append(s2c, Reply(NoKey, 0, r, Head(c2s).no))
        /\ phase' = IF r.status = 0 THEN "challenge" ELSE "gone"
  BY DEF AgentHandshake
<1> DEFINE d == Reply(NoKey, 0, r, Head(c2s).no)
<1>4. s2c' = <<d>> /\ Matches(d, r)
  BY <1>2, <1>3, OnePacket DEF Reply, Matches
<1>5. \A p \in Replies : s2c' = <<p>> => Matches(p, r)
  BY <1>4, OnePacket
<1>6. phase' # "hello"
  BY <1>3
<1>. QED
  BY <1>1, <1>5, <1>6 DEF LossInv, EndsWell

\* The agent answers an operation: with the counter that SyncInv speaks of.
LEMMA LossServe ==
  ASSUME Faults = {}, TypeInv, MatchInv, SyncInv, LossInv, AgentServe
  PROVE  LossInv' /\ EndsWell
<1> DEFINE q == Head(c2s)
<1>1. /\ c2s # <<>> /\ c2s' = Tail(c2s) /\ phase \in {"challenge", "ready"}
      /\ Authentic(q)
      /\ UNCHANGED <<pc, call, last, secret, riv, sock, aligned, tainted>>
  BY DEF AgentServe, clientVars
<1>2. /\ q \in Requests /\ c2s = <<q>> /\ s2c = <<>> /\ Tail(c2s) = <<>>
      /\ pc \in {"handshake", "header", "body"}
  BY <1>1, OneRequest DEF LossInv
<1>3. pc \in {"header", "body"}
  <2>1. CASE pc = "handshake"
    BY <1>1, <1>2, <2>1 DEF SyncInv
  <2>. QED
    BY <1>2, <2>1
<1>4. q.key = secret /\ q.op = WireOp(call) /\ q.key = conn /\ q.iv = aRiv
  BY <1>1, <1>2, <1>3 DEF LossInv, Authentic
<1>5. riv = aWiv
  <2>1. sock = "open" /\ ~tainted
    BY <1>3 DEF LossInv
  <2>2. Len(s2c) = 0 /\ riv \in Nat /\ aWiv \in Nat
    BY <1>2, EmptySeq DEF TypeInv, TypeOK
  <2>3. CASE phase = "ready"
    BY <2>1, <2>2, <2>3 DEF SyncInv, InSync
  <2>4. CASE phase = "challenge"
    <3>1. aRiv = WriterIv0 /\ aWiv = ReaderIv0
      BY <2>4 DEF SyncInv
    <3>2. c2s[1] = q
      BY <1>2, HeadTailProperties DEF TypeInv, TypeOK
    <3>3. FirstAck
      BY <1>1, <1>4, <2>4, <3>1, <3>2 DEF FirstAck, Authentic
    <3>. QED
      BY <2>1, <2>4, <3>1, <3>3 DEF SyncInv
  <2>. QED
    BY <1>1, <2>3, <2>4
<1>6. PICK r \in OperationReplies(q.op) :
        /\ s2c' = Append(s2c, Reply(conn, aWiv, r, q.no))
        /\ phase' = IF q.op = "ack" /\ r.status # 0 THEN "gone" ELSE "ready"
  BY DEF AgentServe
<1> DEFINE d == Reply(conn, aWiv, r, q.no)
<1>7. s2c' = <<d>> /\ Matches(d, r) /\ d.key = secret /\ d.iv = riv
  BY <1>2, <1>4, <1>5, <1>6, OnePacket DEF Reply, Matches
<1>8. \A p \in Replies : s2c' = <<p>> =>
        p.key = secret /\ p.iv = riv /\ Matches(p, r)
  BY <1>7, OnePacket
<1>9. \A p \in Requests : c2s' # <<p>>
  BY <1>1, <1>2, OnePacket
<1>10. phase' # "hello" /\ WireOp(call') = WireOp(call)
  BY <1>1, <1>6
<1>11. r \in OperationReplies(WireOp(call'))
  BY <1>4, <1>10
<1>. QED
  BY <1>1, <1>3, <1>8, <1>9, <1>10, <1>11 DEF LossInv, EndsWell

\* The connection goes away: what is left is what was there.
LEMMA LossHangUp ==
  ASSUME LossInv, AgentHangUp
  PROVE  LossInv' /\ EndsWell
<1>1. /\ c2s' = <<>> /\ s2c' \in {s2c, <<>>} /\ phase' = "gone"
      /\ UNCHANGED <<pc, call, last, secret, riv, sock, aligned, tainted>>
  BY DEF AgentHangUp, clientVars, historyVars
<1>2. \A q \in Requests : c2s' # <<q>>
  BY <1>1, OnePacket
<1>3. \A p \in Replies : s2c' = <<p>> => s2c = <<p>>
  BY <1>1, OnePacket
<1>4. WireOp(call') = WireOp(call)
  BY <1>1
<1>. QED
  BY <1>1, <1>2, <1>3, <1>4 DEF LossInv, EndsWell

\* Every step keeps the two ends together.
LEMMA LossStep ==
  ASSUME Faults = {}, TypeInv, MatchInv, SyncInv, LossInv, [Next]_vars
  PROVE  LossInv' /\ EndsWell
<1>1. CASE ConnectRefused \/ SubmitIncomplete
  <2>1. /\ pc = "idle" /\ \E c : Ends(c, "IOException", 0)
        /\ UNCHANGED <<aligned, tainted, phase>>
    BY <1>1
       DEF ConnectRefused, SubmitIncomplete, Fails, channelVars, agentVars,
           historyVars
  <2>2. phase # "hello"
    BY <2>1 DEF LossInv
  <2>. QED
    BY <2>1, <2>2, LossNames, LossEnds DEF LossInv
<1>0. CASE \E o \in Ops : CallUnconnected(o)
  <2>1. /\ pc = "idle" /\ pc' = "idle" /\ secret = NoKey
        /\ UNCHANGED <<aligned, tainted, phase>>
    BY <1>0
       DEF CallUnconnected, Fails, Ends, channelVars, agentVars, historyVars
  <2>. QED
    BY <2>1 DEF LossInv, EndsWell
<1>2. CASE Connect
  <2>1. /\ s2c' = <<>> /\ pc' = "handshake" /\ aligned' /\ ~tainted'
        /\ sock' = "open" /\ UNCHANGED last /\ call'.op = "connect"
    BY <1>2 DEF Connect, Begins
  <2>2. \A p \in Replies : s2c' # <<p>>
    BY <2>1, OnePacket
  <2>. QED
    BY <2>1, <2>2 DEF LossInv, EndsWell
<1>3. CASE Close
  BY <1>3 DEF Close, LossInv, EndsWell, channelVars, agentVars
<1>4. CASE \E o \in Ops : CallOperation(o)
  <2>1. PICK o \in Ops : CallOperation(o)
    BY <1>4
  <2> DEFINE c == [op |-> o, no |-> calls + 1]
  <2>2. o # "connect"
    BY OpsAssumption DEF ClientOps, Operation
  <2>3. c \in Calls /\ o = WireOp(c)
    BY <2>2 DEF TypeInv, TypeOK, Calls, WireOp
  <2>. QED
    BY <2>1, <2>3, LossTransmit DEF CallOperation, agentVars
<1>5. CASE SendAck
  <2>1. call \in Calls
    BY <1>5, CallInProgress DEF SendAck, TypeInv
  <2>2. call.op = "connect"
    BY <1>5 DEF SendAck, LossInv
  <2>. QED
    BY <1>5, <2>1, <2>2, LossTransmit DEF SendAck, agentVars, WireOp
<1>6. CASE RecvHandshake
  BY <1>6, LossRecvHandshake
<1>7. CASE RecvHeader
  BY <1>7, LossRecvHeader
<1>8. CASE RecvBody
  BY <1>8, LossRecvBody
<1>9. CASE RecvEof
  <2>1. /\ phase = "gone" /\ Ends(call, "IOException", 0)
        /\ UNCHANGED <<aligned, tainted, phase>>
    BY <1>9 DEF RecvEof, channelVars, agentVars, historyVars
  <2>. QED
    BY <2>1, LossNames, LossEnds DEF LossInv
<1>10. CASE RecvTimeout
  BY <1>10 DEF RecvTimeout
<1>11. CASE AgentHandshake
  BY <1>11, LossAgentHandshake
<1>12. CASE AgentServe
  BY <1>12, LossServe
<1>13. CASE AgentReject \/ AgentLost
  BY <1>13, LossHangUp DEF AgentReject, AgentLost
<1>14. CASE UNCHANGED vars
  BY <1>14 DEF vars, LossInv, EndsWell
<1>. QED
  BY <1>1, <1>2, <1>3, <1>4, <1>5, <1>6, <1>7, <1>8, <1>9, <1>10, <1>11,
     <1>12, <1>13, <1>14, <1>0 DEF Next

\* With an agent that answers what it should, and nothing lost but the
\* connection, no call of connect() or of an object with a shared secret ends
\* with an exception of the protocol layer.
THEOREM OnlyLoss ==
  ASSUME Faults = {}
  PROVE  Spec => OnlyLossFails
<1>1. TypeInv /\ TypeInv' /\ MatchInv /\ [Next]_vars => MatchInv'
  BY MatchStep
<1>2. TypeInv /\ MatchInv /\ SyncInv /\ LossInv /\ [Next]_vars => LossInv'
  BY LossStep
<1>3. TypeInv /\ MatchInv /\ SyncInv /\ LossInv /\ [Next]_vars =>
        [(last' # last /\ (pc # "idle" \/ secret # NoKey)) =>
           last'.out \in Answers \cup
             {"IOException", "ErrorStatusException",
              "AgentVerificationException"}]_vars
  BY LossStep DEF EndsWell, Expected
<1>. QED
  BY <1>1, <1>2, <1>3, MatchInit, LossInit, SyncInit, SyncStep, TypeInvariant,
     PTL DEF Spec, OnlyLossFails

-----------------------------------------------------------------------------
(***************************************************************************)
(* The connection implements VelochainService.                             *)
(*                                                                         *)
(* Requests reach the agent in the order of their numbers: those on their  *)
(* way increase and are greater than those carried out.  What waits to be  *)
(* read as the answer of a call is that of one carried out; the agent's    *)
(* answer to the first packet of a handshake, which it does not carry out, *)
(* is read before connect() goes on.                                       *)
(***************************************************************************)
OrderInv ==
  /\ pc = "idle" => call = NoCall
  /\ pc # "idle" => call.no = calls /\ calls > 0
  /\ phase = "hello" => pc = "handshake"
  /\ pc \in {"handshake", "ack"} =>
       \A j \in 1 .. Len(executed) : executed[j] < calls
  /\ \A j \in 1 .. Len(executed) : executed[j] <= calls
  /\ \A i \in 1 .. Len(c2s) :
       /\ c2s[i].no \in 1 .. calls
       /\ \A j \in 1 .. Len(executed) : executed[j] < c2s[i].no
       /\ \A k \in 1 .. Len(c2s) : i < k => c2s[i].no < c2s[k].no
  /\ pc \in {"header", "body"} /\ aligned /\ s2c # <<>> =>
       \E j \in 1 .. Len(executed) : executed[j] = call.no

\* Nothing was asked yet.
LEMMA OrderInit == Init => OrderInv
<1> SUFFICES ASSUME Init PROVE OrderInv
  OBVIOUS
<1>1. 1 .. Len(executed) = {} /\ 1 .. Len(c2s) = {}
  BY EmptySeq DEF Init
<1>. QED
  BY <1>1 DEF Init, OrderInv

\* A call ends, or is refused at once.
LEMMA OrderEnds ==
  ASSUME TypeInv, OrderInv, phase # "hello", pc' = "idle", call' = NoCall,
         calls' = calls \/ calls' = calls + 1,
         UNCHANGED <<c2s, phase, executed>>
  PROVE  OrderInv'
<1>1. /\ executed \in Seq(Nat) /\ c2s \in Seq(Requests) /\ calls \in Nat
      /\ calls' \in Nat /\ calls <= calls'
  BY MaxCallsAssumption DEF TypeInv, TypeOK
<1>2. \A j \in 1 .. Len(executed) : executed[j] \in Nat /\ executed[j] <= calls
  BY <1>1, ElementOfSeq DEF OrderInv
<1>3. \A j \in 1 .. Len(executed) : executed[j] <= calls'
  BY <1>1, <1>2
<1>4. \A i \in 1 .. Len(c2s) : c2s[i].no \in 1 .. calls'
  BY <1>1 DEF OrderInv
<1>. QED
  BY <1>3, <1>4 DEF OrderInv

\* A request has the number of its call, the greatest so far.
LEMMA OrderAppend ==
  ASSUME TypeInv, OrderInv, NEW q \in Requests, q.no = calls',
         calls' \in Nat, calls <= calls', calls' > 0,
         \A j \in 1 .. Len(executed) : executed[j] < calls',
         \A i \in 1 .. Len(c2s) : c2s[i].no < calls',
         c2s' = Append(c2s, q), UNCHANGED executed
  PROVE  /\ \A j \in 1 .. Len(executed') : executed'[j] <= calls'
         /\ \A i \in 1 .. Len(c2s') :
              /\ c2s'[i].no \in 1 .. calls'
              /\ \A j \in 1 .. Len(executed') : executed'[j] < c2s'[i].no
              /\ \A k \in 1 .. Len(c2s') : i < k => c2s'[i].no < c2s'[k].no
<1>1. c2s \in Seq(Requests) /\ executed \in Seq(Nat) /\ Len(c2s) \in Nat
      /\ calls \in Nat
  BY LenProperties DEF TypeInv, TypeOK
<1>2. /\ Len(c2s') = Len(c2s) + 1
      /\ \A i \in 1 .. Len(c2s) : c2s'[i] = c2s[i]
      /\ c2s'[Len(c2s) + 1] = q
  BY <1>1, AppendProperties
<1>3. \A j \in 1 .. Len(executed) : executed[j] \in Nat /\ executed[j] <= calls'
  BY <1>1, ElementOfSeq
<1>4. \A i \in 1 .. Len(c2s') : i \in 1 .. Len(c2s) \/ i = Len(c2s) + 1
  BY <1>1, <1>2
<1>5. ASSUME NEW i \in 1 .. Len(c2s')
      PROVE  /\ c2s'[i].no \in 1 .. calls'
             /\ \A j \in 1 .. Len(executed) : executed[j] < c2s'[i].no
  <2>1. CASE i \in 1 .. Len(c2s)
    BY <1>1, <1>2, <2>1 DEF OrderInv
  <2>2. CASE i = Len(c2s) + 1
    BY <1>2, <2>2
  <2>. QED
    BY <1>4, <2>1, <2>2
<1>6. ASSUME NEW i \in 1 .. Len(c2s'), NEW k \in 1 .. Len(c2s'), i < k
      PROVE  c2s'[i].no < c2s'[k].no
  <2>1. i \in 1 .. Len(c2s)
    BY <1>1, <1>2, <1>6
  <2>2. CASE k \in 1 .. Len(c2s)
    BY <1>2, <1>6, <2>1, <2>2 DEF OrderInv
  <2>3. CASE k = Len(c2s) + 1
    BY <1>2, <2>1, <2>3
  <2>. QED
    BY <1>4, <2>2, <2>3
<1>. QED
  BY <1>3, <1>5, <1>6

\* The write half of an operation and the acknowledgement.
LEMMA OrderTransmit ==
  ASSUME TypeInv, OrderInv, pc \in {"idle", "ack"}, phase # "hello",
         NEW o \in Ops \cup {"ack"}, NEW c \in Calls,
         Transmit(o, c, "header") \/ EncryptFails(c),
         call' = (IF pc' = "idle" THEN NoCall ELSE c), c.no = calls',
         calls' = calls \/ calls' = calls + 1, calls' > 0,
         \A j \in 1 .. Len(executed) : executed[j] < calls',
         \A i \in 1 .. Len(c2s) : c2s[i].no < calls',
         aligned => s2c = <<>>,
         UNCHANGED <<phase, executed>>
  PROVE  OrderInv'
<1>1. CASE pc' = "idle"
  <2>1. UNCHANGED c2s
    BY <1>1 DEF Transmit, EncryptFails
  <2>. QED
    BY <1>1, <2>1, OrderEnds
<1>2. CASE pc' # "idle"
  <2> DEFINE q == [key |-> secret, iv |-> wiv, op |-> o, no |-> c.no]
  <2>1. /\ pc' = "header" /\ call' = c /\ UNCHANGED <<s2c, aligned>>
        /\ c2s' = c2s \/ c2s' = Append(c2s, q)
    BY <1>2 DEF Transmit, EncryptFails, Ends
  <2>2. /\ executed \in Seq(Nat) /\ calls \in Nat /\ calls' \in Nat
        /\ calls <= calls' /\ q \in Requests
    BY DEF TypeInv, TypeOK, Requests, Calls
  <2>3. \A j \in 1 .. Len(executed) : executed[j] \in Nat /\ executed[j] <= calls'
    BY <2>2, ElementOfSeq
  <2>4. /\ \A j \in 1 .. Len(executed') : executed'[j] <= calls'
        /\ \A i \in 1 .. Len(c2s') :
             /\ c2s'[i].no \in 1 .. calls'
             /\ \A j \in 1 .. Len(executed') : executed'[j] < c2s'[i].no
             /\ \A k \in 1 .. Len(c2s') : i < k => c2s'[i].no < c2s'[k].no
    <3>1. CASE c2s' = c2s
      <4>1. \A i \in 1 .. Len(c2s) : c2s[i].no \in 1 .. calls'
        BY <2>2 DEF OrderInv
      <4>. QED
        BY <2>3, <3>1, <4>1 DEF OrderInv
    <3>2. CASE c2s' = Append(c2s, q)
      <4>1. q.no = calls'
        OBVIOUS
      <4> HIDE DEF q
      <4>. QED
        BY <2>2, <3>2, <4>1, OrderAppend
    <3>. QED
      BY <2>1, <3>1, <3>2
  <2>5. ~(aligned' /\ s2c' # <<>>)
    BY <2>1
  <2>. QED
    BY <2>1, <2>4, <2>5 DEF OrderInv
<1>. QED
  BY <1>1, <1>2

\* The agent takes the first packet of a handshake, or of requests the
\* oldest.
LEMMA OrderAgent ==
  ASSUME TypeInv, MatchInv, SyncInv, OrderInv, AgentHandshake \/ AgentServe
  PROVE  OrderInv'
<1> DEFINE q == Head(c2s)
<1>1. /\ c2s # <<>> /\ c2s' = Tail(c2s) /\ phase' # "hello"
      /\ UNCHANGED <<pc, call, calls, aligned>>
  BY DEF AgentHandshake, AgentServe, clientVars
<1>2. /\ c2s \in Seq(Requests) /\ executed \in Seq(Nat) /\ calls \in Nat
      /\ Len(c2s) \in Nat \ {0} /\ Len(executed) \in Nat
  BY <1>1, LenProperties, EmptySeq DEF TypeInv, TypeOK
<1>3. /\ q = c2s[1] /\ q \in Requests /\ Len(c2s') = Len(c2s) - 1
      /\ \A i \in 1 .. Len(c2s') : c2s'[i] = c2s[i + 1]
  BY <1>1, <1>2, HeadTailProperties
<1>4. q.no \in 1 .. calls /\ \A j \in 1 .. Len(executed) : executed[j] < q.no
  BY <1>2, <1>3 DEF OrderInv
<1> HIDE DEF q
<1>5. \A i \in 1 .. Len(c2s') :
        /\ c2s'[i].no \in 1 .. calls /\ q.no < c2s'[i].no
        /\ \A j \in 1 .. Len(executed) : executed[j] < c2s'[i].no
        /\ \A k \in 1 .. Len(c2s') : i < k => c2s'[i].no < c2s'[k].no
  <2> SUFFICES ASSUME NEW i \in 1 .. Len(c2s')
      PROVE /\ c2s[i + 1].no \in 1 .. calls /\ c2s[1].no < c2s[i + 1].no
            /\ \A j \in 1 .. Len(executed) : executed[j] < c2s[i + 1].no
            /\ \A k \in 1 .. Len(c2s') : i < k => c2s[i + 1].no < c2s[k + 1].no
    BY <1>3
  <2>1. \A k \in 1 .. Len(c2s') : k + 1 \in 1 .. Len(c2s) /\ 1 < k + 1
    BY <1>2, <1>3
  <2>2. \A k \in 1 .. Len(c2s') : i < k => i + 1 < k + 1
    BY <1>2, <1>3
  <2>3. i + 1 \in 1 .. Len(c2s) /\ 1 \in 1 .. Len(c2s) /\ 1 < i + 1
    BY <1>2, <2>1
  <2>4. c2s[1].no < c2s[i + 1].no
    BY <2>3 DEF OrderInv
  <2>5. /\ c2s[i + 1].no \in 1 .. calls
        /\ \A j \in 1 .. Len(executed) : executed[j] < c2s[i + 1].no
    BY <2>3 DEF OrderInv
  <2>6. ASSUME NEW k \in 1 .. Len(c2s'), i < k
        PROVE  c2s[i + 1].no < c2s[k + 1].no
    <3>1. k + 1 \in 1 .. Len(c2s) /\ i + 1 < k + 1
      BY <2>1, <2>2, <2>6
    <3>. QED
      BY <2>3, <3>1 DEF OrderInv
  <2>. QED
    BY <2>4, <2>5, <2>6
<1>6. CASE AgentHandshake
  <2>1. pc = "handshake" /\ UNCHANGED executed
    BY <1>6 DEF AgentHandshake, OrderInv, historyVars
  <2>. QED
    BY <1>1, <1>5, <2>1 DEF OrderInv
<1>7. CASE AgentServe
  <2>1. executed' = Append(executed, q.no) /\ phase \in {"challenge", "ready"}
    BY <1>7 DEF AgentServe, q
  <2>2. q.no \in Nat
    BY <1>2, <1>4
  <2>3. /\ Len(executed') = Len(executed) + 1
        /\ \A j \in 1 .. Len(executed) : executed'[j] = executed[j]
        /\ executed'[Len(executed) + 1] = q.no
    BY <1>2, <2>1, <2>2, AppendProperties
  <2>4. \A j \in 1 .. Len(executed') :
          j \in 1 .. Len(executed) \/ j = Len(executed) + 1
    BY <1>2, <2>3
  <2>5. \A j \in 1 .. Len(executed') : executed'[j] <= calls
    <3>1. q.no <= calls
      BY <1>2, <1>4
    <3>2. \A j \in 1 .. Len(executed) : executed[j] <= calls
      BY DEF OrderInv
    <3>. QED
      BY <2>3, <2>4, <3>1, <3>2
  <2>6. \A i \in 1 .. Len(c2s') : \A j \in 1 .. Len(executed') :
          executed'[j] < c2s'[i].no
    BY <1>5, <2>3, <2>4
  <2>7. pc \notin {"handshake", "ack"}
    BY <1>1, <2>1 DEF SyncInv
  <2>8. aligned => q.no = call.no
    BY <1>1, OneRequest DEF q
  <2>9. aligned => \E j \in 1 .. Len(executed') : executed'[j] = call.no
    BY <1>2, <2>3, <2>8
  <2>10. pc # "idle" => call.no = calls /\ calls > 0
    BY DEF OrderInv
  <2>11. pc = "idle" => call = NoCall
    BY DEF OrderInv
  <2>. QED
    BY <1>1, <1>5, <2>5, <2>6, <2>7, <2>9, <2>10, <2>11 DEF OrderInv
<1>. QED
  BY <1>6, <1>7

\* The connection goes away.
LEMMA OrderHangUp ==
  ASSUME OrderInv, AgentHangUp
  PROVE  OrderInv'
<1>1. /\ c2s' = <<>> /\ s2c' \in {s2c, <<>>} /\ phase' = "gone"
      /\ UNCHANGED <<pc, call, calls, aligned, executed>>
  BY DEF AgentHangUp, clientVars, historyVars
<1>2. 1 .. Len(c2s') = {}
  BY <1>1, EmptySeq
<1>. QED
  BY <1>1, <1>2 DEF OrderInv

\* Every step keeps the order of the calls.
LEMMA OrderStep ==
  ASSUME "timeout" \notin Faults, TypeInv, MatchInv, SyncInv, OrderInv,
         [Next]_vars
  PROVE  OrderInv'
<1>0. /\ calls \in Nat /\ executed \in Seq(Nat) /\ c2s \in Seq(Requests)
      /\ \A j \in 1 .. Len(executed) : executed[j] \in Nat
  BY MaxCallsAssumption, ElementOfSeq DEF TypeInv, TypeOK
<1>1. CASE ConnectRefused \/ SubmitIncomplete \/ \E o \in Ops : CallUnconnected(o)
  <2>1. /\ pc = "idle" /\ pc' = "idle" /\ calls' = calls + 1
        /\ UNCHANGED <<call, c2s, phase, executed>>
    BY <1>1 DEF ConnectRefused, SubmitIncomplete, CallUnconnected, Fails,
                Ends, channelVars, agentVars, historyVars
  <2>. QED
    BY <2>1, OrderEnds DEF OrderInv
<1>2. CASE Connect
  <2> DEFINE q == [key |-> NoKey, iv |-> 0, op |-> "handshake", no |-> calls + 1]
  <2>1. /\ c2s' = <<q>> /\ pc' = "handshake" /\ calls' = calls + 1
        /\ call'.no = calls' /\ UNCHANGED executed
    BY <1>2 DEF Connect, Begins
  <2>2. Len(c2s') = 1 /\ c2s'[1].no = calls'
    BY <2>1
  <2>3. \A j \in 1 .. Len(executed) : executed[j] < calls'
    BY <1>0, <2>1 DEF OrderInv
  <2>4. calls' \in Nat /\ calls' > 0
    BY <1>0, <2>1
  <2>. QED
    BY <1>0, <2>1, <2>2, <2>3, <2>4 DEF OrderInv
<1>3. CASE Close
  BY <1>3 DEF Close, channelVars, agentVars, OrderInv
<1>4. CASE \E o \in Ops : CallOperation(o)
  <2>1. PICK o \in Ops : CallOperation(o)
    BY <1>4
  <2> DEFINE c == [op |-> o, no |-> calls + 1]
  <2>2. c \in Calls /\ c.no = calls'
    BY <1>0, <2>1 DEF Calls, CallOperation
  <2>3. /\ pc = "idle" /\ calls' = calls + 1 /\ phase # "hello"
        /\ UNCHANGED <<phase, executed>>
    BY <2>1 DEF CallOperation, agentVars, OrderInv
  <2>4. \A j \in 1 .. Len(executed) : executed[j] < calls'
    BY <1>0, <2>3 DEF OrderInv
  <2>5. \A i \in 1 .. Len(c2s) : c2s[i].no < calls'
    BY <1>0, <2>3 DEF OrderInv
  <2>6. aligned => s2c = <<>>
    BY <2>3 DEF MatchInv, Quiet
  <2>7. calls' > 0
    BY <1>0, <2>3
  <2>8. /\ Transmit(o, c, "header") \/ EncryptFails(c)
        /\ call' = (IF pc' = "idle" THEN NoCall ELSE c)
    BY <2>1 DEF CallOperation
  <2> HIDE DEF c
  <2>. QED
    BY <2>2, <2>3, <2>4, <2>5, <2>6, <2>7, <2>8, OrderTransmit
<1>5. CASE SendAck
  <2>1. call \in Calls
    BY <1>5, CallInProgress DEF SendAck, TypeInv
  <2>2. pc = "ack" /\ UNCHANGED <<calls, phase, executed>> /\ phase # "hello"
    BY <1>5 DEF SendAck, agentVars, OrderInv
  <2>3. c2s = <<>> /\ s2c = <<>>
    BY <2>2 DEF MatchInv, Quiet
  <2>4. 1 .. Len(c2s) = {}
    BY <2>3, EmptySeq
  <2>5. call.no = calls' /\ calls' > 0
        /\ \A j \in 1 .. Len(executed) : executed[j] < calls'
    BY <2>2 DEF OrderInv
  <2>6. /\ Transmit("ack", call, "header") \/ EncryptFails(call)
        /\ call' = (IF pc' = "idle" THEN NoCall ELSE call)
    BY <1>5 DEF SendAck
  <2>. QED
    BY <2>1, <2>2, <2>3, <2>4, <2>5, <2>6, OrderTransmit
<1>6. CASE RecvHandshake
  <2>1. phase # "hello" /\ UNCHANGED <<calls, c2s, phase, executed>>
    BY <1>6 DEF RecvHandshake, SyncInv, agentVars
  <2>2. CASE pc' = "idle" /\ call' = NoCall
    BY <2>1, <2>2, OrderEnds
  <2>3. CASE pc' = "ack" /\ UNCHANGED call
    BY <1>6, <2>1, <2>3 DEF OrderInv, RecvHandshake
  <2>. QED
    BY <1>6, <2>2, <2>3 DEF RecvHandshake, Ends
<1>7. CASE RecvHeader
  <2>1. pc = "header" /\ phase # "hello"
        /\ UNCHANGED <<calls, c2s, s2c, phase, executed>>
    BY <1>7 DEF RecvHeader, OrderInv, agentVars
  <2>2. CASE pc' = "idle" /\ call' = NoCall
    BY <2>1, <2>2, OrderEnds
  <2>3. CASE pc' = "body" /\ UNCHANGED <<call, aligned>>
    BY <2>1, <2>3 DEF OrderInv
  <2>. QED
    BY <1>7, <2>2, <2>3 DEF RecvHeader, Ends
<1>8. CASE RecvBody \/ RecvEof
  <2>1. /\ pc' = "idle" /\ call' = NoCall /\ phase # "hello"
        /\ UNCHANGED <<calls, c2s, phase, executed>>
    BY <1>8 DEF RecvBody, RecvEof, Ends, OrderInv, channelVars, agentVars,
                historyVars
  <2>. QED
    BY <2>1, OrderEnds
<1>9. CASE RecvTimeout
  BY <1>9 DEF RecvTimeout
<1>10. CASE AgentHandshake \/ AgentServe
  BY <1>10, OrderAgent
<1>11. CASE AgentReject \/ AgentLost
  BY <1>11, OrderHangUp DEF AgentReject, AgentLost
<1>12. CASE UNCHANGED vars
  BY <1>12 DEF vars, OrderInv
<1>. QED
  BY <1>1, <1>2, <1>3, <1>4, <1>5, <1>6, <1>7, <1>8, <1>9, <1>10, <1>11,
     <1>12 DEF Next

ServiceVars == <<call, calls, executed, last>>

\* The exceptions of the steps are those of the service.
LEMMA ServiceNames ==
  /\ {"IOException", "IllegalStateException", "InvalidPayloadSizeException",
      "MessageVerificationException", "NullPointerException",
      "ConnectException"} \subseteq Exceptions
  /\ \A p : HandshakeException(p) \in Exceptions
BY DEF Exceptions, HandshakeException, FaultException

\* A call that is in progress throws.
LEMMA ServiceThrow ==
  ASSUME TypeInv, pc # "idle", NEW out \in Exceptions, Ends(call, out, 0),
         call' = NoCall, UNCHANGED <<calls, executed>>
  PROVE  Service!Next
<1>1. call # NoCall
  BY DEF TypeInv, TypeOK, NoCall
<1>. QED
  BY <1>1 DEF Service!Next, Service!Throw, Service!Result, Ends

\* A call that is refused at once.
LEMMA ServiceRefuse ==
  ASSUME call = NoCall, NEW o \in Ops \cup {"connect"},
         NEW out \in Exceptions, Ends([op |-> o, no |-> calls + 1], out, 0),
         calls' = calls + 1, UNCHANGED <<call, executed>>
  PROVE  Service!Next
BY DEF Service!Next, Service!Refuse, Service!Result, Ends

\* Every step of the connection is one of the service, or none.
LEMMA ServiceStep ==
  ASSUME "timeout" \notin Faults, TypeInv, MatchInv, OrderInv, [Next]_vars
  PROVE  Service!Next \/ UNCHANGED ServiceVars
<1>1. CASE ConnectRefused \/ SubmitIncomplete \/ \E o \in Ops : CallUnconnected(o)
  <2>1. /\ pc = "idle" /\ calls' = calls + 1 /\ UNCHANGED <<call, executed>>
        /\ \E o \in Ops \cup {"connect"} : \E out \in Exceptions :
             Ends([op |-> o, no |-> calls + 1], out, 0)
    BY <1>1, ServiceNames
       DEF ConnectRefused, SubmitIncomplete, CallUnconnected, Fails,
           historyVars
  <2>2. call = NoCall
    BY <2>1 DEF OrderInv
  <2>. QED
    BY <2>1, <2>2, ServiceRefuse
<1>2. CASE Connect
  <2>1. /\ pc = "idle" /\ calls' = calls + 1 /\ UNCHANGED <<executed, last>>
        /\ call' = [op |-> "connect", no |-> calls + 1]
    BY <1>2 DEF Connect, Begins
  <2>. QED
    BY <2>1 DEF OrderInv, Service!Next, Service!Begin
<1>3. CASE \E o \in Ops : CallOperation(o)
  <2>1. PICK o \in Ops : CallOperation(o)
    BY <1>3
  <2> DEFINE c == [op |-> o, no |-> calls + 1]
  <2>2. /\ pc = "idle" /\ calls' = calls + 1 /\ UNCHANGED executed
        /\ Transmit(o, c, "header") \/ EncryptFails(c)
        /\ call' = (IF pc' = "idle" THEN NoCall ELSE c)
    BY <2>1 DEF CallOperation
  <2>3. call = NoCall
    BY <2>2 DEF OrderInv
  <2>4. CASE \E out \in Exceptions : Ends(c, out, 0)
    <3>1. UNCHANGED call
      BY <2>2, <2>3, <2>4 DEF Ends
    <3>. QED
      BY <2>2, <2>3, <2>4, <3>1, ServiceRefuse
  <2>5. CASE pc' = "header" /\ UNCHANGED last
    BY <2>2, <2>3, <2>5 DEF Service!Next, Service!Begin
  <2>. QED
    BY <2>2, <2>4, <2>5, ServiceNames DEF Transmit, EncryptFails
<1>4. CASE SendAck
  <2>1. /\ pc = "ack" /\ UNCHANGED <<calls, executed>>
        /\ Transmit("ack", call, "header") \/ EncryptFails(call)
        /\ call' = (IF pc' = "idle" THEN NoCall ELSE call)
    BY <1>4 DEF SendAck
  <2>2. CASE \E out \in Exceptions : Ends(call, out, 0)
    BY <2>1, <2>2, ServiceThrow DEF Ends
  <2>3. CASE pc' = "header" /\ UNCHANGED last
    BY <2>1, <2>3 DEF ServiceVars
  <2>. QED
    BY <2>1, <2>2, <2>3, ServiceNames DEF Transmit, EncryptFails
<1>5. CASE RecvHandshake
  <2>1. pc = "handshake" /\ UNCHANGED <<calls, executed>>
    BY <1>5 DEF RecvHandshake
  <2>2. CASE call' = NoCall /\ \E out \in Exceptions : Ends(call, out, 0)
    BY <2>1, <2>2, ServiceThrow
  <2>3. CASE UNCHANGED <<call, last>>
    BY <2>1, <2>3 DEF ServiceVars
  <2>. QED
    BY <1>5, <2>2, <2>3, ServiceNames DEF RecvHandshake
<1>6. CASE RecvHeader
  <2>1. pc = "header" /\ UNCHANGED <<calls, executed>>
    BY <1>6 DEF RecvHeader
  <2>2. CASE call' = NoCall /\ \E out \in Exceptions : Ends(call, out, 0)
    BY <2>1, <2>2, ServiceThrow
  <2>3. CASE UNCHANGED <<call, last>>
    BY <2>1, <2>3 DEF ServiceVars
  <2>. QED
    BY <1>6, <2>2, <2>3, ServiceNames DEF RecvHeader
<1>7. CASE RecvBody
  <2> DEFINE out == ReadPayload(WireOp(call), Head(s2c))
  <2>1. /\ pc = "body" /\ s2c # <<>> /\ call' = NoCall
        /\ UNCHANGED <<calls, executed>>
    BY <1>7 DEF RecvBody
  <2>2. aligned
    BY <2>1 DEF MatchInv
  <2>3. Head(s2c).no = call.no
    BY <2>1, <2>2, OneReply
  <2>4. \E j \in 1 .. Len(executed) : executed[j] = call.no
    BY <2>1, <2>2 DEF OrderInv
  <2>5. out \in Answers \cup Exceptions
    BY <2>1, CallInProgress, ReadPayloadType DEF TypeInv, Outcomes
  <2> HIDE DEF out
  <2>6. CASE out \in Answers /\ Ends(call, out, call.no)
    <3>1. call # NoCall
      BY <2>1 DEF TypeInv, TypeOK, NoCall
    <3>. QED
      BY <2>1, <2>4, <2>6, <3>1
         DEF Service!Next, Service!Return, Service!Result, Ends
  <2>7. CASE \E e \in Exceptions : Ends(call, e, 0)
    BY <2>1, <2>7, ServiceThrow
  <2>8. \/ Ends(call, out, IF out \in Answers THEN Head(s2c).no ELSE 0)
        \/ \E e \in Exceptions : Ends(call, e, 0)
    BY <1>7, ServiceNames DEF RecvBody, out
  <2>. QED
    BY <2>3, <2>5, <2>6, <2>7, <2>8
<1>8. CASE RecvEof
  <2>1. /\ pc # "idle" /\ Ends(call, "IOException", 0) /\ call' = NoCall
        /\ UNCHANGED <<calls, executed>>
    BY <1>8 DEF RecvEof, historyVars
  <2>. QED
    BY <2>1, ServiceNames, ServiceThrow
<1>9. CASE RecvTimeout
  BY <1>9 DEF RecvTimeout
<1>10. CASE AgentServe
  <2>1. /\ c2s # <<>> /\ executed' = Append(executed, Head(c2s).no)
        /\ UNCHANGED <<call, calls, last>>
    BY <1>10 DEF AgentServe, clientVars
  <2>2. c2s \in Seq(Requests) /\ Len(c2s) \in Nat \ {0} /\ Head(c2s) = c2s[1]
    BY <2>1, LenProperties, EmptySeq, HeadTailProperties DEF TypeInv, TypeOK
  <2>3. /\ Head(c2s).no \in 1 .. calls
        /\ \A j \in 1 .. Len(executed) : executed[j] < Head(c2s).no
    BY <2>2 DEF OrderInv
  <2>. QED
    BY <2>1, <2>3 DEF Service!Next, Service!Execute
<1>11. CASE Close \/ AgentHandshake \/ AgentReject \/ AgentLost
  BY <1>11 DEF Close, AgentHandshake, AgentReject, AgentLost, AgentHangUp,
               clientVars, historyVars, ServiceVars
<1>12. CASE UNCHANGED vars
  BY <1>12 DEF vars, ServiceVars
<1>. QED
  BY <1>1, <1>2, <1>3, <1>4, <1>5, <1>6, <1>7, <1>8, <1>9, <1>10, <1>11,
     <1>12 DEF Next

\* On a socket without read timeout the connection is a VelochainService:
\* calls are carried out at most once and in order, and what a call returns
\* is the agent's answer to that call, whatever is lost, refused or fails.
THEOREM Implements ==
  ASSUME "timeout" \notin Faults
  PROVE  Spec => ImplementsService
<1>1. Init => Service!Init
  BY DEF Init, Service!Init
<1>2. TypeInv /\ TypeInv' /\ MatchInv /\ [Next]_vars => MatchInv'
  BY MatchStep
<1>3. TypeInv /\ MatchInv /\ SyncInv /\ OrderInv /\ [Next]_vars => OrderInv'
  BY OrderStep
<1>4. TypeInv /\ MatchInv /\ OrderInv /\ [Next]_vars
        => [Service!Next]_(Service!serviceVars)
  BY ServiceStep DEF ServiceVars, Service!serviceVars
<1>. QED
  BY <1>1, <1>2, <1>3, <1>4, MatchInit, OrderInit, SyncInit, SyncStep,
     TypeInvariant, PTL DEF Spec, ImplementsService, Service!Spec
=============================================================================
