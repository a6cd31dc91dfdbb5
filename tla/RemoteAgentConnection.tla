----------------------- MODULE RemoteAgentConnection -----------------------
(***************************************************************************)
(* One RemoteAgentConnection object used by one thread: its                *)
(* ProtocolHandlerImpl (the shared secret), its OuterEnvelopeWriter and    *)
(* OuterEnvelopeReader (an IV counter each), its SocketDataChannelImpl     *)
(* (two byte streams) and, outside the repository, the agentd process at   *)
(* the other end.                                                          *)
(*                                                                         *)
(* Ciphers are ideal: a packet decrypts exactly under the key and the IV   *)
(* it was encrypted with, and anything else is not taken for a packet.     *)
(* Keys are numbered by connection: the agent and a client that agree on   *)
(* the key of the n-th connection hold n; a client whose peer does not     *)
(* hold that key has computed -n.                                          *)
(***************************************************************************)
EXTENDS AgentProtocol

CONSTANTS
  Ops,           \* the operations the client calls
  MaxCalls,      \* bound: calls made in one behaviour, connect() included
  MaxConnects,   \* bound: sockets opened in one behaviour
  IvHalf,        \* 2^63 in the code, the distance of the two IV counters
  ReplySizes,    \* payload sizes a deviant agent answers with
  Faults         \* what the environment may do besides losing a connection

ASSUME OpsAssumption == Ops \subseteq ClientOps
ASSUME MaxCallsAssumption == MaxCalls \in Nat \ {0}
ASSUME MaxConnectsAssumption == MaxConnects \in Nat \ {0}
ASSUME IvHalfAssumption == IvHalf \in Nat /\ MaxCalls < IvHalf
ASSUME ReplySizesAssumption == ReplySizes \subseteq Nat
ASSUME FaultsAssumption == Faults \subseteq {"deviant", "timeout", "native"}

VARIABLES
  pc,         \* where the calling thread is
  call,       \* the call in progress: its operation and its number
  calls,      \* number of calls begun
  last,       \* the call that ended last, and how
  secret,     \* ProtocolHandlerImpl.sharedSecret, NoKey for null
  wiv,        \* OuterEnvelopeWriter.iv
  riv,        \* OuterEnvelopeReader.iv
  sock,       \* SocketDataChannelImpl: no streams yet, open or closed
  conn,       \* number of sockets opened
  c2s,        \* packets on their way to the agent
  s2c,        \* packets on their way to the client
  aligned,    \* the next unread byte of s2c begins a packet, or its body
              \* once the header is read
  phase,      \* the agent's side of the current connection
  aRiv,       \* the agent's counterpart of wiv
  aWiv,       \* the agent's counterpart of riv
  executed,   \* history: numbers of the calls the agent carried out
  accepted,   \* history: numbers of the submissions the agent accepted
  connected,  \* history: the last connect() succeeded and no close() since
  tainted,    \* history: an answer on this connection could not be read
  wire        \* history: key and IV of every packet encrypted so far

clientVars == <<pc, call, calls, last, secret, wiv, riv, sock, conn>>
channelVars == <<c2s, s2c, aligned>>
agentVars == <<phase, aRiv, aWiv>>
historyVars == <<executed, accepted, connected, tainted, wire>>
vars == <<pc, call, calls, last, secret, wiv, riv, sock, conn, c2s, s2c,
          aligned, phase, aRiv, aWiv, executed, accepted, connected, tainted,
          wire>>

NoKey == 0
NoCall == [op |-> "none", no |-> 0]
NoResult == [op |-> "none", no |-> 0, out |-> "none", ans |-> 0]

\* 0x0000000000000001 and 0x8000000000000001.
WriterIv0 == 1
ReaderIv0 == IvHalf + 1

PCs == {"idle", "handshake", "ack", "header", "body"}
Phases == {"none", "hello", "challenge", "ready", "gone"}

Requests == [key : Int, iv : Nat, op : Ops \cup {"ack", "handshake"}, no : Nat]
Replies == [key : Int, iv : Nat, id : Nat, status : Nat, size : Nat,
            fault : PacketFaults, no : Nat]

Init ==
  /\ pc = "idle" /\ call = NoCall /\ calls = 0 /\ last = NoResult
  /\ secret = NoKey /\ wiv = WriterIv0 /\ riv = ReaderIv0
  /\ sock = "none" /\ conn = 0
  /\ c2s = <<>> /\ s2c = <<>> /\ aligned = TRUE
  /\ phase = "none" /\ aRiv = WriterIv0 /\ aWiv = ReaderIv0
  /\ executed = <<>> /\ accepted = {} /\ connected = FALSE
  /\ tainted = FALSE /\ wire = <<>>

-----------------------------------------------------------------------------
(***************************************************************************)
(* Calls begin and end.                                                    *)
(***************************************************************************)

\* The application calls operation o.
Begins(o) ==
  /\ pc = "idle"
  /\ calls < MaxCalls
  /\ calls' = calls + 1
  /\ call' = [op |-> o, no |-> calls + 1]

\* The call c returns or throws out; ans is the number of the call that the
\* answer it was given belongs to, 0 when it was given none.
Ends(c, out, ans) ==
  /\ pc' = "idle"
  /\ last' = [op |-> c.op, no |-> c.no, out |-> out, ans |-> ans]

\* A call that ends where it begins.
Fails(o, out) ==
  /\ pc = "idle"
  /\ calls < MaxCalls
  /\ calls' = calls + 1
  /\ Ends([op |-> o, no |-> calls + 1], out, 0)
  /\ UNCHANGED call

\* What RemoteAgentConnection makes of the outcome of a call: submit() turns
\* every exception into FAILED.
Reported(r) ==
  IF r.op = "submit"
  THEN IF r.out = "value" THEN "SUCCEEDED" ELSE "FAILED"
  ELSE r.out

-----------------------------------------------------------------------------
(***************************************************************************)
(* The envelope and the channel.                                           *)
(***************************************************************************)

\* Mutant of Transmit: the IV is counted up after send() instead of before.
Transmit_CountAfterSend(o, c, cont) ==
  /\ wire' = Append(wire, <<secret, wiv>>)
  /\ \/ /\ sock = "open"
        /\ wiv' = wiv + 1
        /\ c2s' = IF phase = "gone" THEN c2s
                  ELSE Append(c2s, [key |-> secret, iv |-> wiv,
                                    op |-> o, no |-> c.no])
        /\ pc' = cont
        /\ UNCHANGED last
     \/ /\ sock = "closed" \/ phase = "gone"
        /\ Ends(c, "IOException", 0)
        /\ UNCHANGED <<c2s, wiv>>
  /\ UNCHANGED <<secret, riv, sock, conn, s2c, aligned>>

\* Mutant of Transmit: an operation's request is sent twice, as a retry would.
Transmit_Retry(o, c, cont) ==
  LET n == IF o = "ack" THEN 1 ELSE 2
  IN /\ wiv' = wiv + n
     /\ wire' = wire \o [i \in 1 .. n |-> <<secret, wiv + i - 1>>]
     /\ \/ /\ sock = "open"
           /\ c2s' = IF phase = "gone" THEN c2s
                     ELSE c2s \o [i \in 1 .. n |->
                                  [key |-> secret, iv |-> wiv + i - 1,
                                   op |-> o, no |-> c.no]]
           /\ pc' = cont
           /\ UNCHANGED last
        \/ /\ sock = "closed" \/ phase = "gone"
           /\ Ends(c, "IOException", 0)
           /\ UNCHANGED c2s
     /\ UNCHANGED <<secret, riv, sock, conn, s2c, aligned>>

\* encryptPayload, which counts its IV up, then send: the packet reaches the
\* agent, or is buffered for a peer that is gone, or cannot be written.
\* cont is where the thread goes on if nothing is thrown.
Transmit(o, c, cont) ==
  /\ wiv' = wiv + 1
  /\ wire' = Append(wire, <<secret, wiv>>)
  /\ \/ /\ sock = "open"
        /\ c2s' = IF phase = "gone" THEN c2s
                  ELSE Append(c2s, [key |-> secret, iv |-> wiv,
                                    op |-> o, no |-> c.no])
        /\ pc' = cont
        /\ UNCHANGED last
     \/ /\ sock = "closed" \/ phase = "gone"
        /\ Ends(c, "IOException", 0)
        /\ UNCHANGED c2s
  /\ UNCHANGED <<secret, riv, sock, conn, s2c, aligned>>

\* encryptPayloadNative cannot get its resources: it throws before the IV is
\* counted up and before anything is sent.
EncryptFails(c) ==
  /\ "native" \in Faults
  /\ Ends(c, "IllegalStateException", 0)
  /\ UNCHANGED <<secret, wiv, riv, sock, conn, c2s, s2c, aligned, wire>>

-----------------------------------------------------------------------------
(***************************************************************************)
(* connect() and close().                                                  *)
(***************************************************************************)

\* dataChannel.connect() cannot open a socket; the fields keep their values.
ConnectRefused ==
  /\ Fails("connect", "IOException")
  /\ UNCHANGED <<secret, wiv, riv, sock, conn>>
  /\ UNCHANGED <<channelVars, agentVars, historyVars>>

\* dataChannel.connect() replaces the socket and its streams, whatever became
\* of the old ones, and initiateHandshake() sends its request in the clear.
Connect ==
  /\ Begins("connect")
  /\ conn < MaxConnects
  /\ conn' = conn + 1
  /\ sock' = "open"
  /\ c2s' = <<[key |-> NoKey, iv |-> 0, op |-> "handshake", no |-> calls + 1]>>
  /\ s2c' = <<>>
  /\ aligned' = TRUE
  /\ phase' = "hello" /\ aRiv' = WriterIv0 /\ aWiv' = ReaderIv0
  /\ pc' = "handshake"
  /\ connected' = FALSE /\ tainted' = FALSE
  /\ UNCHANGED <<last, secret, wiv, riv, executed, accepted, wire>>

\* computeSharedSecret(): the agent's key if the agent is who it claims to be.
SharedSecret(p) == IF HandshakeAccepts(p) THEN conn ELSE -conn

\* initiateHandshake() reads the agent's answer.  The shared secret is set
\* before the HMAC of the answer is verified; computing either can fail in
\* native code.
RecvHandshake ==
  /\ pc = "handshake" /\ s2c # <<>>
  /\ LET p == Head(s2c)
     IN \/ /\ HandshakeAccepts(p)
           /\ secret' = SharedSecret(p)
           /\ s2c' = Tail(s2c)
           /\ pc' = "ack"
           /\ UNCHANGED <<call, last, aligned, tainted>>
        \/ /\ ~HandshakeAccepts(p)
           /\ secret' = IF HandshakeBadHmac(p) THEN SharedSecret(p) ELSE secret
           /\ s2c' = IF HandshakeBodyUnread(p) THEN s2c ELSE Tail(s2c)
           /\ aligned' = ~HandshakeBodyUnread(p)
           /\ tainted' = (tainted \/ HandshakeBodyUnread(p))
           /\ Ends(call, HandshakeException(p), 0)
           /\ call' = NoCall
        \/ /\ "native" \in Faults
           /\ HandshakeAccepts(p) \/ HandshakeBadHmac(p)
           /\ secret' \in {secret, SharedSecret(p)}
           /\ s2c' = Tail(s2c)
           /\ Ends(call, "IllegalStateException", 0)
           /\ call' = NoCall
           /\ UNCHANGED <<aligned, tainted>>
  /\ UNCHANGED <<calls, wiv, riv, sock, conn, c2s, agentVars>>
  /\ UNCHANGED <<executed, accepted, connected, wire>>

\* Mutant of SendAck: connect() is over once the proof is sent.
SendAck_ForgetsCall ==
  /\ pc = "ack"
  /\ Transmit("ack", call, "header") \/ EncryptFails(call)
  /\ call' = NoCall
  /\ UNCHANGED <<calls, agentVars, executed, accepted, connected, tainted>>

\* acknowledgeHandshake() sends the client's proof.
SendAck ==
  /\ pc = "ack"
  /\ Transmit("ack", call, "header") \/ EncryptFails(call)
  /\ call' = IF pc' = "idle" THEN NoCall ELSE call
  /\ UNCHANGED <<calls, agentVars, executed, accepted, connected, tainted>>

\* close() closes the streams and the socket and nothing else.  Before the
\* first connect() it throws a NullPointerException.
Close ==
  /\ pc = "idle"
  /\ sock' = IF sock = "none" THEN "none" ELSE "closed"
  /\ connected' = FALSE
  /\ UNCHANGED <<pc, call, calls, last, secret, wiv, riv, conn>>
  /\ UNCHANGED <<channelVars, agentVars, executed, accepted, tainted, wire>>

-----------------------------------------------------------------------------
(***************************************************************************)
(* The operations.                                                         *)
(***************************************************************************)

\* Without a shared secret every operation but getConnectionStatus() throws a
\* ConnectException; that one has no guard and hands null to the cipher.
CallUnconnected(o) ==
  /\ secret = NoKey
  /\ Fails(o, IF o = "getConnectionStatus" THEN "NullPointerException"
                                           ELSE "ConnectException")
  /\ UNCHANGED <<secret, wiv, riv, sock, conn>>
  /\ UNCHANGED <<channelVars, agentVars, historyVars>>

\* submit() of a certificate without transaction id or artifact id.
SubmitIncomplete ==
  /\ "submit" \in Ops
  /\ secret # NoKey
  /\ Fails("submit", "IOException")
  /\ UNCHANGED <<secret, wiv, riv, sock, conn>>
  /\ UNCHANGED <<channelVars, agentVars, historyVars>>

\* The write half of operation o.
CallOperation(o) ==
  LET c == [op |-> o, no |-> calls + 1]
  IN /\ pc = "idle" /\ secret # NoKey
     /\ calls < MaxCalls
     /\ calls' = calls + 1
     /\ Transmit(o, c, "header") \/ EncryptFails(c)
     /\ call' = IF pc' = "idle" THEN NoCall ELSE c
     /\ UNCHANGED <<agentVars, executed, accepted, connected, tainted>>

\* The operation on the wire: connect() is waiting for the acknowledgement.
WireOp(c) == IF c.op = "connect" THEN "ack" ELSE c.op

\* decryptHeader finds a packet of acceptable size behind the 5 bytes read.
HeaderDecrypts(p) ==
  aligned /\ p.key = secret /\ p.iv = riv /\ p.size <= MaxPayload

\* The read half, first part: header, decryptHeader, payload size.
\* Whatever is thrown here leaves the body of the packet in the channel.
RecvHeader ==
  /\ pc = "header" /\ s2c # <<>>
  /\ LET p == Head(s2c)
         fits == p.size \in Operation[WireOp(call)].sizes
     IN \/ /\ HeaderDecrypts(p) /\ fits
           /\ pc' = "body"
           /\ UNCHANGED <<call, last, aligned, tainted>>
        \/ /\ HeaderDecrypts(p) /\ ~fits
           /\ Ends(call, "InvalidPayloadSizeException", 0)
           /\ call' = NoCall /\ aligned' = FALSE /\ tainted' = TRUE
        \/ /\ ~HeaderDecrypts(p) \/ "native" \in Faults
           /\ Ends(call, "IllegalStateException", 0)
           /\ call' = NoCall /\ aligned' = FALSE /\ tainted' = TRUE
  /\ UNCHANGED <<calls, secret, wiv, riv, sock, conn, c2s, s2c, agentVars>>
  /\ UNCHANGED <<executed, accepted, connected, wire>>

\* decryptPayloadNative finds the MAC to be that of the header and the payload.
MacVerifies(p) == p.fault # "mac"

\* Mutant of RecvBody: the IV is counted up for an answer of status 0 only.
RecvBody_CountsValues ==
  /\ pc = "body" /\ s2c # <<>>
  /\ LET p == Head(s2c)
         out == ReadPayload(WireOp(call), p)
     IN \/ /\ MacVerifies(p)
           /\ riv' = IF out = "value" THEN riv + 1 ELSE riv
           /\ connected' = (connected \/ (call.op = "connect" /\ out = "value"))
           /\ Ends(call, out, IF out \in Answers THEN p.no ELSE 0)
           /\ UNCHANGED tainted
        \/ /\ ~MacVerifies(p)
           /\ Ends(call, "MessageVerificationException", 0)
           /\ tainted' = TRUE
           /\ UNCHANGED <<riv, connected>>
  /\ s2c' = Tail(s2c)
  /\ call' = NoCall
  /\ UNCHANGED <<calls, secret, wiv, sock, conn, c2s, aligned, agentVars>>
  /\ UNCHANGED <<executed, accepted, wire>>

\* Mutant of RecvBody: the IV is counted up before the MAC is verified.
RecvBody_CountsFirst ==
  /\ pc = "body" /\ s2c # <<>>
  /\ riv' = riv + 1
  /\ LET p == Head(s2c)
         out == ReadPayload(WireOp(call), p)
     IN \/ /\ MacVerifies(p)
           /\ connected' = (connected \/ (call.op = "connect" /\ out = "value"))
           /\ Ends(call, out, IF out \in Answers THEN p.no ELSE 0)
           /\ UNCHANGED tainted
        \/ /\ ~MacVerifies(p)
           /\ Ends(call, "MessageVerificationException", 0)
           /\ tainted' = TRUE
           /\ UNCHANGED connected
  /\ s2c' = Tail(s2c)
  /\ call' = NoCall
  /\ UNCHANGED <<calls, secret, wiv, sock, conn, c2s, aligned, agentVars>>
  /\ UNCHANGED <<executed, accepted, wire>>

\* decryptPayload verifies the MAC first and counts the IV up last; then the
\* operation reads the payload.
RecvBody ==
  /\ pc = "body" /\ s2c # <<>>
  /\ LET p == Head(s2c)
         out == ReadPayload(WireOp(call), p)
     IN \/ /\ MacVerifies(p)
           /\ riv' = riv + 1
           /\ connected' = (connected \/ (call.op = "connect" /\ out = "value"))
           /\ Ends(call, out, IF out \in Answers THEN p.no ELSE 0)
           /\ UNCHANGED tainted
        \/ /\ ~MacVerifies(p)
           /\ Ends(call, "MessageVerificationException", 0)
           /\ tainted' = TRUE
           /\ UNCHANGED <<riv, connected>>
        \/ /\ "native" \in Faults
           /\ Ends(call, "IllegalStateException", 0)
           /\ tainted' = TRUE
           /\ UNCHANGED <<riv, connected>>
  /\ s2c' = Tail(s2c)
  /\ call' = NoCall
  /\ UNCHANGED <<calls, secret, wiv, sock, conn, c2s, aligned, agentVars>>
  /\ UNCHANGED <<executed, accepted, wire>>

\* Mutant of RecvEof: the body is awaited without looking for the end of the
\* stream.
RecvEof_NotInBody ==
  /\ pc \in {"handshake", "header"}
  /\ phase = "gone" /\ s2c = <<>>
  /\ Ends(call, "IOException", 0)
  /\ call' = NoCall
  /\ UNCHANGED <<calls, secret, wiv, riv, sock, conn>>
  /\ UNCHANGED <<channelVars, agentVars, historyVars>>

\* recv() finds the end of the stream.
RecvEof ==
  /\ pc \in {"handshake", "header", "body"}
  /\ phase = "gone" /\ s2c = <<>>
  /\ Ends(call, "IOException", 0)
  /\ call' = NoCall
  /\ UNCHANGED <<calls, secret, wiv, riv, sock, conn>>
  /\ UNCHANGED <<channelVars, agentVars, historyVars>>

\* recv() on a socket with a read timeout gives up, having consumed nothing
\* or a part of what it was waiting for.
RecvTimeout ==
  /\ "timeout" \in Faults
  /\ pc \in {"handshake", "header", "body"}
  /\ Ends(call, "IOException", 0)
  /\ call' = NoCall
  /\ \/ /\ pc # "body"
        /\ UNCHANGED <<aligned, tainted>>
     \/ /\ pc = "body" \/ s2c # <<>>
        /\ aligned' = FALSE /\ tainted' = TRUE
  /\ UNCHANGED <<calls, secret, wiv, riv, sock, conn, c2s, s2c, agentVars>>
  /\ UNCHANGED <<executed, accepted, connected, wire>>

-----------------------------------------------------------------------------
(***************************************************************************)
(* The agent (external).  It numbers the packets of a connection from the  *)
(* same two initial IVs as a fresh client object, answers requests in the  *)
(* order it receives them, and hangs up on what it cannot decrypt.  A      *)
(* deviant agent may answer anything the client has a check for.           *)
(***************************************************************************)

\* What the agent may answer to the first packet of the handshake; a deviant
\* answer differs from the expected one in one place.
HandshakeReplies ==
  LET welcome == [id |-> 0, status |-> 0, size |-> HandshakeSize,
                  fault |-> "none"]
      refusal == [welcome EXCEPT !.status = 1, !.size = 12]
  IN {welcome, refusal} \cup
     IF "deviant" \in Faults
     THEN { [welcome EXCEPT !.fault = f] : f \in PacketFaults \ {"mac"} } \cup
          { [welcome EXCEPT !.id = 1], [welcome EXCEPT !.status = 1],
            [welcome EXCEPT !.size = 8] }
     ELSE {}

\* What the agent may answer to operation o.
OperationReplies(o) ==
  LET result == [id |-> Operation[o].id, status |-> 0,
                 size |-> Operation[o].record, fault |-> "none"]
      failure == [result EXCEPT !.status = 1, !.size = 12]
  IN {result, failure} \cup
     IF "deviant" \in Faults
     THEN { [result EXCEPT !.size = n] : n \in ReplySizes } \cup
          { [result EXCEPT !.id = 0], [result EXCEPT !.fault = "mac"] }
     ELSE {}

Reply(k, i, r, n) ==
  [key |-> k, iv |-> i, id |-> r.id, status |-> r.status, size |-> r.size,
   fault |-> r.fault, no |-> n]

AgentHandshake ==
  /\ phase = "hello" /\ c2s # <<>>
  /\ \E r \in HandshakeReplies :
       /\ s2c' = Append(s2c, Reply(NoKey, 0, r, Head(c2s).no))
       /\ phase' = IF r.status = 0 THEN "challenge" ELSE "gone"
  /\ c2s' = Tail(c2s)
  /\ UNCHANGED <<clientVars, aligned, aRiv, aWiv, historyVars>>

\* The packet is the next one of the client that shares the agent's key.
Authentic(p) ==
  /\ p.key = conn /\ p.iv = aRiv
  /\ (p.op = "ack") <=> (phase = "challenge")

AgentServe ==
  /\ phase \in {"challenge", "ready"} /\ c2s # <<>>
  /\ LET q == Head(c2s)
     IN /\ Authentic(q)
        /\ \E r \in OperationReplies(q.op) :
             /\ s2c' = Append(s2c, Reply(conn, aWiv, r, q.no))
             /\ phase' = IF q.op = "ack" /\ r.status # 0 THEN "gone" ELSE "ready"
             /\ accepted' = accepted \cup
                  (IF q.op = "submit" /\ r.status = 0 THEN {q.no} ELSE {})
        /\ executed' = Append(executed, q.no)
  /\ wire' = Append(wire, <<conn, aWiv>>)
  /\ aRiv' = aRiv + 1
  /\ aWiv' = aWiv + 1
  /\ c2s' = Tail(c2s)
  /\ UNCHANGED <<clientVars, aligned, connected, tainted>>

\* The agent's end goes away: what it has not read is lost, and so may be
\* what the client has not read.
AgentHangUp ==
  /\ phase' = "gone"
  /\ c2s' = <<>>
  /\ s2c' \in {s2c, <<>>}
  /\ UNCHANGED <<clientVars, aligned, aRiv, aWiv, historyVars>>

AgentReject ==
  /\ phase \in {"challenge", "ready"} /\ c2s # <<>>
  /\ ~Authentic(Head(c2s))
  /\ AgentHangUp

AgentLost ==
  /\ phase \notin {"none", "gone"}
  /\ AgentHangUp

-----------------------------------------------------------------------------
ClientRecv == SendAck \/ RecvHandshake \/ RecvHeader \/ RecvBody \/ RecvEof

AgentStep == AgentHandshake \/ AgentServe \/ AgentReject

Next ==
  \/ ConnectRefused \/ Connect \/ Close
  \/ SubmitIncomplete
  \/ \E o \in Ops : CallUnconnected(o) \/ CallOperation(o)
  \/ SendAck \/ RecvHandshake \/ RecvHeader \/ RecvBody \/ RecvEof
  \/ RecvTimeout
  \/ AgentHandshake \/ AgentServe \/ AgentReject \/ AgentLost

Spec == Init /\ [][Next]_vars

\* The thread that made a call keeps running while its call can go on, and
\* the agent answers or hangs up.
FairSpec == Spec /\ WF_vars(ClientRecv) /\ WF_vars(AgentStep)

-----------------------------------------------------------------------------
(***************************************************************************)
(* Properties.                                                             *)
(***************************************************************************)

\* Type correctness of every variable: thread, object, channel, agent and
\* history.
TypeOK ==
  /\ pc \in PCs
  /\ call \in [op : Ops \cup {"connect", "none"}, no : Nat]
  /\ (pc # "idle") => call.op # "none"
  /\ calls \in 0 .. MaxCalls
  /\ last \in [op : Ops \cup {"connect", "none"}, no : Nat,
               out : Outcomes \cup {"none"}, ans : Nat]
  /\ secret \in Int /\ wiv \in Nat /\ riv \in Nat
  /\ sock \in {"none", "open", "closed"} /\ conn \in 0 .. MaxConnects
  /\ c2s \in Seq(Requests) /\ s2c \in Seq(Replies) /\ aligned \in BOOLEAN
  /\ phase \in Phases /\ aRiv \in Nat /\ aWiv \in Nat
  /\ executed \in Seq(Nat) /\ accepted \subseteq Nat
  /\ connected \in BOOLEAN /\ tainted \in BOOLEAN
  /\ wire \in Seq(Int \X Nat)

\* The IV counters of the two ends agree, counting the packets in flight, for
\* as long as the agent takes part in the session and the client has read
\* every answer it was given: no early return, failed call or late answer
\* moves one counter without the other.
InSync ==
  (phase = "ready" /\ sock = "open" /\ ~tainted) =>
    /\ wiv = aRiv + Len(c2s)
    /\ riv + Len(s2c) = aWiv

\* No two packets are ever encrypted with the same key and IV, in either
\* direction, whatever fails in between and however often the object is
\* connected again.
NoKeystreamReuse ==
  \A i, j \in 1 .. Len(wire) : wire[i] = wire[j] => i = j

\* An operation that reports an answer reports the answer to its own request,
\* never one that an earlier call of the same kind left in the channel.
AnswerMatchesRequest == last.ans # 0 => last.ans = last.no

\* Once an answer could not be read, no operation reports an answer until
\* connect() has replaced the channel: a reader that lost its place in the
\* stream never takes later bytes for a packet.
NothingAfterTaint ==
  [][(tainted /\ tainted') => (last' = last \/ last'.ans = 0)]_vars

\* As long as the agent answers what it should and nothing but the connection
\* is lost, connect(), and every operation of an object that has a shared
\* secret, ends with an answer, a refusal of the agent or an IOException:
\* never with an exception of the protocol layer, on whatever part of the
\* handshake, of close() or of a second connect() the loss falls.
OnlyLossFails ==
  [][(last' # last /\ (pc # "idle" \/ secret # NoKey)) =>
       last'.out \in Answers \cup
         {"IOException", "ErrorStatusException",
          "AgentVerificationException"}]_vars

\* Every call returns or throws, since it waits for nothing but an answer or
\* the end of the stream.
CallTerminates == (pc # "idle") ~> (pc = "idle")

(***************************************************************************)
(* What the documentation states and the code does not keep.               *)
(***************************************************************************)

\* "sharedSecret is populated when connect() successfully completes."
SecretMeansConnected == (pc = "idle" /\ secret # NoKey) => connected

\* getConnectionStatus() throws an "IOException derivative if the connection is
\* not valid"; that of an object without a shared secret never is.
StatusThrowsIOException ==
  (last.op = "getConnectionStatus" /\ secret = NoKey) =>
    last.out \in {"IOException", "ConnectException"}

\* FAILED is "the transaction failed"; a submission whose status was not
\* received because of a disconnect is UNKNOWN_DISCONNECTED instead.
FailedMeansNotAccepted ==
  Reported(last) = "FAILED" => last.no \notin accepted

\* "Use connect to open a connection and perform a handshake": on a socket
\* whose agent took the first round of the handshake, the acknowledgement is
\* one that the agent can decrypt.
AcknowledgementDecrypts ==
  (phase = "challenge" /\ c2s # <<>> /\ secret = conn)
    => Authentic(Head(c2s))
=============================================================================
