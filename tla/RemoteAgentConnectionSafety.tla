--------------------- MODULE RemoteAgentConnectionSafety --------------------
(***************************************************************************)
(* The safety properties of RemoteAgentConnection that concern its IV      *)
(* counters, for every set of operations, every number of calls and        *)
(* connections, and every environment.  Each rests on an inductive         *)
(* invariant of its own, which is relative to the type invariant.          *)
(***************************************************************************)
EXTENDS RemoteAgentConnectionProofs

-----------------------------------------------------------------------------
(***************************************************************************)
(* No keystream is used twice.                                             *)
(*                                                                         *)
(* The client's IVs are those below wiv, and there is at most one for      *)
(* every call, so that they stay below the agent's, which start at         *)
(* ReaderIv0 on every connection and are told apart by the key.            *)
(***************************************************************************)
KeyInv ==
  /\ wiv <= calls + (IF pc \in {"handshake", "ack"} THEN 0 ELSE 1)
  /\ aWiv >= ReaderIv0
  /\ \A i \in 1 .. Len(wire) :
       \/ wire[i][2] < wiv
       \/ /\ wire[i][2] >= ReaderIv0
          /\ wire[i][1] < conn \/ (wire[i][1] = conn /\ wire[i][2] < aWiv)
  /\ NoKeystreamReuse

\* A sequence without repetitions stays one when something new is appended.
LEMMA AppendDistinct ==
  ASSUME NEW S, NEW s \in Seq(S), NEW e \in S,
         \A i, j \in 1 .. Len(s) : s[i] = s[j] => i = j,
         \A i \in 1 .. Len(s) : s[i] # e
  PROVE  \A i, j \in 1 .. Len(Append(s, e)) :
           Append(s, e)[i] = Append(s, e)[j] => i = j
<1> DEFINE t == Append(s, e)
<1>1. /\ Len(t) = Len(s) + 1 /\ Len(s) \in Nat
      /\ \A i \in 1 .. Len(s) : t[i] = s[i]
      /\ t[Len(s) + 1] = e
  BY AppendProperties, LenProperties
<1>. HIDE DEF t
<1>2. \A i \in 1 .. Len(t) : i \in 1 .. Len(s) \/ i = Len(s) + 1
  BY <1>1
<1>3. \A i, j \in 1 .. Len(t) : t[i] = t[j] => i = j
  BY <1>1, <1>2
<1>. QED
  BY <1>3 DEF t

\* What the invariant says of the IV of one packet.
LEMMA KeyOfPacket ==
  ASSUME TypeInv, KeyInv, NEW i \in 1 .. Len(wire)
  PROVE  /\ wire[i][1] \in Int /\ wire[i][2] \in Nat
         /\ \/ wire[i][2] < wiv
            \/ /\ wire[i][2] >= ReaderIv0
               /\ wire[i][1] < conn \/ (wire[i][1] = conn /\ wire[i][2] < aWiv)
<1>1. wire[i] \in Int \X Nat
  BY ElementOfSeq DEF TypeInv, TypeOK
<1>. QED
  BY <1>1 DEF KeyInv

\* A bound that is counted up stays a bound.
LEMMA LessThanNext ==
  ASSUME NEW m \in Nat, NEW n \in Nat
  PROVE  m < n => m < n + 1
OBVIOUS

\* Nothing is encrypted at first.
LEMMA KeyInit == Init => KeyInv
<1> SUFFICES ASSUME Init PROVE KeyInv
  OBVIOUS
<1>1. 1 .. Len(wire) = {}
  BY EmptySeq DEF Init
<1>. QED
  BY <1>1, IvHalfAssumption
     DEF Init, KeyInv, NoKeystreamReuse, WriterIv0, ReaderIv0

\* A step that encrypts nothing.
LEMMA KeyFrame ==
  ASSUME TypeInv, KeyInv,
         UNCHANGED <<wiv, aWiv, wire, conn>>,
         calls' = calls \/ calls' = calls + 1,
         pc' \in {"handshake", "ack"} =>
           pc \in {"handshake", "ack"} \/ calls' = calls + 1
  PROVE  KeyInv'
BY DEF KeyInv, NoKeystreamReuse, TypeInv, TypeOK

\* The client encrypts a packet: one for each call.
LEMMA KeyTransmit ==
  ASSUME TypeInv, KeyInv, NEW o, NEW c, Transmit(o, c, "header"),
         NEW k \in {0, 1}, calls' = calls + k, calls + k <= MaxCalls,
         wiv <= calls + k, UNCHANGED aWiv
  PROVE  KeyInv'
<1>1. /\ wire' = Append(wire, <<secret, wiv>>) /\ wiv' = wiv + 1
      /\ pc' \in {"header", "idle"} /\ UNCHANGED conn
  BY DEF Transmit, Ends
<1>2. <<secret, wiv>> \in Int \X Nat /\ wire \in Seq(Int \X Nat)
      /\ wiv \in Nat /\ aWiv \in Nat /\ conn \in Int /\ Len(wire) \in Nat
      /\ calls \in Nat
  BY MaxConnectsAssumption, LenProperties DEF TypeInv, TypeOK
<1>3. /\ Len(wire') = Len(wire) + 1
      /\ \A i \in 1 .. Len(wire) : wire'[i] = wire[i]
      /\ wire'[Len(wire) + 1] = <<secret, wiv>>
  BY <1>1, <1>2, AppendProperties
<1>4. \A i \in 1 .. Len(wire) : wire[i] \in Int \X Nat
  BY <1>2, ElementOfSeq
<1>5. wiv < ReaderIv0
  BY <1>2, IvHalfAssumption, MaxCallsAssumption DEF ReaderIv0
<1>6. \A i \in 1 .. Len(wire) : wire[i] # <<secret, wiv>>
  <2> SUFFICES ASSUME NEW i \in 1 .. Len(wire), wire[i] = <<secret, wiv>>
               PROVE  FALSE
    OBVIOUS
  <2>1. wire[i][2] = wiv
    OBVIOUS
  <2>2. ReaderIv0 \in Nat /\ wiv \in Nat
    BY IvHalfAssumption DEF ReaderIv0, TypeInv, TypeOK
  <2>3. wire[i][2] < wiv \/ wire[i][2] >= ReaderIv0
    BY KeyOfPacket
  <2>. QED
    BY <1>5, <2>1, <2>2, <2>3
<1>7. NoKeystreamReuse'
  <2> DEFINE e == <<secret, wiv>>
  <2>1. \A i, j \in 1 .. Len(wire) : wire[i] = wire[j] => i = j
    BY DEF KeyInv, NoKeystreamReuse
  <2>2. e \in Int \X Nat /\ \A i \in 1 .. Len(wire) : wire[i] # e
    BY <1>2, <1>6
  <2> HIDE DEF e
  <2>3. \A i, j \in 1 .. Len(Append(wire, e)) :
           Append(wire, e)[i] = Append(wire, e)[j] => i = j
    BY <1>2, <2>1, <2>2, AppendDistinct
  <2>. QED
    BY <1>1, <2>3 DEF NoKeystreamReuse, e
<1>8. wiv' <= calls' + (IF pc' \in {"handshake", "ack"} THEN 0 ELSE 1)
  <2>1. wiv' <= calls' + 1
    BY <1>1, <1>2
  <2>2. pc' # "handshake" /\ pc' # "ack"
    BY <1>1
  <2>. QED
    BY <2>1, <2>2
<1>9. \A i \in 1 .. Len(wire') :
        \/ wire'[i][2] < wiv'
        \/ /\ wire'[i][2] >= ReaderIv0
           /\ \/ wire'[i][1] < conn'
              \/ wire'[i][1] = conn' /\ wire'[i][2] < aWiv'
  <2> SUFFICES ASSUME NEW i \in 1 .. Len(wire) + 1
               PROVE  \/ wire'[i][2] < wiv + 1
                      \/ /\ wire'[i][2] >= ReaderIv0
                         /\ \/ wire'[i][1] < conn
                            \/ wire'[i][1] = conn /\ wire'[i][2] < aWiv
    BY <1>1, <1>3
  <2>1. CASE i \in 1 .. Len(wire)
    <3>1. wire'[i] = wire[i] /\ wire[i][2] \in Nat
      BY <1>3, <2>1, KeyOfPacket
    <3>2. wire[i][2] < wiv => wire[i][2] < wiv + 1
      BY <1>2, <3>1, LessThanNext
    <3>3. \/ wire[i][2] < wiv
          \/ /\ wire[i][2] >= ReaderIv0
             /\ wire[i][1] < conn \/ (wire[i][1] = conn /\ wire[i][2] < aWiv)
      BY <2>1, KeyOfPacket
    <3>. QED
      BY <3>1, <3>2, <3>3
  <2>2. CASE i = Len(wire) + 1
    BY <1>2, <1>3, <2>2
  <2>. QED
    BY <1>2, <2>1, <2>2
<1>. QED
  BY <1>7, <1>8, <1>9 DEF KeyInv

\* The agent encrypts a packet.
LEMMA KeyServe ==
  ASSUME TypeInv, KeyInv, AgentServe
  PROVE  KeyInv'
<1>1. /\ wire' = Append(wire, <<conn, aWiv>>) /\ aWiv' = aWiv + 1
      /\ UNCHANGED <<pc, calls, wiv, conn>>
  BY DEF AgentServe, clientVars
<1>2. <<conn, aWiv>> \in Int \X Nat /\ wire \in Seq(Int \X Nat)
      /\ wiv \in Nat /\ aWiv \in Nat /\ conn \in Int /\ Len(wire) \in Nat
      /\ calls \in 0 .. MaxCalls
  BY MaxConnectsAssumption, LenProperties DEF TypeInv, TypeOK
<1>3. /\ Len(wire') = Len(wire) + 1
      /\ \A i \in 1 .. Len(wire) : wire'[i] = wire[i]
      /\ wire'[Len(wire) + 1] = <<conn, aWiv>>
  BY <1>1, <1>2, AppendProperties
<1>4. \A i \in 1 .. Len(wire) : wire[i] \in Int \X Nat
  BY <1>2, ElementOfSeq
<1>5. wiv <= aWiv
  <2>1. wiv <= MaxCalls + 1
    BY <1>2, MaxCallsAssumption DEF KeyInv
  <2>. QED
    BY <1>2, <2>1, IvHalfAssumption, MaxCallsAssumption DEF KeyInv, ReaderIv0
<1>6. \A i \in 1 .. Len(wire) : wire[i] # <<conn, aWiv>>
  <2> SUFFICES ASSUME NEW i \in 1 .. Len(wire), wire[i] = <<conn, aWiv>>
               PROVE  FALSE
    OBVIOUS
  <2>1. wire[i][1] = conn /\ wire[i][2] = aWiv
    OBVIOUS
  <2>2. \/ wire[i][2] < wiv
        \/ wire[i][1] < conn
        \/ wire[i][2] < aWiv
    BY KeyOfPacket
  <2>. QED
    BY <1>2, <1>5, <2>1, <2>2
<1>7. NoKeystreamReuse'
  <2> DEFINE e == <<conn, aWiv>>
  <2>1. \A i, j \in 1 .. Len(wire) : wire[i] = wire[j] => i = j
    BY DEF KeyInv, NoKeystreamReuse
  <2>2. e \in Int \X Nat /\ \A i \in 1 .. Len(wire) : wire[i] # e
    BY <1>2, <1>6
  <2> HIDE DEF e
  <2>3. \A i, j \in 1 .. Len(Append(wire, e)) :
           Append(wire, e)[i] = Append(wire, e)[j] => i = j
    BY <1>2, <2>1, <2>2, AppendDistinct
  <2>. QED
    BY <1>1, <2>3 DEF NoKeystreamReuse, e
<1>8. aWiv' >= ReaderIv0 /\ ReaderIv0 \in Nat
  BY <1>1, <1>2, IvHalfAssumption DEF KeyInv, ReaderIv0
<1>9. \A i \in 1 .. Len(wire') :
        \/ wire'[i][2] < wiv'
        \/ /\ wire'[i][2] >= ReaderIv0
           /\ \/ wire'[i][1] < conn'
              \/ wire'[i][1] = conn' /\ wire'[i][2] < aWiv'
  <2> SUFFICES ASSUME NEW i \in 1 .. Len(wire')
               PROVE  \/ wire'[i][2] < wiv'
                      \/ /\ wire'[i][2] >= ReaderIv0
                         /\ \/ wire'[i][1] < conn'
                            \/ wire'[i][1] = conn' /\ wire'[i][2] < aWiv'
    OBVIOUS
  <2>1. CASE i \in 1 .. Len(wire)
    <3>1. wire'[i] = wire[i] /\ wire[i][1] \in Int /\ wire[i][2] \in Nat
      BY <1>3, <2>1, KeyOfPacket
    <3>2. \/ wire[i][2] < wiv
          \/ /\ wire[i][2] >= ReaderIv0
             /\ wire[i][1] < conn \/ (wire[i][1] = conn /\ wire[i][2] < aWiv)
      BY <2>1 DEF KeyInv
    <3>3. wire[i][2] < aWiv => wire[i][2] < aWiv + 1
      BY <1>2, <3>1, LessThanNext
    <3>4. aWiv' = aWiv + 1 /\ wiv' = wiv /\ conn' = conn
      BY <1>1
    <3>. QED
      BY <3>1, <3>2, <3>3, <3>4
  <2>2. CASE i = Len(wire) + 1
    <3>1. wire'[i][1] = conn /\ wire'[i][2] = aWiv
      BY <1>3, <2>2
    <3>2. aWiv >= ReaderIv0
      BY DEF KeyInv
    <3>3. aWiv < aWiv + 1
      BY <1>2
    <3>. QED
      BY <1>1, <3>1, <3>2, <3>3
  <2>. QED
    BY <1>2, <1>3, <2>1, <2>2
<1>. QED
  BY <1>1, <1>7, <1>8, <1>9 DEF KeyInv

\* On a new connection every key used so far is an old one.
LEMMA KeyConnect ==
  ASSUME TypeInv, KeyInv, Connect
  PROVE  KeyInv'
<1>1. /\ conn' = conn + 1 /\ aWiv' = ReaderIv0 /\ calls' = calls + 1
      /\ pc = "idle" /\ UNCHANGED <<wiv, wire>>
  BY DEF Connect, Begins
<1>2. /\ conn \in Int /\ calls \in Nat /\ wiv \in Nat /\ aWiv \in Nat
      /\ ReaderIv0 \in Nat /\ wire \in Seq(Int \X Nat)
  BY MaxConnectsAssumption, MaxCallsAssumption, IvHalfAssumption
     DEF TypeInv, TypeOK, ReaderIv0
<1>3. \A i \in 1 .. Len(wire) : wire[i] \in Int \X Nat
  BY <1>2, ElementOfSeq
<1>4. \A i \in 1 .. Len(wire) :
        \/ wire[i][2] < wiv
        \/ wire[i][2] >= ReaderIv0 /\ wire[i][1] < conn'
  <2> SUFFICES ASSUME NEW i \in 1 .. Len(wire)
               PROVE  \/ wire[i][2] < wiv
                      \/ wire[i][2] >= ReaderIv0 /\ wire[i][1] < conn'
    OBVIOUS
  <2>1. wire[i][1] \in Int /\ wire[i][2] \in Nat
    BY KeyOfPacket
  <2>2. \/ wire[i][2] < wiv
        \/ /\ wire[i][2] >= ReaderIv0
           /\ wire[i][1] < conn \/ wire[i][1] = conn
    BY KeyOfPacket
  <2>. QED
    BY <1>1, <1>2, <2>1, <2>2
<1>5. wiv <= calls'
  BY <1>1, <1>2 DEF KeyInv
<1>. QED
  BY <1>1, <1>2, <1>4, <1>5 DEF KeyInv, NoKeystreamReuse

\* Every step keeps the keys and IVs apart.
LEMMA KeyStep == TypeInv /\ KeyInv /\ [Next]_vars => KeyInv'
<1> SUFFICES ASSUME TypeInv, KeyInv, [Next]_vars PROVE KeyInv'
  OBVIOUS
<1>1. CASE Connect
  BY <1>1, KeyConnect
<1>2. CASE AgentServe
  BY <1>2, KeyServe
<1>3. CASE \E o \in Ops : CallOperation(o)
  <2>1. PICK o \in Ops : CallOperation(o)
    BY <1>3
  <2> DEFINE c == [op |-> o, no |-> calls + 1]
  <2>2. /\ wiv <= calls + 1 /\ calls + 1 <= MaxCalls /\ calls' = calls + 1
        /\ UNCHANGED aWiv
    BY <2>1, MaxCallsAssumption
       DEF CallOperation, KeyInv, TypeInv, TypeOK, agentVars
  <2>3. CASE Transmit(o, c, "header")
    BY <2>2, <2>3, KeyTransmit
  <2>4. CASE EncryptFails(c)
    BY <2>2, <2>4, KeyFrame DEF EncryptFails, Ends
  <2>. QED
    BY <2>1, <2>3, <2>4 DEF CallOperation
<1>4. CASE SendAck
  <2>1. /\ wiv <= calls + 0 /\ calls + 0 <= MaxCalls /\ calls' = calls + 0
        /\ calls' = calls /\ UNCHANGED aWiv
    BY <1>4, MaxCallsAssumption
       DEF SendAck, KeyInv, TypeInv, TypeOK, agentVars
  <2>2. CASE Transmit("ack", call, "header")
    BY <2>1, <2>2, KeyTransmit
  <2>3. CASE EncryptFails(call)
    BY <2>1, <2>3, KeyFrame DEF EncryptFails, Ends
  <2>. QED
    BY <1>4, <2>2, <2>3 DEF SendAck
<1>5. CASE \/ ConnectRefused \/ SubmitIncomplete
           \/ \E o \in Ops : CallUnconnected(o)
  BY <1>5, KeyFrame
     DEF ConnectRefused, SubmitIncomplete, CallUnconnected, Fails, Ends,
         agentVars, historyVars
<1>6. CASE \/ RecvHandshake \/ RecvHeader \/ RecvBody \/ RecvEof
           \/ RecvTimeout \/ Close
  BY <1>6, KeyFrame
     DEF RecvHandshake, RecvHeader, RecvBody, RecvEof, RecvTimeout, Close,
         Ends, agentVars, historyVars
<1>7. CASE AgentHandshake \/ AgentReject \/ AgentLost
  BY <1>7, KeyFrame
     DEF AgentHandshake, AgentReject, AgentLost, AgentHangUp, clientVars,
         agentVars, historyVars
<1>8. CASE UNCHANGED vars
  BY <1>8, KeyFrame DEF vars
<1>. QED
  BY <1>1, <1>2, <1>3, <1>4, <1>5, <1>6, <1>7, <1>8 DEF Next

\* No packet of either direction is encrypted with a key and an IV that
\* another packet was encrypted with: encryptPayload counts the IV up before
\* send() can fail, and the counters of a reconnected object do not restart.
THEOREM KeystreamUsedOnce == Spec => []NoKeystreamReuse
<1>1. TypeInv /\ KeyInv /\ [Next]_vars => KeyInv'
  BY KeyStep
<1>2. KeyInv => NoKeystreamReuse
  BY DEF KeyInv
<1>. QED
  BY <1>1, <1>2, KeyInit, TypeInvariant, PTL DEF Spec

-----------------------------------------------------------------------------
(***************************************************************************)
(* The counters of the two ends agree.                                     *)
(*                                                                         *)
(* Only a writer that has encrypted nothing yet (wiv = WriterIv0) produces *)
(* an acknowledgement the agent decrypts, so that a session begins with    *)
(* every counter at its initial value.                                     *)
(***************************************************************************)

\* The oldest packet on its way is an acknowledgement that the agent, if it
\* holds the same key, is able to decrypt.
FirstAck ==
  c2s # <<>> /\ c2s[1].op = "ack" /\ c2s[1].iv = WriterIv0

SyncInv ==
  /\ wiv >= WriterIv0
  /\ wiv = WriterIv0 => riv = ReaderIv0
  /\ pc \in {"header", "body"} => wiv > WriterIv0
  /\ phase \in {"hello", "challenge"} => aRiv = WriterIv0 /\ aWiv = ReaderIv0
  /\ phase = "hello" => \A i \in 1 .. Len(c2s) : c2s[i].op # "ack"
  /\ pc = "handshake" =>
       /\ phase \in {"hello", "challenge", "gone"}
       /\ phase = "hello" => s2c = <<>> /\ Len(c2s) = 1
       /\ phase = "challenge" => Len(s2c) = 1 /\ c2s = <<>>
  /\ pc = "ack" =>
       /\ phase \in {"challenge", "gone"}
       /\ phase = "challenge" => s2c = <<>> /\ c2s = <<>>
  /\ (phase = "challenge" /\ sock = "open" /\ ~tainted /\ FirstAck) =>
       /\ wiv = WriterIv0 + Len(c2s)
       /\ riv = ReaderIv0 /\ s2c = <<>>
  /\ InSync

\* A fresh object has encrypted nothing and counted nothing.
LEMMA SyncInit == Init => SyncInv
BY DEF Init, SyncInv, InSync, WriterIv0

\* A step that moves no packet and no counter.
LEMMA SyncFrame ==
  ASSUME SyncInv,
         UNCHANGED <<wiv, riv, c2s, s2c, phase, aRiv, aWiv>>,
         sock' = "open" => sock = "open",
         tainted => tainted',
         pc' = pc \/ pc' = "idle" \/ (pc = "header" /\ pc' = "body")
  PROVE  SyncInv'
BY DEF SyncInv, InSync, FirstAck

\* A new connection starts the agent at its initial counters.
LEMMA SyncConnect ==
  ASSUME TypeInv, SyncInv, Connect
  PROVE  SyncInv'
<1>1. /\ Len(c2s') = 1 /\ c2s'[1].op = "handshake" /\ s2c' = <<>>
      /\ phase' = "hello" /\ aRiv' = WriterIv0 /\ aWiv' = ReaderIv0
      /\ pc' = "handshake" /\ UNCHANGED <<wiv, riv>>
  BY DEF Connect
<1>2. \A i \in 1 .. Len(c2s') : c2s'[i].op # "ack"
  BY <1>1
<1>. QED
  BY <1>1, <1>2 DEF SyncInv, InSync

\* The types that the steps below count with.
LEMMA SyncTypes ==
  ASSUME TypeInv
  PROVE  /\ c2s \in Seq(Requests) /\ s2c \in Seq(Replies)
         /\ Len(c2s) \in Nat /\ Len(s2c) \in Nat
         /\ wiv \in Nat /\ riv \in Nat /\ aRiv \in Nat /\ aWiv \in Nat
BY LenProperties DEF TypeInv, TypeOK

\* connect() sends its acknowledgement into empty channels.
LEMMA SyncRecvHandshake ==
  ASSUME TypeInv, SyncInv, RecvHandshake
  PROVE  SyncInv'
<1>1. /\ pc = "handshake" /\ s2c # <<>> /\ pc' \in {"ack", "idle"}
      /\ pc' = "ack" => s2c' = Tail(s2c)
      /\ UNCHANGED <<wiv, riv, sock, c2s, phase, aRiv, aWiv>>
  BY DEF RecvHandshake, Ends, agentVars
<1>2. phase \in {"challenge", "gone"}
  BY <1>1 DEF SyncInv
<1>3. phase = "challenge" => c2s = <<>> /\ Len(s2c) = 1
  BY <1>1 DEF SyncInv
<1>4. phase = "challenge" => Tail(s2c) = <<>>
  <2>1. Tail(s2c) \in Seq(Replies) /\ Len(Tail(s2c)) = Len(s2c) - 1
    BY <1>1, SyncTypes, HeadTailProperties
  <2>. QED
    BY <1>3, <2>1, EmptySeq
<1>. QED
  BY <1>1, <1>2, <1>3, <1>4 DEF SyncInv, InSync, FirstAck

\* The client sends the packet of an operation, or its acknowledgement.
LEMMA SyncTransmit ==
  ASSUME TypeInv, SyncInv, NEW o \in Ops \cup {"ack"}, NEW c \in Calls,
         Transmit(o, c, "header"),
         o = "ack" => pc = "ack",
         UNCHANGED <<phase, aRiv, aWiv, tainted>>
  PROVE  SyncInv'
<1> DEFINE q == [key |-> secret, iv |-> wiv, op |-> o, no |-> c.no]
<1>1. q \in Requests /\ q.op = o /\ q.iv = wiv
  BY DEF Requests, Calls, TypeInv, TypeOK
<1> HIDE DEF q
<1>2. /\ wiv' = wiv + 1 /\ pc' \in {"header", "idle"}
      /\ UNCHANGED <<riv, s2c, sock>>
      /\ \/ sock = "open" /\ phase # "gone" /\ c2s' = Append(c2s, q)
         \/ (sock = "closed" \/ phase = "gone") /\ c2s' = c2s
  BY DEF Transmit, Ends, q
<1>3. wiv' > WriterIv0 /\ wiv' # WriterIv0 /\ wiv' >= WriterIv0
  BY <1>2, SyncTypes DEF SyncInv, WriterIv0
<1>4. CASE sock = "open" /\ phase # "gone" /\ c2s' = Append(c2s, q)
  <2>1. /\ Len(c2s') = Len(c2s) + 1
        /\ \A i \in 1 .. Len(c2s) : c2s'[i] = c2s[i]
        /\ c2s'[Len(c2s) + 1] = q
        /\ c2s' # <<>>
    BY <1>1, <1>4, AppendProperties, SyncTypes
  <2>2. phase = "hello" => \A i \in 1 .. Len(c2s') : c2s'[i].op # "ack"
    BY <1>1, <2>1, SyncTypes DEF SyncInv
  <2>3. ASSUME phase = "challenge", ~tainted, FirstAck'
        PROVE  wiv + 1 = WriterIv0 + (Len(c2s) + 1)
               /\ riv = ReaderIv0 /\ s2c = <<>>
    <3>1. CASE c2s = <<>>
      <4>1. Len(c2s) = 0 /\ q.op = "ack" /\ q.iv = WriterIv0
        BY <2>1, <2>3, <3>1 DEF FirstAck
      <4>2. pc = "ack" /\ wiv = WriterIv0
        BY <1>1, <4>1
      <4>. QED
        BY <2>3, <4>1, <4>2 DEF SyncInv, WriterIv0
    <3>2. CASE c2s # <<>>
      <4>1. c2s'[1] = c2s[1]
        BY <2>1, <3>2, SyncTypes, EmptySeq
      <4>2. FirstAck
        BY <2>3, <3>2, <4>1 DEF FirstAck
      <4>. QED
        BY <1>4, <2>3, <4>2, SyncTypes DEF SyncInv, WriterIv0
    <3>. QED
      BY <3>1, <3>2
  <2>4. InSync'
    BY <1>2, <1>4, <2>1, SyncTypes DEF SyncInv, InSync
  <2>. QED
    BY <1>2, <1>3, <2>1, <2>2, <2>3, <2>4 DEF SyncInv
<1>5. CASE (sock = "closed" \/ phase = "gone") /\ c2s' = c2s
  BY <1>2, <1>3, <1>5 DEF SyncInv, InSync
<1>. QED
  BY <1>2, <1>4, <1>5

\* The client reads the body of an answer.
LEMMA SyncRecvBody ==
  ASSUME TypeInv, SyncInv, RecvBody
  PROVE  SyncInv'
<1>1. /\ pc = "body" /\ pc' = "idle" /\ s2c # <<>> /\ s2c' = Tail(s2c)
      /\ tainted => tainted'
      /\ ~tainted' => riv' = riv + 1
      /\ UNCHANGED <<wiv, sock, c2s, phase, aRiv, aWiv>>
  BY DEF RecvBody, Ends, agentVars
<1>2. Len(s2c') = Len(s2c) - 1
  BY <1>1, SyncTypes, HeadTailProperties
<1>3. wiv > WriterIv0 /\ wiv # WriterIv0
  BY <1>1, SyncTypes DEF SyncInv, WriterIv0
<1>4. InSync'
  BY <1>1, <1>2, SyncTypes DEF SyncInv, InSync
<1>. QED
  BY <1>1, <1>3, <1>4 DEF SyncInv, FirstAck

\* The first answer of a connection is not followed by an acknowledgement.
LEMMA SyncAgentHandshake ==
  ASSUME TypeInv, SyncInv, AgentHandshake
  PROVE  SyncInv'
<1>1. /\ phase = "hello" /\ phase' \in {"challenge", "gone"}
      /\ c2s # <<>> /\ c2s' = Tail(c2s)
      /\ UNCHANGED <<pc, wiv, riv, sock, aRiv, aWiv, tainted>>
  BY DEF AgentHandshake, clientVars, historyVars
<1>2. /\ c2s' \in Seq(Requests) /\ Len(c2s') = Len(c2s) - 1
      /\ \A i \in 1 .. Len(c2s') : c2s'[i] = c2s[i + 1]
  BY <1>1, SyncTypes, HeadTailProperties
<1>3. ~FirstAck'
  <2>1. ASSUME c2s' # <<>>
        PROVE  c2s'[1].op # "ack"
    <3>1. Len(c2s') \in Nat \ {0}
      BY <1>2, <2>1, EmptySeq
    <3>2. c2s'[1] = c2s[2] /\ 2 \in 1 .. Len(c2s)
      BY <1>2, <3>1, SyncTypes
    <3>. QED
      BY <1>1, <3>2 DEF SyncInv
  <2>. QED
    BY <2>1 DEF FirstAck
<1>4. pc = "handshake" => c2s' = <<>> /\ Len(s2c') = 1
  <2> SUFFICES ASSUME pc = "handshake"
               PROVE  c2s' = <<>> /\ Len(s2c') = 1
    OBVIOUS
  <2>1. s2c = <<>> /\ Len(c2s) = 1
    BY <1>1 DEF SyncInv
  <2>2. c2s' = <<>>
    BY <1>2, <2>1, EmptySeq
  <2>3. \E e : s2c' = Append(<<>>, e)
    BY <2>1 DEF AgentHandshake
  <2>. QED
    BY <2>2, <2>3
<1>. QED
  BY <1>1, <1>3, <1>4 DEF SyncInv, InSync

\* The agent answers one packet with one packet; the first it answers is an
\* acknowledgement, with which the session begins.
LEMMA SyncAgentServe ==
  ASSUME TypeInv, SyncInv, AgentServe
  PROVE  SyncInv'
<1> DEFINE q == Head(c2s)
<1>1. /\ phase \in {"challenge", "ready"} /\ phase' \in {"ready", "gone"}
      /\ c2s # <<>> /\ c2s' = Tail(c2s)
      /\ aRiv' = aRiv + 1 /\ aWiv' = aWiv + 1
      /\ q.iv = aRiv /\ ((q.op = "ack") <=> (phase = "challenge"))
      /\ UNCHANGED <<pc, wiv, riv, sock, tainted>>
  BY DEF AgentServe, Authentic, clientVars
<1>2. Len(c2s') = Len(c2s) - 1 /\ q = c2s[1]
  BY <1>1, SyncTypes, HeadTailProperties
<1>3. Len(s2c') = Len(s2c) + 1
  <2>1. \E e : s2c' = Append(s2c, e)
    BY DEF AgentServe
  <2>. QED
    BY <2>1, SyncTypes
<1>4. pc # "handshake" /\ pc # "ack"
  BY <1>1 DEF SyncInv
<1>5. ASSUME sock = "open", ~tainted
      PROVE  wiv = aRiv + Len(c2s) /\ riv + Len(s2c) = aWiv
  <2>1. CASE phase = "ready"
    BY <1>5, <2>1 DEF SyncInv, InSync
  <2>2. CASE phase = "challenge"
    <3>1. FirstAck /\ aRiv = WriterIv0 /\ aWiv = ReaderIv0
      BY <1>1, <1>2, <2>2 DEF SyncInv, FirstAck
    <3>2. wiv = WriterIv0 + Len(c2s) /\ riv = ReaderIv0 /\ s2c = <<>>
      BY <1>5, <2>2, <3>1 DEF SyncInv
    <3>3. Len(s2c) = 0
      BY <3>2
    <3>. QED
      BY <3>1, <3>2, <3>3, SyncTypes
  <2>. QED
    BY <1>1, <2>1, <2>2
<1>6. InSync'
  <2>1. ASSUME sock = "open", ~tainted
        PROVE  wiv = (aRiv + 1) + (Len(c2s) - 1)
               /\ riv + (Len(s2c) + 1) = aWiv + 1
    BY <1>5, <2>1, SyncTypes
  <2>. QED
    BY <1>1, <1>2, <1>3, <2>1 DEF InSync
<1>. QED
  BY <1>1, <1>4, <1>6 DEF SyncInv

\* Every step keeps the counters together.
LEMMA SyncStep == TypeInv /\ SyncInv /\ [Next]_vars => SyncInv'
<1> SUFFICES ASSUME TypeInv, SyncInv, [Next]_vars PROVE SyncInv'
  OBVIOUS
<1>1. CASE Connect
  BY <1>1, SyncConnect
<1>2. CASE RecvHandshake
  BY <1>2, SyncRecvHandshake
<1>3. CASE RecvBody
  BY <1>3, SyncRecvBody
<1>4. CASE AgentHandshake
  BY <1>4, SyncAgentHandshake
<1>5. CASE AgentServe
  BY <1>5, SyncAgentServe
<1>6. CASE \E o \in Ops : CallOperation(o)
  <2>1. PICK o \in Ops : CallOperation(o)
    BY <1>6
  <2> DEFINE c == [op |-> o, no |-> calls + 1]
  <2>2. c \in Calls /\ o # "ack" /\ UNCHANGED <<phase, aRiv, aWiv, tainted>>
    BY <2>1, OpsAssumption
       DEF CallOperation, ClientOps, TypeInv, TypeOK, Calls, agentVars
  <2>3. CASE Transmit(o, c, "header")
    BY <2>2, <2>3, SyncTransmit
  <2>4. CASE EncryptFails(c)
    BY <2>2, <2>4, SyncFrame DEF EncryptFails, Ends
  <2>. QED
    BY <2>1, <2>3, <2>4 DEF CallOperation
<1>7. CASE SendAck
  <2>1. call \in Calls /\ pc = "ack" /\ UNCHANGED <<phase, aRiv, aWiv, tainted>>
    BY <1>7, CallInProgress DEF SendAck, TypeInv, agentVars
  <2>2. CASE Transmit("ack", call, "header")
    BY <2>1, <2>2, SyncTransmit
  <2>3. CASE EncryptFails(call)
    BY <2>1, <2>3, SyncFrame DEF EncryptFails, Ends
  <2>. QED
    BY <1>7, <2>2, <2>3 DEF SendAck
<1>8. CASE \/ ConnectRefused \/ SubmitIncomplete
           \/ \E o \in Ops : CallUnconnected(o)
  BY <1>8, SyncFrame
     DEF ConnectRefused, SubmitIncomplete, CallUnconnected, Fails, Ends,
         channelVars, agentVars, historyVars
<1>9. CASE RecvHeader \/ RecvEof \/ RecvTimeout
  BY <1>9, SyncFrame
     DEF RecvHeader, RecvEof, RecvTimeout, Ends, channelVars, agentVars,
         historyVars
<1>10. CASE Close
  BY <1>10, SyncFrame DEF Close, channelVars, agentVars
<1>11. CASE AgentReject \/ AgentLost
  BY <1>11
     DEF AgentReject, AgentLost, AgentHangUp, clientVars, historyVars,
         SyncInv, InSync
<1>12. CASE UNCHANGED vars
  BY <1>12, SyncFrame DEF vars
<1>. QED
  BY <1>1, <1>2, <1>3, <1>4, <1>5, <1>6, <1>7, <1>8, <1>9, <1>10, <1>11,
     <1>12 DEF Next

\* In an open session every packet the client has sent was counted by the
\* agent or is on its way, and every packet the agent has sent was counted by
\* the client or is on its way.
THEOREM CountersAgree == Spec => []InSync
<1>1. TypeInv /\ SyncInv /\ [Next]_vars => SyncInv'
  BY SyncStep
<1>2. SyncInv => InSync
  BY DEF SyncInv
<1>. QED
  BY <1>1, <1>2, SyncInit, TypeInvariant, PTL DEF Spec

-----------------------------------------------------------------------------
(***************************************************************************)
(* A reader that lost its place finds no packet any more.                  *)
(*                                                                         *)
(* IVs grow along the channel, and a packet that is consumed without being *)
(* counted leaves only greater ones behind it.                             *)
(***************************************************************************)
TaintInv ==
  /\ pc \in {"handshake", "ack", "body"} => ~tainted
  /\ pc = "body" => s2c # <<>> \/ phase = "gone"
  /\ phase = "hello" => s2c = <<>> /\ ~tainted
  /\ aWiv > 0
  /\ \A i, j \in 1 .. Len(s2c) : i < j => s2c[i].iv < s2c[j].iv
  /\ \A i \in 1 .. Len(s2c) : s2c[i].iv < aWiv
  /\ (pc = "body" /\ s2c # <<>>) => s2c[1].iv = riv
  /\ (tainted /\ aligned) =>
       riv < aWiv /\ \A i \in 1 .. Len(s2c) : riv < s2c[i].iv

\* No IV is in the channel at first.
LEMMA TaintInit == Init => TaintInv
<1> SUFFICES ASSUME Init PROVE TaintInv
  OBVIOUS
<1>1. 1 .. Len(s2c) = {}
  BY EmptySeq DEF Init
<1>. QED
  BY <1>1, IvHalfAssumption DEF Init, TaintInv, ReaderIv0

\* What is used of the channel: its IVs are numbers, and reading the first
\* packet moves every other one forward.
LEMMA ChannelFacts ==
  ASSUME TypeInv
  PROVE  /\ Len(s2c) \in Nat
         /\ \A i \in 1 .. Len(s2c) : s2c[i].iv \in Nat
         /\ s2c # <<>> => 1 \in 1 .. Len(s2c) /\ Head(s2c) = s2c[1]
         /\ s2c # <<>> =>
              /\ Len(Tail(s2c)) = Len(s2c) - 1
              /\ \A i \in 1 .. Len(Tail(s2c)) : Tail(s2c)[i] = s2c[i + 1]
<1>1. s2c \in Seq(Replies)
  BY DEF TypeInv, TypeOK
<1>2. \A i \in 1 .. Len(s2c) : s2c[i].iv \in Nat
  <2>1. \A i \in 1 .. Len(s2c) : s2c[i] \in Replies
    BY <1>1, ElementOfSeq
  <2>. QED
    BY <2>1 DEF Replies
<1>3. s2c # <<>> => Len(s2c) \in Nat \ {0}
  BY <1>1, EmptySeq
<1>. QED
  BY <1>1, <1>2, <1>3, LenProperties, HeadTailProperties

\* A step that moves no packet, and counts none unless it loses its place.
LEMMA TaintFrame ==
  ASSUME TaintInv,
         UNCHANGED <<riv, s2c, phase, aWiv>>,
         pc' = pc \/ pc' \in {"idle", "header"},
         tainted' = tainted /\ aligned' = aligned
  PROVE  TaintInv'
BY DEF TaintInv

\* A step that loses its place in the stream.
LEMMA TaintMisaligned ==
  ASSUME TypeInv, TaintInv, s2c # <<>> \/ pc = "body",
         UNCHANGED <<riv, s2c, phase, aWiv>>,
         pc' = "idle", tainted', ~aligned'
  PROVE  TaintInv'
BY DEF TaintInv

\* A new connection is not tainted and has an empty channel.
LEMMA TaintConnect ==
  ASSUME Connect
  PROVE  TaintInv'
<1>1. /\ s2c' = <<>> /\ aWiv' = ReaderIv0 /\ ~tainted' /\ pc' = "handshake"
  BY DEF Connect
<1>2. 1 .. Len(s2c') = {}
  BY <1>1, EmptySeq
<1>. QED
  BY <1>1, <1>2, IvHalfAssumption DEF TaintInv, ReaderIv0

\* Removing the first packet keeps the order of the IVs.
LEMMA TailSorted ==
  ASSUME TypeInv, TaintInv, s2c # <<>>, s2c' = Tail(s2c), aWiv' = aWiv
  PROVE  /\ \A i, j \in 1 .. Len(s2c') : i < j => s2c'[i].iv < s2c'[j].iv
         /\ \A i \in 1 .. Len(s2c') : s2c'[i].iv < aWiv'
         /\ \A i \in 1 .. Len(s2c') : s2c[1].iv < s2c'[i].iv
<1>1. /\ Len(s2c) \in Nat /\ Len(s2c') = Len(s2c) - 1
      /\ \A i \in 1 .. Len(s2c') :
           s2c'[i] = s2c[i + 1] /\ i + 1 \in 1 .. Len(s2c)
      /\ 1 \in 1 .. Len(s2c)
  BY ChannelFacts
<1>2. \A i, j \in 1 .. Len(s2c) : i < j => s2c[i].iv < s2c[j].iv
  BY DEF TaintInv
<1>3. \A i \in 1 .. Len(s2c) : s2c[i].iv < aWiv
  BY DEF TaintInv
<1>4. \A i, j \in 1 .. Len(s2c') : i < j => s2c'[i].iv < s2c'[j].iv
  <2> SUFFICES ASSUME NEW i \in 1 .. Len(s2c'), NEW j \in 1 .. Len(s2c'), i < j
               PROVE  s2c[i + 1].iv < s2c[j + 1].iv
    BY <1>1
  <2>1. /\ i + 1 \in 1 .. Len(s2c) /\ j + 1 \in 1 .. Len(s2c)
        /\ i \in Int /\ j \in Int
    BY <1>1
  <2>2. i + 1 < j + 1
    BY <2>1
  <2>. QED
    BY <1>2, <2>1, <2>2
<1>5. \A i \in 1 .. Len(s2c') : s2c'[i].iv < aWiv'
  BY <1>1, <1>3
<1>6. \A i \in 1 .. Len(s2c') : s2c[1].iv < s2c'[i].iv
  <2> SUFFICES ASSUME NEW i \in 1 .. Len(s2c')
               PROVE  s2c[1].iv < s2c[i + 1].iv
    BY <1>1
  <2>1. i + 1 \in 1 .. Len(s2c) /\ i \in 1 .. (Len(s2c) - 1)
    BY <1>1
  <2>2. 1 < i + 1
    BY <1>1, <2>1
  <2>. QED
    BY <1>1, <1>2, <2>1, <2>2
<1>. QED
  BY <1>4, <1>5, <1>6

\* The answer to the handshake, read whole or not, keeps the order.
LEMMA TaintRecvHandshake ==
  ASSUME TypeInv, TaintInv, RecvHandshake
  PROVE  TaintInv'
<1>1. /\ pc = "handshake" /\ ~tainted /\ s2c # <<>> /\ phase # "hello"
      /\ pc' \in {"idle", "ack"} /\ UNCHANGED <<riv, aWiv, phase>>
  BY DEF RecvHandshake, Ends, agentVars, TaintInv
<1>2. CASE HandshakeBodyUnread(Head(s2c))
  <2>1. /\ ~HandshakeAccepts(Head(s2c))
        /\ ~HandshakeBadHmac(Head(s2c))
    BY <1>2 DEF HandshakeBodyUnread, HandshakeAccepts, HandshakeBadHmac,
                HandshakeSize
  <2>2. s2c' = s2c /\ ~aligned' /\ tainted' /\ pc' = "idle"
    BY <1>2, <2>1 DEF RecvHandshake, Ends
  <2>. QED
    BY <1>1, <2>2, TaintMisaligned
<1>3. CASE ~HandshakeBodyUnread(Head(s2c))
  <2>1. s2c' = Tail(s2c)
    BY <1>3 DEF RecvHandshake
  <2>2. ~tainted'
    BY <1>1, <1>3, Zenon DEF RecvHandshake
  <2>. QED
    BY <1>1, <2>1, <2>2, TailSorted DEF TaintInv
<1>. QED
  BY <1>2, <1>3

\* A header is taken for one only by a reader that kept its place.
LEMMA TaintRecvHeader ==
  ASSUME TypeInv, TaintInv, RecvHeader
  PROVE  TaintInv'
<1>1. s2c # <<>> /\ UNCHANGED <<riv, s2c, phase, aWiv>>
  BY DEF RecvHeader, agentVars
<1>2. CASE pc' = "idle" /\ tainted' /\ ~aligned'
  BY <1>1, <1>2, TaintMisaligned
<1>3. CASE /\ HeaderDecrypts(Head(s2c)) /\ pc' = "body"
           /\ UNCHANGED <<aligned, tainted>>
  <2>1. s2c[1].iv = riv /\ aligned /\ 1 \in 1 .. Len(s2c)
    BY <1>1, <1>3, ChannelFacts DEF HeaderDecrypts
  <2>2. ~tainted
    BY <2>1, SyncTypes DEF TaintInv
  <2>. QED
    BY <1>1, <1>3, <2>1, <2>2 DEF TaintInv
<1>. QED
  BY <1>2, <1>3 DEF RecvHeader, Ends

\* A body consumed without being counted leaves greater IVs behind it.
LEMMA TaintRecvBody ==
  ASSUME TypeInv, TaintInv, RecvBody
  PROVE  TaintInv'
<1>1. /\ pc = "body" /\ pc' = "idle" /\ s2c # <<>> /\ s2c' = Tail(s2c)
      /\ ~tainted /\ s2c[1].iv = riv /\ phase # "hello"
      /\ tainted' => riv' = riv
      /\ UNCHANGED <<aligned, phase, aWiv>>
  BY DEF RecvBody, Ends, agentVars, TaintInv
<1>2. riv < aWiv
  BY <1>1, ChannelFacts DEF TaintInv
<1>. QED
  BY <1>1, <1>2, TailSorted DEF TaintInv

\* The first answer of a connection finds an empty channel.
LEMMA TaintAgentHandshake ==
  ASSUME TypeInv, TaintInv, AgentHandshake
  PROVE  TaintInv'
<1>1. /\ phase = "hello" /\ s2c = <<>> /\ ~tainted /\ pc # "body"
      /\ phase' \in {"challenge", "gone"} /\ aWiv > 0
      /\ UNCHANGED <<pc, riv, aligned, aWiv, tainted>>
  BY DEF AgentHandshake, clientVars, historyVars, TaintInv
<1>2. PICK e : s2c' = Append(<<>>, e) /\ e.iv = 0
  BY <1>1 DEF AgentHandshake, Reply
<1>3. Len(s2c') = 1 /\ s2c'[1] = e
  BY <1>2
<1>4. \A i \in 1 .. Len(s2c') : i = 1
  BY <1>3
<1>. QED
  BY <1>1, <1>2, <1>3, <1>4 DEF TaintInv

\* A new answer has the greatest IV of the channel.
LEMMA TaintAgentServe ==
  ASSUME TypeInv, TaintInv, AgentServe
  PROVE  TaintInv'
<1>1. /\ phase \in {"challenge", "ready"} /\ phase' \in {"ready", "gone"}
      /\ aWiv' = aWiv + 1
      /\ UNCHANGED <<pc, riv, aligned, tainted>>
  BY DEF AgentServe, clientVars
<1>2. PICK e : s2c' = Append(s2c, e) /\ e.iv = aWiv
  <2>1. PICK r : s2c' = Append(s2c, Reply(conn, aWiv, r, Head(c2s).no))
    BY DEF AgentServe
  <2>2. Reply(conn, aWiv, r, Head(c2s).no).iv = aWiv
    BY DEF Reply
  <2>. QED
    BY <2>1, <2>2
<1>3. /\ Len(s2c') = Len(s2c) + 1 /\ s2c' # <<>>
      /\ \A i \in 1 .. Len(s2c) : s2c'[i] = s2c[i]
      /\ s2c'[Len(s2c) + 1] = e
  BY <1>2, SyncTypes
<1>4. \A i \in 1 .. Len(s2c') : i \in 1 .. Len(s2c) \/ i = Len(s2c) + 1
  BY <1>3, ChannelFacts
<1>5. \A i, j \in 1 .. Len(s2c') : i < j => s2c'[i].iv < s2c'[j].iv
  <2> SUFFICES ASSUME NEW i \in 1 .. Len(s2c'), NEW j \in 1 .. Len(s2c'), i < j
               PROVE  s2c'[i].iv < s2c'[j].iv
    OBVIOUS
  <2>1. i \in 1 .. Len(s2c)
    BY <1>3, <1>4, ChannelFacts
  <2>2. CASE j \in 1 .. Len(s2c)
    BY <1>3, <2>1, <2>2 DEF TaintInv
  <2>3. CASE j = Len(s2c) + 1
    BY <1>2, <1>3, <2>1, <2>3 DEF TaintInv
  <2>. QED
    BY <1>4, <2>2, <2>3
<1>6. \A i \in 1 .. Len(s2c') : s2c'[i].iv < aWiv + 1
  <2> SUFFICES ASSUME NEW i \in 1 .. Len(s2c')
               PROVE  s2c'[i].iv < aWiv + 1
    OBVIOUS
  <2>1. CASE i \in 1 .. Len(s2c)
    BY <1>3, <2>1, ChannelFacts, SyncTypes DEF TaintInv
  <2>2. CASE i = Len(s2c) + 1
    BY <1>2, <1>3, <2>2, SyncTypes
  <2>. QED
    BY <1>4, <2>1, <2>2
<1>7. pc = "body" => s2c # <<>> /\ s2c'[1].iv = riv
  BY <1>1, <1>3, ChannelFacts DEF TaintInv
<1>8. (tainted /\ aligned) =>
         riv < aWiv + 1 /\ \A i \in 1 .. Len(s2c') : riv < s2c'[i].iv
  <2> SUFFICES ASSUME tainted, aligned
               PROVE  /\ riv < aWiv + 1
                      /\ \A i \in 1 .. Len(s2c') : riv < s2c'[i].iv
    OBVIOUS
  <2>1. riv < aWiv /\ \A i \in 1 .. Len(s2c) : riv < s2c[i].iv
    BY DEF TaintInv
  <2>. QED
    BY <1>2, <1>3, <1>4, <2>1, SyncTypes
<1>9. aWiv + 1 > 0
  BY SyncTypes
<1>. QED
  BY <1>1, <1>3, <1>5, <1>6, <1>7, <1>8, <1>9 DEF TaintInv

\* A connection that goes away takes answers from the channel, if any.
LEMMA TaintAgentHangUp ==
  ASSUME TaintInv, AgentHangUp
  PROVE  TaintInv'
<1>1. /\ phase' = "gone" /\ UNCHANGED <<pc, riv, aligned, aWiv, tainted>>
  BY DEF AgentHangUp, clientVars, historyVars
<1>2. CASE s2c' = s2c
  BY <1>1, <1>2 DEF TaintInv
<1>3. CASE s2c' = <<>>
  <2>1. 1 .. Len(s2c') = {}
    BY <1>3, EmptySeq
  <2>. QED
    BY <1>1, <1>3, <2>1 DEF TaintInv
<1>. QED
  BY <1>2, <1>3 DEF AgentHangUp

\* Every step keeps the order of the IVs and the place of the reader.
LEMMA TaintStep == TypeInv /\ TaintInv /\ [Next]_vars => TaintInv'
<1> SUFFICES ASSUME TypeInv, TaintInv, [Next]_vars PROVE TaintInv'
  OBVIOUS
<1>1. CASE Connect
  BY <1>1, TaintConnect
<1>2. CASE RecvHandshake
  BY <1>2, TaintRecvHandshake
<1>3. CASE RecvHeader
  BY <1>3, TaintRecvHeader
<1>4. CASE RecvBody
  BY <1>4, TaintRecvBody
<1>5. CASE RecvTimeout
  <2>1. UNCHANGED <<riv, s2c, phase, aWiv>> /\ pc' = "idle"
    BY <1>5 DEF RecvTimeout, Ends, agentVars
  <2>2. CASE UNCHANGED <<aligned, tainted>>
    BY <2>1, <2>2, TaintFrame
  <2>3. CASE (pc = "body" \/ s2c # <<>>) /\ ~aligned' /\ tainted'
    BY <2>1, <2>3, TaintMisaligned
  <2>. QED
    BY <1>5, <2>2, <2>3 DEF RecvTimeout
<1>6. CASE AgentHandshake
  BY <1>6, TaintAgentHandshake
<1>7. CASE AgentServe
  BY <1>7, TaintAgentServe
<1>8. CASE AgentReject \/ AgentLost
  BY <1>8, TaintAgentHangUp DEF AgentReject, AgentLost
<1>9. CASE SendAck \/ \E o \in Ops : CallOperation(o)
  BY <1>9, TaintFrame
     DEF SendAck, CallOperation, Transmit, EncryptFails, Ends, agentVars
<1>10. CASE \/ ConnectRefused \/ SubmitIncomplete \/ Close \/ RecvEof
            \/ \E o \in Ops : CallUnconnected(o)
  BY <1>10, TaintFrame
     DEF ConnectRefused, SubmitIncomplete, Close, RecvEof, CallUnconnected,
         Fails, Ends, channelVars, agentVars, historyVars
<1>11. CASE UNCHANGED vars
  BY <1>11, TaintFrame DEF vars
<1>. QED
  BY <1>1, <1>2, <1>3, <1>4, <1>5, <1>6, <1>7, <1>8, <1>9, <1>10, <1>11
     DEF Next

\* A step that ends a call with an answer is one that reads a body.
LEMMA OnlyBodiesAnswer ==
  ASSUME [Next]_vars, ~RecvBody
  PROVE  last' = last \/ last'.ans = 0
<1>1. CASE \/ Connect \/ Close \/ AgentHandshake \/ AgentServe \/ AgentReject
           \/ AgentLost \/ UNCHANGED vars
  BY <1>1
     DEF Connect, Close, AgentHandshake, AgentServe, AgentReject, AgentLost,
         AgentHangUp, clientVars, vars
<1>2. CASE \/ ConnectRefused \/ SubmitIncomplete
           \/ \E o \in Ops : CallUnconnected(o)
  BY <1>2 DEF ConnectRefused, SubmitIncomplete, CallUnconnected, Fails, Ends
<1>3. CASE SendAck \/ \E o \in Ops : CallOperation(o)
  <2>1. \E o, c : Transmit(o, c, "header") \/ EncryptFails(c)
    BY <1>3, Zenon DEF SendAck, CallOperation
  <2>2. last' = last \/ \E c, out : Ends(c, out, 0)
    BY <2>1, Zenon DEF Transmit, EncryptFails
  <2>. QED
    BY <2>2 DEF Ends
<1>4. CASE RecvHandshake \/ RecvHeader \/ RecvEof \/ RecvTimeout
  <2>1. last' = last \/ \E out : Ends(call, out, 0)
    BY <1>4, Zenon DEF RecvHandshake, RecvHeader, RecvEof, RecvTimeout
  <2>. QED
    BY <2>1 DEF Ends
<1>. QED
  BY <1>1, <1>2, <1>3, <1>4 DEF Next

\* Once an answer could not be read, no operation returns an answer until the
\* object is connected again.
THEOREM NoAnswerAfterTaint == Spec => NothingAfterTaint
<1>1. TypeInv /\ TaintInv /\ [Next]_vars => TaintInv'
  BY TaintStep
<1>2. TaintInv /\ [Next]_vars =>
        [(tainted /\ tainted') => (last' = last \/ last'.ans = 0)]_vars
  <2> SUFFICES ASSUME TaintInv, [Next]_vars, tainted
               PROVE  last' = last \/ last'.ans = 0
    OBVIOUS
  <2>1. ~RecvBody
    BY DEF RecvBody, TaintInv
  <2>. QED
    BY <2>1, OnlyBodiesAnswer
<1>. QED
  BY <1>1, <1>2, TaintInit, TypeInvariant, PTL DEF Spec, NothingAfterTaint

=============================================================================
