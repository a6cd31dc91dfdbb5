# A TLA+ model of the Velochain Java client

`src/` is a Java library with a native half (JNI over the C libraries vccrypt,
vccert and vpr). It has three parts that keep state over time: a **connection**
to a blockchain agent (`agentd`, another program), **certificates** that are
built, signed, parsed and attested, and **documents** encrypted as a stream.
Everything else is a function of its arguments: ciphers, keys, HMACs, byte
order, UUIDs.

This project models the connection, for one calling thread; the streams of
encrypted documents; certificates from their builder to their reader; the
initialization of the native half by several threads; and the native functions,
for what each acquires, releases and throws on every exit. It checks all of them
with TLC and proves their safety properties with TLAPS, those of the native functions
for the 31 functions that the code has. Three parts have an
abstract specification that they are proved to implement: the connection, the
document streams and the initialization.

## Inventory

| Component | State | Operations | What is hard | What makes it correct |
|---|---|---|---|---|
| `ProtocolHandlerImpl` | `sharedSecret` | `handshake` (two rounds), `submit`, 12 queries | early exits that leave bytes in the stream; a secret set before it is verified | an operation reports the answer to its own request, or throws |
| `OuterEnvelopeWriter`, `OuterEnvelopeReader` and three natives | one IV counter each | encrypt; decrypt header; decrypt payload | order of MAC check, decryption and `++iv`; native failures between them | counters agree with the agent's; no IV is used twice |
| `SocketDataChannelImpl` | a socket and its two streams | connect, close, send, recv | peer lost at any byte, read timeouts, calls after close | every call ends; a stream that lost its place is not read as answers |
| `RemoteAgentConnection` (a `VelochainConnection`) | the three above | connect, close, 13 operations | `submit` turns every exception into a status; reconnecting the object; threads sharing it | at most once, in order |
| `InnerEnvelope`, `InnerEnvelopeResponse`, `ApiMethod` | none | parse, build | lengths, sign extension | what is built is what is parsed |
| `CertificateBuilder` | list of fields | add*, emit, sign | field ids cast to `short`, sign consumes the list natively | the emitted fields are those added, in order |
| `CertificateParser`, `CertificateReader`, `CertificateFieldReader` | `size`, `rawSize`, position of a buffer | parse, attest, field conversions | attest re-enters Java (delegate) from C and shrinks `size`; readers consume their buffer | after attest, only signed fields are visible |
| `EncryptedCertificateBuilder`, `EncryptedCertificateReader` | `iv`, secret key | add encrypted fields, add shared secrets, read | one IV per field | no IV twice; each entity can read |
| `EncryptedDocumentBuilder`, `EncryptedDocumentReader` | stream offset, IV | encrypt, decrypt, share key | chunk sizes differ between writer and reader; short reads | decrypt inverts encrypt whatever the chunks |
| `Initializer` and `blockchainInit` | `loaded`, `initialized`, native instance | getInstance | failure and retry, concurrent first use | one instance, used only when complete |
| Ciphers, HMAC, keys, signatures | none across calls | native calls | resources released through `goto` chains, exceptions left pending | every exit releases what was acquired |

Interaction: the application calls `RemoteAgentConnection`, which calls
`ProtocolHandlerImpl`, which calls the envelope reader and writer (natives
under the instance of `Initializer`) and the data channel. There are no
callbacks on this path and no locks; the one callback of the library is
`CertificateParserDelegate`, called from native attestation. Every native
function is given the instance that `Initializer.getInstance()` returns, which is
synchronized, and reads from it the members of Java classes that it needs. The hazards each
component is exposed to are listed in `PROJECT.json`, at their lines.

## Modules

| Module | Content |
|---|---|
| `AgentProtocol` | constant level: per operation its request id, the payload sizes it accepts, the size of its record and what it reports for an error status and for a short answer; the checks of the first handshake answer in the code's order |
| `RemoteAgentConnection` | the state machine: one object, one thread, the channel, the agent |
| `VelochainService` | abstract specification: calls carried out at most once and in order, each returning its own answer or throwing |
| `MCRemoteAgentConnection` | values of constants for TLC and the refinement mapping to `VelochainService` |
| `RemoteAgentConnectionProofs` | operator lemmas, the inductive `TypeInv`, `TypeCorrect` |
| `RemoteAgentConnectionSafety` | three inductive invariants and the safety theorems |
| `RemoteAgentConnectionAnswers` | what calls report: `AnswersMatch`, `OnlyLoss`, and `Implements`, the refinement |
| `EncryptedDocument` | `encrypt()` and `decrypt()` running at the two ends of a stream |
| `DocumentTransfer` | abstract specification: the output is the document, from its first byte on, and all of it when both ends returned |
| `MCEncryptedDocument` | the lengths of documents for TLC and the refinement mapping to `DocumentTransfer` |
| `EncryptedDocumentProofs` | operator lemmas, `DocumentTypeCorrect`, `DocumentKeystreamOnce`, `StreamInv`, `DocumentPrefix`, `DocumentRoundTrip`, and `DocumentImplements`, the refinement |
| `Certificate` | builder, transport, parser, attestation with its delegate, and reader of a certificate; its encrypted fields |
| `MCCertificate` | a field id that is negative as a Java `short`; symmetry |
| `CertificateProofs` | lemmas on places and ids, `IvInv`, `CertInv` and a theorem for every invariant of the run |
| `NativeCode` | the form of a native function: steps, labels, releases |
| `NativeCall` | the state machine that runs such functions, with a failure at any step |
| `NativeShapes` | what several functions share: key agreement, stream ciphers, new arrays |
| `CryptNatives`, `CertNatives`, `DocumentNatives`, `AgentdNatives` | the 31 native functions, package by package |
| `MCNativeCall` | the table of the functions and what is known to be lost |
| `NativeCodeProofs` | when a function is well formed; a calculus of steps, labels and releases, and by it that each of the 31 functions is well formed, reports and authenticates |
| `NativeCallProofs` | the invariants of calls, for any table of well-formed functions, and for the table of the code |
| `NativeIds` | what each register function looks up, and the order of `blockchainInit` |
| `NativeInstance` | abstract specification: one instance, made at one moment; no call returns before it and none throws after |
| `NativeInit` | `Initializer.getInstance()` by several threads, and the refinement mapping to `NativeInstance` |
| `MCNativeInit` | two threads, and the members that the 31 functions read |
| `NativeInitProofs` | the invariant of the initialization, five theorems for any registrations, `Implements`, the refinement, and `RegistrationsSuffice` for the registrations of the code |

The four groups share no state in the code and are not composed, with one
exception: `MCNativeInit` takes what has to be registered from the functions of
`NativeCall`, so that a member that one of them reads and no register function
looks up is found.

### Correspondence of `RemoteAgentConnection` to the code

State: `secret` is `ProtocolHandlerImpl.sharedSecret`, `wiv` and `riv` are the
fields `iv` of writer and reader, `sock` the socket. `pc` is where the calling
thread blocks: between the write and the read of a handshake round or of an
operation, before the 5 bytes of a header, before the body. The queues `c2s`
and `s2c` are the two streams in whole packets; `aligned` says whether the next
unread byte begins what the reader expects. `phase`, `aRiv`, `aWiv` belong to
the agent. `executed`, `accepted`, `connected`, `tainted` and `wire` are history
variables that only properties read (`connected` and `tainted` are never in a
guard).

Actions: `Connect`, `RecvHandshake`, `SendAck` are `connect()`; the answer to the
acknowledgement is read by `RecvHeader` and `RecvBody`, as in the code, where
the second round has the same form as an operation. `CallOperation` is the
write half of every operation and `RecvHeader`/`RecvBody` its read half; the
per-operation differences are the records of `AgentProtocol`. `CallUnconnected`
and `SubmitIncomplete` are the early returns, `ConnectRefused` and `Close` the
channel's own operations, `RecvEof` and `RecvTimeout` its failures.
`AgentHandshake`, `AgentServe`, `AgentReject`, `AgentLost` are external.

A step of the client runs from one blocking point to the next, which is exact
for one thread: the code in between touches only the object's own fields.

### Correspondence of `EncryptedDocument` to the code

The state is that of the two loops: for `encrypt()` the bytes read from its
source and `offset` (`source`, `woffset`), for `decrypt()` its array `iv`, its
`offset` and what it wrote (`riv`, `roffset`, `out`); `pipe` is the stream between
them. `keystream` is a history variable. A step is one turn of a loop: `Encrypt`
is `read`, `encryptData`, `offset += r` and `write`, `Decrypt` the same of the
reader, and `ReadIv` the one `read` before its loop. `EncryptFails` and `DecryptFails`
are an exception at any call of a turn, with the writing of a chunk cut anywhere.

A document's i-th byte is the number i, so that `out[i] = i` says that the right
byte arrived. A byte of ciphertext is a record of IV, position and plaintext and
decrypts to 0, which no document contains, in every other place. `Byte` covers
the IV's own bytes too, with negative positions, because a reader that gets its
IV wrong decrypts the rest of it.

### Correspondence of `Certificate` to the code

`fields` and `iv` are the fields of `CertificateBuilder` and
`EncryptedCertificateBuilder`; `parser` holds `certificate`, `size` and `rawSize` of
`CertificateParser`; `reader` holds `certFields`, the UUID and the secret key of
`EncryptedCertificateReader`. A certificate is a sequence of fields, and its size
is their number. `Short` is the cast of an id to a signed 16 bit number in the
builder, `Wire` the `uint16_t` of the native half. `added`, `made` and `attestedBy`
are history variables.

Each `add*` method is one action, with or without encryption; `AddEncryptedFails`
is the native function throwing after `iv++`. `Emit` and `Sign` are the two ways
to a certificate. `Receive` is a caller parsing what arrived: the beginning of one
certificate and the end of another, with a field lost, repeated or put in
between. `attest()` is followed through its callback: `Attest` up to the call of
the delegate, `Resolve`, `DelegateThrows`, `DelegateReturnsNull` and `ResolveFails`
for what the delegate and the copying of its answer can do, `MissingSigningCert`
for the branch that throws nothing itself, then `AttestPasses` or `AttestRefuses`.
A reader may be made between any two of these steps, as a delegate may do that.

### Correspondence of the native modules to the code

A native function in C is a straight line of acquisitions and calls, with a test
and a `goto` after each, followed by labels that release what was acquired. It
becomes a record of two sequences, `body` and `cleanup`: `Take(r, l)` acquires `r`
or goes to the label `l`, `Try(l)` is a call or test that may fail, `Give` releases
before the end, `Branch` is the condition of a loop, and so on; the operators of
`NativeCode` say which C form each stands for. What a step computes is left out;
which label it leaves for, and whether the branch there throws, is what the
records are about. `NativeCall` runs any function of the table: each step succeeds
or fails, a failure leaves for its label and falls through the releases.

Two functions are not straight lines. `attest()` is called back by vccert while it
attests: `ResolveEntity` is the entity key resolver, whose steps may be left out,
as vccert does not get to it with every certificate, and whose failure ends the
attestation. `parse()` ends its loop over the fields (`ParseFields`) whatever the
reason for which vccert has no next one, a malformed field included, and returns
the list; this end is not a failing step, as in the code it is none.

What is decrypted has two forms. `Decrypt` is a decryption of data, which has to wait
for the MAC. `Unwrap` is that of a key that came with them, under a key that the
two sides share: in `SimpleStreamCipher_decryptNative.c` the session key (line 196)
is decrypted before the comparison (line 250), which needs it. That a wrong
session key is found out by the comparison is not a statement of these modules.

In `NativeInit` a step is a statement of `getInstance()`, `init()` or `blockchainInit`.
`monitor` is the lock of the `Initializer` class, `own` what is set in the instance
that a thread makes (the members of classes, the three options, and the flag
`initialized` last), `instances` those that were completed. A failure
of the first registration returns 0 and makes Java throw; a later one throws from
C. Either leaves the fields as they were, so that the next call starts again.

### Assumptions

- `encrypt()` draws 8 random bytes as IV; the model gives every document another
  one. That two draws coincide is a matter of probability and not modelled.
- The reader holds the builder's secret key. The stream is a file or a pipe
  without a limit, and ends when `encrypt()` is over and the application closes it.
- `ShortReads` says whether the stream may give fewer than the 8 bytes asked for
  although more are there or will come, as `InputStream.read` may. Reads of
  chunks may be short in either case.
- Ciphers are ideal. A packet decrypts under the key and IV it was encrypted
  with; five bytes that are not a header under these are rejected (in the code:
  unless the type byte and the size happen to fit, after which the MAC fails).
  A stream that was misread never gets back in step.
- The agent is not in this repository. Its initial IVs per connection are taken
  to be the constants of the two constructors, it answers in order, and drops a
  connection whose packet it cannot decrypt. The deviant agent of the run
  `faulty` may instead give every answer that some check of the client is for.
- A new socket has no memory of the old one: undelivered packets of the old
  connection are dropped. What a peer that goes away leaves unread may be lost.
- Keys are numbered by connection (`conn`); `-conn` is what a client computes
  against an agent whose handshake answer carries another HMAC.
- Read timeouts happen only where the `SocketFactory` sets them; the code here
  does not. `"timeout"` is therefore a fault of its own.
- `"native"` failures are those of allocation and of the crypto library.
  `IllegalStateException` stands for any exception a native throws for them; a few
  throw a `NullPointerException`.
- Signatures and the long term secret of two entities are ideal. A block cipher
  does not tell a wrong key from the right one, as in the code, where the secret
  key is decrypted without a MAC.
- vccert, which is external, calls the entity key resolver at most once in an
  attestation, does not pass it when the resolver says false, and disposes of the
  two buffers that a resolver filled which said true, and of no others.
- What `blockchainInit` looks up exists in the Java classes, or the lookup fails;
  the two are one choice. A `malloc` of the instance that fails is a failure to load.
- Local references that a function leaves are freed by the JVM on return.
- `IvHalf` is 2^63 in the code. The model needs it only to be larger than the
  number of calls, so that the two directions do not meet.

## Runs

| Run | Question | Result |
|---|---|---|
| `conforming` | all 13 operations, 4 calls, 2 sockets, agent lost at any time: does the connection implement `VelochainService`, do the counters agree, do answers match, does a call on its way to the agent fail with a refusal or an `IOException` only, does every call end? | holds, 46,980 states |
| `faulty` | one operation, 4 calls, 2 sockets, deviant agent, timeouts, native failures: are IVs unique, do the counters agree, is a broken stream ever read again? | holds, 1,391,920 states |
| `secret_before_connected` | is `sharedSecret` set only while connected? | violated |
| `status_unconnected` | does `getConnectionStatus()` before `connect()` throw an `IOException`? | violated |
| `submit_answer_lost` | does FAILED mean that it did not? | violated |
| `reconnect` | can the agent decrypt the acknowledgement of every connection? | violated |
| `document_round_trip` | two documents of 0 to 5 bytes, a buffer of 3, both sides failing anywhere: do the two ends implement `DocumentTransfer`, is only the right plaintext written, all of it when both return, no keystream used twice, does `decrypt()` end? | holds, 11,726 states |
| `document_short_read` | on a stream with short reads, is the IV of the reader the one that was written? | violated |
| `certificates` | three calls of a builder, any mixture of two certificates, `attest()` with every outcome, readers at any time: does a reader made after `attest()` have what was signed, are fields and encrypted fields read as they were added, is no IV used twice? | holds, 578,659 states |
| `native_calls` | all 31 functions with a failure at any step: is only released what is held, nothing lost but what is known, every failure reported, no data decrypted before their MAC was found right? | holds, 1,151 states |
| `attest_invalid` | does `attest()` return false for a certificate whose signature is not its signer's? | violated |
| `native_init` | two threads, two calls each, any step failing: does `getInstance()` implement `NativeInstance`, is there one instance, complete when it is used, can every failing step throw, does every call end? | holds, 1,740 states |

The runs of the first two rows also visit the states after the violations of
the others: a client that goes on with a secret of a failed handshake, and one
that reconnects with old counters.

Bounds. `MaxConnects = 2` is the least that shows what one session leaves to the
next; counters and secret are the only state that survives, and a third session
starts from a state that the second can start from too, up to the counters'
values. `MaxCalls = 4` allows connect, an operation that fails, a second
connect and an operation, or three operations in one session, which is what
a stale answer needs: one to leave it, one to read it, one to read the answer of
that. In `faulty` one query stands for the others: they differ in the sizes they
accept, and 8, 12, 28 and more than 10 MB fall on every side of the query's
checks. Deadlock is checked in these runs; the system cannot stop, as `Close` is
enabled whenever no call is in progress.

In the document runs a buffer of 3 and lengths up to 5 give no chunk, one that
is short, one that is full, and several; both sides choose every size of chunk
up to the buffer, so theirs need not coincide, and the reader's may be longer
or shorter than the writer's. The IV has its 8 bytes, more than a buffer. Two
documents are the least with which a keystream could be shared. Deadlock is
not checked there: the application stops after `MaxDocuments`.

In `certificates` the three calls allow two certificates of one builder that
differ, with a field, plain or encrypted, or a secret between; two entities are a
reader whom the secret is for and one whom it is not for, and a signer and
another. The one field id is 0xA001, which is negative as a `short`. Values are an
empty one and another. The builder stops when a certificate was received, with
which it has nothing to do. In `native_calls` there is no bound: the functions are
finite and nothing is kept between calls. In `native_init` two threads are the
least that race; a first call that fails and a second that does not need two
calls each. These three do not check deadlock where a bound on calls, or the one
reader, ends the behaviours.

Fairness: `WF(ClientRecv)`, the thread in a call keeps running, and
`WF(AgentStep)`, the agent answers, refuses or hangs up. Both are weak and the
first is what an operating system gives a thread that is not blocked. The second
is about the agent: without it a call on a socket without timeout blocks for
ever, which is what the code does. No fairness is assumed of the loss of the
connection, of timeouts or of new calls. In the document run the loops of
`encrypt()` and `decrypt()` keep running while they can; neither failures nor new
documents are fair. In `native_init` every thread keeps running once it called
`getInstance()`; that it gets the monitor in the end follows from the other
threads' finitely many calls, since a Java monitor is not fair by itself.

## What the violated runs show

1. `sharedSecret` is assigned before the agent's HMAC is verified
   (`ProtocolHandlerImpl.java:459`) and is not cleared by a later failure or by
   `close()`; the null check that guards the operations then passes.
2. `getConnectionStatus()` has no null check (`ProtocolHandlerImpl.java:281`). Before
   `connect()` it throws a `NullPointerException`, where its interfaces promise an
   `IOException` for a connection that is not valid (`VelochainConnection.java:165`,
   `ProtocolHandler.java:107`).
3. `submit()` reports FAILED for a transaction that was accepted when only its
   answer was lost (`RemoteAgentConnection.java:76`); `UNKNOWN_DISCONNECTED`
   exists and is not used.
4. The IV counters are not reset by `connect()`, so an object whose session had
   sent its acknowledgement cannot be connected again.

5. `decrypt()` ignores how many bytes `source.read(iv, 0, 8)` gave
   (`EncryptedDocumentReader.java:89`). After a short read it decrypts under an IV
   that ends in zeros and takes the rest of the IV for data.

6. `attest()` never returns false (`CertificateParser_attestNative.c:204`): it throws
   for a certificate that is not valid, where `CertificateParser.java:73` and `:115`
   say that it returns false. The trace is a certificate that lost its first field on
   the way.

Some of what the models follow the code in needs no run to be seen:

- `submit()` drops the agent's status (`ProtocolHandlerImpl.java:124`, with a TODO), so
  that a refused transaction is reported as SUCCEEDED. `AgentProtocol` has it so.
- What native functions lose is the list `MCLost`, and `LostIsKnown` says that this is
  all: the two HMAC functions never dispose of their MAC context
  (`HMAC_digestNative.c:192`, `HMAC_digestArrNative.c:207`), whether they succeed or
  not; those that encrypt or decrypt a stream leave the elements of `outputArray` when
  the cipher fails; and the resolver of `attest()` leaves the buffer of the encryption
  key when there is no memory for that of the signing key
  (`CertificateParser_attestNative.c:376`). Local references are not counted.
- The contract resolver always finds nothing, so that a certificate with a contract
  is always refused; a value of no bytes can be encrypted and not be read back
  (`EncryptedCertificateReader.java:70`).

## Proofs

All constants are arbitrary under the named assumptions: any set of operations,
any bounds (`MaxCalls < IvHalf`), any reply sizes, any subset of the faults.

- `TypeCorrect`: `Spec => []TypeOK`. `TypeInv` adds that a packet of the handshake
  carries no key, and that the agent has a connection only if one was opened;
  without the second the agent's key could be 0.
- `KeystreamUsedOnce`: `Spec => []NoKeystreamReuse`. `KeyInv` says where every IV in
  `wire` lies: the client's below `wiv` and under `IvHalf` for every key, the
  agent's from `IvHalf + 1` up to below `aWiv` for the key of the current
  connection. The next IV is therefore new in either direction. `MaxCalls <
  IvHalf` is needed, since a client sends at most one packet per call.
- `CountersAgree`: `Spec => []InSync`. `InSync` alone is not inductive, as it says
  nothing of the handshake. `SyncInv` adds the counters in each phase and that
  only a client whose `wiv` is 1 can send an acknowledgement that the agent takes.
- `NoAnswerAfterTaint`: `Spec => NothingAfterTaint`. `TaintInv` says that the IVs
  on the channel strictly increase and that a tainted reader expects one that is
  behind all of them, or has lost its place.

- `DocumentTypeCorrect`: `Spec => []TypeOK` of `EncryptedDocument`.
- `DocumentKeystreamOnce`: `Spec => []KeystreamOnce`. `KeystreamInv` adds that no IV
  is beyond the current document's and that, while `encrypt()` runs, all positions
  under it are below the offset.
- `DocumentPrefix` and `DocumentRoundTrip`: `Spec => []PlaintextPrefix` and
  `Spec => []RoundTrip`, both for `ShortReads = FALSE`; with short reads they are
  false. `PlaintextPrefix` says nothing of the bytes under way, so `StreamInv`
  says which byte of the encrypted document each byte of the pipe is, how many
  there are against the offsets of both sides, and that the reader has the IV
  as soon as a byte needs it. TLC found `StreamInv` invariant on the instance
  of `document_round_trip` before it was proved.
- `DocumentImplements`: `Spec => ImplementsTransfer`, under the same assumption, by
  step simulation. Of the writer only its end is seen, of the reader its end and
  what it writes; reading the IV is a stutter. `StreamInv` gives the bytes that a
  step writes, and with `RoundTrip` that nothing is missing at the end; that the
  output gets no shorter is a fact about the steps alone.

The document theorems hold for every set of lengths, every buffer size and any
number of documents.

- `AnswersMatch`: `Spec => []AnswerMatchesRequest` for `"timeout" \notin Faults`; with
  timeouts it is false. `MatchInv` says that as long as the stream is read from
  where a packet begins, it is empty between calls, and holds at most the one
  request or answer of a call that is in progress. The agent may deviate and
  native code may fail.
- `OnlyLoss`: `Spec => OnlyLossFails` for `Faults = {}`, an action property of the
  step that ends a call: one of `connect()`, or of an object with a shared secret.
  What calls throw before that is a matter of their guards. `LossInv` says that what
  waits to be read is an answer to the request, under the key the client holds
  and the IV it expects; the IV is what `SyncInv` is needed for.
- `Implements`: `Spec => ImplementsService` for `"timeout" \notin Faults`, by step
  simulation: the refinement mapping is the identity on `call`, `executed` and
  `last`, with `issued` for `calls`. `OrderInv` says that requests on their way have
  increasing numbers greater than those carried out, and that what a call waits
  to read is the answer to a request that was carried out.
- `NativeCallProofs`: `Spec => []TypeOK`, `[]ReleasesHeld` and `[]LostIsKnown` for any
  table of functions of which each is well formed, `[]FailureIsReported` if each
  also `Reports`, `[]AuthenticatedFirst` if those with a MAC also `Authenticates`.
  All three are statements about one function, without a behaviour: the first
  with an annotation of what is held at each step, the others about what comes
  before a step on every path. `IInv` relates what is held to the annotation in
  the steps, and to the releases that are left in the cleanup.
  `FailureIsReported` speaks of returns only; `ReportInv` says in addition that
  among the steps no exception is pending and the value is assigned exactly if a
  step before this one assigns it, `VerifiedInv` the same of the MAC in one
  direction: a loop may have gone back, but never behind such a step.
- `CodeFits`: the 31 functions of the code are well formed, report and authenticate,
  with the known losses and the functions with a MAC that the run has (`TheCode`
  says that the constants are these), under the annotation `Holding`: what is held
  at each step. It discharges the hypotheses of the theorems before, so that
  `NativeFunctionsKeep` has the five invariants of `native_calls` without them.
  The annotation is a recursive function, which cannot be expanded as far as a
  function is long. `NativeCodeProofs` therefore has a calculus. What a
  function has done up to a step is a *level* of its cleanup: the first of the
  releases that are due, with what else is held and with the marks (the value
  assigned, the MAC compared) that were passed. Each form of step has a lemma that
  leads from one level to another: a `Try` stays if its label is the level's own,
  a `Take` goes up by one, `Takes` goes up by as many as its names are the releases
  read upwards, a loop leads back to where it began. The proof of a function
  joins such lemmas (`Path`, `Reach`) from its first step to its last, and every
  leaf is about one label. `HoldingIs` shows that the levels are what it
  computes, `MarksAreBefore` that the marks are what comes before on every path.
  A label that is one off, a loss that is not listed, or a function that does
  not compare a MAC make it fail at the step where that is.
- `NativeInitProofs`: `TypeCorrect`, `One` (`OneInstance`) and `Stays`
  (`StaysInitialized`) for any set of threads and any registrations, `Complete`
  (`InstanceIsComplete`) if the registrations set all that is used, `Throws`
  (`CanThrow`) if the first sets what is thrown. `RegistrationsSuffice` discharges
  the conditions of these two for the code: class by class, what the 31 functions
  read is a part of what the register functions set, and the first step sets the
  exception's class. `IInv` adds that whoever is inside has
  the monitor, and that an instance is completed only by a thread that goes on
  to publish it: after it, nothing can fail.
- `Implements`: `Spec => ImplementsInstance`. The abstract instance is there from
  `SetInitialized` on, when the first call may return it; what the thread inside
  did before is a stutter. That a call throws only before this moment is where
  the monitor is needed: `IInv` has it that a thread on its way to throw is
  inside, and that the library does not count as initialized then.
- `CertificateProofs`: `IvsDiffer` (`NoIvReuse`), `TypeCorrect`, `ReadsWhatWasSigned`
  (`AttestedIsSigned`), `ReadsWhatWasAdded` (`FieldsRoundTrip`) and `DecryptsWhatWasAdded`
  (`EncryptedRoundTrip`), for any ids of 16 bits, values and entities and any
  number of calls. `IvInv` adds that all IVs in use are below the counter.
  The other four follow from `CertInv`, found invariant by TLC on
  the instance of `certificates` before it was proved. The three properties that
  it is for speak of a reader, so that none is inductive; its parts follow a
  field from the builder to the reader. `BuilderInv`: the list holds what was
  added, each id as a short. `MadeInv`: a certificate is what was added, under
  the ids it was added under, and if it was signed the signer and a signature
  over all of it. `ParserInv`: the size is the whole certificate's, or `attest()`
  passed, and it ends before a signature that fits. `PlaceInv`: `attest()` goes on
  only if there is a signature. `ReaderInv`: a reader has what the parser had when
  it was made, and has still, as the one reader ends the behaviour. The order of the values of an id
  rests on the k-th place of an id being the same in a certificate and in its
  signed part. That there is a k-th place in a finite set is usually proved by
  induction; here it follows from a least element, which is a minimal one of the
  well-founded order of finite subsets (`HasLeast`, `EveryRank`).

Only model-checked: the liveness properties `CallTerminates`, `DecryptEnds` and
`CallEnds`, which this prover cannot treat. Every other property of the passing
runs is a theorem.

## Not modelled

- Several threads on one `RemoteAgentConnection`. Nothing in the code serialises
  them and no document says what they may expect, so there is no property that
  the code is meant to have; what goes wrong is in the list of hazards.
- `attest()` called by a delegate on the parser that is being attested, and a
  certificate whose array is changed between parsing and reading.
- The conversions of `CertificateFieldReader` and the serialisation of values in
  the builder, `InnerEnvelope` and the utilities: functions of their arguments
  without state, with unit tests; a value is a member of a small set.
- The contents of requests and records, and the algorithms of vccrypt, vccert and
  vpr.
- What the JVM makes of calls that JNI does not define: in `attest()`, a `NewObject`
  with an exception pending, and a C string where a Java string is expected. The
  model takes it that some exception arrives.
- Results of `GetByteArrayElements` and `NewByteArray` that the code does not check:
  `Get` acquires always.
- The names and signatures that registration looks up, the UUID conversion of
  the native half, the example programs and the tests.

## What could come next

The three refinements are proved for safety. An abstract specification with
fairness could be checked, not proved, against the fair specifications.

A connection shared by threads, with the steps between `encrypt` and `++iv` and
between header and body apart, would show what a lock around each call restores.
