----------------------------- MODULE NativeCall -----------------------------
(***************************************************************************)
(* Calls of native functions, one after the other, each of whose steps may *)
(* fail.  Code is the table of the functions, in the form of NativeCode.   *)
(***************************************************************************)
EXTENDS NativeCode

CONSTANTS
  Code,  \* the functions, by name
  Lost,  \* for each: what calls that failed, that passed leave behind
  Authenticated  \* the functions that decrypt what a MAC authenticates

VARIABLES
  fn,        \* the function that runs, or Idle
  part,      \* where it is: in its steps or in its cleanup
  at,        \* and at which of them
  held,      \* resources acquired and not released
  pending,   \* an exception is pending
  value,     \* the value to be returned was assigned
  failed,    \* history: a step of this call failed
  verified   \* history: the MAC was compared and right

vars == <<fn, part, at, held, pending, value, failed, verified>>

Functions == DOMAIN Code
Idle == "idle"
Body == Code[fn].body
Cleanup == Code[fn].cleanup

Init ==
  /\ fn = Idle /\ part = "body" /\ at = 1
  /\ held = {} /\ pending = FALSE /\ value = FALSE
  /\ failed = FALSE /\ verified = FALSE

Call(f) ==
  /\ fn = Idle
  /\ fn' = f /\ part' = "body" /\ at' = 1
  /\ held' = {} /\ pending' = FALSE /\ value' = FALSE
  /\ failed' = FALSE /\ verified' = FALSE

Running == fn # Idle /\ part = "body" /\ at <= Len(Body)

\* A step that does what it is for.
Succeed ==
  /\ Running
  /\ Body[at].op # "branch"
  /\ held' = After(Body[at], held)
  /\ value' = (value \/ Body[at].op = "result")
  /\ verified' = (verified \/ Body[at].op = "verify")
  /\ at' = at + 1
  /\ UNCHANGED <<fn, part, pending, failed>>

Jump ==
  /\ Running
  /\ Body[at].op = "branch"
  /\ \E d \in Body[at].jumps : at' = at + d
  /\ UNCHANGED <<fn, part, held, pending, value, failed, verified>>

\* A step that fails: throw, goto.
Fail ==
  /\ Running
  /\ Body[at].op \in Failing
  /\ held' = held \ Body[at].drop
  /\ pending' = (Body[at].op \in Throwing)
  /\ failed' = TRUE
  /\ part' = "cleanup" /\ at' = LabelAt(Cleanup, Body[at].to)
  /\ UNCHANGED <<fn, value, verified>>

\* The last step falls through to the releases.
FallThrough ==
  /\ fn # Idle /\ part = "body" /\ at > Len(Body)
  /\ part' = "cleanup" /\ at' = 1
  /\ UNCHANGED <<fn, held, pending, value, failed, verified>>

Release ==
  /\ fn # Idle /\ part = "cleanup" /\ at <= Len(Cleanup)
  /\ held' = held \ {Cleanup[at]}
  /\ at' = at + 1
  /\ UNCHANGED <<fn, part, pending, value, failed, verified>>

Returning == fn # Idle /\ part = "cleanup" /\ at > Len(Cleanup)

Return ==
  /\ Returning
  /\ fn' = Idle
  /\ UNCHANGED <<part, at, held, pending, value, failed, verified>>

Next ==
  \/ \E f \in Functions : Call(f)
  \/ Succeed \/ Jump \/ Fail
  \/ FallThrough \/ Release \/ Return

Spec == Init /\ [][Next]_vars

-----------------------------------------------------------------------------

Resources(f) ==
  {Code[f].body[i].res : i \in 1 .. Len(Code[f].body)} \cup
  {Code[f].cleanup[i] : i \in 1 .. Len(Code[f].cleanup)}

TypeOK ==
  /\ fn \in Functions \cup {Idle}
  /\ part \in {"body", "cleanup"}
  /\ fn # Idle => at \in 1 .. (IF part = "body" THEN Len(Body) + 1
                                               ELSE Len(Cleanup) + 1)
  /\ fn # Idle => held \subseteq Resources(fn)
  /\ pending \in BOOLEAN /\ value \in BOOLEAN
  /\ failed \in BOOLEAN /\ verified \in BOOLEAN

\* What a call of f leaves behind, other than for the JVM to free.
LeftBy(f) == held \ Code[f].refs

\* No exit releases what it does not hold: no context is disposed that was
\* never initialized, nothing is disposed twice, no goto goes to a label that
\* is too far up.
ReleasesHeld ==
  fn # Idle /\ part = "cleanup" /\ at <= Len(Cleanup) => Cleanup[at] \in held

\* A call leaves behind only what is known to be lost: nothing, except for
\* the elements of outputArray when one of the stream functions fails after
\* it took them, the MAC context of the two HMAC functions, and the signer's
\* encryption key when the resolver of an attestation fails after it.
LostIsKnown ==
  Returning =>
    LeftBy(fn) \subseteq (IF failed THEN Lost[fn].failed ELSE Lost[fn].passed)

\* The caller can tell: a call in which every step succeeded returns a value
\* and no exception; one in which a step failed throws, or, if the failure is
\* an answer, returns no value.
FailureIsReported ==
  Returning => IF failed THEN pending \/ ~value ELSE value /\ ~pending

\* Where a MAC authenticates the input, no data are decrypted before the MAC
\* was found right.  Only the session key is: the MAC is made with it.
AuthenticatedFirst ==
  fn \in Authenticated /\ Running /\ Body[at].op = "decrypt" => verified
=============================================================================
