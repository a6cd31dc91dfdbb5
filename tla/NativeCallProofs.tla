-------------------------- MODULE NativeCallProofs --------------------------
(***************************************************************************)
(* If every function of the table is well formed, then whatever steps of   *)
(* whatever calls fail, no call releases what it does not hold, and a call *)
(* leaves behind only what is known to be lost.  If the functions assign   *)
(* their value and compare the MAC on every path before it matters, then   *)
(* the caller can tell how a call ended, and no data are decrypted before  *)
(* they were authenticated.  The functions of the code are, do and do      *)
(* (CodeFits), so all of this holds of them.                               *)
(*                                                                         *)
(* While a function takes its steps, what it holds is what the annotation  *)
(* says.  Once it cleans up, it holds all that is yet to be released, and  *)
(* the rest of what it holds is lost already.                              *)
(***************************************************************************)
EXTENDS MCNativeCall, NativeCodeProofs

\* What is held before each step of each function.
Holding == [f \in Functions |-> HoldingOf(Code[f])]

AllWellFormed == \A f \in Functions : WellFormed(Code[f], Holding[f], Lost[f])

AllReport == \A f \in Functions : Reports(Code[f])

AllAuthenticate == \A f \in Functions \cap Authenticated : Authenticates(Code[f])

\* What calls of f leave behind: known to be lost, or for the JVM to free.
MayLeave(f) ==
  (IF failed THEN Lost[f].failed ELSE Lost[f].passed) \cup Code[f].refs

InBody ==
  fn # Idle /\ part = "body" =>
    /\ at \in 1 .. Len(Body) + 1
    /\ held = Holding[fn][at]
    /\ failed = FALSE

InCleanup ==
  fn # Idle /\ part = "cleanup" =>
    /\ at \in 1 .. Len(Cleanup) + 1
    /\ Released(Cleanup, at) \subseteq held
    /\ held \ Released(Cleanup, at) \subseteq MayLeave(fn)

Flags ==
  /\ fn \in Functions \cup {Idle}
  /\ part \in {"body", "cleanup"}
  /\ pending \in BOOLEAN /\ value \in BOOLEAN
  /\ failed \in BOOLEAN /\ verified \in BOOLEAN

HeldIsNamed == fn # Idle => held \subseteq Resources(fn)

IInv == Flags /\ InBody /\ InCleanup /\ HeldIsNamed

\* Among the steps, the value is assigned exactly where a step before this
\* one assigns it, though a loop may have gone back; after them, what is to be
\* returned tells how the call ended.
ReportInv ==
  /\ fn # Idle /\ part = "body" =>
       pending = FALSE /\ (value <=> Before(Code[fn], "result", at))
  /\ fn # Idle /\ part = "cleanup" =>
       IF failed THEN pending \/ ~value ELSE value /\ ~pending

\* Past a step that compares the MAC, it was compared in this call.
VerifiedInv ==
  fn # Idle /\ part = "body" /\ fn \in Authenticated =>
    (Before(Code[fn], "verify", at) => verified)

-----------------------------------------------------------------------------
(* The facts about sequences and labels that the steps rest on.            *)

\* No resource is released twice.
LEMMA ReleasedOnce ==
  ASSUME NEW c, NEW i \in 1 .. Len(c), Len(c) \in Nat,
         \A j, k \in 1 .. Len(c) : c[j] = c[k] => j = k
  PROVE  c[i] \notin Released(c, i + 1)
<1>1. SUFFICES ASSUME NEW j \in i + 1 .. Len(c), c[j] = c[i] PROVE FALSE
  BY DEF Released
<1>2. j \in 1 .. Len(c) /\ j # i
  OBVIOUS
<1> QED
  BY <1>1, <1>2

\* What a function's being well formed says of its lists and its annotation.
LEMMA Lists ==
  ASSUME AllWellFormed, NEW f \in Functions
  PROVE  /\ Len(Code[f].body) \in Nat
         /\ Len(Code[f].cleanup) \in Nat
         /\ Holding[f][1] = {}
<1>1. WellFormed(Code[f], Holding[f], Lost[f])
  BY DEF AllWellFormed
<1>2. Len(Code[f].body) \in Nat /\ Len(Code[f].cleanup) \in Nat
  BY <1>1 DEF WellFormed
<1>3. Holding[f][1] = {}
  BY <1>1 DEF WellFormed, AnnotationHolds
<1> QED
  BY <1>2, <1>3

-----------------------------------------------------------------------------
(* The invariant.                                                          *)

\* Nothing runs at first.
LEMMA InitInv == Init => IInv
BY DEF Init, IInv, Flags, InBody, InCleanup, HeldIsNamed

\* A call begins with nothing held, as its annotation does.
LEMMA CallInv ==
  ASSUME AllWellFormed, IInv, NEW f \in Functions, Call(f)
  PROVE  IInv'
<1>1. /\ fn' = f /\ part' = "body" /\ at' = 1 /\ held' = {}
      /\ pending' = FALSE /\ value' = FALSE
      /\ failed' = FALSE /\ verified' = FALSE
  BY DEF Call
<1>2. 1 \in 1 .. Len(Code[f].body) + 1 /\ Holding[f][1] = {}
  BY Lists
<1>3. Flags'
  BY <1>1 DEF Flags
<1>4. InBody'
  BY <1>1, <1>2 DEF InBody, Body
<1>5. InCleanup'
  BY <1>1 DEF InCleanup
<1>6. HeldIsNamed'
  BY <1>1 DEF HeldIsNamed
<1> QED
  BY <1>3, <1>4, <1>5, <1>6 DEF IInv

\* A step that succeeds keeps to the annotation.
LEMMA SucceedInv ==
  ASSUME AllWellFormed, IInv, Succeed
  PROVE  IInv'
<1>1. /\ fn \in Functions /\ fn # Idle /\ part = "body" /\ failed = FALSE
      /\ fn' = fn /\ part' = part /\ failed' = failed /\ pending' = pending
      /\ held = Holding[fn][at] /\ at \in 1 .. Len(Body) + 1 /\ at <= Len(Body)
      /\ held' = After(Body[at], held) /\ at' = at + 1
      /\ Body[at].op # "branch"
  BY DEF Succeed, Running, IInv, Flags, InBody
<1>2. Len(Body) \in Nat
  BY <1>1, Lists DEF Body
<1>3. at \in 1 .. Len(Body) /\ at + 1 \in 1 .. Len(Body) + 1
  BY <1>1, <1>2
<1>4. Holding[fn][at + 1] = After(Body[at], Holding[fn][at])
  BY <1>1, <1>3 DEF AllWellFormed, WellFormed, AnnotationHolds, Body
<1>5. Flags'
  <2>1. value' \in BOOLEAN /\ verified' \in BOOLEAN
    BY Zenon DEF Succeed
  <2> QED
    BY <1>1, <2>1 DEF IInv, Flags
<1>6. InBody'
  BY <1>1, <1>3, <1>4 DEF InBody, Body
<1>7. InCleanup'
  BY <1>1 DEF InCleanup
<1>8. HeldIsNamed'
  <2>1. held \subseteq Resources(fn)
    BY <1>1 DEF IInv, HeldIsNamed
  <2>2. Body[at].res \in Resources(fn)
    BY <1>3 DEF Resources, Body
  <2>3. held' \subseteq Resources(fn)
    BY <1>1, <2>1, <2>2 DEF After
  <2> QED
    BY <1>1, <2>3 DEF HeldIsNamed, Resources
<1> QED
  BY <1>5, <1>6, <1>7, <1>8 DEF IInv

\* Wherever a loop goes, the annotation says what is held already.
LEMMA JumpInv ==
  ASSUME AllWellFormed, IInv, Jump
  PROVE  IInv'
<1>1. /\ fn \in Functions /\ fn # Idle /\ part = "body" /\ failed = FALSE
      /\ UNCHANGED <<fn, part, held, pending, value, failed, verified>>
      /\ held = Holding[fn][at] /\ at \in 1 .. Len(Body) + 1 /\ at <= Len(Body)
      /\ Body[at].op = "branch"
  BY DEF Jump, Running, IInv, Flags, InBody
<1>2. PICK d \in Body[at].jumps : at' = at + d
  BY DEF Jump
<1>3. Len(Body) \in Nat
  BY <1>1, Lists DEF Body
<1>4. at \in 1 .. Len(Body)
  BY <1>1, <1>3
<1>5. at + d \in 1 .. Len(Body) + 1 /\ Holding[fn][at + d] = Holding[fn][at]
  BY <1>1, <1>4 DEF AllWellFormed, WellFormed, AnnotationHolds, Body
<1>6. Flags'
  BY <1>1 DEF IInv, Flags
<1>7. InBody'
  BY <1>1, <1>2, <1>5 DEF InBody, Body
<1>8. InCleanup'
  BY <1>1 DEF InCleanup
<1>9. HeldIsNamed'
  BY <1>1 DEF IInv, HeldIsNamed, Resources
<1> QED
  BY <1>6, <1>7, <1>8, <1>9 DEF IInv

\* Every label that a failure goes to fits what is held there.
LEMMA FailInv ==
  ASSUME AllWellFormed, IInv, Fail
  PROVE  IInv'
<1> DEFINE to == LabelAt(Cleanup, Body[at].to)
           rest == held \ Body[at].drop
<1>1. /\ fn \in Functions /\ fn # Idle /\ part = "body"
      /\ fn' = fn /\ part' = "cleanup" /\ at' = to /\ held' = rest
      /\ held = Holding[fn][at] /\ at \in 1 .. Len(Body) + 1 /\ at <= Len(Body)
      /\ Body[at].op \in Failing
  BY DEF Fail, Running, IInv, Flags, InBody
<1>2. failed' = TRUE
  BY DEF Fail
<1>3. Len(Body) \in Nat
  BY <1>1, Lists DEF Body
<1>4. at \in 1 .. Len(Body)
  BY <1>1, <1>3
<1>5. ExitReleases(Code[fn], rest, to, Lost[fn].failed \cup Code[fn].refs)
  BY <1>1, <1>4 DEF AllWellFormed, WellFormed, Body, Cleanup
<1>6. /\ to \in 1 .. Len(Cleanup) + 1
      /\ Released(Cleanup, to) \subseteq rest
      /\ rest \ Released(Cleanup, to) \subseteq Lost[fn].failed \cup Code[fn].refs
  BY <1>5 DEF ExitReleases, Cleanup
<1>7. Flags'
  <2>1. pending' = (Body[at].op \in Throwing)
    BY Zenon DEF Fail
  <2>2. pending' \in BOOLEAN
    <3>1. CASE Body[at].op \in Throwing
      BY <2>1, <3>1
    <3>2. CASE Body[at].op \notin Throwing
      BY <2>1, <3>2
    <3> QED
      BY <3>1, <3>2
  <2>3. value' = value /\ verified' = verified
    BY DEF Fail
  <2> QED
    BY <1>1, <1>2, <2>2, <2>3 DEF IInv, Flags
<1>8. InBody'
  BY <1>1 DEF InBody
<1>9. InCleanup'
  <2>1. Cleanup' = Cleanup
    BY <1>1 DEF Cleanup
  <2>2. MayLeave(fn)' = Lost[fn].failed \cup Code[fn].refs
    BY <1>1, <1>2 DEF MayLeave
  <2>3. /\ at' \in 1 .. Len(Cleanup) + 1
        /\ Released(Cleanup, at') \subseteq held'
        /\ held' \ Released(Cleanup, at') \subseteq Lost[fn].failed \cup Code[fn].refs
    BY <1>1, <1>6
  <2> HIDE DEF to, rest
  <2> QED
    BY <2>1, <2>2, <2>3 DEF InCleanup
<1>10. HeldIsNamed'
  BY <1>1 DEF IInv, HeldIsNamed, Resources
<1> QED
  BY <1>7, <1>8, <1>9, <1>10 DEF IInv

\* The end of the steps fits the whole of the cleanup.
LEMMA FallThroughInv ==
  ASSUME AllWellFormed, IInv, FallThrough
  PROVE  IInv'
<1>1. /\ fn \in Functions /\ fn # Idle /\ part = "body" /\ failed = FALSE
      /\ part' = "cleanup" /\ at' = 1
      /\ UNCHANGED <<fn, held, pending, value, failed, verified>>
      /\ held = Holding[fn][at] /\ at \in 1 .. Len(Body) + 1 /\ at > Len(Body)
  BY DEF FallThrough, IInv, Flags, InBody
<1>2. Len(Body) \in Nat
  BY <1>1, Lists DEF Body
<1>3. at = Len(Body) + 1
  BY <1>1, <1>2
<1>4. ExitReleases(Code[fn], held, 1, Lost[fn].passed \cup Code[fn].refs)
  BY <1>1, <1>3 DEF AllWellFormed, WellFormed, Body
<1>5. Flags'
  BY <1>1 DEF IInv, Flags
<1>6. InBody'
  BY <1>1 DEF InBody
<1>7. InCleanup'
  <2>1. Cleanup' = Cleanup
    BY <1>1 DEF Cleanup
  <2>2. MayLeave(fn)' = Lost[fn].passed \cup Code[fn].refs
    BY <1>1 DEF MayLeave
  <2> QED
    BY <1>1, <1>4, <2>1, <2>2 DEF InCleanup, ExitReleases, Cleanup
<1>8. HeldIsNamed'
  BY <1>1 DEF IInv, HeldIsNamed, Resources
<1> QED
  BY <1>5, <1>6, <1>7, <1>8 DEF IInv

\* A release takes one resource out of what is held and of what is to be
\* released.
LEMMA ReleaseInv ==
  ASSUME AllWellFormed, IInv, Release
  PROVE  IInv'
<1>1. /\ fn \in Functions /\ fn # Idle /\ part = "cleanup"
      /\ UNCHANGED <<fn, part, pending, value, failed, verified>>
      /\ at \in 1 .. Len(Cleanup) + 1 /\ at <= Len(Cleanup)
      /\ at' = at + 1 /\ held' = held \ {Cleanup[at]}
      /\ Released(Cleanup, at) \subseteq held
      /\ held \ Released(Cleanup, at) \subseteq MayLeave(fn)
  BY DEF Release, IInv, Flags, InCleanup
<1>2. /\ Len(Cleanup) \in Nat
      /\ \A i, j \in 1 .. Len(Cleanup) : Cleanup[i] = Cleanup[j] => i = j
  BY <1>1, Lists DEF Cleanup, AllWellFormed, WellFormed
<1>3. at \in 1 .. Len(Cleanup) /\ at + 1 \in 1 .. Len(Cleanup) + 1
  BY <1>1, <1>2
<1>4. Released(Cleanup, at) = {Cleanup[at]} \cup Released(Cleanup, at + 1)
  BY <1>2, <1>3, ReleasedNext
<1>5. Cleanup[at] \notin Released(Cleanup, at + 1)
  BY <1>2, <1>3, ReleasedOnce
<1>6. /\ Released(Cleanup, at + 1) \subseteq held'
      /\ held' \ Released(Cleanup, at + 1) \subseteq MayLeave(fn)
  BY <1>1, <1>4, <1>5
<1>7. Flags'
  BY <1>1 DEF IInv, Flags
<1>8. InBody'
  BY <1>1 DEF InBody
<1>9. InCleanup'
  <2>1. Cleanup' = Cleanup /\ MayLeave(fn)' = MayLeave(fn)
    BY <1>1 DEF Cleanup, MayLeave
  <2> QED
    BY <1>1, <1>3, <1>6, <2>1 DEF InCleanup
<1>10. HeldIsNamed'
  BY <1>1 DEF IInv, HeldIsNamed, Resources
<1> QED
  BY <1>7, <1>8, <1>9, <1>10 DEF IInv

\* After a return nothing runs.
LEMMA ReturnInv ==
  ASSUME IInv, Return
  PROVE  IInv'
BY DEF Return, IInv, Flags, InBody, InCleanup, HeldIsNamed

\* All steps together.
LEMMA StepInv ==
  ASSUME AllWellFormed, IInv, [Next]_vars
  PROVE  IInv'
<1>1. CASE UNCHANGED vars
  BY <1>1 DEF vars, IInv, Flags, InBody, InCleanup, HeldIsNamed,
              Body, Cleanup, MayLeave, Resources
<1>2. CASE Next
  BY <1>2, CallInv, SucceedInv, JumpInv, FailInv, FallThroughInv, ReleaseInv,
     ReturnInv DEF Next
<1> QED
  BY <1>1, <1>2

(* What follows from it.                                                   *)

\* No release of a context or buffer that is not held, after any failure of
\* any step (NativeCall!ReleasesHeld).
LEMMA InvReleasesHeld == ASSUME AllWellFormed, IInv PROVE ReleasesHeld
<1>1. SUFFICES ASSUME fn # Idle, part = "cleanup", at <= Len(Cleanup)
               PROVE  Cleanup[at] \in held
  BY DEF ReleasesHeld
<1>2. fn \in Functions /\ at \in 1 .. Len(Cleanup) + 1
      /\ Released(Cleanup, at) \subseteq held
  BY <1>1 DEF IInv, Flags, InCleanup
<1>3. Len(Cleanup) \in Nat
  BY <1>2, Lists DEF Cleanup
<1>4. at \in 1 .. Len(Cleanup)
  BY <1>1, <1>2, <1>3
<1> QED
  BY <1>2, <1>3, <1>4, ReleasedNext

\* What a call leaves behind is what is known to be lost
\* (NativeCall!LostIsKnown).
LEMMA InvLostIsKnown == ASSUME AllWellFormed, IInv PROVE LostIsKnown
<1>1. SUFFICES ASSUME Returning
               PROVE  LeftBy(fn) \subseteq
                        (IF failed THEN Lost[fn].failed ELSE Lost[fn].passed)
  BY DEF LostIsKnown
<1>2. /\ fn \in Functions /\ at \in 1 .. Len(Cleanup) + 1 /\ at > Len(Cleanup)
      /\ held \ Released(Cleanup, at) \subseteq MayLeave(fn)
  BY <1>1 DEF IInv, Flags, InCleanup, Returning
<1>3. Len(Cleanup) \in Nat
  BY <1>2, Lists DEF Cleanup
<1>4. Released(Cleanup, at) = {}
  <2>1. at \in Int
    BY <1>2, <1>3
  <2> QED
    BY <1>2, <1>3, <2>1, ReleasedEnd
<1> QED
  BY <1>2, <1>4 DEF LeftBy, MayLeave

\* The types follow (NativeCall!TypeOK).
LEMMA InvTypeOK == IInv => TypeOK
BY DEF IInv, Flags, InBody, InCleanup, HeldIsNamed, TypeOK

-----------------------------------------------------------------------------
(* What a call reports, and what it decrypts.                              *)

\* What the invariant says of a step that is about to be taken.
LEMMA AtStep ==
  ASSUME AllWellFormed, IInv, Running
  PROVE  /\ fn \in Functions /\ failed = FALSE
         /\ at \in 1 .. Len(Code[fn].body) /\ at \in Nat \ {0}
<1>1. /\ fn \in Functions /\ failed = FALSE
      /\ at \in 1 .. Len(Body) + 1 /\ at <= Len(Body)
  BY DEF Running, IInv, Flags, InBody
<1>2. Len(Body) \in Nat
  BY <1>1, Lists DEF Body
<1> QED
  BY <1>1, <1>2 DEF Body

\* Before the first step no value is assigned and no MAC compared.
LEMMA CallReports ==
  ASSUME NEW f \in Functions, Call(f)
  PROVE  ReportInv' /\ VerifiedInv'
<1>1. /\ part' = "body" /\ at' = 1 /\ pending' = FALSE /\ value' = FALSE
  BY DEF Call
<1>2. ReportInv'
  BY <1>1, BeforeFirst DEF ReportInv
<1>3. VerifiedInv'
  BY <1>1, BeforeFirst DEF VerifiedInv
<1> QED
  BY <1>2, <1>3

\* The value is assigned by the steps that are for it, and only by them.
LEMMA SucceedReports ==
  ASSUME AllWellFormed, IInv, ReportInv, Succeed
  PROVE  ReportInv'
<1>1. /\ fn # Idle /\ part = "body" /\ fn' = fn /\ part' = part
      /\ pending' = pending /\ at' = at + 1
  BY DEF Succeed, Running
<1>2. at \in Nat \ {0}
  BY AtStep DEF Succeed
<1>3. Before(Code[fn], "result", at + 1)
        <=> (Before(Code[fn], "result", at) \/ Body[at].op = "result")
  BY <1>2, BeforeNext DEF Body
<1>4. value' = (value \/ Body[at].op = "result")
  BY Zenon DEF Succeed
<1>5. pending = FALSE /\ (value <=> Before(Code[fn], "result", at))
  BY <1>1 DEF ReportInv
<1>6. value' <=> Before(Code[fn], "result", at + 1)
  BY <1>3, <1>4, <1>5, Zenon
<1> QED
  BY <1>1, <1>5, <1>6 DEF ReportInv

\* A comparison that succeeds is remembered.
LEMMA SucceedVerified ==
  ASSUME AllWellFormed, IInv, VerifiedInv, Succeed
  PROVE  VerifiedInv'
<1>1. /\ fn # Idle /\ part = "body" /\ fn' = fn /\ part' = part
      /\ at' = at + 1
  BY DEF Succeed, Running
<1>2. at \in Nat \ {0}
  BY AtStep DEF Succeed
<1>3. verified' = (verified \/ Body[at].op = "verify")
  BY Zenon DEF Succeed
<1>4. SUFFICES ASSUME fn \in Authenticated, Before(Code[fn], "verify", at + 1)
               PROVE  verified'
  BY <1>1 DEF VerifiedInv
<1>5. Before(Code[fn], "verify", at) \/ Body[at].op = "verify"
  BY <1>2, <1>4, BeforeNext DEF Body
<1>6. Before(Code[fn], "verify", at) => verified
  BY <1>1, <1>4 DEF VerifiedInv
<1> QED
  BY <1>3, <1>5, <1>6, Zenon

\* No jump goes over the step that assigns the value.
LEMMA JumpReports ==
  ASSUME AllWellFormed, AllReport, IInv, ReportInv, Jump
  PROVE  ReportInv'
<1>1. /\ fn # Idle /\ part = "body" /\ Running
      /\ UNCHANGED <<fn, part, pending, value>>
      /\ Code[fn].body[at].op = "branch"
  BY DEF Jump, Running, Body
<1>2. PICK d \in Code[fn].body[at].jumps : at' = at + d
  BY DEF Jump, Body
<1>3. fn \in Functions /\ at \in 1 .. Len(Code[fn].body)
  BY <1>1, AtStep
<1>4. Before(Code[fn], "result", at + d) <=> Before(Code[fn], "result", at)
  BY <1>1, <1>2, <1>3 DEF AllReport, Reports, OnEveryPath
<1> QED
  BY <1>1, <1>2, <1>4 DEF ReportInv

\* Nor over the one that compares the MAC.
LEMMA JumpVerified ==
  ASSUME AllWellFormed, AllAuthenticate, IInv, VerifiedInv, Jump
  PROVE  VerifiedInv'
<1>1. /\ fn # Idle /\ part = "body" /\ Running
      /\ UNCHANGED <<fn, part, verified>>
      /\ Code[fn].body[at].op = "branch"
  BY DEF Jump, Running, Body
<1>2. PICK d \in Code[fn].body[at].jumps : at' = at + d
  BY DEF Jump, Body
<1>3. fn \in Functions /\ at \in 1 .. Len(Code[fn].body)
  BY <1>1, AtStep
<1>4. SUFFICES ASSUME fn \in Authenticated, Before(Code[fn], "verify", at + d)
               PROVE  verified
  BY <1>1, <1>2 DEF VerifiedInv
<1>5. OnEveryPath(Code[fn], "verify")
  BY <1>3, <1>4 DEF AllAuthenticate, Authenticates
<1>6. Before(Code[fn], "verify", at)
  BY <1>1, <1>2, <1>3, <1>4, <1>5 DEF OnEveryPath
<1> QED
  BY <1>1, <1>4, <1>6 DEF VerifiedInv

\* A failure throws, or it is an answer, given before the value is assigned.
LEMMA FailReports ==
  ASSUME AllWellFormed, AllReport, IInv, ReportInv, Fail
  PROVE  ReportInv'
<1>1. /\ fn # Idle /\ part = "body" /\ Running
      /\ fn' = fn /\ part' = "cleanup" /\ failed' = TRUE /\ value' = value
  BY DEF Fail, Running
<1>2. Code[fn].body[at].op \in Failing
  BY DEF Fail, Body
<1>3. pending' = (Code[fn].body[at].op \in Throwing)
  BY Zenon DEF Fail, Body
<1>4. fn \in Functions /\ at \in 1 .. Len(Code[fn].body)
  BY <1>1, AtStep
<1>5. pending' \/ ~value'
  <2>1. CASE Code[fn].body[at].op = "quiet"
    <3>1. ~Before(Code[fn], "result", at)
      BY <1>4, <2>1 DEF AllReport, Reports
    <3> QED
      BY <1>1, <3>1 DEF ReportInv
  <2>2. CASE Code[fn].body[at].op # "quiet"
    <3>1. Code[fn].body[at].op \in Throwing
      BY <1>2, <2>2 DEF Throwing
    <3> QED
      BY <1>3, <3>1, Zenon
  <2> QED
    BY <2>1, <2>2
<1> QED
  BY <1>1, <1>5 DEF ReportInv

\* At the end of the steps the value is assigned.
LEMMA FallThroughReports ==
  ASSUME AllWellFormed, AllReport, IInv, ReportInv, FallThrough
  PROVE  ReportInv'
<1>1. /\ fn \in Functions /\ fn # Idle /\ part = "body" /\ failed = FALSE
      /\ part' = "cleanup" /\ UNCHANGED <<fn, pending, value, failed>>
      /\ at \in 1 .. Len(Body) + 1 /\ at > Len(Body)
  BY DEF FallThrough, IInv, Flags, InBody
<1>2. Len(Body) \in Nat
  BY <1>1, Lists DEF Body
<1>3. at = Len(Code[fn].body) + 1
  BY <1>1, <1>2 DEF Body
<1>4. Before(Code[fn], "result", at)
  BY <1>1, <1>3 DEF AllReport, Reports
<1> QED
  BY <1>1, <1>4 DEF ReportInv

\* A function that leaves its steps has nothing left to verify.
LEMMA LeaveVerified ==
  ASSUME Fail \/ FallThrough
  PROVE  VerifiedInv'
BY DEF Fail, FallThrough, VerifiedInv

\* Nothing runs at first.
LEMMA InitReports == Init => ReportInv /\ VerifiedInv
BY DEF Init, ReportInv, VerifiedInv

\* All steps together, for the value.
LEMMA StepReports ==
  ASSUME AllWellFormed, AllReport, IInv, ReportInv, [Next]_vars
  PROVE  ReportInv'
<1>1. CASE Release \/ Return \/ UNCHANGED vars
  BY <1>1 DEF Release, Return, vars, ReportInv
<1> QED
  BY <1>1, CallReports, SucceedReports, JumpReports, FailReports,
     FallThroughReports DEF Next

\* All steps together, for the MAC.
LEMMA StepVerified ==
  ASSUME AllWellFormed, AllAuthenticate, IInv, VerifiedInv, [Next]_vars
  PROVE  VerifiedInv'
<1>1. CASE Release \/ Return \/ UNCHANGED vars
  BY <1>1 DEF Release, Return, vars, VerifiedInv
<1> QED
  BY <1>1, CallReports, SucceedVerified, JumpVerified, LeaveVerified DEF Next

\* The caller can tell how the call ended (NativeCall!FailureIsReported).
LEMMA InvFailureIsReported == ReportInv => FailureIsReported
BY DEF ReportInv, FailureIsReported, Returning

\* The MAC was compared before the step that decrypts
\* (NativeCall!AuthenticatedFirst).
LEMMA InvAuthenticatedFirst ==
  ASSUME AllWellFormed, AllAuthenticate, IInv, VerifiedInv
  PROVE  AuthenticatedFirst
<1>1. SUFFICES ASSUME fn \in Authenticated, Running, Body[at].op = "decrypt"
               PROVE  verified
  BY DEF AuthenticatedFirst
<1>2. fn \in Functions /\ at \in 1 .. Len(Code[fn].body)
  BY <1>1, AtStep
<1>3. Before(Code[fn], "verify", at)
  BY <1>1, <1>2 DEF AllAuthenticate, Authenticates, Body
<1> QED
  BY <1>1, <1>3 DEF VerifiedInv, Running

-----------------------------------------------------------------------------
(* The theorems.                                                           *)

\* The invariant holds of every table of well formed functions.
THEOREM Invariance == AllWellFormed => (Spec => []IInv)
<1> SUFFICES ASSUME AllWellFormed PROVE Spec => []IInv
  OBVIOUS
<1>1. IInv /\ [Next]_vars => IInv'
  BY StepInv
<1> QED
  BY InitInv, <1>1, PTL DEF Spec

\* The variables have their types: the place is one of the function's steps
\* or releases, and only its own resources are held.
THEOREM TypeCorrect == AllWellFormed => (Spec => []TypeOK)
<1> SUFFICES ASSUME AllWellFormed PROVE Spec => []TypeOK
  OBVIOUS
<1> QED
  BY Invariance, InvTypeOK, PTL

\* Whatever step of whatever function fails, no exit releases what it does
\* not hold: no buffer of vccrypt is disposed uninitialized or twice.
THEOREM ReleasesOnlyHeld == AllWellFormed => (Spec => []ReleasesHeld)
<1> SUFFICES ASSUME AllWellFormed PROVE Spec => []ReleasesHeld
  OBVIOUS
<1>1. IInv => ReleasesHeld
  BY InvReleasesHeld
<1> QED
  BY Invariance, <1>1, PTL

\* And no call leaves behind more than what the table says is lost.
THEOREM LosesOnlyKnown == AllWellFormed => (Spec => []LostIsKnown)
<1> SUFFICES ASSUME AllWellFormed PROVE Spec => []LostIsKnown
  OBVIOUS
<1>1. IInv => LostIsKnown
  BY InvLostIsKnown
<1> QED
  BY Invariance, <1>1, PTL

\* Whatever step fails, the caller can tell: a call in which every step
\* succeeded returns a value and no exception; one in which a step failed
\* throws or, if the failure is an answer, returns no value.
THEOREM ReportsFailure ==
  AllWellFormed /\ AllReport => (Spec => []FailureIsReported)
<1> SUFFICES ASSUME AllWellFormed, AllReport
             PROVE  Spec => []FailureIsReported
  OBVIOUS
<1>1. IInv /\ ReportInv /\ [Next]_vars => ReportInv'
  BY StepReports
<1>2. Init => ReportInv
  BY InitReports
<1> QED
  BY Invariance, <1>1, <1>2, InvFailureIsReported, PTL DEF Spec

\* Where a MAC authenticates the input, no data of it are decrypted before the
\* MAC was found right, whichever way the steps and loops before it went.
THEOREM AuthenticatesFirst ==
  AllWellFormed /\ AllAuthenticate => (Spec => []AuthenticatedFirst)
<1> SUFFICES ASSUME AllWellFormed, AllAuthenticate
             PROVE  Spec => []AuthenticatedFirst
  OBVIOUS
<1>1. IInv /\ VerifiedInv /\ [Next]_vars => VerifiedInv'
  BY StepVerified
<1>2. Init => VerifiedInv
  BY InitReports
<1>3. IInv /\ VerifiedInv => AuthenticatedFirst
  BY InvAuthenticatedFirst
<1> QED
  BY Invariance, <1>1, <1>2, <1>3, PTL DEF Spec

-----------------------------------------------------------------------------
(* The functions of the code.                                              *)

\* The table is that of the code, with what is known to be lost.
TheCode ==
  Code = MCCode /\ Lost = MCLost /\ Authenticated = MCAuthenticated

\* The functions that lose something.
Losing == Hmacs \cup Streams \cup {"CertAttest"}

\* What calls of the functions lose: the HMAC functions their context, the
\* stream functions, when they fail, the elements of outputArray, and the
\* attestation, when it fails, the signer's encryption key.
LEMMA LostIs ==
  ASSUME NEW f \in DOMAIN MCCode
  PROVE  /\ f \in Hmacs =>
              MCLost[f].failed = {"mac"} /\ MCLost[f].passed = {"mac"}
         /\ f \in Streams =>
              MCLost[f].failed = {"outputArrayData"} /\ MCLost[f].passed = {}
         /\ f = "CertAttest" =>
              MCLost[f].failed = {"pubenckey_buffer"} /\ MCLost[f].passed = {}
         /\ f \notin Losing =>
              MCLost[f].failed = {} /\ MCLost[f].passed = {}
<1>1. MCLost[f] = [failed |-> IF f \in Hmacs THEN {"mac"}
                             ELSE IF f \in Streams THEN {"outputArrayData"}
                             ELSE IF f = "CertAttest" THEN {"pubenckey_buffer"}
                             ELSE {},
                  passed |-> IF f \in Hmacs THEN {"mac"} ELSE {}]
  BY DEF MCLost
<1>2. Hmacs \cap Streams = {} /\ "CertAttest" \notin Hmacs \cup Streams
  BY DEF Hmacs, Streams
<1> QED
  BY <1>1, <1>2 DEF Losing

\* A function is proper if the lists that it is made of are, with what is
\* known to be lost.
LEMMA OtherIsProper ==
  ASSUME NEW f \in DOMAIN MCCode, f \notin Losing, NEW need,
         Proper(MCCode[f], {}, {}, need)
  PROVE  Proper(MCCode[f], MCLost[f].failed, MCLost[f].passed, need)
BY LostIs

\* A stream loses the array of its output when it fails,
LEMMA StreamIsProper ==
  ASSUME NEW f \in DOMAIN MCCode, f \in Streams, NEW need,
         Proper(MCCode[f], {"outputArrayData"}, {}, need)
  PROVE  Proper(MCCode[f], MCLost[f].failed, MCLost[f].passed, need)
BY LostIs

\* and an HMAC its context always.
LEMMA MacIsProper ==
  ASSUME NEW f \in DOMAIN MCCode, f \in Hmacs, NEW need,
         Proper(MCCode[f], {"mac"}, {"mac"}, need)
  PROVE  Proper(MCCode[f], MCLost[f].failed, MCLost[f].passed, need)
BY LostIs

\* A function of the table, under the marks that its decryptions need.
Known(f, need) ==
  /\ f \in DOMAIN MCCode
  /\ Proper(MCCode[f], MCLost[f].failed, MCLost[f].passed, need)

\* The ciphers and the MACs of package crypt,
LEMMA SimpleCiphersAreKnown ==
  /\ Known("SimpleEncrypt", {})
  /\ Known("SimpleDecrypt", {"verify"})
  /\ Known("GenericEncrypt", {})
  /\ Known("GenericDecrypt", {})
  /\ Known("Hmac", {})
  /\ Known("HmacArr", {})
<1>1. Known("SimpleEncrypt", {})
  <2>1. /\ "SimpleEncrypt" \in DOMAIN MCCode
        /\ MCCode["SimpleEncrypt"] = SimpleStreamCipher_encrypt
    BY DEF MCCode
  <2>2. "SimpleEncrypt" \notin Losing
    BY DEF Losing, Hmacs, Streams
  <2>3. Proper(SimpleStreamCipher_encrypt, {}, {}, {})
    BY SimpleEncryptIsProper
  <2> QED
    BY <2>1, <2>2, <2>3, OtherIsProper DEF Known
<1>2. Known("SimpleDecrypt", {"verify"})
  <2>1. /\ "SimpleDecrypt" \in DOMAIN MCCode
        /\ MCCode["SimpleDecrypt"] = SimpleStreamCipher_decrypt
    BY DEF MCCode
  <2>2. "SimpleDecrypt" \notin Losing
    BY DEF Losing, Hmacs, Streams
  <2>3. Proper(SimpleStreamCipher_decrypt, {}, {}, {"verify"})
    BY SimpleDecryptIsProper
  <2> QED
    BY <2>1, <2>2, <2>3, OtherIsProper DEF Known
<1>3. Known("GenericEncrypt", {})
  <2>1. /\ "GenericEncrypt" \in DOMAIN MCCode
        /\ MCCode["GenericEncrypt"] = GenericStreamCipher_encrypt
    BY DEF MCCode
  <2>2. "GenericEncrypt" \in Streams
    BY DEF Hmacs, Streams
  <2>3. Proper(GenericStreamCipher_encrypt, {"outputArrayData"}, {}, {})
    BY EncryptStreamIsProper DEF GenericStreamCipher_encrypt
  <2> QED
    BY <2>1, <2>2, <2>3, StreamIsProper DEF Known
<1>4. Known("GenericDecrypt", {})
  <2>1. /\ "GenericDecrypt" \in DOMAIN MCCode
        /\ MCCode["GenericDecrypt"] = GenericStreamCipher_decrypt
    BY DEF MCCode
  <2>2. "GenericDecrypt" \in Streams
    BY DEF Hmacs, Streams
  <2>3. Proper(GenericStreamCipher_decrypt, {"outputArrayData"}, {}, {})
    BY DecryptStreamIsProper DEF GenericStreamCipher_decrypt
  <2> QED
    BY <2>1, <2>2, <2>3, StreamIsProper DEF Known
<1>5. Known("Hmac", {})
  <2>1. "Hmac" \in DOMAIN MCCode /\ MCCode["Hmac"] = HMAC_digest
    BY DEF MCCode
  <2>2. "Hmac" \in Hmacs
    BY DEF Hmacs
  <2>3. Proper(HMAC_digest, {"mac"}, {"mac"}, {})
    BY HmacIsProper
  <2> QED
    BY <2>1, <2>2, <2>3, MacIsProper DEF Known
<1>6. Known("HmacArr", {})
  <2>1. "HmacArr" \in DOMAIN MCCode /\ MCCode["HmacArr"] = HMAC_digestArr
    BY DEF MCCode
  <2>2. "HmacArr" \in Hmacs
    BY DEF Hmacs
  <2>3. Proper(HMAC_digestArr, {"mac"}, {"mac"}, {})
    BY HmacArrIsProper
  <2> QED
    BY <2>1, <2>2, <2>3, MacIsProper DEF Known
<1> QED
  BY <1>1, <1>2, <1>3, <1>4, <1>5, <1>6

\* its keys and signatures,
LEMMA KeysAreKnown ==
  /\ Known("EncryptionPair", {})
  /\ Known("SigningPair", {})
  /\ Known("KeyFromPassword", {})
  /\ Known("RandomKey", {})
  /\ Known("VerifyKeySize", {})
  /\ Known("Sign", {})
  /\ Known("Verify", {})
<1>1. Known("EncryptionPair", {})
  <2>1. /\ "EncryptionPair" \in DOMAIN MCCode
        /\ MCCode["EncryptionPair"] = EncryptionKeyPair_generate
    BY DEF MCCode
  <2>2. "EncryptionPair" \notin Losing
    BY DEF Losing, Hmacs, Streams
  <2>3. Proper(EncryptionKeyPair_generate, {}, {}, {})
    BY EncryptionKeyPairIsProper
  <2> QED
    BY <2>1, <2>2, <2>3, OtherIsProper DEF Known
<1>2. Known("SigningPair", {})
  <2>1. "SigningPair" \in DOMAIN MCCode /\ MCCode["SigningPair"] = SigningKeyPair_generate
    BY DEF MCCode
  <2>2. "SigningPair" \notin Losing
    BY DEF Losing, Hmacs, Streams
  <2>3. Proper(SigningKeyPair_generate, {}, {}, {})
    BY SigningKeyPairIsProper
  <2> QED
    BY <2>1, <2>2, <2>3, OtherIsProper DEF Known
<1>3. Known("KeyFromPassword", {})
  <2>1. /\ "KeyFromPassword" \in DOMAIN MCCode
        /\ MCCode["KeyFromPassword"] = Key_createFromPassword
    BY DEF MCCode
  <2>2. "KeyFromPassword" \notin Losing
    BY DEF Losing, Hmacs, Streams
  <2>3. Proper(Key_createFromPassword, {}, {}, {})
    BY KeyFromPasswordIsProper
  <2> QED
    BY <2>1, <2>2, <2>3, OtherIsProper DEF Known
<1>4. Known("RandomKey", {})
  <2>1. "RandomKey" \in DOMAIN MCCode /\ MCCode["RandomKey"] = Key_createRandom
    BY DEF MCCode
  <2>2. "RandomKey" \notin Losing
    BY DEF Losing, Hmacs, Streams
  <2>3. Proper(Key_createRandom, {}, {}, {})
    BY RandomKeyIsProper
  <2> QED
    BY <2>1, <2>2, <2>3, OtherIsProper DEF Known
<1>5. Known("VerifyKeySize", {})
  <2>1. "VerifyKeySize" \in DOMAIN MCCode /\ MCCode["VerifyKeySize"] = Key_verifyKeySize
    BY DEF MCCode
  <2>2. "VerifyKeySize" \notin Losing
    BY DEF Losing, Hmacs, Streams
  <2>3. Proper(Key_verifyKeySize, {}, {}, {})
    BY VerifyKeySizeIsProper
  <2> QED
    BY <2>1, <2>2, <2>3, OtherIsProper DEF Known
<1>6. Known("Sign", {})
  <2>1. "Sign" \in DOMAIN MCCode /\ MCCode["Sign"] = SigningPrivateKey_sign
    BY DEF MCCode
  <2>2. "Sign" \notin Losing
    BY DEF Losing, Hmacs, Streams
  <2>3. Proper(SigningPrivateKey_sign, {}, {}, {})
    BY SignIsProper
  <2> QED
    BY <2>1, <2>2, <2>3, OtherIsProper DEF Known
<1>7. Known("Verify", {})
  <2>1. "Verify" \in DOMAIN MCCode /\ MCCode["Verify"] = SigningPublicKey_verify
    BY DEF MCCode
  <2>2. "Verify" \notin Losing
    BY DEF Losing, Hmacs, Streams
  <2>3. Proper(SigningPublicKey_verify, {}, {}, {})
    BY VerifyIsProper
  <2> QED
    BY <2>1, <2>2, <2>3, OtherIsProper DEF Known
<1> QED
  BY <1>1, <1>2, <1>3, <1>4, <1>5, <1>6, <1>7

\* package cert,
LEMMA CertificatesAreKnown ==
  /\ Known("CertEmit", {})
  /\ Known("CertSign", {})
  /\ Known("CertParse", {})
  /\ Known("CertAttest", {})
  /\ Known("CertEncryptData", {})
  /\ Known("CertDecryptData", {})
  /\ Known("CertEncryptKey", {})
  /\ Known("CertDecryptKey", {})
  /\ Known("CertGenerateKey", {})
<1>1. Known("CertEmit", {})
  <2>1. "CertEmit" \in DOMAIN MCCode /\ MCCode["CertEmit"] = CertificateBuilder_emit
    BY DEF MCCode
  <2>2. "CertEmit" \notin Losing
    BY DEF Losing, Hmacs, Streams
  <2>3. Proper(CertificateBuilder_emit, {}, {}, {})
    BY EmitIsProper
  <2> QED
    BY <2>1, <2>2, <2>3, OtherIsProper DEF Known
<1>2. Known("CertSign", {})
  <2>1. "CertSign" \in DOMAIN MCCode /\ MCCode["CertSign"] = CertificateBuilder_sign
    BY DEF MCCode
  <2>2. "CertSign" \notin Losing
    BY DEF Losing, Hmacs, Streams
  <2>3. Proper(CertificateBuilder_sign, {}, {}, {})
    BY CertSignIsProper
  <2> QED
    BY <2>1, <2>2, <2>3, OtherIsProper DEF Known
<1>3. Known("CertParse", {})
  <2>1. "CertParse" \in DOMAIN MCCode /\ MCCode["CertParse"] = CertificateParser_parse
    BY DEF MCCode
  <2>2. "CertParse" \notin Losing
    BY DEF Losing, Hmacs, Streams
  <2>3. Proper(CertificateParser_parse, {}, {}, {})
    BY ParseIsProper
  <2> QED
    BY <2>1, <2>2, <2>3, OtherIsProper DEF Known
<1>4. Known("CertAttest", {})
  <2>1. "CertAttest" \in DOMAIN MCCode /\ MCCode["CertAttest"] = CertificateParser_attest
    BY DEF MCCode
  <2>2. /\ MCLost["CertAttest"].failed = {"pubenckey_buffer"}
        /\ MCLost["CertAttest"].passed = {}
    BY <2>1, LostIs
  <2>3. Proper(CertificateParser_attest, {"pubenckey_buffer"}, {}, {})
    BY AttestIsProper
  <2> QED
    BY <2>1, <2>2, <2>3 DEF Known
<1>5. Known("CertEncryptData", {})
  <2>1. /\ "CertEncryptData" \in DOMAIN MCCode
        /\ MCCode["CertEncryptData"] = EncryptedCertificateBuilder_encryptData
    BY DEF MCCode
  <2>2. "CertEncryptData" \in Streams
    BY DEF Hmacs, Streams
  <2>3. Proper(EncryptedCertificateBuilder_encryptData, {"outputArrayData"}, {}, {})
    BY EncryptStreamIsProper DEF EncryptedCertificateBuilder_encryptData
  <2> QED
    BY <2>1, <2>2, <2>3, StreamIsProper DEF Known
<1>6. Known("CertDecryptData", {})
  <2>1. /\ "CertDecryptData" \in DOMAIN MCCode
        /\ MCCode["CertDecryptData"] = EncryptedCertificateReader_decrypt
    BY DEF MCCode
  <2>2. "CertDecryptData" \in Streams
    BY DEF Hmacs, Streams
  <2>3. Proper(EncryptedCertificateReader_decrypt, {"outputArrayData"}, {}, {})
    BY DecryptStreamIsProper DEF EncryptedCertificateReader_decrypt
  <2> QED
    BY <2>1, <2>2, <2>3, StreamIsProper DEF Known
<1>7. Known("CertEncryptKey", {})
  <2>1. /\ "CertEncryptKey" \in DOMAIN MCCode
        /\ MCCode["CertEncryptKey"] = EncryptedCertificateBuilder_encryptKey
    BY DEF MCCode
  <2>2. "CertEncryptKey" \notin Losing
    BY DEF Losing, Hmacs, Streams
  <2>3. Proper(EncryptedCertificateBuilder_encryptKey, {}, {}, {})
    BY EncryptKeyIsProper DEF EncryptedCertificateBuilder_encryptKey
  <2> QED
    BY <2>1, <2>2, <2>3, OtherIsProper DEF Known
<1>8. Known("CertDecryptKey", {})
  <2>1. /\ "CertDecryptKey" \in DOMAIN MCCode
        /\ MCCode["CertDecryptKey"] = EncryptedCertificateReader_decryptSecret
    BY DEF MCCode
  <2>2. "CertDecryptKey" \notin Losing
    BY DEF Losing, Hmacs, Streams
  <2>3. Proper(EncryptedCertificateReader_decryptSecret, {}, {}, {})
    BY DecryptKeyIsProper DEF EncryptedCertificateReader_decryptSecret
  <2> QED
    BY <2>1, <2>2, <2>3, OtherIsProper DEF Known
<1>9. Known("CertGenerateKey", {})
  <2>1. /\ "CertGenerateKey" \in DOMAIN MCCode
        /\ MCCode["CertGenerateKey"] = EncryptedCertificateBuilder_generateEncryptionKey
    BY DEF MCCode
  <2>2. "CertGenerateKey" \notin Losing
    BY DEF Losing, Hmacs, Streams
  <2>3. Proper(EncryptedCertificateBuilder_generateEncryptionKey, {}, {}, {})
    BY GenerateKeyIsProper DEF EncryptedCertificateBuilder_generateEncryptionKey
  <2> QED
    BY <2>1, <2>2, <2>3, OtherIsProper DEF Known
<1> QED
  BY <1>1, <1>2, <1>3, <1>4, <1>5, <1>6, <1>7, <1>8, <1>9

\* package document
LEMMA DocumentsAreKnown ==
  /\ Known("DocEncryptData", {})
  /\ Known("DocDecryptData", {})
  /\ Known("DocEncryptKey", {})
  /\ Known("DocDecryptKey", {})
  /\ Known("DocGenerateKey", {})
<1>1. Known("DocEncryptData", {})
  <2>1. /\ "DocEncryptData" \in DOMAIN MCCode
        /\ MCCode["DocEncryptData"] = EncryptedDocumentBuilder_encryptData
    BY DEF MCCode
  <2>2. "DocEncryptData" \in Streams
    BY DEF Hmacs, Streams
  <2>3. Proper(EncryptedDocumentBuilder_encryptData, {"outputArrayData"}, {}, {})
    BY EncryptStreamIsProper DEF EncryptedDocumentBuilder_encryptData
  <2> QED
    BY <2>1, <2>2, <2>3, StreamIsProper DEF Known
<1>2. Known("DocDecryptData", {})
  <2>1. /\ "DocDecryptData" \in DOMAIN MCCode
        /\ MCCode["DocDecryptData"] = EncryptedDocumentReader_decryptData
    BY DEF MCCode
  <2>2. "DocDecryptData" \in Streams
    BY DEF Hmacs, Streams
  <2>3. Proper(EncryptedDocumentReader_decryptData, {"outputArrayData"}, {}, {})
    BY DecryptStreamAtIsProper DEF EncryptedDocumentReader_decryptData
  <2> QED
    BY <2>1, <2>2, <2>3, StreamIsProper DEF Known
<1>3. Known("DocEncryptKey", {})
  <2>1. /\ "DocEncryptKey" \in DOMAIN MCCode
        /\ MCCode["DocEncryptKey"] = EncryptedDocumentBuilder_encryptKey
    BY DEF MCCode
  <2>2. "DocEncryptKey" \notin Losing
    BY DEF Losing, Hmacs, Streams
  <2>3. Proper(EncryptedDocumentBuilder_encryptKey, {}, {}, {})
    BY EncryptKeyIsProper DEF EncryptedDocumentBuilder_encryptKey
  <2> QED
    BY <2>1, <2>2, <2>3, OtherIsProper DEF Known
<1>4. Known("DocDecryptKey", {})
  <2>1. /\ "DocDecryptKey" \in DOMAIN MCCode
        /\ MCCode["DocDecryptKey"] = EncryptedDocumentReader_decryptKey
    BY DEF MCCode
  <2>2. "DocDecryptKey" \notin Losing
    BY DEF Losing, Hmacs, Streams
  <2>3. Proper(EncryptedDocumentReader_decryptKey, {}, {}, {})
    BY DecryptKeyIsProper DEF EncryptedDocumentReader_decryptKey
  <2> QED
    BY <2>1, <2>2, <2>3, OtherIsProper DEF Known
<1>5. Known("DocGenerateKey", {})
  <2>1. /\ "DocGenerateKey" \in DOMAIN MCCode
        /\ MCCode["DocGenerateKey"] = EncryptedDocumentBuilder_generateEncryptionKey
    BY DEF MCCode
  <2>2. "DocGenerateKey" \notin Losing
    BY DEF Losing, Hmacs, Streams
  <2>3. Proper(EncryptedDocumentBuilder_generateEncryptionKey, {}, {}, {})
    BY GenerateKeyIsProper DEF EncryptedDocumentBuilder_generateEncryptionKey
  <2> QED
    BY <2>1, <2>2, <2>3, OtherIsProper DEF Known
<1> QED
  BY <1>1, <1>2, <1>3, <1>4, <1>5

\* and package agentd.
LEMMA EnvelopesAreKnown ==
  /\ Known("EncryptPayload", {})
  /\ Known("DecryptHeader", {})
  /\ Known("DecryptPayload", {"verify"})
  /\ Known("SharedSecret", {})
<1>1. Known("EncryptPayload", {})
  <2>1. /\ "EncryptPayload" \in DOMAIN MCCode
        /\ MCCode["EncryptPayload"] = OuterEnvelopeWriter_encryptPayload
    BY DEF MCCode
  <2>2. "EncryptPayload" \notin Losing
    BY DEF Losing, Hmacs, Streams
  <2>3. Proper(OuterEnvelopeWriter_encryptPayload, {}, {}, {})
    BY EncryptPayloadIsProper
  <2> QED
    BY <2>1, <2>2, <2>3, OtherIsProper DEF Known
<1>2. Known("DecryptHeader", {})
  <2>1. /\ "DecryptHeader" \in DOMAIN MCCode
        /\ MCCode["DecryptHeader"] = OuterEnvelopeReader_decryptHeader
    BY DEF MCCode
  <2>2. "DecryptHeader" \notin Losing
    BY DEF Losing, Hmacs, Streams
  <2>3. Proper(OuterEnvelopeReader_decryptHeader, {}, {}, {})
    BY DecryptHeaderIsProper
  <2> QED
    BY <2>1, <2>2, <2>3, OtherIsProper DEF Known
<1>3. Known("DecryptPayload", {"verify"})
  <2>1. /\ "DecryptPayload" \in DOMAIN MCCode
        /\ MCCode["DecryptPayload"] = OuterEnvelopeReader_decryptPayload
    BY DEF MCCode
  <2>2. "DecryptPayload" \notin Losing
    BY DEF Losing, Hmacs, Streams
  <2>3. Proper(OuterEnvelopeReader_decryptPayload, {}, {}, {"verify"})
    BY DecryptPayloadIsProper
  <2> QED
    BY <2>1, <2>2, <2>3, OtherIsProper DEF Known
<1>4. Known("SharedSecret", {})
  <2>1. /\ "SharedSecret" \in DOMAIN MCCode
        /\ MCCode["SharedSecret"] = ProtocolHandlerImpl_computeSharedSecret
    BY DEF MCCode
  <2>2. "SharedSecret" \notin Losing
    BY DEF Losing, Hmacs, Streams
  <2>3. Proper(ProtocolHandlerImpl_computeSharedSecret, {}, {}, {})
    BY SharedSecretIsProper
  <2> QED
    BY <2>1, <2>2, <2>3, OtherIsProper DEF Known
<1> QED
  BY <1>1, <1>2, <1>3, <1>4

\* All of them.
LEMMA AllKnown == \A f \in DOMAIN MCCode : \E need : Known(f, need)
<1>1. DOMAIN MCCode =
        {"SimpleEncrypt",
         "SimpleDecrypt",
         "GenericEncrypt",
         "GenericDecrypt",
         "Hmac",
         "HmacArr",
         "EncryptionPair",
         "SigningPair",
         "KeyFromPassword",
         "RandomKey",
         "VerifyKeySize",
         "Sign",
         "Verify",
         "CertEmit",
         "CertSign",
         "CertParse",
         "CertAttest",
         "CertEncryptData",
         "CertDecryptData",
         "CertEncryptKey",
         "CertDecryptKey",
         "CertGenerateKey",
         "DocEncryptData",
         "DocDecryptData",
         "DocEncryptKey",
         "DocDecryptKey",
         "DocGenerateKey",
         "EncryptPayload",
         "DecryptHeader",
         "DecryptPayload",
         "SharedSecret"}
  BY DEF MCCode
<1> QED
  BY <1>1, SimpleCiphersAreKnown, KeysAreKnown, CertificatesAreKnown,
     DocumentsAreKnown, EnvelopesAreKnown, Zenon

\* The functions of the code, the resolver of an attestation and the loop over
\* the fields of a certificate with them, are well formed but for what is known
\* to be lost, report how they ended, and compare the MAC before they decrypt
\* data where it authenticates them: what the theorems above assume.
THEOREM CodeFits ==
  TheCode => AllWellFormed /\ AllReport /\ AllAuthenticate
<1> SUFFICES ASSUME TheCode PROVE AllWellFormed /\ AllReport /\ AllAuthenticate
  OBVIOUS
<1>1. ASSUME NEW f \in Functions
      PROVE  WellFormed(Code[f], Holding[f], Lost[f]) /\ Reports(Code[f])
  <2>0. f \in DOMAIN MCCode
    BY DEF TheCode, Functions
  <2>1. PICK need : Known(f, need)
    BY <2>0, AllKnown
  <2>2. Proper(MCCode[f], MCLost[f].failed, MCLost[f].passed, need)
    BY <2>1 DEF Known
  <2>3. Holding[f] = HoldingOf(MCCode[f])
    BY DEF Holding, TheCode
  <2>4. WellFormed(MCCode[f], HoldingOf(MCCode[f]), MCLost[f])
    BY <2>2, ProperIsWellFormed
  <2>5. Reports(MCCode[f])
    BY <2>2, ProperReports
  <2> QED
    BY <2>3, <2>4, <2>5 DEF TheCode
<1>2. ASSUME NEW f \in Functions \cap Authenticated
      PROVE  Authenticates(Code[f])
  <2>1. f \in {"SimpleDecrypt", "DecryptPayload"}
    BY DEF TheCode, MCAuthenticated
  <2>2. Known(f, {"verify"})
    BY <2>1, SimpleCiphersAreKnown, EnvelopesAreKnown
  <2>3. Authenticates(MCCode[f])
    BY <2>2, ProperAuthenticates DEF Known
  <2> QED
    BY <2>3 DEF TheCode
<1> QED
  BY <1>1, <1>2 DEF AllWellFormed, AllReport, AllAuthenticate

\* What was shown of well formed functions holds of all calls of all the
\* native functions: whichever steps of whichever calls fail, nothing is
\* released that is not held, nothing is left behind but what is known to be
\* lost, the caller can tell how the call ended, and no data are decrypted
\* before the MAC that authenticates them was compared.
THEOREM NativeFunctionsKeep ==
  TheCode =>
    (Spec => [](TypeOK /\ ReleasesHeld /\ LostIsKnown /\ FailureIsReported
                  /\ AuthenticatedFirst))
<1> SUFFICES ASSUME TheCode
             PROVE  Spec => [](TypeOK /\ ReleasesHeld /\ LostIsKnown
                                 /\ FailureIsReported /\ AuthenticatedFirst)
  OBVIOUS
<1>1. AllWellFormed /\ AllReport /\ AllAuthenticate
  BY CodeFits
<1>2. Spec => []TypeOK
  BY <1>1, TypeCorrect
<1>3. Spec => []ReleasesHeld
  BY <1>1, ReleasesOnlyHeld
<1>4. Spec => []LostIsKnown
  BY <1>1, LosesOnlyKnown
<1>5. Spec => []FailureIsReported
  BY <1>1, ReportsFailure
<1>6. Spec => []AuthenticatedFirst
  BY <1>1, AuthenticatesFirst
<1> QED
  BY <1>2, <1>3, <1>4, <1>5, <1>6, PTL
=============================================================================
