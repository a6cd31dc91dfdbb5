-------------------------- MODULE NativeInitProofs --------------------------
(***************************************************************************)
(* Whatever fails, and however many threads call, at most one native       *)
(* instance is completed, and what getInstance() returns is complete.      *)
(*                                                                         *)
(* The invariant says for each thread what its place in getInstance()      *)
(* implies, with the monitor for those that are inside, and for the        *)
(* instance that it is being set up by one thread as long as the library   *)
(* does not count as initialized.                                          *)
(***************************************************************************)
EXTENDS MCNativeInit, SequenceTheorems, TLAPS

\* What Complete and Throws assume of the registrations: together they set what
\* the native functions use, and the first sets what the others throw.  The
\* registrations of the code do (TheRegistrationsSetAll).
AllRegistered == Used \subseteq Members
FirstThrows == Len(Registers) >= 1 /\ Thrown \subseteq Registers[1]

Inside == {"check", "init", "load", "register", "throwNew", "assign",
           "setLoaded", "setInitialized", "leave", "throw"}
Making == {"init", "load", "register", "throwNew", "throw"}
Publishing == {"assign", "setLoaded", "setInitialized"}

\* What the first n - 1 steps of blockchainInit set.
SetBefore(n) == UNION {Registers[i] : i \in 1 .. n - 1}

ThreadOK(t) ==
  /\ pc[t] \in Inside => monitor = t
  /\ pc[t] \in Making => initialized = FALSE
  /\ own[t] = SetBefore(at[t])
  /\ pc[t] = "throwNew" => at[t] # 1
  /\ pc[t] \in Publishing => Len(instances) = 1
  /\ pc[t] \in {"setLoaded", "setInitialized"} => nativeInstance = 1
  /\ pc[t] = "setInitialized" => loaded = TRUE
  /\ pc[t] = "leave" => initialized = TRUE
  /\ pc[t] = "native" => given[t] = 1
  /\ given[t] = 1 => initialized = TRUE

SharedOK ==
  /\ instances = << >> \/ instances = <<Members>>
  /\ nativeInstance = 1 => Len(instances) = 1
  /\ loaded = TRUE => nativeInstance = 1
  /\ initialized = TRUE => loaded = TRUE
  /\ Len(instances) = 1 /\ initialized = FALSE =>
       \E t \in Threads : pc[t] \in Publishing

Types ==
  /\ monitor \in Threads \cup {None}
  /\ pc \in [Threads -> PCs]
  /\ at \in [Threads -> 1 .. Len(Registers) + 1]
  /\ own \in [Threads -> SUBSET Members]
  /\ nativeInstance \in {0, 1}
  /\ loaded \in BOOLEAN /\ initialized \in BOOLEAN
  /\ given \in [Threads -> {0, 1}]
  /\ calls \in [Threads -> 0 .. MaxCalls]

IInv == Types /\ SharedOK /\ \A t \in Threads : ThreadOK(t)

-----------------------------------------------------------------------------
(* What the steps of blockchainInit set.                                   *)

\* The registrations are a list.
LEMMA RegistersLen == Len(Registers) \in Nat
BY NativeInitAssumption

\* Nothing is set before the first registration.
LEMMA SetBeforeFirst == SetBefore(1) = {}
BY DEF SetBefore

\* Each registration adds what it sets.
LEMMA SetBeforeNext ==
  ASSUME NEW n \in 1 .. Len(Registers)
  PROVE  SetBefore(n + 1) = SetBefore(n) \cup Registers[n]
<1>1. n \in Int /\ n + 1 - 1 = n
  OBVIOUS
<1>2. 1 .. n = (1 .. n - 1) \cup {n}
  OBVIOUS
<1> QED
  BY <1>1, <1>2 DEF SetBefore

\* All of them set all the members but the field initialized.
LEMMA SetBeforeAll ==
  SetBefore(Len(Registers) + 1) \cup NativeInitialized = Members
<1>1. Len(Registers) + 1 - 1 = Len(Registers)
  BY RegistersLen
<1> QED
  BY <1>1 DEF SetBefore, Members

\* What is thrown is set from the second registration on.
LEMMA FirstIsSetBefore ==
  ASSUME FirstThrows, NEW n \in 1 .. Len(Registers) + 1, n # 1
  PROVE  Thrown \subseteq SetBefore(n)
<1>1. 1 \in 1 .. n - 1
  BY RegistersLen
<1> QED
  BY <1>1 DEF FirstThrows, SetBefore

-----------------------------------------------------------------------------
(* The invariant.                                                          *)

\* No library is loaded at first.
LEMMA InitInv == Init => IInv
<1> SUFFICES ASSUME Init PROVE IInv
  OBVIOUS
<1>1. Types
  <2>1. 1 \in 1 .. Len(Registers) + 1 /\ 0 \in 0 .. MaxCalls
    BY RegistersLen, NativeInitAssumption
  <2>2. at \in [Threads -> 1 .. Len(Registers) + 1] /\ calls \in [Threads -> 0 .. MaxCalls]
    BY <2>1 DEF Init
  <2> QED
    BY <2>2 DEF Init, Types, PCs
<1>2. SharedOK
  <2>1. instances = << >> /\ Len(instances) = 0
    BY DEF Init
  <2> QED
    BY <2>1 DEF Init, SharedOK
<1>3. ASSUME NEW t \in Threads PROVE ThreadOK(t)
  BY SetBeforeFirst DEF Init, ThreadOK, Inside, Making, Publishing
<1> QED
  BY <1>1, <1>2, <1>3 DEF IInv

\* A thread that is inside keeps the others out.
LEMMA Alone ==
  ASSUME IInv, NEW t \in Threads, pc[t] \in Inside, NEW u \in Threads, u # t
  PROVE  pc[u] \notin Inside
BY DEF IInv, ThreadOK

\* A step of one thread leaves alone what the others' places imply, if it
\* only ever completes an instance, publishes it and gives it out.
LEMMA Others ==
  ASSUME IInv, NEW t \in Threads, NEW u \in Threads, u # t,
         monitor' = monitor \/ monitor = None \/ pc[t] \in Inside,
         pc'[u] = pc[u], at'[u] = at[u], own'[u] = own[u], given'[u] = given[u],
         initialized' = initialized \/ (initialized' = TRUE /\ pc[t] \in Inside),
         UNCHANGED <<instances, nativeInstance, loaded>> \/ pc[t] \in Inside
  PROVE  ThreadOK(u)'
<1>1. ThreadOK(u)
  BY DEF IInv
<1>2. CASE pc[u] \in Inside
  <2>1. pc[t] \notin Inside
    BY <1>2, Alone
  <2>2. monitor = u /\ monitor # None
    BY <1>1, <1>2, NativeInitAssumption DEF ThreadOK
  <2> QED
    BY <1>1, <2>1, <2>2 DEF ThreadOK
<1>3. CASE pc[u] \notin Inside
  BY <1>1, <1>3 DEF ThreadOK, Inside, Making, Publishing
<1> QED
  BY <1>2, <1>3

\* What the steps of another thread leave alone of the shared state.
LEMMA SharedKept ==
  ASSUME IInv, NEW t \in Threads,
         pc[t] \notin Publishing \/ pc'[t] \in Publishing,
         \A u \in Threads : u # t => pc'[u] = pc[u],
         UNCHANGED <<instances, Fields>>
  PROVE  SharedOK'
<1>1. SharedOK
  BY DEF IInv
<1>2. ASSUME NEW u \in Threads, pc[u] \in Publishing
      PROVE  \E v \in Threads : pc'[v] \in Publishing
  <2>1. CASE u = t
    BY <1>2, <2>1
  <2>2. CASE u # t
    BY <1>2, <2>2
  <2> QED
    BY <2>1, <2>2
<1> QED
  BY <1>1, <1>2 DEF SharedOK, Fields

\* Where a thread goes, and that the others stay.
LEMMA Gone ==
  ASSUME IInv, NEW t \in Threads, NEW from, NEW to, Go(t, from, to)
  PROVE  /\ pc[t] = from /\ pc'[t] = to
         /\ \A u \in Threads : u # t => pc'[u] = pc[u]
         /\ to \in PCs => pc' \in [Threads -> PCs]
BY DEF IInv, Types, Go

\* A thread calls getInstance().
LEMMA CallInv ==
  ASSUME IInv, NEW t \in Threads, Call(t)
  PROVE  IInv'
<1>1. /\ pc[t] = "idle" /\ pc'[t] = ("enter")
      /\ \A u \in Threads : u # t => pc'[u] = pc[u]
      /\ pc' \in [Threads -> PCs]
  BY Gone DEF Call, PCs
<1>2. calls' \in [Threads -> 0 .. MaxCalls]
  <2>1. calls[t] + 1 \in 0 .. MaxCalls
    BY NativeInitAssumption DEF Call, IInv, Types
  <2> QED
    BY <2>1 DEF Call, IInv, Types
<1>3. Types'
  BY <1>1, <1>2 DEF Call, IInv, Types, Fields
<1>4. SharedOK'
  BY <1>1, SharedKept DEF Call, Publishing, Fields
<1>5. ThreadOK(t)'
  <2>1. ThreadOK(t)
    BY DEF IInv
  <2> QED
    BY <1>1, <1>2, <2>1 DEF Call, ThreadOK, IInv, Types, SharedOK, Fields,
       Inside, Making, Publishing
<1>6. ASSUME NEW u \in Threads, u # t PROVE ThreadOK(u)'
  BY <1>1, <1>2, <1>6, Others DEF Call, Fields, Inside
<1> QED
  BY <1>3, <1>4, <1>5, <1>6 DEF IInv

\* It enters, if no other is inside.
LEMMA EnterInv ==
  ASSUME IInv, NEW t \in Threads, Enter(t)
  PROVE  IInv'
<1>1. /\ pc[t] = "enter" /\ pc'[t] = ("check")
      /\ \A u \in Threads : u # t => pc'[u] = pc[u]
      /\ pc' \in [Threads -> PCs]
  BY Gone DEF Enter, PCs
<1>3. Types'
  BY <1>1 DEF Enter, IInv, Types, Fields
<1>4. SharedOK'
  BY <1>1, SharedKept DEF Enter, Publishing, Fields
<1>5. ThreadOK(t)'
  <2>1. ThreadOK(t)
    BY DEF IInv
  <2> QED
    BY <1>1, <2>1 DEF Enter, ThreadOK, IInv, Types, SharedOK, Fields, Inside,
       Making, Publishing
<1>6. ASSUME NEW u \in Threads, u # t PROVE ThreadOK(u)'
  BY <1>1, <1>6, Others DEF Enter, Fields, Inside
<1> QED
  BY <1>3, <1>4, <1>5, <1>6 DEF IInv

\* It finds the library initialized, or goes on to initialize it.
LEMMA CheckInv ==
  ASSUME IInv, NEW t \in Threads, Check(t)
  PROVE  IInv'
<1>1. /\ pc[t] = "check" /\ pc'[t] = (IF initialized THEN "leave" ELSE "init")
      /\ \A u \in Threads : u # t => pc'[u] = pc[u]
      /\ pc' \in [Threads -> PCs]
  BY Gone DEF Check, PCs
<1>3. Types'
  BY <1>1 DEF Check, IInv, Types, Fields
<1>4. SharedOK'
  BY <1>1, SharedKept DEF Check, Publishing, Fields
<1>5. ThreadOK(t)'
  <2>1. ThreadOK(t)
    BY DEF IInv
  <2> QED
    BY <1>1, <2>1 DEF Check, ThreadOK, IInv, Types, SharedOK, Fields, Inside,
       Making, Publishing
<1>6. ASSUME NEW u \in Threads, u # t PROVE ThreadOK(u)'
  BY <1>1, <1>6, Others DEF Check, Fields, Inside
<1> QED
  BY <1>3, <1>4, <1>5, <1>6 DEF IInv

\* A library that was loaded is published already.
LEMMA CheckLoadedInv ==
  ASSUME IInv, NEW t \in Threads, CheckLoaded(t)
  PROVE  IInv'
<1>1. /\ pc[t] = "init" /\ pc'[t] = (IF loaded THEN "setInitialized" ELSE "load")
      /\ \A u \in Threads : u # t => pc'[u] = pc[u]
      /\ pc' \in [Threads -> PCs]
  BY Gone DEF CheckLoaded, PCs
<1>3. Types'
  BY <1>1 DEF CheckLoaded, IInv, Types, Fields
<1>4. SharedOK'
  BY <1>1, SharedKept DEF CheckLoaded, Publishing, Fields
<1>5. ThreadOK(t)'
  <2>1. ThreadOK(t)
    BY DEF IInv
  <2> QED
    BY <1>1, <2>1 DEF CheckLoaded, ThreadOK, IInv, Types, SharedOK, Fields,
       Inside, Making, Publishing
<1>6. ASSUME NEW u \in Threads, u # t PROVE ThreadOK(u)'
  BY <1>1, <1>6, Others DEF CheckLoaded, Fields, Inside
<1> QED
  BY <1>3, <1>4, <1>5, <1>6 DEF IInv

\* The library is loaded and a new instance cleared: nothing is set.
LEMMA LoadInv ==
  ASSUME IInv, NEW t \in Threads, Load(t)
  PROVE  IInv'
<1>1. /\ pc[t] = "load" /\ pc'[t] = ("register")
      /\ \A u \in Threads : u # t => pc'[u] = pc[u]
      /\ pc' \in [Threads -> PCs]
  BY Gone DEF Load, PCs
<1>2. /\ at' \in [Threads -> 1 .. Len(Registers) + 1]
      /\ own' \in [Threads -> SUBSET Members]
      /\ at'[t] = 1 /\ own'[t] = {}
      /\ \A u \in Threads : u # t => at'[u] = at[u] /\ own'[u] = own[u]
  BY RegistersLen DEF Load, Forget, IInv, Types
<1>3. Types'
  BY <1>1, <1>2 DEF Load, IInv, Types, Fields
<1>4. SharedOK'
  BY <1>1, SharedKept DEF Load, Publishing, Fields
<1>5. ThreadOK(t)'
  <2>1. ThreadOK(t)
    BY DEF IInv
  <2> QED
    BY <1>1, <1>2, <2>1, SetBeforeFirst DEF Load, ThreadOK, IInv, Types,
       SharedOK, Fields, Inside, Making, Publishing
<1>6. ASSUME NEW u \in Threads, u # t PROVE ThreadOK(u)'
  BY <1>1, <1>2, <1>6, Others DEF Load, Fields, Inside
<1> QED
  BY <1>3, <1>4, <1>5, <1>6 DEF IInv

\* A library that is not loaded leaves the fields as they were.
LEMMA LoadFailsInv ==
  ASSUME IInv, NEW t \in Threads, LoadFails(t)
  PROVE  IInv'
<1>1. /\ pc[t] = "load" /\ pc'[t] = ("throw")
      /\ \A u \in Threads : u # t => pc'[u] = pc[u]
      /\ pc' \in [Threads -> PCs]
  BY Gone DEF LoadFails, PCs
<1>3. Types'
  BY <1>1 DEF LoadFails, IInv, Types, Fields
<1>4. SharedOK'
  BY <1>1, SharedKept DEF LoadFails, Publishing, Fields
<1>5. ThreadOK(t)'
  <2>1. ThreadOK(t)
    BY DEF IInv
  <2> QED
    BY <1>1, <2>1 DEF LoadFails, ThreadOK, IInv, Types, SharedOK, Fields, Inside,
       Making, Publishing
<1>6. ASSUME NEW u \in Threads, u # t PROVE ThreadOK(u)'
  BY <1>1, <1>6, Others DEF LoadFails, Fields, Inside
<1> QED
  BY <1>3, <1>4, <1>5, <1>6 DEF IInv

\* So does a registration that fails; only the first may do without a throw
\* of its own.
LEMMA RegisterFailsInv ==
  ASSUME IInv, NEW t \in Threads, RegisterFails(t)
  PROVE  IInv'
<1>1. /\ pc[t] = "register" /\ pc'[t] = (IF at[t] = 1 THEN "throw" ELSE "throwNew")
      /\ \A u \in Threads : u # t => pc'[u] = pc[u]
      /\ pc' \in [Threads -> PCs]
  BY Gone DEF RegisterFails, PCs
<1>3. Types'
  BY <1>1 DEF RegisterFails, IInv, Types, Fields
<1>4. SharedOK'
  BY <1>1, SharedKept DEF RegisterFails, Publishing, Fields
<1>5. ThreadOK(t)'
  <2>1. ThreadOK(t)
    BY DEF IInv
  <2> QED
    BY <1>1, <2>1 DEF RegisterFails, ThreadOK, IInv, Types, SharedOK, Fields,
       Inside, Making, Publishing
<1>6. ASSUME NEW u \in Threads, u # t PROVE ThreadOK(u)'
  BY <1>1, <1>6, Others DEF RegisterFails, Fields, Inside
<1> QED
  BY <1>3, <1>4, <1>5, <1>6 DEF IInv

\* The instance that was being made is forgotten.
LEMMA ThrowNewInv ==
  ASSUME IInv, NEW t \in Threads, ThrowNew(t)
  PROVE  IInv'
<1>1. /\ pc[t] = "throwNew" /\ pc'[t] = ("throw")
      /\ \A u \in Threads : u # t => pc'[u] = pc[u]
      /\ pc' \in [Threads -> PCs]
  BY Gone DEF ThrowNew, PCs
<1>2. /\ at' \in [Threads -> 1 .. Len(Registers) + 1]
      /\ own' \in [Threads -> SUBSET Members]
      /\ at'[t] = 1 /\ own'[t] = {}
      /\ \A u \in Threads : u # t => at'[u] = at[u] /\ own'[u] = own[u]
  BY RegistersLen DEF ThrowNew, Forget, IInv, Types
<1>3. Types'
  BY <1>1, <1>2 DEF ThrowNew, IInv, Types, Fields
<1>4. SharedOK'
  BY <1>1, SharedKept DEF ThrowNew, Publishing, Fields
<1>5. ThreadOK(t)'
  <2>1. ThreadOK(t)
    BY DEF IInv
  <2> QED
    BY <1>1, <1>2, <2>1, SetBeforeFirst DEF ThrowNew, ThreadOK, IInv, Types,
       SharedOK, Fields, Inside, Making, Publishing
<1>6. ASSUME NEW u \in Threads, u # t PROVE ThreadOK(u)'
  BY <1>1, <1>2, <1>6, Others DEF ThrowNew, Fields, Inside
<1> QED
  BY <1>3, <1>4, <1>5, <1>6 DEF IInv

\* What is given out is the one instance.
LEMMA LeaveInv ==
  ASSUME IInv, NEW t \in Threads, Leave(t)
  PROVE  IInv'
<1>1. /\ pc[t] = "leave" /\ pc'[t] = ("native")
      /\ \A u \in Threads : u # t => pc'[u] = pc[u]
      /\ pc' \in [Threads -> PCs]
  BY Gone DEF Leave, PCs
<1>2. /\ nativeInstance = 1
      /\ initialized = TRUE
      /\ given' \in [Threads -> {0, 1}]
      /\ given'[t] = 1
      /\ \A u \in Threads : u # t => given'[u] = given[u]
  <2>1. ThreadOK(t) /\ SharedOK
    BY DEF IInv
  <2>2. nativeInstance = 1 /\ initialized = TRUE
    BY <1>1, <2>1 DEF ThreadOK, SharedOK
  <2> QED
    BY <2>2 DEF Leave, IInv, Types
<1>3. Types'
  BY <1>1, <1>2 DEF Leave, IInv, Types, Fields
<1>4. SharedOK'
  BY <1>1, SharedKept DEF Leave, Publishing, Fields
<1>5. ThreadOK(t)'
  <2>1. ThreadOK(t)
    BY DEF IInv
  <2> QED
    BY <1>1, <1>2, <2>1 DEF Leave, ThreadOK, IInv, Types, SharedOK, Fields,
       Inside, Making, Publishing
<1>6. ASSUME NEW u \in Threads, u # t PROVE ThreadOK(u)'
  BY <1>1, <1>2, <1>6, Others DEF Leave, Fields, Inside
<1> QED
  BY <1>3, <1>4, <1>5, <1>6 DEF IInv

\* A call that throws leaves the monitor to others.
LEMMA ThrowInv ==
  ASSUME IInv, NEW t \in Threads, Throw(t)
  PROVE  IInv'
<1>1. /\ pc[t] = "throw" /\ pc'[t] = ("idle")
      /\ \A u \in Threads : u # t => pc'[u] = pc[u]
      /\ pc' \in [Threads -> PCs]
  BY Gone DEF Throw, PCs
<1>3. Types'
  BY <1>1 DEF Throw, IInv, Types, Fields
<1>4. SharedOK'
  BY <1>1, SharedKept DEF Throw, Publishing, Fields
<1>5. ThreadOK(t)'
  <2>1. ThreadOK(t)
    BY DEF IInv
  <2> QED
    BY <1>1, <2>1 DEF Throw, ThreadOK, IInv, Types, SharedOK, Fields, Inside,
       Making, Publishing
<1>6. ASSUME NEW u \in Threads, u # t PROVE ThreadOK(u)'
  BY <1>1, <1>6, Others DEF Throw, Fields, Inside
<1> QED
  BY <1>3, <1>4, <1>5, <1>6 DEF IInv

\* The native function returns.
LEMMA NativeReturnsInv ==
  ASSUME IInv, NEW t \in Threads, NativeReturns(t)
  PROVE  IInv'
<1>1. /\ pc[t] = "native" /\ pc'[t] = ("idle")
      /\ \A u \in Threads : u # t => pc'[u] = pc[u]
      /\ pc' \in [Threads -> PCs]
  BY Gone DEF NativeReturns, PCs
<1>3. Types'
  BY <1>1 DEF NativeReturns, IInv, Types, Fields
<1>4. SharedOK'
  BY <1>1, SharedKept DEF NativeReturns, Publishing, Fields
<1>5. ThreadOK(t)'
  <2>1. ThreadOK(t)
    BY DEF IInv
  <2> QED
    BY <1>1, <2>1 DEF NativeReturns, ThreadOK, IInv, Types, SharedOK, Fields,
       Inside, Making, Publishing
<1>6. ASSUME NEW u \in Threads, u # t PROVE ThreadOK(u)'
  BY <1>1, <1>6, Others DEF NativeReturns, Fields, Inside
<1> QED
  BY <1>3, <1>4, <1>5, <1>6 DEF IInv

\* One more registration succeeds.
LEMMA RegisterInv ==
  ASSUME IInv, NEW t \in Threads, Register(t)
  PROVE  IInv'
<1>1. /\ pc[t] = "register" /\ pc' = pc /\ at[t] \in 1 .. Len(Registers)
      /\ Registers[at[t]] \subseteq Members
  BY RegistersLen DEF Register, IInv, Types, Members
<1>2. /\ at' \in [Threads -> 1 .. Len(Registers) + 1]
      /\ own' \in [Threads -> SUBSET Members]
      /\ at'[t] = at[t] + 1 /\ own'[t] = own[t] \cup Registers[at[t]]
      /\ \A u \in Threads : u # t => at'[u] = at[u] /\ own'[u] = own[u]
  <2>1. at[t] + 1 \in 1 .. Len(Registers) + 1
    BY <1>1, RegistersLen
  <2> QED
    BY <1>1, <2>1 DEF Register, IInv, Types
<1>3. Types'
  BY <1>1, <1>2 DEF Register, IInv, Types, Fields
<1>4. SharedOK'
  BY <1>1, SharedKept DEF Register, Publishing, Fields
<1>5. ThreadOK(t)'
  <2>1. ThreadOK(t)
    BY DEF IInv
  <2>2. own'[t] = SetBefore(at'[t])
    BY <1>1, <1>2, <2>1, SetBeforeNext DEF ThreadOK
  <2> QED
    BY <1>1, <2>1, <2>2 DEF Register, ThreadOK, Fields, Inside, Making, Publishing
<1>6. ASSUME NEW u \in Threads, u # t PROVE ThreadOK(u)'
  BY <1>1, <1>2, <1>6, Others DEF Register, Fields, Inside
<1> QED
  BY <1>3, <1>4, <1>5, <1>6 DEF IInv

\* There is no instance yet: if there were one, a thread that publishes it
\* would be inside.
LEMMA BlockchainInitReturnsInv ==
  ASSUME IInv, NEW t \in Threads, BlockchainInitReturns(t)
  PROVE  IInv'
<1>1. /\ pc[t] = "register" /\ pc'[t] = "assign"
      /\ \A u \in Threads : u # t => pc'[u] = pc[u]
      /\ pc' \in [Threads -> PCs]
  BY Gone DEF BlockchainInitReturns, PCs
<1>2. /\ at' \in [Threads -> 1 .. Len(Registers) + 1]
      /\ own' \in [Threads -> SUBSET Members]
      /\ at'[t] = 1 /\ own'[t] = {}
      /\ \A u \in Threads : u # t => at'[u] = at[u] /\ own'[u] = own[u]
  BY RegistersLen DEF BlockchainInitReturns, Forget, IInv, Types
<1>a. instances' = <<Members>> /\ Len(instances') = 1
  <2>1. ThreadOK(t) /\ SharedOK /\ Types
    BY DEF IInv
  <2>2. own[t] \cup NativeInitialized = Members
    <3>1. at[t] = Len(Registers) + 1
      BY <2>1, RegistersLen DEF BlockchainInitReturns, Types
    <3> QED
      BY <2>1, <3>1, SetBeforeAll DEF ThreadOK
  <2>3. initialized = FALSE
    BY <1>1, <2>1 DEF ThreadOK, Making
  <2>4. \A u \in Threads : pc[u] \notin Publishing
    BY <1>1, Alone DEF Inside, Publishing
  <2>5. instances = << >>
    <3>1. CASE instances = <<Members>>
      <4>1. Len(instances) = 1
        BY <3>1
      <4> QED
        BY <2>1, <2>3, <2>4, <4>1 DEF SharedOK
    <3> QED
      BY <2>1, <3>1 DEF SharedOK
  <2>6. instances' = Append(<< >>, Members)
    BY <2>2, <2>5 DEF BlockchainInitReturns
  <2> QED
    BY <2>6
<1>3. Types'
  BY <1>1, <1>2 DEF BlockchainInitReturns, IInv, Types, Fields
<1>4. SharedOK'
  <2>1. SharedOK
    BY DEF IInv
  <2>2. pc'[t] \in Publishing
    BY <1>1 DEF Publishing
  <2> QED
    BY <1>a, <2>1, <2>2 DEF SharedOK, BlockchainInitReturns, Fields
<1>5. ThreadOK(t)'
  <2>1. ThreadOK(t)
    BY DEF IInv
  <2> QED
    BY <1>1, <1>2, <1>a, <2>1, SetBeforeFirst
    DEF BlockchainInitReturns, ThreadOK, Fields, Inside, Making, Publishing
<1>6. ASSUME NEW u \in Threads, u # t PROVE ThreadOK(u)'
  BY <1>1, <1>2, <1>6, Others DEF BlockchainInitReturns, Fields, Inside
<1> QED
  BY <1>3, <1>4, <1>5, <1>6 DEF IInv

\* The instance is published.
LEMMA SetNativeInstanceInv ==
  ASSUME IInv, NEW t \in Threads, SetNativeInstance(t)
  PROVE  IInv'
<1>1. /\ pc[t] = "assign" /\ pc'[t] = "setLoaded"
      /\ \A u \in Threads : u # t => pc'[u] = pc[u]
      /\ pc' \in [Threads -> PCs]
  BY Gone DEF SetNativeInstance, PCs
<1>2. ThreadOK(t) /\ SharedOK /\ Len(instances) = 1
  BY <1>1 DEF IInv, ThreadOK, Publishing
<1>3. Types'
  BY <1>1, <1>2 DEF SetNativeInstance, IInv, Types
<1>4. SharedOK'
  <2>1. pc'[t] \in Publishing /\ nativeInstance' = 1
    BY <1>1, <1>2 DEF SetNativeInstance, Publishing, ThreadOK
  <2> QED
    BY <1>2, <2>1 DEF SharedOK, SetNativeInstance
<1>5. ThreadOK(t)'
  BY <1>1, <1>2 DEF SetNativeInstance, ThreadOK, Inside, Making, Publishing
<1>6. ASSUME NEW u \in Threads, u # t PROVE ThreadOK(u)'
  BY <1>1, <1>2, <1>6, Others DEF SetNativeInstance, Fields, Inside
<1> QED
  BY <1>3, <1>4, <1>5, <1>6 DEF IInv

\* Then the library counts as loaded.
LEMMA SetLoadedInv ==
  ASSUME IInv, NEW t \in Threads, SetLoaded(t)
  PROVE  IInv'
<1>1. /\ pc[t] = "setLoaded" /\ pc'[t] = "setInitialized"
      /\ \A u \in Threads : u # t => pc'[u] = pc[u]
      /\ pc' \in [Threads -> PCs]
  BY Gone DEF SetLoaded, PCs
<1>2. ThreadOK(t) /\ SharedOK /\ Len(instances) = 1
  BY <1>1 DEF IInv, ThreadOK, Publishing
<1>3. Types'
  BY <1>1, <1>2 DEF SetLoaded, IInv, Types
<1>4. SharedOK'
  <2>1. pc'[t] \in Publishing /\ nativeInstance = 1
    BY <1>1, <1>2 DEF SetLoaded, Publishing, ThreadOK
  <2> QED
    BY <1>2, <2>1 DEF SharedOK, SetLoaded
<1>5. ThreadOK(t)'
  BY <1>1, <1>2 DEF SetLoaded, ThreadOK, Inside, Making, Publishing
<1>6. ASSUME NEW u \in Threads, u # t PROVE ThreadOK(u)'
  BY <1>1, <1>2, <1>6, Others DEF SetLoaded, Fields, Inside
<1> QED
  BY <1>3, <1>4, <1>5, <1>6 DEF IInv

\* Then as initialized, and nobody makes an instance any more.
LEMMA SetInitializedInv ==
  ASSUME IInv, NEW t \in Threads, SetInitialized(t)
  PROVE  IInv'
<1>1. /\ pc[t] = "setInitialized" /\ pc'[t] = "leave"
      /\ \A u \in Threads : u # t => pc'[u] = pc[u]
      /\ pc' \in [Threads -> PCs]
  BY Gone DEF SetInitialized, PCs
<1>2. ThreadOK(t) /\ SharedOK /\ Len(instances) = 1
  BY <1>1 DEF IInv, ThreadOK, Publishing
<1>3. Types'
  BY <1>1, <1>2 DEF SetInitialized, IInv, Types
<1>4. SharedOK'
  <2>1. initialized' = TRUE /\ loaded = TRUE
    BY <1>1, <1>2 DEF SetInitialized, Publishing, ThreadOK
  <2> QED
    BY <1>2, <2>1 DEF SharedOK, SetInitialized
<1>5. ThreadOK(t)'
  BY <1>1, <1>2 DEF SetInitialized, ThreadOK, Inside, Making, Publishing
<1>6. ASSUME NEW u \in Threads, u # t PROVE ThreadOK(u)'
  BY <1>1, <1>2, <1>6, Others DEF SetInitialized, Fields, Inside
<1> QED
  BY <1>3, <1>4, <1>5, <1>6 DEF IInv

\* All steps of all threads together.
LEMMA StepInv == IInv /\ [Next]_vars => IInv'
<1> SUFFICES ASSUME IInv, [Next]_vars PROVE IInv'
  OBVIOUS
<1>1. CASE UNCHANGED vars
  BY <1>1 DEF IInv, Types, SharedOK, ThreadOK, vars
<1>2. ASSUME NEW t \in Threads, Call(t) \/ Proceed(t) PROVE IInv'
  BY <1>2, CallInv, EnterInv, CheckInv, CheckLoadedInv, LoadInv, LoadFailsInv,
     RegisterInv, RegisterFailsInv, ThrowNewInv, BlockchainInitReturnsInv,
     SetNativeInstanceInv, SetLoadedInv, SetInitializedInv, LeaveInv, ThrowInv,
     NativeReturnsInv
  DEF Proceed
<1> QED
  BY <1>1, <1>2 DEF Next

\* The invariant holds of every behaviour of the specification, fairness not
\* needed.
THEOREM Invariance == Spec => []IInv
BY InitInv, StepInv, PTL DEF Spec

-----------------------------------------------------------------------------
(* What follows.                                                           *)

\* There is none or one.
LEMMA InstancesShape ==
  ASSUME SharedOK
  PROVE  /\ instances \in Seq(SUBSET Members)
         /\ Len(instances) = 0 \/ Len(instances) = 1
         /\ nativeInstance = 1 => Len(instances) = 1
<1>1. CASE instances = << >>
  BY <1>1 DEF SharedOK
<1>2. CASE instances = <<Members>>
  <2>1. Members \in SUBSET Members /\ Len(<<Members>>) = 1
    OBVIOUS
  <2>2. <<Members>> \in Seq(SUBSET Members)
    BY <2>1
  <2> QED
    BY <1>2, <2>1, <2>2
<1> QED
  BY <1>1, <1>2 DEF SharedOK

\* The variables of Initializer, blockchainInit and the callers keep their
\* types.
THEOREM TypeCorrect == Spec => []TypeOK
<1>1. IInv => TypeOK
  <2> SUFFICES ASSUME IInv PROVE TypeOK
    OBVIOUS
  <2>1. Types /\ SharedOK /\ \A t \in Threads : ThreadOK(t)
    BY DEF IInv
  <2>2. /\ instances \in Seq(SUBSET Members)
        /\ Len(instances) = 0 \/ Len(instances) = 1
        /\ nativeInstance = 1 => Len(instances) = 1
    BY <2>1, InstancesShape
  <2>3. nativeInstance \in 0 .. Len(instances)
    <3>1. nativeInstance = 0 \/ nativeInstance = 1
      BY <2>1 DEF Types
    <3> QED
      BY <2>2, <3>1
  <2>4. ASSUME NEW t \in Threads, given[t] = 1 PROVE Len(instances) = 1
    BY <2>1, <2>4 DEF ThreadOK, SharedOK
  <2>5. ASSUME NEW t \in Threads PROVE given[t] \in 0 .. Len(instances)
    <3>1. CASE given[t] = 1
      <4>1. Len(instances) = 1 /\ 1 \in 0 .. 1
        BY <2>4, <3>1
      <4> QED
        BY <3>1, <4>1, Zenon
    <3>2. CASE given[t] # 1
      <4>1. given[t] = 0
        BY <2>1, <3>2 DEF Types
      <4> QED
        BY <2>2, <4>1
    <3> QED
      BY <3>1, <3>2
  <2>6. given \in [Threads -> 0 .. Len(instances)]
    BY <2>1, <2>5 DEF Types
  <2> QED
    BY <2>1, <2>2, <2>3, <2>6 DEF Types, TypeOK
<1> QED
  BY <1>1, Invariance, PTL

\* A native function never reads a member of a Java class that its instance
\* has not looked up, if the register functions look up all that is read.
THEOREM Complete == ASSUME AllRegistered PROVE Spec => []InstanceIsComplete
<1>1. IInv => InstanceIsComplete
  <2> SUFFICES ASSUME IInv, NEW t \in Threads, pc[t] = "native"
               PROVE  given[t] # 0 /\ Used \subseteq instances[given[t]]
    BY DEF InstanceIsComplete
  <2>1. ThreadOK(t) /\ SharedOK
    BY DEF IInv
  <2>2. given[t] = 1 /\ Len(instances) = 1
    BY <2>1 DEF ThreadOK, SharedOK
  <2>3. instances = <<Members>>
    BY <2>1, <2>2 DEF SharedOK
  <2>4. instances[1] = Members
    BY <2>3
  <2> QED
    BY <2>2, <2>4 DEF AllRegistered
<1> QED
  BY <1>1, Invariance, PTL

\* The failing steps of blockchainInit have the exception class they throw,
\* if the first step, which is the one that throws nothing, looks it up.
THEOREM Throws == ASSUME FirstThrows PROVE Spec => []CanThrow
<1>1. IInv => CanThrow
  <2> SUFFICES ASSUME IInv, NEW t \in Threads, pc[t] = "throwNew"
               PROVE  Thrown \subseteq own[t]
    BY DEF CanThrow
  <2>1. ThreadOK(t) /\ at[t] \in 1 .. Len(Registers) + 1
    BY DEF IInv, Types
  <2> QED
    BY <2>1, FirstIsSetBefore DEF ThreadOK
<1> QED
  BY <1>1, Invariance, PTL

\* However many threads race through their first call, and however many
\* attempts fail before, there is one instance and all are given that one.
THEOREM One == Spec => []OneInstance
<1>1. IInv => OneInstance
  <2> SUFFICES ASSUME IInv PROVE OneInstance
    OBVIOUS
  <2>1. SharedOK /\ given \in [Threads -> {0, 1}]
    BY DEF IInv, Types
  <2>2. Len(instances) = 0 \/ Len(instances) = 1
    BY <2>1, InstancesShape
  <2>3. \A t, u \in Threads : given[t] # 0 /\ given[u] # 0 => given[t] = given[u]
    <3>1. \A t \in Threads : given[t] \in {0, 1}
      BY <2>1
    <3> QED
      BY <3>1
  <2>4. Len(instances) <= 1
    <3>1. 0 <= 1 /\ 1 <= 1
      OBVIOUS
    <3> QED
      BY <2>2, <3>1, Zenon
  <2> QED
    BY <2>3, <2>4 DEF OneInstance
<1> QED
  BY <1>1, Invariance, PTL

\* Once the library counts as initialized, its instance stays: no later call,
\* and no attempt that failed before, replaces it.
THEOREM Stays == Spec => StaysInitialized
<1> DEFINE Same == initialized => initialized' /\ nativeInstance' = nativeInstance
                                  /\ nativeInstance # 0
<1>1. IInv /\ [Next]_vars => [Same]_vars
  <2> SUFFICES ASSUME IInv, Next, initialized PROVE Same
    BY DEF vars
  <2>1. PICK t \in Threads : Call(t) \/ Proceed(t)
    BY DEF Next
  <2>2. SharedOK /\ ThreadOK(t) /\ initialized = TRUE
    BY DEF IInv, Types
  <2>3. nativeInstance = 1 /\ Len(instances) = 1
    BY <2>2 DEF SharedOK
  <2>4. CASE SetNativeInstance(t)
    BY <2>2, <2>3, <2>4 DEF SetNativeInstance
  <2>5. CASE SetInitialized(t)
    BY <2>3, <2>5 DEF SetInitialized
  <2>6. CASE ~ SetNativeInstance(t) /\ ~ SetInitialized(t)
    <3>1. nativeInstance' = nativeInstance /\ initialized' = initialized
      BY <2>1, <2>6
      DEF Proceed, Call, Enter, Check, CheckLoaded, Load, LoadFails, Register,
          RegisterFails, ThrowNew, BlockchainInitReturns, SetLoaded, Leave,
          Throw, NativeReturns, Fields
    <3> QED
      BY <2>2, <2>3, <3>1
  <2> QED
    BY <2>4, <2>5, <2>6
<1> QED
  BY <1>1, Invariance, PTL DEF Spec, StaysInitialized

-----------------------------------------------------------------------------
(* The refinement of NativeInstance: the instance is made when initialized *)
(* is set, and every other step of a thread inside is a stutter.           *)

Made == IF initialized THEN nativeInstance ELSE 0

Places == [t \in Threads |-> Place(t)]

\* A step of one thread leaves the others where they are.
LEMMA PlacesMove ==
  ASSUME NEW t \in Threads, pc'[t] \in PCs,
         \A u \in Threads : u # t => pc'[u] = pc[u]
  PROVE  Places' = [Places EXCEPT ![t] = Place(t)']
<1>1. \A u \in Threads : u # t => Place(u)' = Place(u)
  BY DEF Place
<1>2. \A u \in Threads : Places'[u] = [Places EXCEPT ![t] = Place(t)'][u]
  BY <1>1 DEF Places
<1> QED
  BY <1>2 DEF Places

\* A step inside that neither sets initialized nor changes what is set is not
\* seen by callers.
LEMMA InsideStutters ==
  ASSUME IInv, IInv', NEW t \in Threads,
         pc[t] \in Inside \cup {"enter"}, pc'[t] \in Inside,
         \A u \in Threads : u # t => pc'[u] = pc[u],
         initialized' = initialized, given' = given,
         initialized => nativeInstance' = nativeInstance
  PROVE  UNCHANGED <<Made, Places, given>>
<1>1. Place(t) = "calling" /\ Place(t)' = "calling"
  BY DEF Place, Inside
<1>2. Places' = [Places EXCEPT ![t] = "calling"]
  BY <1>1, PlacesMove DEF Inside, PCs
<1>3. Places' = Places
  BY <1>1, <1>2 DEF Places
<1>4. Made' = Made
  BY DEF Made
<1> QED
  BY <1>3, <1>4

\* Every step is one of NativeInstance's, or is not seen.
LEMMA InstanceStep ==
  ASSUME IInv, IInv', NEW t \in Threads, Call(t) \/ Proceed(t)
  PROVE  Instance!Next \/ UNCHANGED <<Made, Places, given>>
<1>a. Types /\ SharedOK /\ ThreadOK(t) /\ ThreadOK(t)'
  BY DEF IInv
<1>1. CASE Call(t)
  <2>1. /\ pc[t] = "idle" /\ pc'[t] = "enter"
        /\ \A u \in Threads : u # t => pc'[u] = pc[u]
    BY <1>1, Gone DEF Call
  <2>2. /\ Place(t) = "outside" /\ Place(t)' = "calling"
    BY <2>1 DEF Place
  <2>3. Places' = [Places EXCEPT ![t] = "calling"]
    BY <2>1, <2>2, PlacesMove DEF PCs
  <2>4. Made' = Made /\ given' = given
    BY <1>1 DEF Call, Fields, Made
  <2>5. Instance!Begin(t)
    BY <2>2, <2>3, <2>4 DEF Instance!Begin, Instance!Move, Made, Places
  <2> QED
    BY <2>5 DEF Instance!Next
<1>2. CASE SetInitialized(t)
  <2>1. /\ pc[t] = "setInitialized" /\ pc'[t] = "leave"
        /\ \A u \in Threads : u # t => pc'[u] = pc[u]
        /\ nativeInstance' = nativeInstance /\ given' = given
        /\ initialized' = TRUE
    BY <1>2, Gone DEF SetInitialized
  <2>2. nativeInstance = 1
    BY <1>a, <2>1 DEF ThreadOK
  <2>3. Places' = Places /\ Places[t] = "calling"
    <3>1. Place(t) = "calling" /\ Place(t)' = "calling"
      BY <2>1 DEF Place
    <3>2. Places' = [Places EXCEPT ![t] = "calling"]
      BY <2>1, <3>1, PlacesMove DEF PCs
    <3> QED
      BY <3>1, <3>2 DEF Places
  <2>4. CASE initialized
    BY <2>1, <2>3, <2>4 DEF Made
  <2>5. CASE ~initialized
    <3>1. Made = 0 /\ Made' \in Nat \ {0}
      BY <2>1, <2>2, <2>5 DEF Made
    <3>2. Instance!Make(t)
      BY <2>1, <2>3, <3>1 DEF Instance!Make, Made, Places
    <3> QED
      BY <3>2 DEF Instance!Next
  <2> QED
    BY <2>4, <2>5
<1>3. CASE Leave(t)
  <2>1. /\ pc[t] = "leave" /\ pc'[t] = "native"
        /\ \A u \in Threads : u # t => pc'[u] = pc[u]
        /\ given' = [given EXCEPT ![t] = nativeInstance]
        /\ nativeInstance' = nativeInstance /\ initialized' = initialized
    BY <1>3, Gone DEF Leave, Fields
  <2>2. initialized = TRUE /\ nativeInstance = 1
    BY <1>a, <2>1 DEF ThreadOK, SharedOK
  <2>3. Made = nativeInstance /\ Made # 0 /\ Made' = Made
    BY <2>1, <2>2 DEF Made
  <2>4. Place(t) = "calling" /\ Place(t)' = "using"
    BY <2>1 DEF Place
  <2>5. Places' = [Places EXCEPT ![t] = "using"]
    BY <2>1, <2>4, PlacesMove DEF PCs
  <2>6. Instance!Return(t)
    BY <2>1, <2>3, <2>4, <2>5 DEF Instance!Return, Instance!Move, Made, Places
  <2> QED
    BY <2>6 DEF Instance!Next
<1>4. CASE Throw(t)
  <2>1. /\ pc[t] = "throw" /\ pc'[t] = "idle"
        /\ \A u \in Threads : u # t => pc'[u] = pc[u]
        /\ UNCHANGED <<nativeInstance, initialized, given>>
    BY <1>4, Gone DEF Throw, Fields
  <2>2. initialized = FALSE
    BY <1>a, <2>1 DEF ThreadOK, Making
  <2>3. Made = 0 /\ Made' = 0
    BY <2>1, <2>2 DEF Made
  <2>4. Place(t) = "calling" /\ Place(t)' = "outside"
    BY <2>1 DEF Place
  <2>5. Places' = [Places EXCEPT ![t] = "outside"]
    BY <2>1, <2>4, PlacesMove DEF PCs
  <2>6. Instance!Throw(t)
    BY <2>1, <2>3, <2>4, <2>5 DEF Instance!Throw, Instance!Move, Made, Places
  <2> QED
    BY <2>6 DEF Instance!Next
<1>5. CASE NativeReturns(t)
  <2>1. /\ pc[t] = "native" /\ pc'[t] = "idle"
        /\ \A u \in Threads : u # t => pc'[u] = pc[u]
        /\ UNCHANGED <<nativeInstance, initialized, given>>
    BY <1>5, Gone DEF NativeReturns, Fields
  <2>2. Place(t) = "using" /\ Place(t)' = "outside"
    BY <2>1 DEF Place
  <2>3. Places' = [Places EXCEPT ![t] = "outside"]
    BY <2>1, <2>2, PlacesMove DEF PCs
  <2>4. Made' = Made
    BY <2>1 DEF Made
  <2>5. Instance!End(t)
    BY <2>1, <2>2, <2>3, <2>4 DEF Instance!End, Instance!Move, Made, Places
  <2> QED
    BY <2>5 DEF Instance!Next
<1>6. CASE Register(t)
  BY <1>6 DEF Register, Fields, Made, Places, Place
<1>7. CASE SetNativeInstance(t)
  <2>1. /\ pc[t] = "assign" /\ pc'[t] = "setLoaded"
        /\ \A u \in Threads : u # t => pc'[u] = pc[u]
        /\ initialized' = initialized /\ given' = given
        /\ nativeInstance' = Len(instances)
    BY <1>7, Gone DEF SetNativeInstance
  <2>2. nativeInstance' = 1
    BY <1>a, <2>1 DEF ThreadOK, Publishing
  <2>3. initialized => nativeInstance' = nativeInstance
    BY <1>a, <2>2 DEF SharedOK, Types
  <2> QED
    BY <2>1, <2>3, InsideStutters DEF Inside
<1>8. CASE \/ Enter(t) \/ Check(t) \/ CheckLoaded(t) \/ Load(t) \/ LoadFails(t)
           \/ RegisterFails(t) \/ ThrowNew(t) \/ BlockchainInitReturns(t)
           \/ SetLoaded(t)
  <2>1. /\ pc[t] \in Inside \cup {"enter"} /\ pc'[t] \in Inside
        /\ \A u \in Threads : u # t => pc'[u] = pc[u]
    BY <1>8, Gone
    DEF Enter, Check, CheckLoaded, Load, LoadFails, RegisterFails, ThrowNew,
        BlockchainInitReturns, SetLoaded, Inside
  <2>2. UNCHANGED <<nativeInstance, initialized, given>>
    BY <1>8
    DEF Enter, Check, CheckLoaded, Load, LoadFails, RegisterFails, ThrowNew,
        BlockchainInitReturns, SetLoaded, Fields
  <2> QED
    BY <2>1, <2>2, InsideStutters
<1> QED
  BY <1>1, <1>2, <1>3, <1>4, <1>5, <1>6, <1>7, <1>8 DEF Proceed

\* To its callers getInstance() makes one instance at one moment, before which
\* no call returns and after which none throws, for any number of threads and
\* calls and whatever fails.
THEOREM Implements == Spec => ImplementsInstance
<1>1. Init => Instance!Init
  <2> SUFFICES ASSUME Init PROVE Instance!Init
    OBVIOUS
  <2>1. \A t \in Threads : Place(t) = "outside"
    BY DEF Init, Place
  <2> QED
    BY <2>1 DEF Init, Instance!Init
<1>2. IInv /\ IInv' /\ [Next]_vars => [Instance!Next]_(Instance!instanceVars)
  <2> SUFFICES ASSUME IInv, IInv', [Next]_vars
               PROVE  Instance!Next \/ UNCHANGED <<Made, Places, given>>
    BY DEF Instance!instanceVars, Made, Places
  <2>1. CASE UNCHANGED vars
    BY <2>1 DEF vars, Made, Places, Place
  <2>2. CASE Next
    BY <2>2, InstanceStep DEF Next
  <2> QED
    BY <2>1, <2>2
<1> QED
  BY <1>1, <1>2, Invariance, PTL DEF Spec, ImplementsInstance, Instance!Spec
-----------------------------------------------------------------------------
(***************************************************************************)
(* The registrations of the code: blockchainInit sets every member that a  *)
(* native function reads.  What a function reads is a part of what the     *)
(* register functions of its classes set, class by class.                  *)
(***************************************************************************)

\* The registrations, what is read and what is thrown are those of the code.
TheRegistrations ==
  Registers = blockchainInit /\ Used = MCUsed /\ Thrown = MCThrown

\* What all the steps of blockchainInit set.
AllSet == UNION {blockchainInit[i] : i \in 1 .. Len(blockchainInit)}

\* What a step of blockchainInit sets.
LEMMA StepSets ==
  ASSUME NEW i \in 1 .. Len(blockchainInit)
  PROVE  blockchainInit[i] \subseteq AllSet
BY DEF AllSet

\* The steps are these.
LEMMA StepsAre ==
  /\ Len(blockchainInit) = 35
  /\ blockchainInit[1] = IllegalStateException_register \cup AllocatorOptions
  /\ blockchainInit[2] = SuiteOptions
  /\ blockchainInit[3] = BuilderOptions
  /\ blockchainInit[4] = AttestationException_register
  /\ blockchainInit[5] = Certificate_register
  /\ blockchainInit[6] = CertificateBuilder_register
  /\ blockchainInit[7] = CertificateContract_register
  /\ blockchainInit[8] = CertificateParser_register
  /\ blockchainInit[9] = CertificateParserDelegate_register
  /\ blockchainInit[10] = EncryptionKeyPair_register
  /\ blockchainInit[11] = EncryptionPrivateKey_register
  /\ blockchainInit[12] = EncryptionPublicKey_register
  /\ blockchainInit[13] = InvalidKeySizeException_register
  /\ blockchainInit[14] = Message_register
  /\ blockchainInit[15] = MessageVerificationException_register
  /\ blockchainInit[16] = EntityReference_register
  /\ blockchainInit[17] = HashMap_register
  /\ blockchainInit[18] = IllegalArgumentException_register
  /\ blockchainInit[19] = Integer_register
  /\ blockchainInit[20] = Key_register
  /\ blockchainInit[21] = LinkedList_register
  /\ blockchainInit[22] = MessageAuthenticationException_register
  /\ blockchainInit[23] = NullPointerException_register
  /\ blockchainInit[24] = Optional_register
  /\ blockchainInit[25] = SimpleEntry_register
  /\ blockchainInit[26] = Signature_register
  /\ blockchainInit[27] = SigningKeyPair_register
  /\ blockchainInit[28] = SigningPrivateKey_register
  /\ blockchainInit[29] = SigningPublicKey_register
  /\ blockchainInit[30] = SimpleStreamCipher_register
  /\ blockchainInit[31] = TransactionStatus_register
  /\ blockchainInit[32] = UnknownArtifactException_register
  /\ blockchainInit[33] = UnknownArtifactTypeException_register
  /\ blockchainInit[34] = UnknownEntityException_register
  /\ blockchainInit[35] = UUID_register
BY DEF blockchainInit

\* So what the register functions of these classes set is set.
LEMMA RegisteredIsSet ==
  /\ IllegalStateException_register \cup AllocatorOptions \subseteq AllSet
  /\ SuiteOptions \subseteq AllSet
  /\ BuilderOptions \subseteq AllSet
  /\ AttestationException_register \subseteq AllSet
  /\ Certificate_register \subseteq AllSet
  /\ CertificateBuilder_register \subseteq AllSet
  /\ CertificateParser_register \subseteq AllSet
  /\ CertificateParserDelegate_register \subseteq AllSet
  /\ EncryptionKeyPair_register \subseteq AllSet
  /\ EncryptionPrivateKey_register \subseteq AllSet
  /\ EncryptionPublicKey_register \subseteq AllSet
  /\ InvalidKeySizeException_register \subseteq AllSet
  /\ Message_register \subseteq AllSet
  /\ MessageVerificationException_register \subseteq AllSet
  /\ EntityReference_register \subseteq AllSet
  /\ IllegalArgumentException_register \subseteq AllSet
  /\ Integer_register \subseteq AllSet
  /\ Key_register \subseteq AllSet
  /\ LinkedList_register \subseteq AllSet
  /\ MessageAuthenticationException_register \subseteq AllSet
  /\ NullPointerException_register \subseteq AllSet
  /\ SimpleEntry_register \subseteq AllSet
  /\ Signature_register \subseteq AllSet
  /\ SigningKeyPair_register \subseteq AllSet
  /\ SigningPrivateKey_register \subseteq AllSet
  /\ SigningPublicKey_register \subseteq AllSet
  /\ SimpleStreamCipher_register \subseteq AllSet
  /\ UnknownEntityException_register \subseteq AllSet
  /\ UUID_register \subseteq AllSet
<1>1. IllegalStateException_register \cup AllocatorOptions \subseteq AllSet
  BY StepsAre, StepSets, 1 \in 1 .. 35
<1>2. SuiteOptions \subseteq AllSet
  BY StepsAre, StepSets, 2 \in 1 .. 35
<1>3. BuilderOptions \subseteq AllSet
  BY StepsAre, StepSets, 3 \in 1 .. 35
<1>4. AttestationException_register \subseteq AllSet
  BY StepsAre, StepSets, 4 \in 1 .. 35
<1>5. Certificate_register \subseteq AllSet
  BY StepsAre, StepSets, 5 \in 1 .. 35
<1>6. CertificateBuilder_register \subseteq AllSet
  BY StepsAre, StepSets, 6 \in 1 .. 35
<1>7. CertificateParser_register \subseteq AllSet
  BY StepsAre, StepSets, 8 \in 1 .. 35
<1>8. CertificateParserDelegate_register \subseteq AllSet
  BY StepsAre, StepSets, 9 \in 1 .. 35
<1>9. EncryptionKeyPair_register \subseteq AllSet
  BY StepsAre, StepSets, 10 \in 1 .. 35
<1>10. EncryptionPrivateKey_register \subseteq AllSet
  BY StepsAre, StepSets, 11 \in 1 .. 35
<1>11. EncryptionPublicKey_register \subseteq AllSet
  BY StepsAre, StepSets, 12 \in 1 .. 35
<1>12. InvalidKeySizeException_register \subseteq AllSet
  BY StepsAre, StepSets, 13 \in 1 .. 35
<1>13. Message_register \subseteq AllSet
  BY StepsAre, StepSets, 14 \in 1 .. 35
<1>14. MessageVerificationException_register \subseteq AllSet
  BY StepsAre, StepSets, 15 \in 1 .. 35
<1>15. EntityReference_register \subseteq AllSet
  BY StepsAre, StepSets, 16 \in 1 .. 35
<1>16. IllegalArgumentException_register \subseteq AllSet
  BY StepsAre, StepSets, 18 \in 1 .. 35
<1>17. Integer_register \subseteq AllSet
  BY StepsAre, StepSets, 19 \in 1 .. 35
<1>18. Key_register \subseteq AllSet
  BY StepsAre, StepSets, 20 \in 1 .. 35
<1>19. LinkedList_register \subseteq AllSet
  BY StepsAre, StepSets, 21 \in 1 .. 35
<1>20. MessageAuthenticationException_register \subseteq AllSet
  BY StepsAre, StepSets, 22 \in 1 .. 35
<1>21. NullPointerException_register \subseteq AllSet
  BY StepsAre, StepSets, 23 \in 1 .. 35
<1>22. SimpleEntry_register \subseteq AllSet
  BY StepsAre, StepSets, 25 \in 1 .. 35
<1>23. Signature_register \subseteq AllSet
  BY StepsAre, StepSets, 26 \in 1 .. 35
<1>24. SigningKeyPair_register \subseteq AllSet
  BY StepsAre, StepSets, 27 \in 1 .. 35
<1>25. SigningPrivateKey_register \subseteq AllSet
  BY StepsAre, StepSets, 28 \in 1 .. 35
<1>26. SigningPublicKey_register \subseteq AllSet
  BY StepsAre, StepSets, 29 \in 1 .. 35
<1>27. SimpleStreamCipher_register \subseteq AllSet
  BY StepsAre, StepSets, 30 \in 1 .. 35
<1>28. UnknownEntityException_register \subseteq AllSet
  BY StepsAre, StepSets, 34 \in 1 .. 35
<1>29. UUID_register \subseteq AllSet
  BY StepsAre, StepSets, 35 \in 1 .. 35
<1> QED
  BY <1>1, <1>2, <1>3, <1>4, <1>5, <1>6, <1>7, <1>8, <1>9, <1>10, <1>11, <1>12,
     <1>13, <1>14, <1>15, <1>16, <1>17, <1>18, <1>19, <1>20, <1>21, <1>22, <1>23,
     <1>24, <1>25, <1>26, <1>27, <1>28, <1>29

\* Some of the members of a class are set if all that it registers are.
LEMMA PartIsSet ==
  ASSUME NEW class, NEW part, NEW members, part \subseteq members,
         Of(class, members) \subseteq AllSet
  PROVE  Of(class, part) \subseteq AllSet
BY DEF Of

\* A function uses what it says.
LEMMA IdsAre ==
  ASSUME NEW steps, NEW cleanup, NEW refs, NEW ids
  PROVE  Function(steps, cleanup, refs, ids).ids = ids
BY DEF Function

\* What the functions read of each class is set.
LEMMA PartsAreSet ==
  /\ Of("IllegalStateException", {"classid"}) \subseteq AllSet
  /\ Of("NullPointerException", {"classid"}) \subseteq AllSet
  /\ Of("EncryptionPrivateKey", {"getRawBytes"}) \subseteq AllSet
  /\ Of("EncryptionPublicKey", {"getRawBytes"}) \subseteq AllSet
  /\ Of("SimpleStreamCipher", {"field_key"}) \subseteq AllSet
  /\ Of("Key", {"getRawBytes"}) \subseteq AllSet
  /\ Of("MessageAuthenticationException", {"classid"}) \subseteq AllSet
  /\ Of("EncryptionPrivateKey", {"classid", "init"}) \subseteq AllSet
  /\ Of("EncryptionPublicKey", {"classid", "init"}) \subseteq AllSet
  /\ Of("EncryptionKeyPair", {"classid", "init"}) \subseteq AllSet
  /\ Of("SigningPrivateKey", {"classid", "init"}) \subseteq AllSet
  /\ Of("SigningPublicKey", {"classid", "init"}) \subseteq AllSet
  /\ Of("SigningKeyPair", {"classid", "init"}) \subseteq AllSet
  /\ Of("Key", {"classid", "init"}) \subseteq AllSet
  /\ Of("Key", {"key"}) \subseteq AllSet
  /\ Of("InvalidKeySizeException", {"classid"}) \subseteq AllSet
  /\ Of("SigningPrivateKey", {"getRawBytes"}) \subseteq AllSet
  /\ Of("Message", {"getRawBytes"}) \subseteq AllSet
  /\ Of("Signature", {"classid", "init"}) \subseteq AllSet
  /\ Of("SigningPublicKey", {"getRawBytes"}) \subseteq AllSet
  /\ Of("Signature", {"getSignatureBytes"}) \subseteq AllSet
  /\ Of("CertificateBuilder", {"field_fields"}) \subseteq AllSet
  /\ Of("LinkedList", {"size", "get"}) \subseteq AllSet
  /\ Of("SimpleEntry", {"getKey", "getValue"}) \subseteq AllSet
  /\ Of("Integer", {"intValue"}) \subseteq AllSet
  /\ Of("Certificate", {"classid", "fromByteArray"}) \subseteq AllSet
  /\ Of("IllegalArgumentException", {"classid"}) \subseteq AllSet
  /\ Of("LinkedList", {"classid", "init", "add"}) \subseteq AllSet
  /\ Of("Integer", {"classid", "valueOf"}) \subseteq AllSet
  /\ Of("SimpleEntry", {"classid", "init"}) \subseteq AllSet
  /\ Of("CertificateParser", {"field_rawSize", "field_certificate", "field_size"}) \subseteq AllSet
  /\ Of("AttestationException", {"classid", "init_String_Throwable"}) \subseteq AllSet
  /\ Of("CertificateParserDelegate", {"resolveEntity"}) \subseteq AllSet
  /\ Of("UnknownEntityException", {"classid", "init_UUID"}) \subseteq AllSet
  /\ Of("EntityReference", {"getPublicEncryptionKey", "getPublicSigningKey"}) \subseteq AllSet
  /\ Of("UUID", {"classid", "init"}) \subseteq AllSet
  /\ Of("MessageVerificationException", {"classid"}) \subseteq AllSet
<1>1. Of("IllegalStateException", {"classid"}) \subseteq AllSet
  <2>1. IllegalStateException_register \subseteq AllSet
    BY RegisteredIsSet
  <2> QED
    BY <2>1, PartIsSet DEF IllegalStateException_register
<1>2. Of("NullPointerException", {"classid"}) \subseteq AllSet
  BY RegisteredIsSet, PartIsSet DEF NullPointerException_register
<1>3. Of("EncryptionPrivateKey", {"getRawBytes"}) \subseteq AllSet
  BY RegisteredIsSet, PartIsSet DEF EncryptionPrivateKey_register
<1>4. Of("EncryptionPublicKey", {"getRawBytes"}) \subseteq AllSet
  BY RegisteredIsSet, PartIsSet DEF EncryptionPublicKey_register
<1>5. Of("SimpleStreamCipher", {"field_key"}) \subseteq AllSet
  BY RegisteredIsSet, PartIsSet DEF SimpleStreamCipher_register
<1>6. Of("Key", {"getRawBytes"}) \subseteq AllSet
  BY RegisteredIsSet, PartIsSet DEF Key_register
<1>7. Of("MessageAuthenticationException", {"classid"}) \subseteq AllSet
  BY RegisteredIsSet, PartIsSet DEF MessageAuthenticationException_register
<1>8. Of("EncryptionPrivateKey", {"classid", "init"}) \subseteq AllSet
  BY RegisteredIsSet, PartIsSet DEF EncryptionPrivateKey_register
<1>9. Of("EncryptionPublicKey", {"classid", "init"}) \subseteq AllSet
  BY RegisteredIsSet, PartIsSet DEF EncryptionPublicKey_register
<1>10. Of("EncryptionKeyPair", {"classid", "init"}) \subseteq AllSet
  BY RegisteredIsSet, PartIsSet DEF EncryptionKeyPair_register
<1>11. Of("SigningPrivateKey", {"classid", "init"}) \subseteq AllSet
  BY RegisteredIsSet, PartIsSet DEF SigningPrivateKey_register
<1>12. Of("SigningPublicKey", {"classid", "init"}) \subseteq AllSet
  BY RegisteredIsSet, PartIsSet DEF SigningPublicKey_register
<1>13. Of("SigningKeyPair", {"classid", "init"}) \subseteq AllSet
  BY RegisteredIsSet, PartIsSet DEF SigningKeyPair_register
<1>14. Of("Key", {"classid", "init"}) \subseteq AllSet
  BY RegisteredIsSet, PartIsSet DEF Key_register
<1>15. Of("Key", {"key"}) \subseteq AllSet
  BY RegisteredIsSet, PartIsSet DEF Key_register
<1>16. Of("InvalidKeySizeException", {"classid"}) \subseteq AllSet
  BY RegisteredIsSet, PartIsSet DEF InvalidKeySizeException_register
<1>17. Of("SigningPrivateKey", {"getRawBytes"}) \subseteq AllSet
  BY RegisteredIsSet, PartIsSet DEF SigningPrivateKey_register
<1>18. Of("Message", {"getRawBytes"}) \subseteq AllSet
  BY RegisteredIsSet, PartIsSet DEF Message_register
<1>19. Of("Signature", {"classid", "init"}) \subseteq AllSet
  BY RegisteredIsSet, PartIsSet DEF Signature_register
<1>20. Of("SigningPublicKey", {"getRawBytes"}) \subseteq AllSet
  BY RegisteredIsSet, PartIsSet DEF SigningPublicKey_register
<1>21. Of("Signature", {"getSignatureBytes"}) \subseteq AllSet
  BY RegisteredIsSet, PartIsSet DEF Signature_register
<1>22. Of("CertificateBuilder", {"field_fields"}) \subseteq AllSet
  BY RegisteredIsSet, PartIsSet DEF CertificateBuilder_register
<1>23. Of("LinkedList", {"size", "get"}) \subseteq AllSet
  BY RegisteredIsSet DEF Of, LinkedList_register, LinkedList_initToAddAll,
     LinkedList_clearToPeekFirst
<1>24. Of("SimpleEntry", {"getKey", "getValue"}) \subseteq AllSet
  BY RegisteredIsSet, PartIsSet DEF SimpleEntry_register
<1>25. Of("Integer", {"intValue"}) \subseteq AllSet
  BY RegisteredIsSet, PartIsSet DEF Integer_register
<1>26. Of("Certificate", {"classid", "fromByteArray"}) \subseteq AllSet
  BY RegisteredIsSet, PartIsSet DEF Certificate_register
<1>27. Of("IllegalArgumentException", {"classid"}) \subseteq AllSet
  BY RegisteredIsSet, PartIsSet DEF IllegalArgumentException_register
<1>28. Of("LinkedList", {"classid", "init", "add"}) \subseteq AllSet
  BY RegisteredIsSet DEF Of, LinkedList_register, LinkedList_initToAddAll,
     LinkedList_clearToPeekFirst
<1>29. Of("Integer", {"classid", "valueOf"}) \subseteq AllSet
  BY RegisteredIsSet, PartIsSet DEF Integer_register
<1>30. Of("SimpleEntry", {"classid", "init"}) \subseteq AllSet
  BY RegisteredIsSet, PartIsSet DEF SimpleEntry_register
<1>31. Of("CertificateParser",
          {"field_rawSize", "field_certificate", "field_size"}) \subseteq AllSet
  BY RegisteredIsSet, PartIsSet DEF CertificateParser_register
<1>32. Of("AttestationException", {"classid", "init_String_Throwable"}) \subseteq AllSet
  BY RegisteredIsSet, PartIsSet DEF AttestationException_register
<1>33. Of("CertificateParserDelegate", {"resolveEntity"}) \subseteq AllSet
  BY RegisteredIsSet, PartIsSet DEF CertificateParserDelegate_register
<1>34. Of("UnknownEntityException", {"classid", "init_UUID"}) \subseteq AllSet
  BY RegisteredIsSet, PartIsSet DEF UnknownEntityException_register
<1>35. Of("EntityReference", {"getPublicEncryptionKey", "getPublicSigningKey"}) \subseteq AllSet
  BY RegisteredIsSet, PartIsSet DEF EntityReference_register
<1>36. Of("UUID", {"classid", "init"}) \subseteq AllSet
  BY RegisteredIsSet, PartIsSet DEF UUID_register
<1>37. Of("MessageVerificationException", {"classid"}) \subseteq AllSet
  BY RegisteredIsSet, PartIsSet DEF MessageVerificationException_register
<1> QED
  BY <1>1, <1>2, <1>3, <1>4, <1>5, <1>6, <1>7, <1>8, <1>9, <1>10, <1>11, <1>12,
     <1>13, <1>14, <1>15, <1>16, <1>17, <1>18, <1>19, <1>20, <1>21, <1>22, <1>23,
     <1>24, <1>25, <1>26, <1>27, <1>28, <1>29, <1>30, <1>31, <1>32, <1>33, <1>34,
     <1>35, <1>36, <1>37

\* What each native function reads is set.
LEMMA FunctionsReadWhatIsSet == \A f \in NativeFunctions : f.ids \subseteq AllSet
<1>1. SimpleStreamCipher_encrypt.ids \subseteq AllSet
  BY IdsAre, PartsAreSet DEF SimpleStreamCipher_encrypt, Checks, KeyMembers
<1>2. SimpleStreamCipher_decrypt.ids \subseteq AllSet
  BY IdsAre, PartsAreSet DEF SimpleStreamCipher_decrypt, Checks, KeyMembers
<1>3. GenericStreamCipher_encrypt.ids \subseteq AllSet
  BY IdsAre, PartsAreSet DEF GenericStreamCipher_encrypt, EncryptStream, Checks
<1>4. GenericStreamCipher_decrypt.ids \subseteq AllSet
  BY IdsAre, PartsAreSet DEF GenericStreamCipher_decrypt, DecryptStream, Checks
<1>5. HMAC_digest.ids \subseteq AllSet
  BY IdsAre, PartsAreSet DEF HMAC_digest, Checks
<1>6. HMAC_digestArr.ids \subseteq AllSet
  BY IdsAre, PartsAreSet DEF HMAC_digestArr, Checks
<1>7. EncryptionKeyPair_generate.ids \subseteq AllSet
  BY IdsAre, PartsAreSet DEF EncryptionKeyPair_generate
<1>8. SigningKeyPair_generate.ids \subseteq AllSet
  BY IdsAre, PartsAreSet DEF SigningKeyPair_generate
<1>9. Key_createFromPassword.ids \subseteq AllSet
  BY IdsAre, PartsAreSet DEF Key_createFromPassword, Checks
<1>10. Key_createRandom.ids \subseteq AllSet
  BY IdsAre, PartsAreSet DEF Key_createRandom, Checks
<1>11. Key_verifyKeySize.ids \subseteq AllSet
  BY IdsAre, PartsAreSet DEF Key_verifyKeySize
<1>12. SigningPrivateKey_sign.ids \subseteq AllSet
  BY IdsAre, PartsAreSet DEF SigningPrivateKey_sign, Checks
<1>13. SigningPublicKey_verify.ids \subseteq AllSet
  BY IdsAre, PartsAreSet DEF SigningPublicKey_verify, Checks
<1>14. CertificateBuilder_emit.ids \subseteq AllSet
  BY IdsAre, PartsAreSet DEF CertificateBuilder_emit, FieldMembers
<1>15. CertificateBuilder_sign.ids \subseteq AllSet
  BY IdsAre, PartsAreSet DEF CertificateBuilder_sign, Checks, FieldMembers
<1>16. CertificateParser_parse.ids \subseteq AllSet
  BY IdsAre, PartsAreSet DEF CertificateParser_parse, Checks
<1>17. CertificateParser_attest.ids \subseteq AllSet
  BY IdsAre, PartsAreSet DEF CertificateParser_attest, Checks
<1>18. EncryptedCertificateBuilder_encryptData.ids \subseteq AllSet
  BY IdsAre, PartsAreSet DEF EncryptedCertificateBuilder_encryptData,
     EncryptStream, Checks
<1>19. EncryptedCertificateReader_decrypt.ids \subseteq AllSet
  BY IdsAre, PartsAreSet DEF EncryptedCertificateReader_decrypt, DecryptStream,
     Checks
<1>20. EncryptedCertificateBuilder_encryptKey.ids \subseteq AllSet
  BY IdsAre, PartsAreSet DEF EncryptedCertificateBuilder_encryptKey, EncryptKey,
     KeyPair, Checks
<1>21. EncryptedCertificateReader_decryptSecret.ids \subseteq AllSet
  BY IdsAre, PartsAreSet DEF EncryptedCertificateReader_decryptSecret,
     DecryptKey, KeyPair, Checks
<1>22. EncryptedCertificateBuilder_generateEncryptionKey.ids \subseteq AllSet
  BY IdsAre, PartsAreSet DEF EncryptedCertificateBuilder_generateEncryptionKey,
     GenerateKey, Checks
<1>23. EncryptedDocumentBuilder_encryptData.ids \subseteq AllSet
  BY IdsAre, PartsAreSet DEF EncryptedDocumentBuilder_encryptData, EncryptStream,
     Checks
<1>24. EncryptedDocumentReader_decryptData.ids \subseteq AllSet
  BY IdsAre, PartsAreSet DEF EncryptedDocumentReader_decryptData, DecryptStream,
     Checks
<1>25. EncryptedDocumentBuilder_encryptKey.ids \subseteq AllSet
  BY IdsAre, PartsAreSet DEF EncryptedDocumentBuilder_encryptKey, EncryptKey,
     KeyPair, Checks
<1>26. EncryptedDocumentReader_decryptKey.ids \subseteq AllSet
  BY IdsAre, PartsAreSet DEF EncryptedDocumentReader_decryptKey, DecryptKey,
     KeyPair, Checks
<1>27. EncryptedDocumentBuilder_generateEncryptionKey.ids \subseteq AllSet
  BY IdsAre, PartsAreSet DEF EncryptedDocumentBuilder_generateEncryptionKey,
     GenerateKey, Checks
<1>28. OuterEnvelopeWriter_encryptPayload.ids \subseteq AllSet
  BY IdsAre, PartsAreSet DEF OuterEnvelopeWriter_encryptPayload, Checks
<1>29. OuterEnvelopeReader_decryptHeader.ids \subseteq AllSet
  BY IdsAre, PartsAreSet DEF OuterEnvelopeReader_decryptHeader, Checks
<1>30. OuterEnvelopeReader_decryptPayload.ids \subseteq AllSet
  BY IdsAre, PartsAreSet DEF OuterEnvelopeReader_decryptPayload, Checks
<1>31. ProtocolHandlerImpl_computeSharedSecret.ids \subseteq AllSet
  BY IdsAre, PartsAreSet DEF ProtocolHandlerImpl_computeSharedSecret, Checks
<1> QED
  BY <1>1, <1>2, <1>3, <1>4, <1>5, <1>6, <1>7, <1>8, <1>9, <1>10, <1>11, <1>12,
     <1>13, <1>14, <1>15, <1>16, <1>17, <1>18, <1>19, <1>20, <1>21, <1>22, <1>23,
     <1>24, <1>25, <1>26, <1>27, <1>28, <1>29, <1>30, <1>31 DEF NativeFunctions

\* The registrations of the code set all that is read, and the first of them
\* what the others throw.
LEMMA TheRegistrationsSetAll ==
  ASSUME TheRegistrations
  PROVE  AllRegistered /\ FirstThrows
<1>1. Members = NativeInitialized \cup AllSet
  BY DEF TheRegistrations, Members, AllSet
<1>2. MCUsed \subseteq NativeInitialized \cup AllSet
  <2>1. /\ UNION {f.ids : f \in NativeFunctions} \subseteq AllSet
        /\ AllocatorOptions \cup SuiteOptions \cup BuilderOptions \subseteq AllSet
    BY FunctionsReadWhatIsSet, RegisteredIsSet
  <2> QED
    BY <2>1 DEF MCUsed
<1>3. AllRegistered
  BY <1>1, <1>2 DEF TheRegistrations, AllRegistered
<1>4. MCThrown \subseteq blockchainInit[1]
  BY StepsAre DEF MCThrown, IllegalStateException_register, Of
<1>5. FirstThrows
  BY <1>4, StepsAre DEF TheRegistrations, FirstThrows
<1> QED
  BY <1>3, <1>5

\* With the registrations of the code, whatever fails and however many threads
\* call, no native function reads what is not looked up, and no step of
\* blockchainInit throws by a class that is not.
THEOREM RegistrationsSuffice ==
  ASSUME TheRegistrations
  PROVE  Spec => [](InstanceIsComplete /\ CanThrow)
<1>1. AllRegistered /\ FirstThrows
  BY TheRegistrationsSetAll
<1>2. Spec => []InstanceIsComplete
  BY <1>1, Complete
<1>3. Spec => []CanThrow
  BY <1>1, Throws
<1> QED
  BY <1>2, <1>3, PTL
=============================================================================
