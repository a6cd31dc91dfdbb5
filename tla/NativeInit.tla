----------------------------- MODULE NativeInit -----------------------------
(***************************************************************************)
(* Initializer.getInstance(), which every call of a native function begins *)
(* with, by several threads.  The first to enter unpacks and loads the     *)
(* native library and has blockchainInit make the native instance, which   *)
(* looks up the members of the Java classes; any of it may fail, and then  *)
(* the next call starts again, with a new instance.                        *)
(***************************************************************************)
EXTENDS Naturals, Sequences

CONSTANTS
  Threads,
  Registers,  \* blockchainInit: what its steps set, in order
  Thrown,     \* what is read of the instance when a step throws
  Used,       \* what the native functions read of the instance
  MaxCalls    \* bound: calls of getInstance by one thread

\* The instance's own field initialized, which is set when all else is.
NativeInitialized == {<<"native_inst", "initialized">>}

Members ==
  NativeInitialized \cup UNION {Registers[i] : i \in 1 .. Len(Registers)}

None == "none"

ASSUME NativeInitAssumption ==
  /\ None \notin Threads
  /\ Registers \in Seq(SUBSET Members)
  /\ MaxCalls \in Nat

VARIABLES
  monitor,         \* the thread in getInstance(), or None
  pc,              \* where each thread is
  at,              \* the step of blockchainInit it is at
  own,             \* what is set in the instance it makes
  instances,       \* the instances that are done: what is set in each
  nativeInstance,  \* Initializer's fields; 0 or a place in instances
  loaded,
  initialized,
  given,           \* what getInstance() last returned to each thread
  calls            \* number of calls that each thread has made

vars == <<monitor, pc, at, own, instances, nativeInstance, loaded,
          initialized, given, calls>>

PCs == {"idle", "enter", "check", "init", "load", "register", "throwNew",
        "assign", "setLoaded", "setInitialized", "leave", "throw", "native"}

Init ==
  /\ monitor = None
  /\ pc = [t \in Threads |-> "idle"] /\ at = [t \in Threads |-> 1]
  /\ own = [t \in Threads |-> {}] /\ instances = << >>
  /\ nativeInstance = 0 /\ loaded = FALSE /\ initialized = FALSE
  /\ given = [t \in Threads |-> 0] /\ calls = [t \in Threads |-> 0]

Go(t, from, to) == pc[t] = from /\ pc' = [pc EXCEPT ![t] = to]

Fields == <<nativeInstance, loaded, initialized>>

Call(t) ==
  /\ Go(t, "idle", "enter")
  /\ calls[t] < MaxCalls
  /\ calls' = [calls EXCEPT ![t] = @ + 1]
  /\ UNCHANGED <<monitor, at, own, instances, Fields, given>>

\* Mutant: getInstance() is not synchronized.
Enter_NotSynchronized(t) ==
  /\ Go(t, "enter", "check")
  /\ monitor' = t
  /\ UNCHANGED <<at, own, instances, Fields, given, calls>>

\* getInstance() is synchronized.
Enter(t) ==
  /\ monitor = None
  /\ Go(t, "enter", "check")
  /\ monitor' = t
  /\ UNCHANGED <<at, own, instances, Fields, given, calls>>

Check(t) ==
  /\ Go(t, "check", IF initialized THEN "leave" ELSE "init")
  /\ UNCHANGED <<monitor, at, own, instances, Fields, given, calls>>

\* init()
CheckLoaded(t) ==
  /\ Go(t, "init", IF loaded THEN "setInitialized" ELSE "load")
  /\ UNCHANGED <<monitor, at, own, instances, Fields, given, calls>>

\* Nothing is set: memory that was cleared, or that nobody looks at any more.
Forget(t) == at' = [at EXCEPT ![t] = 1] /\ own' = [own EXCEPT ![t] = {}]

\* The library is unpacked and loaded; blockchainInit allocates an instance
\* and clears it.
Load(t) ==
  /\ Go(t, "load", "register")
  /\ Forget(t)
  /\ UNCHANGED <<monitor, instances, Fields, given, calls>>

LoadFails(t) ==
  /\ Go(t, "load", "throw")
  /\ UNCHANGED <<monitor, at, own, instances, Fields, given, calls>>

Register(t) ==
  /\ pc[t] = "register" /\ at[t] <= Len(Registers)
  /\ own' = [own EXCEPT ![t] = @ \cup Registers[at[t]]]
  /\ at' = [at EXCEPT ![t] = @ + 1]
  /\ UNCHANGED <<monitor, pc, instances, Fields, given, calls>>

\* Mutant: every failing step throws an IllegalStateException.
RegisterFails_ThrowNew(t) ==
  /\ Go(t, "register", "throwNew")
  /\ at[t] <= Len(Registers)
  /\ UNCHANGED <<monitor, at, own, instances, Fields, given, calls>>

\* If it is the first of them, the instance is freed, 0 is returned and Java
\* throws.
RegisterFails(t) ==
  /\ Go(t, "register", IF at[t] = 1 THEN "throw" ELSE "throwNew")
  /\ at[t] <= Len(Registers)
  /\ UNCHANGED <<monitor, at, own, instances, Fields, given, calls>>

\* Mutant: init() catches the exception and goes on.
ThrowNew_Caught(t) ==
  /\ Go(t, "throwNew", "setLoaded")
  /\ Forget(t)
  /\ UNCHANGED <<monitor, instances, Fields, given, calls>>

\* INIT_OR_FAIL.  Nobody frees the instance, nor has its address.
ThrowNew(t) ==
  /\ Go(t, "throwNew", "throw")
  /\ Forget(t)
  /\ UNCHANGED <<monitor, instances, Fields, given, calls>>

BlockchainInitReturns(t) ==
  /\ Go(t, "register", "assign")
  /\ at[t] > Len(Registers)
  /\ instances' = Append(instances, own[t] \cup NativeInitialized)
  /\ Forget(t)
  /\ UNCHANGED <<monitor, Fields, given, calls>>

\* Mutant: the address is one past the instance.
SetNativeInstance_Past(t) ==
  /\ Go(t, "assign", "setLoaded")
  /\ nativeInstance' = Len(instances) + 1
  /\ UNCHANGED <<monitor, at, own, instances, loaded, initialized, given, calls>>

SetNativeInstance(t) ==
  /\ Go(t, "assign", "setLoaded")
  /\ nativeInstance' = Len(instances)
  /\ UNCHANGED <<monitor, at, own, instances, loaded, initialized, given, calls>>

SetLoaded(t) ==
  /\ Go(t, "setLoaded", "setInitialized")
  /\ loaded' = TRUE
  /\ UNCHANGED <<monitor, at, own, instances, nativeInstance, initialized,
                 given, calls>>

SetInitialized(t) ==
  /\ Go(t, "setInitialized", "leave")
  /\ initialized' = TRUE
  /\ UNCHANGED <<monitor, at, own, instances, nativeInstance, loaded, given,
                 calls>>

\* The address is returned and the native function is called with it.
Leave(t) ==
  /\ Go(t, "leave", "native")
  /\ monitor' = None
  /\ given' = [given EXCEPT ![t] = nativeInstance]
  /\ UNCHANGED <<at, own, instances, Fields, calls>>

\* Mutant: the monitor is not left by an exception.
Throw_KeepsMonitor(t) ==
  /\ Go(t, "throw", "idle")
  /\ UNCHANGED <<monitor, at, own, instances, Fields, given, calls>>

Throw(t) ==
  /\ Go(t, "throw", "idle")
  /\ monitor' = None
  /\ UNCHANGED <<at, own, instances, Fields, given, calls>>

NativeReturns(t) ==
  /\ Go(t, "native", "idle")
  /\ UNCHANGED <<monitor, at, own, instances, Fields, given, calls>>

\* What a thread does once it has called getInstance().
Proceed(t) ==
  \/ Enter(t) \/ Check(t) \/ CheckLoaded(t)
  \/ Load(t) \/ LoadFails(t) \/ Register(t) \/ RegisterFails(t) \/ ThrowNew(t)
  \/ BlockchainInitReturns(t) \/ SetNativeInstance(t) \/ SetLoaded(t)
  \/ SetInitialized(t) \/ Leave(t) \/ Throw(t) \/ NativeReturns(t)

Next == \E t \in Threads : Call(t) \/ Proceed(t)

\* Threads run.  A monitor is not fair: that a thread gets it in the end rests
\* on the other threads' making finitely many calls.
Fairness == \A t \in Threads : WF_vars(Proceed(t))

Spec == Init /\ [][Next]_vars /\ Fairness

-----------------------------------------------------------------------------

TypeOK ==
  /\ monitor \in Threads \cup {None}
  /\ pc \in [Threads -> PCs]
  /\ at \in [Threads -> 1 .. Len(Registers) + 1]
  /\ own \in [Threads -> SUBSET Members] /\ instances \in Seq(SUBSET Members)
  /\ nativeInstance \in 0 .. Len(instances)
  /\ loaded \in BOOLEAN /\ initialized \in BOOLEAN
  /\ given \in [Threads -> 0 .. Len(instances)]
  /\ calls \in [Threads -> 0 .. MaxCalls]

\* A native function finds in the instance that it is given everything that
\* any native function reads.  That is what the comment at every register
\* function asks for: it "must be called before any of the following
\* references are used".
InstanceIsComplete ==
  \A t \in Threads : pc[t] = "native" =>
    given[t] # 0 /\ Used \subseteq instances[given[t]]

\* A step that fails can throw: what it throws was registered before.
CanThrow ==
  \A t \in Threads : pc[t] = "throwNew" => Thrown \subseteq own[t]

\* All threads are given the same instance for as long as the program runs,
\* however the first calls interleave and however many attempts failed
\* before: at most one is ever completed.
OneInstance ==
  /\ Len(instances) <= 1
  /\ \A t, u \in Threads : given[t] # 0 /\ given[u] # 0 => given[t] = given[u]

\* No attempt is left half done: once the library counts as initialized there
\* is an instance, and it stays.
StaysInitialized ==
  [][initialized => initialized' /\ nativeInstance' = nativeInstance
                    /\ nativeInstance # 0]_vars

\* Where a thread is, for one that sees calls of getInstance() only.
Place(t) ==
  CASE pc[t] = "idle" -> "outside"
    [] pc[t] = "native" -> "using"
    [] OTHER -> "calling"

Instance ==
  INSTANCE NativeInstance WITH
    instance <- IF initialized THEN nativeInstance ELSE 0,
    place <- [t \in Threads |-> Place(t)]

\* To its callers getInstance() makes one instance, at one moment: before it a
\* call may throw and none returns, after it none throws, whatever failed
\* before and however the calls overlap.
ImplementsInstance == Instance!Spec

\* Every call of getInstance() returns or throws.
CallEnds ==
  \A t \in Threads : pc[t] = "enter" ~> pc[t] \in {"native", "idle"}
=============================================================================
