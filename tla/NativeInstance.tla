--------------------------- MODULE NativeInstance ---------------------------
(***************************************************************************)
(* What the callers of Initializer.getInstance() are promised: there is    *)
(* one instance, the first call that can make it does, every call that     *)
(* returns gives that one, and a call throws only if there is none at that *)
(* moment.  No monitor, library or registration appears here.              *)
(***************************************************************************)
EXTENDS Naturals

CONSTANTS Threads

VARIABLES
  instance,  \* the instance, or 0 as long as there is none
  place,     \* where each thread is
  given      \* what a call last returned to each thread

instanceVars == <<instance, place, given>>

Init ==
  /\ instance = 0
  /\ place = [t \in Threads |-> "outside"]
  /\ given = [t \in Threads |-> 0]

Move(t, from, to) == place[t] = from /\ place' = [place EXCEPT ![t] = to]

\* A thread calls.
Begin(t) ==
  /\ Move(t, "outside", "calling")
  /\ UNCHANGED <<instance, given>>

\* One of the calls makes the instance.
Make(t) ==
  /\ instance = 0 /\ place[t] = "calling"
  /\ instance' \in Nat \ {0}
  /\ UNCHANGED <<place, given>>

\* A call returns the instance, and the caller uses it.
Return(t) ==
  /\ instance # 0
  /\ Move(t, "calling", "using")
  /\ given' = [given EXCEPT ![t] = instance]
  /\ UNCHANGED instance

\* A call throws.
Throw(t) ==
  /\ instance = 0
  /\ Move(t, "calling", "outside")
  /\ UNCHANGED <<instance, given>>

\* The caller is done with what it called for.
End(t) ==
  /\ Move(t, "using", "outside")
  /\ UNCHANGED <<instance, given>>

Next ==
  \E t \in Threads : Begin(t) \/ Make(t) \/ Return(t) \/ Throw(t) \/ End(t)

Spec == Init /\ [][Next]_instanceVars
=============================================================================
