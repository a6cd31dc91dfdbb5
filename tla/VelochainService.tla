-------------------------- MODULE VelochainService -------------------------
(***************************************************************************)
(* What a client of VelochainConnection is promised: a call is carried out *)
(* by the agent at most once, in the order of the calls, and returns the   *)
(* agent's answer to that very call or throws.  A call that throws may     *)
(* have been carried out or be carried out later.  No packet, key or       *)
(* socket appears here.                                                    *)
(***************************************************************************)
EXTENDS Integers, Sequences

CONSTANTS
  Ops,         \* the operations, connect() included
  Answers,     \* how a call returns
  Exceptions,  \* how a call throws
  NoCall,      \* no call is in progress
  NoResult     \* no call has ended yet

VARIABLES
  call,      \* the call in progress
  issued,    \* number of calls begun
  executed,  \* the calls the agent carried out, in order
  last       \* how the last call ended

serviceVars == <<call, issued, executed, last>>

Init ==
  /\ call = NoCall
  /\ issued = 0
  /\ executed = <<>>
  /\ last = NoResult

Result(c, out, ans) == [op |-> c.op, no |-> c.no, out |-> out, ans |-> ans]

\* A call begins.
Begin(o) ==
  /\ call = NoCall
  /\ issued' = issued + 1
  /\ call' = [op |-> o, no |-> issued + 1]
  /\ UNCHANGED <<executed, last>>

\* A call is refused at once.
Refuse(o) ==
  /\ call = NoCall
  /\ issued' = issued + 1
  /\ \E out \in Exceptions :
       last' = Result([op |-> o, no |-> issued + 1], out, 0)
  /\ UNCHANGED <<call, executed>>

\* The agent carries out a call that has begun, after every call it carried
\* out before.
Execute(n) ==
  /\ n \in 1 .. issued
  /\ \A i \in 1 .. Len(executed) : executed[i] < n
  /\ executed' = Append(executed, n)
  /\ UNCHANGED <<call, issued, last>>

\* The call in progress returns its own answer.
Return ==
  /\ call # NoCall
  /\ \E i \in 1 .. Len(executed) : executed[i] = call.no
  /\ \E out \in Answers : last' = Result(call, out, call.no)
  /\ call' = NoCall
  /\ UNCHANGED <<issued, executed>>

\* The call in progress throws.
Throw ==
  /\ call # NoCall
  /\ \E out \in Exceptions : last' = Result(call, out, 0)
  /\ call' = NoCall
  /\ UNCHANGED <<issued, executed>>

Next ==
  \/ \E o \in Ops : Begin(o) \/ Refuse(o)
  \/ \E n \in 1 .. issued : Execute(n)
  \/ Return
  \/ Throw

Spec == Init /\ [][Next]_serviceVars
=============================================================================
