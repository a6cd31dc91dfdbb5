-------------------------- MODULE DocumentTransfer --------------------------
(***************************************************************************)
(* What encrypt() and decrypt() promise together: what the receiver writes *)
(* is the document, from its first byte on and never anything else, and    *)
(* when both ends have returned it is all of it.  Either may throw at any  *)
(* moment; the receiver does not return before the sender is over.  No IV, *)
(* chunk or cipher appears here.                                           *)
(***************************************************************************)
EXTENDS Integers, Sequences

CONSTANTS Lengths  \* the lengths of documents

VARIABLES
  length,    \* length of the document that is sent
  sender,    \* where the sender is
  receiver,  \* where the receiver is
  out        \* what the receiver has written

transferVars == <<length, sender, receiver, out>>

Over == {"idle", "returned", "threw"}

\* The first n bytes of the document; the i-th is the number i.
First(n) == [i \in 1 .. n |-> i]

Init == length = 0 /\ sender = "idle" /\ receiver = "idle" /\ out = <<>>

\* The next document; of the last one nothing is left.
Begin ==
  /\ sender \in Over /\ receiver \in Over
  /\ length' \in Lengths
  /\ sender' = "running" /\ receiver' = "running"
  /\ out' = <<>>

\* More of the document is written.
Grow == \E n \in Len(out) .. length : out' = First(n)

Write ==
  /\ receiver = "running"
  /\ Grow
  /\ UNCHANGED <<length, sender, receiver>>

SenderEnds ==
  /\ sender = "running"
  /\ sender' \in {"returned", "threw"}
  /\ UNCHANGED <<length, receiver, out>>

ReceiverReturns ==
  /\ receiver = "running"
  /\ sender # "running"
  /\ sender = "returned" => out = First(length)
  /\ receiver' = "returned"
  /\ UNCHANGED <<length, sender, out>>

\* A part of what was being written may have been.
ReceiverThrows ==
  /\ receiver = "running"
  /\ Grow
  /\ receiver' = "threw"
  /\ UNCHANGED <<length, sender>>

Next == Begin \/ Write \/ SenderEnds \/ ReceiverReturns \/ ReceiverThrows

Spec == Init /\ [][Next]_transferVars
=============================================================================
