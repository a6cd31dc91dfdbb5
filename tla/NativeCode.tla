----------------------------- MODULE NativeCode -----------------------------
(***************************************************************************)
(* The form of the native half's functions.  Each of them is a list of     *)
(* steps, which acquire what the function needs and call the libraries,    *)
(* followed by the list of what it releases before it returns.  A step     *)
(* that fails leaves by goto to a label of the second list, and everything *)
(* from that label on is released; the labels are named after the resource *)
(* that is released there.                                                 *)
(*                                                                         *)
(* Resources are buffers and contexts of vccrypt, vccert and vpr, elements *)
(* of Java arrays, and the local references that a function deletes.       *)
(***************************************************************************)
EXTENDS Integers, Sequences

\* The label of a plain return: nothing is released.
Done == "done"

Step(op, res, to, drop, jumps) ==
  [op |-> op, res |-> res, to |-> to, drop |-> drop, jumps |-> jumps]

\* A test, or a call of a library or of Java, that can fail.
Try(to) == Step("try", "", to, {}, {})
Tries(n, to) == [i \in 1 .. n |-> Try(to)]

\* The same; the branch that handles the failure releases res itself.
TryOrGive(res, to) == Step("try", "", to, {res}, {})

\* A test whose failure is the function's answer: no exception is thrown.
Quiet(to) == Step("quiet", "", to, {}, {})

\* res is acquired, or the function leaves for to.
Take(res, to) == Step("take", res, to, {}, {})

\* One after the other; when one is not acquired, what came before is
\* released, from the last on.
Takes(names, to) ==
  [i \in 1 .. Len(names) |-> Take(names[i], IF i = 1 THEN to ELSE names[i - 1])]

\* res is acquired and the code does not look whether it was.
Get(res) == Step("get", res, Done, {}, {})

\* res is released before the end.
Give(res) == Step("give", res, Done, {}, {})

\* The MAC of the input is compared; data of the input are decrypted; a key
\* that came with the input is.
Verify(to) == Step("verify", "", to, {}, {})
Decrypt(to) == Step("decrypt", "", to, {}, {})
Unwrap(to) == Step("unwrap", "", to, {}, {})

\* The value to be returned is assigned.
Result == Step("result", "", Done, {}, {})

\* A condition: the next step is one of these many further on.
Branch(jumps) == Step("branch", "", Done, {}, jumps)

\* Steps that are taken or not, and steps that are taken once or more often.
Maybe(steps) == <<Branch({1, Len(steps) + 1})>> \o steps
Repeat(steps) == steps \o <<Branch({1, -Len(steps)})>>

\* The ops of steps that can fail, and of those whose failure is an exception.
Failing == {"try", "quiet", "take", "verify", "decrypt", "unwrap"}
Throwing == Failing \ {"quiet"}

\* Members of a Java class that the native half uses, by their ids.
Of(class, members) == {class} \X members

\* A function: its steps, its releases in order, those of its resources that
\* are local references (the JVM frees what is left of them on return), and
\* the members of Java classes that it uses.
Function(body, cleanup, refs, ids) ==
  [body |-> body, cleanup |-> cleanup, refs |-> refs, ids |-> ids]

-----------------------------------------------------------------------------

\* Mutant: a plain return after the releases goes past the end.
LabelAt_PastEnd(cleanup, label) ==
  IF label = Done THEN Len(cleanup) + 2
  ELSE CHOOSE i \in 1 .. Len(cleanup) : cleanup[i] = label

\* Where in the cleanup a label is.
LabelAt(cleanup, label) ==
  IF label = Done THEN Len(cleanup) + 1
  ELSE CHOOSE i \in 1 .. Len(cleanup) : cleanup[i] = label

\* What is held after a step that succeeded.
After(step, held) ==
  CASE step.op \in {"take", "get"} -> held \cup {step.res}
    [] step.op = "give" -> held \ {step.res}
    [] OTHER -> held
=============================================================================
