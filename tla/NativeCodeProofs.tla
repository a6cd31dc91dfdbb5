-------------------------- MODULE NativeCodeProofs --------------------------
(***************************************************************************)
(* The functions of the native half are well formed, report how they ended *)
(* and authenticate what they decrypt.  This is shown part by part: what   *)
(* the steps up to one of them lead to is a level of the cleanup, the      *)
(* first of the releases that are due, with what else is held and with the *)
(* marks that were passed.  Each form of step leads from one such state to *)
(* another, and so do the steps of a function from its first to its last.  *)
(***************************************************************************)
EXTENDS CryptNatives, CertNatives, DocumentNatives, AgentdNatives,
        SequenceTheorems, FiniteSetTheorems, WellFoundedInduction, TLAPS

Ops == Failing \cup {"get", "give", "result", "branch"}

\* What can be said of a step by itself.
IsStep(step) == step.op \in Ops /\ step.jumps \subseteq Int

\* What is released from the i-th release on.
Released(cleanup, i) == {cleanup[j] : j \in i .. Len(cleanup)}

\* What is held at each step, if the steps before it succeeded.
HoldingOf(f) ==
  LET h[i \in 1 .. Len(f.body) + 1] ==
        IF i = 1 THEN {} ELSE After(f.body[i - 1], h[i - 1])
  IN  h

(***************************************************************************)
(* A function is well formed under an annotation h, which gives for every  *)
(* place in its steps what is held there, if the annotation agrees with    *)
(* the steps, if no resource has two releases, if every exit releases only *)
(* what is held then, and if what it does not release is in lost.failed,   *)
(* for an exit that handles a failure, or in lost.passed, for the end of   *)
(* the steps.                                                              *)
(***************************************************************************)
AnnotationHolds(f, h) ==
  /\ DOMAIN h = 1 .. Len(f.body) + 1
  /\ h[1] = {}
  /\ \A i \in 1 .. Len(f.body) :
       IF f.body[i].op = "branch"
       THEN \A d \in f.body[i].jumps :
              i + d \in 1 .. Len(f.body) + 1 /\ h[i + d] = h[i]
       ELSE h[i + 1] = After(f.body[i], h[i])

ExitReleases(f, held, at, lost) ==
  /\ at \in 1 .. Len(f.cleanup) + 1
  /\ Released(f.cleanup, at) \subseteq held
  /\ held \ Released(f.cleanup, at) \subseteq lost

WellFormed(f, h, lost) ==
  /\ Len(f.body) \in Nat /\ Len(f.cleanup) \in Nat
  /\ \A i \in 1 .. Len(f.body) : IsStep(f.body[i])
  /\ AnnotationHolds(f, h)
  /\ \A i, j \in 1 .. Len(f.cleanup) : f.cleanup[i] = f.cleanup[j] => i = j
  /\ \A i \in 1 .. Len(f.body) : f.body[i].op \in Failing =>
       ExitReleases(f, h[i] \ f.body[i].drop,
                    LabelAt(f.cleanup, f.body[i].to), lost.failed \cup f.refs)
  /\ ExitReleases(f, h[Len(f.body) + 1], 1, lost.passed \cup f.refs)

\* Before the i-th step there is one that is such an op, on every path: no
\* branch jumps over it or back to where it is yet to come.
Before(f, op, i) == \E j \in 1 .. i - 1 : f.body[j].op = op

OnEveryPath(f, op) ==
  \A i \in 1 .. Len(f.body) : f.body[i].op = "branch" =>
    \A d \in f.body[i].jumps : Before(f, op, i + d) <=> Before(f, op, i)

\* A function reports how it ended if it assigns its value before the end of
\* its steps, and after every failure that is an answer.
Reports(f) ==
  /\ OnEveryPath(f, "result")
  /\ Before(f, "result", Len(f.body) + 1)
  /\ \A i \in 1 .. Len(f.body) :
       f.body[i].op = "quiet" => ~Before(f, "result", i)

\* It authenticates the data that it decrypts if it compares the MAC before.
Authenticates(f) ==
  /\ OnEveryPath(f, "verify")
  /\ \A i \in 1 .. Len(f.body) :
       f.body[i].op = "decrypt" => Before(f, "verify", i)

-----------------------------------------------------------------------------
(* The parts of a function.                                                *)

\* What a step may rely on having been done before it.
Marks == {"result", "verify"}

\* A state between two steps, and the state after a step that succeeded.
State(held, done) == [held |-> held, done |-> done]

Succeeded(step, st) ==
  State(After(step, st.held), st.done \cup ({step.op} \cap Marks))

\* The releases from a label on are what is held, but for what may be left.
ExitFits(c, held, to, free) ==
  /\ LabelAt(c, to) \in 1 .. Len(c) + 1
  /\ Released(c, LabelAt(c, to)) \subseteq held
  /\ held \ Released(c, LabelAt(c, to)) \subseteq free

\* A step is in order in a state, in a function with the cleanup c whose
\* failures may leave free behind and that decrypts only after need.
InOrder(c, free, need, step, st) ==
  /\ IsStep(step)
  /\ step.op \in Failing => ExitFits(c, st.held \ step.drop, step.to, free)
  /\ step.op = "quiet" => "result" \notin st.done
  /\ step.op = "decrypt" => need \subseteq st.done

\* One that is no branch leads, when it succeeds, from st to next.
Move(c, free, need, step, st, next) ==
  /\ InOrder(c, free, need, step, st)
  /\ step.op # "branch"
  /\ next = Succeeded(step, st)

IsList(s) == \E S : s \in Seq(S)

\* w is t and then u.
Joins(t, u, w) ==
  /\ IsList(t) /\ IsList(u) /\ IsList(w)
  /\ Len(w) = Len(t) + Len(u)
  /\ \A i \in 1 .. Len(t) : w[i] = t[i]
  /\ \A i \in 1 .. Len(u) : w[Len(t) + i] = u[i]

\* w is a loop around s.
Loops(s, w) ==
  /\ IsList(s) /\ IsList(w)
  /\ Len(w) = Len(s) + 2
  /\ w[1] = Branch({1, Len(s) + 2}) /\ w[Len(s) + 2] = Branch({-(Len(s) + 1)})
  /\ \A i \in 1 .. Len(s) : w[i + 1] = s[i]

\* Some steps, all in order, lead from the state a to the state b.
Leads(c, free, need, s, a, b, g) ==
  /\ g[1] = a /\ g[Len(s) + 1] = b
  /\ \A i \in 1 .. Len(s) :
       /\ InOrder(c, free, need, s[i], g[i])
       /\ g[i + 1] = Succeeded(s[i], g[i])
       /\ s[i].op = "branch" =>
            \A d \in s[i].jumps :
              i + d \in 1 .. Len(s) + 1 /\ g[i + d] = g[i]

Path(c, free, need, s, a, b) ==
  /\ IsList(s)
  /\ \E g : Leads(c, free, need, s, a, b, g)

\* The state in which the releases from p on are due, and more is held.
Level(c, p, more, done) == State(Released(c, p) \cup more, done)

\* The steps s of a function lead from its beginning to a level.
Reach(c, free, need, s, p, more, done) ==
  Path(c, free, need, s, Level(c, Len(c) + 1, {}, {}), Level(c, p, more, done))

\* The releases of a function name each resource once.
Labels(c) ==
  /\ IsList(c)
  /\ \A i, j \in 1 .. Len(c) : c[i] = c[j] => i = j
  /\ \A i \in 1 .. Len(c) : c[i] # Done

\* The label at which the releases from p on begin.
Top(c, p, to) ==
  /\ p \in 1 .. Len(c) + 1
  /\ to = (IF p = Len(c) + 1 THEN Done ELSE c[p])

\* The release before those from p on.
Above(c, p, res, q) == p \in 2 .. Len(c) + 1 /\ q = p - 1 /\ res = c[q]

\* The releases from q to those from p on, in the opposite order.
Opposite(c, p, names, q) ==
  /\ p \in 1 .. Len(c) + 1 /\ q \in 1 .. p
  /\ Len(names) = p - q
  /\ \A i \in 1 .. p - q : names[i] = c[p - i]

\* What is left of more with res, or without it.
With(more, res, left) == left = more \cup {res}
Without(more, res, left) == left = more \ {res}

-----------------------------------------------------------------------------
(* Releases and labels.                                                    *)

\* From one release on, with the first of them taken apart.
LEMMA ReleasedNext ==
  ASSUME NEW c, NEW i \in 1 .. Len(c), Len(c) \in Nat
  PROVE  /\ Released(c, i) = {c[i]} \cup Released(c, i + 1)
         /\ c[i] \in Released(c, i)
<1>1. 1 .. Len(c) \subseteq Int /\ i \in Int
  OBVIOUS
<1>2. i .. Len(c) = {i} \cup (i + 1 .. Len(c))
  BY <1>1
<1> QED
  BY <1>2 DEF Released

\* Past the end nothing is released.
LEMMA ReleasedEnd ==
  ASSUME NEW c, NEW i \in Int, Len(c) \in Nat, i > Len(c)
  PROVE  Released(c, i) = {}
BY DEF Released

\* The label of a level is where the level is.
LEMMA LabelIs ==
  ASSUME NEW c, Labels(c), NEW p, NEW to, Top(c, p, to)
  PROVE  LabelAt(c, to) = p
<1>1. Len(c) \in Nat /\ p \in 1 .. Len(c) + 1
  BY DEF Labels, IsList, Top
<1>2. CASE p = Len(c) + 1
  BY <1>2 DEF LabelAt, Top
<1>3. CASE p \in 1 .. Len(c)
  <2>1. to = c[p] /\ to # Done
    BY <1>1, <1>3 DEF Top, Labels
  <2>2. \A i \in 1 .. Len(c) : c[i] = to => i = p
    BY <1>3, <2>1 DEF Labels
  <2>3. LabelAt(c, to) = CHOOSE i \in 1 .. Len(c) : c[i] = to
    BY <2>1 DEF LabelAt
  <2> QED
    BY <1>3, <2>1, <2>2, <2>3
<1> QED
  BY <1>1, <1>2, <1>3

\* Whoever leaves for the label of the level leaves what else it holds.
LEMMA LevelExit ==
  ASSUME NEW c, Labels(c), NEW p, NEW to, Top(c, p, to), NEW free,
         NEW more \in SUBSET free
  PROVE  ExitFits(c, Released(c, p) \cup more, to, free)
<1>1. LabelAt(c, to) = p
  BY LabelIs
<1>2. p \in 1 .. Len(c) + 1
  BY DEF Top
<1> QED
  BY <1>1, <1>2 DEF ExitFits

-----------------------------------------------------------------------------
(* Steps after steps.                                                      *)

\* One step.
LEMMA PathOne ==
  ASSUME NEW c, NEW free, NEW need, NEW step, NEW a, NEW b,
         Move(c, free, need, step, a, b)
  PROVE  Path(c, free, need, <<step>>, a, b)
<1> DEFINE g == <<a, b>>
<1>1. <<step>> \in Seq({step}) /\ Len(<<step>>) = 1 /\ <<step>>[1] = step
  OBVIOUS
<1>2. g[1] = a /\ g[2] = b
  OBVIOUS
<1> HIDE DEF g
<1>3. Leads(c, free, need, <<step>>, a, b, g)
  BY <1>1, <1>2 DEF Leads, Move
<1> QED
  BY <1>1, <1>3 DEF Path, IsList

\* Steps that lead on from where others led to.
LEMMA PathJoin ==
  ASSUME NEW c, NEW free, NEW need, NEW s, NEW t, NEW a, NEW b, NEW e,
         Path(c, free, need, s, a, b), Path(c, free, need, t, b, e)
  PROVE  Path(c, free, need, s \o t, a, e)
<1>1. PICK g : Leads(c, free, need, s, a, b, g)
  BY DEF Path
<1>2. PICK h : Leads(c, free, need, t, b, e, h)
  BY DEF Path
<1> DEFINE m == Len(s)
           n == Len(t)
           k == [i \in 1 .. m + n + 1 |-> IF i <= m THEN g[i] ELSE h[i - m]]
<1>0. PICK S, T : s \in Seq(S) /\ t \in Seq(T)
  BY DEF Path, IsList
<1>3. m \in Nat /\ n \in Nat
  BY <1>0
<1>4. /\ s \o t \in Seq(S \cup T) /\ Len(s \o t) = m + n
      /\ \A i \in 1 .. m : (s \o t)[i] = s[i]
      /\ \A i \in m + 1 .. m + n : (s \o t)[i] = t[i - m]
  <2>1. s \in Seq(S \cup T) /\ t \in Seq(S \cup T)
    BY <1>0
  <2> QED
    BY <1>3, <2>1, ConcatProperties
<1>5. /\ g[1] = a /\ g[m + 1] = b /\ h[1] = b /\ h[n + 1] = e
  BY <1>1, <1>2 DEF Leads
<1>6. /\ \A i \in 1 .. m + 1 : k[i] = g[i]
      /\ \A j \in 1 .. n + 1 : k[m + j] = h[j]
  <2>1. \A i \in m + 1 .. m + n + 1 : k[i] = h[i - m]
    BY <1>3, <1>5
  <2>2. \A j \in 1 .. n + 1 :
          m + j \in m + 1 .. m + n + 1 /\ (m + j) - m = j
    BY <1>3
  <2> QED
    BY <1>3, <1>5, <2>1, <2>2
<1> HIDE DEF k, m, n
<1>7. k[1] = a /\ k[Len(s \o t) + 1] = e
  <2>1. m + n + 1 = m + (n + 1) /\ n + 1 \in 1 .. n + 1 /\ 1 \in 1 .. m + 1
    BY <1>3
  <2>2. k[m + (n + 1)] = h[n + 1] /\ k[1] = g[1]
    BY <1>6, <2>1
  <2> QED
    BY <1>4, <1>5, <2>1, <2>2
<1>8. ASSUME NEW i \in 1 .. Len(s \o t)
      PROVE  /\ InOrder(c, free, need, (s \o t)[i], k[i])
             /\ k[i + 1] = Succeeded((s \o t)[i], k[i])
             /\ (s \o t)[i].op = "branch" =>
                  \A d \in (s \o t)[i].jumps :
                    i + d \in 1 .. Len(s \o t) + 1 /\ k[i + d] = k[i]
  <2>1. CASE i \in 1 .. m
    <3>1. (s \o t)[i] = s[i] /\ k[i] = g[i] /\ k[i + 1] = g[i + 1]
      <4>1. i \in 1 .. m + 1 /\ i + 1 \in 1 .. m + 1
        BY <1>3, <2>1
      <4> QED
        BY <1>4, <1>6, <2>1, <4>1
    <3>2. /\ InOrder(c, free, need, s[i], g[i])
          /\ g[i + 1] = Succeeded(s[i], g[i])
      BY <1>1, <2>1 DEF Leads, m
    <3>3. ASSUME s[i].op = "branch", NEW d \in s[i].jumps
          PROVE  i + d \in 1 .. Len(s \o t) + 1 /\ k[i + d] = k[i]
      <4>1. i + d \in 1 .. m + 1 /\ g[i + d] = g[i]
        BY <1>1, <2>1, <3>3 DEF Leads, m
      <4> QED
        BY <1>3, <1>4, <1>6, <2>1, <3>1, <4>1
    <3> QED
      BY <3>1, <3>2, <3>3
  <2>2. CASE i \in m + 1 .. m + n
    <3>0. PICK j \in 1 .. n : i = m + j
      <4>1. i - m \in 1 .. n /\ i = m + (i - m)
        BY <1>3, <2>2
      <4> QED
        BY <4>1
    <3>1. (s \o t)[i] = t[j] /\ k[i] = h[j] /\ k[i + 1] = h[j + 1]
      <4>1. /\ i + 1 = m + (j + 1) /\ j \in 1 .. n + 1 /\ j + 1 \in 1 .. n + 1
            /\ i - m = j
        BY <1>3, <3>0
      <4>2. k[i] = h[j] /\ k[m + (j + 1)] = h[j + 1]
        BY <1>6, <3>0, <4>1
      <4>3. (s \o t)[i] = t[i - m]
        BY <1>4, <2>2
      <4> QED
        BY <4>1, <4>2, <4>3
    <3>2. /\ InOrder(c, free, need, t[j], h[j])
          /\ h[j + 1] = Succeeded(t[j], h[j])
      BY <1>2, <3>0 DEF Leads, n
    <3>3. ASSUME t[j].op = "branch", NEW d \in t[j].jumps
          PROVE  i + d \in 1 .. Len(s \o t) + 1 /\ k[i + d] = k[i]
      <4>1. j + d \in 1 .. n + 1 /\ h[j + d] = h[j]
        BY <1>2, <3>0, <3>3 DEF Leads, n
      <4>2. d \in Int
        <5>1. IsStep(t[j])
          BY <3>2 DEF InOrder
        <5> QED
          BY <3>3, <5>1 DEF IsStep
      <4>3. i + d = m + (j + d) /\ i + d \in 1 .. m + n + 1
        BY <1>3, <3>0, <4>1, <4>2
      <4>4. k[m + (j + d)] = h[j + d]
        BY <1>6, <4>1
      <4> QED
        BY <1>4, <3>1, <4>1, <4>3, <4>4
    <3> QED
      BY <3>1, <3>2, <3>3
  <2> QED
    BY <1>3, <1>4, <2>1, <2>2
<1>9. Leads(c, free, need, s \o t, a, e, k)
  BY <1>7, <1>8 DEF Leads
<1> QED
  BY <1>4, <1>9 DEF Path, IsList

\* The forms of a step are steps.
LEMMA Forms ==
  ASSUME NEW res, NEW to
  PROVE  /\ IsStep(Try(to)) /\ IsStep(TryOrGive(res, to))
         /\ IsStep(Quiet(to)) /\ IsStep(Take(res, to))
         /\ IsStep(Get(res)) /\ IsStep(Give(res))
         /\ IsStep(Verify(to)) /\ IsStep(Decrypt(to))
         /\ IsStep(Unwrap(to)) /\ IsStep(Result)
BY DEF Try, TryOrGive, Quiet, Take, Get, Give, Verify, Decrypt, Unwrap, Result,
       Step, IsStep, Ops, Failing

-----------------------------------------------------------------------------
(* What each form of step does.                                            *)

\* A test, or a call that can fail: nothing changes.
LEMMA MoveTry ==
  ASSUME NEW c, Labels(c), NEW free, NEW need, NEW p, NEW more \in SUBSET free,
         NEW done, NEW to, Top(c, p, to)
  PROVE  Move(c, free, need, Try(to), Level(c, p, more, done),
              Level(c, p, more, done))
<1>2. IsStep(Try(to))
  BY Forms
<1>3. ExitFits(c, Released(c, p) \cup more, to, free)
  BY LevelExit
<1>4. Try(to).op = "try" /\ Try(to).to = to /\ Try(to).drop = {}
  BY DEF Try, Step
<1>5. ExitFits(c, (Released(c, p) \cup more) \ {}, to, free)
  BY <1>3 DEF ExitFits
<1>6. {"try"} \cap Marks = {}
  BY DEF Marks
<1> QED
  BY <1>2, <1>4, <1>5, <1>6 DEF Move, InOrder, Level, State, Succeeded, After

\* The level with one more release due.
LEMMA LevelUp ==
  ASSUME NEW c, Labels(c), NEW p, NEW q, NEW res, Above(c, p, res, q), NEW more
  PROVE  /\ q \in 1 .. Len(c) + 1
         /\ Released(c, q) \cup more = (Released(c, p) \cup more) \cup {res}
<1>1. Len(c) \in Nat
  BY DEF Labels, IsList
<1>2. q \in 1 .. Len(c) /\ q + 1 = p /\ c[q] = res
  BY <1>1 DEF Above
<1>3. Released(c, q) = {c[q]} \cup Released(c, p)
  BY <1>1, <1>2, ReleasedNext
<1> QED
  BY <1>1, <1>2, <1>3

\* A resource is acquired that has a release.
LEMMA MoveTake ==
  ASSUME NEW c, Labels(c), NEW free, NEW need, NEW p, NEW more \in SUBSET free,
         NEW done, NEW to, Top(c, p, to), NEW res, NEW q, Above(c, p, res, q)
  PROVE  Move(c, free, need, Take(res, to), Level(c, p, more, done),
              Level(c, q, more, done))
<1>3. IsStep(Take(res, to))
  BY Forms
<1>4. ExitFits(c, (Released(c, p) \cup more) \ {}, to, free)
  BY LevelExit DEF ExitFits
<1>5. /\ Take(res, to).op = "take" /\ Take(res, to).to = to
      /\ Take(res, to).drop = {} /\ Take(res, to).res = res
  BY DEF Take, Step
<1>6. {"take"} \cap Marks = {}
  BY DEF Marks
<1>7. Released(c, q) \cup more = (Released(c, p) \cup more) \cup {res}
  BY LevelUp
<1> QED
  BY <1>3, <1>4, <1>5, <1>6, <1>7
  DEF Move, InOrder, Level, State, Succeeded, After

\* A resource is acquired that has no release among those at the end.
LEMMA MoveTakeMore ==
  ASSUME NEW c, Labels(c), NEW free, NEW need, NEW p, NEW more \in SUBSET free,
         NEW done, NEW to, Top(c, p, to), NEW res, NEW left,
         With(more, res, left)
  PROVE  Move(c, free, need, Take(res, to), Level(c, p, more, done),
              Level(c, p, left, done))
<1>1. IsStep(Take(res, to))
  BY Forms
<1>2. ExitFits(c, (Released(c, p) \cup more) \ {}, to, free)
  BY LevelExit DEF ExitFits
<1>3. /\ Take(res, to).op = "take" /\ Take(res, to).to = to
      /\ Take(res, to).drop = {} /\ Take(res, to).res = res
  BY DEF Take, Step
<1>4. {"take"} \cap Marks = {}
  BY DEF Marks
<1>5. Released(c, p) \cup left = (Released(c, p) \cup more) \cup {res}
  BY DEF With
<1> QED
  BY <1>1, <1>2, <1>3, <1>4, <1>5
  DEF Move, InOrder, Level, State, Succeeded, After

\* A step that only acquires, releases or marks: it cannot fail.
LEMMA SureInOrder ==
  ASSUME NEW c, NEW free, NEW need, NEW step, NEW a, IsStep(step),
         step.op \notin Failing
  PROVE  InOrder(c, free, need, step, a)
BY DEF InOrder, Failing

\* What is not among the releases that are due.
Apart(c, p, res) == res \notin Released(c, p)

\* A resource is acquired without a look at whether it was.
LEMMA MoveGet ==
  ASSUME NEW c, Labels(c), NEW free, NEW need, NEW p, NEW more, NEW done,
         NEW res, NEW q, Above(c, p, res, q)
  PROVE  Move(c, free, need, Get(res), Level(c, p, more, done),
              Level(c, q, more, done))
<1>1. Get(res).op = "get" /\ Get(res).res = res
  BY DEF Get, Step
<1>2. InOrder(c, free, need, Get(res), Level(c, p, more, done))
  BY <1>1, Forms, SureInOrder DEF Failing
<1>3. {"get"} \cap Marks = {}
  BY DEF Marks
<1>4. Released(c, q) \cup more = (Released(c, p) \cup more) \cup {res}
  BY LevelUp
<1> QED
  BY <1>1, <1>2, <1>3, <1>4 DEF Move, Succeeded, Level, State, After

\* The same, of a resource that no label releases.
LEMMA MoveGetMore ==
  ASSUME NEW c, NEW free, NEW need, NEW p, NEW more, NEW done,
         NEW res, NEW left, With(more, res, left)
  PROVE  Move(c, free, need, Get(res), Level(c, p, more, done),
              Level(c, p, left, done))
<1>1. Get(res).op = "get" /\ Get(res).res = res
  BY DEF Get, Step
<1>2. InOrder(c, free, need, Get(res), Level(c, p, more, done))
  BY <1>1, Forms, SureInOrder DEF Failing
<1>3. {"get"} \cap Marks = {}
  BY DEF Marks
<1>4. Released(c, p) \cup left = (Released(c, p) \cup more) \cup {res}
  BY DEF With
<1> QED
  BY <1>1, <1>2, <1>3, <1>4 DEF Move, Succeeded, Level, State, After

\* A resource is released before the end.
LEMMA MoveGive ==
  ASSUME NEW c, NEW free, NEW need, NEW p, NEW more, NEW done,
         NEW res, Apart(c, p, res), NEW left, Without(more, res, left)
  PROVE  Move(c, free, need, Give(res), Level(c, p, more, done),
              Level(c, p, left, done))
<1>1. Give(res).op = "give" /\ Give(res).res = res
  BY DEF Give, Step
<1>2. InOrder(c, free, need, Give(res), Level(c, p, more, done))
  BY <1>1, Forms, SureInOrder DEF Failing
<1>3. {"give"} \cap Marks = {}
  BY DEF Marks
<1>4. Released(c, p) \cup left = (Released(c, p) \cup more) \ {res}
  BY DEF Apart, Without
<1> QED
  BY <1>1, <1>2, <1>3, <1>4 DEF Move, Succeeded, Level, State, After

\* The value is assigned.
LEMMA MoveResult ==
  ASSUME NEW c, NEW free, NEW need, NEW p, NEW more, NEW done
  PROVE  Move(c, free, need, Result, Level(c, p, more, done),
              Level(c, p, more, done \cup {"result"}))
<1>1. Result.op = "result"
  BY DEF Result, Step
<1>2. InOrder(c, free, need, Result, Level(c, p, more, done))
  BY <1>1, Forms, SureInOrder DEF Failing
<1>3. {"result"} \cap Marks = {"result"}
  BY DEF Marks
<1> QED
  BY <1>1, <1>2, <1>3 DEF Move, Succeeded, Level, State, After

\* The MAC is compared.
LEMMA MoveVerify ==
  ASSUME NEW c, Labels(c), NEW free, NEW need, NEW p, NEW more \in SUBSET free,
         NEW done, NEW to, Top(c, p, to)
  PROVE  Move(c, free, need, Verify(to), Level(c, p, more, done),
              Level(c, p, more, done \cup {"verify"}))
<1>1. /\ Verify(to).op = "verify" /\ Verify(to).to = to /\ Verify(to).drop = {}
      /\ IsStep(Verify(to))
  <2>1. IsStep(Verify(to))
    BY Forms
  <2> QED
    BY <2>1 DEF Verify, Step
<1>2. ExitFits(c, (Released(c, p) \cup more) \ {}, to, free)
  BY LevelExit DEF ExitFits
<1>3. InOrder(c, free, need, Verify(to), Level(c, p, more, done))
  BY <1>1, <1>2 DEF InOrder, Level, State
<1>4. {"verify"} \cap Marks = {"verify"}
  BY DEF Marks
<1> QED
  BY <1>1, <1>3, <1>4 DEF Move, Succeeded, Level, State, After

\* Something is decrypted, past what has to come before.
LEMMA MoveDecrypt ==
  ASSUME NEW c, Labels(c), NEW free, NEW need, NEW p, NEW more \in SUBSET free,
         NEW done, need \subseteq done, NEW to, Top(c, p, to)
  PROVE  Move(c, free, need, Decrypt(to), Level(c, p, more, done),
              Level(c, p, more, done))
<1>1. /\ Decrypt(to).op = "decrypt" /\ Decrypt(to).to = to /\ Decrypt(to).drop = {}
      /\ IsStep(Decrypt(to))
  <2>1. IsStep(Decrypt(to))
    BY Forms
  <2> QED
    BY <2>1 DEF Decrypt, Step
<1>2. ExitFits(c, (Released(c, p) \cup more) \ {}, to, free)
  BY LevelExit DEF ExitFits
<1>3. InOrder(c, free, need, Decrypt(to), Level(c, p, more, done))
  BY <1>1, <1>2 DEF InOrder, Level, State
<1>4. {"decrypt"} \cap Marks = {}
  BY DEF Marks
<1> QED
  BY <1>1, <1>3, <1>4 DEF Move, Succeeded, Level, State, After

\* A key that came with the input is decrypted: nothing has to come before.
LEMMA MoveUnwrap ==
  ASSUME NEW c, Labels(c), NEW free, NEW need, NEW p, NEW more \in SUBSET free,
         NEW done, NEW to, Top(c, p, to)
  PROVE  Move(c, free, need, Unwrap(to), Level(c, p, more, done),
              Level(c, p, more, done))
<1>1. /\ Unwrap(to).op = "unwrap" /\ Unwrap(to).to = to /\ Unwrap(to).drop = {}
      /\ IsStep(Unwrap(to))
  <2>1. IsStep(Unwrap(to))
    BY Forms
  <2> QED
    BY <2>1 DEF Unwrap, Step
<1>2. ExitFits(c, (Released(c, p) \cup more) \ {}, to, free)
  BY LevelExit DEF ExitFits
<1>3. InOrder(c, free, need, Unwrap(to), Level(c, p, more, done))
  BY <1>1, <1>2 DEF InOrder, Level, State
<1>4. {"unwrap"} \cap Marks = {}
  BY DEF Marks
<1> QED
  BY <1>1, <1>3, <1>4 DEF Move, Succeeded, Level, State, After

\* A failure that is the answer comes before the value.
LEMMA MoveQuiet ==
  ASSUME NEW c, Labels(c), NEW free, NEW need, NEW p, NEW more \in SUBSET free,
         NEW done, "result" \notin done, NEW to, Top(c, p, to)
  PROVE  Move(c, free, need, Quiet(to), Level(c, p, more, done),
              Level(c, p, more, done))
<1>1. /\ Quiet(to).op = "quiet" /\ Quiet(to).to = to /\ Quiet(to).drop = {}
      /\ IsStep(Quiet(to))
  <2>1. IsStep(Quiet(to))
    BY Forms
  <2> QED
    BY <2>1 DEF Quiet, Step
<1>2. ExitFits(c, (Released(c, p) \cup more) \ {}, to, free)
  BY LevelExit DEF ExitFits
<1>3. InOrder(c, free, need, Quiet(to), Level(c, p, more, done))
  BY <1>1, <1>2 DEF InOrder, Level, State
<1>4. {"quiet"} \cap Marks = {}
  BY DEF Marks
<1> QED
  BY <1>1, <1>3, <1>4 DEF Move, Succeeded, Level, State, After

\* A failure releases what the label does not.
LEMMA MoveTryOrGive ==
  ASSUME NEW c, Labels(c), NEW free, NEW need, NEW p, NEW more, NEW done,
         NEW to, Top(c, p, to),
         NEW res, Apart(c, p, res), more \ {res} \subseteq free
  PROVE  Move(c, free, need, TryOrGive(res, to), Level(c, p, more, done),
              Level(c, p, more, done))
<1>1. /\ TryOrGive(res, to).op = "try" /\ TryOrGive(res, to).to = to
      /\ TryOrGive(res, to).drop = {res} /\ IsStep(TryOrGive(res, to))
  <2>1. IsStep(TryOrGive(res, to))
    BY Forms
  <2> QED
    BY <2>1 DEF TryOrGive, Step
<1>2. ExitFits(c, Released(c, p) \cup (more \ {res}), to, free)
  BY LevelExit
<1>3. (Released(c, p) \cup more) \ {res} = Released(c, p) \cup (more \ {res})
  BY DEF Apart
<1>4. InOrder(c, free, need, TryOrGive(res, to), Level(c, p, more, done))
  BY <1>1, <1>2, <1>3 DEF InOrder, Level, State
<1>5. {"try"} \cap Marks = {}
  BY DEF Marks
<1> QED
  BY <1>1, <1>4, <1>5 DEF Move, Succeeded, Level, State, After

-----------------------------------------------------------------------------
(* Several steps.                                                          *)

\* Several tests in a row.
LEMMA PathTries ==
  ASSUME NEW c, Labels(c), NEW free, NEW need, NEW p, NEW more \in SUBSET free,
         NEW done, NEW to, Top(c, p, to), NEW n \in Nat
  PROVE  Path(c, free, need, Tries(n, to), Level(c, p, more, done),
              Level(c, p, more, done))
<1> DEFINE a == Level(c, p, more, done)
           g == [i \in 1 .. n + 1 |-> a]
<1>1. Move(c, free, need, Try(to), a, a)
  BY MoveTry
<1>3. /\ Tries(n, to) \in Seq({Try(to)}) /\ Len(Tries(n, to)) = n
      /\ \A i \in 1 .. n : Tries(n, to)[i] = Try(to)
  BY DEF Tries
<1>4. \A i \in 1 .. n + 1 : g[i] = a
  OBVIOUS
<1> HIDE DEF a, g
<1>5. Leads(c, free, need, Tries(n, to), a, a, g)
  <2>1. 1 \in 1 .. n + 1 /\ n + 1 \in 1 .. n + 1
    OBVIOUS
  <2>2. \A i \in 1 .. n : i \in 1 .. n + 1 /\ i + 1 \in 1 .. n + 1
    OBVIOUS
  <2> QED
    BY <1>1, <1>3, <1>4, <2>1, <2>2 DEF Leads, Move
<1> QED
  BY <1>3, <1>5 DEF Path, IsList, a

\* Tests after which nothing has changed.
LEMMA ReachTries ==
  ASSUME NEW c, Labels(c), NEW free, NEW need, NEW s, NEW p,
         NEW more \in SUBSET free, NEW done,
         Reach(c, free, need, s, p, more, done), NEW to, Top(c, p, to),
         NEW n \in Nat
  PROVE  Reach(c, free, need, s \o Tries(n, to), p, more, done)
BY PathTries, PathJoin DEF Reach

\* Several in a row, in the order opposite to that of their releases.
LEMMA PathTakesOne ==
  ASSUME NEW c, Labels(c), NEW free, NEW need, NEW p \in 1 .. Len(c) + 1,
         NEW more \in SUBSET free, NEW done, NEW to, Top(c, p, to),
         NEW names, NEW n \in Nat, n < p, Len(names) = n,
         \A i \in 1 .. n : names[i] = c[p - i]
  PROVE  Path(c, free, need, Takes(names, to), Level(c, p, more, done),
              Level(c, p - n, more, done))
<1> DEFINE g == [i \in 1 .. n + 1 |-> Level(c, p - (i - 1), more, done)]
           step(i) == Take(names[i], IF i = 1 THEN to ELSE names[i - 1])
<1>1. Len(c) \in Nat /\ p \in Nat
  BY DEF Labels, IsList
<1>0. ASSUME NEW q, NEW label, NEW res, NEW r, Top(c, q, label),
             Above(c, q, res, r)
      PROVE  Move(c, free, need, Take(res, label), Level(c, q, more, done),
                  Level(c, r, more, done))
  BY <1>0, MoveTake
<1>2. ASSUME NEW i \in 1 .. n
      PROVE  Move(c, free, need, step(i), g[i], g[i + 1])
  <2> DEFINE q == p - (i - 1)
             label == IF i = 1 THEN to ELSE names[i - 1]
  <2>1. q \in 2 .. Len(c) + 1 /\ q - 1 = p - i
    BY <1>1
  <2>2. names[i] = c[q - 1]
    BY <2>1
  <2>3. Top(c, q, label)
    <3>1. CASE i = 1
      BY <1>1, <3>1
    <3>2. CASE i # 1
      <4>1. i - 1 \in 1 .. n /\ q # Len(c) + 1
        BY <1>1, <3>2
      <4>2. names[i - 1] = c[q]
        BY <4>1
      <4> QED
        BY <2>1, <3>2, <4>1, <4>2 DEF Top
    <3> QED
      BY <3>1, <3>2
  <2>4. g[i] = Level(c, q, more, done) /\ g[i + 1] = Level(c, q - 1, more, done)
    BY <1>1
  <2> HIDE DEF g, q, label
  <2>5. Above(c, q, names[i], q - 1)
    BY <2>1, <2>2 DEF Above
  <2>6. Move(c, free, need, Take(names[i], label), Level(c, q, more, done),
             Level(c, q - 1, more, done))
    BY <2>3, <2>5, <1>0, Zenon
  <2> QED
    BY <2>4, <2>6 DEF label
<1>3. g[1] = Level(c, p, more, done) /\ g[n + 1] = Level(c, p - n, more, done)
  BY <1>1
<1>5. Takes(names, to) = [i \in 1 .. n |-> step(i)]
  BY DEF Takes
<1> HIDE DEF g, step
<1>6. /\ Takes(names, to) \in Seq({step(i) : i \in 1 .. n}) /\ Len(Takes(names, to)) = n
      /\ \A i \in 1 .. n : Takes(names, to)[i] = step(i)
  <2> DEFINE S == {step(i) : i \in 1 .. n}
  <2>1. \A i \in 1 .. n : step(i) \in S
    OBVIOUS
  <2> HIDE DEF S
  <2>2. [i \in 1 .. n |-> step(i)] \in Seq(S)
    BY <2>1
  <2>3. Len([i \in 1 .. n |-> step(i)]) = n
    OBVIOUS
  <2> QED
    BY <1>5, <2>2, <2>3 DEF S
<1>7. Leads(c, free, need, Takes(names, to), Level(c, p, more, done),
            Level(c, p - n, more, done), g)
  BY <1>2, <1>3, <1>6 DEF Leads, Move
<1> QED
  BY <1>6, <1>7 DEF Path, IsList

\* Resources taken one after the other are those of the labels from p upwards.
LEMMA PathTakes ==
  ASSUME NEW c, Labels(c), NEW free, NEW need, NEW p,
         NEW more \in SUBSET free, NEW done, NEW to, Top(c, p, to),
         NEW names, NEW q, Opposite(c, p, names, q)
  PROVE  Path(c, free, need, Takes(names, to), Level(c, p, more, done),
              Level(c, q, more, done))
<1>1. Len(c) \in Nat
  BY DEF Labels, IsList
<1> DEFINE n == p - q
<1>2. /\ p \in 1 .. Len(c) + 1
      /\ n \in Nat /\ n < p /\ p - n = q
      /\ Len(names) = n /\ \A i \in 1 .. n : names[i] = c[p - i]
  BY <1>1 DEF Opposite
<1> HIDE DEF n
<1>3. Path(c, free, need, Takes(names, to), Level(c, p, more, done),
           Level(c, p - n, more, done))
  BY <1>2, PathTakesOne
<1> QED
  BY <1>2, <1>3

\* The same, after steps that lead to p.
LEMMA ReachTakes ==
  ASSUME NEW c, Labels(c), NEW free, NEW need, NEW s, NEW p,
         NEW more \in SUBSET free, NEW done,
         Reach(c, free, need, s, p, more, done), NEW to, Top(c, p, to),
         NEW names, NEW q, Opposite(c, p, names, q)
  PROVE  Reach(c, free, need, s \o Takes(names, to), q, more, done)
BY PathTakes, PathJoin DEF Reach

\* Some other steps.
LEMMA ReachPath ==
  ASSUME NEW c, NEW free, NEW need, NEW s, NEW p, NEW more, NEW done,
         Reach(c, free, need, s, p, more, done),
         NEW t, NEW q, NEW left, NEW passed,
         Path(c, free, need, t, Level(c, p, more, done), Level(c, q, left, passed))
  PROVE  Reach(c, free, need, s \o t, q, left, passed)
BY PathJoin DEF Reach

\* A function begins with tests that release nothing.
LEMMA ReachFirst ==
  ASSUME NEW c, Labels(c), NEW free, NEW need, NEW p, Top(c, p, Done)
  PROVE  /\ \A n \in Nat : Reach(c, free, need, Tries(n, Done), p, {}, {})
         /\ Reach(c, free, need, <<Try(Done)>>, p, {}, {})
<1> DEFINE a == Level(c, p, {}, {})
<1>1. p = Len(c) + 1
  BY DEF Labels, IsList, Top
<1>2. \A n \in Nat : Path(c, free, need, Tries(n, Done), a, a)
  BY PathTries
<1>3. Path(c, free, need, <<Try(Done)>>, a, a)
  BY MoveTry, PathOne
<1> QED
  BY <1>1, <1>2, <1>3 DEF Reach

\* Lists of so many elements are lists.
LEMMA AreLists ==
  ASSUME NEW a, NEW b, NEW d, NEW e, NEW f, NEW g, NEW h,
         NEW i, NEW j, NEW k, NEW l, NEW m, NEW n
  PROVE  /\ IsList(<<a>>)
         /\ IsList(<<a, b>>)
         /\ IsList(<<a, b, d>>)
         /\ IsList(<<a, b, d, e>>)
         /\ IsList(<<a, b, d, e, f>>)
         /\ IsList(<<a, b, d, e, f, g>>)
         /\ IsList(<<a, b, d, e, f, g, h>>)
         /\ IsList(<<a, b, d, e, f, g, h, i>>)
         /\ IsList(<<a, b, d, e, f, g, h, i, j>>)
         /\ IsList(<<a, b, d, e, f, g, h, i, j, k>>)
         /\ IsList(<<a, b, d, e, f, g, h, i, j, k, l>>)
         /\ IsList(<<a, b, d, e, f, g, h, i, j, k, l, m>>)
         /\ IsList(<<a, b, d, e, f, g, h, i, j, k, l, m, n>>)
<1>0. ASSUME NEW S, NEW t, t \in Seq(S) PROVE IsList(t)
  BY <1>0 DEF IsList
<1>1. <<a>>
        \in Seq({a})
  OBVIOUS
<1>2. <<a, b>>
        \in Seq({a, b})
  OBVIOUS
<1>3. <<a, b, d>>
        \in Seq({a, b, d})
  OBVIOUS
<1>4. <<a, b, d, e>>
        \in Seq({a, b, d, e})
  OBVIOUS
<1>5. <<a, b, d, e, f>>
        \in Seq({a, b, d, e, f})
  OBVIOUS
<1>6. <<a, b, d, e, f, g>>
        \in Seq({a, b, d, e, f, g})
  OBVIOUS
<1>7. <<a, b, d, e, f, g, h>>
        \in Seq({a, b, d, e, f, g, h})
  OBVIOUS
<1>8. <<a, b, d, e, f, g, h, i>>
        \in Seq({a, b, d, e, f, g, h, i})
  OBVIOUS
<1>9. <<a, b, d, e, f, g, h, i, j>>
        \in Seq({a, b, d, e, f, g, h, i, j})
  OBVIOUS
<1>10. <<a, b, d, e, f, g, h, i, j, k>>
        \in Seq({a, b, d, e, f, g, h, i, j, k})
  OBVIOUS
<1>11. <<a, b, d, e, f, g, h, i, j, k, l>>
        \in Seq({a, b, d, e, f, g, h, i, j, k, l})
  OBVIOUS
<1>12. <<a, b, d, e, f, g, h, i, j, k, l, m>>
        \in Seq({a, b, d, e, f, g, h, i, j, k, l, m})
  OBVIOUS
<1>13. <<a, b, d, e, f, g, h, i, j, k, l, m, n>>
        \in Seq({a, b, d, e, f, g, h, i, j, k, l, m, n})
  OBVIOUS
<1> QED
  BY <1>0, <1>1, <1>2, <1>3, <1>4, <1>5, <1>6, <1>7, <1>8, <1>9, <1>10, <1>11,
     <1>12, <1>13, Zenon

\* Lists that are given by their elements are joined,
LEMMA JoinIs ==
  ASSUME NEW t, NEW u, NEW w, Joins(t, u, w)
  PROVE  t \o u = w
<1>1. PICK A, B, C : t \in Seq(A) /\ u \in Seq(B) /\ w \in Seq(C)
  BY DEF Joins, IsList
<1> DEFINE S == A \cup B \cup C
           v == t \o u
           m == Len(t)
           n == Len(u)
<1>2. t \in Seq(S) /\ u \in Seq(S) /\ w \in Seq(S)
  BY <1>1
<1>3. m \in Nat /\ n \in Nat
  BY <1>1
<1> HIDE DEF S
<1>4. /\ v \in Seq(S) /\ Len(v) = m + n
      /\ \A i \in 1 .. m : v[i] = t[i]
      /\ \A i \in m + 1 .. m + n : v[i] = u[i - m]
  BY <1>2, <1>3, ConcatProperties
<1>5. /\ Len(w) = m + n
      /\ \A i \in 1 .. m : w[i] = t[i]
      /\ \A i \in 1 .. n : w[m + i] = u[i]
  BY DEF Joins
<1> HIDE DEF v, m, n
<1>6. ASSUME NEW i \in 1 .. m + n PROVE v[i] = w[i]
  <2>1. CASE i \in 1 .. m
    BY <1>4, <1>5, <2>1
  <2>2. CASE i \in m + 1 .. m + n
    <3>1. i - m \in 1 .. n /\ m + (i - m) = i
      BY <1>3, <2>2
    <3>2. w[m + (i - m)] = u[i - m]
      BY <1>5, <3>1
    <3> QED
      BY <1>4, <2>2, <3>1, <3>2
  <2> QED
    BY <1>3, <2>1, <2>2
<1>7. v = w
  BY <1>2, <1>4, <1>5, <1>6, SeqEqual
<1> QED
  BY <1>7 DEF v

\* and so are the ways they lead.
LEMMA PathJoins ==
  ASSUME NEW c, NEW free, NEW need, NEW t, NEW u, NEW w, NEW a, NEW b, NEW e,
         Path(c, free, need, t, a, b), Path(c, free, need, u, b, e),
         Joins(t, u, w)
  PROVE  Path(c, free, need, w, a, e)
<1>1. Path(c, free, need, t \o u, a, e)
  BY PathJoin
<1>2. t \o u = w
  BY JoinIs
<1> QED
  BY <1>1, <1>2

\* Lists in two parts.
LEMMA JoinsLists ==
  ASSUME NEW a, NEW b, NEW d, NEW e, NEW f, NEW g, NEW h, NEW i, NEW j, NEW k
  PROVE  /\ Joins(<<a>>, <<b>>, <<a, b>>)
         /\ Joins(<<a, b>>, <<d>>, <<a, b, d>>)
         /\ Joins(<<a, b, d>>, <<e>>, <<a, b, d, e>>)
         /\ Joins(<<a, b, d, e>>, <<f>>, <<a, b, d, e, f>>)
         /\ Joins(<<a, b, d, e, f>>, <<g>>, <<a, b, d, e, f, g>>)
         /\ Joins(<<a>>, <<b, d, e, f, g>>, <<a, b, d, e, f, g>>)
         /\ Joins(<<a, b, d, e, f, g, h>>, <<i>>,
                  <<a, b, d, e, f, g, h, i>>)
         /\ Joins(<<a, b, d, e, f>>, <<g, h, i, j, k>>,
                  <<a, b, d, e, f, g, h, i, j, k>>)
<1>1. Joins(<<a>>, <<b>>,
           <<a, b>>)
  <2>1. /\ IsList(<<a>>) /\ IsList(<<b>>)
        /\ IsList(<<a, b>>)
    BY AreLists, Zenon
  <2> QED
    BY <2>1, SMT DEF Joins
<1>2. Joins(<<a, b>>, <<d>>,
           <<a, b, d>>)
  <2>1. /\ IsList(<<a, b>>) /\ IsList(<<d>>)
        /\ IsList(<<a, b, d>>)
    BY AreLists, Zenon
  <2> QED
    BY <2>1, SMT DEF Joins
<1>3. Joins(<<a, b, d>>, <<e>>,
           <<a, b, d, e>>)
  <2>1. /\ IsList(<<a, b, d>>) /\ IsList(<<e>>)
        /\ IsList(<<a, b, d, e>>)
    BY AreLists, Zenon
  <2> QED
    BY <2>1, SMT DEF Joins
<1>4. Joins(<<a, b, d, e>>, <<f>>,
           <<a, b, d, e, f>>)
  <2>1. /\ IsList(<<a, b, d, e>>) /\ IsList(<<f>>)
        /\ IsList(<<a, b, d, e, f>>)
    BY AreLists, Zenon
  <2> QED
    BY <2>1, SMT DEF Joins
<1>5. Joins(<<a, b, d, e, f>>, <<g>>,
           <<a, b, d, e, f, g>>)
  <2>1. /\ IsList(<<a, b, d, e, f>>) /\ IsList(<<g>>)
        /\ IsList(<<a, b, d, e, f, g>>)
    BY AreLists, Zenon
  <2> QED
    BY <2>1, SMT DEF Joins
<1>6. Joins(<<a>>, <<b, d, e, f, g>>,
           <<a, b, d, e, f, g>>)
  <2>1. /\ IsList(<<a>>) /\ IsList(<<b, d, e, f, g>>)
        /\ IsList(<<a, b, d, e, f, g>>)
    BY AreLists, Zenon
  <2> QED
    BY <2>1, SMT DEF Joins
<1>7. Joins(<<a, b, d, e, f, g, h>>, <<i>>,
           <<a, b, d, e, f, g, h, i>>)
  <2>1. /\ IsList(<<a, b, d, e, f, g, h>>) /\ IsList(<<i>>)
        /\ IsList(<<a, b, d, e, f, g, h, i>>)
    BY AreLists, Zenon
  <2> QED
    BY <2>1, SMT DEF Joins
<1>8. Joins(<<a, b, d, e, f>>, <<g, h, i, j, k>>,
           <<a, b, d, e, f, g, h, i, j, k>>)
  <2>1. /\ IsList(<<a, b, d, e, f>>) /\ IsList(<<g, h, i, j, k>>)
        /\ IsList(<<a, b, d, e, f, g, h, i, j, k>>)
    BY AreLists, Zenon
  <2> QED
    BY <2>1, SMT DEF Joins
<1> QED
  BY <1>1, <1>2, <1>3, <1>4, <1>5, <1>6, <1>7, <1>8, Zenon

\* Steps that are listed together.
LEMMA PathTwo ==
  ASSUME NEW c, NEW free, NEW need, NEW a, NEW b,
         NEW x0, NEW x1, NEW x2,
         Move(c, free, need, a, x0, x1),
         Move(c, free, need, b, x1, x2)
  PROVE  Path(c, free, need, <<a, b>>, x0, x2)
<1>1. Path(c, free, need, <<a>>, x0, x1)
  BY PathOne
<1>2. Path(c, free, need, <<b>>, x1, x2)
  BY PathOne
<1>3. Joins(<<a>>, <<b>>, <<a, b>>)
  BY JoinsLists, Zenon
<1> QED
  BY <1>1, <1>2, <1>3, PathJoins, Zenon

\* Three steps,
LEMMA PathThree ==
  ASSUME NEW c, NEW free, NEW need, NEW a, NEW b, NEW d,
         NEW x0, NEW x1, NEW x2, NEW x3,
         Move(c, free, need, a, x0, x1),
         Move(c, free, need, b, x1, x2),
         Move(c, free, need, d, x2, x3)
  PROVE  Path(c, free, need, <<a, b, d>>, x0, x3)
<1>1. Path(c, free, need, <<a, b>>, x0, x2)
  BY PathTwo
<1>2. Path(c, free, need, <<d>>, x2, x3)
  BY PathOne
<1>3. Joins(<<a, b>>, <<d>>, <<a, b, d>>)
  BY JoinsLists, Zenon
<1> QED
  BY <1>1, <1>2, <1>3, PathJoins, Zenon

\* four,
LEMMA PathFour ==
  ASSUME NEW c, NEW free, NEW need, NEW a, NEW b, NEW d, NEW e,
         NEW x0, NEW x1, NEW x2, NEW x3, NEW x4,
         Move(c, free, need, a, x0, x1),
         Move(c, free, need, b, x1, x2),
         Move(c, free, need, d, x2, x3),
         Move(c, free, need, e, x3, x4)
  PROVE  Path(c, free, need, <<a, b, d, e>>, x0, x4)
<1>1. Path(c, free, need, <<a, b, d>>, x0, x3)
  BY PathThree
<1>2. Path(c, free, need, <<e>>, x3, x4)
  BY PathOne
<1>3. Joins(<<a, b, d>>, <<e>>, <<a, b, d, e>>)
  BY JoinsLists, Zenon
<1> QED
  BY <1>1, <1>2, <1>3, PathJoins, Zenon

\* five,
LEMMA PathFive ==
  ASSUME NEW c, NEW free, NEW need, NEW a, NEW b, NEW d, NEW e, NEW f,
         NEW x0, NEW x1, NEW x2, NEW x3, NEW x4, NEW x5,
         Move(c, free, need, a, x0, x1),
         Move(c, free, need, b, x1, x2),
         Move(c, free, need, d, x2, x3),
         Move(c, free, need, e, x3, x4),
         Move(c, free, need, f, x4, x5)
  PROVE  Path(c, free, need, <<a, b, d, e, f>>, x0, x5)
<1>1. Path(c, free, need, <<a, b, d, e>>, x0, x4)
  BY PathFour
<1>2. Path(c, free, need, <<f>>, x4, x5)
  BY PathOne
<1>3. Joins(<<a, b, d, e>>, <<f>>, <<a, b, d, e, f>>)
  BY JoinsLists, Zenon
<1> QED
  BY <1>1, <1>2, <1>3, PathJoins, Zenon

\* six,
LEMMA PathSix ==
  ASSUME NEW c, NEW free, NEW need, NEW a, NEW b, NEW d, NEW e, NEW f, NEW g,
         NEW x0, NEW x1, NEW x2, NEW x3, NEW x4, NEW x5, NEW x6,
         Move(c, free, need, a, x0, x1),
         Move(c, free, need, b, x1, x2),
         Move(c, free, need, d, x2, x3),
         Move(c, free, need, e, x3, x4),
         Move(c, free, need, f, x4, x5),
         Move(c, free, need, g, x5, x6)
  PROVE  Path(c, free, need, <<a, b, d, e, f, g>>, x0, x6)
<1>1. Path(c, free, need, <<a, b, d, e, f>>, x0, x5)
  BY PathFive
<1>2. Path(c, free, need, <<g>>, x5, x6)
  BY PathOne
<1>3. Joins(<<a, b, d, e, f>>, <<g>>, <<a, b, d, e, f, g>>)
  BY JoinsLists, Zenon
<1> QED
  BY <1>1, <1>2, <1>3, PathJoins

\* A loop: its steps lead back to where they began, and so they do however
\* often they are taken.
LEMMA PathLoop ==
  ASSUME NEW c, NEW free, NEW need, NEW s, NEW a, NEW held, NEW done,
         a = State(held, done), Path(c, free, need, s, a, a),
         NEW t, Loops(s, t)
  PROVE  Path(c, free, need, t, a, a)
<1> DEFINE n == Len(s)
           f == Branch({1, n + 2})
           l == Branch({-(n + 1)})
<1>1. PICK g : Leads(c, free, need, s, a, a, g)
  BY DEF Path
<1>2. PICK S : s \in Seq(S)
  BY DEF Path, IsList
<1>3. n \in Nat
  BY <1>2
<1> DEFINE h == [i \in 1 .. n + 3 |-> IF i = 1 \/ i = n + 3 THEN a ELSE g[i - 1]]
<1>4. /\ f.op = "branch" /\ f.jumps = {1, n + 2} /\ IsStep(f)
      /\ l.op = "branch" /\ l.jumps = {-(n + 1)} /\ IsStep(l)
  BY <1>3 DEF Branch, Step, IsStep, Ops
<1>5. /\ InOrder(c, free, need, f, a) /\ Succeeded(f, a) = a
      /\ InOrder(c, free, need, l, a) /\ Succeeded(l, a) = a
  <2>1. {"branch"} \cap Marks = {} /\ "branch" \notin Failing
    BY DEF Marks, Failing
  <2> HIDE DEF f, l
  <2> QED
    BY <1>4, <2>1 DEF InOrder, Failing, Succeeded, After, State
<1>6. /\ IsList(t) /\ Len(t) = n + 2
      /\ t[1] = f /\ t[n + 2] = l
      /\ \A i \in 1 .. n : t[i + 1] = s[i]
  BY DEF Loops
<1>7. /\ h[1] = a /\ h[2] = a /\ h[n + 2] = a /\ h[n + 3] = a
      /\ \A i \in 1 .. n + 1 : h[i + 1] = g[i]
  <2>1. g[1] = a /\ g[n + 1] = a
    BY <1>1 DEF Leads
  <2>2. \A i \in 1 .. n + 1 :
          i + 1 \in 1 .. n + 3 /\ i + 1 # 1 /\ i + 1 # n + 3 /\ (i + 1) - 1 = i
    BY <1>3
  <2>3. \A i \in 1 .. n + 1 : h[i + 1] = g[i]
    BY <2>2
  <2>4. h[1] = a /\ h[n + 3] = a
    BY <1>3
  <2>5. 1 \in 1 .. n + 1 /\ n + 1 \in 1 .. n + 1 /\ 1 + 1 = 2
        /\ (n + 1) + 1 = n + 2
    BY <1>3
  <2> HIDE DEF h
  <2> QED
    BY <2>1, <2>3, <2>4, <2>5
<1> HIDE DEF h, f, l
<1>8. ASSUME NEW i \in 1 .. Len(t)
      PROVE  /\ InOrder(c, free, need, t[i], h[i])
             /\ h[i + 1] = Succeeded(t[i], h[i])
             /\ t[i].op = "branch" =>
                  \A d \in t[i].jumps :
                    i + d \in 1 .. Len(t) + 1 /\ h[i + d] = h[i]
  <2>1. CASE i = 1
    <3>1. /\ 1 + 1 = 2 /\ 1 + (n + 2) = n + 3
          /\ 2 \in 1 .. Len(t) + 1 /\ n + 3 \in 1 .. Len(t) + 1
      BY <1>3, <1>6
    <3> QED
      BY <1>4, <1>5, <1>6, <1>7, <2>1, <3>1
  <2>2. CASE i = n + 2
    <3>1. /\ (n + 2) + 1 = n + 3 /\ (n + 2) + (-(n + 1)) = 1
          /\ 1 \in 1 .. Len(t) + 1
      BY <1>3, <1>6
    <3> QED
      BY <1>4, <1>5, <1>6, <1>7, <2>2, <3>1
  <2>3. CASE i # 1 /\ i # n + 2
    <3>1. PICK j \in 1 .. n : i = j + 1
      <4>1. i - 1 \in 1 .. n /\ i = (i - 1) + 1
        BY <1>3, <1>6, <2>3
      <4> QED
        BY <4>1
    <3>2. /\ t[i] = s[j] /\ h[i] = g[j] /\ h[i + 1] = g[j + 1]
      <4>1. j \in 1 .. n + 1 /\ j + 1 \in 1 .. n + 1 /\ i + 1 = (j + 1) + 1
        BY <1>3, <3>1
      <4> QED
        BY <1>6, <1>7, <3>1, <4>1
    <3>3. /\ InOrder(c, free, need, s[j], g[j])
          /\ g[j + 1] = Succeeded(s[j], g[j])
      BY <1>1, <3>1 DEF Leads
    <3>4. ASSUME s[j].op = "branch", NEW d \in s[j].jumps
          PROVE  i + d \in 1 .. Len(t) + 1 /\ h[i + d] = h[i]
      <4>1. j + d \in 1 .. n + 1 /\ g[j + d] = g[j]
        BY <1>1, <3>1, <3>4 DEF Leads
      <4>2. d \in Int
        BY <3>3, <3>4 DEF InOrder, IsStep
      <4>3. i + d = (j + d) + 1 /\ i + d \in 1 .. n + 3
        BY <1>3, <3>1, <4>1, <4>2
      <4>4. h[(j + d) + 1] = g[j + d]
        BY <1>7, <4>1
      <4> QED
        BY <1>6, <3>2, <4>1, <4>3, <4>4, <1>3
    <3> QED
      BY <3>2, <3>3, <3>4
  <2> QED
    BY <2>1, <2>2, <2>3
<1>9. Leads(c, free, need, t, a, a, h)
  <2>1. Len(t) + 1 = n + 3
    BY <1>3, <1>6
  <2> QED
    BY <1>7, <1>8, <2>1 DEF Leads
<1> QED
  BY <1>6, <1>9 DEF Path

\* A branch changes nothing and cannot fail.
LEMMA BranchIs ==
  ASSUME NEW c, NEW free, NEW need, NEW jumps \in SUBSET Int,
         NEW a, NEW held, NEW done, a = State(held, done)
  PROVE  /\ Branch(jumps).op = "branch" /\ Branch(jumps).jumps = jumps
         /\ InOrder(c, free, need, Branch(jumps), a)
         /\ Succeeded(Branch(jumps), a) = a
<1>1. /\ Branch(jumps).op = "branch" /\ Branch(jumps).jumps = jumps
      /\ IsStep(Branch(jumps))
  BY DEF Branch, Step, IsStep, Ops
<1>2. {"branch"} \cap Marks = {} /\ "branch" \notin Failing
  BY DEF Marks, Failing
<1> QED
  BY <1>1, <1>2 DEF InOrder, Failing, Succeeded, After, State

\* Steps that lead back to where they began may as well be left out.
LEMMA PathMaybe ==
  ASSUME NEW c, NEW free, NEW need, NEW s, NEW a, NEW held, NEW done,
         a = State(held, done), Path(c, free, need, s, a, a)
  PROVE  Path(c, free, need, Maybe(s), a, a)
<1> DEFINE n == Len(s)
           f == Branch({1, n + 1})
           t == Maybe(s)
<1>1. PICK g : Leads(c, free, need, s, a, a, g)
  BY DEF Path
<1>2. PICK S : s \in Seq(S)
  BY DEF Path, IsList
<1>3. n \in Nat
  BY <1>2
<1> DEFINE h == [i \in 1 .. n + 2 |-> IF i = 1 THEN a ELSE g[i - 1]]
<1>4. /\ f.op = "branch" /\ f.jumps = {1, n + 1}
      /\ InOrder(c, free, need, f, a) /\ Succeeded(f, a) = a
  <2>1. {1, n + 1} \in SUBSET Int
    BY <1>3
  <2> QED
    BY <2>1, BranchIs
<1> HIDE DEF f
<1>5. /\ t \in Seq(S \cup {f}) /\ Len(t) = n + 1 /\ t[1] = f
      /\ \A i \in 1 .. n : t[i + 1] = s[i]
  <2>1. <<f>> \in Seq(S \cup {f}) /\ s \in Seq(S \cup {f}) /\ Len(<<f>>) = 1
    BY <1>2
  <2>2. t = <<f>> \o s
    BY DEF Maybe, f
  <2> HIDE DEF t
  <2>3. /\ t \in Seq(S \cup {f}) /\ Len(t) = 1 + n /\ t[1] = <<f>>[1]
        /\ \A i \in 1 + 1 .. 1 + n : t[i] = s[i - 1]
    BY <2>1, <2>2, <1>3, ConcatProperties
  <2>4. \A i \in 1 .. n : i + 1 \in 1 + 1 .. 1 + n /\ (i + 1) - 1 = i
    BY <1>3
  <2> QED
    BY <1>3, <2>3, <2>4
<1>6. /\ h[1] = a /\ h[2] = a /\ h[n + 2] = a
      /\ \A i \in 1 .. n + 1 : h[i + 1] = g[i]
  <2>1. g[1] = a /\ g[n + 1] = a
    BY <1>1 DEF Leads
  <2>2. \A i \in 1 .. n + 1 :
          i + 1 \in 1 .. n + 2 /\ i + 1 # 1 /\ (i + 1) - 1 = i
    BY <1>3
  <2>3. \A i \in 1 .. n + 1 : h[i + 1] = g[i]
    BY <2>2
  <2>4. h[1] = a
    BY <1>3
  <2>5. 1 \in 1 .. n + 1 /\ n + 1 \in 1 .. n + 1 /\ 1 + 1 = 2
        /\ (n + 1) + 1 = n + 2
    BY <1>3
  <2> HIDE DEF h
  <2> QED
    BY <2>1, <2>3, <2>4, <2>5
<1> HIDE DEF h, t
<1>7. ASSUME NEW i \in 1 .. Len(t)
      PROVE  /\ InOrder(c, free, need, t[i], h[i])
             /\ h[i + 1] = Succeeded(t[i], h[i])
             /\ t[i].op = "branch" =>
                  \A d \in t[i].jumps :
                    i + d \in 1 .. Len(t) + 1 /\ h[i + d] = h[i]
  <2>1. CASE i = 1
    <3>1. /\ 1 + 1 = 2 /\ 1 + (n + 1) = n + 2
          /\ 2 \in 1 .. Len(t) + 1 /\ n + 2 \in 1 .. Len(t) + 1
      BY <1>3, <1>5
    <3> QED
      BY <1>4, <1>5, <1>6, <2>1, <3>1
  <2>2. CASE i # 1
    <3>1. PICK j \in 1 .. n : i = j + 1
      <4>1. i - 1 \in 1 .. n /\ i = (i - 1) + 1
        BY <1>3, <1>5, <2>2
      <4> QED
        BY <4>1
    <3>2. /\ t[i] = s[j] /\ h[i] = g[j] /\ h[i + 1] = g[j + 1]
      <4>1. j \in 1 .. n + 1 /\ j + 1 \in 1 .. n + 1 /\ i + 1 = (j + 1) + 1
        BY <1>3, <3>1
      <4> QED
        BY <1>5, <1>6, <3>1, <4>1
    <3>3. /\ InOrder(c, free, need, s[j], g[j])
          /\ g[j + 1] = Succeeded(s[j], g[j])
      BY <1>1, <3>1 DEF Leads
    <3>4. ASSUME s[j].op = "branch", NEW d \in s[j].jumps
          PROVE  i + d \in 1 .. Len(t) + 1 /\ h[i + d] = h[i]
      <4>1. j + d \in 1 .. n + 1 /\ g[j + d] = g[j]
        BY <1>1, <3>1, <3>4 DEF Leads
      <4>2. d \in Int
        BY <3>3, <3>4 DEF InOrder, IsStep
      <4>3. i + d = (j + d) + 1 /\ i + d \in 1 .. n + 2
        BY <1>3, <3>1, <4>1, <4>2
      <4>4. h[(j + d) + 1] = g[j + d]
        BY <1>6, <4>1
      <4> QED
        BY <1>5, <3>2, <4>1, <4>3, <4>4, <1>3
    <3> QED
      BY <3>2, <3>3, <3>4
  <2> QED
    BY <2>1, <2>2
<1>8. Leads(c, free, need, t, a, a, h)
  <2>1. Len(t) + 1 = n + 2
    BY <1>3, <1>5
  <2> QED
    BY <1>6, <1>7, <2>1 DEF Leads
<1> QED
  BY <1>5, <1>8 DEF Path, IsList, t

\* They may as well be taken again.
LEMMA PathRepeat ==
  ASSUME NEW c, NEW free, NEW need, NEW s, NEW a, NEW held, NEW done,
         a = State(held, done), Path(c, free, need, s, a, a)
  PROVE  Path(c, free, need, Repeat(s), a, a)
<1> DEFINE n == Len(s)
           l == Branch({1, -n})
           t == Repeat(s)
<1>1. PICK g : Leads(c, free, need, s, a, a, g)
  BY DEF Path
<1>2. PICK S : s \in Seq(S)
  BY DEF Path, IsList
<1>3. n \in Nat
  BY <1>2
<1> DEFINE h == [i \in 1 .. n + 2 |-> IF i = n + 2 THEN a ELSE g[i]]
<1>4. /\ l.op = "branch" /\ l.jumps = {1, -n}
      /\ InOrder(c, free, need, l, a) /\ Succeeded(l, a) = a
  <2>1. {1, -n} \in SUBSET Int
    BY <1>3
  <2> QED
    BY <2>1, BranchIs
<1> HIDE DEF l
<1>5. /\ t \in Seq(S \cup {l}) /\ Len(t) = n + 1 /\ t[n + 1] = l
      /\ \A i \in 1 .. n : t[i] = s[i]
  <2>1. <<l>> \in Seq(S \cup {l}) /\ s \in Seq(S \cup {l}) /\ Len(<<l>>) = 1
        /\ <<l>>[1] = l
    BY <1>2
  <2>2. t = s \o <<l>>
    BY DEF Repeat, l
  <2> HIDE DEF t
  <2>3. /\ t \in Seq(S \cup {l}) /\ Len(t) = n + 1
        /\ \A i \in 1 .. n : t[i] = s[i]
        /\ \A i \in n + 1 .. n + 1 : t[i] = <<l>>[i - n]
    BY <2>1, <2>2, <1>3, ConcatProperties
  <2>4. n + 1 \in n + 1 .. n + 1 /\ (n + 1) - n = 1
    BY <1>3
  <2> QED
    BY <1>3, <2>1, <2>3, <2>4
<1>6. /\ h[1] = a /\ h[n + 1] = a /\ h[n + 2] = a
      /\ \A i \in 1 .. n + 1 : h[i] = g[i]
  <2>1. g[1] = a /\ g[n + 1] = a
    BY <1>1 DEF Leads
  <2>2. \A i \in 1 .. n + 1 : i \in 1 .. n + 2 /\ i # n + 2
    BY <1>3
  <2>3. \A i \in 1 .. n + 1 : h[i] = g[i]
    BY <2>2
  <2>4. h[n + 2] = a
    BY <1>3
  <2>5. 1 \in 1 .. n + 1 /\ n + 1 \in 1 .. n + 1
    BY <1>3
  <2> HIDE DEF h
  <2> QED
    BY <2>1, <2>3, <2>4, <2>5
<1> HIDE DEF h, t
<1>7. ASSUME NEW i \in 1 .. Len(t)
      PROVE  /\ InOrder(c, free, need, t[i], h[i])
             /\ h[i + 1] = Succeeded(t[i], h[i])
             /\ t[i].op = "branch" =>
                  \A d \in t[i].jumps :
                    i + d \in 1 .. Len(t) + 1 /\ h[i + d] = h[i]
  <2>1. CASE i = n + 1
    <3>1. /\ (n + 1) + 1 = n + 2 /\ (n + 1) + (-n) = 1
          /\ 1 \in 1 .. Len(t) + 1 /\ n + 2 \in 1 .. Len(t) + 1
      BY <1>3, <1>5
    <3> QED
      BY <1>4, <1>5, <1>6, <2>1, <3>1
  <2>2. CASE i # n + 1
    <3>1. i \in 1 .. n /\ i \in 1 .. n + 1 /\ i + 1 \in 1 .. n + 1
      BY <1>3, <1>5, <2>2
    <3>2. /\ t[i] = s[i] /\ h[i] = g[i] /\ h[i + 1] = g[i + 1]
      BY <1>5, <1>6, <3>1
    <3>3. /\ InOrder(c, free, need, s[i], g[i])
          /\ g[i + 1] = Succeeded(s[i], g[i])
      BY <1>1, <3>1 DEF Leads
    <3>4. ASSUME s[i].op = "branch", NEW d \in s[i].jumps
          PROVE  i + d \in 1 .. Len(t) + 1 /\ h[i + d] = h[i]
      <4>1. i + d \in 1 .. n + 1 /\ g[i + d] = g[i]
        BY <1>1, <3>1, <3>4 DEF Leads
      <4>2. h[i + d] = g[i + d]
        BY <1>6, <4>1
      <4>3. 1 .. n + 1 \subseteq 1 .. Len(t) + 1
        BY <1>3, <1>5
      <4> QED
        BY <3>2, <4>1, <4>2, <4>3
    <3> QED
      BY <3>2, <3>3, <3>4
  <2> QED
    BY <2>1, <2>2
<1>8. Leads(c, free, need, t, a, a, h)
  <2>1. Len(t) + 1 = n + 2
    BY <1>3, <1>5
  <2> QED
    BY <1>6, <1>7, <2>1 DEF Leads
<1> QED
  BY <1>5, <1>8 DEF Path, IsList, t

\* Lists that are given by their elements, one after the other.
LEMMA Concats ==
  ASSUME NEW a, NEW b, NEW d, NEW e, NEW f, NEW g, NEW h,
         NEW i, NEW j, NEW k, NEW l, NEW m, NEW n
  PROVE  /\ Joins(<<a, b>>, << >>, <<a, b>>)
         /\ Joins(<<a, b>>, <<d>>, <<a, b, d>>)
         /\ Joins(<<a, b, d>>, <<e>>, <<a, b, d, e>>)
         /\ Joins(<<a, b>>, <<d, e>>, <<a, b, d, e>>)
         /\ Joins(<<a, b, d, e>>, <<f>>, <<a, b, d, e, f>>)
         /\ Joins(<<a, b, d>>, <<e, f>>, <<a, b, d, e, f>>)
         /\ Joins(<<a, b>>, <<d, e, f, g, h, i, j, k, l>>,
                  <<a, b, d, e, f, g, h, i, j, k, l>>)
         /\ Joins(<<a, b, d, e>>, <<f, g, h, i, j, k, l, m, n>>,
                  <<a, b, d, e, f, g, h, i, j, k, l, m, n>>)
<1>0. IsList(<< >>)
  BY DEF IsList
<1>1. Joins(<<a, b>>, << >>,
           <<a, b>>)
  <2>1. /\ IsList(<<a, b>>) /\ IsList(<< >>)
        /\ IsList(<<a, b>>)
    BY <1>0, AreLists, Zenon
  <2> QED
    BY <2>1, SMT DEF Joins
<1>2. Joins(<<a, b>>, <<d>>,
           <<a, b, d>>)
  <2>1. /\ IsList(<<a, b>>) /\ IsList(<<d>>)
        /\ IsList(<<a, b, d>>)
    BY <1>0, AreLists, Zenon
  <2> QED
    BY <2>1, SMT DEF Joins
<1>3. Joins(<<a, b, d>>, <<e>>,
           <<a, b, d, e>>)
  <2>1. /\ IsList(<<a, b, d>>) /\ IsList(<<e>>)
        /\ IsList(<<a, b, d, e>>)
    BY <1>0, AreLists, Zenon
  <2> QED
    BY <2>1, SMT DEF Joins
<1>4. Joins(<<a, b>>, <<d, e>>,
           <<a, b, d, e>>)
  <2>1. /\ IsList(<<a, b>>) /\ IsList(<<d, e>>)
        /\ IsList(<<a, b, d, e>>)
    BY <1>0, AreLists, Zenon
  <2> QED
    BY <2>1, SMT DEF Joins
<1>5. Joins(<<a, b, d, e>>, <<f>>,
           <<a, b, d, e, f>>)
  <2>1. /\ IsList(<<a, b, d, e>>) /\ IsList(<<f>>)
        /\ IsList(<<a, b, d, e, f>>)
    BY <1>0, AreLists, Zenon
  <2> QED
    BY <2>1, SMT DEF Joins
<1>6. Joins(<<a, b, d>>, <<e, f>>,
           <<a, b, d, e, f>>)
  <2>1. /\ IsList(<<a, b, d>>) /\ IsList(<<e, f>>)
        /\ IsList(<<a, b, d, e, f>>)
    BY <1>0, AreLists, Zenon
  <2> QED
    BY <2>1, SMT DEF Joins
<1>7. Joins(<<a, b>>, <<d, e, f, g, h, i, j, k, l>>,
           <<a, b, d, e, f, g, h, i, j, k, l>>)
  <2>1. /\ IsList(<<a, b>>) /\ IsList(<<d, e, f, g, h, i, j, k, l>>)
        /\ IsList(<<a, b, d, e, f, g, h, i, j, k, l>>)
    BY <1>0, AreLists, Zenon
  <2> QED
    BY <2>1, SMT DEF Joins
<1>8. Joins(<<a, b, d, e>>, <<f, g, h, i, j, k, l, m, n>>,
           <<a, b, d, e, f, g, h, i, j, k, l, m, n>>)
  <2>1. /\ IsList(<<a, b, d, e>>) /\ IsList(<<f, g, h, i, j, k, l, m, n>>)
        /\ IsList(<<a, b, d, e, f, g, h, i, j, k, l, m, n>>)
    BY <1>0, AreLists, Zenon
  <2> QED
    BY <2>1, SMT DEF Joins
<1> QED
  BY <1>1, <1>2, <1>3, <1>4, <1>5, <1>6, <1>7, <1>8, Zenon

\* Two resources that have releases and one that has none.
LEMMA ReachTakesMore ==
  ASSUME NEW c, Labels(c), NEW free, NEW need, NEW s, NEW p,
         NEW more \in SUBSET free, NEW done,
         Reach(c, free, need, s, p, more, done), NEW to, Top(c, p, to),
         NEW a, NEW b, NEW q, Opposite(c, p, <<a, b>>, q), Top(c, q, b),
         NEW x, NEW left, With(more, x, left)
  PROVE  Reach(c, free, need, s \o Takes(<<a, b, x>>, to), q, left, done)
<1>1. Path(c, free, need, Takes(<<a, b>>, to), Level(c, p, more, done),
           Level(c, q, more, done))
  BY PathTakes
<1>2. Path(c, free, need, <<Take(x, b)>>, Level(c, q, more, done),
           Level(c, q, left, done))
  BY MoveTakeMore, PathOne
<1>3. Joins(Takes(<<a, b>>, to), <<Take(x, b)>>, Takes(<<a, b, x>>, to))
  <2>1. /\ Takes(<<a, b>>, to) = <<Take(a, to), Take(b, a)>>
        /\ Takes(<<a, b, x>>, to) = <<Take(a, to), Take(b, a), Take(x, b)>>
    BY DEF Takes
  <2> QED
    BY <2>1, JoinsLists, Zenon
<1>4. Path(c, free, need, Takes(<<a, b, x>>, to), Level(c, p, more, done),
           Level(c, q, left, done))
  BY <1>1, <1>2, <1>3, PathJoins
<1> QED
  BY <1>4, ReachPath

\* Loops around so many steps.
LEMMA LoopsAre ==
  ASSUME NEW a, NEW b, NEW d, NEW e, NEW f
  PROVE  /\ Loops(<<a, b, d>>, <<Branch({1, 5}), a, b, d, Branch({-4})>>)
         /\ Loops(<<a, b, d, e, f>>,
                  <<Branch({1, 7}), a, b, d, e, f, Branch({-6})>>)
<1>1. /\ IsList(<<a, b, d>>) /\ IsList(<<a, b, d, e, f>>)
      /\ IsList(<<Branch({1, 5}), a, b, d, Branch({-4})>>)
      /\ IsList(<<Branch({1, 7}), a, b, d, e, f, Branch({-6})>>)
  BY AreLists, Zenon
<1>2. -(3 + 1) = -4 /\ -(5 + 1) = -6 /\ 3 + 2 = 5 /\ 5 + 2 = 7
  OBVIOUS
<1>3. /\ Branch({1, 3 + 2}) = Branch({1, 5}) /\ Branch({-(3 + 1)}) = Branch({-4})
      /\ Branch({1, 5 + 2}) = Branch({1, 7}) /\ Branch({-(5 + 1)}) = Branch({-6})
  BY <1>2
<1>4. Loops(<<a, b, d>>, <<Branch({1, 5}), a, b, d, Branch({-4})>>)
  BY <1>1, <1>3, SMT DEF Loops
<1>5. Loops(<<a, b, d, e, f>>,
            <<Branch({1, 7}), a, b, d, e, f, Branch({-6})>>)
  BY <1>1, <1>3, SMT DEF Loops
<1> QED
  BY <1>4, <1>5

\* The fields of a certificate are added in a loop, however many there are.
LEMMA PathAddFields ==
  ASSUME NEW c, Labels(c), NEW free, NEW need, NEW p, NEW q, NEW done,
         Top(c, p, Done), Above(c, p, "builder", q), Top(c, q, "builder"),
         Apart(c, q, "field_val")
  PROVE  Path(c, free, need, AddFields, Level(c, p, {}, done),
              Level(c, q, {}, done))
<1> DEFINE a == Level(c, q, {}, done)
           loop == <<Branch({1, 5}), Get("field_val"),
                     TryOrGive("field_val", "builder"), Give("field_val"),
                     Branch({-4})>>
           steps == <<Get("field_val"), TryOrGive("field_val", "builder"),
                      Give("field_val")>>
<1>1. Path(c, free, need, <<Take("builder", Done)>>, Level(c, p, {}, done), a)
  <2>1. {} \in SUBSET free
    OBVIOUS
  <2> QED
    BY <2>1, MoveTake, PathOne
<1>2. Path(c, free, need, steps, a, a)
  <2>1. /\ With({}, "field_val", {"field_val"})
        /\ Without({"field_val"}, "field_val", {})
        /\ {"field_val"} \ {"field_val"} \subseteq free
    BY DEF With, Without
  <2>2. /\ Move(c, free, need, Get("field_val"), a,
                Level(c, q, {"field_val"}, done))
        /\ Move(c, free, need, TryOrGive("field_val", "builder"),
                Level(c, q, {"field_val"}, done),
                Level(c, q, {"field_val"}, done))
        /\ Move(c, free, need, Give("field_val"),
                Level(c, q, {"field_val"}, done), a)
    BY <2>1, MoveGetMore, MoveTryOrGive, MoveGive
  <2> HIDE DEF a
  <2> QED
    BY <2>2, PathThree
<1>3. Loops(steps, loop)
  BY LoopsAre, Zenon
<1>4. a = State(Released(c, q) \cup {}, done)
  BY DEF Level
<1>5. Joins(<<Take("builder", Done)>>, loop, AddFields)
  BY JoinsLists, Zenon DEF AddFields
<1> HIDE DEF a, loop, steps
<1>6. Path(c, free, need, loop, a, a)
  BY <1>2, <1>3, <1>4, PathLoop
<1>7. Path(c, free, need, AddFields, Level(c, p, {}, done), a)
  BY <1>1, <1>5, <1>6, PathJoins
<1> QED
  BY <1>7 DEF a

-----------------------------------------------------------------------------
(* From the steps to the function.                                         *)

\* A set of natural numbers has a least one: of the intervals from 0 to one
\* of them, one contains no other.
LEMMA HasLeast ==
  ASSUME NEW S \in SUBSET Nat, S # {}
  PROVE  \E i \in S : \A j \in S : i <= j
<1> DEFINE Below == {0 .. i : i \in S}
<1>1. Below \subseteq FiniteSubsetsOf(Nat)
  <2> SUFFICES ASSUME NEW i \in S PROVE 0 .. i \in FiniteSubsetsOf(Nat)
    OBVIOUS
  <2>1. i \in Int /\ 0 .. i \in SUBSET Nat
    OBVIOUS
  <2>2. IsFiniteSet(0 .. i)
    BY <2>1, FS_Interval
  <2> QED
    BY <2>1, <2>2 DEF FiniteSubsetsOf
<1>2. Below # {}
  OBVIOUS
<1>3. IsWellFoundedOn(StrictSubsetOrdering(Nat), FiniteSubsetsOf(Nat))
  BY FS_StrictSubsetOrderingWellFounded
<1> HIDE DEF Below
<1>4. PICK X \in Below : \A Y \in Below : <<Y, X>> \notin StrictSubsetOrdering(Nat)
  BY <1>1, <1>2, <1>3, WFMin
<1>5. PICK i \in S : X = 0 .. i
  BY DEF Below
<1>6. ASSUME NEW j \in S, j < i PROVE FALSE
  <2>1. 0 .. j \in Below
    BY DEF Below
  <2>2. 0 .. j \subseteq 0 .. i /\ i \notin 0 .. j /\ i \in 0 .. i
    BY <1>6
  <2>3. /\ 0 .. j \subseteq 0 .. i /\ 0 .. j # 0 .. i
        /\ 0 .. j \in SUBSET Nat /\ 0 .. i \in SUBSET Nat
    BY <2>2
  <2>4. <<0 .. j, 0 .. i>> \in StrictSubsetOrdering(Nat)
    BY <2>3 DEF StrictSubsetOrdering
  <2> QED
    BY <1>4, <1>5, <2>1, <2>4
<1>7. \A j \in S : i <= j
  BY <1>6
<1> QED
  BY <1>7

\* What holds at the first place, and at the next one of every place where it
\* holds, holds at all of them.
LEMMA Onward ==
  ASSUME NEW n \in Nat, NEW S, 1 \in S,
         \A i \in 1 .. n : i \in S => i + 1 \in S
  PROVE  \A i \in 1 .. n + 1 : i \in S
<1> DEFINE T == (1 .. n + 1) \ S
<1>1. SUFFICES ASSUME T # {} PROVE FALSE
  OBVIOUS
<1>2. T \in SUBSET Nat
  OBVIOUS
<1>3. PICK i \in T : \A j \in T : i <= j
  <2> HIDE DEF T
  <2> QED
    BY <1>1, <1>2, HasLeast
<1>4. i \in 1 .. n + 1 /\ i # 1 /\ i \notin S
  OBVIOUS
<1>5. i - 1 \in 1 .. n /\ (i - 1) + 1 = i /\ ~(i <= i - 1)
  BY <1>4
<1>6. i - 1 \in S
  BY <1>3, <1>5
<1> QED
  BY <1>4, <1>5, <1>6

\* What a function whose failures may leave failed behind, and whose end may
\* leave passed, needs for its proofs: that its steps lead to the releases.
Proper(f, failed, passed, need) ==
  /\ Labels(f.cleanup)
  /\ \E more, done :
       /\ more \in SUBSET (passed \cup f.refs)
       /\ "result" \in done
       /\ Reach(f.cleanup, failed \cup f.refs, need, f.body, 1, more, done)

\* What the next state holds and has passed.
LEMMA NextState ==
  ASSUME NEW c, NEW free, NEW need, NEW s, NEW a, NEW b, NEW g,
         Leads(c, free, need, s, a, b, g), NEW i \in 1 .. Len(s)
  PROVE  /\ g[i + 1].held = After(s[i], g[i].held)
         /\ g[i + 1].done = g[i].done \cup ({s[i].op} \cap Marks)
<1>1. g[i + 1] = Succeeded(s[i], g[i])
  BY DEF Leads
<1> QED
  BY <1>1 DEF Succeeded, State

\* The states that the steps lead through hold what the annotation says.
HoldsAlong(f, g) ==
  /\ DOMAIN HoldingOf(f) = 1 .. Len(f.body) + 1
  /\ \A i \in 1 .. Len(f.body) + 1 : HoldingOf(f)[i] = g[i].held

\* What is held before each step is what the steps lead to.
LEMMA HoldingIs ==
  ASSUME NEW f, NEW c, NEW free, NEW need, NEW done, NEW b, NEW g,
         IsList(f.body),
         Leads(c, free, need, f.body, State({}, done), b, g)
  PROVE  HoldsAlong(f, g)
<1> DEFINE n == Len(f.body)
           holds(h) == h = [i \in 1 .. n + 1 |->
                              IF i = 1 THEN {} ELSE After(f.body[i - 1], h[i - 1])]
           k == [i \in 1 .. n + 1 |-> g[i].held]
<1>1. n \in Nat
  BY DEF IsList
<1>2. g[1].held = {}
  BY DEF Leads, State
<1>3. \A i \in 1 .. n : g[i + 1].held = After(f.body[i], g[i].held)
  BY NextState
<1>4. holds(k)
  <2>1. ASSUME NEW i \in 1 .. n + 1
        PROVE  k[i] = IF i = 1 THEN {} ELSE After(f.body[i - 1], k[i - 1])
    <3>1. CASE i = 1
      BY <1>2, <3>1
    <3>2. CASE i # 1
      <4>1. i - 1 \in 1 .. n /\ (i - 1) + 1 = i /\ i - 1 \in 1 .. n + 1
        BY <1>1, <3>2
      <4>2. g[(i - 1) + 1].held = After(f.body[i - 1], g[i - 1].held)
        BY <1>3, <4>1
      <4> QED
        BY <3>2, <4>1, <4>2
    <3> QED
      BY <3>1, <3>2
  <2> QED
    BY <2>1
<1> DEFINE h == HoldingOf(f)
<1>5. h = CHOOSE x : holds(x)
  BY DEF HoldingOf
<1> HIDE DEF holds, k, h
<1>6. holds(h)
  BY <1>4, <1>5
<1>7. /\ DOMAIN h = 1 .. n + 1 /\ h[1] = {}
      /\ \A i \in 1 .. n : h[i + 1] = After(f.body[i], h[i])
  <2>1. \A i \in 1 .. n : i + 1 \in 1 .. n + 1 /\ i + 1 # 1 /\ (i + 1) - 1 = i
    BY <1>1
  <2>2. 1 \in 1 .. n + 1
    BY <1>1
  <2> HIDE DEF n
  <2> QED
    BY <1>6, <2>1, <2>2 DEF holds
<1> DEFINE S == {i \in 1 .. n + 1 : h[i] = g[i].held}
<1>8. 1 \in S
  <2>1. 1 \in 1 .. n + 1
    BY <1>1
  <2> QED
    BY <1>2, <1>7, <2>1
<1>9. \A i \in 1 .. n : i \in S => i + 1 \in S
  BY <1>1, <1>3, <1>7
<1>10. \A i \in 1 .. n + 1 : i \in S
  <2> HIDE DEF S, n
  <2> QED
    BY <1>1, <1>8, <1>9, Onward
<1> QED
  BY <1>7, <1>10 DEF h, HoldsAlong

\* Nothing comes before the first step.
LEMMA BeforeFirst ==
  ASSUME NEW f, NEW op
  PROVE  ~Before(f, op, 1)
<1>1. 1 .. 1 - 1 = {}
  OBVIOUS
<1> QED
  BY <1>1 DEF Before

\* What comes before the next step: what came before this one, or this one.
LEMMA BeforeNext ==
  ASSUME NEW f, NEW op, NEW i \in Nat \ {0}
  PROVE  Before(f, op, i + 1) <=> (Before(f, op, i) \/ f.body[i].op = op)
<1>1. 1 .. (i + 1) - 1 = (1 .. i - 1) \cup {i}
  OBVIOUS
<1> QED
  BY <1>1 DEF Before

\* The marks passed are those that come before.
LEMMA MarksAreBefore ==
  ASSUME NEW f, NEW c, NEW free, NEW need, NEW held, NEW b, NEW g,
         IsList(f.body),
         Leads(c, free, need, f.body, State(held, {}), b, g),
         NEW op \in Marks
  PROVE  \A i \in 1 .. Len(f.body) + 1 : Before(f, op, i) <=> op \in g[i].done
<1> DEFINE n == Len(f.body)
           S == {i \in 1 .. n + 1 : Before(f, op, i) <=> op \in g[i].done}
<1>1. n \in Nat
  BY DEF IsList
<1>2. 1 \in S
  <2>1. g[1].done = {}
    BY DEF Leads, State
  <2>2. ~Before(f, op, 1)
    BY BeforeFirst
  <2> QED
    BY <1>1, <2>1, <2>2
<1>3. ASSUME NEW i \in 1 .. n, i \in S PROVE i + 1 \in S
  <2>1. g[i + 1].done = g[i].done \cup ({f.body[i].op} \cap Marks)
    BY NextState
  <2>2. Before(f, op, i + 1) <=> (Before(f, op, i) \/ f.body[i].op = op)
    BY BeforeNext
  <2>3. i + 1 \in 1 .. n + 1
    BY <1>1
  <2> QED
    BY <1>3, <2>1, <2>2, <2>3
<1>4. \A i \in 1 .. n + 1 : i \in S
  <2> HIDE DEF S, n
  <2> QED
    BY <1>1, <1>2, <1>3, Onward
<1> QED
  BY <1>4

\* The steps of a proper function, with what they lead to.
LEMMA ProperLeads ==
  ASSUME NEW f, NEW failed, NEW passed, NEW need,
         Proper(f, failed, passed, need)
  PROVE  /\ IsList(f.body)
         /\ \E more, done, g :
              /\ more \in SUBSET (passed \cup f.refs)
              /\ "result" \in done
              /\ Leads(f.cleanup, failed \cup f.refs, need, f.body,
                       State({}, {}), Level(f.cleanup, 1, more, done), g)
<1>1. PICK more, done :
        /\ more \in SUBSET (passed \cup f.refs)
        /\ "result" \in done
        /\ Reach(f.cleanup, failed \cup f.refs, need, f.body, 1, more, done)
  BY DEF Proper
<1>2. Len(f.cleanup) \in Nat
  BY DEF Proper, Labels, IsList
<1>3. Released(f.cleanup, Len(f.cleanup) + 1) = {}
  BY <1>2, ReleasedEnd
<1>4. Level(f.cleanup, Len(f.cleanup) + 1, {}, {}) = State({}, {})
  BY <1>3 DEF Level
<1> QED
  BY <1>1, <1>4 DEF Reach, Path

\* A proper function is well formed under what it holds.
LEMMA ProperIsWellFormed ==
  ASSUME NEW f, NEW lost, NEW need, Proper(f, lost.failed, lost.passed, need)
  PROVE  WellFormed(f, HoldingOf(f), lost)
<1> DEFINE c == f.cleanup
           free == lost.failed \cup f.refs
           n == Len(f.body)
           h == HoldingOf(f)
<1>1. PICK more, done, g :
        /\ more \in SUBSET (lost.passed \cup f.refs)
        /\ Leads(c, free, need, f.body, State({}, {}),
                 Level(c, 1, more, done), g)
  BY ProperLeads
<1>0. more \subseteq lost.passed \cup f.refs
  BY <1>1
<1>2. IsList(f.body) /\ Labels(c)
  BY ProperLeads DEF Proper
<1>3. n \in Nat /\ Len(c) \in Nat
  BY <1>2 DEF IsList, Labels
<1>4. /\ DOMAIN h = 1 .. n + 1
      /\ \A i \in 1 .. n + 1 : h[i] = g[i].held
  <2>1. HoldsAlong(f, g)
    BY <1>1, <1>2, HoldingIs
  <2> QED
    BY <2>1 DEF HoldsAlong
<1> HIDE DEF h
<1>5. \A i \in 1 .. n : IsStep(f.body[i])
  BY <1>1 DEF Leads, InOrder
<1>6. AnnotationHolds(f, h)
  <2>1. h[1] = {}
    BY <1>1, <1>3, <1>4 DEF Leads, State
  <2>2. ASSUME NEW i \in 1 .. n, f.body[i].op = "branch",
               NEW d \in f.body[i].jumps
        PROVE  i + d \in 1 .. n + 1 /\ h[i + d] = h[i]
    <3>1. i + d \in 1 .. n + 1 /\ g[i + d] = g[i]
      BY <1>1, <2>2 DEF Leads
    <3> QED
      BY <1>3, <1>4, <3>1
  <2>3. ASSUME NEW i \in 1 .. n
        PROVE  h[i + 1] = After(f.body[i], h[i])
    <3>1. g[i + 1].held = After(f.body[i], g[i].held)
      BY <1>1, NextState
    <3> QED
      BY <1>3, <1>4, <3>1
  <2> QED
    BY <1>4, <2>1, <2>2, <2>3 DEF AnnotationHolds
<1>7. ASSUME NEW i \in 1 .. n, f.body[i].op \in Failing
      PROVE  ExitReleases(f, h[i] \ f.body[i].drop, LabelAt(c, f.body[i].to), free)
  <2>1. ExitFits(c, g[i].held \ f.body[i].drop, f.body[i].to, free)
    BY <1>1, <1>7 DEF Leads, InOrder
  <2>2. h[i] = g[i].held
    BY <1>3, <1>4
  <2> QED
    BY <2>1, <2>2 DEF ExitFits, ExitReleases
<1>8. ExitReleases(f, h[n + 1], 1, lost.passed \cup f.refs)
  <2>1. g[n + 1] = Level(c, 1, more, done)
    BY <1>1 DEF Leads
  <2>2. h[n + 1] = Released(c, 1) \cup more
    BY <1>3, <1>4, <2>1 DEF Level, State
  <2>3. 1 \in 1 .. Len(c) + 1
    BY <1>3
  <2> QED
    BY <1>0, <2>2, <2>3 DEF ExitReleases
<1> QED
  BY <1>2, <1>3, <1>5, <1>6, <1>7, <1>8 DEF WellFormed, Labels, h

\* It does not depend on the way through the loops what came before.
LEMMA ProperOnEveryPath ==
  ASSUME NEW f, NEW failed, NEW passed, NEW need,
         Proper(f, failed, passed, need), NEW op \in Marks
  PROVE  OnEveryPath(f, op)
<1>1. IsList(f.body)
  BY ProperLeads
<1>2. PICK more, done, g :
        Leads(f.cleanup, failed \cup f.refs, need, f.body,
              State({}, {}), Level(f.cleanup, 1, more, done), g)
  BY ProperLeads
<1>3. \A i \in 1 .. Len(f.body) + 1 : Before(f, op, i) <=> op \in g[i].done
  BY <1>1, <1>2, MarksAreBefore
<1>4. Len(f.body) \in Nat
  BY <1>1 DEF IsList
<1>5. ASSUME NEW i \in 1 .. Len(f.body), f.body[i].op = "branch",
             NEW d \in f.body[i].jumps
      PROVE  Before(f, op, i + d) <=> Before(f, op, i)
  <2>1. i + d \in 1 .. Len(f.body) + 1 /\ g[i + d] = g[i]
    BY <1>2, <1>5 DEF Leads
  <2>2. i \in 1 .. Len(f.body) + 1
    BY <1>4
  <2> QED
    BY <1>3, <2>1, <2>2
<1> QED
  BY <1>5 DEF OnEveryPath

\* A proper function reports how it ended,
LEMMA ProperReports ==
  ASSUME NEW f, NEW failed, NEW passed, NEW need,
         Proper(f, failed, passed, need)
  PROVE  Reports(f)
<1>1. IsList(f.body)
  BY ProperLeads
<1>2. PICK more, done, g :
        /\ "result" \in done
        /\ Leads(f.cleanup, failed \cup f.refs, need, f.body,
                 State({}, {}), Level(f.cleanup, 1, more, done), g)
  BY ProperLeads
<1>0. "result" \in Marks
  BY DEF Marks
<1>3. \A i \in 1 .. Len(f.body) + 1 :
        Before(f, "result", i) <=> "result" \in g[i].done
  BY <1>0, <1>1, <1>2, MarksAreBefore
<1>4. Len(f.body) \in Nat
  BY <1>1 DEF IsList
<1>5. Before(f, "result", Len(f.body) + 1)
  <2>1. g[Len(f.body) + 1].done = done
    BY <1>2 DEF Leads, Level, State
  <2> QED
    BY <1>2, <1>3, <1>4, <2>1
<1>6. ASSUME NEW i \in 1 .. Len(f.body), f.body[i].op = "quiet"
      PROVE  ~Before(f, "result", i)
  <2>1. "result" \notin g[i].done
    BY <1>2, <1>6 DEF Leads, InOrder
  <2>2. i \in 1 .. Len(f.body) + 1
    BY <1>4
  <2> QED
    BY <1>3, <2>1, <2>2
<1>7. OnEveryPath(f, "result")
  BY <1>0, ProperOnEveryPath
<1> QED
  BY <1>5, <1>6, <1>7 DEF Reports

\* and authenticates what it decrypts, if that is needed.
LEMMA ProperAuthenticates ==
  ASSUME NEW f, NEW failed, NEW passed, Proper(f, failed, passed, {"verify"})
  PROVE  Authenticates(f)
<1>1. IsList(f.body)
  BY ProperLeads
<1>2. PICK more, done, g :
        Leads(f.cleanup, failed \cup f.refs, {"verify"}, f.body,
              State({}, {}), Level(f.cleanup, 1, more, done), g)
  BY ProperLeads
<1>0. "verify" \in Marks
  BY DEF Marks
<1>3. \A i \in 1 .. Len(f.body) + 1 :
        Before(f, "verify", i) <=> "verify" \in g[i].done
  BY <1>0, <1>1, <1>2, MarksAreBefore
<1>4. Len(f.body) \in Nat
  BY <1>1 DEF IsList
<1>5. ASSUME NEW i \in 1 .. Len(f.body), f.body[i].op = "decrypt"
      PROVE  Before(f, "verify", i)
  <2>1. "verify" \in g[i].done
    BY <1>2, <1>5 DEF Leads, InOrder
  <2>2. i \in 1 .. Len(f.body) + 1
    BY <1>4
  <2> QED
    BY <1>3, <2>1, <2>2
<1>6. OnEveryPath(f, "verify")
  BY <1>0, ProperOnEveryPath
<1> QED
  BY <1>5, <1>6 DEF Authenticates

\* A function is proper if its steps lead to its releases.
LEMMA ProperIf ==
  ASSUME NEW body, NEW c, NEW refs, NEW ids, NEW failed, NEW passed, NEW need,
         Labels(c), NEW more \in SUBSET (passed \cup refs), NEW done,
         "result" \in done,
         Reach(c, failed \cup refs, need, body, 1, more, done)
  PROVE  Proper(Function(body, c, refs, ids), failed, passed, need)
BY DEF Proper, Function

-----------------------------------------------------------------------------
(* The functions, one by one.                                              *)

\* A random secret key.
LEMMA GenerateKeyIsProper ==
  Proper(GenerateKey, {}, {}, {})
<1> DEFINE c == <<"prng", "randomKey">>
           free == {} \cup {}
           need == {}
           names1 == <<"randomKey", "prng">>
           s1 == <<Try(Done)>>
           s2 == s1 \o Takes(names1, Done)
           s3 == s2 \o Tries(2, "prng")
           s4 == s3 \o <<Take("keyArrayData", "prng"), Give("keyArrayData"),
                         Result>>
<1>1. Labels(c)
  <2>1. IsList(c)
    BY AreLists, Zenon
  <2> QED
    BY <2>1 DEF Labels, Done
<1>2. /\ Top(c, 3, Done) /\ Top(c, 1, "prng") /\ Opposite(c, 3, names1, 1)
      /\ Apart(c, 1, "keyArrayData")
  BY DEF Top, Opposite, Apart, Released
<1>3. /\ {} \in SUBSET free /\ 2 \in Nat
  OBVIOUS
<1> HIDE DEF c, free, need, names1, s1, s2, s3, s4
<1>4. Reach(c, free, need, s1, 3, {}, {})
  BY <1>1, <1>2, <1>3, ReachFirst DEF s1
<1>5. Reach(c, free, need, s2, 1, {}, {})
  BY <1>1, <1>2, <1>3, <1>4, ReachTakes DEF s2
<1>6. Reach(c, free, need, s3, 1, {}, {})
  BY <1>1, <1>2, <1>3, <1>5, ReachTries DEF s3
<1>7. /\ Move(c, free, need, Take("keyArrayData", "prng"), Level(c, 1, {}, {}),
               Level(c, 1, {"keyArrayData"}, {}))
      /\ Move(c, free, need, Give("keyArrayData"),
               Level(c, 1, {"keyArrayData"}, {}), Level(c, 1, {}, {}))
      /\ Move(c, free, need, Result, Level(c, 1, {}, {}),
               Level(c, 1, {}, {} \cup {"result"}))
  <2>1. /\ With({}, "keyArrayData", {"keyArrayData"})
        /\ Without({"keyArrayData"}, "keyArrayData", {})
    BY DEF With, Without
  <2> QED
    BY <1>1, <1>2, <1>3, <2>1, MoveTakeMore, MoveGive, MoveResult
<1>8. Reach(c, free, need, s4, 1, {}, {} \cup {"result"})
  BY <1>6, <1>7, PathThree, ReachPath DEF s4
<1> QED
  BY <1>1, <1>8, ProperIf
  DEF GenerateKey, c, free, need, names1, s1, s2, s3, s4

\* Encryption with a stream cipher; a failure may lose outputArrayData.
LEMMA EncryptStreamIsProper ==
  ASSUME NEW n \in Nat
  PROVE  Proper(EncryptStream(n), {"outputArrayData"}, {}, {})
<1> DEFINE c == <<"stream", "inputArrayData", "ivArrayData", "keyArrayData",
                    "keyBuffer">>
           free == {"outputArrayData"} \cup {}
           need == {}
           names1 == <<"keyBuffer", "keyArrayData", "ivArrayData",
                       "inputArrayData", "stream">>
           s1 == Tries(n, Done)
           s2 == s1 \o Takes(names1, Done)
           s3 == s2 \o <<Try("stream"), Take("outputArrayData", "stream")>>
           s4 == s3 \o Tries(2, "stream")
           s5 == s4 \o <<Give("outputArrayData"), Result>>
<1>1. Labels(c)
  <2>1. IsList(c)
    BY AreLists, Zenon
  <2> QED
    BY <2>1 DEF Labels, Done
<1>2. /\ Top(c, 6, Done) /\ Top(c, 1, "stream") /\ Opposite(c, 6, names1, 1)
      /\ Apart(c, 1, "outputArrayData")
  BY DEF Top, Opposite, Apart, Released
<1>3. /\ {} \in SUBSET free /\ {"outputArrayData"} \in SUBSET free
      /\ 2 \in Nat /\ n \in Nat
  OBVIOUS
<1> HIDE DEF c, free, need, names1, s1, s2, s3, s4, s5
<1>4. Reach(c, free, need, s1, 6, {}, {})
  BY <1>1, <1>2, <1>3, ReachFirst DEF s1
<1>5. Reach(c, free, need, s2, 1, {}, {})
  BY <1>1, <1>2, <1>3, <1>4, ReachTakes DEF s2
<1>6. /\ Move(c, free, need, Try("stream"), Level(c, 1, {}, {}),
               Level(c, 1, {}, {}))
      /\ Move(c, free, need, Take("outputArrayData", "stream"),
               Level(c, 1, {}, {}), Level(c, 1, {"outputArrayData"}, {}))
  <2>1. With({}, "outputArrayData", {"outputArrayData"})
    BY DEF With
  <2> QED
    BY <1>1, <1>2, <1>3, <2>1, MoveTry, MoveTakeMore
<1>7. Reach(c, free, need, s3, 1, {"outputArrayData"}, {})
  BY <1>5, <1>6, PathTwo, ReachPath DEF s3
<1>8. Reach(c, free, need, s4, 1, {"outputArrayData"}, {})
  BY <1>1, <1>2, <1>3, <1>7, ReachTries DEF s4
<1>9. /\ Move(c, free, need, Give("outputArrayData"),
               Level(c, 1, {"outputArrayData"}, {}), Level(c, 1, {}, {}))
      /\ Move(c, free, need, Result, Level(c, 1, {}, {}),
               Level(c, 1, {}, {} \cup {"result"}))
  <2>1. Without({"outputArrayData"}, "outputArrayData", {})
    BY DEF Without
  <2> QED
    BY <1>1, <1>2, <1>3, <2>1, MoveGive, MoveResult
<1>10. Reach(c, free, need, s5, 1, {}, {} \cup {"result"})
  BY <1>8, <1>9, PathTwo, ReachPath DEF s5
<1> QED
  BY <1>1, <1>10, ProperIf
  DEF EncryptStream, c, free, need, names1, s1, s2, s3, s4, s5

\* A key pair for signatures.
LEMMA SigningKeyPairIsProper ==
  Proper(SigningKeyPair_generate, {}, {}, {})
<1> DEFINE c == <<"pubArray", "privArray", "pub", "priv", "sign">>
           free == {} \cup {"privArray", "pubArray"}
           need == {}
           names1 == <<"sign", "priv", "pub">>
           s1 == <<Try(Done)>>
           s2 == s1 \o Takes(names1, Done)
           s3 == s2 \o <<Try("pub")>>
           s4 == s3 \o <<Take("privArray", "pub"),
                         Take("privArrayData", "privArray"),
                         Give("privArrayData")>>
           s5 == s4 \o <<Take("pubArray", "privArray"),
                         Take("pubArrayData", "pubArray"), Give("pubArrayData")>>
           s6 == s5 \o Tries(3, "pubArray")
           s7 == s6 \o <<Result>>
<1>1. Labels(c)
  <2>1. IsList(c)
    BY AreLists, Zenon
  <2> QED
    BY <2>1 DEF Labels, Done
<1>2. /\ Top(c, 6, Done) /\ Top(c, 3, "pub") /\ Top(c, 2, "privArray")
      /\ Top(c, 1, "pubArray") /\ Above(c, 3, "privArray", 2)
      /\ Above(c, 2, "pubArray", 1) /\ Opposite(c, 6, names1, 3)
      /\ Apart(c, 2, "privArrayData") /\ Apart(c, 1, "pubArrayData")
  BY DEF Top, Above, Opposite, Apart, Released
<1>3. /\ {} \in SUBSET free /\ 3 \in Nat
  OBVIOUS
<1> HIDE DEF c, free, need, names1, s1, s2, s3, s4, s5, s6, s7
<1>4. Reach(c, free, need, s1, 6, {}, {})
  BY <1>1, <1>2, <1>3, ReachFirst DEF s1
<1>5. Reach(c, free, need, s2, 3, {}, {})
  BY <1>1, <1>2, <1>3, <1>4, ReachTakes DEF s2
<1>6. Move(c, free, need, Try("pub"), Level(c, 3, {}, {}),
            Level(c, 3, {}, {}))
  BY <1>1, <1>2, <1>3, MoveTry
<1>7. Reach(c, free, need, s3, 3, {}, {})
  BY <1>5, <1>6, PathOne, ReachPath DEF s3
<1>8. /\ Move(c, free, need, Take("privArray", "pub"), Level(c, 3, {}, {}),
               Level(c, 2, {}, {}))
      /\ Move(c, free, need, Take("privArrayData", "privArray"),
               Level(c, 2, {}, {}), Level(c, 2, {"privArrayData"}, {}))
      /\ Move(c, free, need, Give("privArrayData"),
               Level(c, 2, {"privArrayData"}, {}), Level(c, 2, {}, {}))
  <2>1. /\ With({}, "privArrayData", {"privArrayData"})
        /\ Without({"privArrayData"}, "privArrayData", {})
    BY DEF With, Without
  <2> QED
    BY <1>1, <1>2, <1>3, <2>1, MoveTake, MoveTakeMore, MoveGive
<1>9. Reach(c, free, need, s4, 2, {}, {})
  BY <1>7, <1>8, PathThree, ReachPath DEF s4
<1>10. /\ Move(c, free, need, Take("pubArray", "privArray"),
               Level(c, 2, {}, {}), Level(c, 1, {}, {}))
      /\ Move(c, free, need, Take("pubArrayData", "pubArray"),
               Level(c, 1, {}, {}), Level(c, 1, {"pubArrayData"}, {}))
      /\ Move(c, free, need, Give("pubArrayData"),
               Level(c, 1, {"pubArrayData"}, {}), Level(c, 1, {}, {}))
  <2>1. /\ With({}, "pubArrayData", {"pubArrayData"})
        /\ Without({"pubArrayData"}, "pubArrayData", {})
    BY DEF With, Without
  <2> QED
    BY <1>1, <1>2, <1>3, <2>1, MoveTake, MoveTakeMore, MoveGive
<1>11. Reach(c, free, need, s5, 1, {}, {})
  BY <1>9, <1>10, PathThree, ReachPath DEF s5
<1>12. Reach(c, free, need, s6, 1, {}, {})
  BY <1>1, <1>2, <1>3, <1>11, ReachTries DEF s6
<1>13. Move(c, free, need, Result, Level(c, 1, {}, {}),
            Level(c, 1, {}, {} \cup {"result"}))
  BY <1>1, <1>2, <1>3, MoveResult
<1>14. Reach(c, free, need, s7, 1, {}, {} \cup {"result"})
  BY <1>12, <1>13, PathOne, ReachPath DEF s7
<1> QED
  BY <1>1, <1>14, ProperIf
  DEF SigningKeyPair_generate, NewArray, c, free, need, names1, s1, s2, s3, s4,
      s5, s6, s7

\* A key pair for encryption.
LEMMA EncryptionKeyPairIsProper ==
  Proper(EncryptionKeyPair_generate, {}, {}, {})
<1> DEFINE c == <<"pubKey", "privKey", "pubArray", "privArray", "pub", "priv",
                    "ka">>
           free == {} \cup {"privArray", "pubArray", "privKey", "pubKey"}
           need == {}
           names1 == <<"ka", "priv", "pub">>
           names2 == <<"privKey", "pubKey">>
           s1 == <<Try(Done)>>
           s2 == s1 \o Takes(names1, Done)
           s3 == s2 \o <<Try("pub")>>
           s4 == s3 \o <<Take("privArray", "pub"),
                         Take("privArrayData", "privArray"),
                         Give("privArrayData")>>
           s5 == s4 \o <<Take("pubArray", "privArray"),
                         Take("pubArrayData", "pubArray"), Give("pubArrayData")>>
           s6 == s5 \o Takes(names2, "pubArray")
           s7 == s6 \o <<Try("pubKey"), Result>>
<1>1. Labels(c)
  <2>1. IsList(c)
    BY AreLists, Zenon
  <2> QED
    BY <2>1 DEF Labels, Done
<1>2. /\ Top(c, 8, Done) /\ Top(c, 5, "pub") /\ Top(c, 4, "privArray")
      /\ Top(c, 3, "pubArray") /\ Top(c, 1, "pubKey")
      /\ Above(c, 5, "privArray", 4) /\ Above(c, 4, "pubArray", 3)
      /\ Opposite(c, 8, names1, 5) /\ Opposite(c, 3, names2, 1)
      /\ Apart(c, 4, "privArrayData") /\ Apart(c, 3, "pubArrayData")
  BY DEF Top, Above, Opposite, Apart, Released
<1>3. /\ {} \in SUBSET free
  OBVIOUS
<1> HIDE DEF c, free, need, names1, names2, s1, s2, s3, s4, s5, s6, s7
<1>4. Reach(c, free, need, s1, 8, {}, {})
  BY <1>1, <1>2, <1>3, ReachFirst DEF s1
<1>5. Reach(c, free, need, s2, 5, {}, {})
  BY <1>1, <1>2, <1>3, <1>4, ReachTakes DEF s2
<1>6. Move(c, free, need, Try("pub"), Level(c, 5, {}, {}),
            Level(c, 5, {}, {}))
  BY <1>1, <1>2, <1>3, MoveTry
<1>7. Reach(c, free, need, s3, 5, {}, {})
  BY <1>5, <1>6, PathOne, ReachPath DEF s3
<1>8. /\ Move(c, free, need, Take("privArray", "pub"), Level(c, 5, {}, {}),
               Level(c, 4, {}, {}))
      /\ Move(c, free, need, Take("privArrayData", "privArray"),
               Level(c, 4, {}, {}), Level(c, 4, {"privArrayData"}, {}))
      /\ Move(c, free, need, Give("privArrayData"),
               Level(c, 4, {"privArrayData"}, {}), Level(c, 4, {}, {}))
  <2>1. /\ With({}, "privArrayData", {"privArrayData"})
        /\ Without({"privArrayData"}, "privArrayData", {})
    BY DEF With, Without
  <2> QED
    BY <1>1, <1>2, <1>3, <2>1, MoveTake, MoveTakeMore, MoveGive
<1>9. Reach(c, free, need, s4, 4, {}, {})
  BY <1>7, <1>8, PathThree, ReachPath DEF s4
<1>10. /\ Move(c, free, need, Take("pubArray", "privArray"),
               Level(c, 4, {}, {}), Level(c, 3, {}, {}))
      /\ Move(c, free, need, Take("pubArrayData", "pubArray"),
               Level(c, 3, {}, {}), Level(c, 3, {"pubArrayData"}, {}))
      /\ Move(c, free, need, Give("pubArrayData"),
               Level(c, 3, {"pubArrayData"}, {}), Level(c, 3, {}, {}))
  <2>1. /\ With({}, "pubArrayData", {"pubArrayData"})
        /\ Without({"pubArrayData"}, "pubArrayData", {})
    BY DEF With, Without
  <2> QED
    BY <1>1, <1>2, <1>3, <2>1, MoveTake, MoveTakeMore, MoveGive
<1>11. Reach(c, free, need, s5, 3, {}, {})
  BY <1>9, <1>10, PathThree, ReachPath DEF s5
<1>12. Reach(c, free, need, s6, 1, {}, {})
  BY <1>1, <1>2, <1>3, <1>11, ReachTakes DEF s6
<1>13. /\ Move(c, free, need, Try("pubKey"), Level(c, 1, {}, {}),
               Level(c, 1, {}, {}))
      /\ Move(c, free, need, Result, Level(c, 1, {}, {}),
               Level(c, 1, {}, {} \cup {"result"}))
  BY <1>1, <1>2, <1>3, MoveTry, MoveResult
<1>14. Reach(c, free, need, s7, 1, {}, {} \cup {"result"})
  BY <1>12, <1>13, PathTwo, ReachPath DEF s7
<1> QED
  BY <1>1, <1>14, ProperIf
  DEF EncryptionKeyPair_generate, NewArray, c, free, need, names1, names2, s1,
      s2, s3, s4, s5, s6, s7

\* A key that is derived from a password.
LEMMA KeyFromPasswordIsProper ==
  Proper(Key_createFromPassword, {}, {}, {})
<1> DEFINE c == <<"key_buffer", "salt_buffer", "salt", "password_buffer",
                    "password", "kd", "kd_options">>
           free == {} \cup {}
           need == {}
           names1 == <<"kd_options", "kd", "password", "password_buffer",
                       "salt", "salt_buffer", "key_buffer">>
           s1 == <<Try(Done)>>
           s2 == s1 \o Takes(names1, Done)
           s3 == s2 \o Tries(2, "key_buffer")
           s4 == s3 \o <<Take("outputArrayData", "key_buffer"), Result,
                         Give("outputArrayData")>>
<1>1. Labels(c)
  <2>1. IsList(c)
    BY AreLists, Zenon
  <2> QED
    BY <2>1 DEF Labels, Done
<1>2. /\ Top(c, 8, Done) /\ Top(c, 1, "key_buffer")
      /\ Opposite(c, 8, names1, 1) /\ Apart(c, 1, "outputArrayData")
  BY DEF Top, Opposite, Apart, Released
<1>3. /\ {} \in SUBSET free /\ 2 \in Nat
  OBVIOUS
<1> HIDE DEF c, free, need, names1, s1, s2, s3, s4
<1>4. Reach(c, free, need, s1, 8, {}, {})
  BY <1>1, <1>2, <1>3, ReachFirst DEF s1
<1>5. Reach(c, free, need, s2, 1, {}, {})
  BY <1>1, <1>2, <1>3, <1>4, ReachTakes DEF s2
<1>6. Reach(c, free, need, s3, 1, {}, {})
  BY <1>1, <1>2, <1>3, <1>5, ReachTries DEF s3
<1>7. /\ Move(c, free, need, Take("outputArrayData", "key_buffer"),
               Level(c, 1, {}, {}), Level(c, 1, {"outputArrayData"}, {}))
      /\ Move(c, free, need, Result, Level(c, 1, {"outputArrayData"}, {}),
               Level(c, 1, {"outputArrayData"}, {} \cup {"result"}))
      /\ Move(c, free, need, Give("outputArrayData"),
               Level(c, 1, {"outputArrayData"}, {} \cup {"result"}),
               Level(c, 1, {}, {} \cup {"result"}))
  <2>1. /\ With({}, "outputArrayData", {"outputArrayData"})
        /\ Without({"outputArrayData"}, "outputArrayData", {})
    BY DEF With, Without
  <2> QED
    BY <1>1, <1>2, <1>3, <2>1, MoveTakeMore, MoveResult, MoveGive
<1>8. Reach(c, free, need, s4, 1, {}, {} \cup {"result"})
  BY <1>6, <1>7, PathThree, ReachPath DEF s4
<1> QED
  BY <1>1, <1>8, ProperIf
  DEF Key_createFromPassword, c, free, need, names1, s1, s2, s3, s4

\* A random key.
LEMMA RandomKeyIsProper ==
  Proper(Key_createRandom, {}, {}, {})
<1> DEFINE c == <<"outputArray", "prng", "keyBuffer">>
           free == {} \cup {"outputArray"}
           need == {}
           names1 == <<"keyBuffer", "prng">>
           s1 == <<Try(Done)>>
           s2 == s1 \o Takes(names1, Done)
           s3 == s2 \o <<Try("prng")>>
           s4 == s3 \o <<Take("outputArray", "prng"),
                         Take("outputArrayData", "outputArray"),
                         Give("outputArrayData")>>
           s5 == s4 \o <<Try("outputArray"), Result>>
<1>1. Labels(c)
  <2>1. IsList(c)
    BY AreLists, Zenon
  <2> QED
    BY <2>1 DEF Labels, Done
<1>2. /\ Top(c, 4, Done) /\ Top(c, 2, "prng") /\ Top(c, 1, "outputArray")
      /\ Above(c, 2, "outputArray", 1) /\ Opposite(c, 4, names1, 2)
      /\ Apart(c, 1, "outputArrayData")
  BY DEF Top, Above, Opposite, Apart, Released
<1>3. /\ {} \in SUBSET free
  OBVIOUS
<1> HIDE DEF c, free, need, names1, s1, s2, s3, s4, s5
<1>4. Reach(c, free, need, s1, 4, {}, {})
  BY <1>1, <1>2, <1>3, ReachFirst DEF s1
<1>5. Reach(c, free, need, s2, 2, {}, {})
  BY <1>1, <1>2, <1>3, <1>4, ReachTakes DEF s2
<1>6. Move(c, free, need, Try("prng"), Level(c, 2, {}, {}),
            Level(c, 2, {}, {}))
  BY <1>1, <1>2, <1>3, MoveTry
<1>7. Reach(c, free, need, s3, 2, {}, {})
  BY <1>5, <1>6, PathOne, ReachPath DEF s3
<1>8. /\ Move(c, free, need, Take("outputArray", "prng"), Level(c, 2, {}, {}),
               Level(c, 1, {}, {}))
      /\ Move(c, free, need, Take("outputArrayData", "outputArray"),
               Level(c, 1, {}, {}), Level(c, 1, {"outputArrayData"}, {}))
      /\ Move(c, free, need, Give("outputArrayData"),
               Level(c, 1, {"outputArrayData"}, {}), Level(c, 1, {}, {}))
  <2>1. /\ With({}, "outputArrayData", {"outputArrayData"})
        /\ Without({"outputArrayData"}, "outputArrayData", {})
    BY DEF With, Without
  <2> QED
    BY <1>1, <1>2, <1>3, <2>1, MoveTake, MoveTakeMore, MoveGive
<1>9. Reach(c, free, need, s4, 1, {}, {})
  BY <1>7, <1>8, PathThree, ReachPath DEF s4
<1>10. /\ Move(c, free, need, Try("outputArray"), Level(c, 1, {}, {}),
               Level(c, 1, {}, {}))
      /\ Move(c, free, need, Result, Level(c, 1, {}, {}),
               Level(c, 1, {}, {} \cup {"result"}))
  BY <1>1, <1>2, <1>3, MoveTry, MoveResult
<1>11. Reach(c, free, need, s5, 1, {}, {} \cup {"result"})
  BY <1>9, <1>10, PathTwo, ReachPath DEF s5
<1> QED
  BY <1>1, <1>11, ProperIf
  DEF Key_createRandom, NewArray, c, free, need, names1, s1, s2, s3, s4, s5

\* The size of a key.
LEMMA VerifyKeySizeIsProper ==
  Proper(Key_verifyKeySize, {}, {}, {})
<1> DEFINE c == <<>>
           free == {} \cup {}
           need == {}
           s1 == Tries(2, Done)
           s2 == s1 \o <<Result>>
<1>1. Labels(c)
  BY DEF Labels, IsList
<1>2. /\ Top(c, 1, Done)
  BY DEF Top
<1>3. /\ {} \in SUBSET free /\ 2 \in Nat
  OBVIOUS
<1> HIDE DEF c, free, need, s1, s2
<1>4. Reach(c, free, need, s1, 1, {}, {})
  BY <1>1, <1>2, <1>3, ReachFirst DEF s1
<1>5. Move(c, free, need, Result, Level(c, 1, {}, {}),
            Level(c, 1, {}, {} \cup {"result"}))
  BY <1>1, <1>2, <1>3, MoveResult
<1>6. Reach(c, free, need, s2, 1, {}, {} \cup {"result"})
  BY <1>4, <1>5, PathOne, ReachPath DEF s2
<1> QED
  BY <1>1, <1>6, ProperIf
  DEF Key_verifyKeySize, c, free, need, s1, s2

\* A signature.
LEMMA SignIsProper ==
  Proper(SigningPrivateKey_sign, {}, {}, {})
<1> DEFINE c == <<"sign_out", "signature", "message_bytes", "message_array",
                    "sign", "private_key_bytes", "privkey", "private_key">>
           free == {} \cup {"private_key", "message_array", "sign_out"}
           need == {}
           names1 == <<"privkey", "private_key_bytes", "sign", "message_array",
                       "message_bytes", "signature">>
           s1 == Tries(2, Done)
           s2 == s1 \o <<Take("private_key", Done), Try("private_key")>>
           s3 == s2 \o Takes(names1, "private_key")
           s4 == s3 \o <<Try("signature"), Take("sign_out", "signature"),
                         Take("sign_out_bytes", "sign_out"),
                         Give("sign_out_bytes"), Try("sign_out"), Result>>
<1>1. Labels(c)
  <2>1. IsList(c)
    BY AreLists, Zenon
  <2> QED
    BY <2>1 DEF Labels, Done
<1>2. /\ Top(c, 9, Done) /\ Top(c, 8, "private_key") /\ Top(c, 2, "signature")
      /\ Top(c, 1, "sign_out") /\ Above(c, 9, "private_key", 8)
      /\ Above(c, 2, "sign_out", 1) /\ Opposite(c, 8, names1, 2)
      /\ Apart(c, 1, "sign_out_bytes")
  BY DEF Top, Above, Opposite, Apart, Released
<1>3. /\ {} \in SUBSET free /\ 2 \in Nat
  OBVIOUS
<1> HIDE DEF c, free, need, names1, s1, s2, s3, s4
<1>4. Reach(c, free, need, s1, 9, {}, {})
  BY <1>1, <1>2, <1>3, ReachFirst DEF s1
<1>5. /\ Move(c, free, need, Take("private_key", Done), Level(c, 9, {}, {}),
               Level(c, 8, {}, {}))
      /\ Move(c, free, need, Try("private_key"), Level(c, 8, {}, {}),
               Level(c, 8, {}, {}))
  BY <1>1, <1>2, <1>3, MoveTake, MoveTry
<1>6. Reach(c, free, need, s2, 8, {}, {})
  BY <1>4, <1>5, PathTwo, ReachPath DEF s2
<1>7. Reach(c, free, need, s3, 2, {}, {})
  BY <1>1, <1>2, <1>3, <1>6, ReachTakes DEF s3
<1>8. /\ Move(c, free, need, Try("signature"), Level(c, 2, {}, {}),
               Level(c, 2, {}, {}))
      /\ Move(c, free, need, Take("sign_out", "signature"),
               Level(c, 2, {}, {}), Level(c, 1, {}, {}))
      /\ Move(c, free, need, Take("sign_out_bytes", "sign_out"),
               Level(c, 1, {}, {}), Level(c, 1, {"sign_out_bytes"}, {}))
      /\ Move(c, free, need, Give("sign_out_bytes"),
               Level(c, 1, {"sign_out_bytes"}, {}), Level(c, 1, {}, {}))
      /\ Move(c, free, need, Try("sign_out"), Level(c, 1, {}, {}),
               Level(c, 1, {}, {}))
      /\ Move(c, free, need, Result, Level(c, 1, {}, {}),
               Level(c, 1, {}, {} \cup {"result"}))
  <2>1. /\ With({}, "sign_out_bytes", {"sign_out_bytes"})
        /\ Without({"sign_out_bytes"}, "sign_out_bytes", {})
    BY DEF With, Without
  <2> QED
    BY <1>1, <1>2, <1>3, <2>1, MoveTry, MoveTake, MoveTakeMore, MoveGive,
       MoveResult
<1>9. Reach(c, free, need, s4, 1, {}, {} \cup {"result"})
  BY <1>7, <1>8, PathSix, ReachPath DEF s4
<1> QED
  BY <1>1, <1>9, ProperIf
  DEF SigningPrivateKey_sign, c, free, need, names1, s1, s2, s3, s4

\* Whether a signature is right.
LEMMA VerifyIsProper ==
  Proper(SigningPublicKey_verify, {}, {}, {})
<1> DEFINE c == <<"signature_array_bytes", "signature_array", "sign_buf",
                    "message_bytes", "message_array", "sign",
                    "public_key_bytes", "pubkey", "public_key">>
           free == {} \cup {"public_key", "message_array", "signature_array"}
           need == {}
           names1 == <<"pubkey", "public_key_bytes", "sign", "message_array",
                       "message_bytes", "sign_buf", "signature_array">>
           s1 == Tries(3, Done)
           s2 == s1 \o <<Take("public_key", Done), Try("public_key")>>
           s3 == s2 \o Takes(names1, "public_key")
           s4 == s3 \o <<Quiet("signature_array"),
                         Take("signature_array_bytes", "signature_array"),
                         Quiet("signature_array_bytes"), Result>>
<1>1. Labels(c)
  <2>1. IsList(c)
    BY AreLists, Zenon
  <2> QED
    BY <2>1 DEF Labels, Done
<1>2. /\ Top(c, 10, Done) /\ Top(c, 9, "public_key")
      /\ Top(c, 2, "signature_array") /\ Top(c, 1, "signature_array_bytes")
      /\ Above(c, 10, "public_key", 9)
      /\ Above(c, 2, "signature_array_bytes", 1) /\ Opposite(c, 9, names1, 2)
  BY DEF Top, Above, Opposite
<1>3. /\ {} \in SUBSET free /\ 3 \in Nat
  OBVIOUS
<1> HIDE DEF c, free, need, names1, s1, s2, s3, s4
<1>4. Reach(c, free, need, s1, 10, {}, {})
  BY <1>1, <1>2, <1>3, ReachFirst DEF s1
<1>5. /\ Move(c, free, need, Take("public_key", Done), Level(c, 10, {}, {}),
               Level(c, 9, {}, {}))
      /\ Move(c, free, need, Try("public_key"), Level(c, 9, {}, {}),
               Level(c, 9, {}, {}))
  BY <1>1, <1>2, <1>3, MoveTake, MoveTry
<1>6. Reach(c, free, need, s2, 9, {}, {})
  BY <1>4, <1>5, PathTwo, ReachPath DEF s2
<1>7. Reach(c, free, need, s3, 2, {}, {})
  BY <1>1, <1>2, <1>3, <1>6, ReachTakes DEF s3
<1>8. /\ Move(c, free, need, Quiet("signature_array"), Level(c, 2, {}, {}),
               Level(c, 2, {}, {}))
      /\ Move(c, free, need, Take("signature_array_bytes", "signature_array"),
               Level(c, 2, {}, {}), Level(c, 1, {}, {}))
      /\ Move(c, free, need, Quiet("signature_array_bytes"),
               Level(c, 1, {}, {}), Level(c, 1, {}, {}))
      /\ Move(c, free, need, Result, Level(c, 1, {}, {}),
               Level(c, 1, {}, {} \cup {"result"}))
  <2>1. "result" \notin {}
    OBVIOUS
  <2> QED
    BY <1>1, <1>2, <1>3, <2>1, MoveQuiet, MoveTake, MoveResult
<1>9. Reach(c, free, need, s4, 1, {}, {} \cup {"result"})
  BY <1>7, <1>8, PathFour, ReachPath DEF s4
<1> QED
  BY <1>1, <1>9, ProperIf
  DEF SigningPublicKey_verify, c, free, need, names1, s1, s2, s3, s4

\* The parser of certificates: the fields lead back to where they began.
LEMMA ParseIsProper ==
  Proper(CertificateParser_parse, {}, {}, {})
<1> DEFINE c == <<"parser", "bufferPtr", "parser_options">>
           refs == {"byteArray", "key", "entry"}
           free == {} \cup refs
           need == {}
           s1 == Tries(2, Done)
           s2 == s1 \o <<Take("parser_options", Done), Get("bufferPtr"),
                         Take("parser", "bufferPtr"), Try("parser")>>
           s3 == s2 \o ParseFields
           s4 == s3 \o <<Result>>
           a == Level(c, 1, {}, {})
           a1 == Level(c, 1, {"byteArray"}, {})
           a2 == Level(c, 1, {"byteArray", "key"}, {})
           a3 == Level(c, 1, {"byteArray", "key", "entry"}, {})
           a4 == Level(c, 1, {"byteArray", "entry"}, {})
<1>1. Labels(c)
  <2>1. IsList(c)
    BY AreLists, Zenon
  <2> QED
    BY <2>1 DEF Labels, Done
<1>2. /\ Top(c, 4, Done) /\ Top(c, 2, "bufferPtr") /\ Top(c, 1, "parser")
      /\ Above(c, 4, "parser_options", 3) /\ Above(c, 3, "bufferPtr", 2)
      /\ Above(c, 2, "parser", 1)
  BY DEF Top, Above
<1>3. /\ {} \in SUBSET free /\ 2 \in Nat
  OBVIOUS
<1>4. /\ With({}, "byteArray", {"byteArray"})
      /\ With({"byteArray"}, "key", {"byteArray", "key"})
      /\ With({"byteArray", "key"}, "entry", {"byteArray", "key", "entry"})
      /\ Without({"byteArray", "key", "entry"}, "key", {"byteArray", "entry"})
      /\ Without({"byteArray", "entry"}, "entry", {"byteArray"})
      /\ Without({"byteArray"}, "byteArray", {})
  BY DEF With, Without
<1>5. /\ Apart(c, 1, "byteArray") /\ Apart(c, 1, "key") /\ Apart(c, 1, "entry")
  BY DEF Apart, Released
<1>6. a = State(Released(c, 1) \cup {}, {})
  BY DEF Level
<1> HIDE DEF c, refs, free, need, s1, s2, s3, s4
<1>7. Reach(c, free, need, s1, 4, {}, {})
  BY <1>1, <1>2, <1>3, ReachFirst DEF s1
<1>8. /\ Move(c, free, need, Take("parser_options", Done), Level(c, 4, {}, {}),
               Level(c, 3, {}, {}))
      /\ Move(c, free, need, Get("bufferPtr"), Level(c, 3, {}, {}),
               Level(c, 2, {}, {}))
      /\ Move(c, free, need, Take("parser", "bufferPtr"), Level(c, 2, {}, {}),
               Level(c, 1, {}, {}))
      /\ Move(c, free, need, Try("parser"), Level(c, 1, {}, {}),
               Level(c, 1, {}, {}))
  BY <1>1, <1>2, <1>3, MoveTake, MoveGet, MoveTry
<1>9. Reach(c, free, need, s2, 1, {}, {})
  BY <1>7, <1>8, PathFour, ReachPath DEF s2
<1>10. /\ Move(c, free, need, Get("byteArray"), a, a1)
       /\ Move(c, free, need, Get("key"), a1, a2)
       /\ Move(c, free, need, Get("entry"), a2, a3)
       /\ Move(c, free, need, Give("key"), a3, a4)
       /\ Move(c, free, need, Give("entry"), a4, a1)
       /\ Move(c, free, need, Give("byteArray"), a1, a)
  BY <1>4, <1>5, MoveGetMore, MoveGive
<1> HIDE DEF a, a1, a2, a3, a4
<1>11. Path(c, free, need, ParseFields, a, a)
  <2> DEFINE fields == <<Get("byteArray"), Get("key"), Get("entry"),
                         Give("key"), Give("entry"), Give("byteArray")>>
  <2>1. Path(c, free, need, fields, a, a)
    BY <1>10, PathSix
  <2>2. ParseFields = Repeat(fields)
    BY DEF ParseFields
  <2> HIDE DEF fields
  <2> QED
    BY <1>6, <2>1, <2>2, PathRepeat
<1>12. Reach(c, free, need, s3, 1, {}, {})
  BY <1>9, <1>11, ReachPath DEF s3, a
<1>13. Move(c, free, need, Result, Level(c, 1, {}, {}),
            Level(c, 1, {}, {} \cup {"result"}))
  BY MoveResult
<1>14. Reach(c, free, need, s4, 1, {}, {} \cup {"result"})
  BY <1>12, <1>13, PathOne, ReachPath DEF s4
<1> QED
  BY <1>1, <1>14, ProperIf
  DEF CertificateParser_parse, c, refs, free, need, s1, s2, s3, s4

\* A key of the signer is put into a buffer that no label releases, while such
\* others and the reference to the signer are held.
LEMMA PathEntityKey ==
  ASSUME NEW c, Labels(c), NEW free, NEW need, NEW more, NEW done,
         Top(c, 1, "parser"), Apart(c, 1, "array"), Apart(c, 1, "bufferData"),
         more \subseteq free, "array" \in free, "array" \notin more,
         "bufferData" \notin more, NEW buffer, buffer # "array",
         buffer # "bufferData", NEW left, With(more, buffer, left)
  PROVE  Path(c, free, need, EntityKey(buffer), Level(c, 1, more, done),
              Level(c, 1, left, done))
<1> DEFINE more1 == more \cup {"array"}
           more2 == more1 \cup {buffer}
           more3 == more2 \cup {"bufferData"}
<1>1. /\ With(more, "array", more1) /\ With(more1, buffer, more2)
      /\ With(more2, "bufferData", more3) /\ Without(more3, "bufferData", more2)
      /\ Without(more2, "array", left)
  BY DEF With, Without
<1>2. more1 \in SUBSET free
  OBVIOUS
<1> HIDE DEF more1, more2, more3
<1>3. /\ Move(c, free, need, Get("array"), Level(c, 1, more, done),
              Level(c, 1, more1, done))
      /\ Move(c, free, need, Take(buffer, "parser"), Level(c, 1, more1, done),
              Level(c, 1, more2, done))
      /\ Move(c, free, need, Get("bufferData"), Level(c, 1, more2, done),
              Level(c, 1, more3, done))
      /\ Move(c, free, need, Give("bufferData"), Level(c, 1, more3, done),
              Level(c, 1, more2, done))
      /\ Move(c, free, need, Give("array"), Level(c, 1, more2, done),
              Level(c, 1, left, done))
  BY <1>1, <1>2, MoveGetMore, MoveTakeMore, MoveGive
<1> QED
  BY <1>3, PathFive DEF EntityKey

\* The resolver leads back to where it began, and what it leaves when it fails
\* is the reference, the array and the first of the two keys.
LEMMA PathResolveEntity ==
  ASSUME NEW c, Labels(c), NEW free, NEW need, NEW done,
         Top(c, 1, "parser"), Apart(c, 1, "entref"), Apart(c, 1, "array"),
         Apart(c, 1, "bufferData"), Apart(c, 1, "pubenckey_buffer"),
         Apart(c, 1, "pubsignkey_buffer"),
         {"entref", "array", "pubenckey_buffer"} \subseteq free
  PROVE  Path(c, free, need, ResolveEntity, Level(c, 1, {}, done),
              Level(c, 1, {}, done))
<1> DEFINE a == Level(c, 1, {}, done)
           more1 == {"entref"}
           more2 == {"entref", "pubenckey_buffer"}
           more3 == {"entref", "pubenckey_buffer", "pubsignkey_buffer"}
           more4 == {"pubenckey_buffer", "pubsignkey_buffer"}
           more5 == {"pubsignkey_buffer"}
           s1 == <<Try("parser"), Take("entref", "parser")>>
           s2 == s1 \o EntityKey("pubenckey_buffer")
           s3 == s2 \o EntityKey("pubsignkey_buffer")
           s4 == s3 \o <<Give("entref"), Give("pubenckey_buffer"),
                         Give("pubsignkey_buffer")>>
<1>1. /\ With({}, "entref", more1) /\ With(more1, "pubenckey_buffer", more2)
      /\ With(more2, "pubsignkey_buffer", more3)
      /\ Without(more3, "entref", more4)
      /\ Without(more4, "pubenckey_buffer", more5)
      /\ Without(more5, "pubsignkey_buffer", {})
  BY DEF With, Without
<1>2. /\ {} \in SUBSET free /\ more1 \subseteq free /\ more2 \subseteq free
      /\ "array" \in free /\ "array" \notin more1 /\ "array" \notin more2
      /\ "bufferData" \notin more1 /\ "bufferData" \notin more2
  OBVIOUS
<1>3. a = State(Released(c, 1) \cup {}, done)
  BY DEF Level
<1> HIDE DEF more1, more2, more3, more4, more5, s1, s2, s3, s4
<1>4. Path(c, free, need, s1, a, Level(c, 1, more1, done))
  <2>1. /\ Move(c, free, need, Try("parser"), a, a)
        /\ Move(c, free, need, Take("entref", "parser"), a,
                Level(c, 1, more1, done))
    BY <1>1, <1>2, MoveTry, MoveTakeMore
  <2> HIDE DEF a
  <2> QED
    BY <2>1, PathTwo DEF s1
<1> HIDE DEF a
<1>5. Path(c, free, need, s2, a, Level(c, 1, more2, done))
  <2>1. Path(c, free, need, EntityKey("pubenckey_buffer"),
             Level(c, 1, more1, done), Level(c, 1, more2, done))
    BY <1>1, <1>2, PathEntityKey
  <2> QED
    BY <1>4, <2>1, PathJoin DEF s2
<1>6. Path(c, free, need, s3, a, Level(c, 1, more3, done))
  <2>1. Path(c, free, need, EntityKey("pubsignkey_buffer"),
             Level(c, 1, more2, done), Level(c, 1, more3, done))
    BY <1>1, <1>2, PathEntityKey
  <2> QED
    BY <1>5, <2>1, PathJoin DEF s3
<1>7. Path(c, free, need, s4, a, a)
  <2>1. /\ Move(c, free, need, Give("entref"), Level(c, 1, more3, done),
                Level(c, 1, more4, done))
        /\ Move(c, free, need, Give("pubenckey_buffer"),
                Level(c, 1, more4, done), Level(c, 1, more5, done))
        /\ Move(c, free, need, Give("pubsignkey_buffer"),
                Level(c, 1, more5, done), a)
    BY <1>1, MoveGive DEF a
  <2>2. Path(c, free, need,
             <<Give("entref"), Give("pubenckey_buffer"),
               Give("pubsignkey_buffer")>>, Level(c, 1, more3, done), a)
    BY <2>1, PathThree
  <2> QED
    BY <1>6, <2>2, PathJoin DEF s4
<1>8. ResolveEntity = Maybe(s4)
  BY DEF ResolveEntity, s1, s2, s3, s4
<1>9. Path(c, free, need, ResolveEntity, a, a)
  BY <1>3, <1>7, <1>8, PathMaybe
<1> QED
  BY <1>9 DEF a

\* The attestation.
LEMMA AttestIsProper ==
  Proper(CertificateParser_attest, {"pubenckey_buffer"}, {}, {})
<1> DEFINE c == <<"parser", "bufferPtr", "parser_options">>
           refs == {"entref", "array"}
           free == {"pubenckey_buffer"} \cup refs
           need == {}
           s1 == Tries(2, Done)
           s2 == s1 \o <<Take("parser_options", Done), Get("bufferPtr"),
                         Take("parser", "bufferPtr")>>
           s3 == s2 \o ResolveEntity
           s4 == s3 \o <<Try("parser"), Result>>
<1>1. Labels(c)
  <2>1. IsList(c)
    BY AreLists, Zenon
  <2> QED
    BY <2>1 DEF Labels, Done
<1>2. /\ Top(c, 4, Done) /\ Top(c, 2, "bufferPtr") /\ Top(c, 1, "parser")
      /\ Above(c, 4, "parser_options", 3) /\ Above(c, 3, "bufferPtr", 2)
      /\ Above(c, 2, "parser", 1)
  BY DEF Top, Above
<1>3. /\ {} \in SUBSET free /\ 2 \in Nat
      /\ {"entref", "array", "pubenckey_buffer"} \subseteq free
  OBVIOUS
<1>4. /\ Apart(c, 1, "entref") /\ Apart(c, 1, "array")
      /\ Apart(c, 1, "bufferData") /\ Apart(c, 1, "pubenckey_buffer")
      /\ Apart(c, 1, "pubsignkey_buffer")
  BY DEF Apart, Released
<1> HIDE DEF c, refs, free, need, s1, s2, s3, s4
<1>5. Reach(c, free, need, s1, 4, {}, {})
  BY <1>1, <1>2, <1>3, ReachFirst DEF s1
<1>6. /\ Move(c, free, need, Take("parser_options", Done), Level(c, 4, {}, {}),
               Level(c, 3, {}, {}))
      /\ Move(c, free, need, Get("bufferPtr"), Level(c, 3, {}, {}),
               Level(c, 2, {}, {}))
      /\ Move(c, free, need, Take("parser", "bufferPtr"), Level(c, 2, {}, {}),
               Level(c, 1, {}, {}))
  BY <1>1, <1>2, <1>3, MoveTake, MoveGet
<1>7. Reach(c, free, need, s2, 1, {}, {})
  BY <1>5, <1>6, PathThree, ReachPath DEF s2
<1>8. Path(c, free, need, ResolveEntity, Level(c, 1, {}, {}),
           Level(c, 1, {}, {}))
  BY <1>1, <1>2, <1>3, <1>4, PathResolveEntity
<1>9. Reach(c, free, need, s3, 1, {}, {})
  BY <1>7, <1>8, ReachPath DEF s3
<1>10. /\ Move(c, free, need, Try("parser"), Level(c, 1, {}, {}),
               Level(c, 1, {}, {}))
       /\ Move(c, free, need, Result, Level(c, 1, {}, {}),
               Level(c, 1, {}, {} \cup {"result"}))
  BY <1>1, <1>2, <1>3, MoveTry, MoveResult
<1>11. Reach(c, free, need, s4, 1, {}, {} \cup {"result"})
  BY <1>9, <1>10, PathTwo, ReachPath DEF s4
<1> QED
  BY <1>1, <1>11, ProperIf
  DEF CertificateParser_attest, c, refs, free, need, s1, s2, s3, s4

\* An envelope is written.
LEMMA EncryptPayloadIsProper ==
  Proper(OuterEnvelopeWriter_encryptPayload, {}, {}, {})
<1> DEFINE c == <<"payload_buffer", "payload_bytes", "mac", "stream_cipher",
                    "shared_secret_buffer", "shared_secret_bytes", "packet",
                    "digest">>
           free == {} \cup {}
           need == {}
           names1 == <<"digest", "packet", "shared_secret_bytes",
                       "shared_secret_buffer", "stream_cipher", "mac">>
           names2 == <<"payload_bytes", "payload_buffer">>
           s1 == Tries(3, Done)
           s2 == s1 \o Takes(names1, Done)
           s3 == s2 \o Tries(3, "mac")
           s4 == s3 \o Takes(names2, "mac")
           s5 == s4 \o Tries(4, "payload_buffer")
           s6 == s5 \o <<Result, Take("retval_bytes", "payload_buffer"),
                         Give("retval_bytes")>>
<1>1. Labels(c)
  <2>1. IsList(c)
    BY AreLists, Zenon
  <2> QED
    BY <2>1 DEF Labels, Done
<1>2. /\ Top(c, 9, Done) /\ Top(c, 3, "mac") /\ Top(c, 1, "payload_buffer")
      /\ Opposite(c, 9, names1, 3) /\ Opposite(c, 3, names2, 1)
      /\ Apart(c, 1, "retval_bytes")
  BY DEF Top, Opposite, Apart, Released
<1>3. /\ {} \in SUBSET free /\ 3 \in Nat /\ 4 \in Nat
  OBVIOUS
<1> HIDE DEF c, free, need, names1, names2, s1, s2, s3, s4, s5, s6
<1>4. Reach(c, free, need, s1, 9, {}, {})
  BY <1>1, <1>2, <1>3, ReachFirst DEF s1
<1>5. Reach(c, free, need, s2, 3, {}, {})
  BY <1>1, <1>2, <1>3, <1>4, ReachTakes DEF s2
<1>6. Reach(c, free, need, s3, 3, {}, {})
  BY <1>1, <1>2, <1>3, <1>5, ReachTries DEF s3
<1>7. Reach(c, free, need, s4, 1, {}, {})
  BY <1>1, <1>2, <1>3, <1>6, ReachTakes DEF s4
<1>8. Reach(c, free, need, s5, 1, {}, {})
  BY <1>1, <1>2, <1>3, <1>7, ReachTries DEF s5
<1>9. /\ Move(c, free, need, Result, Level(c, 1, {}, {}),
               Level(c, 1, {}, {} \cup {"result"}))
      /\ Move(c, free, need, Take("retval_bytes", "payload_buffer"),
               Level(c, 1, {}, {} \cup {"result"}),
               Level(c, 1, {"retval_bytes"}, {} \cup {"result"}))
      /\ Move(c, free, need, Give("retval_bytes"),
               Level(c, 1, {"retval_bytes"}, {} \cup {"result"}),
               Level(c, 1, {}, {} \cup {"result"}))
  <2>1. /\ With({}, "retval_bytes", {"retval_bytes"})
        /\ Without({"retval_bytes"}, "retval_bytes", {})
    BY DEF With, Without
  <2> QED
    BY <1>1, <1>2, <1>3, <2>1, MoveResult, MoveTakeMore, MoveGive
<1>10. Reach(c, free, need, s6, 1, {}, {} \cup {"result"})
  BY <1>8, <1>9, PathThree, ReachPath DEF s6
<1> QED
  BY <1>1, <1>10, ProperIf
  DEF OuterEnvelopeWriter_encryptPayload, c, free, need, names1, names2, s1,
      s2, s3, s4, s5, s6

\* The header of an envelope is decrypted.
LEMMA DecryptHeaderIsProper ==
  Proper(OuterEnvelopeReader_decryptHeader, {}, {}, {})
<1> DEFINE c == <<"stream_cipher", "dheader_buffer", "header_buffer",
                    "header_bytes", "shared_secret_buffer",
                    "shared_secret_bytes">>
           free == {} \cup {}
           need == {}
           names1 == <<"shared_secret_bytes", "shared_secret_buffer",
                       "header_bytes", "header_buffer", "dheader_buffer",
                       "stream_cipher">>
           s1 == Tries(4, Done)
           s2 == s1 \o Takes(names1, Done)
           s3 == s2 \o <<Try("stream_cipher"), Decrypt("stream_cipher")>>
           s4 == s3 \o Tries(2, "stream_cipher")
           s5 == s4 \o <<Result>>
<1>1. Labels(c)
  <2>1. IsList(c)
    BY AreLists, Zenon
  <2> QED
    BY <2>1 DEF Labels, Done
<1>2. /\ Top(c, 7, Done) /\ Top(c, 1, "stream_cipher")
      /\ Opposite(c, 7, names1, 1)
  BY DEF Top, Opposite
<1>3. /\ {} \in SUBSET free /\ 4 \in Nat /\ 2 \in Nat
  OBVIOUS
<1> HIDE DEF c, free, need, names1, s1, s2, s3, s4, s5
<1>4. Reach(c, free, need, s1, 7, {}, {})
  BY <1>1, <1>2, <1>3, ReachFirst DEF s1
<1>5. Reach(c, free, need, s2, 1, {}, {})
  BY <1>1, <1>2, <1>3, <1>4, ReachTakes DEF s2
<1>6. /\ Move(c, free, need, Try("stream_cipher"), Level(c, 1, {}, {}),
               Level(c, 1, {}, {}))
      /\ Move(c, free, need, Decrypt("stream_cipher"), Level(c, 1, {}, {}),
               Level(c, 1, {}, {}))
  <2>1. need \subseteq {}
    BY DEF need
  <2> QED
    BY <1>1, <1>2, <1>3, <2>1, MoveTry, MoveDecrypt
<1>7. Reach(c, free, need, s3, 1, {}, {})
  BY <1>5, <1>6, PathTwo, ReachPath DEF s3
<1>8. Reach(c, free, need, s4, 1, {}, {})
  BY <1>1, <1>2, <1>3, <1>7, ReachTries DEF s4
<1>9. Move(c, free, need, Result, Level(c, 1, {}, {}),
            Level(c, 1, {}, {} \cup {"result"}))
  BY <1>1, <1>2, <1>3, MoveResult
<1>10. Reach(c, free, need, s5, 1, {}, {} \cup {"result"})
  BY <1>8, <1>9, PathOne, ReachPath DEF s5
<1> QED
  BY <1>1, <1>10, ProperIf
  DEF OuterEnvelopeReader_decryptHeader, c, free, need, names1, s1, s2, s3, s4,
      s5

\* The payload of an envelope is decrypted past its MAC.
LEMMA DecryptPayloadIsProper ==
  Proper(OuterEnvelopeReader_decryptPayload, {}, {}, {"verify"})
<1> DEFINE c == <<"stream_cipher", "dpayload_buffer", "digest_buffer",
                    "mac_instance", "payload_buffer", "payload_bytes",
                    "header_buffer", "header_bytes", "shared_secret_buffer",
                    "shared_secret_bytes">>
           free == {} \cup {}
           need == {"verify"}
           names1 == <<"shared_secret_bytes", "shared_secret_buffer",
                       "header_bytes", "header_buffer", "payload_bytes",
                       "payload_buffer">>
           names2 == <<"mac_instance", "digest_buffer">>
           names3 == <<"dpayload_buffer", "stream_cipher">>
           s1 == Tries(4, Done)
           s2 == s1 \o Takes(names1, Done)
           s3 == s2 \o <<Try("payload_buffer")>>
           s4 == s3 \o Takes(names2, "payload_buffer")
           s5 == s4 \o Tries(2, "digest_buffer")
           s6 == s5 \o <<Verify("digest_buffer")>>
           s7 == s6 \o Takes(names3, "digest_buffer")
           s8 == s7 \o <<Try("stream_cipher"), Decrypt("stream_cipher"),
                         Try("stream_cipher"), Result,
                         Take("retval_bytes", "stream_cipher"),
                         Give("retval_bytes")>>
<1>1. Labels(c)
  <2>1. IsList(c)
    BY AreLists, Zenon
  <2> QED
    BY <2>1 DEF Labels, Done
<1>2. /\ Top(c, 11, Done) /\ Top(c, 5, "payload_buffer")
      /\ Top(c, 3, "digest_buffer") /\ Top(c, 1, "stream_cipher")
      /\ Opposite(c, 11, names1, 5) /\ Opposite(c, 5, names2, 3)
      /\ Opposite(c, 3, names3, 1) /\ Apart(c, 1, "retval_bytes")
  BY DEF Top, Opposite, Apart, Released
<1>3. /\ {} \in SUBSET free /\ 4 \in Nat /\ 2 \in Nat
  OBVIOUS
<1> HIDE DEF c, free, need, names1, names2, names3, s1, s2, s3, s4, s5, s6, s7,
             s8
<1>4. Reach(c, free, need, s1, 11, {}, {})
  BY <1>1, <1>2, <1>3, ReachFirst DEF s1
<1>5. Reach(c, free, need, s2, 5, {}, {})
  BY <1>1, <1>2, <1>3, <1>4, ReachTakes DEF s2
<1>6. Move(c, free, need, Try("payload_buffer"), Level(c, 5, {}, {}),
            Level(c, 5, {}, {}))
  BY <1>1, <1>2, <1>3, MoveTry
<1>7. Reach(c, free, need, s3, 5, {}, {})
  BY <1>5, <1>6, PathOne, ReachPath DEF s3
<1>8. Reach(c, free, need, s4, 3, {}, {})
  BY <1>1, <1>2, <1>3, <1>7, ReachTakes DEF s4
<1>9. Reach(c, free, need, s5, 3, {}, {})
  BY <1>1, <1>2, <1>3, <1>8, ReachTries DEF s5
<1>10. Move(c, free, need, Verify("digest_buffer"), Level(c, 3, {}, {}),
            Level(c, 3, {}, {} \cup {"verify"}))
  BY <1>1, <1>2, <1>3, MoveVerify
<1>11. Reach(c, free, need, s6, 3, {}, {} \cup {"verify"})
  BY <1>9, <1>10, PathOne, ReachPath DEF s6
<1>12. Reach(c, free, need, s7, 1, {}, {} \cup {"verify"})
  BY <1>1, <1>2, <1>3, <1>11, ReachTakes DEF s7
<1>13. /\ Move(c, free, need, Try("stream_cipher"),
               Level(c, 1, {}, {} \cup {"verify"}), Level(c, 1, {}, {} \cup {"verify"}))
      /\ Move(c, free, need, Decrypt("stream_cipher"),
               Level(c, 1, {}, {} \cup {"verify"}), Level(c, 1, {}, {} \cup {"verify"}))
      /\ Move(c, free, need, Try("stream_cipher"),
               Level(c, 1, {}, {} \cup {"verify"}), Level(c, 1, {}, {} \cup {"verify"}))
      /\ Move(c, free, need, Result, Level(c, 1, {}, {} \cup {"verify"}),
               Level(c, 1, {}, ({} \cup {"verify"}) \cup {"result"}))
      /\ Move(c, free, need, Take("retval_bytes", "stream_cipher"),
               Level(c, 1, {}, ({} \cup {"verify"}) \cup {"result"}),
               Level(c, 1, {"retval_bytes"}, ({} \cup {"verify"}) \cup {"result"}))
      /\ Move(c, free, need, Give("retval_bytes"),
               Level(c, 1, {"retval_bytes"}, ({} \cup {"verify"}) \cup {"result"}),
               Level(c, 1, {}, ({} \cup {"verify"}) \cup {"result"}))
  <2>1. /\ need \subseteq {} \cup {"verify"}
        /\ With({}, "retval_bytes", {"retval_bytes"})
        /\ Without({"retval_bytes"}, "retval_bytes", {})
    BY DEF With, Without, need
  <2> QED
    BY <1>1, <1>2, <1>3, <2>1, MoveTry, MoveDecrypt, MoveResult, MoveTakeMore,
       MoveGive
<1>14. Reach(c, free, need, s8, 1, {}, ({} \cup {"verify"}) \cup {"result"})
  BY <1>12, <1>13, PathSix, ReachPath DEF s8
<1> QED
  BY <1>1, <1>14, ProperIf
  DEF OuterEnvelopeReader_decryptPayload, DecryptPayload_verify, c, free, need,
      names1, names2, names3, s1, s2, s3, s4, s5, s6, s7, s8

\* The shared secret of the handshake.
LEMMA SharedSecretIsProper ==
  Proper(ProtocolHandlerImpl_computeSharedSecret, {}, {}, {})
<1> DEFINE c == <<"key_agreement", "shared_secret_buffer",
                    "client_nonce_buffer", "client_nonce_bytes",
                    "server_nonce_buffer", "server_nonce_bytes",
                    "server_public_key_buffer", "server_public_key_bytes",
                    "client_private_key_buffer", "client_private_key_bytes">>
           free == {} \cup {}
           need == {}
           names1 == <<"client_private_key_bytes", "client_private_key_buffer",
                       "server_public_key_bytes", "server_public_key_buffer",
                       "server_nonce_bytes", "server_nonce_buffer",
                       "client_nonce_bytes", "client_nonce_buffer">>
           names2 == <<"shared_secret_buffer", "key_agreement">>
           s1 == Tries(5, Done)
           s2 == s1 \o Takes(names1, Done)
           s3 == s2 \o Takes(names2, "client_nonce_buffer")
           s4 == s3 \o Tries(2, "key_agreement")
           s5 == s4 \o <<Result, Take("retval_bytes", "key_agreement"),
                         Give("retval_bytes")>>
<1>1. Labels(c)
  <2>1. IsList(c)
    BY AreLists, Zenon
  <2> QED
    BY <2>1 DEF Labels, Done
<1>2. /\ Top(c, 11, Done) /\ Top(c, 3, "client_nonce_buffer")
      /\ Top(c, 1, "key_agreement") /\ Opposite(c, 11, names1, 3)
      /\ Opposite(c, 3, names2, 1) /\ Apart(c, 1, "retval_bytes")
  BY DEF Top, Opposite, Apart, Released
<1>3. /\ {} \in SUBSET free /\ 5 \in Nat /\ 2 \in Nat
  OBVIOUS
<1> HIDE DEF c, free, need, names1, names2, s1, s2, s3, s4, s5
<1>4. Reach(c, free, need, s1, 11, {}, {})
  BY <1>1, <1>2, <1>3, ReachFirst DEF s1
<1>5. Reach(c, free, need, s2, 3, {}, {})
  BY <1>1, <1>2, <1>3, <1>4, ReachTakes DEF s2
<1>6. Reach(c, free, need, s3, 1, {}, {})
  BY <1>1, <1>2, <1>3, <1>5, ReachTakes DEF s3
<1>7. Reach(c, free, need, s4, 1, {}, {})
  BY <1>1, <1>2, <1>3, <1>6, ReachTries DEF s4
<1>8. /\ Move(c, free, need, Result, Level(c, 1, {}, {}),
               Level(c, 1, {}, {} \cup {"result"}))
      /\ Move(c, free, need, Take("retval_bytes", "key_agreement"),
               Level(c, 1, {}, {} \cup {"result"}),
               Level(c, 1, {"retval_bytes"}, {} \cup {"result"}))
      /\ Move(c, free, need, Give("retval_bytes"),
               Level(c, 1, {"retval_bytes"}, {} \cup {"result"}),
               Level(c, 1, {}, {} \cup {"result"}))
  <2>1. /\ With({}, "retval_bytes", {"retval_bytes"})
        /\ Without({"retval_bytes"}, "retval_bytes", {})
    BY DEF With, Without
  <2> QED
    BY <1>1, <1>2, <1>3, <2>1, MoveResult, MoveTakeMore, MoveGive
<1>9. Reach(c, free, need, s5, 1, {}, {} \cup {"result"})
  BY <1>7, <1>8, PathThree, ReachPath DEF s5
<1> QED
  BY <1>1, <1>9, ProperIf
  DEF ProtocolHandlerImpl_computeSharedSecret, ComputeSharedSecret_inputs, c,
      free, need, names1, names2, s1, s2, s3, s4, s5

\* A MAC over one array; its context is lost.
LEMMA HmacIsProper ==
  Proper(HMAC_digest, {"mac"}, {"mac"}, {})
<1> DEFINE c == <<"mac_buffer", "message_bytes", "key_buffer", "key_bytes">>
           free == {"mac"} \cup {}
           need == {}
           s1 == Tries(3, Done)
           s2 == s1 \o Takes(<<"key_bytes", "key_buffer", "mac">>, Done)
           s3 == s2 \o <<Take("message_bytes", "key_buffer"),
                         Try("message_bytes"),
                         Take("mac_buffer", "message_bytes")>>
           s4 == s3 \o Tries(2, "mac_buffer")
           s5 == s4 \o <<Result, Take("retval_bytes", "mac_buffer"),
                         Give("retval_bytes")>>
<1>1. Labels(c)
  <2>1. IsList(c)
    BY AreLists, Zenon
  <2> QED
    BY <2>1 DEF Labels, Done
<1>2. /\ Top(c, 5, Done) /\ Top(c, 3, "key_buffer")
      /\ Top(c, 2, "message_bytes") /\ Top(c, 1, "mac_buffer")
      /\ Above(c, 3, "message_bytes", 2) /\ Above(c, 2, "mac_buffer", 1)
      /\ Opposite(c, 5, <<"key_bytes", "key_buffer">>, 3)
      /\ Apart(c, 1, "retval_bytes")
  BY DEF Top, Above, Opposite, Apart, Released
<1>3. /\ {} \in SUBSET free /\ {"mac"} \in SUBSET free /\ 3 \in Nat
      /\ 2 \in Nat
  OBVIOUS
<1> HIDE DEF c, free, need, s1, s2, s3, s4, s5
<1>4. Reach(c, free, need, s1, 5, {}, {})
  BY <1>1, <1>2, <1>3, ReachFirst DEF s1
<1>5. With({}, "mac", {"mac"})
  BY DEF With
<1>6. Reach(c, free, need, s2, 3, {"mac"}, {})
  BY <1>1, <1>2, <1>3, <1>4, <1>5, ReachTakesMore DEF s2
<1>7. /\ Move(c, free, need, Take("message_bytes", "key_buffer"),
               Level(c, 3, {"mac"}, {}), Level(c, 2, {"mac"}, {}))
      /\ Move(c, free, need, Try("message_bytes"), Level(c, 2, {"mac"}, {}),
               Level(c, 2, {"mac"}, {}))
      /\ Move(c, free, need, Take("mac_buffer", "message_bytes"),
               Level(c, 2, {"mac"}, {}), Level(c, 1, {"mac"}, {}))
  BY <1>1, <1>2, <1>3, MoveTake, MoveTry
<1>8. Reach(c, free, need, s3, 1, {"mac"}, {})
  BY <1>6, <1>7, PathThree, ReachPath DEF s3
<1>9. Reach(c, free, need, s4, 1, {"mac"}, {})
  BY <1>1, <1>2, <1>3, <1>8, ReachTries DEF s4
<1>10. /\ Move(c, free, need, Result, Level(c, 1, {"mac"}, {}),
               Level(c, 1, {"mac"}, {} \cup {"result"}))
      /\ Move(c, free, need, Take("retval_bytes", "mac_buffer"),
               Level(c, 1, {"mac"}, {} \cup {"result"}),
               Level(c, 1, {"mac", "retval_bytes"}, {} \cup {"result"}))
      /\ Move(c, free, need, Give("retval_bytes"),
               Level(c, 1, {"mac", "retval_bytes"}, {} \cup {"result"}),
               Level(c, 1, {"mac"}, {} \cup {"result"}))
  <2>1. /\ With({"mac"}, "retval_bytes", {"mac", "retval_bytes"})
        /\ Without({"mac", "retval_bytes"}, "retval_bytes", {"mac"})
    BY DEF With, Without
  <2> QED
    BY <1>1, <1>2, <1>3, <2>1, MoveResult, MoveTakeMore, MoveGive
<1>11. Reach(c, free, need, s5, 1, {"mac"}, {} \cup {"result"})
  BY <1>9, <1>10, PathThree, ReachPath DEF s5
<1> QED
  BY <1>1, <1>11, ProperIf
  DEF HMAC_digest, c, free, need, s1, s2, s3, s4, s5

\* A MAC over an array of arrays, however many there are.
LEMMA HmacArrIsProper ==
  Proper(HMAC_digestArr, {"mac"}, {"mac"}, {})
<1> DEFINE c == <<"mac_buffer", "key_buffer", "key_bytes">>
           free == {"mac"} \cup {"msg_arr"}
           need == {}
           s1 == Tries(3, Done)
           s2 == s1 \o Takes(<<"key_bytes", "key_buffer", "mac">>, Done)
           s3 == s2 \o <<Branch({1, 7}), Get("msg_arr"),
                         Take("msg_bytes", "key_buffer"),
                         TryOrGive("msg_bytes", "key_buffer"),
                         Give("msg_bytes"), Give("msg_arr"), Branch({-6}),
                         Take("mac_buffer", "key_buffer")>>
           s4 == s3 \o Tries(2, "mac_buffer")
           s5 == s4 \o <<Result, Take("retval_bytes", "mac_buffer"),
                         Give("retval_bytes")>>
<1>1. Labels(c)
  <2>1. IsList(c)
    BY AreLists, Zenon
  <2> QED
    BY <2>1 DEF Labels, Done
<1>2. /\ Top(c, 4, Done) /\ Top(c, 2, "key_buffer") /\ Top(c, 1, "mac_buffer")
      /\ Above(c, 2, "mac_buffer", 1)
      /\ Opposite(c, 4, <<"key_bytes", "key_buffer">>, 2)
      /\ Apart(c, 2, "msg_bytes") /\ Apart(c, 2, "msg_arr")
      /\ Apart(c, 1, "retval_bytes")
  BY DEF Top, Above, Opposite, Apart, Released
<1>3. /\ {} \in SUBSET free /\ {"mac", "msg_arr"} \in SUBSET free
      /\ {"mac"} \in SUBSET free /\ 3 \in Nat /\ 2 \in Nat
  OBVIOUS
<1> HIDE DEF c, free, need, s1, s2, s3, s4, s5
<1>4. Reach(c, free, need, s1, 4, {}, {})
  BY <1>1, <1>2, <1>3, ReachFirst DEF s1
<1>5. With({}, "mac", {"mac"})
  BY DEF With
<1>6. Reach(c, free, need, s2, 2, {"mac"}, {})
  BY <1>1, <1>2, <1>3, <1>4, <1>5, ReachTakesMore DEF s2
<1>7. /\ Move(c, free, need, Get("msg_arr"), Level(c, 2, {"mac"}, {}),
               Level(c, 2, {"mac", "msg_arr"}, {}))
      /\ Move(c, free, need, Take("msg_bytes", "key_buffer"),
               Level(c, 2, {"mac", "msg_arr"}, {}),
               Level(c, 2, {"mac", "msg_arr", "msg_bytes"}, {}))
      /\ Move(c, free, need, TryOrGive("msg_bytes", "key_buffer"),
               Level(c, 2, {"mac", "msg_arr", "msg_bytes"}, {}),
               Level(c, 2, {"mac", "msg_arr", "msg_bytes"}, {}))
      /\ Move(c, free, need, Give("msg_bytes"),
               Level(c, 2, {"mac", "msg_arr", "msg_bytes"}, {}),
               Level(c, 2, {"mac", "msg_arr"}, {}))
      /\ Move(c, free, need, Give("msg_arr"),
               Level(c, 2, {"mac", "msg_arr"}, {}), Level(c, 2, {"mac"}, {}))
  <2>1. /\ With({"mac"}, "msg_arr", {"mac", "msg_arr"})
        /\ With({"mac", "msg_arr"}, "msg_bytes", {"mac", "msg_arr", "msg_bytes"})
        /\ {"mac", "msg_arr", "msg_bytes"} \ {"msg_bytes"} \subseteq free
        /\ Without({"mac", "msg_arr", "msg_bytes"}, "msg_bytes", {"mac", "msg_arr"})
        /\ Without({"mac", "msg_arr"}, "msg_arr", {"mac"})
    BY DEF With, Without, free
  <2> QED
    BY <1>1, <1>2, <1>3, <2>1, MoveGetMore, MoveTakeMore, MoveTryOrGive,
       MoveGive
<1>8. Move(c, free, need, Take("mac_buffer", "key_buffer"),
            Level(c, 2, {"mac"}, {}), Level(c, 1, {"mac"}, {}))
  BY <1>1, <1>2, <1>3, MoveTake
<1>9. Path(c, free, need,
           <<Branch({1, 7}), Get("msg_arr"), Take("msg_bytes", "key_buffer"),
             TryOrGive("msg_bytes", "key_buffer"), Give("msg_bytes"),
             Give("msg_arr"), Branch({-6}), Take("mac_buffer", "key_buffer")>>,
           Level(c, 2, {"mac"}, {}), Level(c, 1, {"mac"}, {}))
  <2> DEFINE t == <<Get("msg_arr"), Take("msg_bytes", "key_buffer"),
                    TryOrGive("msg_bytes", "key_buffer"), Give("msg_bytes"),
                    Give("msg_arr")>>
             u == <<Branch({1, 7}), Get("msg_arr"),
                    Take("msg_bytes", "key_buffer"),
                    TryOrGive("msg_bytes", "key_buffer"), Give("msg_bytes"),
                    Give("msg_arr"), Branch({-6})>>
             w == <<Branch({1, 7}), Get("msg_arr"),
                    Take("msg_bytes", "key_buffer"),
                    TryOrGive("msg_bytes", "key_buffer"), Give("msg_bytes"),
                    Give("msg_arr"), Branch({-6}),
                    Take("mac_buffer", "key_buffer")>>
             a == Level(c, 2, {"mac"}, {})
  <2>1. Path(c, free, need, t, a, a)
    BY <1>7, PathFive
  <2>2. Path(c, free, need, <<Take("mac_buffer", "key_buffer")>>, a,
             Level(c, 1, {"mac"}, {}))
    BY <1>8, PathOne
  <2>3. Loops(t, u)
    BY LoopsAre, Zenon
  <2>4. Joins(u, <<Take("mac_buffer", "key_buffer")>>, w)
    BY JoinsLists, Zenon
  <2>5. a = State(Released(c, 2) \cup {"mac"}, {})
    BY DEF Level
  <2> HIDE DEF t, u, w, a
  <2>6. Path(c, free, need, u, a, a)
    BY <2>1, <2>3, <2>5, PathLoop
  <2>7. Path(c, free, need, w, a, Level(c, 1, {"mac"}, {}))
    BY <2>2, <2>4, <2>6, PathJoins
  <2> QED
    BY <2>7 DEF w, a
<1>10. Reach(c, free, need, s3, 1, {"mac"}, {})
  BY <1>6, <1>9, ReachPath DEF s3
<1>11. Reach(c, free, need, s4, 1, {"mac"}, {})
  BY <1>1, <1>2, <1>3, <1>10, ReachTries DEF s4
<1>12. /\ Move(c, free, need, Result, Level(c, 1, {"mac"}, {}),
               Level(c, 1, {"mac"}, {} \cup {"result"}))
      /\ Move(c, free, need, Take("retval_bytes", "mac_buffer"),
               Level(c, 1, {"mac"}, {} \cup {"result"}),
               Level(c, 1, {"mac", "retval_bytes"}, {} \cup {"result"}))
      /\ Move(c, free, need, Give("retval_bytes"),
               Level(c, 1, {"mac", "retval_bytes"}, {} \cup {"result"}),
               Level(c, 1, {"mac"}, {} \cup {"result"}))
  <2>1. /\ With({"mac"}, "retval_bytes", {"mac", "retval_bytes"})
        /\ Without({"mac", "retval_bytes"}, "retval_bytes", {"mac"})
    BY DEF With, Without
  <2> QED
    BY <1>1, <1>2, <1>3, <2>1, MoveResult, MoveTakeMore, MoveGive
<1>13. Reach(c, free, need, s5, 1, {"mac"}, {} \cup {"result"})
  BY <1>11, <1>12, PathThree, ReachPath DEF s5
<1> QED
  BY <1>1, <1>13, ProperIf
  DEF HMAC_digestArr, c, free, need, s1, s2, s3, s4, s5

\* Encryption under a session key and a MAC.
LEMMA SimpleEncryptIsProper ==
  Proper(SimpleStreamCipher_encrypt, {}, {}, {})
<1> DEFINE c == <<"macBuffer", "stream", "block", "mac", "streamIVBuffer",
                    "sessionIVBuffer", "sessionKeyBuffer", "prng",
                    "outputArrayData", "keyBuffer", "keyBytesData", "inputData">>
           free == {} \cup {}
           need == {}
           names1 == <<"keyBytesData", "keyBuffer">>
           names2 == <<"outputArrayData", "prng", "sessionKeyBuffer",
                       "sessionIVBuffer", "streamIVBuffer">>
           names3 == <<"mac", "block">>
           s1 == Tries(2, Done)
           s2 == s1 \o <<Take("inputData", Done)>>
           s3 == s2 \o Tries(2, "inputData")
           s4 == s3 \o Takes(names1, "inputData")
           s5 == s4 \o <<Try("keyBuffer")>>
           s6 == s5 \o SimpleEncrypt_session
           s7 == s6 \o <<Take("stream", "block")>>
           s8 == s7 \o Tries(3, "stream")
           s9 == s8 \o <<Take("macBuffer", "stream"), Try("macBuffer"), Result>>
<1>1. Labels(c)
  <2>1. IsList(c)
    BY AreLists, Zenon
  <2> QED
    BY <2>1 DEF Labels, Done
<1>2. /\ Top(c, 13, Done) /\ Top(c, 12, "inputData")
      /\ Top(c, 10, "keyBuffer") /\ Top(c, 5, "streamIVBuffer")
      /\ Top(c, 3, "block") /\ Top(c, 2, "stream") /\ Top(c, 1, "macBuffer")
      /\ Above(c, 13, "inputData", 12) /\ Above(c, 3, "stream", 2)
      /\ Above(c, 2, "macBuffer", 1) /\ Opposite(c, 12, names1, 10)
      /\ Opposite(c, 10, names2, 5) /\ Opposite(c, 5, names3, 3)
  BY DEF Top, Above, Opposite
<1>3. /\ {} \in SUBSET free /\ 2 \in Nat /\ 3 \in Nat
  OBVIOUS
<1> HIDE DEF c, free, need, names1, names2, names3, s1, s2, s3, s4, s5, s6, s7,
             s8, s9
<1>4. Reach(c, free, need, s1, 13, {}, {})
  BY <1>1, <1>2, <1>3, ReachFirst DEF s1
<1>5. Move(c, free, need, Take("inputData", Done), Level(c, 13, {}, {}),
            Level(c, 12, {}, {}))
  BY <1>1, <1>2, <1>3, MoveTake
<1>6. Reach(c, free, need, s2, 12, {}, {})
  BY <1>4, <1>5, PathOne, ReachPath DEF s2
<1>7. Reach(c, free, need, s3, 12, {}, {})
  BY <1>1, <1>2, <1>3, <1>6, ReachTries DEF s3
<1>8. Reach(c, free, need, s4, 10, {}, {})
  BY <1>1, <1>2, <1>3, <1>7, ReachTakes DEF s4
<1>9. Move(c, free, need, Try("keyBuffer"), Level(c, 10, {}, {}),
            Level(c, 10, {}, {}))
  BY <1>1, <1>2, <1>3, MoveTry
<1>10. Reach(c, free, need, s5, 10, {}, {})
  BY <1>8, <1>9, PathOne, ReachPath DEF s5
<1>11. Path(c, free, need, SimpleEncrypt_session, Level(c, 10, {}, {}),
           Level(c, 3, {}, {}))
  <2>1. Path(c, free, need, Takes(names2, "keyBuffer"), Level(c, 10, {}, {}),
             Level(c, 5, {}, {}))
    BY <1>1, <1>2, <1>3, PathTakes
  <2>2. Path(c, free, need, Tries(3, "streamIVBuffer"), Level(c, 5, {}, {}),
             Level(c, 5, {}, {}))
    BY <1>1, <1>2, <1>3, PathTries
  <2>3. Path(c, free, need, Takes(names3, "streamIVBuffer"), Level(c, 5, {}, {}),
             Level(c, 3, {}, {}))
    BY <1>1, <1>2, <1>3, PathTakes
  <2>4. Path(c, free, need, Tries(2, "block"), Level(c, 3, {}, {}),
             Level(c, 3, {}, {}))
    BY <1>1, <1>2, <1>3, PathTries
  <2> QED
    BY <2>1, <2>2, <2>3, <2>4, PathJoin DEF SimpleEncrypt_session, names2, names3
<1>12. Reach(c, free, need, s6, 3, {}, {})
  BY <1>10, <1>11, ReachPath DEF s6
<1>13. Move(c, free, need, Take("stream", "block"), Level(c, 3, {}, {}),
            Level(c, 2, {}, {}))
  BY <1>1, <1>2, <1>3, MoveTake
<1>14. Reach(c, free, need, s7, 2, {}, {})
  BY <1>12, <1>13, PathOne, ReachPath DEF s7
<1>15. Reach(c, free, need, s8, 2, {}, {})
  BY <1>1, <1>2, <1>3, <1>14, ReachTries DEF s8
<1>16. /\ Move(c, free, need, Take("macBuffer", "stream"), Level(c, 2, {}, {}),
               Level(c, 1, {}, {}))
      /\ Move(c, free, need, Try("macBuffer"), Level(c, 1, {}, {}),
               Level(c, 1, {}, {}))
      /\ Move(c, free, need, Result, Level(c, 1, {}, {}),
               Level(c, 1, {}, {} \cup {"result"}))
  BY <1>1, <1>2, <1>3, MoveTake, MoveTry, MoveResult
<1>17. Reach(c, free, need, s9, 1, {}, {} \cup {"result"})
  BY <1>15, <1>16, PathThree, ReachPath DEF s9
<1> QED
  BY <1>1, <1>17, ProperIf
  DEF SimpleStreamCipher_encrypt, SimpleEncrypt_key, c, free, need, names1,
      names2, names3, s1, s2, s3, s4, s5, s6, s7, s8, s9

\* Its decryption: the data past the MAC.
LEMMA SimpleDecryptIsProper ==
  Proper(SimpleStreamCipher_decrypt, {}, {}, {"verify"})
<1> DEFINE c == <<"stream", "macBuffer", "mac", "block", "sessionKeyBuffer",
                    "outputArrayData", "keyBuffer", "keyBytesData", "inputData">>
           free == {} \cup {}
           need == {"verify"}
           names1 == <<"keyBytesData", "keyBuffer">>
           names2 == <<"outputArrayData", "sessionKeyBuffer", "block">>
           s1 == Tries(2, Done)
           s2 == s1 \o <<Take("inputData", Done)>>
           s3 == s2 \o Tries(2, "inputData")
           s4 == s3 \o Takes(names1, "inputData")
           s5 == s4 \o Tries(2, "keyBuffer")
           s6 == s5 \o Takes(names2, "keyBuffer")
           s7 == s6 \o <<Unwrap("block"), Take("mac", "block"), Try("mac"),
                         Take("macBuffer", "mac"), Try("macBuffer"),
                         Verify("macBuffer"), Take("stream", "macBuffer"),
                         Try("stream"), Decrypt("stream"), Result>>
<1>1. Labels(c)
  <2>1. IsList(c)
    BY AreLists, Zenon
  <2> QED
    BY <2>1 DEF Labels, Done
<1>2. /\ Top(c, 10, Done) /\ Top(c, 9, "inputData") /\ Top(c, 7, "keyBuffer")
      /\ Top(c, 4, "block") /\ Top(c, 3, "mac") /\ Top(c, 2, "macBuffer")
      /\ Top(c, 1, "stream") /\ Above(c, 10, "inputData", 9)
      /\ Above(c, 4, "mac", 3) /\ Above(c, 3, "macBuffer", 2)
      /\ Above(c, 2, "stream", 1) /\ Opposite(c, 9, names1, 7)
      /\ Opposite(c, 7, names2, 4)
  BY DEF Top, Above, Opposite
<1>3. /\ {} \in SUBSET free /\ 2 \in Nat
  OBVIOUS
<1> HIDE DEF c, free, need, names1, names2, s1, s2, s3, s4, s5, s6, s7
<1>4. Reach(c, free, need, s1, 10, {}, {})
  BY <1>1, <1>2, <1>3, ReachFirst DEF s1
<1>5. Move(c, free, need, Take("inputData", Done), Level(c, 10, {}, {}),
            Level(c, 9, {}, {}))
  BY <1>1, <1>2, <1>3, MoveTake
<1>6. Reach(c, free, need, s2, 9, {}, {})
  BY <1>4, <1>5, PathOne, ReachPath DEF s2
<1>7. Reach(c, free, need, s3, 9, {}, {})
  BY <1>1, <1>2, <1>3, <1>6, ReachTries DEF s3
<1>8. Reach(c, free, need, s4, 7, {}, {})
  BY <1>1, <1>2, <1>3, <1>7, ReachTakes DEF s4
<1>9. Reach(c, free, need, s5, 7, {}, {})
  BY <1>1, <1>2, <1>3, <1>8, ReachTries DEF s5
<1>10. Reach(c, free, need, s6, 4, {}, {})
  BY <1>1, <1>2, <1>3, <1>9, ReachTakes DEF s6
<1>11. /\ Move(c, free, need, Unwrap("block"), Level(c, 4, {}, {}),
               Level(c, 4, {}, {}))
      /\ Move(c, free, need, Take("mac", "block"), Level(c, 4, {}, {}),
               Level(c, 3, {}, {}))
      /\ Move(c, free, need, Try("mac"), Level(c, 3, {}, {}),
               Level(c, 3, {}, {}))
      /\ Move(c, free, need, Take("macBuffer", "mac"), Level(c, 3, {}, {}),
               Level(c, 2, {}, {}))
      /\ Move(c, free, need, Try("macBuffer"), Level(c, 2, {}, {}),
               Level(c, 2, {}, {}))
  BY <1>1, <1>2, <1>3, MoveUnwrap, MoveTry, MoveTake
<1>12. /\ Move(c, free, need, Verify("macBuffer"), Level(c, 2, {}, {}),
               Level(c, 2, {}, {} \cup {"verify"}))
      /\ Move(c, free, need, Take("stream", "macBuffer"),
               Level(c, 2, {}, {} \cup {"verify"}), Level(c, 1, {}, {} \cup {"verify"}))
      /\ Move(c, free, need, Try("stream"),
               Level(c, 1, {}, {} \cup {"verify"}), Level(c, 1, {}, {} \cup {"verify"}))
      /\ Move(c, free, need, Decrypt("stream"),
               Level(c, 1, {}, {} \cup {"verify"}), Level(c, 1, {}, {} \cup {"verify"}))
      /\ Move(c, free, need, Result, Level(c, 1, {}, {} \cup {"verify"}),
               Level(c, 1, {}, ({} \cup {"verify"}) \cup {"result"}))
  <2>1. need \subseteq {} \cup {"verify"}
    BY DEF need
  <2> QED
    BY <1>1, <1>2, <1>3, <2>1, MoveVerify, MoveTake, MoveTry, MoveDecrypt,
       MoveResult
<1>13. Path(c, free, need,
           <<Unwrap("block"), Take("mac", "block"), Try("mac"),
             Take("macBuffer", "mac"), Try("macBuffer"), Verify("macBuffer"),
             Take("stream", "macBuffer"), Try("stream"), Decrypt("stream"),
             Result>>,
           Level(c, 4, {}, {}),
           Level(c, 1, {}, ({} \cup {"verify"}) \cup {"result"}))
  <2> DEFINE t == <<Unwrap("block"), Take("mac", "block"), Try("mac"),
                    Take("macBuffer", "mac"), Try("macBuffer")>>
             u == <<Verify("macBuffer"), Take("stream", "macBuffer"),
                    Try("stream"), Decrypt("stream"), Result>>
             w == <<Unwrap("block"), Take("mac", "block"), Try("mac"),
                    Take("macBuffer", "mac"), Try("macBuffer"),
                    Verify("macBuffer"), Take("stream", "macBuffer"),
                    Try("stream"), Decrypt("stream"), Result>>
  <2>1. Joins(t, u, w)
    BY JoinsLists, Zenon
  <2>2. Path(c, free, need, t, Level(c, 4, {}, {}), Level(c, 2, {}, {}))
    BY <1>11, PathFive
  <2>3. Path(c, free, need, u, Level(c, 2, {}, {}),
             Level(c, 1, {}, ({} \cup {"verify"}) \cup {"result"}))
    BY <1>12, PathFive
  <2> HIDE DEF t, u, w
  <2>4. Path(c, free, need, w, Level(c, 4, {}, {}),
             Level(c, 1, {}, ({} \cup {"verify"}) \cup {"result"}))
    BY <2>1, <2>2, <2>3, PathJoins
  <2> QED
    BY <2>4 DEF w
<1>14. Reach(c, free, need, s7, 1, {}, ({} \cup {"verify"}) \cup {"result"})
  BY <1>10, <1>13, ReachPath DEF s7
<1> QED
  BY <1>1, <1>14, ProperIf
  DEF SimpleStreamCipher_decrypt, SimpleDecrypt_key, c, free, need, names1,
      names2, s1, s2, s3, s4, s5, s6, s7

\* A certificate is emitted.
LEMMA EmitIsProper ==
  Proper(CertificateBuilder_emit, {}, {}, {})
<1> DEFINE c == <<"builder">>
           free == {} \cup {}
           need == {}
           s1 == Tries(2, Done)
           s2 == s1 \o AddFields
           s3 == s2 \o <<Try("builder"), Get("outData"), Give("outData"),
                         Try("builder"), Result>>
<1>1. Labels(c)
  <2>1. IsList(c)
    BY AreLists, Zenon
  <2> QED
    BY <2>1 DEF Labels, Done
<1>2. /\ Top(c, 2, Done) /\ Top(c, 1, "builder") /\ Above(c, 2, "builder", 1)
      /\ Apart(c, 1, "field_val") /\ Apart(c, 1, "outData")
  BY DEF Top, Above, Apart, Released
<1>3. /\ {} \in SUBSET free /\ 2 \in Nat
  OBVIOUS
<1> HIDE DEF c, free, need, s1, s2, s3
<1>4. Reach(c, free, need, s1, 2, {}, {})
  BY <1>1, <1>2, <1>3, ReachFirst DEF s1
<1>5. Path(c, free, need, AddFields, Level(c, 2, {}, {}), Level(c, 1, {}, {}))
  BY <1>1, <1>2, PathAddFields
<1>6. Reach(c, free, need, s2, 1, {}, {})
  BY <1>4, <1>5, ReachPath DEF s2
<1>7. /\ Move(c, free, need, Try("builder"), Level(c, 1, {}, {}),
               Level(c, 1, {}, {}))
      /\ Move(c, free, need, Get("outData"), Level(c, 1, {}, {}),
               Level(c, 1, {"outData"}, {}))
      /\ Move(c, free, need, Give("outData"), Level(c, 1, {"outData"}, {}),
               Level(c, 1, {}, {}))
      /\ Move(c, free, need, Try("builder"), Level(c, 1, {}, {}),
               Level(c, 1, {}, {}))
      /\ Move(c, free, need, Result, Level(c, 1, {}, {}),
               Level(c, 1, {}, {} \cup {"result"}))
  <2>1. /\ With({}, "outData", {"outData"})
        /\ Without({"outData"}, "outData", {})
    BY DEF With, Without
  <2> QED
    BY <1>1, <1>2, <1>3, <2>1, MoveTry, MoveGetMore, MoveGive, MoveResult
<1>8. Reach(c, free, need, s3, 1, {}, {} \cup {"result"})
  BY <1>6, <1>7, PathFive, ReachPath DEF s3
<1> QED
  BY <1>1, <1>8, ProperIf
  DEF CertificateBuilder_emit, c, free, need, s1, s2, s3

\* A certificate is signed.
LEMMA CertSignIsProper ==
  Proper(CertificateBuilder_sign, {}, {}, {})
<1> DEFINE c == <<"signer_id_bytes", "priv", "builder">>
           free == {} \cup {}
           need == {}
           s1 == Tries(4, Done)
           s2 == s1 \o AddFields
           s3 == s2 \o <<Take("priv", "builder"), Try("priv"),
                         Get("priv_bytes"), Give("priv_bytes"),
                         Get("signer_id_bytes")>>
           s4 == s3 \o Tries(2, "signer_id_bytes")
           s5 == s4 \o <<Get("outData"), Give("outData"),
                         Try("signer_id_bytes"), Result>>
<1>1. Labels(c)
  <2>1. IsList(c)
    BY AreLists, Zenon
  <2> QED
    BY <2>1 DEF Labels, Done
<1>2. /\ Top(c, 4, Done) /\ Top(c, 3, "builder") /\ Top(c, 2, "priv")
      /\ Top(c, 1, "signer_id_bytes") /\ Above(c, 4, "builder", 3)
      /\ Above(c, 3, "priv", 2) /\ Above(c, 2, "signer_id_bytes", 1)
      /\ Apart(c, 3, "field_val") /\ Apart(c, 2, "priv_bytes")
      /\ Apart(c, 1, "outData")
  BY DEF Top, Above, Apart, Released
<1>3. /\ {} \in SUBSET free /\ 4 \in Nat /\ 2 \in Nat
  OBVIOUS
<1> HIDE DEF c, free, need, s1, s2, s3, s4, s5
<1>4. Reach(c, free, need, s1, 4, {}, {})
  BY <1>1, <1>2, <1>3, ReachFirst DEF s1
<1>5. Path(c, free, need, AddFields, Level(c, 4, {}, {}), Level(c, 3, {}, {}))
  BY <1>1, <1>2, PathAddFields
<1>6. Reach(c, free, need, s2, 3, {}, {})
  BY <1>4, <1>5, ReachPath DEF s2
<1>7. /\ Move(c, free, need, Take("priv", "builder"), Level(c, 3, {}, {}),
               Level(c, 2, {}, {}))
      /\ Move(c, free, need, Try("priv"), Level(c, 2, {}, {}),
               Level(c, 2, {}, {}))
      /\ Move(c, free, need, Get("priv_bytes"), Level(c, 2, {}, {}),
               Level(c, 2, {"priv_bytes"}, {}))
      /\ Move(c, free, need, Give("priv_bytes"),
               Level(c, 2, {"priv_bytes"}, {}), Level(c, 2, {}, {}))
      /\ Move(c, free, need, Get("signer_id_bytes"), Level(c, 2, {}, {}),
               Level(c, 1, {}, {}))
  <2>1. /\ With({}, "priv_bytes", {"priv_bytes"})
        /\ Without({"priv_bytes"}, "priv_bytes", {})
    BY DEF With, Without
  <2> QED
    BY <1>1, <1>2, <1>3, <2>1, MoveTake, MoveTry, MoveGetMore, MoveGive,
       MoveGet
<1>8. Reach(c, free, need, s3, 1, {}, {})
  BY <1>6, <1>7, PathFive, ReachPath DEF s3
<1>9. Reach(c, free, need, s4, 1, {}, {})
  BY <1>1, <1>2, <1>3, <1>8, ReachTries DEF s4
<1>10. /\ Move(c, free, need, Get("outData"), Level(c, 1, {}, {}),
               Level(c, 1, {"outData"}, {}))
      /\ Move(c, free, need, Give("outData"), Level(c, 1, {"outData"}, {}),
               Level(c, 1, {}, {}))
      /\ Move(c, free, need, Try("signer_id_bytes"), Level(c, 1, {}, {}),
               Level(c, 1, {}, {}))
      /\ Move(c, free, need, Result, Level(c, 1, {}, {}),
               Level(c, 1, {}, {} \cup {"result"}))
  <2>1. /\ With({}, "outData", {"outData"})
        /\ Without({"outData"}, "outData", {})
    BY DEF With, Without
  <2> QED
    BY <1>1, <1>2, <1>3, <2>1, MoveGetMore, MoveGive, MoveTry, MoveResult
<1>11. Reach(c, free, need, s5, 1, {}, {} \cup {"result"})
  BY <1>9, <1>10, PathFour, ReachPath DEF s5
<1> QED
  BY <1>1, <1>11, ProperIf
  DEF CertificateBuilder_sign, c, free, need, s1, s2, s3, s4, s5

\* Decryption with a stream cipher; a failure may lose outputArrayData.
LEMMA DecryptStreamIsProper ==
  ASSUME NEW n \in Nat
  PROVE  Proper(DecryptStream(n, <<"inputArrayData">>), {"outputArrayData"}, {}, {})
<1> DEFINE c == <<"stream", "inputArrayData", "secretKeyArrayData", "keyBuffer">>
           free == {"outputArrayData"} \cup {}
           need == {}
           names1 == <<"keyBuffer", "secretKeyArrayData", "inputArrayData",
                       "stream">>
           s1 == Tries(n, Done)
           s2 == s1 \o Takes(names1, Done)
           s3 == s2 \o <<Try("stream"), Take("outputArrayData", "stream"),
                         Try("stream"), Decrypt("stream"),
                         Give("outputArrayData"), Result>>
<1>0. DecryptStream(n, <<"inputArrayData">>)
        = Function(s3, c, {}, Checks)
  <2>1. <<"keyBuffer", "secretKeyArrayData">> \o <<"inputArrayData">>
          = <<"keyBuffer", "secretKeyArrayData", "inputArrayData">>
    <3>1. Joins(<<"keyBuffer", "secretKeyArrayData">>,
                <<"inputArrayData">>,
                <<"keyBuffer", "secretKeyArrayData", "inputArrayData">>)
      BY Concats, Zenon
    <3> QED
      BY <3>1, JoinIs
  <2>2. <<"keyBuffer", "secretKeyArrayData", "inputArrayData">> \o <<"stream">>
          = names1
    <3>1. Joins(<<"keyBuffer", "secretKeyArrayData", "inputArrayData">>,
                <<"stream">>,
                names1)
      BY Concats, Zenon
    <3> QED
      BY <3>1, JoinIs
  <2>3. <<"stream", "inputArrayData">> \o << >>
          = <<"stream", "inputArrayData">>
    <3>1. Joins(<<"stream", "inputArrayData">>,
                << >>,
                <<"stream", "inputArrayData">>)
      BY Concats, Zenon
    <3> QED
      BY <3>1, JoinIs
  <2>4. <<"stream", "inputArrayData">> \o <<"secretKeyArrayData", "keyBuffer">>
          = c
    <3>1. Joins(<<"stream", "inputArrayData">>,
                <<"secretKeyArrayData", "keyBuffer">>,
                c)
      BY Concats, Zenon
    <3> QED
      BY <3>1, JoinIs
  <2>5. Len(<<"inputArrayData">>) # 2
    OBVIOUS
  <2> QED
    BY <2>1, <2>2, <2>3, <2>4, <2>5 DEF DecryptStream
<1>1. Labels(c)
  <2>1. IsList(c)
    BY AreLists, Zenon
  <2> QED
    BY <2>1 DEF Labels, Done
<1>2. /\ Top(c, 5, Done) /\ Top(c, 1, "stream") /\ Opposite(c, 5, names1, 1)
      /\ Apart(c, 1, "outputArrayData")
  BY DEF Top, Opposite, Apart, Released
<1>3. /\ {} \in SUBSET free /\ {"outputArrayData"} \in SUBSET free
      /\ n \in Nat
  OBVIOUS
<1> HIDE DEF c, free, need, names1, s1, s2, s3
<1>4. Reach(c, free, need, s1, 5, {}, {})
  BY <1>1, <1>2, <1>3, ReachFirst DEF s1
<1>5. Reach(c, free, need, s2, 1, {}, {})
  BY <1>1, <1>2, <1>3, <1>4, ReachTakes DEF s2
<1>6. /\ Move(c, free, need, Try("stream"), Level(c, 1, {}, {}),
               Level(c, 1, {}, {}))
      /\ Move(c, free, need, Take("outputArrayData", "stream"),
               Level(c, 1, {}, {}), Level(c, 1, {"outputArrayData"}, {}))
      /\ Move(c, free, need, Try("stream"),
               Level(c, 1, {"outputArrayData"}, {}), Level(c, 1, {"outputArrayData"}, {}))
      /\ Move(c, free, need, Decrypt("stream"),
               Level(c, 1, {"outputArrayData"}, {}), Level(c, 1, {"outputArrayData"}, {}))
      /\ Move(c, free, need, Give("outputArrayData"),
               Level(c, 1, {"outputArrayData"}, {}), Level(c, 1, {}, {}))
      /\ Move(c, free, need, Result, Level(c, 1, {}, {}),
               Level(c, 1, {}, {} \cup {"result"}))
  <2>1. /\ With({}, "outputArrayData", {"outputArrayData"})
        /\ need \subseteq {}
        /\ Without({"outputArrayData"}, "outputArrayData", {})
    BY DEF With, Without, need
  <2> QED
    BY <1>1, <1>2, <1>3, <2>1, MoveTry, MoveTakeMore, MoveDecrypt, MoveGive,
       MoveResult
<1>7. Reach(c, free, need, s3, 1, {}, {} \cup {"result"})
  BY <1>5, <1>6, PathSix, ReachPath DEF s3
<1> QED
  BY <1>0, <1>1, <1>7, ProperIf DEF free, need

\* The same with an IV that has an array of its own.
LEMMA DecryptStreamAtIsProper ==
  ASSUME NEW n \in Nat
  PROVE  Proper(DecryptStream(n, <<"ivArrayData", "inputArrayData">>),
                {"outputArrayData"}, {}, {})
<1> DEFINE c == <<"stream", "inputArrayData", "ivArrayData",
                    "secretKeyArrayData", "keyBuffer">>
           free == {"outputArrayData"} \cup {}
           need == {}
           names1 == <<"keyBuffer", "secretKeyArrayData", "ivArrayData",
                       "inputArrayData", "stream">>
           s1 == Tries(n, Done)
           s2 == s1 \o Takes(names1, Done)
           s3 == s2 \o <<Try("stream"), Take("outputArrayData", "stream"),
                         Try("stream"), Decrypt("stream"),
                         Give("outputArrayData"), Result>>
<1>0. DecryptStream(n, <<"ivArrayData", "inputArrayData">>)
        = Function(s3, c, {}, Checks)
  <2>1. <<"keyBuffer", "secretKeyArrayData">> \o <<"ivArrayData", "inputArrayData">>
          = <<"keyBuffer", "secretKeyArrayData", "ivArrayData", "inputArrayData">>
    <3>1. Joins(<<"keyBuffer", "secretKeyArrayData">>,
                <<"ivArrayData", "inputArrayData">>,
                <<"keyBuffer", "secretKeyArrayData", "ivArrayData", "inputArrayData">>)
      BY Concats, Zenon
    <3> QED
      BY <3>1, JoinIs
  <2>2. <<"keyBuffer", "secretKeyArrayData", "ivArrayData", "inputArrayData">> \o <<"stream">>
          = names1
    <3>1. Joins(<<"keyBuffer", "secretKeyArrayData", "ivArrayData", "inputArrayData">>,
                <<"stream">>,
                names1)
      BY Concats, Zenon
    <3> QED
      BY <3>1, JoinIs
  <2>3. <<"stream", "inputArrayData">> \o <<"ivArrayData">>
          = <<"stream", "inputArrayData", "ivArrayData">>
    <3>1. Joins(<<"stream", "inputArrayData">>,
                <<"ivArrayData">>,
                <<"stream", "inputArrayData", "ivArrayData">>)
      BY Concats, Zenon
    <3> QED
      BY <3>1, JoinIs
  <2>4. <<"stream", "inputArrayData", "ivArrayData">> \o <<"secretKeyArrayData", "keyBuffer">>
          = c
    <3>1. Joins(<<"stream", "inputArrayData", "ivArrayData">>,
                <<"secretKeyArrayData", "keyBuffer">>,
                c)
      BY Concats, Zenon
    <3> QED
      BY <3>1, JoinIs
  <2>5. Len(<<"ivArrayData", "inputArrayData">>) = 2
    OBVIOUS
  <2> QED
    BY <2>1, <2>2, <2>3, <2>4, <2>5 DEF DecryptStream
<1>1. Labels(c)
  <2>1. IsList(c)
    BY AreLists, Zenon
  <2> QED
    BY <2>1 DEF Labels, Done
<1>2. /\ Top(c, 6, Done) /\ Top(c, 1, "stream") /\ Opposite(c, 6, names1, 1)
      /\ Apart(c, 1, "outputArrayData")
  BY DEF Top, Opposite, Apart, Released
<1>3. /\ {} \in SUBSET free /\ {"outputArrayData"} \in SUBSET free
      /\ n \in Nat
  OBVIOUS
<1> HIDE DEF c, free, need, names1, s1, s2, s3
<1>4. Reach(c, free, need, s1, 6, {}, {})
  BY <1>1, <1>2, <1>3, ReachFirst DEF s1
<1>5. Reach(c, free, need, s2, 1, {}, {})
  BY <1>1, <1>2, <1>3, <1>4, ReachTakes DEF s2
<1>6. /\ Move(c, free, need, Try("stream"), Level(c, 1, {}, {}),
               Level(c, 1, {}, {}))
      /\ Move(c, free, need, Take("outputArrayData", "stream"),
               Level(c, 1, {}, {}), Level(c, 1, {"outputArrayData"}, {}))
      /\ Move(c, free, need, Try("stream"),
               Level(c, 1, {"outputArrayData"}, {}), Level(c, 1, {"outputArrayData"}, {}))
      /\ Move(c, free, need, Decrypt("stream"),
               Level(c, 1, {"outputArrayData"}, {}), Level(c, 1, {"outputArrayData"}, {}))
      /\ Move(c, free, need, Give("outputArrayData"),
               Level(c, 1, {"outputArrayData"}, {}), Level(c, 1, {}, {}))
      /\ Move(c, free, need, Result, Level(c, 1, {}, {}),
               Level(c, 1, {}, {} \cup {"result"}))
  <2>1. /\ With({}, "outputArrayData", {"outputArrayData"})
        /\ need \subseteq {}
        /\ Without({"outputArrayData"}, "outputArrayData", {})
    BY DEF With, Without, need
  <2> QED
    BY <1>1, <1>2, <1>3, <2>1, MoveTry, MoveTakeMore, MoveDecrypt, MoveGive,
       MoveResult
<1>7. Reach(c, free, need, s3, 1, {}, {} \cup {"result"})
  BY <1>5, <1>6, PathSix, ReachPath DEF s3
<1> QED
  BY <1>0, <1>1, <1>7, ProperIf DEF free, need

\* A secret key is encrypted under a key agreement.
LEMMA EncryptKeyIsProper ==
  Proper(EncryptKey, {}, {}, {})
<1> DEFINE c == <<"block", "outputArrayData", "ivBuffer", "prng", "ka",
                    "keyBuffer", "publicKeyBuffer", "publicKeyArrayData",
                    "publicKeyArray", "privateKeyBuffer",
                    "privateKeyArrayData", "privateKeyArray", "keyArrayData">>
           free == {} \cup {"privateKeyArray", "publicKeyArray"}
           need == {}
           names1 == <<"keyArrayData", "privateKeyArray",
                       "privateKeyArrayData", "privateKeyBuffer",
                       "publicKeyArray", "publicKeyArrayData",
                       "publicKeyBuffer", "keyBuffer", "ka">>
           names2 == <<"prng", "ivBuffer">>
           names3 == <<"outputArrayData", "block">>
           s1 == Tries(4, Done)
           s2 == s1 \o Takes(names1, Done)
           s3 == s2 \o <<Try("ka")>>
           s4 == s3 \o Takes(names2, "ka")
           s5 == s4 \o Tries(2, "ivBuffer")
           s6 == s5 \o Takes(names3, "ivBuffer")
           s7 == s6 \o Tries(2, "block")
           s8 == s7 \o <<Result>>
<1>0. EncryptKey = Function(s8, c, {"privateKeyArray", "publicKeyArray"},
                          Checks \cup KeyPair)
  <2>1. <<"block", "outputArrayData", "ivBuffer", "prng">> \o <<"ka", "keyBuffer", "publicKeyBuffer",
             "publicKeyArrayData", "publicKeyArray",
             "privateKeyBuffer", "privateKeyArrayData",
             "privateKeyArray", "keyArrayData">>
          = c
    <3>1. Joins(<<"block", "outputArrayData", "ivBuffer", "prng">>,
                <<"ka", "keyBuffer", "publicKeyBuffer",
             "publicKeyArrayData", "publicKeyArray",
             "privateKeyBuffer", "privateKeyArrayData",
             "privateKeyArray", "keyArrayData">>,
                c)
      BY Concats, Zenon
    <3> QED
      BY <3>1, JoinIs
  <2> QED
    BY <2>1 DEF EncryptKey, KeyAgreement, AgreementCleanup
<1>1. Labels(c)
  <2>1. IsList(c)
    BY AreLists, Zenon
  <2> QED
    BY <2>1 DEF Labels, Done
<1>2. /\ Top(c, 14, Done) /\ Top(c, 5, "ka") /\ Top(c, 3, "ivBuffer")
      /\ Top(c, 1, "block") /\ Opposite(c, 14, names1, 5)
      /\ Opposite(c, 5, names2, 3) /\ Opposite(c, 3, names3, 1)
  BY DEF Top, Opposite
<1>3. /\ {} \in SUBSET free /\ 4 \in Nat /\ 2 \in Nat
  OBVIOUS
<1> HIDE DEF c, free, need, names1, names2, names3, s1, s2, s3, s4, s5, s6, s7,
             s8
<1>4. Reach(c, free, need, s1, 14, {}, {})
  BY <1>1, <1>2, <1>3, ReachFirst DEF s1
<1>5. Reach(c, free, need, s2, 5, {}, {})
  BY <1>1, <1>2, <1>3, <1>4, ReachTakes DEF s2
<1>6. Move(c, free, need, Try("ka"), Level(c, 5, {}, {}),
            Level(c, 5, {}, {}))
  BY <1>1, <1>2, <1>3, MoveTry
<1>7. Reach(c, free, need, s3, 5, {}, {})
  BY <1>5, <1>6, PathOne, ReachPath DEF s3
<1>8. Reach(c, free, need, s4, 3, {}, {})
  BY <1>1, <1>2, <1>3, <1>7, ReachTakes DEF s4
<1>9. Reach(c, free, need, s5, 3, {}, {})
  BY <1>1, <1>2, <1>3, <1>8, ReachTries DEF s5
<1>10. Reach(c, free, need, s6, 1, {}, {})
  BY <1>1, <1>2, <1>3, <1>9, ReachTakes DEF s6
<1>11. Reach(c, free, need, s7, 1, {}, {})
  BY <1>1, <1>2, <1>3, <1>10, ReachTries DEF s7
<1>12. Move(c, free, need, Result, Level(c, 1, {}, {}),
            Level(c, 1, {}, {} \cup {"result"}))
  BY <1>1, <1>2, <1>3, MoveResult
<1>13. Reach(c, free, need, s8, 1, {}, {} \cup {"result"})
  BY <1>11, <1>12, PathOne, ReachPath DEF s8
<1> QED
  BY <1>0, <1>1, <1>13, ProperIf DEF free, need

\* And decrypted.
LEMMA DecryptKeyIsProper ==
  Proper(DecryptKey, {}, {}, {})
<1> DEFINE c == <<"block", "outputArrayData", "ka", "keyBuffer",
                    "publicKeyBuffer", "publicKeyArrayData", "publicKeyArray",
                    "privateKeyBuffer", "privateKeyArrayData",
                    "privateKeyArray", "keyArrayData">>
           free == {} \cup {"privateKeyArray", "publicKeyArray"}
           need == {}
           names1 == <<"keyArrayData", "privateKeyArray",
                       "privateKeyArrayData", "privateKeyBuffer",
                       "publicKeyArray", "publicKeyArrayData",
                       "publicKeyBuffer", "keyBuffer", "ka">>
           names2 == <<"outputArrayData", "block">>
           s1 == Tries(4, Done)
           s2 == s1 \o Takes(names1, Done)
           s3 == s2 \o <<Try("ka")>>
           s4 == s3 \o <<Try("ka")>>
           s5 == s4 \o Takes(names2, "ka")
           s6 == s5 \o <<Unwrap("block"), Unwrap("block"), Result>>
<1>0. DecryptKey = Function(s6, c, {"privateKeyArray", "publicKeyArray"},
                          Checks \cup KeyPair)
  <2>1. <<"block", "outputArrayData">> \o <<"ka", "keyBuffer", "publicKeyBuffer",
             "publicKeyArrayData", "publicKeyArray",
             "privateKeyBuffer", "privateKeyArrayData",
             "privateKeyArray", "keyArrayData">>
          = c
    <3>1. Joins(<<"block", "outputArrayData">>,
                <<"ka", "keyBuffer", "publicKeyBuffer",
             "publicKeyArrayData", "publicKeyArray",
             "privateKeyBuffer", "privateKeyArrayData",
             "privateKeyArray", "keyArrayData">>,
                c)
      BY Concats, Zenon
    <3> QED
      BY <3>1, JoinIs
  <2> QED
    BY <2>1 DEF DecryptKey, KeyAgreement, AgreementCleanup
<1>1. Labels(c)
  <2>1. IsList(c)
    BY AreLists, Zenon
  <2> QED
    BY <2>1 DEF Labels, Done
<1>2. /\ Top(c, 12, Done) /\ Top(c, 3, "ka") /\ Top(c, 1, "block")
      /\ Opposite(c, 12, names1, 3) /\ Opposite(c, 3, names2, 1)
  BY DEF Top, Opposite
<1>3. /\ {} \in SUBSET free /\ 4 \in Nat /\ 2 \in Nat
  OBVIOUS
<1> HIDE DEF c, free, need, names1, names2, s1, s2, s3, s4, s5, s6
<1>4. Reach(c, free, need, s1, 12, {}, {})
  BY <1>1, <1>2, <1>3, ReachFirst DEF s1
<1>5. Reach(c, free, need, s2, 3, {}, {})
  BY <1>1, <1>2, <1>3, <1>4, ReachTakes DEF s2
<1>6. Move(c, free, need, Try("ka"), Level(c, 3, {}, {}),
            Level(c, 3, {}, {}))
  BY <1>1, <1>2, <1>3, MoveTry
<1>7. Reach(c, free, need, s3, 3, {}, {})
  BY <1>5, <1>6, PathOne, ReachPath DEF s3
<1>8. Move(c, free, need, Try("ka"), Level(c, 3, {}, {}),
            Level(c, 3, {}, {}))
  BY <1>1, <1>2, <1>3, MoveTry
<1>9. Reach(c, free, need, s4, 3, {}, {})
  BY <1>7, <1>8, PathOne, ReachPath DEF s4
<1>10. Reach(c, free, need, s5, 1, {}, {})
  BY <1>1, <1>2, <1>3, <1>9, ReachTakes DEF s5
<1>11. /\ Move(c, free, need, Unwrap("block"), Level(c, 1, {}, {}),
               Level(c, 1, {}, {}))
       /\ Move(c, free, need, Result, Level(c, 1, {}, {}),
               Level(c, 1, {}, {} \cup {"result"}))
  BY <1>1, <1>2, <1>3, MoveUnwrap, MoveResult
<1>12. Reach(c, free, need, s6, 1, {}, {} \cup {"result"})
  BY <1>10, <1>11, PathThree, ReachPath DEF s6
<1> QED
  BY <1>0, <1>1, <1>12, ProperIf DEF free, need

=============================================================================
