-------------------------- MODULE IncrementalProofs --------------------------
EXTENDS IncrementalInv, WellFoundedInduction, TLAPS

(* Folding a journal *)

\* A set of numbers that is not empty has a least one.
LEMMA Least ==
  ASSUME NEW S \in SUBSET Nat, S # {}
  PROVE  \E x \in S : \A y \in S : x <= y
<1> DEFINE R == OpToRel(<, Nat)
<1>1. IsWellFoundedOn(R, Nat)
  BY NatLessThanWellFounded
<1>2. \A x, y \in Nat : x < y => <<x, y>> \in R
  BY DEF OpToRel
<1> HIDE DEF R
<1>3. PICK x \in S : \A y \in S : ~(<<y, x>> \in R)
  BY <1>1, WFMin
<1>4. ASSUME NEW y \in S PROVE x <= y
  <2>1. x \in Nat /\ y \in Nat
    OBVIOUS
  <2>2. ~(y < x)
    BY <1>2, <1>3, <2>1
  <2> QED  BY <2>1, <2>2
<1> QED  BY <1>4

\* f gives what each of the first n events of j leads to.
Leads(j, f, n) ==
  f = [m \in 0 .. n |-> IF m = 0 THEN None ELSE Apply(f[m - 1], j[m])]

\* There is such a function.
LEMMA LeadsExists ==
  ASSUME NEW j
  PROVE  \A n \in Nat : \E f : Leads(j, f, n)
<1> DEFINE S == {n \in Nat : ~\E f : Leads(j, f, n)}
<1>1. ASSUME S # {} PROVE FALSE
  <2>1. PICK n \in S : \A y \in S : n <= y
    BY <1>1, Least
  <2>2. n # 0
    <3>1. Leads(j, [m \in 0 .. 0 |-> None], 0)
      BY DEF Leads
    <3> QED  BY <2>1, <3>1
  <2>3. n - 1 \in Nat /\ n - 1 \notin S
    BY <2>1, <2>2
  <2>4. PICK f : Leads(j, f, n - 1)
    BY <2>3
  <2> DEFINE g == [m \in 0 .. n |-> IF m < n THEN f[m] ELSE Apply(f[n - 1], j[n])]
  <2>5. \A m \in 0 .. n - 1 : f[m] = IF m = 0 THEN None ELSE Apply(f[m - 1], j[m])
    BY <2>3, <2>4 DEF Leads
  <2>6. ASSUME NEW m \in 0 .. n
        PROVE  g[m] = IF m = 0 THEN None ELSE Apply(g[m - 1], j[m])
    <3>1. CASE m < n
      <4>1. g[m] = f[m] /\ (m # 0 => g[m - 1] = f[m - 1])
        BY <2>1, <3>1
      <4> QED  BY <2>1, <2>5, <3>1, <4>1
    <3>2. CASE m = n
      <4>1. n - 1 < n /\ n - 1 \in 0 .. n /\ n \in Nat /\ ~(n < n)
        BY <2>1, <2>2
      <4>2. g[n] = Apply(f[n - 1], j[n]) /\ g[n - 1] = f[n - 1]
        BY <4>1
      <4> QED  BY <2>2, <3>2, <4>2
    <3> QED  BY <2>1, <3>1, <3>2
  <2>7. g = [m \in 0 .. n |-> IF m = 0 THEN None ELSE Apply(g[m - 1], j[m])]
    <3> HIDE DEF g
    <3>1. \A m \in 0 .. n : g[m] = IF m = 0 THEN None ELSE Apply(g[m - 1], j[m])
      BY <2>6
    <3>2. g = [m \in 0 .. n |-> g[m]]
      BY DEF g
    <3> QED  BY <3>1, <3>2
  <2> QED  BY <2>1, <2>7 DEF Leads
<1> QED  BY <1>1

\* Functions that agree on the events agree.
LEMMA LeadsSame ==
  ASSUME NEW i, NEW j, NEW f, NEW g, NEW n \in Nat, NEW k \in Nat, n <= k,
         Leads(i, f, n), Leads(j, g, k), \A m \in 1 .. n : i[m] = j[m]
  PROVE  \A m \in 0 .. n : f[m] = g[m]
<1> DEFINE S == {m \in 0 .. n : f[m] # g[m]}
<1>1. /\ \A m \in 0 .. n : f[m] = IF m = 0 THEN None ELSE Apply(f[m - 1], i[m])
      /\ \A m \in 0 .. k : g[m] = IF m = 0 THEN None ELSE Apply(g[m - 1], j[m])
  BY DEF Leads
<1>2. ASSUME S # {} PROVE FALSE
  <2>1. PICK m \in S : \A y \in S : m <= y
    <3>1. S \in SUBSET Nat
      OBVIOUS
    <3> HIDE DEF S
    <3> QED  BY <1>2, <3>1, Least
  <2>2. m # 0
    BY <1>1, <2>1
  <2>3. m - 1 \in 0 .. n /\ m - 1 \notin S /\ m \in 1 .. n /\ m \in 0 .. k
    BY <2>1, <2>2
  <2>4. f[m - 1] = g[m - 1] /\ i[m] = j[m]
    BY <2>3
  <2> QED  BY <1>1, <2>1, <2>2, <2>3, <2>4
<1> QED  BY <1>2

\* Replay is the last value of such a function.
LEMMA ReplayLeads ==
  ASSUME NEW j, Len(j) \in Nat
  PROVE  \E f : Leads(j, f, Len(j)) /\ Replay(j) = f[Len(j)]
<1> DEFINE upTo[n \in 0 .. Len(j)] ==
              IF n = 0 THEN None ELSE Apply(upTo[n - 1], j[n])
<1>1. Replay(j) = upTo[Len(j)]
  BY DEF Replay
<1>2. PICK f : Leads(j, f, Len(j))
  BY LeadsExists
<1>3. f = [n \in 0 .. Len(j) |-> IF n = 0 THEN None ELSE Apply(f[n - 1], j[n])]
  BY <1>2 DEF Leads
<1>4. upTo = CHOOSE h :
        h = [n \in 0 .. Len(j) |-> IF n = 0 THEN None ELSE Apply(h[n - 1], j[n])]
  BY DEF upTo
<1>5. upTo = [n \in 0 .. Len(j) |-> IF n = 0 THEN None ELSE Apply(upTo[n - 1], j[n])]
  <2> HIDE DEF upTo
  <2> QED  BY <1>3, <1>4
<1>6. Leads(j, upTo, Len(j))
  <2> HIDE DEF upTo
  <2> QED  BY <1>5 DEF Leads
<1> QED  BY <1>1, <1>6

\* A sequence, of whatever it contains.
IsList(j) == j \in Seq({j[i] : i \in DOMAIN j})

\* One event more is one step more.
LEMMA ReplayAppend ==
  ASSUME NEW j, IsList(j), NEW e
  PROVE  /\ IsList(Append(j, e)) /\ Append(j, e) # <<>>
         /\ Replay(Append(j, e)) = Apply(Replay(j), e)
<1> DEFINE S == {j[i] : i \in DOMAIN j} \cup {e}
<1> DEFINE k == Append(j, e)
<1>1. j \in Seq(S)
  <2>1. {j[i] : i \in DOMAIN j} \subseteq S
    OBVIOUS
  <2> HIDE DEF S
  <2> QED  BY <2>1 DEF IsList
<1>2. e \in S
  OBVIOUS
<1>3. /\ k \in Seq(S) /\ Len(k) = Len(j) + 1 /\ Len(j) \in Nat
      /\ k[Len(j) + 1] = e /\ \A i \in 1 .. Len(j) : k[i] = j[i]
  <2> HIDE DEF S
  <2> QED  BY <1>1, <1>2
<1>4. IsList(k) /\ k # <<>>
  <2> HIDE DEF S, k
  <2>1. \A i \in 1 .. Len(k) : k[i] \in {k[m] : m \in DOMAIN k}
    BY <1>3
  <2>2. k = [i \in 1 .. Len(k) |-> k[i]] /\ Len(k) \in Nat
    BY <1>3
  <2> DEFINE T == {k[m] : m \in DOMAIN k}
  <2>3. k \in Seq(T)
    <3>1. \A i \in 1 .. Len(k) : k[i] \in T
      BY <2>1
    <3> HIDE DEF T
    <3> QED  BY <2>2, <3>1
  <2>4. k # <<>>
    BY <1>3
  <2> QED  BY <2>3, <2>4 DEF IsList
<1> HIDE DEF k, S
<1>5. PICK f : Leads(j, f, Len(j)) /\ Replay(j) = f[Len(j)]
  BY <1>3, ReplayLeads
<1>6. PICK g : Leads(k, g, Len(k)) /\ Replay(k) = g[Len(k)]
  BY <1>3, ReplayLeads
<1>7. f[Len(j)] = g[Len(j)]
  <2>1. \A m \in 0 .. Len(j) : f[m] = g[m]
    BY <1>3, <1>5, <1>6, LeadsSame
  <2> QED  BY <1>3, <2>1
<1>8. g[Len(k)] = Apply(g[Len(j)], e)
  <2>1. \A m \in 0 .. Len(k) : g[m] = IF m = 0 THEN None ELSE Apply(g[m - 1], k[m])
    BY <1>6 DEF Leads
  <2>2. Len(k) \in 0 .. Len(k) /\ Len(k) # 0 /\ Len(k) - 1 = Len(j) /\ k[Len(k)] = e
    BY <1>3
  <2> QED  BY <2>1, <2>2
<1> QED  BY <1>4, <1>5, <1>6, <1>7, <1>8 DEF k

\* A journal begins with nothing.
LEMMA ReplayOne ==
  ASSUME NEW e
  PROVE  /\ IsList(<<e>>) /\ <<e>> # <<>>
         /\ Replay(<<e>>) = Apply(None, e)
<1>1. PICK g : Leads(<<e>>, g, 1) /\ Replay(<<e>>) = g[1]
  <2>1. Len(<<e>>) = 1
    OBVIOUS
  <2> QED  BY <2>1, ReplayLeads
<1>2. \A m \in 0 .. 1 : g[m] = IF m = 0 THEN None ELSE Apply(g[m - 1], <<e>>[m])
  BY <1>1 DEF Leads
<1>3. g[0] = None /\ g[1] = Apply(g[0], e)
  BY <1>2
<1>4. IsList(<<e>>)
  <2>1. <<e>> \in Seq({e}) /\ {<<e>>[i] : i \in DOMAIN <<e>>} = {e}
    OBVIOUS
  <2> QED  BY <2>1 DEF IsList
<1> QED  BY <1>1, <1>3, <1>4

------------------------------------------------------------------------------
(* Events *)

\* What each kind of event does to an account.
LEMMA Applied ==
  ASSUME NEW s
  PROVE  /\ \A d, c, n : Apply(s, RunEvent(d, c, n)) = Blank(d, c, n)
         /\ \A c : Apply(s, [kind |-> "resumed", conf |-> c])
                     = [s EXCEPT !.conf = c]
         /\ \A i : Apply(s, [kind |-> "inheritance", state |-> i])
                     = Inheriting(s, i)
         /\ \A op, g : Apply(s, [kind |-> "operation-progress", op |-> op,
                                 signature |-> g]) = Started(s, op, g)
         /\ \A o : Apply(s, Logged("observation", o))
                     = [s EXCEPT !.observations = @ \cup {Journaled(o)}]
         /\ \A e : Apply(s, [kind |-> "effect", effect |-> e])
                     = [s EXCEPT !.effects = @ \cup {e}]
         /\ \A o : Apply(s, Logged("experiment", o))
                     = [s EXCEPT !.experiments = @ \cup {Journaled(o)}]
         /\ \A ids : Apply(s, [kind |-> "resource", ids |-> ids])
                     = [s EXCEPT !.deleted = @ \cup ids]
         /\ \A t : Apply(s, Report(t))
                     = [s EXCEPT !.rules = t.rules, !.coverage = t.coverage]
<1>1. \A d, c, n : Apply(s, RunEvent(d, c, n)) = Blank(d, c, n)
  BY DEF Apply, RunEvent
<1>2. \A c : Apply(s, [kind |-> "resumed", conf |-> c]) = [s EXCEPT !.conf = c]
  BY DEF Apply
<1>3. \A i : Apply(s, [kind |-> "inheritance", state |-> i]) = Inheriting(s, i)
  BY DEF Apply
<1>4. \A op, g : Apply(s, [kind |-> "operation-progress", op |-> op,
                           signature |-> g]) = Started(s, op, g)
  BY DEF Apply
<1>5. \A o : Apply(s, Logged("observation", o))
               = [s EXCEPT !.observations = @ \cup {Journaled(o)}]
  BY DEF Apply, Logged
<1>6. \A e : Apply(s, [kind |-> "effect", effect |-> e])
               = [s EXCEPT !.effects = @ \cup {e}]
  BY DEF Apply, RestoreEffect
<1>7. \A o : Apply(s, Logged("experiment", o))
               = [s EXCEPT !.experiments = @ \cup {Journaled(o)}]
  BY DEF Apply, Logged
<1>8. \A ids : Apply(s, [kind |-> "resource", ids |-> ids])
               = [s EXCEPT !.deleted = @ \cup ids]
  BY DEF Apply
<1>9. \A t : Apply(s, Report(t))
               = [s EXCEPT !.rules = t.rules, !.coverage = t.coverage]
  BY DEF Apply, Report
<1> QED  BY <1>1, <1>2, <1>3, <1>4, <1>5, <1>6, <1>7, <1>8, <1>9

\* A journaled observation is the same but for an input that is withheld.
LEMMA JournaledIs ==
  ASSUME NEW o \in Observation
  PROVE  /\ Journaled(o) \in Observation
         /\ Journaled(o).id = o.id /\ Journaled(o).op = o.op
         /\ Journaled(o).phase = o.phase /\ Journaled(o).outcome = o.outcome
         /\ Journaled(o).control = o.control /\ Journaled(o).origin = o.origin
         /\ Journaled(o).evidenceOnly = o.evidenceOnly
         /\ Journaled(o).doc = o.doc /\ Journaled(o).hints = o.hints
         /\ Journaled(o).sender = o.sender
         /\ Journaled(o).input = Hide(o.input)
         /\ Journaled(Journaled(o)) = Journaled(o)
<1>1. Withheld \in Input
  BY DEF Input
<1>2. CASE o.input \in Redacted
  <2>1. Journaled(o) = [o EXCEPT !.input = Withheld]
    BY <1>2 DEF Journaled
  <2> QED  BY <1>1, <1>2, <2>1 DEF Observation, Hide, Journaled
<1>3. CASE o.input \notin Redacted
  BY <1>3 DEF Journaled, Hide
<1> QED  BY <1>2, <1>3

------------------------------------------------------------------------------
(* Accounts that grow *)

\* What is found stays found when observations are added.
LEMMA Growing ==
  ASSUME NEW s, NEW t, s.observations \subseteq t.observations
  PROVE  /\ \A i, op : Found(s, i, op) => Found(t, i, op)
         /\ \A o : Echoed(s, o) => Echoed(t, o)
         /\ IdsOf(s) \subseteq IdsOf(t)
         /\ s.doc = t.doc /\ s.conf.hints = t.conf.hints =>
               /\ \A o : Current(s, o) <=> Current(t, o)
               /\ \A i, op : FoundNow(s, i, op) => FoundNow(t, i, op)
<1>1. \A i, op : Found(s, i, op) => Found(t, i, op)
  BY DEF Found
<1>2. \A o : Echoed(s, o) => Echoed(t, o)
  BY DEF Echoed
<1>3. IdsOf(s) \subseteq IdsOf(t)
  BY DEF IdsOf
<1>4. ASSUME s.doc = t.doc, s.conf.hints = t.conf.hints
      PROVE  /\ \A o : Current(s, o) <=> Current(t, o)
             /\ \A i, op : FoundNow(s, i, op) => FoundNow(t, i, op)
  <2>1. \A o : Current(s, o) <=> Current(t, o)
    BY <1>4 DEF Current
  <2> QED  BY <2>1 DEF FoundNow
<1> QED  BY <1>1, <1>2, <1>3, <1>4

\* Rules grounded in observations stay so.
LEMMA GroundedGrows ==
  ASSUME NEW s, NEW t, s.observations \subseteq t.observations,
         t.rules = s.rules, Grounded(s)
  PROVE  Grounded(t)
BY Growing DEF Grounded

\* An account is whole whatever numbers come later.
LEMMA WholeLater ==
  ASSUME NEW s, NEW n \in Nat, NEW m \in Nat, n <= m, Whole(s, n)
  PROVE  Whole(s, m)
<1>1. \A o \in s.observations \cup s.experiments : o.id \in Nat
  BY DEF Whole, Account, Observation
<1>2. Traced(s, m)
  BY <1>1 DEF Whole, Traced
<1> QED  BY <1>2 DEF Whole

\* Observations and effects are added, and some of these observations as
\* experiments.
Grown(s, O, E, X, G) ==
    [s EXCEPT !.observations = @ \cup O, !.effects = @ \cup E,
              !.experiments = @ \cup X, !.deleted = @ \cup G]

LEMMA GrownIs ==
  ASSUME NEW s \in Account, NEW O \in SUBSET Observation, NEW E \in SUBSET Effect,
         NEW X \in SUBSET Observation, NEW G \in SUBSET Nat,
         NEW t, t = Grown(s, O, E, X, G)
  PROVE  /\ t \in Account /\ t.run = s.run /\ t.doc = s.doc /\ t.conf = s.conf
         /\ t.signatures = s.signatures
         /\ t.observations = s.observations \cup O
         /\ t.effects = s.effects \cup E
         /\ t.experiments = s.experiments \cup X
         /\ t.deleted = s.deleted \cup G
         /\ t.rules = s.rules /\ t.coverage = s.coverage
BY DEF Grown, Account

\* Requests of the run itself, with numbers of their own.
LEMMA WholeGrown ==
  ASSUME NEW s, NEW n \in Nat, NEW k \in Nat, n <= k, Whole(s, n),
         NEW O \in SUBSET Observation, NEW E \in SUBSET Effect,
         NEW X \in SUBSET O, NEW G \in SUBSET Nat, NEW t,
         t = Grown(s, O, E, X, G),
         \A o \in O : o.id > n /\ o.id <= k /\ o.sender = s.run /\ o.origin = None,
         \A o \in X : /\ o.control = 0 \/ Found(t, o.control, o.op)
                      /\ o.phase = "probe" => o.control # 0,
         \A e \in E : /\ e.op \in DOMAIN Read
                      /\ Found(t, e.experiment, e.op) /\ Found(t, e.read, Read[e.op])
  PROVE  Whole(t, k)
<1>1. s \in Account /\ s.run \in Nat /\ X \in SUBSET Observation
  BY DEF Whole, Account
<1>2. /\ t \in Account /\ t.run = s.run
      /\ t.observations = s.observations \cup O /\ t.effects = s.effects \cup E
      /\ t.experiments = s.experiments \cup X
      /\ t.rules = s.rules /\ t.coverage = s.coverage
  BY <1>1 DEF Grown, Account
<1>3. s.observations \subseteq t.observations
  BY <1>2
<1>4. \A q \in s.observations \cup s.experiments : q.id <= n /\ q.id \in Nat
  BY <1>1 DEF Whole, Traced, Account, Observation
<1>5. \A o \in O : o.id \in Nat
  BY DEF Observation
<1>6. Traced(t, k)
  <2>1. s.run <= s.run
    BY <1>1
  <2>2. \A q \in s.observations \cup s.experiments \cup O :
           /\ q.id <= k /\ q.sender <= s.run
           /\ q.origin = IF q.sender = s.run THEN None ELSE q.sender
    BY <1>1, <1>4, <2>1 DEF Whole, Traced
  <2>3. \A q \in s.observations, o \in O : q.id # o.id
    BY <1>4, <1>5
  <2>4. \A q, p \in t.observations : q.id = p.id => q.sender = p.sender
    BY <1>2, <2>3 DEF Whole, Traced
  <2> QED  BY <1>2, <2>2, <2>4 DEF Traced
<1>7. Recorded(t)
  <2>1. \A o \in X : Echoed(t, o)
    BY <1>2 DEF Echoed
  <2> QED  BY <1>2, <1>3, <2>1, Growing DEF Whole, Recorded
<1>8. Seen(t)
  BY <1>2, <1>3, Growing DEF Whole, Seen
<1>9. Grounded(t)
  BY <1>2, <1>3, GroundedGrows DEF Whole
<1>10. Single(t)
  BY <1>2 DEF Whole, Single
<1> QED  BY <1>2, <1>6, <1>7, <1>8, <1>9, <1>10 DEF Whole

\* An account that knows less is whole as well.
LEMMA WholeLess ==
  ASSUME NEW s, NEW t, NEW n, Whole(s, n), t \in Account, t.run = s.run,
         t.observations = s.observations, t.experiments \subseteq s.experiments,
         t.effects \subseteq s.effects, t.rules \subseteq s.rules,
         t.coverage \subseteq s.coverage
  PROVE  Whole(t, n)
<1>1. Traced(t, n)
  BY DEF Whole, Traced
<1>2. Recorded(t)
  BY DEF Whole, Recorded, Echoed, Found
<1>3. Seen(t)
  BY DEF Whole, Seen, Found
<1>4. Grounded(t)
  BY DEF Whole, Grounded, Found, IdsOf
<1>5. Single(t)
  BY DEF Whole, Single
<1> QED  BY <1>1, <1>2, <1>3, <1>4, <1>5 DEF Whole

\* An analysis that rests on the account's observations.
LEMMA WholeReported ==
  ASSUME NEW s, NEW t, NEW n, Whole(s, n), t \in Account, t.run = s.run,
         t.observations = s.observations, t.experiments = s.experiments,
         t.effects = s.effects, Grounded(t), Single(t)
  PROVE  Whole(t, n)
<1>1. Traced(t, n)
  BY DEF Whole, Traced
<1>2. Recorded(t)
  BY DEF Whole, Recorded, Echoed, Found
<1>3. Seen(t)
  BY DEF Whole, Seen, Found
<1> QED  BY <1>1, <1>2, <1>3 DEF Whole

------------------------------------------------------------------------------
(* Accounts of one context *)

\* The context of an operation is that of all it depends on.
LEMMA SameContext ==
  ASSUME NEW op, NEW d, NEW c, NEW e, NEW f,
         Context(op, d, c) = Context(op, e, f)
  PROVE  \A o \in Depends[op] : d[o] = e[o] /\ c.hints[o] = f.hints[o]
<1>1. ASSUME NEW o \in Depends[op]
      PROVE  <<d[o], c.hints[o]>> = <<e[o], f.hints[o]>>
  <2>1. Context(op, d, c)[o] = Context(op, e, f)[o]
    OBVIOUS
  <2> QED  BY <1>1, <2>1 DEF Context
<1> QED  BY <1>1

\* With the same document and hints every context is the same.
LEMMA ContextHeld ==
  ASSUME NEW s, NEW t, s.doc = t.doc, s.conf.hints = t.conf.hints
  PROVE  /\ \A op : HeldContext(s, op) = HeldContext(t, op)
         /\ \A o : Current(s, o) <=> Current(t, o)
BY DEF HeldContext, Context, Current

\* What is reused stays of its context if all that is added is.
LEMMA FreshGrows ==
  ASSUME NEW s, NEW t, Fresh(s), s.doc = t.doc, s.conf.hints = t.conf.hints,
         s.observations \subseteq t.observations,
         \A o \in t.observations \ s.observations : Current(t, o),
         \A o \in t.experiments \ s.experiments :
            /\ Current(t, o) /\ t.signatures[o.op] = HeldContext(t, o.op)
            /\ o.control = 0 \/ FoundNow(t, o.control, o.op),
         \A o \in t.experiments : t.signatures[o.op] = s.signatures[o.op],
         \A e \in t.effects \ s.effects :
            /\ t.signatures[e.op] = HeldContext(t, e.op)
            /\ FoundNow(t, e.experiment, e.op) /\ FoundNow(t, e.read, Read[e.op]),
         \A e \in t.effects : t.signatures[e.op] = s.signatures[e.op]
  PROVE  Fresh(t)
<1>1. /\ \A o : Current(s, o) <=> Current(t, o)
      /\ \A op : HeldContext(s, op) = HeldContext(t, op)
  BY ContextHeld
<1>2. \A i, op : FoundNow(s, i, op) => FoundNow(t, i, op)
  BY Growing
<1>3. \A o \in t.observations : o.evidenceOnly \/ Current(t, o)
  BY <1>1 DEF Fresh
<1>4. \A o \in t.experiments :
        /\ Current(t, o) /\ t.signatures[o.op] = HeldContext(t, o.op)
        /\ o.control = 0 \/ FoundNow(t, o.control, o.op)
  BY <1>1, <1>2 DEF Fresh
<1>5. \A e \in t.effects :
        /\ t.signatures[e.op] = HeldContext(t, e.op)
        /\ FoundNow(t, e.experiment, e.op) /\ FoundNow(t, e.read, Read[e.op])
  BY <1>1, <1>2 DEF Fresh
<1> QED  BY <1>3, <1>4, <1>5 DEF Fresh

\* So do rules, and completeness that is earned.
LEMMA RulesGrow ==
  ASSUME NEW s, NEW t, FreshRules(s), s.doc = t.doc, s.conf.hints = t.conf.hints,
         s.observations \subseteq t.observations, t.rules \subseteq s.rules
  PROVE  FreshRules(t)
<1>1. \A i, op : FoundNow(s, i, op) => FoundNow(t, i, op)
  BY Growing
<1> QED  BY <1>1 DEF FreshRules

LEMMA EarnedGrows ==
  ASSUME NEW s, NEW t, Earned(s),
         s.experiments \subseteq t.experiments, t.coverage \subseteq s.coverage
  PROVE  Earned(t)
BY DEF Earned

\* Completeness is earned by the experiments of the operation itself.
LEMMA EarnedWithout ==
  ASSUME NEW s, NEW t, NEW op, Earned(s),
         Others(s.experiments, op) \subseteq t.experiments,
         t.coverage \subseteq Others(s.coverage, op)
  PROVE  Earned(t)
<1>1. \A v \in t.coverage : v \in s.coverage /\ v.op # op
  BY DEF Others, Of
<1>2. \A o \in s.experiments : o.op # op => o \in t.experiments
  BY DEF Others, Of
<1> QED  BY <1>1, <1>2 DEF Earned

------------------------------------------------------------------------------
(* The journal and the process *)

\* What the journal keeps is the same but for inputs it withholds.
LEMMA KeptIs ==
  ASSUME NEW S, S \subseteq Observation
  PROVE  /\ Kept(S) \subseteq Observation
         /\ \A o \in S : Journaled(o) \in Kept(S)
         /\ \A q \in Kept(S) : Journaled(q) = q
         /\ \A q \in Kept(S) : \E o \in S : q = Journaled(o)
BY JournaledIs DEF Kept

\* What one of them finds, the other does.
LEMMA MirrorsFind ==
  ASSUME NEW s, NEW m, Mirrors(s, m), m \in Account
  PROVE  /\ \A i, op : Found(s, i, op) <=> Found(m, i, op)
         /\ \A i, op : FoundNow(s, i, op) <=> FoundNow(m, i, op)
         /\ \A o \in Observation : Current(s, Journaled(o)) <=> Current(m, o)
         /\ \A o \in Observation : Echoed(m, o) => Echoed(s, Journaled(o))
         /\ IdsOf(s) = IdsOf(m)
<1>1. /\ m.observations \subseteq Observation
      /\ s.observations = Kept(m.observations) /\ s.doc = m.doc /\ s.conf = m.conf
  BY DEF Account, Mirrors
<1>2. \A o \in Observation : Current(s, Journaled(o)) <=> Current(m, o)
  BY <1>1, JournaledIs DEF Current
<1>3. ASSUME NEW i, NEW op PROVE Found(s, i, op) <=> Found(m, i, op)
  <2>1. ASSUME Found(s, i, op) PROVE Found(m, i, op)
    BY <1>1, <2>1, KeptIs, JournaledIs DEF Found
  <2>2. ASSUME Found(m, i, op) PROVE Found(s, i, op)
    BY <1>1, <2>2, KeptIs, JournaledIs DEF Found
  <2> QED  BY <2>1, <2>2
<1>4. ASSUME NEW i, NEW op PROVE FoundNow(s, i, op) <=> FoundNow(m, i, op)
  <2>1. ASSUME FoundNow(s, i, op) PROVE FoundNow(m, i, op)
    <3>1. PICK q \in s.observations : q.id = i /\ q.op = op /\ Current(s, q)
      BY <2>1 DEF FoundNow
    <3>2. PICK o \in m.observations : q = Journaled(o)
      BY <1>1, KeptIs
    <3>3. o \in Observation
      BY <1>1
    <3> QED  BY <1>2, <3>1, <3>2, <3>3, JournaledIs DEF FoundNow
  <2>2. ASSUME FoundNow(m, i, op) PROVE FoundNow(s, i, op)
    <3>1. PICK o \in m.observations : o.id = i /\ o.op = op /\ Current(m, o)
      BY <2>2 DEF FoundNow
    <3>2. o \in Observation /\ Journaled(o) \in s.observations
      BY <1>1, KeptIs
    <3> QED  BY <1>2, <3>1, <3>2, JournaledIs DEF FoundNow
  <2> QED  BY <2>1, <2>2
<1>5. ASSUME NEW o \in Observation, Echoed(m, o) PROVE Echoed(s, Journaled(o))
  <2>1. PICK q \in m.observations :
          /\ q.id = o.id /\ q.op = o.op /\ q.input = o.input
          /\ q.outcome = o.outcome /\ q.doc = o.doc /\ q.hints = o.hints
    BY <1>5 DEF Echoed
  <2>2. q \in Observation /\ Journaled(q) \in s.observations
    BY <1>1, KeptIs
  <2> QED  BY <2>1, <2>2, JournaledIs DEF Echoed
<1>6. IdsOf(s) = IdsOf(m)
  <2>1. ASSUME NEW i PROVE i \in IdsOf(s) <=> i \in IdsOf(m)
    <3>1. i \in IdsOf(s) <=> \E op : Found(s, i, op)
      BY DEF IdsOf, Found
    <3>2. i \in IdsOf(m) <=> \E op : Found(m, i, op)
      BY DEF IdsOf, Found
    <3> QED  BY <1>3, <3>1, <3>2
  <2> QED  BY <2>1
<1> QED  BY <1>2, <1>3, <1>4, <1>5, <1>6

\* The journal of a process that is whole is whole.
LEMMA MirrorsWhole ==
  ASSUME NEW s, NEW m, NEW n, Mirrors(s, m), Whole(m, n), s \in Account,
         Seen(s), Grounded(s), Single(s)
  PROVE  Whole(s, n) /\ Bare(s)
<1>1. /\ m \in Account /\ m.observations \subseteq Observation
      /\ m.experiments \subseteq Observation
      /\ s.observations = Kept(m.observations)
      /\ s.experiments = Kept(m.experiments) /\ s.run = m.run
  BY DEF Whole, Account, Mirrors
<1>2. ASSUME NEW q \in s.observations \cup s.experiments
      PROVE  \E o \in m.observations \cup m.experiments :
                /\ o \in Observation /\ q = Journaled(o)
                /\ q \in s.observations => o \in m.observations
  BY <1>1, KeptIs
<1>3. Bare(s)
  BY <1>2, JournaledIs DEF Bare
<1>4. Traced(s, n)
  <2>1. ASSUME NEW q \in s.observations \cup s.experiments
        PROVE  /\ q.id <= n /\ q.sender <= s.run
               /\ q.origin = IF q.sender = s.run THEN None ELSE q.sender
    BY <1>1, <1>2, JournaledIs DEF Whole, Traced
  <2>2. ASSUME NEW q \in s.observations, NEW p \in s.observations, q.id = p.id
        PROVE  q.sender = p.sender
    <3>1. PICK a \in m.observations : q = Journaled(a)
      BY <1>1, KeptIs
    <3>2. PICK b \in m.observations : p = Journaled(b)
      BY <1>1, KeptIs
    <3>3. a.id = b.id
      BY <1>1, <2>2, <3>1, <3>2, JournaledIs
    <3> QED  BY <1>1, <3>1, <3>2, <3>3, JournaledIs DEF Whole, Traced
  <2> QED  BY <2>1, <2>2 DEF Traced
<1>5. Recorded(s)
  <2>1. ASSUME NEW q \in s.experiments
        PROVE  /\ Echoed(s, q)
               /\ q.control = 0 \/ Found(s, q.control, q.op)
               /\ q.phase = "probe" => q.control # 0
    <3>1. PICK o \in m.experiments : q = Journaled(o)
      BY <1>1, KeptIs
    <3>2. /\ o \in Observation /\ Echoed(m, o)
          /\ o.control = 0 \/ Found(m, o.control, o.op)
          /\ o.phase = "probe" => o.control # 0
      BY <1>1 DEF Whole, Recorded
    <3> QED  BY <1>1, <3>1, <3>2, JournaledIs, MirrorsFind
  <2> QED  BY <2>1 DEF Recorded
<1> QED  BY <1>3, <1>4, <1>5 DEF Whole

\* And what can be reused of it is of its context.
LEMMA MirrorsFresh ==
  ASSUME NEW s, NEW m, NEW n, Mirrors(s, m), Whole(m, n), Fresh(m),
         s.effects = m.effects
  PROVE  Fresh(s)
<1>1. /\ m \in Account /\ m.observations \subseteq Observation
      /\ m.experiments \subseteq Observation
      /\ s.observations = Kept(m.observations)
      /\ s.experiments = Kept(m.experiments)
      /\ s.signatures = m.signatures
      /\ s.doc = m.doc /\ s.conf = m.conf
  BY DEF Whole, Account, Mirrors
<1>2. \A op : HeldContext(s, op) = HeldContext(m, op)
  BY <1>1, ContextHeld
<1>3. ASSUME NEW q \in s.observations PROVE q.evidenceOnly \/ Current(s, q)
  <2>1. PICK o \in m.observations : q = Journaled(o)
    BY <1>1, KeptIs
  <2>2. o \in Observation /\ (o.evidenceOnly \/ Current(m, o))
    BY <1>1 DEF Fresh
  <2> QED  BY <1>1, <2>1, <2>2, JournaledIs, MirrorsFind
<1>4. ASSUME NEW q \in s.experiments
      PROVE  /\ Current(s, q) /\ s.signatures[q.op] = HeldContext(s, q.op)
             /\ q.control = 0 \/ FoundNow(s, q.control, q.op)
  <2>1. PICK o \in m.experiments : q = Journaled(o)
    BY <1>1, KeptIs
  <2>2. /\ o \in Observation /\ Current(m, o)
        /\ m.signatures[o.op] = HeldContext(m, o.op)
        /\ o.control = 0 \/ FoundNow(m, o.control, o.op)
    BY <1>1 DEF Fresh
  <2>3. q.op = o.op /\ q.control = o.control /\ Current(s, q)
    BY <1>1, <2>1, <2>2, JournaledIs, MirrorsFind
  <2> QED  BY <1>1, <1>2, <2>2, <2>3, MirrorsFind
<1>5. \A e \in s.effects :
        /\ s.signatures[e.op] = HeldContext(s, e.op)
        /\ FoundNow(s, e.experiment, e.op) /\ FoundNow(s, e.read, Read[e.op])
  BY <1>1, <1>2, MirrorsFind DEF Fresh
<1> QED  BY <1>3, <1>4, <1>5 DEF Fresh

\* Events that report nothing.
LEMMA JournalGrows ==
  ASSUME NEW s, NEW t, NEW m, NEW n, NEW k, Whole(s, n), Mirrors(t, m), Whole(m, k),
         t \in Account, s.observations \subseteq t.observations,
         t.effects \subseteq s.effects \cup m.effects,
         t.rules = s.rules, t.coverage = s.coverage
  PROVE  Whole(t, k) /\ Bare(t)
<1>1. Grounded(t) /\ Single(t)
  BY GroundedGrows DEF Whole, Single
<1>2. \A i, op : Found(s, i, op) \/ Found(m, i, op) => Found(t, i, op)
  BY Growing, MirrorsFind DEF Whole
<1>3. Seen(t)
  BY <1>2 DEF Whole, Seen
<1> QED  BY <1>1, <1>3, MirrorsWhole

\* A report tells what the process concludes.
LEMMA JournalReports ==
  ASSUME NEW s, NEW t, NEW m, NEW k, Whole(s, k), Mirrors(t, m), Whole(m, k),
         t \in Account, t.rules = m.rules, t.coverage = m.coverage,
         t.observations = s.observations, t.effects = s.effects
  PROVE  /\ Whole(t, k) /\ Bare(t)
         /\ Steady(m) /\ t.effects = m.effects => Steady(t)
<1>1. m \in Account
  BY DEF Whole
<1>0. Seen(t)
  BY DEF Whole, Seen, Found
<1>2. Grounded(t) /\ Single(t)
  BY <1>1, MirrorsFind DEF Whole, Single, Grounded
<1>3. ASSUME FreshRules(m) PROVE FreshRules(t)
  <2>1. \A i, op : FoundNow(t, i, op) <=> FoundNow(m, i, op)
    BY <1>1, MirrorsFind
  <2> QED  BY <1>3, <2>1 DEF FreshRules
<1>4. ASSUME Earned(m) PROVE Earned(t)
  <2>1. m.experiments \subseteq Observation /\ t.experiments = Kept(m.experiments)
    BY <1>1 DEF Account, Mirrors
  <2>2. SUFFICES ASSUME NEW v \in t.coverage, v.state = "complete",
                        NEW x \in v.signature[2]
                 PROVE  \E o \in t.experiments :
                          /\ o.op = v.op /\ Classified(o)
                          /\ o.input \in IF v.origin = None
                                         THEN {x, Hide(x)} ELSE {x} \ Redacted
    BY DEF Earned
  <2>3. PICK o \in m.experiments :
          /\ o.op = v.op /\ Classified(o)
          /\ o.input \in IF v.origin = None THEN {x, Hide(x)} ELSE {x} \ Redacted
    BY <1>4, <2>2 DEF Earned
  <2>4. o \in Observation /\ Journaled(o) \in t.experiments
    BY <2>1, KeptIs
  <2>5. Journaled(o).op = v.op /\ Classified(Journaled(o)) /\ Journaled(o).input = Hide(o.input)
    BY <2>3, <2>4, JournaledIs DEF Classified
  <2>6. Hide(o.input) \in IF v.origin = None THEN {x, Hide(x)} ELSE {x} \ Redacted
    BY <2>3 DEF Hide
  <2> QED  BY <2>4, <2>5, <2>6
<1>5. ASSUME Steady(m), t.effects = m.effects PROVE Steady(t)
  BY <1>3, <1>4, <1>5, MirrorsFresh DEF Steady
<1> QED  BY <1>0, <1>2, <1>5, MirrorsWhole

------------------------------------------------------------------------------
(* Lists of events *)

\* Lists can be joined in any order.
LEMMA Joined ==
  ASSUME NEW i, NEW j, NEW k, IsList(i), IsList(j), IsList(k)
  PROVE  /\ IsList(i \o j)
         /\ i \o (j \o k) = (i \o j) \o k
<1> DEFINE A == {i[x] : x \in DOMAIN i}
<1> DEFINE B == {j[x] : x \in DOMAIN j}
<1> DEFINE C == {k[x] : x \in DOMAIN k}
<1> DEFINE S == A \cup B \cup C
<1>1. i \in Seq(A) /\ j \in Seq(B) /\ k \in Seq(C)
  BY DEF IsList
<1>2. A \subseteq S /\ B \subseteq S /\ C \subseteq S
  OBVIOUS
<1> HIDE DEF A, B, C, S
<1>3. i \in Seq(S) /\ j \in Seq(S) /\ k \in Seq(S)
  BY <1>1, <1>2
<1>4. i \o (j \o k) = (i \o j) \o k
  BY <1>3
<1>5. IsList(i \o j)
  <2> DEFINE q == i \o j
  <2> DEFINE T == {q[x] : x \in DOMAIN q}
  <2>1. q \in Seq(S)
    BY <1>3
  <2> HIDE DEF q
  <2>2. q = [x \in 1 .. Len(q) |-> q[x]] /\ Len(q) \in Nat /\ DOMAIN q = 1 .. Len(q)
    BY <2>1
  <2>3. \A x \in 1 .. Len(q) : q[x] \in T
    BY <2>2
  <2> HIDE DEF T
  <2>4. q \in Seq(T)
    BY <2>2, <2>3
  <2> QED  BY <2>4 DEF IsList, q, T
<1> QED  BY <1>4, <1>5

\* A list with nothing, or with one or two events more.
LEMMA JoinFew ==
  ASSUME NEW j, IsList(j)
  PROVE  /\ IsList(<<>>) /\ j \o <<>> = j
         /\ \A a : IsList(<<a>>) /\ j \o <<a>> = Append(j, a)
         /\ \A a, b : IsList(<<a, b>>) /\ j \o <<a, b>> = Append(Append(j, a), b)
<1> DEFINE A == {j[x] : x \in DOMAIN j}
<1>1. j \in Seq(A)
  BY DEF IsList
<1> HIDE DEF A
<1>2. IsList(<<>>) /\ j \o <<>> = j
  BY <1>1 DEF IsList
<1>3. ASSUME NEW a PROVE IsList(<<a>>) /\ j \o <<a>> = Append(j, a)
  <2>1. j \in Seq(A \cup {a}) /\ a \in A \cup {a}
    BY <1>1
  <2> DEFINE T == A \cup {a}
  <2> HIDE DEF T
  <2>2. j \o <<a>> = Append(j, a)
    <3>1. j \in Seq(T) /\ a \in T
      BY <2>1 DEF T
    <3> QED  BY <3>1
  <2> QED  BY <2>2, ReplayOne
<1>4. ASSUME NEW a, NEW b
      PROVE  IsList(<<a, b>>) /\ j \o <<a, b>> = Append(Append(j, a), b)
  <2> DEFINE T == A \cup {a, b}
  <2>1. j \in Seq(T) /\ a \in T /\ b \in T
    BY <1>1
  <2> HIDE DEF T
  <2>2. j \o <<a, b>> = Append(Append(j, a), b)
    BY <2>1
  <2>3. IsList(<<a, b>>)
    <3>1. <<a, b>> = Append(<<a>>, b)
      OBVIOUS
    <3> QED  BY <3>1, ReplayOne, ReplayAppend
  <2> QED  BY <2>2, <2>3
<1> QED  BY <1>2, <1>3, <1>4

\* What is cleaned up is deleted, and recorded if it is anything.
LEMMA ReplayDeleted ==
  ASSUME NEW j, IsList(j), j # <<>>, Replay(j) \in Account, NEW ids
  PROVE  /\ IsList(Deleted(ids)) /\ IsList(j \o Deleted(ids)) /\ j \o Deleted(ids) # <<>>
         /\ Replay(j \o Deleted(ids)) = [Replay(j) EXCEPT !.deleted = @ \cup ids]
<1>1. CASE ids = {}
  <2>1. Deleted(ids) = <<>> /\ j \o Deleted(ids) = j
    BY <1>1, JoinFew DEF Deleted
  <2>2. [Replay(j) EXCEPT !.deleted = @ \cup ids] = Replay(j)
    BY <1>1 DEF Account
  <2> QED  BY <2>1, <2>2, JoinFew
<1>2. CASE ids # {}
  <2> DEFINE e == [kind |-> "resource", ids |-> ids]
  <2>1. Deleted(ids) = <<e>> /\ j \o Deleted(ids) = Append(j, e)
    BY <1>2, JoinFew DEF Deleted
  <2>2. Apply(Replay(j), e) = [Replay(j) EXCEPT !.deleted = @ \cup ids]
    BY Applied
  <2>3. IsList(<<e>>)
    BY JoinFew
  <2> HIDE DEF e
  <2>4. IsList(Append(j, e)) /\ Append(j, e) # <<>> /\ Replay(Append(j, e)) = Apply(Replay(j), e)
    BY ReplayAppend
  <2> QED  BY <2>1, <2>2, <2>3, <2>4
<1> QED  BY <1>1, <1>2

\* Growing twice is growing once, and each event of an experiment is growing.
LEMMA GrownTwice ==
  ASSUME NEW s \in Account, NEW O, NEW E, NEW X, NEW G, NEW P, NEW F, NEW Y, NEW H
  PROVE  Grown(Grown(s, O, E, X, G), P, F, Y, H)
           = Grown(s, O \cup P, E \cup F, X \cup Y, G \cup H)
<1> DEFINE t == Grown(s, O, E, X, G)
<1>1. /\ t = [s EXCEPT !.observations = s.observations \cup O,
                       !.effects = s.effects \cup E,
                       !.experiments = s.experiments \cup X,
                       !.deleted = s.deleted \cup G]
      /\ t.observations = s.observations \cup O /\ t.effects = s.effects \cup E
      /\ t.experiments = s.experiments \cup X /\ t.deleted = s.deleted \cup G
  BY DEF Grown, Account
<1>2. Grown(t, P, F, Y, H)
        = [t EXCEPT !.observations = s.observations \cup (O \cup P),
                    !.effects = s.effects \cup (E \cup F),
                    !.experiments = s.experiments \cup (X \cup Y),
                    !.deleted = s.deleted \cup (G \cup H)]
  <2> HIDE DEF t
  <2>1. /\ t.observations \cup P = s.observations \cup (O \cup P)
        /\ t.effects \cup F = s.effects \cup (E \cup F)
        /\ t.experiments \cup Y = s.experiments \cup (X \cup Y)
        /\ t.deleted \cup H = s.deleted \cup (G \cup H)
    BY <1>1
  <2> QED  BY <2>1 DEF Grown
<1> HIDE DEF t
<1>3. Grown(t, P, F, Y, H) = Grown(s, O \cup P, E \cup F, X \cup Y, G \cup H)
  <2> DEFINE a == s.observations \cup (O \cup P)
  <2> DEFINE b == s.effects \cup (E \cup F)
  <2> DEFINE c == s.experiments \cup (X \cup Y)
  <2> DEFINE d == s.deleted \cup (G \cup H)
  <2>1. Grown(t, P, F, Y, H) = [t EXCEPT !.observations = a, !.effects = b,
                                         !.experiments = c, !.deleted = d]
    BY <1>2
  <2>2. Grown(s, O \cup P, E \cup F, X \cup Y, G \cup H)
          = [s EXCEPT !.observations = a, !.effects = b,
                      !.experiments = c, !.deleted = d]
    BY DEF Grown
  <2> HIDE DEF a, b, c, d
  <2>3. [t EXCEPT !.observations = a, !.effects = b, !.experiments = c, !.deleted = d]
          = [s EXCEPT !.observations = a, !.effects = b, !.experiments = c, !.deleted = d]
    BY <1>1 DEF Account
  <2> QED  BY <2>1, <2>2, <2>3
<1> QED  BY <1>3 DEF t

LEMMA GrownOnce ==
  ASSUME NEW s \in Account
  PROVE  /\ Grown(s, {}, {}, {}, {}) = s
         /\ \A o : Apply(s, Logged("observation", o)) = Grown(s, {Journaled(o)}, {}, {}, {})
         /\ \A e : Apply(s, [kind |-> "effect", effect |-> e]) = Grown(s, {}, {e}, {}, {})
         /\ \A o : Apply(s, Logged("experiment", o)) = Grown(s, {}, {}, {Journaled(o)}, {})
         /\ \A ids : [s EXCEPT !.deleted = @ \cup ids] = Grown(s, {}, {}, {}, ids)
<1>0. /\ s.observations \cup {} = s.observations /\ s.effects \cup {} = s.effects
      /\ s.experiments \cup {} = s.experiments /\ s.deleted \cup {} = s.deleted
  OBVIOUS
<1>1. Grown(s, {}, {}, {}, {}) = s
  BY <1>0 DEF Grown, Account
<1>2. ASSUME NEW o
      PROVE  Apply(s, Logged("observation", o)) = Grown(s, {Journaled(o)}, {}, {}, {})
  <2>1. [s EXCEPT !.observations = @ \cup {Journaled(o)}]
          = Grown(s, {Journaled(o)}, {}, {}, {})
    BY <1>0 DEF Grown, Account
  <2> QED  BY <2>1, Applied
<1>3. ASSUME NEW e
      PROVE  Apply(s, [kind |-> "effect", effect |-> e]) = Grown(s, {}, {e}, {}, {})
  <2>1. [s EXCEPT !.effects = @ \cup {e}] = Grown(s, {}, {e}, {}, {})
    BY <1>0 DEF Grown, Account
  <2> QED  BY <2>1, Applied
<1>4. ASSUME NEW o
      PROVE  Apply(s, Logged("experiment", o)) = Grown(s, {}, {}, {Journaled(o)}, {})
  <2>1. [s EXCEPT !.experiments = @ \cup {Journaled(o)}]
          = Grown(s, {}, {}, {Journaled(o)}, {})
    BY <1>0 DEF Grown, Account
  <2> QED  BY <2>1, Applied
<1>5. ASSUME NEW ids
      PROVE  [s EXCEPT !.deleted = @ \cup ids] = Grown(s, {}, {}, {}, ids)
  BY <1>0 DEF Grown, Account
<1> QED  BY <1>1, <1>2, <1>3, <1>4, <1>5

\* The events an experiment has written when the process dies or goes on: the
\* second part if it was read back, the third if it was recorded, and the last
\* if what it created was deleted.
Events(main, B, C, D) == <<Logged("observation", main)>> \o B \o C \o D
ReadBack(B, O, E, back, effect) ==
    \/ B = <<>> /\ O = {} /\ E = {}
    \/ /\ B = <<Logged("observation", back), [kind |-> "effect", effect |-> effect]>>
       /\ O = {back} /\ E = {effect}
Noted(C, X, main) ==
    \/ C = <<>> /\ X = {}
    \/ C = <<Logged("experiment", main)>> /\ X = {main}
Cleaned(D, G, gone) == \/ D = <<>> /\ G = {}
                       \/ D = Deleted(gone) /\ G = gone

LEMMA ReplayWritten ==
  ASSUME NEW j, IsList(j), j # <<>>, Replay(j) \in Account,
         NEW main \in Observation, NEW back, NEW effect \in Effect,
         NEW gone \in SUBSET Nat,
         NEW B, NEW O \in SUBSET Observation, NEW E, ReadBack(B, O, E, back, effect),
         NEW C, NEW X, Noted(C, X, main), NEW D, NEW G, Cleaned(D, G, gone),
         NEW w, w = Events(main, B, C, D)
  PROVE  /\ IsList(j \o w) /\ j \o w # <<>>
         /\ Replay(j \o w) = Grown(Replay(j), Kept({main} \cup O), E, Kept(X), G)
<1> DEFINE s == Replay(j)
<1> DEFINE A == <<Logged("observation", main)>>
<1> DEFINE ob == Logged("observation", back)
<1> DEFINE ef == [kind |-> "effect", effect |-> effect]
<1> DEFINE ex == Logged("experiment", main)
<1> DEFINE O1 == {Journaled(main)}
<1> DEFINE O2 == Kept(O)
<1> DEFINE X3 == Kept(X)
<1>0. /\ w = ((A \o B) \o C) \o D
      /\ IsList(A) /\ IsList(B) /\ IsList(C) /\ IsList(D)
  <2>1. IsList(<<>>) /\ IsList(Deleted(gone))
    BY JoinFew, ReplayDeleted
  <2>2. IsList(A) /\ IsList(<<ob, ef>>) /\ IsList(<<ex>>)
    BY JoinFew
  <2>3. w = ((A \o B) \o C) \o D
    BY DEF Events
  <2>4. /\ B = <<>> \/ B = <<ob, ef>>
        /\ C = <<>> \/ C = <<ex>>
        /\ D = <<>> \/ D = Deleted(gone)
    BY DEF ReadBack, Noted, Cleaned
  <2> HIDE DEF A, ob, ef, ex
  <2> QED  BY <2>1, <2>2, <2>3, <2>4
<1>a. /\ \/ B = <<>> /\ O2 = {} /\ E = {}
         \/ B = <<ob, ef>> /\ O2 = {Journaled(back)} /\ E = {effect}
      /\ \/ C = <<>> /\ X3 = {}
         \/ C = <<ex>> /\ X3 = {Journaled(main)}
      /\ \/ D = <<>> /\ G = {}
         \/ D = Deleted(gone) /\ G = gone
  BY DEF Kept, ReadBack, Noted, Cleaned
<1>1. Journaled(main) \in Observation /\ O2 \in SUBSET Observation
  BY JournaledIs, KeptIs
<1>2. /\ O1 \in SUBSET Observation /\ O2 \in SUBSET Observation
      /\ E \in SUBSET Effect /\ X3 \in SUBSET Observation /\ G \in SUBSET Nat
  BY <1>1, <1>a
<1>3. /\ IsList(j \o A) /\ j \o A # <<>>
      /\ Replay(j \o A) = Grown(s, O1, {}, {}, {})
      /\ Replay(j \o A) \in Account
  <2> DEFINE e == Logged("observation", main)
  <2>1. j \o A = Append(j, e)
    BY JoinFew
  <2>2. Apply(s, e) = Grown(s, O1, {}, {}, {})
    BY GrownOnce
  <2>3. IsList(Append(j, e)) /\ Append(j, e) # <<>> /\ Replay(Append(j, e)) = Apply(s, e)
    BY ReplayAppend
  <2>4. Grown(s, O1, {}, {}, {}) \in Account
    BY <1>2 DEF Grown, Account
  <2> HIDE DEF A, e, s, O1
  <2> QED  BY <2>1, <2>2, <2>3, <2>4
<1> DEFINE j1 == j \o A
<1> DEFINE s1 == Replay(j1)
<1>4. /\ IsList(j1 \o B) /\ j1 \o B # <<>>
      /\ Replay(j1 \o B) = Grown(s1, O2, E, {}, {})
      /\ Replay(j1 \o B) \in Account
  <2>0. IsList(j1) /\ j1 # <<>> /\ s1 \in Account
    BY <1>3
  <2> HIDE DEF j1, s1
  <2>1. CASE B = <<ob, ef>> /\ O2 = {Journaled(back)} /\ E = {effect}
    <3>1. j1 \o B = Append(Append(j1, ob), ef)
      BY <2>0, <2>1, JoinFew
    <3>2. IsList(Append(j1, ob)) /\ Replay(Append(j1, ob)) = Apply(s1, ob)
      BY <2>0, ReplayAppend DEF s1
    <3>3. /\ IsList(Append(Append(j1, ob), ef)) /\ Append(Append(j1, ob), ef) # <<>>
          /\ Replay(Append(Append(j1, ob), ef)) = Apply(Apply(s1, ob), ef)
      <4> DEFINE k == Append(j1, ob)
      <4> HIDE DEF ob, ef, k
      <4>1. IsList(k) /\ Replay(k) = Apply(s1, ob)
        BY <3>2 DEF k
      <4>2. /\ IsList(Append(k, ef)) /\ Append(k, ef) # <<>>
            /\ Replay(Append(k, ef)) = Apply(Replay(k), ef)
        BY <4>1, ReplayAppend
      <4> QED  BY <4>1, <4>2 DEF k
    <3>4. Apply(s1, ob) = Grown(s1, {Journaled(back)}, {}, {}, {})
      BY <2>0, GrownOnce
    <3>5. Grown(s1, {Journaled(back)}, {}, {}, {}) \in Account
      BY <1>1, <2>0, <2>1 DEF Grown, Account
    <3>6. Apply(Apply(s1, ob), ef)
            = Grown(Grown(s1, {Journaled(back)}, {}, {}, {}), {}, {effect}, {}, {})
      BY <3>4, <3>5, GrownOnce
    <3>7. Apply(Apply(s1, ob), ef)
            = Grown(s1, {Journaled(back)} \cup {}, {} \cup {effect}, {} \cup {}, {} \cup {})
      BY <2>0, <3>6, GrownTwice
    <3>8. /\ {Journaled(back)} \cup {} = O2 /\ {} \cup {effect} = E /\ {} \cup {} = {}
      BY <2>1
    <3>9. Grown(s1, O2, E, {}, {}) \in Account
      BY <1>2, <2>0 DEF Grown, Account
    <3> HIDE DEF ob, ef, O2
    <3> QED  BY <3>1, <3>3, <3>7, <3>8, <3>9
  <2>2. CASE B = <<>> /\ O2 = {} /\ E = {}
    <3>1. j1 \o B = j1
      BY <2>0, <2>2, JoinFew
    <3>2. O2 = {} /\ E = {}
      BY <2>2
    <3>3. Grown(s1, {}, {}, {}, {}) = s1
      BY <2>0, GrownOnce
    <3> HIDE DEF O2
    <3> QED  BY <2>0, <3>1, <3>2, <3>3 DEF s1
  <2> QED  BY <1>a, <2>1, <2>2
<1> DEFINE j2 == j1 \o B
<1> DEFINE s2 == Replay(j2)
<1>5. /\ IsList(j2 \o C) /\ j2 \o C # <<>>
      /\ Replay(j2 \o C) = Grown(s2, {}, {}, X3, {})
      /\ Replay(j2 \o C) \in Account
  <2>0. IsList(j2) /\ j2 # <<>> /\ s2 \in Account
    BY <1>4
  <2> HIDE DEF j2, s2
  <2>1. CASE C = <<ex>> /\ X3 = {Journaled(main)}
    <3>1. j2 \o C = Append(j2, ex)
      BY <2>0, <2>1, JoinFew
    <3>2. /\ IsList(Append(j2, ex)) /\ Append(j2, ex) # <<>>
          /\ Replay(Append(j2, ex)) = Apply(s2, ex)
      BY <2>0, ReplayAppend DEF s2
    <3>3. Apply(s2, ex) = Grown(s2, {}, {}, X3, {})
      BY <2>0, <2>1, GrownOnce
    <3>4. Grown(s2, {}, {}, X3, {}) \in Account
      BY <1>2, <2>0 DEF Grown, Account
    <3> HIDE DEF X3, ex
    <3> QED  BY <3>1, <3>2, <3>3, <3>4
  <2>2. CASE C = <<>> /\ X3 = {}
    <3>1. j2 \o C = j2 /\ X3 = {}
      BY <2>0, <2>2, JoinFew
    <3>2. Grown(s2, {}, {}, {}, {}) = s2
      BY <2>0, GrownOnce
    <3> HIDE DEF X3
    <3> QED  BY <2>0, <3>1, <3>2 DEF s2
  <2> QED  BY <1>a, <2>1, <2>2
<1> DEFINE j3 == j2 \o C
<1> DEFINE s3 == Replay(j3)
<1>6. /\ IsList(j3 \o D) /\ j3 \o D # <<>>
      /\ Replay(j3 \o D) = Grown(s3, {}, {}, {}, G)
  <2>0. IsList(j3) /\ j3 # <<>> /\ s3 \in Account
    BY <1>5
  <2> HIDE DEF j3, s3
  <2>1. CASE D = Deleted(gone) /\ G = gone
    <3>1. [s3 EXCEPT !.deleted = @ \cup gone] = Grown(s3, {}, {}, {}, gone)
      BY <2>0, GrownOnce
    <3>2. D = Deleted(gone) /\ G = gone
      BY <2>1
    <3>3. Replay(j3) \in Account
      BY <2>0 DEF s3
    <3>4. /\ IsList(j3 \o Deleted(gone)) /\ j3 \o Deleted(gone) # <<>>
          /\ Replay(j3 \o Deleted(gone)) = [Replay(j3) EXCEPT !.deleted = @ \cup gone]
      BY <2>0, <3>3, ReplayDeleted
    <3> QED  BY <3>1, <3>2, <3>4 DEF s3
  <2>2. CASE D = <<>> /\ G = {}
    <3>1. j3 \o D = j3 /\ G = {}
      BY <2>0, <2>2, JoinFew
    <3>2. Grown(s3, {}, {}, {}, {}) = s3
      BY <2>0, GrownOnce
    <3> QED  BY <2>0, <3>1, <3>2 DEF s3
  <2> QED  BY <1>a, <2>1, <2>2
<1>7. j \o w = j3 \o D
  <2> HIDE DEF A
  <2>1. IsList(A \o B) /\ IsList((A \o B) \o C)
    BY <1>0, Joined
  <2>2. j \o w = (j \o ((A \o B) \o C)) \o D
    <3> DEFINE q == (A \o B) \o C
    <3>1. IsList(q) /\ w = q \o D
      BY <1>0, <2>1
    <3> HIDE DEF q
    <3>2. j \o (q \o D) = (j \o q) \o D
      BY <1>0, <3>1, Joined
    <3> QED  BY <3>1, <3>2 DEF q
  <2>3. j \o ((A \o B) \o C) = (j \o (A \o B)) \o C
    BY <1>0, <2>1, Joined
  <2>4. j \o (A \o B) = (j \o A) \o B
    BY <1>0, Joined
  <2> QED  BY <2>2, <2>3, <2>4
<1>8. Replay(j3 \o D) = Grown(s, O1 \cup O2, E, X3, G)
  <2>1. /\ s1 = Grown(s, O1, {}, {}, {}) /\ s1 \in Account
        /\ s2 = Grown(s1, O2, E, {}, {}) /\ s2 \in Account
        /\ s3 = Grown(s2, {}, {}, X3, {}) /\ s3 \in Account /\ s \in Account
    BY <1>3, <1>4, <1>5
  <2> HIDE DEF s, s1, s2, s3, O1, O2, X3, j3
  <2>2. s2 = Grown(s, O1 \cup O2, {} \cup E, {} \cup {}, {} \cup {})
    BY <2>1, GrownTwice
  <2>3. s3 = Grown(s, (O1 \cup O2) \cup {}, ({} \cup E) \cup {},
                   ({} \cup {}) \cup X3, ({} \cup {}) \cup {})
    BY <2>1, <2>2, GrownTwice
  <2>4. Grown(s3, {}, {}, {}, G)
          = Grown(s, ((O1 \cup O2) \cup {}) \cup {}, (({} \cup E) \cup {}) \cup {},
                  (({} \cup {}) \cup X3) \cup {}, (({} \cup {}) \cup {}) \cup G)
    BY <2>1, <2>3, GrownTwice
  <2>5. /\ ((O1 \cup O2) \cup {}) \cup {} = O1 \cup O2
        /\ (({} \cup E) \cup {}) \cup {} = E
        /\ (({} \cup {}) \cup X3) \cup {} = X3
        /\ (({} \cup {}) \cup {}) \cup G = G
    OBVIOUS
  <2> QED  BY <1>6, <2>4, <2>5
<1>9. Kept({main} \cup O) = O1 \cup O2
  BY DEF Kept
<1> QED
  <2> HIDE DEF A, O1, O2, X3, j3
  <2>1. Replay(j \o w) = Grown(s, O1 \cup O2, E, X3, G)
    BY <1>7, <1>8
  <2>2. IsList(j \o w) /\ j \o w # <<>>
    BY <1>6, <1>7
  <2> QED  BY <1>9, <2>1, <2>2 DEF X3

------------------------------------------------------------------------------
(* What a child takes over *)

Ops(p, d, c) == {op \in Op : Action(p, op, d, c) \in {"inherit", "resume"}}
Entire(p, d, c) == {op \in Op : Action(p, op, d, c) = "inherit"}
Taken(p, d, c) == {o \in p.experiments : o.op \in Ops(p, d, c) /\ reusable(o)}
Numbered(S) == {o.id : o \in S}
Effects(p, d, c) ==
    {e \in p.effects : e.op \in Ops(p, d, c) /\ e.experiment \in Numbered(Taken(p, d, c))}
Carried(p, d, c) ==
    {o \in p.observations :
        o.op \in Ops(p, d, c) \/ o.id \in Supporting(Effects(p, d, c), Taken(p, d, c))}
Cited(o, p, d, c) ==
    [Stamp(o, p.run) EXCEPT
        !.evidenceOnly = @ \/ o.op \notin Ops(p, d, c)
                           \/ o.id \notin Numbered(Taken(p, d, c))]
Renewed(v, p, d, c) ==
    [Stamp(v, p.run) EXCEPT !.signature = planSignature(v.op, d, c)]

Stamped(S, n) == {Stamp(x, n) : x \in S}
Citations(p, d, c) == {Cited(o, p, d, c) : o \in Carried(p, d, c)}
Renewals(p, d, c) ==
    {Renewed(v, p, d, c) : v \in AnalysisOf(p.coverage, Entire(p, d, c))}
Contexts(p, d, c) ==
    [op \in Op |-> IF op \in Ops(p, d, c) THEN Context(op, d, c) ELSE None]

\* The parts of an inheritance.
LEMMA InheritanceIs ==
  ASSUME NEW p, NEW d, NEW c
  PROVE  LET i == Inheritance(p, d, c)
         IN  /\ i.signatures = [op \in Ops(p, d, c) |-> Context(op, d, c)]
             /\ i.experiments = Stamped(Taken(p, d, c), p.run)
             /\ i.effects = Effects(p, d, c)
             /\ i.observations = Citations(p, d, c)
             /\ i.rules = Stamped(AnalysisOf(p.rules, Entire(p, d, c)), p.run)
             /\ i.coverage = Renewals(p, d, c)
BY DEF Inheritance, Ops, Entire, Taken, Numbered, Effects, Carried, Cited, Renewed,
       Stamped, Citations, Renewals

\* The operations taken over are compatible, and those that need no more
\* were complete.
LEMMA OpsAre ==
  ASSUME NEW p, NEW d, NEW c
  PROVE  /\ Entire(p, d, c) \subseteq Ops(p, d, c) /\ Ops(p, d, c) \subseteq Op
         /\ \A op \in Ops(p, d, c) : Compatible(p, op, d, c)
         /\ \A op \in Entire(p, d, c) : Enough(p, op, c)
<1>1. Entire(p, d, c) \subseteq Ops(p, d, c) /\ Ops(p, d, c) \subseteq Op
  BY DEF Entire, Ops
<1>2. \A op \in Ops(p, d, c) : Compatible(p, op, d, c)
  BY DEF Ops, Action
<1>3. \A op \in Entire(p, d, c) : Enough(p, op, c)
  BY DEF Entire, Action
<1> QED  BY <1>1, <1>2, <1>3

\* A stamp names the run, of what no other run was named for.
LEMMA StampIs ==
  ASSUME NEW n \in Nat
  PROVE  /\ \A o \in Observation :
              LET q == Stamp(o, n)
              IN  /\ q \in Observation /\ q.id = o.id /\ q.op = o.op
                  /\ q.input = o.input /\ q.phase = o.phase /\ q.outcome = o.outcome
                  /\ q.control = o.control /\ q.evidenceOnly = o.evidenceOnly
                  /\ q.doc = o.doc /\ q.hints = o.hints /\ q.sender = o.sender
                  /\ q.origin = (IF o.origin = None THEN n ELSE o.origin)
         /\ \A r \in Rule :
              LET q == Stamp(r, n)
              IN  /\ q \in Rule /\ q.op = r.op /\ q.kind = r.kind
                  /\ q.evidence = r.evidence /\ q.origin # None
         /\ \A v \in Verdict :
              LET q == Stamp(v, n)
              IN  /\ q \in Verdict /\ q.op = v.op /\ q.state = v.state
                  /\ q.origin # None
<1>1. n \in Origin /\ n # None
  BY NoneAssumption DEF Origin
<1>2. ASSUME NEW o \in Observation
      PROVE  LET q == Stamp(o, n)
             IN  /\ q \in Observation /\ q.id = o.id /\ q.op = o.op
                 /\ q.input = o.input /\ q.phase = o.phase /\ q.outcome = o.outcome
                 /\ q.control = o.control /\ q.evidenceOnly = o.evidenceOnly
                 /\ q.doc = o.doc /\ q.hints = o.hints /\ q.sender = o.sender
                 /\ q.origin = (IF o.origin = None THEN n ELSE o.origin)
  BY <1>1 DEF Stamp, Observation
<1>3. ASSUME NEW r \in Rule
      PROVE  LET q == Stamp(r, n)
             IN  /\ q \in Rule /\ q.op = r.op /\ q.kind = r.kind
                 /\ q.evidence = r.evidence /\ q.origin # None
  BY <1>1 DEF Stamp, Rule
<1>4. ASSUME NEW v \in Verdict
      PROVE  LET q == Stamp(v, n)
             IN  /\ q \in Verdict /\ q.op = v.op /\ q.state = v.state
                 /\ q.origin # None
  BY <1>1 DEF Stamp, Verdict
<1> QED  BY <1>2, <1>3, <1>4

\* An observation that is carried says the same, and names its run.
LEMMA CitedIs ==
  ASSUME NEW p, p.run \in Nat, NEW d, NEW c, NEW o \in Observation
  PROVE  LET q == Cited(o, p, d, c)
         IN  /\ q \in Observation /\ q.id = o.id /\ q.op = o.op
             /\ q.input = o.input /\ q.phase = o.phase /\ q.outcome = o.outcome
             /\ q.control = o.control
             /\ q.doc = o.doc /\ q.hints = o.hints /\ q.sender = o.sender
             /\ q.origin = (IF o.origin = None THEN p.run ELSE o.origin)
             /\ q.evidenceOnly = (o.evidenceOnly \/ o.op \notin Ops(p, d, c)
                                    \/ o.id \notin Numbered(Taken(p, d, c)))
<1> DEFINE a == Stamp(o, p.run)
<1> DEFINE b == o.evidenceOnly \/ o.op \notin Ops(p, d, c)
                  \/ o.id \notin Numbered(Taken(p, d, c))
<1>1. /\ a \in Observation /\ a.id = o.id /\ a.op = o.op
      /\ a.input = o.input /\ a.phase = o.phase /\ a.outcome = o.outcome
      /\ a.control = o.control /\ a.evidenceOnly = o.evidenceOnly
      /\ a.doc = o.doc /\ a.hints = o.hints /\ a.sender = o.sender
      /\ a.origin = (IF o.origin = None THEN p.run ELSE o.origin)
  BY StampIs
<1>2. Cited(o, p, d, c) = [a EXCEPT !.evidenceOnly = b]
  BY <1>1 DEF Cited
<1>3. b \in BOOLEAN
  OBVIOUS
<1> HIDE DEF a, b
<1>4. LET q == [a EXCEPT !.evidenceOnly = b]
      IN  /\ q \in Observation /\ q.id = o.id /\ q.op = o.op
          /\ q.input = o.input /\ q.phase = o.phase /\ q.outcome = o.outcome
          /\ q.control = o.control
          /\ q.doc = o.doc /\ q.hints = o.hints /\ q.sender = o.sender
          /\ q.origin = (IF o.origin = None THEN p.run ELSE o.origin)
          /\ q.evidenceOnly = b
  BY <1>1, <1>3 DEF Observation
<1> QED  BY <1>2, <1>4 DEF b

\* A verdict that is taken over is of the new plan.
LEMMA RenewedIs ==
  ASSUME NEW p, p.run \in Nat, NEW d \in Documents, NEW c \in Configs, NEW v \in Verdict
  PROVE  LET w == Renewed(v, p, d, c)
         IN  /\ w \in Verdict /\ w.op = v.op /\ w.state = v.state /\ w.origin # None
             /\ w.signature = planSignature(v.op, d, c)
<1> DEFINE a == Stamp(v, p.run)
<1> DEFINE g == planSignature(v.op, d, c)
<1>1. a \in Verdict /\ a.op = v.op /\ a.state = v.state /\ a.origin # None
  BY StampIs
<1>2. g \in PlanSignature
  BY DEF PlanSignature, Verdict
<1>3. Renewed(v, p, d, c) = [a EXCEPT !.signature = g]
  BY DEF Renewed
<1> HIDE DEF a, g
<1>4. LET w == [a EXCEPT !.signature = g]
      IN  /\ w \in Verdict /\ w.op = v.op /\ w.state = v.state /\ w.origin # None
          /\ w.signature = g
  BY <1>1, <1>2 DEF Verdict
<1> QED  BY <1>3, <1>4 DEF g

Child(p, d, c, r) == Inheriting(Blank(d, c, r), Inheritance(p, d, c))

\* What the child then holds.
LEMMA ChildIs ==
  ASSUME NEW p \in Account, NEW d \in Documents, NEW c \in Configs, NEW r \in Nat,
         NEW t, t = Child(p, d, c, r)
  PROVE  /\ t \in Account /\ t.run = r /\ t.doc = d /\ t.conf = c
         /\ t.deleted = {}
         /\ t.signatures = Contexts(p, d, c)
         /\ t.experiments = Stamped(Taken(p, d, c), p.run)
         /\ t.effects = Effects(p, d, c)
         /\ t.observations = Citations(p, d, c)
         /\ t.rules = Stamped(AnalysisOf(p.rules, Entire(p, d, c)), p.run)
         /\ t.coverage = Renewals(p, d, c)
<1> DEFINE i == Inheritance(p, d, c)
<1> DEFINE X == Stamped(Taken(p, d, c), p.run)
<1> DEFINE O == Citations(p, d, c)
<1> DEFINE R == Stamped(AnalysisOf(p.rules, Entire(p, d, c)), p.run)
<1> DEFINE V == Renewals(p, d, c)
<1> DEFINE F == Effects(p, d, c)
<1> DEFINE g == Contexts(p, d, c)
<1>1. /\ p.run \in Nat /\ p.experiments \subseteq Observation
      /\ p.observations \subseteq Observation /\ p.effects \subseteq Effect
      /\ p.rules \subseteq Rule /\ p.coverage \subseteq Verdict
  BY DEF Account
<1>2. X \subseteq Observation
  BY <1>1, StampIs DEF Taken, Stamped
<1>3. O \subseteq Observation
  BY <1>1, CitedIs DEF Carried, Citations
<1>4. R \subseteq Rule
  BY <1>1, StampIs DEF AnalysisOf, Stamped
<1>5. V \subseteq Verdict
  BY <1>1, RenewedIs DEF AnalysisOf, Renewals
<1>6. F \subseteq Effect
  BY <1>1 DEF Effects
<1>7. g \in [Op -> Signature \cup {None}]
  BY DEF Signature, Contexts
<1>8. /\ i.signatures = [op \in Ops(p, d, c) |-> Context(op, d, c)]
      /\ i.experiments = X /\ i.effects = F /\ i.observations = O
      /\ i.rules = R /\ i.coverage = V
  BY InheritanceIs
<1> HIDE DEF i, X, O, R, V, F
<1> DEFINE b == Blank(d, c, r)
<1>9. /\ b = [run |-> r, doc |-> d, conf |-> c, inherited |-> FALSE,
              signatures |-> [op \in Op |-> None], experiments |-> {},
              effects |-> {}, observations |-> {}, rules |-> {}, coverage |-> {},
              deleted |-> {}]
      /\ \A op \in Op : b.signatures[op] = None
  BY DEF Blank
<1>10. t = [b EXCEPT !.inherited = TRUE, !.observations = @ \cup i.observations,
              !.rules = i.rules, !.coverage = i.coverage,
              !.effects = @ \cup i.effects,
              !.signatures = [op \in Op |-> IF op \in DOMAIN i.signatures
                                            THEN i.signatures[op] ELSE @[op]],
              !.experiments = {o \in @ : o.op \notin DOMAIN i.signatures}
                                \cup i.experiments]
  BY DEF Child, Inheriting, i
<1> HIDE DEF b
<1>11. [op \in Op |-> IF op \in DOMAIN i.signatures
                      THEN i.signatures[op] ELSE b.signatures[op]] = g
  BY <1>8, <1>9 DEF Contexts
<1> HIDE DEF g
<1>12. t = [b EXCEPT !.inherited = TRUE, !.observations = O, !.rules = R,
              !.coverage = V, !.effects = F, !.signatures = g, !.experiments = X]
  <2>1. /\ b.observations \cup i.observations = O
        /\ b.effects \cup i.effects = F
        /\ {o \in b.experiments : o.op \notin DOMAIN i.signatures} \cup i.experiments = X
    BY <1>8, <1>9
  <2> QED  BY <1>8, <1>10, <1>11, <2>1
<1>13. /\ b \in Account /\ b.run = r /\ b.doc = d /\ b.conf = c /\ b.deleted = {}
  <2>1. [op \in Op |-> None] \in [Op -> Signature \cup {None}]
    OBVIOUS
  <2> QED  BY <1>9, <2>1 DEF Account
<1>14. /\ t \in Account /\ t.run = r /\ t.doc = d /\ t.conf = c
       /\ t.deleted = {} /\ t.signatures = g /\ t.experiments = X
       /\ t.effects = F /\ t.observations = O /\ t.rules = R /\ t.coverage = V
  <2>1. t = [run |-> r, doc |-> d, conf |-> c, inherited |-> TRUE, signatures |-> g,
             experiments |-> X, effects |-> F, observations |-> O, rules |-> R,
             coverage |-> V, deleted |-> {}]
    <3> DEFINE none == [op \in Op |-> None]
    <3>1. b = [run |-> r, doc |-> d, conf |-> c, inherited |-> FALSE, signatures |-> none,
               experiments |-> {}, effects |-> {}, observations |-> {}, rules |-> {},
               coverage |-> {}, deleted |-> {}]
      BY <1>9
    <3> HIDE DEF none
    <3> QED  BY <1>12, <3>1
  <2> QED  BY <1>2, <1>3, <1>4, <1>5, <1>6, <1>7, <2>1 DEF Account
<1> QED  BY <1>14 DEF X, O, R, V, F, g

\* What a child holds is whole without the run it came from.
LEMMA ChildWhole ==
  ASSUME NEW p, NEW n, Whole(p, n), Bare(p), NEW d \in Documents, NEW c \in Configs,
         NEW r \in Nat, p.run < r, NEW t, t = Child(p, d, c, r)
  PROVE  Whole(t, n) /\ Bare(t)
<1> DEFINE ops == Ops(p, d, c)
<1> DEFINE T == Taken(p, d, c)
<1>1. /\ p \in Account /\ p.run \in Nat /\ p.experiments \subseteq Observation
      /\ p.observations \subseteq Observation /\ p.effects \subseteq Effect
      /\ p.rules \subseteq Rule /\ p.coverage \subseteq Verdict
  BY DEF Whole, Account
<1>2. /\ t \in Account /\ t.run = r
      /\ t.experiments = {Stamp(o, p.run) : o \in T}
      /\ t.effects = Effects(p, d, c)
      /\ t.observations = {Cited(o, p, d, c) : o \in Carried(p, d, c)}
      /\ t.rules = {Stamp(x, p.run) : x \in AnalysisOf(p.rules, Entire(p, d, c))}
      /\ t.coverage = {Renewed(v, p, d, c) :
                         v \in AnalysisOf(p.coverage, Entire(p, d, c))}
  <2>1. /\ t \in Account /\ t.run = r
        /\ t.experiments = Stamped(Taken(p, d, c), p.run)
        /\ t.effects = Effects(p, d, c)
        /\ t.observations = Citations(p, d, c)
        /\ t.rules = Stamped(AnalysisOf(p.rules, Entire(p, d, c)), p.run)
        /\ t.coverage = Renewals(p, d, c)
    BY <1>1, ChildIs
  <2> QED  BY <2>1 DEF Stamped, Citations, Renewals
<1>3. Entire(p, d, c) \subseteq ops
  BY OpsAre
<1>4. T \subseteq p.experiments /\ \A o \in T : o.op \in ops
  BY DEF Taken
<1>5. /\ Carried(p, d, c) \subseteq p.observations
      /\ \A o \in p.observations : o.op \in ops => o \in Carried(p, d, c)
      /\ \A o \in p.observations, e \in Effects(p, d, c) :
            o.id = e.read => o \in Carried(p, d, c)
  BY DEF Carried, Supporting
<1>6. Effects(p, d, c) \subseteq p.effects /\ \A e \in Effects(p, d, c) : e.op \in ops
  BY DEF Effects
<1> HIDE DEF ops, T
<1>7. ASSUME NEW o \in p.observations
      PROVE  LET q == Cited(o, p, d, c)
             IN  /\ q \in Observation /\ q.id = o.id /\ q.op = o.op
                 /\ q.input = o.input /\ q.outcome = o.outcome
                 /\ q.doc = o.doc /\ q.hints = o.hints /\ q.sender = o.sender
                 /\ q.origin = (IF o.origin = None THEN p.run ELSE o.origin)
  BY <1>1, CitedIs
<1>8. ASSUME NEW o \in T
      PROVE  LET q == Stamp(o, p.run)
             IN  /\ q \in Observation /\ q.id = o.id /\ q.op = o.op
                 /\ q.input = o.input /\ q.phase = o.phase /\ q.outcome = o.outcome
                 /\ q.control = o.control
                 /\ q.doc = o.doc /\ q.hints = o.hints /\ q.sender = o.sender
                 /\ q.origin = (IF o.origin = None THEN p.run ELSE o.origin)
  BY <1>1, <1>4, StampIs
<1>9. ASSUME NEW i, NEW op \in ops, Found(p, i, op) PROVE Found(t, i, op)
  <2>1. PICK o \in p.observations : o.id = i /\ o.op = op
    BY <1>9 DEF Found
  <2>2. Cited(o, p, d, c) \in t.observations
    BY <1>2, <1>5, <2>1
  <2> QED  BY <1>7, <2>1, <2>2 DEF Found
<1>10. Traced(t, n)
  <2>1. ASSUME NEW o \in p.observations \cup p.experiments, NEW q,
               q.id = o.id, q.sender = o.sender,
               q.origin = IF o.origin = None THEN p.run ELSE o.origin
        PROVE  /\ q.id <= n /\ q.sender <= r
               /\ q.origin = IF q.sender = r THEN None ELSE q.sender
    <3>1. /\ o.id <= n /\ o.sender <= p.run /\ o.sender \in Nat
          /\ o.origin = IF o.sender = p.run THEN None ELSE o.sender
      BY <1>1 DEF Whole, Traced, Observation
    <3>2. q.sender <= r /\ q.sender # r
      BY <1>1, <2>1, <3>1
    <3>3. q.origin = q.sender
      BY <2>1, <3>1, NoneAssumption
    <3> QED  BY <2>1, <3>1, <3>2, <3>3
  <2>2. ASSUME NEW q \in t.observations \cup t.experiments
        PROVE  /\ q.id <= n /\ q.sender <= t.run
               /\ q.origin = IF q.sender = t.run THEN None ELSE q.sender
    <3>1. CASE q \in t.observations
      <4>1. PICK o \in Carried(p, d, c) : q = Cited(o, p, d, c)
        BY <1>2, <3>1
      <4> QED  BY <1>2, <1>5, <1>7, <2>1, <4>1
    <3>2. CASE q \in t.experiments
      <4>1. PICK o \in T : q = Stamp(o, p.run)
        BY <1>2, <3>2
      <4> QED  BY <1>2, <1>4, <1>8, <2>1, <4>1
    <3> QED  BY <3>1, <3>2
  <2>3. ASSUME NEW q \in t.observations, NEW x \in t.observations, q.id = x.id
        PROVE  q.sender = x.sender
    <3>1. PICK a \in Carried(p, d, c) : q = Cited(a, p, d, c)
      BY <1>2
    <3>2. PICK b \in Carried(p, d, c) : x = Cited(b, p, d, c)
      BY <1>2
    <3>3. a.id = b.id /\ q.sender = a.sender /\ x.sender = b.sender
      BY <1>5, <1>7, <2>3, <3>1, <3>2
    <3> QED  BY <1>5, <3>3 DEF Whole, Traced
  <2> QED  BY <2>2, <2>3 DEF Traced
<1>11. Recorded(t)
  <2>1. ASSUME NEW q \in t.experiments
        PROVE  /\ Echoed(t, q)
               /\ q.control = 0 \/ Found(t, q.control, q.op)
               /\ q.phase = "probe" => q.control # 0
    <3>1. PICK o \in T : q = Stamp(o, p.run)
      BY <1>2
    <3>2. /\ Echoed(p, o) /\ o.op \in ops
          /\ o.control = 0 \/ Found(p, o.control, o.op)
          /\ o.phase = "probe" => o.control # 0
      BY <1>4 DEF Whole, Recorded
    <3>3. PICK x \in p.observations :
            /\ x.id = o.id /\ x.op = o.op /\ x.input = o.input
            /\ x.outcome = o.outcome /\ x.doc = o.doc /\ x.hints = o.hints
      BY <3>2 DEF Echoed
    <3>4. Cited(x, p, d, c) \in t.observations
      BY <1>2, <1>5, <3>2, <3>3
    <3>5. Echoed(t, q)
      BY <1>7, <1>8, <3>1, <3>3, <3>4 DEF Echoed
    <3> QED  BY <1>8, <1>9, <3>1, <3>2, <3>5
  <2> QED  BY <2>1 DEF Recorded
<1>12. Seen(t)
  <2>1. ASSUME NEW e \in t.effects
        PROVE  /\ e.op \in DOMAIN Read
               /\ Found(t, e.experiment, e.op) /\ Found(t, e.read, Read[e.op])
    <3>1. /\ e \in Effects(p, d, c) /\ e.op \in ops /\ e.op \in DOMAIN Read
          /\ Found(p, e.experiment, e.op) /\ Found(p, e.read, Read[e.op])
      BY <1>2, <1>6 DEF Whole, Seen
    <3>2. PICK o \in p.observations : o.id = e.read /\ o.op = Read[e.op]
      BY <3>1 DEF Found
    <3>3. Cited(o, p, d, c) \in t.observations
      BY <1>2, <1>5, <3>1, <3>2
    <3>4. Found(t, e.read, Read[e.op])
      BY <1>7, <3>2, <3>3 DEF Found
    <3> QED  BY <1>9, <3>1, <3>4
  <2> QED  BY <2>1 DEF Seen
<1>13. Grounded(t)
  <2>1. ASSUME NEW q \in t.rules
        PROVE  /\ Probed(q) => \A i \in q.evidence : Found(t, i, q.op)
               /\ q.kind = "effect" => q.origin # None \/ q.evidence \subseteq IdsOf(t)
    <3>1. PICK x \in AnalysisOf(p.rules, Entire(p, d, c)) : q = Stamp(x, p.run)
      BY <1>2
    <3>2. x \in p.rules /\ x.op \in ops /\ x \in Rule
      BY <1>1, <1>3 DEF AnalysisOf
    <3>3. /\ q.op = x.op /\ q.kind = x.kind /\ q.evidence = x.evidence
          /\ q.origin # None
      BY <1>1, <3>1, <3>2, StampIs
    <3>4. Probed(x) => \A i \in x.evidence : Found(p, i, x.op)
      BY <3>2 DEF Whole, Grounded
    <3> QED  BY <1>9, <3>2, <3>3, <3>4 DEF Probed
  <2> QED  BY <2>1 DEF Grounded
<1>14. Single(t)
  <2>1. ASSUME NEW x \in t.coverage, NEW y \in t.coverage, x.op = y.op
        PROVE  x = y
    <3>1. PICK v \in AnalysisOf(p.coverage, Entire(p, d, c)) : x = Renewed(v, p, d, c)
      BY <1>2
    <3>2. PICK w \in AnalysisOf(p.coverage, Entire(p, d, c)) : y = Renewed(w, p, d, c)
      BY <1>2
    <3>3. v \in p.coverage /\ w \in p.coverage
      BY DEF AnalysisOf
    <3>4. x.op = v.op /\ y.op = w.op
      BY <1>1, <3>1, <3>2, <3>3, RenewedIs
    <3> QED  BY <2>1, <3>1, <3>2, <3>3, <3>4 DEF Whole, Single
  <2> QED  BY <2>1 DEF Single
<1>15. Bare(t)
  <2>1. ASSUME NEW q \in t.observations \cup t.experiments
        PROVE  Journaled(q) = q
    <3>1. \E o \in p.observations \cup p.experiments : q.input = o.input
      <4>1. CASE q \in t.observations
        BY <1>2, <1>5, <1>7, <4>1
      <4>2. CASE q \in t.experiments
        BY <1>2, <1>4, <1>8, <4>2
      <4> QED  BY <4>1, <4>2
    <3>2. PICK o \in p.observations \cup p.experiments : q.input = o.input
      BY <3>1
    <3>3. o \in Observation /\ Journaled(o) = o /\ q \in Observation
      BY <1>1, <1>2 DEF Bare, Account
    <3>4. o.input \in Redacted => o.input = Withheld
      BY <3>3, JournaledIs DEF Hide
    <3> QED  BY <3>2, <3>3, <3>4 DEF Journaled, Observation
  <2> QED  BY <2>1 DEF Bare
<1> QED  BY <1>2, <1>10, <1>11, <1>12, <1>13, <1>14, <1>15 DEF Whole

\* And steady: what was of the old context of a compatible operation is of the
\* new one, and what is still complete was earned.
LEMMA ChildSteady ==
  ASSUME NEW p, NEW n, Whole(p, n), Bare(p), NEW d \in Documents, NEW c \in Configs,
         NEW r \in Nat, p.run < r, NEW t, t = Child(p, d, c, r), Steady(p)
  PROVE  Steady(t)
<1> DEFINE ops == Ops(p, d, c)
<1> DEFINE T == Taken(p, d, c)
<1>1. /\ p \in Account /\ p.run \in Nat /\ p.experiments \subseteq Observation
      /\ p.observations \subseteq Observation /\ p.effects \subseteq Effect
      /\ p.rules \subseteq Rule /\ p.coverage \subseteq Verdict
  BY DEF Whole, Account
<1>2. /\ t.doc = d /\ t.conf = c /\ t.signatures = Contexts(p, d, c)
      /\ t.experiments = {Stamp(o, p.run) : o \in T}
      /\ t.effects = Effects(p, d, c)
      /\ t.observations = {Cited(o, p, d, c) : o \in Carried(p, d, c)}
      /\ t.rules = {Stamp(x, p.run) : x \in AnalysisOf(p.rules, Entire(p, d, c))}
      /\ t.coverage = {Renewed(v, p, d, c) :
                         v \in AnalysisOf(p.coverage, Entire(p, d, c))}
  <2>1. /\ t.doc = d /\ t.conf = c /\ t.signatures = Contexts(p, d, c)
        /\ t.experiments = Stamped(Taken(p, d, c), p.run)
        /\ t.effects = Effects(p, d, c)
        /\ t.observations = Citations(p, d, c)
        /\ t.rules = Stamped(AnalysisOf(p.rules, Entire(p, d, c)), p.run)
        /\ t.coverage = Renewals(p, d, c)
    BY <1>1, ChildIs
  <2> QED  BY <2>1 DEF Stamped, Citations, Renewals
<1>3. /\ Entire(p, d, c) \subseteq ops /\ ops \subseteq Op
      /\ \A op \in ops : Context(op, p.doc, p.conf) = Context(op, d, c)
  BY OpsAre DEF Compatible
<1>4. T \subseteq p.experiments /\ \A o \in T : o.op \in ops /\ reusable(o)
  BY DEF Taken
<1>5. /\ Carried(p, d, c) \subseteq p.observations
      /\ \A o \in p.observations : o.op \in ops => o \in Carried(p, d, c)
      /\ \A o \in p.observations, e \in Effects(p, d, c) :
            o.id = e.read => o \in Carried(p, d, c)
  BY DEF Carried, Supporting
<1>6. Effects(p, d, c) \subseteq p.effects /\ \A e \in Effects(p, d, c) : e.op \in ops
  BY DEF Effects
<1>0. \A op \in ops : Contexts(p, d, c)[op] = Context(op, d, c)
  BY <1>3 DEF Contexts
<1> HIDE DEF ops, T
<1>7. ASSUME NEW o \in p.observations
      PROVE  LET q == Cited(o, p, d, c)
             IN  /\ q.id = o.id /\ q.op = o.op /\ q.doc = o.doc /\ q.hints = o.hints
                 /\ o.evidenceOnly \/ o.op \notin ops => q.evidenceOnly
  <2>1. /\ Cited(o, p, d, c).id = o.id /\ Cited(o, p, d, c).op = o.op
        /\ Cited(o, p, d, c).doc = o.doc /\ Cited(o, p, d, c).hints = o.hints
    BY <1>1, CitedIs
  <2>2. Cited(o, p, d, c).evidenceOnly
          = (o.evidenceOnly \/ o.op \notin Ops(p, d, c)
               \/ o.id \notin Numbered(Taken(p, d, c)))
    BY <1>1, CitedIs
  <2> QED  BY <2>1, <2>2 DEF ops
<1>8. ASSUME NEW o \in T
      PROVE  LET q == Stamp(o, p.run)
             IN  /\ q.op = o.op /\ q.input = o.input /\ q.outcome = o.outcome
                 /\ q.control = o.control /\ q.doc = o.doc /\ q.hints = o.hints
  BY <1>1, <1>4, StampIs
<1>9. ASSUME NEW op \in ops, NEW o, Current(p, o), Depends[o.op] \subseteq Depends[op],
             NEW q, q.op = o.op, q.doc = o.doc, q.hints = o.hints
      PROVE  Current(t, q)
  <2>1. \A x \in Depends[op] : p.doc[x] = d[x] /\ p.conf.hints[x] = c.hints[x]
    BY <1>3, SameContext
  <2>2. \A x \in Depends[o.op] : o.doc[x] = p.doc[x] /\ o.hints[x] = p.conf.hints[x]
    BY <1>9 DEF Current
  <2> QED  BY <1>2, <1>9, <2>1, <2>2 DEF Current
<1>10. ASSUME NEW i, NEW op \in ops, FoundNow(p, i, op) PROVE FoundNow(t, i, op)
  <2>1. PICK o \in p.observations : o.id = i /\ o.op = op /\ Current(p, o)
    BY <1>10 DEF FoundNow
  <2>2. Cited(o, p, d, c) \in t.observations
    BY <1>2, <1>5, <2>1
  <2>3. Current(t, Cited(o, p, d, c))
    BY <1>7, <1>9, <2>1
  <2> QED  BY <1>7, <2>1, <2>2, <2>3 DEF FoundNow
<1>11. Fresh(t)
  <2>1. ASSUME NEW q \in t.observations PROVE q.evidenceOnly \/ Current(t, q)
    <3>1. PICK o \in Carried(p, d, c) : q = Cited(o, p, d, c)
      BY <1>2
    <3>2. o \in p.observations /\ (o.evidenceOnly \/ Current(p, o))
      BY <1>5 DEF Steady, Fresh
    <3>3. CASE o.evidenceOnly \/ o.op \notin ops
      BY <1>7, <3>1, <3>2, <3>3
    <3>4. CASE Current(p, o) /\ o.op \in ops
      BY <1>7, <1>9, <3>1, <3>2, <3>4
    <3> QED  BY <3>2, <3>3, <3>4
  <2>2. ASSUME NEW q \in t.experiments
        PROVE  /\ Current(t, q) /\ t.signatures[q.op] = HeldContext(t, q.op)
               /\ q.control = 0 \/ FoundNow(t, q.control, q.op)
    <3>1. PICK o \in T : q = Stamp(o, p.run)
      BY <1>2
    <3>2. /\ o.op \in ops /\ Current(p, o)
          /\ o.control = 0 \/ FoundNow(p, o.control, o.op)
      BY <1>4 DEF Steady, Fresh
    <3>3. Current(t, q)
      BY <1>8, <1>9, <3>1, <3>2
    <3>4. t.signatures[q.op] = HeldContext(t, q.op)
      BY <1>0, <1>2, <1>8, <3>1, <3>2 DEF HeldContext
    <3> QED  BY <1>8, <1>10, <3>1, <3>2, <3>3, <3>4
  <2>3. ASSUME NEW e \in t.effects
        PROVE  /\ t.signatures[e.op] = HeldContext(t, e.op)
               /\ FoundNow(t, e.experiment, e.op) /\ FoundNow(t, e.read, Read[e.op])
    <3>1. /\ e \in Effects(p, d, c) /\ e.op \in ops /\ e.op \in DOMAIN Read
          /\ FoundNow(p, e.experiment, e.op) /\ FoundNow(p, e.read, Read[e.op])
      BY <1>2, <1>6 DEF Whole, Seen, Steady, Fresh
    <3>2. PICK o \in p.observations :
            o.id = e.read /\ o.op = Read[e.op] /\ Current(p, o)
      BY <3>1 DEF FoundNow
    <3>3. Cited(o, p, d, c) \in t.observations
      BY <1>2, <1>5, <3>1, <3>2
    <3>4. Depends[o.op] \subseteq Depends[e.op]
      BY <3>1, <3>2, ReadAssumption
    <3>5. Current(t, Cited(o, p, d, c))
      BY <1>7, <1>9, <3>1, <3>2, <3>4
    <3>6. FoundNow(t, e.read, Read[e.op])
      BY <1>7, <3>2, <3>3, <3>5 DEF FoundNow
    <3>7. t.signatures[e.op] = HeldContext(t, e.op)
      BY <1>0, <1>2, <3>1 DEF HeldContext
    <3> QED  BY <1>10, <3>1, <3>6, <3>7
  <2> QED  BY <2>1, <2>2, <2>3 DEF Fresh
<1>12. FreshRules(t)
  <2>1. ASSUME NEW q \in t.rules
        PROVE  /\ Probed(q) => \A i \in q.evidence : FoundNow(t, i, q.op)
               /\ q.origin # None
    <3>1. PICK x \in AnalysisOf(p.rules, Entire(p, d, c)) : q = Stamp(x, p.run)
      BY <1>2
    <3>2. x \in p.rules /\ x.op \in ops /\ x \in Rule
      BY <1>1, <1>3 DEF AnalysisOf
    <3>3. /\ q.op = x.op /\ q.kind = x.kind /\ q.evidence = x.evidence
          /\ q.origin # None
      BY <1>1, <3>1, <3>2, StampIs
    <3>4. Probed(x) => \A i \in x.evidence : FoundNow(p, i, x.op)
      BY <3>2 DEF Steady, FreshRules
    <3> QED  BY <1>10, <3>2, <3>3, <3>4 DEF Probed
  <2> QED  BY <2>1 DEF FreshRules
<1>13. ASSUME ByField PROVE Earned(t)
  <2>1. SUFFICES ASSUME NEW w \in t.coverage, w.state = "complete",
                        NEW x \in w.signature[2]
                 PROVE  \E o \in t.experiments :
                          /\ o.op = w.op /\ Classified(o)
                          /\ o.input \in IF w.origin = None
                                         THEN {x, Hide(x)} ELSE {x} \ Redacted
    BY DEF Earned
  <2>2. PICK v \in AnalysisOf(p.coverage, Entire(p, d, c)) : w = Renewed(v, p, d, c)
    BY <1>2
  <2>3. v \in p.coverage /\ v \in Verdict /\ v.op \in Entire(p, d, c) /\ v.op \in ops
    BY <1>1, <1>3 DEF AnalysisOf
  <2>4. /\ w.op = v.op /\ v.state = "complete" /\ w.origin # None
        /\ w.signature = planSignature(v.op, d, c)
    <3>1. /\ w.op = v.op /\ w.state = v.state /\ w.origin # None
          /\ w.signature = planSignature(v.op, d, c)
      BY <1>1, <2>2, <2>3, RenewedIs
    <3> QED  BY <2>1, <3>1
  <2>5. Enough(p, v.op, c)
    BY <2>3, OpsAre
  <2>6. v.signature = planSignature(v.op, p.doc, p.conf) /\ p.conf.domains = c.domains
    <3>1. PICK u \in Of(p.coverage, v.op) : u.signature = planSignature(v.op, p.doc, p.conf)
      BY <2>5 DEF Enough
    <3>2. u = v
      BY <2>3, <3>1 DEF Whole, Single, Of
    <3> QED  BY <2>5, <3>1, <3>2 DEF Enough
  <2>7. v.signature[2] = w.signature[2]
    BY <2>4, <2>6 DEF planSignature
  <2>8. PICK o \in p.experiments :
          /\ o.op = v.op /\ Classified(o)
          /\ o.input \in IF v.origin = None THEN {x, Hide(x)} ELSE {x} \ Redacted
    BY <1>13, <2>1, <2>3, <2>4, <2>7 DEF Steady, Earned
  <2>9. reusable(o)
    BY <2>5, <2>8 DEF Enough, Of
  <2>10. o \in T
    BY <2>3, <2>8, <2>9 DEF T, Taken, ops
  <2>11. o.input = x /\ x \notin Redacted
    <3>1. o.input # Withheld
      BY <2>9 DEF reusable
    <3>2. o \in Observation /\ Journaled(o) = o
      BY <1>1 DEF Bare
    <3>3. Hide(o.input) = o.input
      BY <3>2, JournaledIs
    <3> QED  BY <2>8, <3>1, <3>3 DEF Hide
  <2>12. Stamp(o, p.run) \in t.experiments
    BY <1>2, <2>10
  <2> QED  BY <1>8, <2>4, <2>8, <2>10, <2>11, <2>12 DEF Classified
<1> QED  BY <1>11, <1>12, <1>13 DEF Steady

------------------------------------------------------------------------------
(* The beginning of runs *)

\* What a history chooses from is known.
LEMMA Chosen ==
  ASSUME history \in DOMAIN Histories
  PROVE  /\ chosen.documents \subseteq Documents /\ chosen.configs \subseteq Configs
         /\ chosen.outcomes \subseteq Outcome
         /\ chosen.doc \in Documents /\ chosen.conf \in Configs
BY HistoryAssumption DEF chosen, Documents, Configs, Outcome

\* Nothing is known at first, and nothing is wrong with it.
LEMMA BlankIs ==
  ASSUME NEW d \in Documents, NEW c \in Configs, NEW r \in Nat, NEW n,
         NEW b, b = Blank(d, c, r)
  PROVE  /\ Whole(b, n) /\ Bare(b) /\ Steady(b) /\ Mirrors(b, b)
         /\ b.run = r /\ b.doc = d /\ b.conf = c /\ b.coverage = {}
         /\ Replay(<<RunEvent(d, c, r)>>) = b
         /\ IsList(<<RunEvent(d, c, r)>>) /\ <<RunEvent(d, c, r)>> # <<>>
<1>1. [op \in Op |-> None] \in [Op -> Signature \cup {None}]
  OBVIOUS
<1>2. b \in Account
  BY <1>1 DEF Blank, Account
<1>3. /\ b.run = r /\ b.doc = d /\ b.conf = c /\ b.observations = {}
      /\ b.experiments = {} /\ b.effects = {} /\ b.rules = {} /\ b.coverage = {}
  BY DEF Blank
<1>4. Whole(b, n)
  BY <1>2, <1>3 DEF Whole, Traced, Recorded, Seen, Grounded, Single
<1>5. Bare(b) /\ Steady(b)
  BY <1>3 DEF Bare, Steady, Fresh, FreshRules, Earned
<1>6. Mirrors(b, b)
  BY <1>3 DEF Mirrors, Kept
<1>7. Replay(<<RunEvent(d, c, r)>>) = b
  <2> DEFINE e == RunEvent(d, c, r)
  <2>1. Apply(None, e) = b
    BY DEF Apply, RunEvent
  <2> HIDE DEF e
  <2>2. Replay(<<e>>) = Apply(None, e)
    BY ReplayOne
  <2> QED  BY <2>1, <2>2 DEF e
<1> QED  BY <1>3, <1>4, <1>5, <1>6, <1>7, ReplayOne

LEMMA InitSound ==
  Init => Sound /\ AllSteady
<1> SUFFICES ASSUME Init PROVE Sound /\ AllSteady
  OBVIOUS
<1>1. chosen.doc \in Documents /\ chosen.conf \in Configs
  <2>1. history \in DOMAIN Histories
    BY DEF Init
  <2> QED  BY <2>1, Chosen
<1>2. /\ run = 1 /\ sent = 0 /\ base = 0 /\ at = "next" /\ parent = <<>>
      /\ mem = Blank(chosen.doc, chosen.conf, 1) /\ todo = Order
      /\ journal = <<RunEvent(chosen.doc, chosen.conf, 1)>>
      /\ history \in DOMAIN Histories
  BY DEF Init
<1>3. /\ Whole(mem, sent) /\ Bare(mem) /\ Steady(mem) /\ Mirrors(mem, mem)
      /\ mem.run = 1 /\ Replay(journal) = mem /\ IsList(journal) /\ journal # <<>>
  BY <1>1, <1>2, BlankIs
<1>4. Numbers
  BY <1>2, OrderAssumption DEF Numbers, NoBaseline
<1>5. Files
  BY <1>2, <1>3 DEF Files, IsList
<1>6. Accounts
  BY <1>2, <1>3 DEF Accounts
<1>7. Stages
  BY <1>2 DEF Stages
<1>8. AllSteady
  BY <1>2, <1>3 DEF AllSteady
<1> QED  BY <1>4, <1>5, <1>6, <1>7, <1>8 DEF Sound

\* Nothing happens to a step that only moves on, or loses the process.
LEMMA IdleSound ==
  ASSUME Sound, UNCHANGED <<journal, parent, run, sent, history>>,
         \/ UNCHANGED <<mem, base, at>> /\ at \in {"off", "next"} /\ todo' \in Seq(Op)
         \/ Ended
         \/ UNCHANGED vars
  PROVE  Sound' /\ (AllSteady => AllSteady')
<1>1. CASE UNCHANGED vars
  BY <1>1 DEF vars, Sound, Numbers, Files, Accounts, Stages, AllSteady, Running
<1>2. CASE UNCHANGED <<mem, base, at>> /\ at \in {"off", "next"} /\ todo' \in Seq(Op)
  BY <1>2 DEF Sound, Numbers, Files, Accounts, Stages, AllSteady, Running
<1>3. CASE Ended
  <2>1. /\ mem' = None /\ at' = "off" /\ todo' = <<>> /\ base' = 0
    BY <1>3 DEF Ended
  <2>2. todo' \in Seq(Op)
    BY <2>1
  <2> QED  BY <2>1, <2>2
       DEF Sound, Numbers, Files, Accounts, Stages, AllSteady, Running, NoBaseline
<1> QED  BY <1>1, <1>2, <1>3

LEMMA SkipSound ==
  ASSUME Sound, Skip, UNCHANGED history
  PROVE  Sound' /\ (AllSteady => AllSteady')
<1>1. /\ at = "next" /\ todo # <<>> /\ todo' = Tail(todo)
      /\ UNCHANGED <<journal, parent, run, mem, at, base, sent>>
  BY DEF Skip
<1>2. todo' \in Seq(Op)
  BY <1>1 DEF Sound, Numbers
<1> QED  BY <1>1, <1>2, IdleSound

LEMMA CrashSound ==
  ASSUME Sound, Crash, UNCHANGED history
  PROVE  Sound' /\ (AllSteady => AllSteady')
BY IdleSound DEF Crash

\* A child begins with nothing, and with a run that is done to inherit from.
LEMMA StartChildSound ==
  ASSUME Sound, UNCHANGED history, NEW d \in Documents, NEW c \in Configs,
         StartChild(d, c)
  PROVE  Sound' /\ (AllSteady => AllSteady')
<1> DEFINE b == Blank(d, c, run + 1)
<1>1. /\ at = "off" /\ at' = "start" /\ run' = run + 1 /\ mem' = b
      /\ journal' = <<RunEvent(d, c, run + 1)>>
      /\ parent' = IF Loadable(journal, parent # <<>>) THEN journal ELSE parent
      /\ UNCHANGED <<todo, base, sent>>
  BY DEF StartChild
<1>2. run \in Nat /\ run + 1 \in Nat /\ sent \in Nat
  BY DEF Sound, Numbers
<1>3. /\ Whole(b, sent) /\ Bare(b) /\ Steady(b) /\ Mirrors(b, b)
      /\ b.run = run + 1 /\ b.doc = d /\ b.conf = c
      /\ Replay(journal') = b /\ IsList(journal') /\ journal' # <<>>
  <2> DEFINE j == <<RunEvent(d, c, run + 1)>>
  <2>1. /\ Whole(b, sent) /\ Bare(b) /\ Steady(b) /\ Mirrors(b, b)
        /\ b.run = run + 1 /\ b.doc = d /\ b.conf = c
        /\ Replay(j) = b /\ IsList(j) /\ j # <<>>
    BY <1>2, BlankIs
  <2> QED  BY <1>1, <2>1
<1> HIDE DEF b
<1>4. /\ parent' # <<>> /\ IsList(parent')
      /\ Whole(Replay(parent'), sent) /\ Bare(Replay(parent'))
      /\ Replay(parent').run < run + 1
      /\ AllSteady => Steady(Replay(parent'))
  <2>1. CASE Loadable(journal, parent # <<>>)
    <3>1. parent' = journal
      BY <1>1, <2>1
    <3>2. /\ journal # <<>> /\ IsList(journal) /\ Whole(Replay(journal), sent)
          /\ Bare(Replay(journal)) /\ Replay(journal).run = run
          /\ AllSteady => Steady(Replay(journal))
      BY DEF Sound, Files, Accounts, IsList, AllSteady
    <3> QED  BY <1>2, <3>1, <3>2
  <2>2. CASE ~Loadable(journal, parent # <<>>)
    <3>1. parent' = parent
      BY <1>1, <2>2
    <3>2. journal # <<>>
      BY DEF Sound, Files
    <3>3. parent # <<>>
      BY <2>2, <3>2 DEF Loadable
    <3>4. /\ IsList(parent) /\ Whole(Replay(parent), sent)
          /\ Bare(Replay(parent)) /\ Replay(parent).run < run
          /\ AllSteady => Steady(Replay(parent))
      BY <3>3 DEF Sound, Files, Accounts, IsList, AllSteady
    <3>5. Replay(parent).run \in Nat
      BY <3>4 DEF Whole, Account
    <3> QED  BY <1>2, <3>1, <3>3, <3>4, <3>5
  <2> QED  BY <2>1, <2>2
<1>5. Numbers'
  BY <1>1, <1>2 DEF Sound, Numbers
<1>6. Files'
  BY <1>3, <1>4 DEF Files, IsList
<1>7. Accounts'
  BY <1>1, <1>3, <1>4 DEF Accounts
<1>8. Stages'
  BY <1>1, <1>3, <1>4 DEF Stages, b
<1>9. AllSteady => AllSteady'
  BY <1>1, <1>3, <1>4 DEF AllSteady
<1> QED  BY <1>5, <1>6, <1>7, <1>8, <1>9 DEF Sound

\* It takes over what it can use.
LEMMA InheritSound ==
  ASSUME Sound, UNCHANGED history, Inherit
  PROVE  Sound' /\ (AllSteady => AllSteady')
<1> DEFINE p == Replay(parent)
<1> DEFINE d == mem.doc
<1> DEFINE c == mem.conf
<1> DEFINE i == Inheritance(p, d, c)
<1> DEFINE t == Child(p, d, c, run)
<1> DEFINE e == [kind |-> "inheritance", state |-> i]
<1>1. /\ at = "start" /\ at' = "next" /\ todo' = Order
      /\ UNCHANGED <<parent, run, base, sent>>
  BY DEF Inherit
<1>2. /\ parent # <<>> /\ mem = Blank(d, c, run) /\ Whole(mem, sent)
      /\ Replay(journal) = mem /\ run \in Nat /\ IsList(journal)
      /\ Whole(p, sent) /\ Bare(p) /\ p.run < run
      /\ AllSteady => Steady(p)
  BY <1>1 DEF Sound, Numbers, Files, Accounts, Stages, Running, AllSteady, IsList
<1>3. d \in Documents /\ c \in Configs
  BY <1>2 DEF Whole, Account
<1>4. Inheriting(mem, i) = t
  BY <1>2 DEF Child
<1>5. journal' = Append(Append(journal, e), Report(t)) /\ mem' = t
  <2>1. /\ journal' = journal \o <<e, Report(Inheriting(mem, i))>>
        /\ mem' = Inheriting(mem, i)
    BY DEF Inherit
  <2> HIDE DEF e, i, t
  <2> QED  BY <1>2, <1>4, <2>1, JoinFew
<1>6. Whole(t, sent) /\ Bare(t) /\ (AllSteady => Steady(t))
  BY <1>2, <1>3, ChildWhole, ChildSteady
<1>7. /\ IsList(journal') /\ journal' # <<>> /\ Replay(journal') = t
  <2>1. /\ IsList(Append(journal, e))
        /\ Replay(Append(journal, e)) = Apply(mem, e)
    <3> HIDE DEF e
    <3> QED  BY <1>2, ReplayAppend
  <2>2. Apply(mem, e) = t
    <3> HIDE DEF i, t
    <3>1. Apply(mem, e) = Inheriting(mem, i)
      BY DEF Apply
    <3> QED  BY <1>4, <3>1
  <2> DEFINE k == Append(journal, e)
  <2> HIDE DEF e, t, k
  <2>3. IsList(k) /\ Replay(k) = t
    BY <2>1, <2>2 DEF k
  <2>4. /\ IsList(Append(k, Report(t))) /\ Append(k, Report(t)) # <<>>
        /\ Replay(Append(k, Report(t))) = Apply(t, Report(t))
    BY <2>3, ReplayAppend
  <2>5. Apply(t, Report(t)) = t
    <3>1. Apply(t, Report(t)) = [t EXCEPT !.rules = t.rules, !.coverage = t.coverage]
      BY Applied
    <3> QED  BY <1>6, <3>1 DEF Whole, Account
  <2> QED  BY <1>5, <2>4, <2>5 DEF k
<1>8. Mirrors(t, t) /\ t.run = run
  <2>1. mem \in Account /\ p \in Account /\ t \in Account
    BY <1>2, <1>6 DEF Whole
  <2>2. t.run = run
    BY <1>2, <1>3, <2>1, ChildIs
  <2>3. t.observations = Kept(t.observations) /\ t.experiments = Kept(t.experiments)
    <3> HIDE DEF t
    <3> QED  BY <1>6 DEF Bare, Kept
  <2> HIDE DEF t
  <2> QED  BY <2>2, <2>3 DEF Mirrors
<1> HIDE DEF t, p
<1>9. Numbers'
  BY <1>1, OrderAssumption DEF Sound, Numbers
<1>10. Files'
  BY <1>1, <1>7 DEF Files, IsList, Sound
<1>11. Accounts'
  BY <1>1, <1>2, <1>5, <1>6, <1>7, <1>8 DEF Accounts, p
<1>12. Stages'
  BY <1>1 DEF Stages
<1>13. AllSteady => AllSteady'
  BY <1>1, <1>2, <1>5, <1>6, <1>7 DEF AllSteady, p
<1> QED  BY <1>9, <1>10, <1>11, <1>12, <1>13 DEF Sound

\* A resumed run knows what its journal tells, and may have new settings.
LEMMA ResumeSound ==
  ASSUME Sound, UNCHANGED history, NEW c \in Configs, Resume(c)
  PROVE  Sound' /\ (AllSteady /\ HintsKept => AllSteady')
<1> DEFINE s == Replay(journal)
<1> DEFINE x == Owned(s)
<1> DEFINE k == journal \o Deleted(x)
<1> DEFINE e == [kind |-> "resumed", conf |-> c]
<1> DEFINE u == [s EXCEPT !.conf = c, !.deleted = @ \cup x]
<1>1. /\ at = "off" /\ at' = "next" /\ todo' = Order /\ mem' = u
      /\ journal' = k \o <<e>>
      /\ UNCHANGED <<parent, run, base, sent>>
  BY DEF Resume
<1>2. /\ journal # <<>> /\ IsList(journal) /\ Whole(s, sent) /\ Bare(s) /\ s.run = run
      /\ s \in Account /\ sent \in Nat
      /\ AllSteady => Steady(s)
  BY DEF Sound, Numbers, Files, Accounts, IsList, AllSteady, Whole
<1>3. x \in SUBSET Nat
  <2>1. \A o \in s.observations : o.id \in Nat
    BY <1>2 DEF Account, Observation
  <2> HIDE DEF s
  <2> QED  BY <2>1 DEF Owned
<1>4. IsList(journal') /\ journal' # <<>> /\ Replay(journal') = u
  <2>1. /\ IsList(k) /\ Replay(k) = [s EXCEPT !.deleted = @ \cup x]
    BY <1>2, ReplayDeleted
  <2>2. k \o <<e>> = Append(k, e)
    <3> HIDE DEF k, e
    <3> QED  BY <2>1, JoinFew
  <2>3. /\ IsList(Append(k, e)) /\ Append(k, e) # <<>>
        /\ Replay(Append(k, e)) = Apply(Replay(k), e)
    <3> HIDE DEF k, e
    <3> QED  BY <2>1, ReplayAppend
  <2>4. Apply(Replay(k), e) = [Replay(k) EXCEPT !.conf = c]
    <3> HIDE DEF k
    <3> QED  BY DEF Apply
  <2>5. [[s EXCEPT !.deleted = @ \cup x] EXCEPT !.conf = c] = u
    <3> HIDE DEF s, x
    <3> QED  BY <1>2 DEF Account
  <2> HIDE DEF k, e, u, s
  <2> QED  BY <1>1, <2>1, <2>2, <2>3, <2>4, <2>5
<1> HIDE DEF s, x, k, e
<1>5. /\ u \in Account /\ u.run = s.run /\ u.doc = s.doc /\ u.conf = c
      /\ u.observations = s.observations /\ u.experiments = s.experiments
      /\ u.effects = s.effects /\ u.rules = s.rules /\ u.coverage = s.coverage
      /\ u.signatures = s.signatures
  BY <1>2, <1>3 DEF Account
<1> HIDE DEF u
<1>6. Whole(u, sent) /\ Bare(u)
  BY <1>2, <1>5, WholeLess DEF Bare
<1>7. Mirrors(u, u)
  <2>1. u.observations = Kept(u.observations) /\ u.experiments = Kept(u.experiments)
    BY <1>6 DEF Bare, Kept
  <2> QED  BY <2>1 DEF Mirrors
<1>8. ASSUME AllSteady, HintsKept PROVE Steady(u)
  <2>1. u.conf.hints = s.conf.hints /\ Steady(s)
    BY <1>1, <1>2, <1>8 DEF HintsKept, s
  <2>2. Fresh(u)
    BY <1>5, <2>1, FreshGrows DEF Steady
  <2>3. FreshRules(u)
    BY <1>5, <2>1, RulesGrow DEF Steady
  <2>4. Earned(s) => Earned(u)
    BY <1>5, EarnedGrows
  <2> QED  BY <2>1, <2>2, <2>3, <2>4 DEF Steady
<1>9. Numbers'
  BY <1>1, OrderAssumption DEF Sound, Numbers
<1>10. Files'
  BY <1>1, <1>4 DEF Files, IsList, Sound
<1>11. Accounts'
  <2>1. parent # <<>> =>
          /\ Whole(Replay(parent), sent) /\ Bare(Replay(parent))
          /\ Replay(parent).run < run
    BY DEF Sound, Accounts
  <2> QED  BY <1>1, <1>2, <1>4, <1>5, <1>6, <1>7, <2>1 DEF Accounts
<1>12. Stages'
  BY <1>1 DEF Stages
<1>13. AllSteady /\ HintsKept => AllSteady'
  BY <1>1, <1>4, <1>8 DEF AllSteady
<1> QED  BY <1>9, <1>10, <1>11, <1>12, <1>13 DEF Sound

------------------------------------------------------------------------------
(* The inspection of an operation *)

\* A step within a session: whatever the process then holds, the journal
\* tells, and the run to inherit from is as it was.
LEMMA Forward ==
  ASSUME Sound, UNCHANGED <<parent, run, history>>, sent' \in Nat, sent <= sent',
         Numbers', IsList(journal'), journal' # <<>>,
         Whole(Replay(journal'), sent'), Bare(Replay(journal')),
         Replay(journal').run = run,
         at' # "off" => Whole(mem', sent') /\ Mirrors(Replay(journal'), mem'),
         Stages'
  PROVE  Sound'
<1>1. Files'
  BY DEF Files, IsList, Sound
<1>2. parent # <<>> =>
        /\ Whole(Replay(parent), sent') /\ Bare(Replay(parent))
        /\ Replay(parent).run < run
  BY WholeLater DEF Sound, Accounts, Numbers
<1>3. Accounts'
  BY <1>2 DEF Accounts, Running
<1> QED  BY <1>1, <1>3 DEF Sound

\* What is kept of the others are the others of what is kept.
LEMMA KeptOthers ==
  ASSUME NEW S, S \subseteq Observation, NEW op
  PROVE  Kept(Others(S, op)) = Others(Kept(S), op)
<1>1. \A o \in S : Journaled(o).op = o.op
  BY JournaledIs
<1> QED  BY <1>1 DEF Kept, Others, Of

\* The journal tells of a session that has gone on without a report.
LEMMA JournalSteady ==
  ASSUME NEW s, NEW t, NEW m, NEW k, Steady(s), Mirrors(t, m), Whole(m, k), Fresh(m),
         t.effects = m.effects, s.doc = t.doc, s.conf.hints = t.conf.hints,
         s.observations \subseteq t.observations,
         s.experiments \subseteq t.experiments,
         t.rules = s.rules, t.coverage = s.coverage
  PROVE  Steady(t)
<1>1. Fresh(t)
  BY MirrorsFresh
<1>2. FreshRules(t)
  BY RulesGrow DEF Steady
<1>3. Earned(s) => Earned(t)
  BY EarnedGrows
<1> QED  BY <1>1, <1>2, <1>3 DEF Steady

LEMMA BeginSound ==
  ASSUME Sound, UNCHANGED history, Begin
  PROVE  Sound' /\ (AllSteady => AllSteady')
<1> DEFINE op == Head(todo)
<1> DEFINE g == Context(op, mem.doc, mem.conf)
<1> DEFINE s == Replay(journal)
<1> DEFINE q == [mem EXCEPT !.rules = Others(@, op), !.coverage = Others(@, op)]
<1> DEFINE u == Started([q EXCEPT !.effects = Others(@, op)], op, g)
<1> DEFINE e == [kind |-> "operation-progress", op |-> op, signature |-> g]
<1>1. /\ at = "next" /\ at' = "op" /\ todo # <<>> /\ todo' = todo /\ base' = 0
      /\ UNCHANGED <<parent, run, sent>>
      /\ \/ mem.signatures[op] = g /\ mem' = q /\ journal' = journal
         \/ mem.signatures[op] # g /\ mem' = u /\ journal' = Append(journal, e)
  BY DEF Begin
<1>2. /\ Whole(mem, sent) /\ Mirrors(s, mem) /\ Whole(s, sent) /\ Bare(s)
      /\ s.run = run /\ IsList(journal) /\ journal # <<>> /\ sent \in Nat
      /\ AllSteady => Steady(s) /\ Steady(mem) /\ s.effects = mem.effects
      /\ todo \in Seq(Op)
  BY <1>1 DEF Sound, Numbers, Files, Accounts, IsList, AllSteady, Running
<1>3. /\ op \in Op /\ mem \in Account /\ s \in Account /\ g \in Signature
      /\ g = HeldContext(mem, op)
  <2>1. op \in Op /\ mem \in Account /\ s \in Account
    BY <1>1, <1>2 DEF Whole
  <2>2. mem.doc \in Documents /\ mem.conf \in Configs
    BY <2>1 DEF Account
  <2> QED  BY <2>1, <2>2 DEF Signature, HeldContext
<1> HIDE DEF op, g, s
<1>4. /\ q \in Account /\ q.run = mem.run /\ q.doc = mem.doc /\ q.conf = mem.conf
      /\ q.observations = mem.observations /\ q.experiments = mem.experiments
      /\ q.effects = mem.effects /\ q.signatures = mem.signatures
      /\ q.rules = Others(mem.rules, op) /\ q.coverage = Others(mem.coverage, op)
      /\ q.deleted = mem.deleted
  <2>1. Others(mem.rules, op) \subseteq mem.rules /\ Others(mem.coverage, op) \subseteq mem.coverage
    BY DEF Others
  <2> QED  BY <1>3, <2>1 DEF Account
<1>5. q.inherited = mem.inherited
  BY <1>3 DEF Account
<1> HIDE DEF q
<1>6. Whole(q, sent) /\ Mirrors(s, q)
  <2>1. Whole(q, sent)
    BY <1>2, <1>4, WholeLess DEF Others
  <2> QED  BY <1>2, <1>4, <1>5, <2>1 DEF Mirrors
<1>7. AllSteady => Steady(q)
  <2>1. Fresh(mem) => Fresh(q)
    BY <1>4, FreshGrows
  <2>2. FreshRules(mem) => FreshRules(q)
    BY <1>4, RulesGrow DEF Others
  <2>3. Earned(mem) => Earned(q)
    BY <1>4, EarnedWithout DEF Others
  <2> QED  BY <1>2, <2>1, <2>2, <2>3 DEF Steady
<1>8. \A v \in q.coverage : v.op # op
  BY <1>4 DEF Others, Of
<1>9. CASE mem.signatures[op] = g /\ mem' = q /\ journal' = journal
  <2>1. Numbers'
    BY <1>1, <1>2 DEF Sound, Numbers, NoBaseline
  <2>2. Stages'
    <3>1. mem'.signatures[op] = HeldContext(mem', op)
      BY <1>3, <1>4, <1>9 DEF HeldContext
    <3> QED  BY <1>1, <1>8, <1>9, <3>1 DEF Stages, op
  <2>3. Sound'
    BY <1>1, <1>2, <1>6, <1>9, <2>1, <2>2, Forward DEF s
  <2>4. AllSteady => AllSteady'
    BY <1>1, <1>2, <1>4, <1>7, <1>9 DEF AllSteady, Running, s
  <2> QED  BY <2>3, <2>4
<1>10. CASE mem.signatures[op] # g /\ mem' = u /\ journal' = Append(journal, e)
  <2> DEFINE t == Started(s, op, g)
  <2>1. IsList(journal') /\ journal' # <<>> /\ Replay(journal') = t
    <3>1. Apply(s, e) = t
      BY DEF Apply
    <3> HIDE DEF e, t
    <3> QED  BY <1>2, <1>10, <3>1, ReplayAppend DEF s
  <2>2. /\ t \in Account /\ t.run = s.run /\ t.doc = s.doc /\ t.conf = s.conf
        /\ t.observations = s.observations /\ t.effects = s.effects
        /\ t.experiments = Others(s.experiments, op)
        /\ t.signatures = [s.signatures EXCEPT ![op] = g]
        /\ t.rules = s.rules /\ t.coverage = s.coverage /\ t.deleted = s.deleted
    BY <1>3 DEF Account, Started, Others
  <2>3. t.inherited = s.inherited
    BY <1>3 DEF Account, Started
  <2>4. /\ u \in Account /\ u.run = q.run /\ u.doc = q.doc /\ u.conf = q.conf
        /\ u.observations = q.observations /\ u.effects = Others(q.effects, op)
        /\ u.experiments = Others(q.experiments, op)
        /\ u.signatures = [q.signatures EXCEPT ![op] = g]
        /\ u.rules = q.rules /\ u.coverage = q.coverage /\ u.deleted = q.deleted
    BY <1>3, <1>4 DEF Account, Started, Others
  <2>5. u.inherited = q.inherited
    BY <1>4 DEF Account, Started
  <2> HIDE DEF t, u
  <2>6. Whole(u, sent)
    BY <1>6, <2>4, WholeLess DEF Others
  <2>7. Mirrors(t, u)
    <3>1. t.experiments = Kept(u.experiments)
      <4>1. q.experiments \subseteq Observation /\ s.experiments = Kept(q.experiments)
        BY <1>4, <1>6 DEF Mirrors, Account
      <4> QED  BY <2>2, <2>4, <4>1, KeptOthers
    <3>2. u.effects \subseteq t.effects
      BY <1>6, <2>2, <2>4 DEF Mirrors, Others
    <3>3. t.inherited = u.inherited
      BY <1>6, <2>3, <2>5 DEF Mirrors
    <3> QED  BY <1>6, <2>2, <2>4, <3>1, <3>2, <3>3 DEF Mirrors
  <2>8. Whole(t, sent) /\ Bare(t)
    BY <1>2, <2>2, <2>6, <2>7, JournalGrows
  <2>9. Numbers'
    BY <1>1, <1>2 DEF Sound, Numbers, NoBaseline
  <2>10. Stages'
    <3>1. u.signatures[op] = g /\ g = HeldContext(u, op)
      BY <1>3, <1>4, <2>4 DEF HeldContext, Account
    <3> QED  BY <1>1, <1>8, <1>10, <2>4, <3>1 DEF Stages, op
  <2>11. Sound'
    BY <1>1, <1>2, <1>10, <2>1, <2>2, <2>6, <2>7, <2>8, <2>9, <2>10, Forward
  <2>12. ASSUME AllSteady PROVE AllSteady'
    <3>1. Steady(s) /\ Fresh(mem) /\ s.effects = mem.effects /\ Steady(q)
      BY <1>2, <1>7, <2>12 DEF Steady
    <3>2. \A o \in mem.experiments : o.op # op
      BY <1>3, <1>10, <3>1 DEF Fresh
    <3>3. \A o \in mem.effects : o.op # op
      BY <1>3, <1>10, <3>1 DEF Fresh
    <3>4. u.experiments = q.experiments /\ u.effects = q.effects
      BY <1>4, <2>4, <3>2, <3>3 DEF Others, Of
    <3>5. /\ \A o \in u.experiments : u.signatures[o.op] = q.signatures[o.op]
          /\ \A o \in u.effects : u.signatures[o.op] = q.signatures[o.op]
      <4>1. \A x \in Op : x # op => u.signatures[x] = q.signatures[x]
        BY <1>4, <2>4 DEF Account
      <4>2. /\ \A o \in mem.experiments : o.op \in Op
            /\ \A o \in mem.effects : o.op \in Op
        BY <1>3 DEF Account, Observation, Effect
      <4> QED  BY <1>4, <3>2, <3>3, <3>4, <4>1, <4>2
    <3>6. Fresh(u)
      BY <2>4, <3>1, <3>4, <3>5, FreshGrows DEF Steady
    <3>7. FreshRules(u)
      BY <2>4, <3>1, RulesGrow DEF Steady
    <3>8. Earned(q) => Earned(u)
      BY <2>4, <3>4, EarnedGrows
    <3>9. Steady(u)
      BY <3>1, <3>6, <3>7, <3>8 DEF Steady
    <3>10. t.effects = u.effects
      BY <1>4, <2>2, <3>1, <3>4
    <3>11. s.experiments \subseteq t.experiments
      <4>1. t.experiments = Kept(u.experiments) /\ s.experiments = Kept(q.experiments)
        BY <1>6, <2>7 DEF Mirrors
      <4> QED  BY <3>4, <4>1
    <3>12. Steady(t)
      BY <2>2, <2>6, <2>7, <3>1, <3>6, <3>10, <3>11, JournalSteady
    <3> QED  BY <1>1, <1>10, <2>1, <2>12, <3>9, <3>10, <3>12 DEF AllSteady, Running
  <2> QED  BY <2>11, <2>12
<1> QED  BY <1>1, <1>9, <1>10

\* A report is read back as it was written.
LEMMA Reported ==
  ASSUME Sound, at # "off", NEW u \in Account, journal' = Append(journal, Report(u)),
         NEW R, NEW V, u = [mem EXCEPT !.rules = R, !.coverage = V],
         R \subseteq Rule, V \subseteq Verdict, Whole(u, sent)
  PROVE  /\ IsList(journal') /\ journal' # <<>>
         /\ Whole(Replay(journal'), sent) /\ Bare(Replay(journal'))
         /\ Replay(journal').run = run /\ Mirrors(Replay(journal'), u)
         /\ Replay(journal').effects = Replay(journal).effects
         /\ Steady(u) /\ Replay(journal).effects = mem.effects => Steady(Replay(journal'))
<1> DEFINE s == Replay(journal)
<1> DEFINE t == Replay(journal')
<1>1. /\ Whole(mem, sent) /\ Mirrors(s, mem) /\ Whole(s, sent) /\ s.run = run
      /\ IsList(journal) /\ mem \in Account /\ s \in Account
  BY DEF Sound, Files, Accounts, IsList, Running, Whole
<1>2. /\ IsList(journal') /\ journal' # <<>>
      /\ t = [s EXCEPT !.rules = u.rules, !.coverage = u.coverage]
  <2> DEFINE e == Report(u)
  <2>1. Apply(s, e) = [s EXCEPT !.rules = u.rules, !.coverage = u.coverage]
    BY DEF Apply, Report
  <2> HIDE DEF e, s
  <2>2. journal' = Append(journal, e)
    BY DEF e
  <2>3. IsList(journal') /\ journal' # <<>> /\ t = Apply(s, e)
    BY <1>1, <2>2, ReplayAppend DEF s
  <2> QED  BY <2>1, <2>3
<1> HIDE DEF s, t
<1>3. /\ u.run = mem.run /\ u.doc = mem.doc /\ u.conf = mem.conf
      /\ u.observations = mem.observations /\ u.experiments = mem.experiments
      /\ u.effects = mem.effects /\ u.signatures = mem.signatures
      /\ u.deleted = mem.deleted /\ u.rules = R /\ u.coverage = V
  BY <1>1 DEF Account
<1>4. /\ t \in Account /\ t.run = s.run /\ t.doc = s.doc /\ t.conf = s.conf
      /\ t.observations = s.observations /\ t.experiments = s.experiments
      /\ t.effects = s.effects /\ t.signatures = s.signatures
      /\ t.deleted = s.deleted /\ t.rules = u.rules /\ t.coverage = u.coverage
  BY <1>1, <1>2, <1>3 DEF Account
<1>5. u.inherited = mem.inherited /\ t.inherited = s.inherited
  BY <1>1, <1>2 DEF Account
<1>6. Mirrors(t, u)
  BY <1>1, <1>3, <1>4, <1>5 DEF Mirrors
<1>7. /\ Whole(t, sent) /\ Bare(t)
      /\ Steady(u) /\ t.effects = u.effects => Steady(t)
  BY <1>1, <1>4, <1>6, JournalReports
<1> QED  BY <1>1, <1>2, <1>3, <1>4, <1>6, <1>7 DEF s, t

\* A probe and its control make a rule that rests on both.
LEMMA RuleOfIs ==
  ASSUME NEW m, NEW n, Whole(m, n), NEW o \in m.experiments, o.phase = "probe"
  PROVE  /\ RuleOf(o) \in Rule /\ RuleOf(o).op = o.op /\ RuleOf(o).kind # "effect"
         /\ \A i \in RuleOf(o).evidence : Found(m, i, o.op)
         /\ Fresh(m) => \A i \in RuleOf(o).evidence : FoundNow(m, i, o.op)
<1>1. /\ o \in Observation /\ Echoed(m, o) /\ o.control # 0
      /\ Found(m, o.control, o.op)
  BY DEF Whole, Account, Recorded
<1>2. RuleOf(o) \in Rule
  <2>1. /\ o.op \in Op /\ o.input \in Input /\ o.id \in Nat /\ o.control \in Nat
        /\ None \in Origin
    BY <1>1 DEF Observation, Origin
  <2> QED  BY <2>1 DEF RuleOf, Rule
<1>3. /\ RuleOf(o).op = o.op /\ RuleOf(o).kind # "effect"
      /\ RuleOf(o).evidence = {o.id, o.control}
  BY DEF RuleOf
<1>4. PICK q \in m.observations :
        q.id = o.id /\ q.op = o.op /\ q.doc = o.doc /\ q.hints = o.hints
  BY <1>1 DEF Echoed
<1>5. Found(m, o.id, o.op)
  BY <1>4 DEF Found
<1>6. ASSUME Fresh(m)
      PROVE  FoundNow(m, o.id, o.op) /\ FoundNow(m, o.control, o.op)
  <2>1. Current(m, o) /\ FoundNow(m, o.control, o.op)
    BY <1>1, <1>6 DEF Fresh
  <2>2. Current(m, q)
    BY <1>4, <2>1 DEF Current
  <2> QED  BY <1>4, <2>1, <2>2 DEF FoundNow
<1> QED  BY <1>1, <1>2, <1>3, <1>5, <1>6

\* What a session concludes rests on what it holds.
LEMMA ConcludeSound ==
  ASSUME Sound, at = "op", UNCHANGED <<parent, run, sent, history>>, todo' \in Seq(Op),
         NEW state \in {"complete", "partial"}, Conclude(Head(todo), state),
         state = "complete" /\ ByField =>
            \A x \in mem.conf.domains : \E o \in mem.experiments :
               o.op = Head(todo) /\ Classified(o) /\ o.input = x
  PROVE  Sound' /\ (AllSteady => AllSteady')
<1> DEFINE op == Head(todo)
<1> DEFINE P == {o \in Of(mem.experiments, op) : o.phase = "probe" /\ reusable(o)}
<1> DEFINE N == {RuleOf(o) : o \in P}
<1> DEFINE entry == [op |-> op, state |-> state, origin |-> None,
                     signature |-> planSignature(op, mem.doc, mem.conf)]
<1> DEFINE R == mem.rules \cup N
<1> DEFINE V == mem.coverage \cup {entry}
<1> DEFINE u == [mem EXCEPT !.rules = R, !.coverage = V]
<1>1. mem' = u /\ journal' = Append(journal, Report(u)) /\ at' = "next" /\ base' = 0
  BY DEF Conclude
<1>2. /\ Whole(mem, sent) /\ mem \in Account /\ mem.run = run /\ op \in Op
      /\ \A v \in mem.coverage : v.op # op
      /\ sent \in Nat
  BY DEF Sound, Numbers, Accounts, Stages, Running, Whole, Mirrors
<1>3. P \subseteq mem.experiments /\ \A o \in P : o.phase = "probe"
  BY DEF Of
<1>4. /\ N \subseteq Rule
      /\ \A r \in N : r.kind # "effect" /\ \A i \in r.evidence : Found(mem, i, r.op)
      /\ Fresh(mem) => \A r \in N : \A i \in r.evidence : FoundNow(mem, i, r.op)
  <2> HIDE DEF P
  <2> QED  BY <1>2, <1>3, RuleOfIs
<1>5. entry \in Verdict /\ entry.op = op /\ entry.state = state /\ entry.origin = None
  <2>1. mem.doc \in Documents /\ mem.conf \in Configs
    BY <1>2 DEF Account
  <2>2. planSignature(op, mem.doc, mem.conf) \in PlanSignature
    BY <1>2, <2>1 DEF PlanSignature
  <2> QED  BY <1>2, <2>2 DEF Verdict, Origin
<1>6. entry.signature[2] = mem.conf.domains
  BY DEF planSignature
<1> HIDE DEF op, P, N, entry
<1>7. /\ R \subseteq Rule /\ V \subseteq Verdict /\ u \in Account
      /\ u.run = mem.run /\ u.doc = mem.doc /\ u.conf = mem.conf
      /\ u.observations = mem.observations /\ u.experiments = mem.experiments
      /\ u.effects = mem.effects /\ u.signatures = mem.signatures
      /\ u.deleted = mem.deleted /\ u.rules = R /\ u.coverage = V
  BY <1>2, <1>4, <1>5 DEF Account
<1> HIDE DEF u
<1>8. Whole(u, sent)
  <2>1. Grounded(u)
    <3>1. \A i, x : Found(u, i, x) <=> Found(mem, i, x)
      BY <1>7 DEF Found
    <3>2. IdsOf(u) = IdsOf(mem)
      BY <1>7 DEF IdsOf
    <3>3. Grounded(mem)
      BY <1>2 DEF Whole
    <3> QED  BY <1>4, <1>7, <3>1, <3>2, <3>3 DEF Grounded
  <2>2. Single(u)
    BY <1>2, <1>5, <1>7 DEF Whole, Single
  <2> QED  BY <1>2, <1>7, <2>1, <2>2, WholeReported
<1>9. ASSUME AllSteady PROVE Steady(u)
  <2>1. Steady(mem)
    BY <1>9 DEF AllSteady, Running
  <2>2. Fresh(u)
    BY <1>7, <2>1, FreshGrows DEF Steady
  <2>3. FreshRules(u)
    <3>1. \A i, x : FoundNow(u, i, x) <=> FoundNow(mem, i, x)
      <4>1. \A o : Current(u, o) <=> Current(mem, o)
        BY <1>7, ContextHeld
      <4> QED  BY <1>7, <4>1 DEF FoundNow
    <3> QED  BY <1>4, <1>7, <2>1, <3>1 DEF Steady, FreshRules
  <2>4. ASSUME ByField PROVE Earned(u)
    <3>1. Earned(mem)
      BY <2>1, <2>4 DEF Steady
    <3>2. SUFFICES ASSUME NEW v \in u.coverage, v.state = "complete",
                          NEW x \in v.signature[2]
                   PROVE  \E o \in u.experiments :
                            /\ o.op = v.op /\ Classified(o)
                            /\ o.input \in IF v.origin = None
                                           THEN {x, Hide(x)} ELSE {x} \ Redacted
      BY DEF Earned
    <3>3. CASE v \in mem.coverage
      BY <1>7, <3>1, <3>2, <3>3 DEF Earned
    <3>4. CASE v = entry
      BY <1>5, <1>6, <1>7, <2>4, <3>2, <3>4 DEF op
    <3> QED  BY <1>7, <3>3, <3>4
  <2> QED  BY <2>2, <2>3, <2>4 DEF Steady
<1>10. /\ IsList(journal') /\ journal' # <<>>
       /\ Whole(Replay(journal'), sent) /\ Bare(Replay(journal'))
       /\ Replay(journal').run = run /\ Mirrors(Replay(journal'), u)
       /\ Replay(journal').effects = Replay(journal).effects
       /\ Steady(u) /\ Replay(journal).effects = mem.effects => Steady(Replay(journal'))
  <2>1. at # "off"
    OBVIOUS
  <2>2. u = [mem EXCEPT !.rules = R, !.coverage = V]
    BY DEF u
  <2>3. journal' = Append(journal, Report(u)) /\ u \in Account
        /\ R \subseteq Rule /\ V \subseteq Verdict
    BY <1>1, <1>7
  <2> HIDE DEF R, V
  <2> QED  BY <1>8, <2>1, <2>2, <2>3, Reported
<1>11. Numbers'
  BY <1>1, <1>2 DEF Sound, Numbers, NoBaseline
<1>12. Stages'
  BY <1>1 DEF Stages
<1>13. Sound'
  BY <1>1, <1>2, <1>7, <1>8, <1>10, <1>11, <1>12, Forward
<1>14. ASSUME AllSteady PROVE AllSteady'
  <2>1. /\ Replay(journal).effects = mem.effects
        /\ parent # <<>> => Steady(Replay(parent))
    BY <1>14 DEF AllSteady, Running
  <2> QED  BY <1>1, <1>7, <1>9, <1>10, <1>14, <2>1 DEF AllSteady, Running
<1> QED  BY <1>13, <1>14

LEMMA FinishSound ==
  ASSUME Sound, UNCHANGED history, Finish
  PROVE  Sound' /\ (AllSteady => AllSteady')
<1> DEFINE op == Head(todo)
<1> DEFINE known == {o.input : o \in {x \in Of(mem.experiments, op) : Classified(x)}}
<1> DEFINE state == IF base > 0 /\ Cases(op, mem.conf) \subseteq known
                    THEN "complete" ELSE "partial"
<1>1. /\ at = "op" /\ Conclude(op, state) /\ todo' = Tail(todo)
      /\ UNCHANGED <<parent, run, sent>>
  BY DEF Finish
<1>2. todo # <<>> /\ todo \in Seq(Op) /\ mem \in Account
  BY <1>1 DEF Sound, Numbers, Stages, Accounts, Running, Whole
<1>3. todo' \in Seq(Op) /\ op \in Op /\ mem.conf \in Configs
  BY <1>1, <1>2 DEF Account
<1>4. state \in {"complete", "partial"}
  OBVIOUS
<1>5. ASSUME state = "complete", ByField, NEW x \in mem.conf.domains
      PROVE  \E o \in mem.experiments : o.op = op /\ Classified(o) /\ o.input = x
  <2>1. Cases(op, mem.conf) = mem.conf.domains
    BY <1>3, <1>5 DEF Cases, ByField
  <2>2. x \in known
    BY <1>5, <2>1
  <2> QED  BY <2>2 DEF Of
<1> HIDE DEF state
<1> QED  BY <1>1, <1>3, <1>4, <1>5, ConcludeSound

LEMMA StopSound ==
  ASSUME Sound, UNCHANGED history, Stop
  PROVE  Sound' /\ (AllSteady => AllSteady')
<1>1. /\ at = "op" /\ Conclude(Head(todo), "partial")
      /\ todo' \in {<<>>, Tail(todo)}
      /\ UNCHANGED <<parent, run, sent>>
  BY DEF Stop
<1>2. todo # <<>> /\ todo \in Seq(Op)
  BY <1>1 DEF Sound, Numbers, Stages
<1>3. todo' \in Seq(Op)
  <2>1. Tail(todo) \in Seq(Op) /\ <<>> \in Seq(Op)
    BY <1>2
  <2> QED  BY <1>1, <2>1
<1> QED  BY <1>1, <1>3, ConcludeSound

\* What the last report adds rests on effects, or compares operations.
LEMMA EndRunSound ==
  ASSUME Sound, UNCHANGED history, EndRun
  PROVE  Sound' /\ (AllSteady => AllSteady')
<1> DEFINE R == Merged(mem.rules, effectRules \cup requiredness)
<1> DEFINE u == [mem EXCEPT !.rules = R]
<1>1. /\ at = "next" /\ journal' = Append(journal, Report(u))
      /\ mem' = None /\ at' = "off" /\ todo' = <<>> /\ base' = 0
      /\ UNCHANGED <<parent, run, sent>>
  BY DEF EndRun, Ended
<1>2. Whole(mem, sent) /\ mem \in Account /\ sent \in Nat
  BY <1>1 DEF Sound, Numbers, Accounts, Running, Whole
<1>3. ASSUME NEW r \in effectRules
      PROVE  /\ r \in Rule /\ r.kind = "effect"
             /\ \A i \in r.evidence : \E op \in Op : Found(mem, i, op)
             /\ Fresh(mem) => \A i \in r.evidence : \E op \in Op : FoundNow(mem, i, op)
  <2>1. PICK op \in {e.op : e \in mem.effects} :
          r = [op |-> op, kind |-> "effect", about |-> None, origin |-> None,
               evidence |-> UNION {{e.experiment, e.read} : e \in Of(mem.effects, op)}]
    BY <1>3 DEF effectRules
  <2>2. \A i \in r.evidence : \E e \in mem.effects : i = e.experiment \/ i = e.read
    BY <2>1 DEF Of
  <2>3. \A e \in mem.effects :
          /\ e \in Effect /\ e.op \in DOMAIN Read /\ Read[e.op] \in Op
          /\ Found(mem, e.experiment, e.op) /\ Found(mem, e.read, Read[e.op])
          /\ Fresh(mem) => /\ FoundNow(mem, e.experiment, e.op)
                           /\ FoundNow(mem, e.read, Read[e.op])
    <3>1. Seen(mem) /\ mem.effects \subseteq Effect
      BY <1>2 DEF Whole, Account
    <3>2. \A e \in mem.effects :
            /\ e.op \in DOMAIN Read
            /\ Found(mem, e.experiment, e.op) /\ Found(mem, e.read, Read[e.op])
      BY <3>1 DEF Seen
    <3>3. Fresh(mem) => \A e \in mem.effects :
            FoundNow(mem, e.experiment, e.op) /\ FoundNow(mem, e.read, Read[e.op])
      BY DEF Fresh
    <3> QED  BY <3>1, <3>2, <3>3, ReadAssumption
  <2>4. \A e \in mem.effects : e.op \in Op /\ e.experiment \in Nat /\ e.read \in Nat
    BY <2>3 DEF Effect
  <2>5. r.evidence \in SUBSET Nat /\ op \in Op
    <3>1. \A i \in r.evidence : i \in Nat
      BY <2>2, <2>4
    <3>2. op \in Op
      BY <2>4
    <3>3. r.evidence \in SUBSET Nat
      BY <3>1
    <3> QED  BY <3>2, <3>3
  <2>6. r.evidence = UNION {{e.experiment, e.read} : e \in Of(mem.effects, op)}
    BY <2>1
  <2>7. r \in Rule /\ r.kind = "effect"
    <3> DEFINE v == UNION {{e.experiment, e.read} : e \in Of(mem.effects, op)}
    <3>1. v \in SUBSET Nat
      BY <2>5, <2>6
    <3>2. r = [op |-> op, kind |-> "effect", about |-> None, origin |-> None,
               evidence |-> v]
      BY <2>1
    <3> HIDE DEF v
    <3> QED  BY <2>5, <3>1, <3>2 DEF Rule, Origin
  <2> QED  BY <2>2, <2>3, <2>4, <2>7
<1>4. ASSUME NEW r \in requiredness
      PROVE  r \in Rule /\ r.kind = "requiredHereOnly"
  <2>1. PICK x \in mem.rules \X mem.rules :
          r = [x[1] EXCEPT !.kind = "requiredHereOnly", !.evidence = @ \cup x[2].evidence]
    BY <1>4 DEF requiredness
  <2>2. x[1] \in Rule /\ x[2] \in Rule
    BY <1>2 DEF Account
  <2>3. x[1].evidence \cup x[2].evidence \in SUBSET Nat
    BY <2>2 DEF Rule
  <2> QED  BY <2>1, <2>2, <2>3 DEF Rule
<1>5. /\ R \subseteq mem.rules \cup effectRules \cup requiredness
  BY DEF Merged
<1>6. R \subseteq Rule
  BY <1>2, <1>3, <1>4, <1>5 DEF Account
<1> HIDE DEF R
<1>7. /\ u \in Account
      /\ u.run = mem.run /\ u.doc = mem.doc /\ u.conf = mem.conf
      /\ u.observations = mem.observations /\ u.experiments = mem.experiments
      /\ u.effects = mem.effects /\ u.signatures = mem.signatures
      /\ u.deleted = mem.deleted /\ u.rules = R /\ u.coverage = mem.coverage
      /\ mem.coverage \subseteq Verdict
  BY <1>2, <1>6 DEF Account
<1>8. u = [mem EXCEPT !.rules = R, !.coverage = mem.coverage]
  BY <1>2 DEF Account
<1> HIDE DEF u
<1>9. Whole(u, sent)
  <2>1. Grounded(u)
    <3>1. \A i, x : Found(u, i, x) <=> Found(mem, i, x)
      BY <1>7 DEF Found
    <3>2. IdsOf(u) = IdsOf(mem)
      BY <1>7 DEF IdsOf
    <3>3. \A r \in effectRules : r.evidence \subseteq IdsOf(mem)
      BY <1>3 DEF Found, IdsOf
    <3>4. Grounded(mem)
      BY <1>2 DEF Whole
    <3>5. ASSUME NEW r \in R
          PROVE  /\ Probed(r) => \A i \in r.evidence : Found(u, i, r.op)
                 /\ r.kind = "effect" => r.origin # None \/ r.evidence \subseteq IdsOf(u)
      <4>1. CASE r \in mem.rules
        BY <3>1, <3>2, <3>4, <4>1 DEF Grounded
      <4>2. CASE r \in effectRules
        BY <1>3, <3>2, <3>3, <4>2 DEF Probed
      <4>3. CASE r \in requiredness
        BY <1>4, <4>3 DEF Probed
      <4> QED  BY <1>5, <4>1, <4>2, <4>3
    <3> QED  BY <1>7, <3>5 DEF Grounded
  <2>2. Single(u)
    BY <1>2, <1>7 DEF Whole, Single
  <2> QED  BY <1>2, <1>7, <2>1, <2>2, WholeReported
<1>10. ASSUME AllSteady PROVE Steady(u)
  <2>1. Steady(mem)
    BY <1>1, <1>10 DEF AllSteady, Running
  <2>2. Fresh(u)
    BY <1>7, <2>1, FreshGrows DEF Steady
  <2>3. FreshRules(u)
    <3>1. \A i, x : FoundNow(u, i, x) <=> FoundNow(mem, i, x)
      <4>1. \A o : Current(u, o) <=> Current(mem, o)
        BY <1>7, ContextHeld
      <4> QED  BY <1>7, <4>1 DEF FoundNow
    <3>2. ASSUME NEW r \in R
          PROVE  /\ Probed(r) => \A i \in r.evidence : FoundNow(u, i, r.op)
                 /\ r.kind = "effect" /\ r.origin = None =>
                      \A i \in r.evidence : \E op \in Op : FoundNow(u, i, op)
      <4>1. CASE r \in mem.rules
        BY <2>1, <3>1, <4>1 DEF Steady, FreshRules
      <4>2. CASE r \in effectRules
        BY <1>3, <2>1, <3>1, <4>2 DEF Probed, Steady
      <4>3. CASE r \in requiredness
        BY <1>4, <4>3 DEF Probed
      <4> QED  BY <1>5, <4>1, <4>2, <4>3
    <3> QED  BY <1>7, <3>2 DEF FreshRules
  <2>4. Earned(mem) => Earned(u)
    BY <1>7, EarnedGrows
  <2> QED  BY <2>1, <2>2, <2>3, <2>4 DEF Steady
<1>11. /\ IsList(journal') /\ journal' # <<>>
       /\ Whole(Replay(journal'), sent) /\ Bare(Replay(journal'))
       /\ Replay(journal').run = run
       /\ Steady(u) /\ Replay(journal).effects = mem.effects => Steady(Replay(journal'))
  <2>1. /\ at # "off" /\ journal' = Append(journal, Report(u)) /\ u \in Account
        /\ mem.coverage \subseteq Verdict
    BY <1>1, <1>7
  <2> QED  BY <1>6, <1>8, <1>9, <2>1, Reported
<1>12. Numbers'
  <2>1. todo' \in Seq(Op)
    BY <1>1
  <2> QED  BY <1>1, <1>2, <2>1 DEF Sound, Numbers, NoBaseline
<1>13. Stages'
  BY <1>1 DEF Stages
<1>14. Sound'
  BY <1>1, <1>2, <1>11, <1>12, <1>13, Forward
<1>15. ASSUME AllSteady PROVE AllSteady'
  <2>1. /\ Replay(journal).effects = mem.effects
        /\ parent # <<>> => Steady(Replay(parent))
    BY <1>1, <1>15 DEF AllSteady, Running
  <2> QED  BY <1>1, <1>10, <1>11, <1>15, <2>1 DEF AllSteady, Running
<1> QED  BY <1>14, <1>15

\* One experiment: whatever of it was written when the process dies, and what
\* the process holds when it does not.
LEMMA ExperimentSound ==
  ASSUME Sound, UNCHANGED history, at = "op", base \in Nat, NEW in \in Input,
         NEW phase \in {"baseline", "probe"}, phase = "probe" => base # 0,
         NEW outcome \in Outcome, NEW reach \in 1 .. 4,
         NEW survivor \in NoBaseline .. (sent + 2),
         survivor > 0 => survivor = base \/ survivor = sent + 1,
         Experiment(in, phase, outcome, reach, survivor)
  PROVE  Sound' /\ (AllSteady => AllSteady')
<1> DEFINE op == Head(todo)
<1> DEFINE s == Replay(journal)
<1> DEFINE t == Replay(journal')
<1> DEFINE main ==
      [id |-> sent + 1, op |-> op, input |-> in, phase |-> phase, outcome |-> outcome,
       control |-> base, origin |-> None, evidenceOnly |-> FALSE,
       doc |-> mem.doc, hints |-> mem.conf.hints, sender |-> run]
<1> DEFINE back ==
      [id |-> sent + 2, op |-> Read[op], input |-> in, phase |-> "readback",
       outcome |-> "accepted", control |-> sent + 1, origin |-> None,
       evidenceOnly |-> FALSE,
       doc |-> mem.doc, hints |-> mem.conf.hints, sender |-> run]
<1> DEFINE effect == [op |-> op, experiment |-> sent + 1, read |-> sent + 2]
<1> DEFINE readable == op \in DOMAIN Read /\ outcome = "accepted"
<1> DEFINE gone == IF op \in Create /\ outcome # "input-rejected" THEN {sent + 1} ELSE {}
<1> DEFINE second == reach > 1 /\ readable
<1> DEFINE B == IF second THEN <<Logged("observation", back),
                               [kind |-> "effect", effect |-> effect]>> ELSE <<>>
<1> DEFINE C == IF reach > 2 THEN <<Logged("experiment", main)>> ELSE <<>>
<1> DEFINE D == IF reach > 3 THEN Deleted(gone) ELSE <<>>
<1> DEFINE w == <<Logged("observation", main)>> \o B \o C \o D
<1> DEFINE P == IF second THEN {back} ELSE {}
<1> DEFINE O == {main} \cup P
<1> DEFINE E == IF second THEN {effect} ELSE {}
<1> DEFINE X == IF reach > 2 THEN {main} ELSE {}
<1> DEFINE G == IF reach > 3 THEN gone ELSE {}
<1> DEFINE m2 == Grown(mem, O, E, X, G)
<1>1. /\ journal' = journal \o w /\ sent' = sent + 2 /\ UNCHANGED <<parent, run>>
      /\ \/ reach < 4 /\ mem' = None /\ at' = "off" /\ todo' = <<>> /\ base' = 0
         \/ /\ reach = 4 /\ base' = survivor /\ at' = at /\ todo' = todo
            /\ mem' = [mem EXCEPT
                 !.observations = @ \cup IF readable THEN {main, back} ELSE {main},
                 !.effects = @ \cup IF readable THEN {effect} ELSE {},
                 !.experiments = @ \cup {main}, !.deleted = @ \cup gone]
  BY DEF Experiment, Ended
<1>2. /\ Whole(mem, sent) /\ Mirrors(s, mem) /\ Whole(s, sent) /\ Bare(s)
      /\ s.run = run /\ mem.run = run /\ IsList(journal) /\ journal # <<>>
      /\ sent \in Nat /\ run \in Nat /\ todo \in Seq(Op) /\ todo # <<>>
      /\ mem \in Account /\ s \in Account /\ history \in DOMAIN Histories
      /\ mem.signatures[op] = HeldContext(mem, op)
      /\ base > 0 => Found(mem, base, op)
      /\ \A v \in mem.coverage : v.op # op
  BY DEF Sound, Numbers, Files, Accounts, Stages, IsList, Running, Whole, Mirrors
<1>3. /\ op \in Op /\ mem.doc \in Documents /\ mem.conf \in Configs
      /\ mem.conf.hints \in {c.hints : c \in Configs}
      /\ sent + 1 \in Nat \ {0} /\ sent + 2 \in Nat \ {0}
      /\ None \in Origin /\ "accepted" \in Outcome
  <2>1. op \in Op /\ mem.doc \in Documents /\ mem.conf \in Configs
    BY <1>2 DEF Account
  <2> QED  BY <1>2, <2>1 DEF Origin, Outcome
<1>4. second => op \in DOMAIN Read /\ Read[op] \in Op
  BY ReadAssumption
<1> HIDE DEF op
<1>6. main \in Observation /\ (second => back \in Observation) /\ effect \in Effect
  <2>1. main \in Observation
    BY <1>2, <1>3 DEF Observation
  <2>2. effect \in Effect
    BY <1>3 DEF Effect
  <2>3. ASSUME second PROVE back \in Observation
    BY <1>2, <1>3, <1>4, <2>3 DEF Observation
  <2> QED  BY <2>1, <2>2, <2>3
<1>7. gone \in SUBSET Nat
  BY <1>3
<1>8. /\ main.id = sent + 1 /\ main.op = op /\ main.control = base /\ main.phase = phase
      /\ main.sender = run /\ main.origin = None
      /\ main.doc = mem.doc /\ main.hints = mem.conf.hints
      /\ back.id = sent + 2 /\ back.op = Read[op] /\ back.sender = run
      /\ back.origin = None /\ back.doc = mem.doc /\ back.hints = mem.conf.hints
      /\ effect.op = op /\ effect.experiment = sent + 1 /\ effect.read = sent + 2
  OBVIOUS
<1>9. reach = 4 => mem' = m2
  <2> HIDE DEF main, back, effect, gone, readable
  <2>1. ASSUME reach = 4
        PROVE  /\ O = (IF readable THEN {main, back} ELSE {main})
               /\ E = (IF readable THEN {effect} ELSE {})
               /\ X = {main} /\ G = gone
    BY <2>1
  <2> DEFINE o == IF readable THEN {main, back} ELSE {main}
  <2> DEFINE e == IF readable THEN {effect} ELSE {}
  <2>2. reach = 4 =>
          mem' = [mem EXCEPT !.observations = @ \cup o, !.effects = @ \cup e,
                             !.experiments = @ \cup {main}, !.deleted = @ \cup gone]
    BY <1>1
  <2>3. reach = 4 => o = O /\ e = E /\ {main} = X /\ gone = G
    BY <2>1
  <2> HIDE DEF O, E, X, G, o, e
  <2> QED  BY <2>2, <2>3 DEF Grown
<1> HIDE DEF main, back, effect, gone, readable
<1>10. /\ O \in SUBSET Observation /\ E \in SUBSET Effect /\ X \in SUBSET O
       /\ X \in SUBSET Observation /\ G \in SUBSET Nat
  BY <1>6, <1>7
<1>11. /\ IsList(journal') /\ journal' # <<>>
       /\ t = Grown(s, Kept(O), E, Kept(X), G)
  <2>1. journal' = journal \o w
    BY <1>1
  <2>2. ReadBack(B, P, E, back, effect) /\ P \in SUBSET Observation
    BY <1>6 DEF ReadBack
  <2>3. Noted(C, X, main) /\ Cleaned(D, G, gone)
    BY DEF Noted, Cleaned
  <2>4. w = Events(main, B, C, D)
    BY DEF Events
  <2> HIDE DEF w, B, C, D, P, E, X, G
  <2>6. /\ IsList(journal \o w) /\ journal \o w # <<>>
        /\ Replay(journal \o w) = Grown(Replay(journal), Kept({main} \cup P), E, Kept(X), G)
    <3>1. /\ IsList(journal) /\ journal # <<>> /\ Replay(journal) \in Account
          /\ main \in Observation /\ effect \in Effect /\ gone \in SUBSET Nat
          /\ P \in SUBSET Observation
      BY <1>2, <1>6, <1>7, <2>2
    <3> HIDE DEF s, t
    <3> QED  BY ONLY <2>2, <2>3, <2>4, <3>1, ReplayWritten
  <2> QED  BY <2>1, <2>6
<1> HIDE DEF w
<1>12. /\ \A o \in O : o = main \/ (second /\ o = back)
       /\ main \in O /\ (second => back \in O)
       /\ \A e \in E : second /\ e = effect
       /\ \A o \in X : o = main
  OBVIOUS
<1> HIDE DEF second, O, P, E, X, G
<1>13. /\ m2 \in Account /\ m2.run = mem.run /\ m2.doc = mem.doc /\ m2.conf = mem.conf
       /\ m2.observations = mem.observations \cup O
       /\ m2.effects = mem.effects \cup E /\ m2.experiments = mem.experiments \cup X
       /\ m2.signatures = mem.signatures /\ m2.deleted = mem.deleted \cup G
       /\ m2.rules = mem.rules /\ m2.coverage = mem.coverage
  BY <1>2, <1>10 DEF Grown, Account
<1>14. m2.inherited = mem.inherited
  BY <1>2 DEF Grown, Account
<1>15. Kept(O) \in SUBSET Observation /\ Kept(X) \in SUBSET Observation
  BY <1>10, KeptIs
<1>16. /\ t \in Account /\ t.run = s.run /\ t.doc = s.doc /\ t.conf = s.conf
       /\ t.observations = s.observations \cup Kept(O)
       /\ t.effects = s.effects \cup E /\ t.experiments = s.experiments \cup Kept(X)
       /\ t.signatures = s.signatures /\ t.deleted = s.deleted \cup G
       /\ t.rules = s.rules /\ t.coverage = s.coverage
  <2> HIDE DEF t, s
  <2> QED  BY <1>2, <1>10, <1>11, <1>15 DEF Grown, Account
<1>17. t.inherited = s.inherited
  <2> HIDE DEF t, s
  <2> QED  BY <1>2, <1>11 DEF Grown, Account
<1> HIDE DEF m2, s, t
<1>18. /\ Found(m2, sent + 1, op) /\ (second => Found(m2, sent + 2, Read[op]))
       /\ base > 0 => Found(m2, base, op)
  <2>1. mem.observations \subseteq m2.observations
    BY <1>13
  <2>2. base > 0 => Found(m2, base, op)
    BY <1>2, <2>1, Growing
  <2> QED  BY <1>8, <1>12, <1>13, <2>2 DEF Found
<1>19. Whole(m2, sent + 2)
  <2>1. \A o \in O : /\ o.id > sent /\ o.id <= sent + 2
                     /\ o.sender = mem.run /\ o.origin = None
    BY <1>2, <1>8, <1>12
  <2>2. \A o \in X : /\ o.control = 0 \/ Found(m2, o.control, o.op)
                     /\ o.phase = "probe" => o.control # 0
    BY <1>8, <1>12, <1>18
  <2>3. \A e \in E : /\ e.op \in DOMAIN Read
                     /\ Found(m2, e.experiment, e.op) /\ Found(m2, e.read, Read[e.op])
    BY <1>4, <1>8, <1>12, <1>18 DEF second
  <2>4. sent + 2 \in Nat /\ sent <= sent + 2 /\ m2 = Grown(mem, O, E, X, G)
    BY <1>2 DEF m2
  <2> QED  BY <1>2, <1>10, <2>1, <2>2, <2>3, <2>4, WholeGrown
<1>20. Mirrors(t, m2)
  <2>1. /\ Kept(mem.observations \cup O) = Kept(mem.observations) \cup Kept(O)
        /\ Kept(mem.experiments \cup X) = Kept(mem.experiments) \cup Kept(X)
    BY DEF Kept
  <2> QED  BY <1>2, <1>13, <1>14, <1>16, <1>17, <2>1 DEF Mirrors
<1>21. Whole(t, sent + 2) /\ Bare(t)
  <2>1. t.effects \subseteq s.effects \cup m2.effects
    BY <1>13, <1>16
  <2> QED  BY <1>2, <1>16, <1>19, <1>20, <2>1, JournalGrows
<1>22. Numbers'
  <2>0. /\ sent' = sent + 2 /\ (base' = 0 \/ base' = survivor)
        /\ todo' = <<>> \/ todo' = todo
    BY <1>1
  <2>1. todo' \in Seq(Op) /\ base' \in NoBaseline .. sent'
    <3>1. todo' \in Seq(Op)
      <4>1. <<>> \in Seq(Op)
        OBVIOUS
      <4> QED  BY <1>2, <2>0, <4>1
    <3>2. 0 \in NoBaseline .. (sent + 2)
      BY <1>2 DEF NoBaseline
    <3> QED  BY <2>0, <3>1, <3>2
  <2>2. at' = "off" => mem' = None
    BY <1>1
  <2>3. at' \in {"off", "start", "next", "op"}
    BY <1>1
  <2> QED  BY <1>1, <1>2, <2>1, <2>2, <2>3 DEF Numbers
<1>23. Stages'
  <2>1. CASE at' = "off"
    BY <2>1 DEF Stages
  <2>2. CASE at' # "off"
    <3>1. reach = 4 /\ mem' = m2 /\ base' = survivor /\ todo' = todo /\ at' = "op"
      BY <1>1, <1>9, <2>2
    <3>2. m2.signatures[op] = HeldContext(m2, op)
      BY <1>2, <1>13 DEF HeldContext
    <3>3. survivor > 0 => Found(m2, survivor, op)
      BY <1>18
    <3> QED  BY <1>2, <1>13, <3>1, <3>2, <3>3 DEF Stages, op
  <2> QED  BY <2>1, <2>2
<1>24. Sound'
  <2>1. at' # "off" => mem' = m2
    BY <1>1, <1>9
  <2>2. t.run = run /\ sent' = sent + 2 /\ sent' \in Nat /\ sent <= sent'
    BY <1>1, <1>2, <1>16
  <2> QED  BY <1>1, <1>11, <1>19, <1>20, <1>21, <1>22, <1>23, <2>1, <2>2, Forward DEF t
<1>25. ASSUME AllSteady PROVE AllSteady'
  <2>1. /\ Steady(s) /\ Steady(mem) /\ s.effects = mem.effects
        /\ parent # <<>> => Steady(Replay(parent))
        /\ base > 0 => FoundNow(mem, base, op)
    BY <1>25 DEF AllSteady, Running, s, op
  <2>2. \A o \in O : Current(m2, o)
    BY <1>8, <1>12, <1>13 DEF Current
  <2>3. /\ FoundNow(m2, sent + 1, op) /\ (second => FoundNow(m2, sent + 2, Read[op]))
        /\ base > 0 => FoundNow(m2, base, op)
    <3>1. mem.observations \subseteq m2.observations
      BY <1>13
    <3>2. base > 0 => FoundNow(m2, base, op)
      BY <1>13, <2>1, <3>1, Growing
    <3> QED  BY <1>8, <1>12, <1>13, <2>2, <3>2 DEF FoundNow
  <2>4. m2.signatures[op] = HeldContext(m2, op)
    BY <1>2, <1>13 DEF HeldContext
  <2>5. Fresh(m2)
    <3>1. \A o \in m2.observations \ mem.observations : Current(m2, o)
      BY <1>13, <2>2
    <3>2. \A o \in m2.experiments \ mem.experiments :
             /\ Current(m2, o) /\ m2.signatures[o.op] = HeldContext(m2, o.op)
             /\ o.control = 0 \/ FoundNow(m2, o.control, o.op)
      BY <1>8, <1>12, <1>13, <2>2, <2>3, <2>4
    <3>3. \A e \in m2.effects \ mem.effects :
             /\ m2.signatures[e.op] = HeldContext(m2, e.op)
             /\ FoundNow(m2, e.experiment, e.op) /\ FoundNow(m2, e.read, Read[e.op])
      BY <1>8, <1>12, <1>13, <2>3, <2>4
    <3> QED  BY <1>13, <2>1, <3>1, <3>2, <3>3, FreshGrows DEF Steady
  <2>6. Steady(m2)
    <3>1. FreshRules(m2)
      BY <1>13, <2>1, RulesGrow DEF Steady
    <3>2. Earned(mem) => Earned(m2)
      BY <1>13, EarnedGrows
    <3> QED  BY <2>1, <2>5, <3>1, <3>2 DEF Steady
  <2>7. t.effects = m2.effects
    BY <1>13, <1>16, <2>1
  <2>8. Steady(t)
    BY <1>16, <1>19, <1>20, <2>1, <2>5, <2>7, JournalSteady
  <2>9. CASE at' = "off"
    BY <1>1, <2>1, <2>8, <2>9 DEF AllSteady, Running, t
  <2>10. CASE at' # "off"
    <3>1. mem' = m2 /\ base' = survivor /\ todo' = todo
      BY <1>1, <1>9, <2>10
    <3>2. survivor > 0 => FoundNow(m2, survivor, op)
      BY <2>3
    <3> QED  BY <1>1, <2>1, <2>6, <2>7, <2>8, <3>1, <3>2 DEF AllSteady, Running, t, op
  <2> QED  BY <2>9, <2>10
<1> QED  BY <1>24, <1>25

LEMMA BaselineSound ==
  ASSUME Sound, UNCHANGED history, NEW outcome \in Outcome, NEW reach \in 1 .. 4,
         Baseline(outcome, reach)
  PROVE  Sound' /\ (AllSteady => AllSteady')
<1>1. PICK survivor \in Survivors(outcome) :
        /\ at = "op" /\ base = 0
        /\ Experiment(Base, "baseline", outcome, reach, survivor)
  BY DEF Baseline
<1>2. Base \in Input /\ sent \in Nat /\ base \in Nat
  BY <1>1 DEF Input, Sound, Numbers
<1>3. /\ survivor \in NoBaseline .. (sent + 2)
      /\ survivor > 0 => survivor = base \/ survivor = sent + 1
  BY <1>2 DEF NoBaseline, Survivors
<1> QED  BY <1>1, <1>2, <1>3, ExperimentSound

LEMMA ProbeSound ==
  ASSUME Sound, UNCHANGED history, NEW in \in Inputs, NEW outcome \in Outcome,
         NEW reach \in 1 .. 4, Probe(in, outcome, reach)
  PROVE  Sound' /\ (AllSteady => AllSteady')
<1>1. /\ at = "op" /\ base > 0
      /\ Experiment(in, "probe", outcome, reach, base)
  BY DEF Probe
<1>2. in \in Input /\ sent \in Nat /\ base \in Nat /\ base # 0
  BY <1>1 DEF Input, Sound, Numbers, NoBaseline
<1>3. base \in NoBaseline .. (sent + 2)
  BY <1>1, <1>2 DEF Sound, Numbers, NoBaseline
<1> QED  BY <1>1, <1>2, <1>3, ExperimentSound

------------------------------------------------------------------------------
(* Every step *)

LEMMA NextSound ==
  ASSUME Sound, [Next]_vars
  PROVE  Sound' /\ (AllSteady /\ HintsKept => AllSteady')
<1>1. CASE UNCHANGED vars
  BY <1>1, IdleSound DEF vars
<1>2. CASE Next
  <2>1. Step /\ UNCHANGED history
    BY <1>2 DEF Next
  <2>2. /\ chosen.documents \subseteq Documents /\ chosen.configs \subseteq Configs
        /\ chosen.outcomes \subseteq Outcome
    BY Chosen DEF Sound, Numbers
  <2>3. CASE \E d \in chosen.documents, c \in chosen.configs : StartChild(d, c)
    BY <2>1, <2>2, <2>3, StartChildSound
  <2>4. CASE Inherit
    BY <2>1, <2>4, InheritSound
  <2>5. CASE \E c \in chosen.configs : Resume(c)
    BY <2>1, <2>2, <2>5, ResumeSound
  <2>6. CASE Skip
    BY <2>1, <2>6, SkipSound
  <2>7. CASE Begin
    BY <2>1, <2>7, BeginSound
  <2>8. CASE \E outcome \in chosen.outcomes, reach \in 1 .. 4 :
               Baseline(outcome, reach)
    BY <2>1, <2>2, <2>8, BaselineSound
  <2>9. CASE \E in \in Inputs, outcome \in chosen.outcomes, reach \in 1 .. 4 :
               Probe(in, outcome, reach)
    BY <2>1, <2>2, <2>9, ProbeSound
  <2>10. CASE Finish
    BY <2>1, <2>10, FinishSound
  <2>11. CASE Stop
    BY <2>1, <2>11, StopSound
  <2>12. CASE EndRun
    BY <2>1, <2>12, EndRunSound
  <2>13. CASE Crash
    BY <2>1, <2>13, CrashSound
  <2> QED  BY <2>1, <2>3, <2>4, <2>5, <2>6, <2>7, <2>8, <2>9, <2>10, <2>11, <2>12,
              <2>13 DEF Step
<1> QED  BY <1>1, <1>2

------------------------------------------------------------------------------
(* What follows *)

\* What is held is whole, with or without a process.
LEMMA HeldIs ==
  ASSUME Sound
  PROVE  /\ Whole(Held, sent) /\ Held.run = run /\ run \in Nat
         /\ AllSteady => Steady(Held)
BY DEF Sound, Numbers, Accounts, Mirrors, Held, AllSteady

LEMMA SoundHolds == Sound => Inv
<1> SUFFICES ASSUME Sound PROVE Inv
  OBVIOUS
<1> DEFINE s == Held
<1>1. Whole(s, sent) /\ s.run = run /\ run \in Nat /\ s \in Account
  BY HeldIs DEF Whole
<1> HIDE DEF s
<1>2. TypeOK
  <2>1. \A v \in s.coverage : v.state \in {"complete", "partial"}
    BY <1>1 DEF Account, Verdict
  <2>2. \A v, w \in s.coverage : v.op = w.op => v = w
    BY <1>1 DEF Whole, Single
  <2> QED  BY <1>1, <2>1, <2>2 DEF TypeOK, Sound, Numbers, Running, s
<1>3. \A i, op : Found(s, i, op) => i \in IdsOf(s)
  BY DEF Found, IdsOf
<1>4. SelfContained
  <2>1. ASSUME NEW r \in s.rules PROVE Unsupported(r) \/ r.evidence \subseteq IdsOf(s)
    <3>1. r.kind \in {"required", "optional", "requiredHereOnly", "effect"}
      BY <1>1 DEF Account, Rule
    <3>2. CASE Probed(r)
      BY <1>1, <1>3, <3>2 DEF Whole, Grounded
    <3>3. CASE r.kind = "effect"
      BY <1>1, <3>3 DEF Whole, Grounded, Unsupported
    <3> QED  BY <3>1, <3>2, <3>3 DEF Unsupported, Probed
  <2>2. ASSUME NEW e \in s.effects PROVE {e.experiment, e.read} \subseteq IdsOf(s)
    BY <1>1, <1>3 DEF Whole, Seen
  <2>3. ASSUME NEW o \in s.experiments
        PROVE  {o.id, o.control} \ {0} \subseteq IdsOf(s)
    <3>1. o.id \in IdsOf(s)
      BY <1>1 DEF Whole, Recorded, Echoed, IdsOf
    <3> QED  BY <1>1, <1>3, <3>1 DEF Whole, Recorded
  <2> QED  BY <2>1, <2>2, <2>3 DEF SelfContained, s
<1>5. OriginIsSender
  BY <1>1 DEF Whole, Traced, OriginIsSender, s
<1>6. OwnedIsOwn
  <2>1. ASSUME NEW o \in s.observations, o.id \in Owned(s) PROVE o.sender = run
    <3>1. PICK x \in s.observations : x.id = o.id /\ x.origin = None
      BY <2>1 DEF Owned
    <3>2. x.sender \in Nat /\ x.origin = IF x.sender = run THEN None ELSE x.sender
      BY <1>1, <3>1 DEF Whole, Traced, Account, Observation
    <3>3. x.sender = run
      BY <3>1, <3>2, NoneAssumption
    <3> QED  BY <1>1, <3>1, <3>3 DEF Whole, Traced
  <2> QED  BY <2>1 DEF OwnedIsOwn, s
<1> QED  BY <1>2, <1>4, <1>5, <1>6 DEF Inv

LEMMA SteadyIsCurrent == Sound /\ AllSteady => EvidenceIsCurrent
<1> SUFFICES ASSUME Sound, AllSteady PROVE EvidenceIsCurrent
  OBVIOUS
<1> DEFINE s == Held
<1>1. s \in Account /\ Fresh(s) /\ FreshRules(s)
  BY HeldIs DEF Whole, Steady
<1> HIDE DEF s
<1>2. ReusedIsCurrent
  BY <1>1 DEF Fresh, ReusedIsCurrent, s
<1>3. RulesAreCurrent
  <2> DEFINE current == {o \in s.observations : Current(s, o)}
  <2>1. \A i, op : FoundNow(s, i, op) => i \in {o.id : o \in current}
    BY DEF FoundNow
  <2>2. ASSUME NEW r \in s.rules
        PROVE  Unsupported(r) \/ r.evidence \subseteq {o.id : o \in current}
    <3>1. r.kind \in {"required", "optional", "requiredHereOnly", "effect"}
      BY <1>1 DEF Account, Rule
    <3> HIDE DEF current
    <3>2. CASE Probed(r)
      BY <1>1, <2>1, <3>2 DEF FreshRules
    <3>3. CASE r.kind = "effect"
      BY <1>1, <2>1, <3>3 DEF FreshRules, Unsupported
    <3> QED  BY <3>1, <3>2, <3>3 DEF Unsupported, Probed
  <2> QED  BY <2>2 DEF RulesAreCurrent, s
<1> QED  BY <1>2, <1>3 DEF EvidenceIsCurrent

LEMMA SteadyIsMemory == Sound /\ AllSteady => ReplayIsMemory
BY DEF Sound, Accounts, Mirrors, AllSteady, ReplayIsMemory, Kept

LEMMA SteadyIsEarned == Sound /\ AllSteady /\ ByField => CompletionIsEarned
<1> SUFFICES ASSUME Sound, AllSteady, ByField PROVE CompletionIsEarned
  OBVIOUS
<1> DEFINE s == Held
<1>1. s \in Account /\ Recorded(s) /\ Fresh(s) /\ Earned(s)
  BY HeldIs DEF Whole, Steady
<1> HIDE DEF s
<1>2. ASSUME NEW v \in s.coverage, v.state = "complete",
             v.signature = planSignature(v.op, s.doc, s.conf),
             NEW x \in Cases(v.op, s.conf)
      PROVE  \E o \in {q \in Of(s.observations, v.op) : Classified(q) /\ Current(s, q)} :
                o.input \in IF v.origin = None
                            THEN {x, IF x \in Redacted THEN Withheld ELSE x} ELSE {x}
  <2>1. v.op \in Op /\ s.conf \in Configs
    BY <1>1 DEF Account, Verdict
  <2>2. Cases(v.op, s.conf) = s.conf.domains
    BY <2>1 DEF Cases, ByField
  <2>3. v.signature[2] = s.conf.domains
    BY <1>2 DEF planSignature
  <2>4. PICK o \in s.experiments :
          /\ o.op = v.op /\ Classified(o)
          /\ o.input \in IF v.origin = None THEN {x, Hide(x)} ELSE {x} \ Redacted
    <3>1. v \in s.coverage /\ v.state = "complete" /\ x \in v.signature[2]
      BY <1>2, <2>2, <2>3
    <3> QED  BY <1>1, <3>1, Zenon DEF Earned
  <2>5. Current(s, o)
    BY <1>1 DEF Fresh
  <2>6. PICK q \in s.observations :
          /\ q.op = o.op /\ q.input = o.input
          /\ q.outcome = o.outcome /\ q.doc = o.doc /\ q.hints = o.hints
    BY <1>1 DEF Recorded, Echoed
  <2>7. Classified(q) /\ Current(s, q)
    BY <2>4, <2>5, <2>6 DEF Classified, Current
  <2> QED  BY <2>4, <2>6, <2>7 DEF Hide, Of
<1> QED  BY <1>2 DEF CompletionIsEarned, s

------------------------------------------------------------------------------
\* A run needs no other run's record, tells whose each observation is, and
\* deletes only what its own requests created (inherit, Load): whatever the
\* histories, wherever a process dies, and whichever settings change.
THEOREM ChainIsSound == Spec => []IInv
<1>1. Init => Sound
  BY InitSound
<1>2. Sound /\ [Next]_vars => Sound'
  BY NextSound
<1>3. Sound => IInv
  BY SoundHolds DEF IInv
<1> QED  BY <1>1, <1>2, <1>3, PTL DEF Spec

\* As long as sessions of one run keep its hints, both the journal and the
\* process hold what is of the present context only.
THEOREM ChainIsSteady == Spec /\ [][HintsKept]_vars => []SInv
<1>1. Init => Sound /\ AllSteady
  BY InitSound
<1>2. Sound /\ AllSteady /\ [Next]_vars /\ [HintsKept]_vars => (Sound /\ AllSteady)'
  <2> SUFFICES ASSUME Sound, AllSteady, [Next]_vars, [HintsKept]_vars
               PROVE  Sound' /\ AllSteady'
    OBVIOUS
  <2>1. CASE UNCHANGED vars
    BY <2>1, IdleSound DEF vars
  <2>2. CASE HintsKept
    BY <2>2, NextSound
  <2> QED  BY <2>1, <2>2
<1>3. Sound /\ AllSteady => SInv
  BY SoundHolds DEF SInv, IInv
<1> QED  BY <1>1, <1>2, <1>3, PTL DEF Spec

\* Nothing is reused, and no rule concluded, from an outcome observed under
\* another document or other hints (PrepareIncremental, progressFor, Resume).
THEOREM ReuseIsCurrent == Spec /\ [][HintsKept]_vars => []EvidenceIsCurrent
<1>1. SInv => EvidenceIsCurrent
  BY SteadyIsCurrent DEF SInv, IInv
<1> QED  BY <1>1, ChainIsSteady, PTL

\* A session that dies at any point comes back with all it knew but the inputs
\* that the journal withholds (Load, restoreProgress).
THEOREM JournalIsMemory == Spec /\ [][HintsKept]_vars => []ReplayIsMemory
<1>1. SInv => ReplayIsMemory
  BY SteadyIsMemory DEF SInv, IInv
<1> QED  BY <1>1, ChainIsSteady, PTL

\* Where domains are configured by field, an operation that counts as complete
\* has a classified outcome of the present context for each case of its settings,
\* in whichever run of the chain it was observed (finishCoverage, actionFor).
THEOREM CompleteIsKnown ==
  ByField => (Spec /\ [][HintsKept]_vars => []CompletionIsEarned)
<1> SUFFICES ASSUME ByField PROVE Spec /\ [][HintsKept]_vars => []CompletionIsEarned
  OBVIOUS
<1>1. SInv => CompletionIsEarned
  BY SteadyIsEarned DEF SInv, IInv
<1> QED  BY <1>1, ChainIsSteady, PTL
==============================================================================
