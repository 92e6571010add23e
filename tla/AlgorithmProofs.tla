---------------------------- MODULE AlgorithmProofs ----------------------------
(***************************************************************************)
(* The algorithms that choose requests and order operations are right for  *)
(* every input.                                                            *)
(*                                                                         *)
(* For each of OperationGraph (G), Minimize (M), Bounds (B) and            *)
(* Expressiveness (E) the lemmas come first: what their helpers compute,   *)
(* that every action keeps the inductive invariant the module names        *)
(* (PlanInv, MInv, BInv, Expressible itself), what follows from it, and    *)
(* that every step comes nearer to the end.  Those of Cover (C) are in     *)
(* CoverProofs.  The last parts state what each algorithm promises, and    *)
(* the properties of the specification that is checked, in which any one   *)
(* of them runs.                                                           *)
(***************************************************************************)
EXTENDS Algorithms, CoverProofs, Sequences, FiniteSetTheorems, TLAPS

(* The operators OperationGraph has from the community modules. *)
LEMMA GraphSets ==
  /\ \A S : G!Cardinality(S) = Cardinality(S)
  /\ \A S : G!IsFiniteSet(S) <=> IsFiniteSet(S)
  /\ \A g : G!IsInjective(g) <=> IsInjective(g)
<1>1. \A S : G!Cardinality(S) = Cardinality(S)
  BY DEF G!Cardinality, Cardinality
<1>2. \A S : G!IsFiniteSet(S) <=> IsFiniteSet(S)
  BY DEF G!IsFiniteSet, IsFiniteSet
<1>3. \A g : G!IsInjective(g) <=> IsInjective(g)
  BY DEF G!IsInjective, IsInjective
<1> QED  BY <1>1, <1>2, <1>3

(* Sets of operations that are closed under a step *)

\* The closure of a set is closed and holds it, and is the least such set.
LEMMA ClosureIs ==
  ASSUME NEW from \in SUBSET Op, NEW steps \in [Op -> SUBSET Op]
  PROVE  /\ from \subseteq G!Closure(from, steps) /\ G!Closure(from, steps) \subseteq Op
         /\ \A q \in G!Closure(from, steps) : steps[q] \subseteq G!Closure(from, steps)
  BY DEF G!Closure

LEMMA ClosureLeast ==
  ASSUME NEW from, NEW steps, NEW s \in SUBSET Op,
         from \subseteq s, \A q \in s : steps[q] \subseteq s
  PROVE  G!Closure(from, steps) \subseteq s
  BY DEF G!Closure

\* Edges that bind fields of operations to operations.
LEMMA NeedsIs ==
  ASSUME G!TypeOK
  PROVE  /\ \A op \in Op : G!Producers(op) \in SUBSET Op /\ G!Needs[op] = G!Producers(op)
         /\ G!Needs \in [Op -> SUBSET Op]
  BY DEF G!TypeOK, G!Producers, G!Bindings, G!Needs

\* What an operation needs, and what that needs in turn.
LEMMA SetupIs ==
  ASSUME G!TypeOK, NEW op \in Op
  PROVE  /\ G!Producers(op) \subseteq G!Setup(op) /\ G!Setup(op) \subseteq Op
         /\ \A q \in G!Setup(op) : G!Producers(q) \subseteq G!Setup(op)
<1>1. /\ G!Producers(op) \in SUBSET Op /\ G!Needs \in [Op -> SUBSET Op]
      /\ \A q \in Op : G!Needs[q] = G!Producers(q)
  BY NeedsIs
<1>2. /\ G!Producers(op) \subseteq G!Setup(op) /\ G!Setup(op) \subseteq Op
      /\ \A q \in G!Setup(op) : G!Needs[q] \subseteq G!Setup(op)
  BY <1>1, ClosureIs DEF G!Setup
<1> QED  BY <1>1, <1>2

LEMMA PlanClosure ==
  ASSUME G!Assumption, G!TypeOK
  PROVE  LET plan == G!Closure(Selected, G!Needs)
         IN  /\ Selected \subseteq plan /\ plan \subseteq Op
             /\ \A q \in plan : G!Producers(q) \subseteq plan
<1>1. Selected \in SUBSET Op
  BY DEF G!Assumption
<1> QED  BY <1>1, NeedsIs, ClosureIs

\* While edges do not change, what holds of the lists by those edges holds of
\* the new state.
LEMMA ChainedNext ==
  ASSUME edges' = edges,
         \A i, j \in DOMAIN stack' : i < j => stack'[j] \in G!Setup(stack'[i])
  PROVE  G!Chained'
  BY DEF G!Chained, G!Setup, G!Needs, G!Producers, G!Bindings

LEMMA OrderNext ==
  ASSUME edges' = edges, G!IsInjective(order'),
         \A i \in DOMAIN order' :
            G!Producers(order'[i]) \subseteq G!ToSet(SubSeq(order', 1, i - 1))
  PROVE  G!ProducersFirst'
  BY DEF G!ProducersFirst, G!Producers, G!Bindings

LEMMA CycleNext ==
  ASSUME edges' = edges
  PROVE  (G!Producers(G!Last(stack)) \cap G!ToSet(stack))'
            = G!Producers(G!Last(stack')) \cap G!ToSet(stack')
  BY DEF G!Producers, G!Bindings

LEMMA ReachedNext ==
  ASSUME edges' = edges,
         G!ToSet(stack') \cup G!ToSet(order') \subseteq G!Closure(Selected, G!Needs)
  PROVE  G!Reached'
<1>1. G!Needs' = G!Needs
  BY DEF G!Needs, G!Producers, G!Bindings
<1> QED  BY <1>1 DEF G!Reached, G!Finished

-----------------------------------------------------------------------------
(* Lists *)

\* A finite set as a list.
LEMMA ListOf ==
  ASSUME NEW S, IsFiniteSet(S)
  PROVE  G!SetToSeq(S) \in Seq(S) /\ G!ToSet(G!SetToSeq(S)) = S
<1> DEFINE n == Cardinality(S)
<1>1. n \in Nat /\ Bijection(1 .. n, S) # {}
  BY FS_CardinalityType DEF ExistsBijection
<1>2. PICK b \in [1 .. n -> S] : G!IsInjective(b)
  BY <1>1, GraphSets DEF Bijection, Injection
<1> DEFINE g == G!SetToSeq(S)
<1>3. g \in [1 .. n -> S] /\ G!IsInjective(g)
  BY <1>2, GraphSets DEF G!SetToSeq
<1> HIDE DEF g
<1>4. g \in Seq(S)
  BY <1>1, <1>3
<1>5. g \in Injection(1 .. n, S)
  BY <1>3, GraphSets DEF Injection
<1>6. IsFiniteSet(1 .. n) /\ Cardinality(1 .. n) = n
  BY <1>1, FS_Interval
<1>7. g \in Surjection(1 .. n, S)
  BY <1>5, <1>6, FS_Injection
<1>8. \A t \in S : \E i \in 1 .. n : g[i] = t
  BY <1>7 DEF Surjection
<1>9. G!ToSet(g) = S
  BY <1>3, <1>8 DEF G!ToSet
<1> QED  BY <1>4, <1>9 DEF g

\* An element more, at the end.
LEMMA Longer ==
  ASSUME NEW S, NEW s \in Seq(S), NEW x \in S
  PROVE  LET t == Append(s, x)
         IN  /\ t \in Seq(S) /\ t # <<>> /\ Len(t) = Len(s) + 1 /\ G!Last(t) = x
             /\ DOMAIN t = 1 .. Len(s) + 1 /\ DOMAIN s = 1 .. Len(s) /\ Len(s) \in Nat
             /\ t[Len(s) + 1] = x /\ \A i \in 1 .. Len(s) : t[i] = s[i]
             /\ G!ToSet(t) = G!ToSet(s) \cup {x}
             /\ G!IsInjective(s) /\ x \notin G!ToSet(s) => G!IsInjective(t)
<1> DEFINE t == Append(s, x)
<1>1. /\ t \in Seq(S) /\ t # <<>> /\ Len(t) = Len(s) + 1
      /\ DOMAIN t = 1 .. Len(s) + 1 /\ DOMAIN s = 1 .. Len(s) /\ Len(s) \in Nat
      /\ t[Len(s) + 1] = x /\ \A i \in 1 .. Len(s) : t[i] = s[i]
  OBVIOUS
<1> HIDE DEF t
<1>2. G!ToSet(t) = G!ToSet(s) \cup {x}
  <2>1. \A i \in 1 .. Len(s) + 1 : i = Len(s) + 1 \/ i \in 1 .. Len(s)
    BY <1>1
  <2>2. G!ToSet(t) \subseteq G!ToSet(s) \cup {x}
    BY <1>1, <2>1 DEF G!ToSet
  <2>3. \A i \in 1 .. Len(s) : i \in 1 .. Len(s) + 1
    BY <1>1
  <2>4. Len(s) + 1 \in 1 .. Len(s) + 1
    BY <1>1
  <2>5. G!ToSet(s) \cup {x} \subseteq G!ToSet(t)
    BY <1>1, <2>3, <2>4 DEF G!ToSet
  <2> QED  BY <2>2, <2>5
<1>3. ASSUME G!IsInjective(s), x \notin G!ToSet(s) PROVE G!IsInjective(t)
  <2>1. \A i \in 1 .. Len(s) : s[i] # x
    BY <1>1, <1>3 DEF G!ToSet
  <2> QED  BY <1>1, <1>3, <2>1 DEF G!IsInjective
<1>4. G!Last(t) = x
  BY <1>1 DEF G!Last
<1> QED  BY <1>1, <1>2, <1>3, <1>4 DEF t

\* The last element taken off.
LEMMA ShorterBy ==
  ASSUME NEW S, NEW s \in Seq(S), s # <<>>
  PROVE  LET t == G!Front(s)
         IN  /\ Len(s) \in Nat \ {0} /\ DOMAIN s = 1 .. Len(s) /\ G!Last(s) \in S
             /\ G!Last(s) = s[Len(s)] /\ G!Last(s) \in G!ToSet(s)
             /\ t \in Seq(S) /\ Len(t) = Len(s) - 1 /\ DOMAIN t = 1 .. Len(s) - 1
             /\ \A i \in 1 .. Len(s) - 1 : t[i] = s[i]
             /\ G!ToSet(s) = G!ToSet(t) \cup {G!Last(s)}
             /\ G!IsInjective(s) => G!IsInjective(t) /\ G!Last(s) \notin G!ToSet(t)
<1> DEFINE t == G!Front(s)
<1>1. Len(s) \in Nat \ {0} /\ DOMAIN s = 1 .. Len(s)
  OBVIOUS
<1>2. G!Last(s) = s[Len(s)] /\ G!Last(s) \in S /\ G!Last(s) \in G!ToSet(s)
  BY <1>1 DEF G!Last, G!ToSet
<1>3. /\ t \in Seq(S) /\ Len(t) = Len(s) - 1 /\ DOMAIN t = 1 .. Len(s) - 1
      /\ \A i \in 1 .. Len(s) - 1 : t[i] = s[i]
  BY <1>1 DEF G!Front
<1> DEFINE n == Len(s)
<1>4. n \in Nat \ {0} /\ n = Len(s) /\ DOMAIN s = 1 .. n
  BY <1>1
<1> HIDE DEF t, n
<1>5. G!ToSet(s) = G!ToSet(t) \cup {G!Last(s)}
  <2>1. \A i \in 1 .. n : i = n \/ i \in 1 .. n - 1
    BY <1>4
  <2>2. \A i \in 1 .. n - 1 : i \in 1 .. n
    BY <1>4
  <2>3. G!ToSet(s) \subseteq G!ToSet(t) \cup {G!Last(s)}
    BY <1>1, <1>2, <1>3, <1>4, <2>1 DEF G!ToSet
  <2>4. G!ToSet(t) \cup {G!Last(s)} \subseteq G!ToSet(s)
    BY <1>1, <1>2, <1>3, <1>4, <2>2 DEF G!ToSet
  <2> QED  BY <2>3, <2>4
<1>6. ASSUME G!IsInjective(s) PROVE G!IsInjective(t) /\ G!Last(s) \notin G!ToSet(t)
  <2>1. \A i \in 1 .. n - 1 : i \in 1 .. n /\ i # n
    BY <1>4
  <2>2. G!IsInjective(t)
    BY <1>1, <1>3, <1>4, <1>6, <2>1 DEF G!IsInjective
  <2>3. ASSUME NEW i \in 1 .. n - 1 PROVE t[i] # s[n]
    <3>1. i \in DOMAIN s /\ n \in DOMAIN s /\ i # n
      BY <1>4, <2>1
    <3>2. t[i] = s[i]
      BY <1>3, <1>4
    <3> QED  BY <1>6, <3>1, <3>2 DEF G!IsInjective
  <2>4. G!Last(s) \notin G!ToSet(t)
    BY <1>2, <1>3, <1>4, <2>3 DEF G!ToSet
  <2> QED  BY <2>2, <2>4
<1> QED  BY <1>1, <1>2, <1>3, <1>5, <1>6 DEF t, n

\* The first element taken off.
LEMMA WithoutFirst ==
  ASSUME NEW S, NEW s \in Seq(S), s # <<>>
  PROVE  /\ Tail(s) \in Seq(S) /\ Head(s) \in S /\ Head(s) \in G!ToSet(s)
         /\ G!ToSet(s) = G!ToSet(Tail(s)) \cup {Head(s)}
<1> DEFINE t == Tail(s)
<1>1. /\ Len(s) \in Nat \ {0} /\ DOMAIN s = 1 .. Len(s) /\ Head(s) = s[1]
      /\ t \in Seq(S) /\ Len(t) = Len(s) - 1
      /\ \A i \in 1 .. Len(s) - 1 : t[i] = s[i + 1]
  OBVIOUS
<1> HIDE DEF t
<1>2. DOMAIN t = 1 .. Len(s) - 1
  BY <1>1
<1>3. Head(s) \in S /\ Head(s) \in G!ToSet(s)
  <2>1. 1 \in 1 .. Len(s)
    BY <1>1
  <2> QED  BY <1>1, <2>1 DEF G!ToSet
<1>4. G!ToSet(t) \subseteq G!ToSet(s)
  <2>1. \A i \in 1 .. Len(s) - 1 : i + 1 \in 1 .. Len(s)
    BY <1>1
  <2> QED  BY <1>1, <1>2, <2>1 DEF G!ToSet
<1>5. \A i \in 1 .. Len(s) : i = 1 \/ s[i] \in G!ToSet(t)
  <2> SUFFICES ASSUME NEW i \in 1 .. Len(s), i # 1 PROVE s[i] \in G!ToSet(t)
    OBVIOUS
  <2>1. i - 1 \in 1 .. Len(s) - 1 /\ (i - 1) + 1 = i
    BY <1>1
  <2>2. s[i] = t[i - 1]
    BY <1>1, <2>1
  <2> QED  BY <1>2, <2>1, <2>2 DEF G!ToSet
<1>6. G!ToSet(s) \subseteq G!ToSet(t) \cup {Head(s)}
  BY <1>1, <1>5 DEF G!ToSet
<1> QED  BY <1>1, <1>3, <1>4, <1>6 DEF t

-----------------------------------------------------------------------------
(* The plan *)

\* A field's candidates are edges to it, from operations of the document.
LEMMA CandidatesAre ==
  ASSUME G!Assumption, NEW k \in G!Fields \ Fixed, NEW links \in G!Links(k[1], k[2])
  PROVE  \A e \in G!CandidateEdges(k[1], k[2], links) :
            <<e.consumer, e.field>> = k /\ e.producer \in Op
<1> DEFINE op == k[1]
<1> DEFINE d == k[2]
<1>1. k = <<op, d>> /\ op \in Op
  BY DEF G!Fields
<1> HIDE DEF op, d
<1>2. ASSUME NEW p \in Op, NEW x
      PROVE  LET e == G!Edge(op, d, p, x)
             IN  <<e.consumer, e.field>> = k /\ e.producer \in Op
  BY <1>1 DEF G!Edge
<1>3. \A e \in links : \E p \in Op : e = G!Edge(op, d, p, "link")
  BY DEF G!Links, G!kSubset, op, d
<1>4. \A e \in G!Suggested(op, d) : \E p \in Op : \E x : e = G!Edge(op, d, p, x)
  BY DEF G!Suggested
<1>5. k \in DOMAIN Configured =>
         LET e == Configured[k]
         IN  <<e.consumer, e.field>> = k /\ e.producer \in Op
  BY DEF G!Assumption
<1>6. G!CandidateEdges(op, d, links) =
         IF k \in DOMAIN Configured THEN {Configured[k]}
         ELSE IF links # {} THEN links ELSE G!Suggested(op, d)
  BY <1>1 DEF G!CandidateEdges
<1>7. \A e \in G!CandidateEdges(op, d, links) :
         <<e.consumer, e.field>> = k /\ e.producer \in Op
  BY <1>2, <1>3, <1>4, <1>5, <1>6
<1> QED  BY <1>7 DEF op, d

LEMMA InitPlan ==
  ASSUME G!Assumption, G!Init
  PROVE  G!PlanInv
<1>1. /\ edges = {} /\ stack = <<>> /\ order = <<>> /\ state = "bind"
      /\ unbound = G!SetToSeq(G!Fields \ Fixed) /\ roots = G!SetToSeq(Selected)
  BY DEF G!Init
<1>2. IsFiniteSet(G!Fields \ Fixed) /\ IsFiniteSet(Selected)
  BY FS_Difference, FS_Subset, GraphSets DEF G!Assumption
<1>3. /\ unbound \in Seq(G!Fields \ Fixed)
      /\ roots \in Seq(Selected) /\ G!ToSet(roots) = Selected
  BY <1>1, <1>2, ListOf
<1>4. roots \in Seq(Op)
  BY <1>3 DEF G!Assumption
<1>5. G!ToSet(stack) = {} /\ G!Finished = {} /\ G!IsInjective(stack) /\ G!IsInjective(order)
  BY <1>1 DEF G!ToSet, G!Finished, G!IsInjective
<1> QED  BY <1>1, <1>3, <1>4, <1>5
         DEF G!PlanInv, G!TypeOK, G!Shape, G!ProducersFirst, G!Chained, G!Reached, G!Accounted

LEMMA BindKeeps ==
  ASSUME G!Assumption, G!PlanInv, G!Bind
  PROVE  G!PlanInv'
<1> DEFINE k == Head(unbound)
<1>1. /\ state = "bind" /\ unbound # <<>> /\ unbound' = Tail(unbound)
      /\ UNCHANGED <<roots, stack, order, state>>
  BY DEF G!Bind
<1>2. /\ unbound \in Seq(G!Fields \ Fixed) /\ stack = <<>> /\ order = <<>>
      /\ G!TypeOK /\ G!Shape /\ G!Accounted
  BY <1>1 DEF G!PlanInv, G!Shape
<1>3. k \in G!Fields \ Fixed /\ unbound' \in Seq(G!Fields \ Fixed)
  BY <1>1, <1>2, WithoutFirst
<1>4. PICK links \in G!Links(k[1], k[2]) :
         edges' \subseteq edges \cup G!CandidateEdges(k[1], k[2], links)
  BY DEF G!Bind
<1>5. G!TypeOK'
  <2>1. \A e \in edges' :
            <<e.consumer, e.field>> \in G!Fields \ Fixed /\ e.producer \in Op
    BY <1>2, <1>3, <1>4, CandidatesAre DEF G!TypeOK
  <2> QED  BY <1>1, <1>2, <2>1 DEF G!TypeOK
<1>6. G!ToSet(stack') = {} /\ G!ToSet(order') = {} /\ G!IsInjective(order')
      /\ DOMAIN stack' = {} /\ DOMAIN order' = {}
  BY <1>1, <1>2 DEF G!ToSet, G!IsInjective
<1>7. G!Shape'
  BY <1>1, <1>2, <1>3 DEF G!Shape, G!Finished
<1>8. G!ProducersFirst' /\ G!Chained'
  BY <1>6 DEF G!ProducersFirst, G!Chained
<1>9. G!Reached' /\ G!Accounted'
  BY <1>1, <1>2, <1>6 DEF G!Reached, G!Accounted, G!Finished
<1> QED  BY <1>5, <1>7, <1>8, <1>9 DEF G!PlanInv

LEMMA RootKeeps ==
  ASSUME G!Assumption, G!PlanInv, G!VisitRoot
  PROVE  G!PlanInv'
<1> DEFINE x == Head(roots)
<1>1. /\ state = "visit" /\ stack = <<>> /\ roots # <<>> /\ roots' = Tail(roots)
      /\ stack' = IF x \in G!Finished THEN <<>> ELSE <<x>>
      /\ UNCHANGED <<unbound, edges, warned, order, state>>
  BY DEF G!VisitRoot
<1>2. G!TypeOK /\ G!Shape /\ G!ProducersFirst /\ G!Reached /\ G!Accounted
  BY DEF G!PlanInv
<1>3. /\ roots' \in Seq(Op) /\ x \in Op /\ x \in Selected
      /\ G!ToSet(roots) = G!ToSet(roots') \cup {x}
  BY <1>1, <1>2, WithoutFirst DEF G!Shape, G!Accounted
<1>4. /\ stack' \in Seq(Op) /\ G!IsInjective(stack')
      /\ G!ToSet(stack') = IF x \in G!Finished THEN {} ELSE {x}
      /\ \A i, j \in DOMAIN stack' : ~(i < j)
      /\ x \notin G!Finished => stack' # <<>> /\ stack'[1] = x
  BY <1>1, <1>3 DEF G!ToSet, G!IsInjective
<1>5. G!TypeOK'
  BY <1>1, <1>2, <1>3, <1>4 DEF G!TypeOK
<1>6. G!Shape'
  BY <1>1, <1>2, <1>3, <1>4 DEF G!Shape, G!Finished
<1>7. G!ProducersFirst'
  BY <1>1, <1>2, OrderNext DEF G!ProducersFirst
<1>8. G!Chained'
  BY <1>1, <1>4, ChainedNext
<1>9. G!Reached'
  <2>1. x \in G!Closure(Selected, G!Needs)
    BY <1>2, <1>3, PlanClosure
  <2> QED  BY <1>1, <1>2, <1>4, <2>1, ReachedNext DEF G!Reached, G!Finished
<1>10. G!Accounted'
  BY <1>1, <1>2, <1>3, <1>4 DEF G!Accounted, G!Finished
<1> QED  BY <1>5, <1>6, <1>7, <1>8, <1>9, <1>10 DEF G!PlanInv

\* A producer visited from the innermost operation is needed by every
\* operation being visited.
LEMMA DescendKeeps ==
  ASSUME G!Assumption, G!PlanInv, NEW p \in Op, G!Descend(p)
  PROVE  G!PlanInv'
<1> DEFINE t == Append(stack, p)
<1>1. /\ state = "visit" /\ stack # <<>> /\ p \in G!Producers(G!Last(stack)) \ G!Finished
      /\ UNCHANGED <<unbound, edges, warned, roots, order>>
  BY DEF G!Descend
<1>2. G!TypeOK /\ G!Shape /\ G!ProducersFirst /\ G!Chained /\ G!Reached /\ G!Accounted
  BY DEF G!PlanInv
<1>3. CASE p \in G!ToSet(stack)
  <2>1. state' = "cycle" /\ stack' = stack
    BY <1>3 DEF G!Descend
  <2>2. G!TypeOK'
    BY <1>1, <1>2, <2>1 DEF G!TypeOK
  <2>3. (G!Producers(G!Last(stack)) \cap G!ToSet(stack))' # {}
    BY <1>1, <1>3, <2>1, CycleNext
  <2>4. G!Shape'
    BY <1>1, <1>2, <2>1, <2>3 DEF G!Shape, G!Finished
  <2>5. G!ProducersFirst' /\ G!Chained'
    BY <1>1, <1>2, <2>1, OrderNext, ChainedNext DEF G!ProducersFirst, G!Chained
  <2>6. G!Reached' /\ G!Accounted'
    BY <1>1, <1>2, <2>1, ReachedNext DEF G!Reached, G!Accounted, G!Finished
  <2> QED  BY <2>2, <2>4, <2>5, <2>6 DEF G!PlanInv
<1>4. CASE p \notin G!ToSet(stack)
  <2>1. state' = state /\ stack' = t
    BY <1>4 DEF G!Descend
  <2>2. stack \in Seq(Op) /\ G!IsInjective(stack)
    BY <1>2 DEF G!Shape, G!TypeOK
  <2>3. /\ t \in Seq(Op) /\ t # <<>> /\ Len(t) = Len(stack) + 1
        /\ DOMAIN t = 1 .. Len(stack) + 1 /\ DOMAIN stack = 1 .. Len(stack)
        /\ Len(stack) \in Nat
        /\ t[Len(stack) + 1] = p /\ \A i \in 1 .. Len(stack) : t[i] = stack[i]
        /\ G!ToSet(t) = G!ToSet(stack) \cup {p} /\ G!IsInjective(t)
    BY <1>4, <2>2, Longer
  <2>4. /\ Len(stack) \in Nat \ {0} /\ G!Last(stack) = stack[Len(stack)]
        /\ G!Last(stack) \in Op /\ G!Last(stack) \in G!ToSet(stack)
    BY <1>1, <2>2, ShorterBy
  <2> HIDE DEF t
  <2>5. G!TypeOK'
    BY <1>1, <1>2, <2>1, <2>3 DEF G!TypeOK
  <2>6. G!Shape'
    BY <1>1, <1>2, <2>1, <2>3 DEF G!Shape, G!Finished
  <2>7. G!ProducersFirst'
    BY <1>1, <1>2, OrderNext DEF G!ProducersFirst
  <2>8. G!Chained'
    <3>1. ASSUME NEW i \in 1 .. Len(stack) PROVE p \in G!Setup(stack[i])
      <4>1. stack[i] \in Op
        BY <2>2, <2>3
      <4>2. G!Last(stack) = stack[i] \/ G!Last(stack) \in G!Setup(stack[i])
        BY <1>2, <2>3, <2>4 DEF G!Chained
      <4> QED  BY <1>1, <1>2, <4>1, <4>2, SetupIs
    <3>2. ASSUME NEW i \in DOMAIN t, NEW j \in DOMAIN t, i < j
          PROVE  t[j] \in G!Setup(t[i])
      <4>1. i \in 1 .. Len(stack)
        BY <2>3, <3>2
      <4>2. CASE j = Len(stack) + 1
        BY <2>3, <3>1, <4>1, <4>2
      <4>3. CASE j \in 1 .. Len(stack)
        BY <1>2, <2>3, <3>2, <4>1, <4>3 DEF G!Chained
      <4> QED  BY <2>3, <4>2, <4>3
    <3> QED  BY <1>1, <2>1, <3>2, ChainedNext
  <2>9. G!Reached'
    <3>1. G!Last(stack) \in G!Closure(Selected, G!Needs)
      BY <1>2, <2>4 DEF G!Reached
    <3>2. p \in G!Closure(Selected, G!Needs)
      BY <1>1, <1>2, <3>1, PlanClosure
    <3> QED  BY <1>1, <1>2, <2>1, <2>3, <3>2, ReachedNext DEF G!Reached, G!Finished
  <2>10. G!Accounted'
    <3>1. 1 \in 1 .. Len(stack) /\ stack'[1] = stack[1] /\ stack' # <<>>
      BY <2>1, <2>3, <2>4
    <3> QED  BY <1>1, <1>2, <3>1 DEF G!Accounted, G!Finished
  <2> QED  BY <2>5, <2>6, <2>7, <2>8, <2>9, <2>10 DEF G!PlanInv
<1> QED  BY <1>3, <1>4

\* An operation is ordered once all its producers are.
LEMMA LeaveKeeps ==
  ASSUME G!Assumption, G!PlanInv, G!Leave
  PROVE  G!PlanInv'
<1> DEFINE x == G!Last(stack)
<1> DEFINE o == Append(order, x)
<1> DEFINE t == G!Front(stack)
<1>1. /\ state = "visit" /\ stack # <<>> /\ G!Producers(x) \subseteq G!Finished
      /\ order' = o /\ stack' = t
      /\ UNCHANGED <<unbound, edges, warned, roots, state>>
  BY DEF G!Leave
<1>2. G!TypeOK /\ G!Shape /\ G!ProducersFirst /\ G!Chained /\ G!Reached /\ G!Accounted
  BY DEF G!PlanInv
<1>3. /\ stack \in Seq(Op) /\ G!IsInjective(stack) /\ order \in Seq(Op)
      /\ G!IsInjective(order) /\ G!ToSet(stack) \cap G!ToSet(order) = {}
  BY <1>2 DEF G!Shape, G!TypeOK, G!ProducersFirst, G!Finished
<1>4. /\ Len(stack) \in Nat \ {0} /\ DOMAIN stack = 1 .. Len(stack) /\ x \in Op
      /\ x = stack[Len(stack)] /\ x \in G!ToSet(stack)
      /\ t \in Seq(Op) /\ Len(t) = Len(stack) - 1 /\ DOMAIN t = 1 .. Len(stack) - 1
      /\ \A i \in 1 .. Len(stack) - 1 : t[i] = stack[i]
      /\ G!ToSet(stack) = G!ToSet(t) \cup {x}
      /\ G!IsInjective(t) /\ x \notin G!ToSet(t)
  BY <1>1, <1>3, ShorterBy
<1>5. x \notin G!ToSet(order)
  BY <1>3, <1>4
<1>6. /\ o \in Seq(Op) /\ Len(o) = Len(order) + 1
      /\ DOMAIN o = 1 .. Len(order) + 1 /\ DOMAIN order = 1 .. Len(order)
      /\ Len(order) \in Nat
      /\ o[Len(order) + 1] = x /\ \A i \in 1 .. Len(order) : o[i] = order[i]
      /\ G!ToSet(o) = G!ToSet(order) \cup {x} /\ G!IsInjective(o)
  BY <1>3, <1>4, <1>5, Longer
<1> HIDE DEF x, o, t
<1>7. G!TypeOK'
  BY <1>1, <1>2, <1>4 DEF G!TypeOK
<1>8. G!Shape'
  BY <1>1, <1>2, <1>4, <1>6 DEF G!Shape, G!Finished
<1>9. G!ProducersFirst'
  <2>1. ASSUME NEW i \in 1 .. Len(order)
        PROVE  G!Producers(o[i]) \subseteq G!ToSet(SubSeq(o, 1, i - 1))
    <3>1. SubSeq(o, 1, i - 1) = SubSeq(order, 1, i - 1)
      BY <1>3, <1>6
    <3> QED  BY <1>2, <1>6, <3>1 DEF G!ProducersFirst
  <2>2. SubSeq(o, 1, (Len(order) + 1) - 1) = order
    BY <1>3, <1>6
  <2>3. ASSUME NEW i \in DOMAIN o
        PROVE  G!Producers(o[i]) \subseteq G!ToSet(SubSeq(o, 1, i - 1))
    <3>1. CASE i = Len(order) + 1
      BY <1>1, <1>6, <2>2, <3>1 DEF G!Finished
    <3> QED  BY <1>6, <2>1, <3>1
  <2> QED  BY <1>1, <1>6, <2>3, OrderNext
<1>10. G!Chained'
  <2>1. ASSUME NEW i \in DOMAIN t, NEW j \in DOMAIN t, i < j
        PROVE  t[j] \in G!Setup(t[i])
    BY <1>2, <1>4, <2>1 DEF G!Chained
  <2> QED  BY <1>1, <2>1, ChainedNext
<1>11. G!Reached'
  BY <1>1, <1>2, <1>4, <1>6, ReachedNext DEF G!Reached, G!Finished
<1>12. G!Accounted'
  <2>1. CASE t = <<>>
    <3>1. Len(stack) = 1
      BY <1>4, <2>1
    <3> QED  BY <1>1, <1>2, <1>4, <1>6, <2>1, <3>1 DEF G!Accounted, G!Finished
  <2>2. CASE t # <<>>
    <3>1. 1 \in 1 .. Len(stack) - 1 /\ t[1] = stack[1]
      BY <1>4, <2>2
    <3> QED  BY <1>1, <1>2, <1>6, <2>2, <3>1 DEF G!Accounted, G!Finished
  <2> QED  BY <2>1, <2>2
<1> QED  BY <1>7, <1>8, <1>9, <1>10, <1>11, <1>12 DEF G!PlanInv

LEMMA TurnKeeps ==
  ASSUME G!Assumption, G!PlanInv, G!StartVisits \/ G!Finish \/ UNCHANGED G!vars
  PROVE  G!PlanInv'
<1>1. /\ UNCHANGED <<unbound, edges, warned, roots, stack, order>>
      /\ \/ state' = "visit" /\ state = "bind"
         \/ state' = "done" /\ stack = <<>> /\ roots = <<>>
         \/ state' = state
  BY DEF G!StartVisits, G!Finish, G!vars
<1>2. G!TypeOK /\ G!Shape /\ G!ProducersFirst /\ G!Chained /\ G!Reached /\ G!Accounted
  BY DEF G!PlanInv
<1>3. G!TypeOK' /\ G!Accounted'
  BY <1>1, <1>2 DEF G!TypeOK, G!Accounted, G!Finished
<1>4. G!Shape'
  BY <1>1, <1>2, CycleNext DEF G!Shape, G!Finished
<1>5. G!ProducersFirst' /\ G!Chained' /\ G!Reached'
  BY <1>1, <1>2, OrderNext, ChainedNext, ReachedNext
  DEF G!ProducersFirst, G!Chained, G!Reached, G!Finished
<1> QED  BY <1>3, <1>4, <1>5 DEF G!PlanInv

\* Every step keeps the invariant.
LEMMA PlanStep ==
  ASSUME G!Assumption, G!PlanInv, [G!Next]_G!vars
  PROVE  G!PlanInv'
BY BindKeeps, RootKeeps, DescendKeeps, LeaveKeeps, TurnKeeps DEF G!Next, G!Visit

\* What an operation needs has been ordered before it; it is not among that.
LEMMA OrderedNeeds ==
  ASSUME G!PlanInv, NEW op \in G!Finished
  PROVE  op \in Op /\ G!Producers(op) \subseteq G!Finished /\ op \notin G!Setup(op)
<1>1. /\ G!TypeOK /\ order \in Seq(Op) /\ G!IsInjective(order)
      /\ DOMAIN order = 1 .. Len(order) /\ Len(order) \in Nat
  BY DEF G!PlanInv, G!Shape, G!ProducersFirst
<1>2. PICK n \in 1 .. Len(order) : op = order[n]
  BY <1>1 DEF G!Finished, G!ToSet
<1> DEFINE before == {order[i] : i \in 1 .. n - 1}
<1>3. \A i \in 1 .. Len(order) :
         G!Producers(order[i]) \subseteq {order[j] : j \in 1 .. i - 1}
  <2> SUFFICES ASSUME NEW i \in 1 .. Len(order)
               PROVE  G!Producers(order[i]) \subseteq {order[j] : j \in 1 .. i - 1}
    OBVIOUS
  <2>1. /\ DOMAIN SubSeq(order, 1, i - 1) = 1 .. i - 1
        /\ \A j \in 1 .. i - 1 : SubSeq(order, 1, i - 1)[j] = order[j]
    BY <1>1
  <2>2. G!ToSet(SubSeq(order, 1, i - 1)) = {order[j] : j \in 1 .. i - 1}
    BY <2>1 DEF G!ToSet
  <2> QED  BY <1>1, <2>2 DEF G!PlanInv, G!ProducersFirst
<1>4. before \in SUBSET Op /\ op \in Op /\ before \subseteq G!Finished
  BY <1>1, <1>2 DEF G!Finished, G!ToSet
<1>5. G!Producers(op) \subseteq before
  BY <1>2, <1>3
<1>6. ASSUME NEW q \in before PROVE G!Needs[q] \subseteq before
  <2>1. PICK i \in 1 .. n - 1 : q = order[i]
    OBVIOUS
  <2>2. i \in 1 .. Len(order) /\ \A j \in 1 .. i - 1 : j \in 1 .. n - 1
    BY <1>1, <1>2
  <2>3. G!Producers(q) \subseteq before
    BY <1>3, <2>1, <2>2
  <2>4. G!Needs[q] = G!Producers(q)
    BY <1>1, <1>4, NeedsIs
  <2> QED  BY <2>3, <2>4
<1>7. op \notin before
  BY <1>1, <1>2 DEF G!IsInjective
<1> HIDE DEF before
<1>8. G!Setup(op) \subseteq before
  BY <1>4, <1>5, <1>6, ClosureLeast DEF G!Setup
<1> QED  BY <1>4, <1>5, <1>7, <1>8

LEMMA PlanIsThatClosure ==
  ASSUME G!Assumption, G!PlanInv
  PROVE  G!PlanIsClosure
<1> SUFFICES ASSUME state = "done" PROVE G!Finished = G!Closure(Selected, G!Needs)
  BY DEF G!PlanIsClosure
<1>1. stack = <<>> /\ roots = <<>> /\ order \in Seq(Op) /\ G!TypeOK
  BY DEF G!PlanInv, G!Shape
<1>2. Selected \subseteq G!Finished
  <2>1. G!ToSet(roots) = {}
    BY <1>1 DEF G!ToSet
  <2> QED  BY <1>1, <2>1 DEF G!PlanInv, G!Accounted
<1>3. G!Finished \subseteq G!Closure(Selected, G!Needs)
  BY DEF G!PlanInv, G!Reached
<1>4. \A q \in G!Finished : q \in Op /\ G!Needs[q] \subseteq G!Finished
  BY <1>1, OrderedNeeds, NeedsIs
<1>5. G!Closure(Selected, G!Needs) \subseteq G!Finished
  BY <1>2, <1>4, ClosureLeast
<1> QED  BY <1>3, <1>5

LEMMA CyclesAreReal ==
  ASSUME G!Assumption, G!PlanInv
  PROVE  G!CycleIsReal
<1>1. ASSUME state = "done", NEW op \in G!Closure(Selected, G!Needs)
      PROVE  op \notin G!Setup(op)
  BY <1>1, PlanIsThatClosure, OrderedNeeds DEF G!PlanIsClosure
<1>2. ASSUME state = "cycle"
      PROVE  \E op \in G!Closure(Selected, G!Needs) : op \in G!Setup(op)
  <2>1. /\ G!TypeOK /\ G!Chained /\ G!Reached /\ stack \in Seq(Op) /\ stack # <<>>
        /\ G!Producers(G!Last(stack)) \cap G!ToSet(stack) # {}
    BY <1>2 DEF G!PlanInv, G!Shape
  <2>2. PICK p \in G!ToSet(stack) : p \in G!Producers(G!Last(stack))
    BY <2>1
  <2>3. /\ Len(stack) \in Nat \ {0} /\ DOMAIN stack = 1 .. Len(stack)
        /\ G!Last(stack) = stack[Len(stack)]
    BY <2>1, ShorterBy
  <2>4. PICK k \in 1 .. Len(stack) : p = stack[k]
    BY <2>3 DEF G!ToSet
  <2>5. p \in Op /\ p \in G!Closure(Selected, G!Needs)
    BY <2>1, <2>4 DEF G!Reached
  <2>6. G!Last(stack) = p \/ G!Last(stack) \in G!Setup(p)
    BY <2>1, <2>3, <2>4 DEF G!Chained
  <2>7. p \in G!Setup(p)
    BY <2>1, <2>2, <2>5, <2>6, SetupIs
  <2> QED  BY <2>5, <2>7
<1> QED  BY <1>1, <1>2 DEF G!CycleIsReal

-----------------------------------------------------------------------------
(* What is computed from a plan *)

LEMMA ContextIs ==
  ASSUME G!Assumption, G!TypeOK
  PROVE  [o \in Op |-> G!ContextSteps(o)] \in [Op -> SUBSET Op]
<1>1. \A o \in Op : G!Producers(o) \subseteq Op
  BY NeedsIs
<1>2. \A o, m : G!Companion(o, m) \subseteq Op
  BY DEF G!Companion
<1>3. \A o : G!Polled(o) \subseteq Op
  BY DEF G!Polled, G!Assumption
<1> QED  BY <1>1, <1>2, <1>3 DEF G!ContextSteps

LEMMA TouchedIsCovered ==
  ASSUME G!Assumption, G!TypeOK, NEW op \in Op
  PROVE  G!Touched(op) \subseteq G!dependencyContext(op)
<1> DEFINE D == G!dependencyContext(op)
<1>1. op \in D /\ D \in SUBSET Op /\ \A q \in D : G!ContextSteps(q) \subseteq D
  BY ContextIs, ClosureIs DEF G!dependencyContext
<1> HIDE DEF D
<1>2. \A q \in D : /\ G!Producers(q) \subseteq D /\ G!Companion(q, "GET") \subseteq D
                  /\ G!Companion(q, "DELETE") \subseteq D /\ G!Polled(q) \subseteq D
  BY <1>1 DEF G!ContextSteps
<1>3. G!Setup(op) \subseteq D
  <2>1. \A q \in D : G!Needs[q] \subseteq D
    BY <1>1, <1>2, NeedsIs
  <2> QED  BY <1>1, <1>2, <2>1, ClosureLeast DEF G!Setup
<1> DEFINE sent == G!Setup(op) \cup {op}
<1> DEFINE deletes ==
      UNION {G!Companion(o, "DELETE") : o \in {q \in sent : G!Role(q) = "create"}}
<1> DEFINE calls == sent \cup G!Companion(op, "GET") \cup deletes
<1>4. sent \subseteq D
  BY <1>1, <1>3
<1>5. deletes \subseteq D
  BY <1>2, <1>4
<1>6. calls \subseteq D
  BY <1>1, <1>2, <1>4, <1>5
<1> HIDE DEF sent, deletes
<1>7. UNION {G!Polled(o) : o \in calls} \subseteq D
  BY <1>2, <1>6
<1>8. calls \cup UNION {G!Polled(o) : o \in calls} \subseteq D
  BY <1>6, <1>7
<1> QED  BY <1>8 DEF G!Touched, calls, deletes, sent, D

\* The context of an operation covers all an experiment with it may send.
LEMMA AllIsCovered ==
  ASSUME G!Assumption, G!PlanInv
  PROVE  G!ContextCovers
<1>1. \A op \in G!Finished : op \in Op
  BY OrderedNeeds
<1> QED  BY <1>1, TouchedIsCovered, GraphSets DEF G!PlanInv, G!ContextCovers

\* Nothing is planned or visited twice, so every step comes nearer to the plan.
LEMMA PlanAdvances ==
  ASSUME G!PlanInv, G!Next
  PROVE  G!Advances
<1>1. /\ unbound \in Seq(G!Fields \ Fixed) /\ roots \in Seq(Op)
      /\ stack \in Seq(Op) /\ order \in Seq(Op)
      /\ G!ToSet(stack) \cap G!Finished = {}
  BY DEF G!PlanInv, G!Shape
<1>2. CASE G!Bind
  <2>1. state' = state /\ unbound # <<>> /\ unbound' = Tail(unbound)
    BY <1>2 DEF G!Bind
  <2>2. Len(unbound') < Len(unbound)
    BY <1>1, <2>1
  <2> QED  BY <2>1, <2>2 DEF G!Advances
<1>3. CASE G!StartVisits \/ G!Finish
  BY <1>3 DEF G!StartVisits, G!Finish, G!Advances
<1>4. CASE G!VisitRoot
  <2>1. /\ UNCHANGED <<unbound, order, state>> /\ roots # <<>>
        /\ roots' = Tail(roots)
    BY <1>4 DEF G!VisitRoot
  <2>2. Len(roots') < Len(roots)
    BY <1>1, <2>1
  <2> QED  BY <2>1, <2>2 DEF G!Advances
<1>5. ASSUME NEW p \in Op, G!Descend(p) PROVE G!Advances
  <2>1. /\ UNCHANGED <<unbound, roots, order>> /\ state = "visit"
        /\ \/ state' = "cycle"
           \/ stack' = Append(stack, p) /\ state' = state
    BY <1>5 DEF G!Descend
  <2>2. Len(stack) < Len(Append(stack, p))
    BY <1>1
  <2> QED  BY <2>1, <2>2 DEF G!Advances
<1>6. CASE G!Leave
  <2>1. /\ UNCHANGED <<unbound, state>> /\ stack # <<>>
        /\ order' = Append(order, G!Last(stack))
    BY <1>6 DEF G!Leave
  <2>2. G!Last(stack) \in Op /\ G!Last(stack) \in G!ToSet(stack)
    BY <1>1, <2>1, ShorterBy DEF G!PlanInv, G!TypeOK
  <2>3. G!Last(stack) \notin G!ToSet(order) /\ G!IsInjective(order)
    BY <1>1, <2>2 DEF G!Finished, G!PlanInv, G!ProducersFirst
  <2>4. G!ToSet(order') = G!ToSet(order) \cup {G!Last(stack)}
    BY <1>1, <2>1, <2>2, <2>3, Longer
  <2>5. G!Finished \subseteq G!Finished' /\ G!Finished # G!Finished'
    BY <2>3, <2>4 DEF G!Finished
  <2> QED  BY <2>1, <2>5 DEF G!Advances
<1> QED  BY <1>2, <1>3, <1>4, <1>5, <1>6 DEF G!Next, G!Visit

-----------------------------------------------------------------------------
(* Minimisation *)

\* A chunk has a size, and single fields are the chunks of the last round.
LEMMA ChunkSize ==
  ASSUME NEW n \in Nat \ {0}, NEW g \in Nat \ {0}
  PROVE  /\ (n + g - 1) \div g \in Nat \ {0}
         /\ (n + n - 1) \div n = 1
<1> DEFINE q == (n + g - 1) \div g
<1> DEFINE r == (n + g - 1) % g
<1>1. q \in Int /\ r \in 0 .. g - 1 /\ n + g - 1 = g * q + r
  OBVIOUS
<1>2. g * q >= 1
  BY <1>1
<1>3. q \in Nat \ {0}
  BY <1>1, <1>2
<1>4. (n + n - 1) \div n = 1
  <2> DEFINE s == (n + n - 1) \div n
  <2> DEFINE t == (n + n - 1) % n
  <2>1. s \in Int /\ t \in 0 .. n - 1 /\ n + n - 1 = n * s + t
    OBVIOUS
  <2> HIDE DEF s, t
  <2>2. n * s <= n + n - 1 /\ n * s >= n
    BY <2>1
  <2>3. ~(s >= 2) /\ ~(s <= 0)
    BY <2>1, <2>2
  <2>4. s = 1
    BY <2>1, <2>3
  <2> QED  BY <2>4 DEF s
<1> QED  BY <1>3, <1>4

\* What is left of a list of fields without a chunk of it.
LEMMA WithoutChunk ==
  ASSUME NEW s \in Seq(M!Fields), M!IsInjective(s), NEW a \in 1 .. Len(s),
         NEW b \in a .. Len(s)
  PROVE  LET w == SubSeq(s, 1, a - 1) \o SubSeq(s, b + 1, Len(s))
         IN /\ w \in Seq(M!Fields) /\ M!IsInjective(w) /\ Len(w) < Len(s)
            /\ a = b => M!ToSet(w) = M!ToSet(s) \ {s[a]}
<1> DEFINE u == SubSeq(s, 1, a - 1)
<1> DEFINE v == SubSeq(s, b + 1, Len(s))
<1> DEFINE w == u \o v
<1> DEFINE k == a - 1 + (Len(s) - b)
<1> DEFINE at(i) == IF i < a THEN i ELSE i + (b - a + 1)
<1>1. Len(s) \in Nat /\ a \in Nat /\ b \in Nat /\ k \in Nat
  OBVIOUS
<1>2. \A i \in 1 .. Len(s) : s[i] \in M!Fields
  OBVIOUS
<1>3. u \in Seq(M!Fields) /\ Len(u) = a - 1 /\ \A i \in 1 .. a - 1 : u[i] = s[i]
  BY <1>1, <1>2
<1>4. /\ v \in Seq(M!Fields) /\ Len(v) = Len(s) - b
      /\ \A i \in 1 .. Len(s) - b : v[i] = s[b + i]
  BY <1>1, <1>2
<1> HIDE DEF u, v
<1>5. w \in Seq(M!Fields) /\ Len(w) = k
  <2>1. u \in Seq(M!Fields) /\ v \in Seq(M!Fields)
    BY <1>3, <1>4
  <2>2. u \o v \in Seq(M!Fields) /\ Len(u \o v) = Len(u) + Len(v)
    BY <2>1
  <2> QED  BY <1>3, <1>4, <2>2
<1>6. ASSUME NEW i \in 1 .. k PROVE at(i) \in 1 .. Len(s) /\ w[i] = s[at(i)]
  <2>1. CASE i < a
    BY <1>1, <1>3, <1>4, <2>1
  <2>2. CASE i >= a
    <3>1. i - (a - 1) \in 1 .. Len(s) - b
      BY <1>1, <2>2
    <3>2. w[i] = v[i - (a - 1)]
      BY <1>1, <1>3, <1>4, <2>2
    <3>3. w[i] = s[b + (i - (a - 1))]
      BY <1>4, <3>1, <3>2
    <3>4. at(i) = b + (i - (a - 1)) /\ at(i) \in 1 .. Len(s)
      BY <1>1, <2>2
    <3> QED  BY <3>3, <3>4
  <2>3. i \in Int /\ a \in Int
    BY <1>1
  <2>4. i < a \/ i >= a
    BY <2>3
  <2> QED  BY <2>1, <2>2, <2>4
<1>7. \A i, j \in 1 .. k : at(i) = at(j) => i = j
  BY <1>1
<1> HIDE DEF w, at
<1>8. DOMAIN w = 1 .. k /\ DOMAIN s = 1 .. Len(s)
  BY <1>5
<1>9. M!IsInjective(w)
  BY <1>6, <1>7, <1>8 DEF M!IsInjective
<1>10. ASSUME a = b PROVE M!ToSet(w) = M!ToSet(s) \ {s[a]}
  <2>1. \A i \in 1 .. k : at(i) # a
    BY <1>1, <1>10 DEF at
  <2>2. ASSUME NEW i \in 1 .. k PROVE w[i] \in M!ToSet(s) \ {s[a]}
    BY <1>6, <1>8, <2>1 DEF M!ToSet, M!IsInjective
  <2>3. ASSUME NEW j \in 1 .. Len(s), j # a
        PROVE  \E i \in 1 .. k : w[i] = s[j]
    <3>1. CASE j < a
      <4>1. j \in 1 .. k /\ at(j) = j
        BY <1>1, <1>10, <3>1 DEF at
      <4> QED  BY <1>6, <4>1
    <3>2. CASE j > a
      <4>1. j - 1 \in 1 .. k /\ at(j - 1) = j
        BY <1>1, <1>10, <3>2 DEF at
      <4> QED  BY <1>6, <4>1
    <3> QED  BY <2>3, <3>1, <3>2
  <2>4. M!ToSet(w) \subseteq M!ToSet(s) \ {s[a]}
    BY <1>8, <2>2 DEF M!ToSet
  <2>5. M!ToSet(s) \ {s[a]} \subseteq M!ToSet(w)
    BY <1>8, <2>3 DEF M!ToSet
  <2> QED  BY <2>4, <2>5
<1>11. Len(w) < Len(s)
  BY <1>1, <1>5
<1> QED  BY <1>5, <1>9, <1>10, <1>11 DEF w, u, v

-----------------------------------------------------------------------------
(* The search *)

\* The chunk to be removed lies within the list, and in a round of single
\* fields it is one field.
LEMMA Chunk ==
  ASSUME M!Shape, M!Trying
  PROVE  /\ Len(changed) \in Nat \ {0} /\ start \in 1 .. Len(changed)
         /\ M!Capped \in Nat \ {0} /\ M!size \in Nat \ {0}
         /\ M!Capped = granularity \/ M!Capped = Len(changed)
         /\ granularity >= Len(changed) <=> M!Capped = Len(changed)
         /\ M!ChunkEnd \in start .. Len(changed)
         /\ granularity >= Len(changed) => M!size = 1 /\ M!ChunkEnd = start
<1>1. /\ Len(changed) \in Nat \ {0} /\ start \in 1 .. Len(changed)
      /\ granularity \in Nat \ {0}
  BY DEF M!Shape, M!Trying
<1>2. /\ M!Capped \in Nat \ {0}
      /\ M!Capped = granularity \/ M!Capped = Len(changed)
      /\ (granularity >= Len(changed) <=> M!Capped = Len(changed))
  BY <1>1 DEF M!Capped, M!Smaller
<1>3. M!size \in Nat \ {0} /\ (M!Capped = Len(changed) => M!size = 1)
  BY <1>1, <1>2, ChunkSize DEF M!size
<1>4. /\ M!ChunkEnd \in start .. Len(changed)
      /\ M!size = 1 => M!ChunkEnd = start
  BY <1>1, <1>3 DEF M!ChunkEnd, M!Smaller
<1> QED  BY <1>1, <1>2, <1>3, <1>4

\* A request that is answered keeps its answer.
LEMMA AnswersKept ==
  ASSUME M!Shape, NEW r \in M!Answers(M!ToSet(M!Without)),
         rejects' = M!Answered(M!ToSet(M!Without), r)
  PROVE  /\ rejects' \in [DOMAIN rejects' -> BOOLEAN]
         /\ M!ToSet(M!Without) \in DOMAIN rejects'
         /\ rejects'[M!ToSet(M!Without)] = r
         /\ \A x \in DOMAIN rejects :
              x \in DOMAIN rejects' /\ rejects'[x] = rejects[x]
<1> DEFINE x == M!ToSet(M!Without)
<1>1. /\ rejects \in [DOMAIN rejects -> BOOLEAN]
      /\ r \in BOOLEAN /\ (x \in DOMAIN rejects => r = rejects[x])
  BY DEF M!Shape, M!Answers
<1> HIDE DEF x
<1>2. rejects' = M!Answered(x, r)
  BY DEF x
<1>3. /\ rejects' \in [DOMAIN rejects' -> BOOLEAN]
      /\ x \in DOMAIN rejects' /\ rejects'[x] = r
      /\ \A y \in DOMAIN rejects :
            y \in DOMAIN rejects' /\ rejects'[y] = rejects[y]
  BY <1>1, <1>2 DEF M!Answered
<1> QED  BY <1>3 DEF x

\* The first state.
LEMMA InitM == M!Assumption /\ M!Init => M!MInv
<1> SUFFICES ASSUME M!Assumption, M!Init PROVE M!MInv
  OBVIOUS
<1>1. /\ changed \in Seq(M!Fields) /\ M!IsInjective(changed)
      /\ granularity = 2 /\ start = 1 /\ state = "running"
      /\ M!ToSet(changed) = M!Fields
  BY DEF M!Assumption, M!Init, M!Fields
<1>2. /\ rejects \in [DOMAIN rejects -> BOOLEAN]
      /\ M!Fields \in DOMAIN rejects /\ rejects[M!Fields]
  BY DEF M!Init
<1> QED  BY <1>1, <1>2 DEF M!MInv, M!Shape, M!StillRejected, M!SinglesTried

\* A chunk that can go goes.
LEMMA ReduceKeeps ==
  ASSUME M!MInv, M!Reduce
  PROVE  M!MInv'
<1>1. PICK r \in M!Answers(M!ToSet(M!Without)) :
        r /\ rejects' = M!Answered(M!ToSet(M!Without), r)
  BY DEF M!Reduce
<1>2. /\ changed' = M!Without /\ start' = 1 /\ state' = "running" /\ M!Trying
      /\ granularity' = IF M!Capped > 2 THEN M!Capped - 1 ELSE M!Capped
  BY DEF M!Reduce, M!Trying
<1>3. /\ rejects' \in [DOMAIN rejects' -> BOOLEAN]
      /\ M!ToSet(M!Without) \in DOMAIN rejects' /\ rejects'[M!ToSet(M!Without)]
  BY <1>1, AnswersKept DEF M!MInv
<1>4. M!Without \in Seq(M!Fields) /\ M!IsInjective(M!Without)
  BY <1>2, Chunk, WithoutChunk DEF M!MInv, M!Shape, M!Without
<1>5. granularity' \in Nat \ {0}
  BY <1>2, Chunk DEF M!MInv
<1> QED  BY <1>2, <1>3, <1>4, <1>5
         DEF M!MInv, M!Shape, M!StillRejected, M!SinglesTried

\* A chunk that is needed stays; a single one is not to be spared.
LEMMA KeepKeeps ==
  ASSUME M!MInv, M!Keep
  PROVE  M!MInv'
<1>1. PICK r \in M!Answers(M!ToSet(M!Without)) :
        ~r /\ rejects' = M!Answered(M!ToSet(M!Without), r)
  BY DEF M!Keep
<1>2. /\ changed' = changed /\ start' = start + M!size /\ state' = "running"
      /\ granularity' = M!Capped /\ M!Trying /\ M!Shape
  BY DEF M!Keep, M!Trying, M!MInv
<1>3. /\ rejects' \in [DOMAIN rejects' -> BOOLEAN]
      /\ M!ToSet(M!Without) \in DOMAIN rejects' /\ rejects'[M!ToSet(M!Without)] = r
      /\ \A x \in DOMAIN rejects :
           x \in DOMAIN rejects' /\ rejects'[x] = rejects[x]
  BY <1>1, <1>2, AnswersKept
<1>4. /\ Len(changed) \in Nat \ {0} /\ start \in 1 .. Len(changed)
      /\ M!Capped \in Nat \ {0} /\ M!size \in Nat \ {0}
      /\ M!Capped = granularity \/ M!Capped = Len(changed)
      /\ (granularity >= Len(changed) <=> M!Capped = Len(changed))
      /\ M!ChunkEnd \in start .. Len(changed)
      /\ granularity >= Len(changed) => M!size = 1 /\ M!ChunkEnd = start
  BY <1>2, Chunk
<1>5. M!Shape'
  BY <1>2, <1>3, <1>4 DEF M!Shape
<1>6. M!StillRejected'
  BY <1>2, <1>3 DEF M!MInv, M!StillRejected
<1>7. ASSUME granularity' >= Len(changed), NEW i \in 1 .. Len(changed),
             i < start'
      PROVE  M!NotSpared(changed[i])'
  <2>1. granularity >= Len(changed) /\ M!size = 1 /\ M!ChunkEnd = start
    BY <1>2, <1>4, <1>7 DEF M!Shape
  <2>2. CASE i < start
    <3>1. M!NotSpared(changed[i])
      BY <2>1, <2>2 DEF M!MInv, M!SinglesTried
    <3> QED  BY <1>2, <1>3, <3>1 DEF M!NotSpared
  <2>3. CASE i = start
    <3>1. M!ToSet(M!Without) = M!ToSet(changed) \ {changed[start]}
      BY <1>2, <1>4, <2>1, WithoutChunk DEF M!Shape, M!Without
    <3> QED  BY <1>1, <1>2, <1>3, <2>3, <3>1 DEF M!NotSpared
  <2> QED  BY <1>2, <1>4, <1>7, <2>1, <2>2, <2>3
<1>8. M!SinglesTried'
  BY <1>2, <1>7 DEF M!SinglesTried
<1> QED  BY <1>5, <1>6, <1>8 DEF M!MInv

\* A round is over: the next one has smaller chunks, or there is none.
LEMMA RefineKeeps ==
  ASSUME M!MInv, M!Refine
  PROVE  M!MInv'
<1>1. /\ changed' = changed /\ rejects' = rejects
      /\ start > Len(changed) /\ state = "running"
  BY DEF M!Refine
<1>2. CASE granularity >= Len(changed)
  <2>1. state' = "done" /\ granularity' = granularity /\ start' = start
    BY <1>2 DEF M!Refine
  <2> QED  BY <1>1, <1>2, <2>1
           DEF M!MInv, M!Shape, M!StillRejected, M!SinglesTried, M!NotSpared
<1>3. CASE ~(granularity >= Len(changed))
  <2>1. state' = state /\ granularity' = 2 * granularity /\ start' = 1
    BY <1>3 DEF M!Refine
  <2>2. M!Shape'
    BY <1>1, <2>1 DEF M!MInv, M!Shape
  <2> QED  BY <1>1, <2>1, <2>2 DEF M!MInv, M!Shape, M!StillRejected, M!SinglesTried
<1> QED  BY <1>2, <1>3

\* Every step keeps the invariant.
LEMMA MinimizeStep ==
  ASSUME M!MInv, [M!Next]_M!vars
  PROVE  M!MInv'
<1>1. CASE M!Fail
  BY <1>1 DEF M!Fail, M!MInv, M!Shape, M!StillRejected, M!SinglesTried, M!NotSpared
<1>2. CASE UNCHANGED M!vars
  BY <1>2 DEF M!vars, M!MInv, M!Shape, M!StillRejected, M!SinglesTried, M!NotSpared
<1> QED  BY <1>1, <1>2, ReduceKeeps, KeepKeeps, RefineKeeps DEF M!Next, M!Step

\* The invariant is more than what is promised.
LEMMA NothingToSpare ==
  ASSUME M!MInv
  PROVE  M!RejectionIsMinimal
<1> SUFFICES ASSUME state = "done", NEW d \in M!ToSet(changed)
             PROVE  M!NotSpared(d)
  BY DEF M!MInv, M!RejectionIsMinimal, M!OneMinimal
<1>1. PICK i \in 1 .. Len(changed) : d = changed[i]
  BY DEF M!MInv, M!Shape, M!ToSet
<1>2. i < start
  BY DEF M!MInv, M!Shape, M!SinglesTried
<1> QED  BY <1>1, <1>2 DEF M!MInv, M!SinglesTried

\* What is left always gets shorter, or is tried in smaller chunks, or the
\* round goes on with the next chunk.
LEMMA MinimizeAdvances ==
  ASSUME M!MInv, M!Next
  PROVE  M!Advances
<1>1. M!Shape
  BY DEF M!MInv
<1>2. CASE M!Fail
  BY <1>2 DEF M!Fail, M!Advances
<1>3. CASE M!Reduce
  <2>1. M!Trying /\ changed' = M!Without
    BY <1>3 DEF M!Reduce
  <2>2. Len(M!Without) < Len(changed)
    BY <1>1, <2>1, Chunk, WithoutChunk DEF M!Shape, M!Without
  <2> QED  BY <2>1, <2>2 DEF M!Advances
<1>4. CASE M!Keep
  <2>1. /\ M!Trying /\ changed' = changed /\ granularity' = M!Capped
        /\ start' = start + M!size
    BY <1>4 DEF M!Keep
  <2>2. /\ Len(changed) \in Nat /\ start \in 1 .. Len(changed)
        /\ M!Capped \in Nat /\ M!size \in Nat \ {0}
        /\ M!Capped <= Len(changed)
    BY <1>1, <2>1, Chunk DEF M!Capped, M!Smaller, M!Shape
  <2>3. M!Capped' = M!Capped
    BY <2>1, <2>2 DEF M!Capped, M!Smaller
  <2>4. start <= Len(changed) /\ start < start'
    BY <2>1, <2>2
  <2> QED  BY <2>1, <2>3, <2>4 DEF M!Advances
<1>5. CASE M!Refine
  <2>1. /\ changed' = changed /\ granularity \in Nat \ {0} /\ Len(changed) \in Nat
        /\ state' = "done" \/ (granularity < Len(changed) /\ granularity' = 2 * granularity)
    BY <1>1, <1>5 DEF M!Refine, M!Shape
  <2>2. granularity < Len(changed) /\ granularity' = 2 * granularity
        => M!Capped < M!Capped'
    BY <2>1 DEF M!Capped, M!Smaller
  <2> QED  BY <2>1, <2>2 DEF M!Advances
<1> QED  BY <1>2, <1>3, <1>4, <1>5 DEF M!Next, M!Step

-----------------------------------------------------------------------------
(* Bounds *)

(* Numbers *)

\* Up to the largest number of steps, the next distance is twice this one.
LEMMA Doubling ==
  \A n \in 0 .. 29 : 2^n \in Nat /\ 2^n > 0 /\ 2^(n + 1) = 2 * 2^n
<1> SUFFICES ASSUME NEW n \in 0 .. 29
             PROVE  2^n \in Nat /\ 2^n > 0 /\ 2^(n + 1) = 2 * 2^n
  OBVIOUS
<1>0. CASE n = 0
  BY <1>0, 2^0 = 1, 2^1 = 2
<1>1. CASE n = 1
  BY <1>1, 2^1 = 2, 2^2 = 4
<1>2. CASE n = 2
  BY <1>2, 2^2 = 4, 2^3 = 8
<1>3. CASE n = 3
  BY <1>3, 2^3 = 8, 2^4 = 16
<1>4. CASE n = 4
  BY <1>4, 2^4 = 16, 2^5 = 32
<1>5. CASE n = 5
  BY <1>5, 2^5 = 32, 2^6 = 64
<1>6. CASE n = 6
  BY <1>6, 2^6 = 64, 2^7 = 128
<1>7. CASE n = 7
  BY <1>7, 2^7 = 128, 2^8 = 256
<1>8. CASE n = 8
  BY <1>8, 2^8 = 256, 2^9 = 512
<1>9. CASE n = 9
  BY <1>9, 2^9 = 512, 2^10 = 1024
<1>10. CASE n = 10
  BY <1>10, 2^10 = 1024, 2^11 = 2048
<1>11. CASE n = 11
  BY <1>11, 2^11 = 2048, 2^12 = 4096
<1>12. CASE n = 12
  BY <1>12, 2^12 = 4096, 2^13 = 8192
<1>13. CASE n = 13
  BY <1>13, 2^13 = 8192, 2^14 = 16384
<1>14. CASE n = 14
  BY <1>14, 2^14 = 16384, 2^15 = 32768
<1>15. CASE n = 15
  BY <1>15, 2^15 = 32768, 2^16 = 65536
<1>16. CASE n = 16
  BY <1>16, 2^16 = 65536, 2^17 = 131072
<1>17. CASE n = 17
  BY <1>17, 2^17 = 131072, 2^18 = 262144
<1>18. CASE n = 18
  BY <1>18, 2^18 = 262144, 2^19 = 524288
<1>19. CASE n = 19
  BY <1>19, 2^19 = 524288, 2^20 = 1048576
<1>20. CASE n = 20
  BY <1>20, 2^20 = 1048576, 2^21 = 2097152
<1>21. CASE n = 21
  BY <1>21, 2^21 = 2097152, 2^22 = 4194304
<1>22. CASE n = 22
  BY <1>22, 2^22 = 4194304, 2^23 = 8388608
<1>23. CASE n = 23
  BY <1>23, 2^23 = 8388608, 2^24 = 16777216
<1>24. CASE n = 24
  BY <1>24, 2^24 = 16777216, 2^25 = 33554432
<1>25. CASE n = 25
  BY <1>25, 2^25 = 33554432, 2^26 = 67108864
<1>26. CASE n = 26
  BY <1>26, 2^26 = 67108864, 2^27 = 134217728
<1>27. CASE n = 27
  BY <1>27, 2^27 = 134217728, 2^28 = 268435456
<1>28. CASE n = 28
  BY <1>28, 2^28 = 268435456, 2^29 = 536870912
<1>29. CASE n = 29
  BY <1>29, 2^29 = 536870912, 2^30 = 1073741824
<1> QED
  BY <1>0, <1>1, <1>2, <1>3, <1>4, <1>5, <1>6, <1>7, <1>8, <1>9, <1>10,
     <1>11, <1>12, <1>13, <1>14, <1>15, <1>16, <1>17, <1>18, <1>19, <1>20,
     <1>21, <1>22, <1>23, <1>24, <1>25, <1>26, <1>27, <1>28, <1>29

\* A midpoint lies strictly between the ends of a bracket wider than one.
LEMMA Between ==
  ASSUME NEW g \in Int, NEW b \in Int, g - b \notin {-1, 1}, g # b
  PROVE  LET mid == b + B!Half(g - b)
         IN  /\ mid \in Int
             /\ g < b => g < mid /\ mid < b
             /\ b < g => b < mid /\ mid < g
<1>1. CASE b < g
  BY <1>1 DEF B!Half
<1>2. CASE g < b
  <2>1. /\ (-(g - b)) \div 2 \in Int /\ (-(g - b)) \div 2 > 0
        /\ (-(g - b)) \div 2 < -(g - b)
    BY <1>2
  <2> QED  BY <1>2, <2>1 DEF B!Half
<1> QED  BY <1>1, <1>2

\* The rejection the search may start from, the nearest of those known, is
\* one of them.
LEMMA NearestRejection ==
  ASSUME B!TypeOK, direction # 0, Start \in Int, B!RejectedBefore # {},
         NEW b, b = CHOOSE x \in B!RejectedBefore :
                        \A c \in B!RejectedBefore : B!Away(x) <= B!Away(c)
  PROVE  /\ b \in Int /\ B!Away(b) > 0
         /\ B!Num(b * B!Unit) \in known /\ ~B!Accepts(api, B!Num(b * B!Unit))
<1>1. \A x \in B!RejectedBefore :
        /\ x \in Int /\ B!Away(x) \in Nat /\ B!Away(x) > 0
        /\ B!Num(x * B!Unit) \in known /\ ~B!Accepts(api, B!Num(x * B!Unit))
  <2> SUFFICES ASSUME NEW w \in known, ~w.text, B!Integral(w.n), ~B!Accepts(api, w),
                      B!Away(w.n \div B!Unit) > 0
               PROVE  LET x == w.n \div B!Unit
                      IN  /\ x \in Int /\ B!Away(x) \in Nat /\ B!Away(x) > 0
                          /\ B!Num(x * B!Unit) \in known
                          /\ ~B!Accepts(api, B!Num(x * B!Unit))
    BY DEF B!RejectedBefore
  <2>1. w \in [text : BOOLEAN, n : Int]
    BY DEF B!TypeOK
  <2>2. w.n \div B!Unit \in Int /\ (w.n \div B!Unit) * B!Unit = w.n
    BY <2>1 DEF B!Integral, B!Unit
  <2>3. w = B!Num((w.n \div B!Unit) * B!Unit)
    BY <2>1, <2>2 DEF B!Num
  <2>4. B!Away(w.n \div B!Unit) \in Nat
    BY <2>2 DEF B!TypeOK, B!Away
  <2> QED  BY <2>2, <2>3, <2>4
<1> DEFINE D == {B!Away(x) : x \in B!RejectedBefore}
<1>2. \E x \in B!RejectedBefore : \A c \in B!RejectedBefore : B!Away(x) <= B!Away(c)
  <2>1. D \subseteq Nat /\ D # {}
    BY <1>1
  <2>2. PICK d \in D : \A e \in D : d <= e
    BY <2>1, Least
  <2> QED  BY <2>2
<1>3. b \in B!RejectedBefore
  BY <1>2
<1> QED  BY <1>1, <1>3

(* The invariant *)

\* What a value is.
LEMMA NumberType ==
  ASSUME NEW n \in Int
  PROVE  /\ B!Num(n) \in [text : BOOLEAN, n : Int]
         /\ B!Text(n) \in [text : BOOLEAN, n : Int]
         /\ B!Num(n * B!Unit) \in [text : BOOLEAN, n : Int]
BY DEF B!Num, B!Text, B!Unit

\* The invariant holds at first: the baseline is accepted.
LEMMA BoundsInit ==
  ASSUME B!Assumption, B!Init
  PROVE  B!BInv
<1>1. /\ api \in APIs /\ B!Accepts(api, B!Num(Start * B!Unit))
      /\ \E k \in SUBSET Samples : known = k \cup {B!Num(Start * B!Unit)}
      /\ direction = -1 /\ phase = "begin" /\ step = 0
      /\ good = Start /\ bad = 0 /\ outside = TRUE /\ rules = {}
  BY DEF B!Init
<1>2. Start \in Int /\ Steps \in Nat /\ Samples \subseteq [text : BOOLEAN, n : Int]
  BY DEF B!Assumption
<1>3. B!Num(Start * B!Unit) \in known /\ known \subseteq [text : BOOLEAN, n : Int]
  BY <1>1, <1>2, NumberType
<1>4. B!TypeOK
  BY <1>1, <1>2, <1>3 DEF B!TypeOK
<1>5. B!SearchHolds /\ B!BracketHolds /\ B!ChallengesHold
  BY <1>1, <1>3 DEF B!SearchHolds, B!BracketHolds, B!ChallengesHold
<1> QED  BY <1>1, <1>4, <1>5 DEF B!BInv

\* A side is begun at the baseline, from a rejection that is known if there
\* is one.
LEMMA BeginKeeps ==
  ASSUME B!Assumption, B!BInv, B!Begin
  PROVE  B!BInv'
<1>1. /\ direction # 0 /\ good' = Start /\ step' = 0
      /\ UNCHANGED <<api, known, direction, rest, outside, rules, interrupts>>
      /\ B!TypeOK /\ B!SearchHolds /\ \A r \in rules : B!Earned(r)
      /\ Start \in Int /\ Steps \in Nat
  BY DEF B!Begin, B!BInv, B!Assumption
<1>2. CASE B!RejectedBefore = {}
  <2>1. phase' = "double" /\ bad' = 0
    BY <1>2 DEF B!Begin
  <2>2. B!TypeOK'
    BY <1>1, <2>1 DEF B!TypeOK
  <2>3. B!Away(good)' = 0 /\ 2^(step') = 1
    BY <1>1, 2^0 = 1 DEF B!Away, B!TypeOK
  <2>4. B!SearchHolds'
    BY <1>1, <2>3 DEF B!SearchHolds
  <2>5. B!BracketHolds' /\ B!ChallengesHold'
    BY <2>1 DEF B!BracketHolds, B!ChallengesHold
  <2> QED  BY <1>1, <2>2, <2>4, <2>5 DEF B!BInv, B!Earned
<1>3. CASE B!RejectedBefore # {}
  <2>1. /\ phase' = "bisect" /\ bad' \in Int /\ B!Away(bad') > 0
        /\ B!Num(bad' * B!Unit) \in known /\ ~B!Accepts(api, B!Num(bad' * B!Unit))
    <3>1. phase' = "bisect"
          /\ bad' = CHOOSE x \in B!RejectedBefore :
                        \A c \in B!RejectedBefore : B!Away(x) <= B!Away(c)
      BY <1>3 DEF B!Begin
    <3> QED  BY <1>1, <1>3, <3>1, NearestRejection
  <2>2. B!TypeOK'
    BY <1>1, <2>1 DEF B!TypeOK
  <2>3. B!Away(good)' = 0 /\ B!Away(bad)' = B!Away(bad')
    BY <1>1 DEF B!Away, B!TypeOK
  <2>4. B!SearchHolds'
    BY <1>1, <2>1, <2>3 DEF B!SearchHolds
  <2>5. B!BracketHolds'
    BY <1>1, <2>1, <2>3 DEF B!BracketHolds, B!SearchHolds
  <2>6. B!ChallengesHold'
    BY <2>1 DEF B!ChallengesHold
  <2> QED  BY <1>1, <2>2, <2>4, <2>5, <2>6 DEF B!BInv, B!Earned
<1> QED  BY <1>2, <1>3

\* A doubling step: what it tries is farther than what was accepted before.
LEMMA DoubleKeeps ==
  ASSUME B!Assumption, B!BInv, B!Double
  PROVE  B!BInv'
<1> DEFINE p == 2^step
<1> DEFINE candidate == Start + direction * p
<1>1. /\ phase = "double" /\ step < Steps /\ step' = step + 1
      /\ known' = known \cup {B!Num(candidate * B!Unit)}
      /\ UNCHANGED <<api, direction, rest, outside, rules, interrupts>>
      /\ B!TypeOK /\ B!SearchHolds /\ \A r \in rules : B!Earned(r)
      /\ Start \in Int /\ Steps \in 1 .. 30
  BY DEF B!Double, B!Probe, B!BInv, B!Assumption
<1>2. step \in 0 .. 29 /\ step' \in 0 .. Steps
  BY <1>1 DEF B!TypeOK
<1>3. p \in Nat /\ p > 0 /\ 2^(step') = 2 * p
  BY <1>1, <1>2, Doubling
<1>4. B!Away(good) < p /\ direction \in {-1, 1}
  BY <1>1 DEF B!SearchHolds, B!TypeOK
<1>5. IF B!Accepts(api, B!Num(candidate * B!Unit))
      THEN good' = candidate /\ UNCHANGED <<phase, bad>>
      ELSE bad' = candidate /\ phase' = "bisect" /\ UNCHANGED good
  BY DEF B!Double
<1> HIDE DEF p
<1>6. candidate \in Int /\ B!Away(candidate) = p
  BY <1>1, <1>3, <1>4 DEF B!Away
<1> HIDE DEF candidate
<1>7. B!TypeOK'
  <2>1. known' \subseteq [text : BOOLEAN, n : Int]
    BY <1>1, <1>6, NumberType DEF B!TypeOK
  <2> QED  BY <1>1, <1>2, <1>5, <1>6, <2>1 DEF B!TypeOK
<1>8. CASE B!Accepts(api, B!Num(candidate * B!Unit))
  <2>1. B!Away(good)' = p /\ good' = candidate /\ phase' = "double"
    BY <1>1, <1>5, <1>6, <1>8 DEF B!Away
  <2>2. B!SearchHolds'
    BY <1>1, <1>3, <1>8, <2>1 DEF B!SearchHolds
  <2>3. B!BracketHolds' /\ B!ChallengesHold'
    BY <2>1 DEF B!BracketHolds, B!ChallengesHold
  <2> QED  BY <1>1, <1>7, <2>2, <2>3 DEF B!BInv, B!Earned
<1>9. CASE ~B!Accepts(api, B!Num(candidate * B!Unit))
  <2>1. /\ B!Away(bad)' = p /\ bad' = candidate /\ phase' = "bisect"
        /\ good' = good /\ B!Away(good)' = B!Away(good)
    BY <1>1, <1>5, <1>6, <1>9 DEF B!Away
  <2>2. B!SearchHolds'
    BY <1>1, <2>1 DEF B!SearchHolds
  <2>3. B!BracketHolds'
    BY <1>1, <1>4, <1>9, <2>1 DEF B!BracketHolds, B!SearchHolds
  <2>4. B!ChallengesHold'
    BY <2>1 DEF B!ChallengesHold
  <2> QED  BY <1>1, <1>7, <2>2, <2>3, <2>4 DEF B!BInv, B!Earned
<1> QED  BY <1>8, <1>9

\* The next side, after a bound or without one.
LEMMA NextSideKeeps ==
  ASSUME B!Assumption, B!BInv, B!NextDirection, direction # 0,
         UNCHANGED <<api, step, good, bad, rest, outside>>,
         known \subseteq known', known' \subseteq [text : BOOLEAN, n : Int],
         rules' \subseteq [dir : {-1, 1}, strict : BOOLEAN, at : Int, accepted : Int],
         \A r \in rules' : B!Earned(r)
  PROVE  B!BInv'
<1>1. B!TypeOK /\ B!SearchHolds
  BY DEF B!BInv
<1>2. direction' \in {-1, 0, 1} /\ phase' = "begin"
  BY <1>1 DEF B!NextDirection, B!TypeOK
<1>3. B!TypeOK'
  BY <1>1, <1>2 DEF B!TypeOK
<1>4. B!SearchHolds' /\ B!BracketHolds' /\ B!ChallengesHold'
  BY <1>1, <1>2 DEF B!SearchHolds, B!BracketHolds, B!ChallengesHold
<1> QED  BY <1>3, <1>4 DEF B!BInv, B!Earned

\* Halving the bracket leaves a bracket.
LEMMA BisectKeeps ==
  ASSUME B!Assumption, B!BInv, B!Bisect
  PROVE  B!BInv'
<1> DEFINE mid == bad + B!Half(good - bad)
<1>1. /\ phase = "bisect" /\ good - bad \notin {-1, 1}
      /\ known' = known \cup {B!Num(mid * B!Unit)}
      /\ UNCHANGED <<api, direction, phase, step, rest, outside, rules, interrupts>>
      /\ B!TypeOK /\ B!SearchHolds /\ B!BracketHolds /\ \A r \in rules : B!Earned(r)
      /\ Start \in Int
  BY DEF B!Bisect, B!Adjacent, B!Probe, B!BInv, B!Assumption
<1>2. IF B!Accepts(api, B!Num(mid * B!Unit))
      THEN good' = mid /\ UNCHANGED bad
      ELSE bad' = mid /\ UNCHANGED good
  BY DEF B!Bisect
<1>3. /\ good \in Int /\ bad \in Int /\ direction \in {-1, 1}
      /\ 0 <= B!Away(good) /\ B!Away(good) < B!Away(bad)
  BY <1>1 DEF B!BracketHolds, B!SearchHolds, B!TypeOK
<1>4. /\ mid \in Int
      /\ good < bad => good < mid /\ mid < bad
      /\ bad < good => bad < mid /\ mid < good
  <2>1. good # bad
    BY <1>1, <1>3 DEF B!Away
  <2> QED  BY <1>1, <1>3, <2>1, Between
<1> HIDE DEF mid
<1>5. 0 <= B!Away(mid) /\ B!Away(good) < B!Away(mid) /\ B!Away(mid) < B!Away(bad)
  BY <1>1, <1>3, <1>4 DEF B!Away
<1>6. /\ good' \in {good, mid} /\ bad' \in {bad, mid}
      /\ B!Num(good' * B!Unit) \in known' /\ B!Accepts(api, B!Num(good' * B!Unit))
      /\ B!Num(bad' * B!Unit) \in known' /\ ~B!Accepts(api, B!Num(bad' * B!Unit))
      /\ 0 <= B!Away(good') /\ B!Away(good') < B!Away(bad')
  BY <1>1, <1>2, <1>3, <1>5 DEF B!BracketHolds
<1>7. B!Away(good)' = B!Away(good') /\ B!Away(bad)' = B!Away(bad')
  BY <1>1 DEF B!Away
<1>8. B!TypeOK'
  <2>1. known' \subseteq [text : BOOLEAN, n : Int]
    BY <1>1, <1>4, NumberType DEF B!TypeOK
  <2> QED  BY <1>1, <1>3, <1>4, <1>6, <2>1 DEF B!TypeOK
<1>9. B!SearchHolds'
  <2>1. B!Num(Start * B!Unit) \in known' /\ phase' = "bisect" /\ direction' # 0
    BY <1>1, <1>3 DEF B!SearchHolds
  <2>2. B!Accepts(api, B!Num(Start * B!Unit))
    BY <1>1 DEF B!SearchHolds
  <2> QED  BY <1>1, <1>6, <1>7, <2>1, <2>2 DEF B!SearchHolds
<1>10. B!BracketHolds' /\ B!ChallengesHold'
  BY <1>1, <1>6, <1>7 DEF B!BracketHolds, B!ChallengesHold
<1> QED  BY <1>1, <1>8, <1>9, <1>10 DEF B!BInv, B!Earned

\* The challenges begin with the bracket closed.
LEMMA BracketedKeeps ==
  ASSUME B!Assumption, B!BInv, B!Bracketed
  PROVE  B!BInv'
<1>1. /\ phase = "bisect" /\ good - bad \in {-1, 1} /\ phase' = "challenge"
      /\ rest' = B!Challenges /\ outside' = TRUE
      /\ UNCHANGED <<api, known, direction, step, good, bad, rules, interrupts>>
      /\ B!TypeOK /\ B!SearchHolds /\ B!BracketHolds /\ \A r \in rules : B!Earned(r)
      /\ Start \in Int
  BY DEF B!Bracketed, B!Adjacent, B!BInv, B!Assumption
<1>2. B!TypeOK'
  BY <1>1 DEF B!TypeOK
<1>3. B!SearchHolds' /\ B!BracketHolds'
  BY <1>1 DEF B!SearchHolds, B!BracketHolds, B!Away
<1>4. bad = good + direction
  BY <1>1 DEF B!BracketHolds, B!SearchHolds, B!TypeOK, B!Away
<1>5. B!ChallengesHold'
  BY <1>1, <1>4 DEF B!ChallengesHold, B!Challenges
<1> QED  BY <1>1, <1>2, <1>3, <1>5 DEF B!BInv, B!Earned

\* A challenge adds what the API said of one value to what outside remembers.
LEMMA ChallengeKeeps ==
  ASSUME B!Assumption, B!BInv, B!Challenge
  PROVE  B!BInv'
<1> DEFINE c == Head(rest)
<1> DEFINE half == B!Accepts(api, B!Value(good, 500))
<1> DEFINE near == B!Accepts(api, B!Value(good, 999))
<1>1. /\ phase = "challenge" /\ rest # <<>> /\ rest' = Tail(rest)
      /\ known' = known \cup {B!Value(good, c)}
      /\ outside' = (outside /\ (c > 0 => B!Accepts(api, B!Value(good, c))))
      /\ UNCHANGED <<api, direction, phase, step, good, bad, rules, interrupts>>
      /\ B!TypeOK /\ B!SearchHolds /\ B!BracketHolds /\ \A r \in rules : B!Earned(r)
      /\ bad = good + direction
  BY DEF B!Challenge, B!Probe, B!BInv, B!ChallengesHold
<1>2. \/ rest = <<500, 999, -1>> /\ outside
      \/ rest = <<999, -1>> /\ (outside <=> half)
      \/ rest = <<-1>> /\ (outside <=> half /\ near)
  BY <1>1 DEF B!BInv, B!ChallengesHold, B!Challenges
<1>3. half' = half /\ near' = near
  BY <1>1 DEF B!Value
<1>4. /\ c \in Int /\ outside' \in BOOLEAN
      /\ \/ rest' = <<999, -1>> /\ (outside' <=> half)
         \/ rest' \in {<<-1>>, <<>>} /\ (outside' <=> half /\ near)
  <2> HIDE DEF half, near
  <2>0. /\ outside' \in BOOLEAN
        /\ outside' <=> outside /\ (c > 0 => B!Accepts(api, B!Value(good, c)))
    BY <1>1
  <2>1. CASE rest = <<500, 999, -1>> /\ outside
    <3>1. c = 500 /\ rest' = <<999, -1>>
      BY <1>1, <2>1
    <3> HIDE DEF c
    <3> QED  BY <2>0, <2>1, <3>1 DEF half
  <2>2. CASE rest = <<999, -1>> /\ (outside <=> half)
    <3>1. c = 999 /\ rest' = <<-1>>
      BY <1>1, <2>2
    <3> HIDE DEF c
    <3> QED  BY <2>0, <2>2, <3>1 DEF near
  <2>3. CASE rest = <<-1>> /\ (outside <=> half /\ near)
    <3>1. c = -1 /\ rest' = <<>>
      BY <1>1, <2>3
    <3> HIDE DEF c
    <3> QED  BY <2>0, <2>3, <3>1
  <2> QED  BY <1>2, <2>1, <2>2, <2>3
<1> HIDE DEF c, half, near
<1>5. B!TypeOK'
  <2>1. good * B!Unit + direction * c \in Int
    BY <1>1, <1>4 DEF B!TypeOK, B!Unit
  <2>2. known' \subseteq [text : BOOLEAN, n : Int]
    BY <1>1, <2>1, NumberType DEF B!TypeOK, B!Value
  <2> QED  BY <1>1, <1>4, <2>2 DEF B!TypeOK
<1>6. B!SearchHolds' /\ B!BracketHolds'
  BY <1>1 DEF B!SearchHolds, B!BracketHolds, B!Away
<1>7. B!ChallengesHold'
  BY <1>1, <1>3, <1>4 DEF B!ChallengesHold, half, near
<1> QED  BY <1>1, <1>5, <1>6, <1>7 DEF B!BInv, B!Earned

\* A bound that is reported has been earned.
LEMMA ConcludeKeeps ==
  ASSUME B!Assumption, B!BInv, B!Conclude
  PROVE  B!BInv'
<1>1. /\ phase = "challenge" /\ rest = <<>> /\ rules' = rules \cup {B!Bound}
      /\ known' \in {known, known \cup {B!Text(good * B!Unit), B!Text(bad * B!Unit)}}
      /\ B!NextDirection /\ UNCHANGED <<api, step, good, bad, rest, outside>>
      /\ B!TypeOK /\ B!SearchHolds /\ B!BracketHolds /\ \A r \in rules : B!Earned(r)
  BY DEF B!Conclude, B!BInv
<1>2. /\ bad = good + direction /\ direction \in {-1, 1} /\ 0 <= B!Away(good)
      /\ B!Accepts(api, B!Num(good * B!Unit)) /\ ~B!Accepts(api, B!Num(bad * B!Unit))
      /\ outside <=> /\ B!Accepts(api, B!Value(good, 500))
                     /\ B!Accepts(api, B!Value(good, 999))
      /\ good \in Int /\ bad \in Int /\ outside \in BOOLEAN
  <2>1. Len(rest) = 0 /\ Len(<<-1>>) = 1 /\ Len(<<999, -1>>) = 2
        /\ Len(B!Challenges) = 3
    BY <1>1 DEF B!Challenges
  <2>2. /\ bad = good + direction
        /\ outside <=> /\ B!Accepts(api, B!Value(good, 500))
                       /\ B!Accepts(api, B!Value(good, 999))
    BY <1>1, <2>1 DEF B!BInv, B!ChallengesHold
  <2> QED  BY <1>1, <2>2 DEF B!BracketHolds, B!SearchHolds, B!TypeOK
<1>3. B!Bound \in [dir : {-1, 1}, strict : BOOLEAN, at : Int, accepted : Int]
  BY <1>2 DEF B!Bound
<1>4. B!Earned(B!Bound)
  <2>1. /\ B!Bound.dir = direction /\ B!Bound.strict = outside /\ B!Bound.accepted = good
        /\ B!Bound.at = IF outside THEN bad ELSE good
    BY DEF B!Bound
  <2>2. /\ good * B!Unit + direction * 0 = good * B!Unit
        /\ good * B!Unit + direction * B!Unit = bad * B!Unit
    BY <1>2 DEF B!Unit
  <2> QED  BY <1>2, <2>1, <2>2 DEF B!Earned, B!Value, B!Away
<1>5. known' \subseteq [text : BOOLEAN, n : Int]
  <2>1. good * B!Unit \in Int /\ bad * B!Unit \in Int
    BY <1>2 DEF B!Unit
  <2> QED  BY <1>1, <2>1, NumberType DEF B!TypeOK
<1>6. /\ rules' \subseteq [dir : {-1, 1}, strict : BOOLEAN, at : Int, accepted : Int]
      /\ \A r \in rules' : B!Earned(r)
  BY <1>1, <1>3, <1>4 DEF B!TypeOK
<1> QED  BY <1>1, <1>2, <1>5, <1>6, NextSideKeeps

\* A search that ends early is made again from the start.
LEMMA InterruptKeeps ==
  ASSUME B!Assumption, B!BInv, B!Interrupt
  PROVE  B!BInv'
<1>1. /\ direction' = -1 /\ phase' = "begin" /\ rules' = {}
      /\ UNCHANGED <<api, known, step, good, bad, rest, outside>>
      /\ B!TypeOK /\ B!SearchHolds
  BY DEF B!Interrupt, B!BInv
<1>2. B!TypeOK'
  BY <1>1 DEF B!TypeOK
<1>3. B!SearchHolds' /\ B!BracketHolds' /\ B!ChallengesHold'
  BY <1>1 DEF B!SearchHolds, B!BracketHolds, B!ChallengesHold
<1> QED  BY <1>1, <1>2, <1>3 DEF B!BInv

\* Every step keeps the invariant.
LEMMA BoundsStep ==
  ASSUME B!Assumption, B!BInv, [B!Next]_B!vars
  PROVE  B!BInv'
<1>1. CASE B!Begin
  BY <1>1, BeginKeeps
<1>2. CASE B!Double
  BY <1>2, DoubleKeeps
<1>3. CASE B!Unbounded
  <2>1. /\ phase = "double" /\ B!NextDirection
        /\ UNCHANGED <<api, known, step, good, bad, rest, outside, rules, interrupts>>
        /\ B!TypeOK /\ B!SearchHolds /\ \A r \in rules : B!Earned(r)
    BY <1>3 DEF B!Unbounded, B!BInv
  <2>2. /\ known \subseteq known' /\ known' \subseteq [text : BOOLEAN, n : Int]
        /\ rules' \subseteq [dir : {-1, 1}, strict : BOOLEAN, at : Int, accepted : Int]
        /\ direction # 0 /\ \A r \in rules' : B!Earned(r)
    BY <2>1 DEF B!TypeOK, B!SearchHolds
  <2> QED  BY <2>1, <2>2, NextSideKeeps
<1>4. CASE B!Bisect
  BY <1>4, BisectKeeps
<1>5. CASE B!Bracketed
  BY <1>5, BracketedKeeps
<1>6. CASE B!Challenge
  BY <1>6, ChallengeKeeps
<1>7. CASE B!Conclude
  BY <1>7, ConcludeKeeps
<1>8. CASE B!Interrupt
  BY <1>8, InterruptKeeps
<1>9. CASE UNCHANGED B!vars
  <2>1. UNCHANGED <<api, known, direction, phase, step, good, bad, rest, outside, rules>>
    BY <1>9 DEF B!vars
  <2>2. B!TypeOK' /\ B!SearchHolds' /\ B!BracketHolds'
    BY <2>1 DEF B!BInv, B!TypeOK, B!SearchHolds, B!BracketHolds, B!Away
  <2>3. B!ChallengesHold'
    BY <2>1 DEF B!BInv, B!ChallengesHold, B!Value
  <2> QED  BY <2>1, <2>2, <2>3 DEF B!BInv, B!Earned
<1> QED  BY <1>1, <1>2, <1>3, <1>4, <1>5, <1>6, <1>7, <1>8, <1>9 DEF B!Next, B!Search

\* The search doubles at most Steps times, halves what lies between the ends
\* of the bracket, and has as many challenges as there are.
LEMMA BoundsAdvance ==
  ASSUME B!Assumption, B!BInv, B!Next
  PROVE  B!Advances
<1>1. /\ B!TypeOK /\ B!SearchHolds /\ B!BracketHolds /\ B!ChallengesHold
      /\ Start \in Int /\ Steps \in 1 .. 30
      /\ interrupts' = interrupts \/ B!Interrupt
  BY DEF B!BInv, B!Assumption, B!Next, B!Search, B!Begin, B!Double, B!Unbounded,
         B!Bisect, B!Bracketed, B!Challenge, B!Conclude
<1>2. CASE B!Begin
  BY <1>2 DEF B!Begin, B!Advances
<1>3. CASE B!Double
  <2>1. /\ phase = "double" /\ step < Steps /\ step' = step + 1 /\ direction' = direction
        /\ phase' = phase \/ phase' = "bisect"
    BY <1>3 DEF B!Double
  <2>2. step < step' /\ step' <= Steps
    BY <1>1, <2>1 DEF B!TypeOK
  <2> QED  BY <2>1, <2>2 DEF B!Advances
<1>4. CASE B!Unbounded \/ B!Conclude
  <2>1. direction \in {-1, 1} /\ B!NextDirection
    BY <1>1, <1>4 DEF B!Unbounded, B!Conclude, B!SearchHolds, B!TypeOK
  <2>2. <<direction, direction'>> \in {<<-1, 1>>, <<1, 0>>}
    BY <2>1 DEF B!NextDirection
  <2> QED  BY <2>2 DEF B!Advances
<1>5. CASE B!Bisect
  <2> DEFINE mid == bad + B!Half(good - bad)
  <2>1. /\ phase = "bisect" /\ good - bad \notin {-1, 1}
        /\ direction' = direction /\ phase' = phase
        /\ (good' = mid /\ bad' = bad) \/ (bad' = mid /\ good' = good)
    BY <1>5 DEF B!Bisect, B!Adjacent
  <2>2. /\ good \in Int /\ bad \in Int /\ direction \in {-1, 1}
        /\ 0 <= B!Away(good) /\ B!Away(good) < B!Away(bad)
    BY <1>1, <2>1 DEF B!BracketHolds, B!SearchHolds, B!TypeOK
  <2>3. good # bad
    BY <1>1, <2>2 DEF B!Away
  <2>4. /\ mid \in Int
        /\ good < bad => good < mid /\ mid < bad
        /\ bad < good => bad < mid /\ mid < good
    BY <2>1, <2>2, <2>3, Between
  <2> HIDE DEF mid
  <2>5. B!Away(good) < B!Away(mid) /\ B!Away(mid) < B!Away(bad)
    BY <1>1, <2>2, <2>4 DEF B!Away
  <2>6. /\ B!Away(good) \in Int /\ B!Away(bad) \in Int /\ B!Away(mid) \in Int
    BY <1>1, <2>2, <2>4 DEF B!Away
  <2>7. /\ B!Away(good) <= B!Away(good') /\ B!Away(bad') <= B!Away(bad)
        /\ B!Away(bad') - B!Away(good') < B!Away(bad) - B!Away(good)
    BY <2>1, <2>5, <2>6
  <2> QED  BY <2>1, <2>7 DEF B!Advances
<1>6. CASE B!Bracketed
  BY <1>6 DEF B!Bracketed, B!Advances
<1>7. CASE B!Challenge
  <2>1. /\ phase = "challenge" /\ phase' = phase /\ direction' = direction
        /\ rest # <<>> /\ rest' = Tail(rest)
    BY <1>7 DEF B!Challenge
  <2>2. rest \in Seq(Int)
    BY <1>1, <2>1 DEF B!ChallengesHold, B!Challenges
  <2>3. Len(rest') < Len(rest)
    BY <2>1, <2>2
  <2> QED  BY <2>1, <2>3 DEF B!Advances
<1>8. CASE B!Interrupt
  <2>1. interrupts' = interrupts + 1 /\ interrupts < MaxInterrupts
    BY <1>8 DEF B!Interrupt
  <2> QED  BY <2>1 DEF B!Advances
<1> QED  BY <1>2, <1>3, <1>4, <1>5, <1>6, <1>7, <1>8 DEF B!Next, B!Search

(* What a bound says *)

\* The interval of an API.
Within(a, n) ==
    IF a.strict THEN a.lo < n /\ n < a.hi ELSE a.lo <= n /\ n <= a.hi

\* An interval the search can resolve is all there is to what its API takes,
\* and ends on integers.
LEMMA ResolvedIsInterval ==
  ASSUME B!Assumption, NEW a \in APIs, B!Resolvable(a), NEW n \in Int
  PROVE  /\ B!Accepts(a, B!Num(n)) <=> Within(a, n) /\ (a.integral => B!Integral(n))
         /\ B!Accepts(a, B!Text(n))
              <=> Within(a, n) /\ (a.integral => B!Integral(n)) /\ a.coerces
<1>1. a.lo \in Int /\ a.hi \in Int /\ a.hole \in Int
  BY DEF B!Assumption
<1>2. a.hole < a.lo \/ a.hi < a.hole
  BY DEF B!Resolvable
<1>3. Within(a, n) => n # a.hole
  BY <1>1, <1>2 DEF Within
<1> QED  BY <1>3 DEF B!Accepts, B!Num, B!Text, Within

\* Both ends of a resolvable interval are integers.
LEMMA EndsAreIntegers ==
  ASSUME B!Assumption, NEW a \in APIs, B!Resolvable(a)
  PROVE  \E lo, hi \in Int : a.lo = 1000 * lo /\ a.hi = 1000 * hi
<1>1. a.lo \in Int /\ a.hi \in Int /\ a.lo % 1000 = 0 /\ a.hi % 1000 = 0
  BY DEF B!Assumption, B!Resolvable, B!Integral, B!Unit
<1> QED  BY <1>1

\* Which of the values around an integer are integers.
LEMMA Fractions ==
  ASSUME NEW g \in Int, NEW d \in {-1, 1}
  PROVE  /\ B!Integral(g * B!Unit) /\ B!Integral(g * B!Unit + d * 0)
         /\ B!Integral(g * B!Unit + d * B!Unit)
         /\ ~B!Integral(g * B!Unit + d * 500) /\ ~B!Integral(g * B!Unit + d * 999)
<1>1. CASE d = 1
  BY <1>1 DEF B!Integral, B!Unit
<1>2. CASE d = -1
  BY <1>2 DEF B!Integral, B!Unit
<1> QED  BY <1>1, <1>2

\* A bound that was earned, seen as a place in the interval: the accepted
\* integer is in it, the next one is not, and it is exclusive if and only if
\* fractions are taken and those between the two are in the interval.
LEMMA EarnedIsPlaced ==
  ASSUME B!Assumption, B!TypeOK, B!Resolvable(api), NEW r \in rules, B!Earned(r)
  PROVE  LET g == r.accepted
             d == r.dir
         IN  /\ g \in Int /\ d \in {-1, 1} /\ r.strict \in BOOLEAN
             /\ (g - Start) * d >= 0
             /\ Within(api, 1000 * g) /\ ~Within(api, 1000 * (g + d))
             /\ r.strict <=> /\ ~api.integral /\ Within(api, 1000 * g + 500 * d)
                             /\ Within(api, 1000 * g + 999 * d)
             /\ r.at = IF r.strict THEN g + d ELSE g
<1> DEFINE g == r.accepted
<1> DEFINE d == r.dir
<1>1. /\ r \in [dir : {-1, 1}, strict : BOOLEAN, at : Int, accepted : Int]
      /\ api \in APIs
  BY DEF B!TypeOK
<1>2. g \in Int /\ d \in {-1, 1} /\ r.strict \in BOOLEAN
  BY <1>1
<1>3. /\ B!Accepts(api, B!Num(g * B!Unit + d * 0)) /\ ~B!Accepts(api, B!Num(g * B!Unit + d * B!Unit))
      /\ r.strict <=> /\ B!Accepts(api, B!Num(g * B!Unit + d * 500))
                      /\ B!Accepts(api, B!Num(g * B!Unit + d * 999))
      /\ (g - Start) * d >= 0 /\ r.at = IF r.strict THEN g + d ELSE g
  BY DEF B!Earned
<1> HIDE DEF g, d
<1>4. /\ g * B!Unit + d * 0 = 1000 * g /\ g * B!Unit + d * B!Unit = 1000 * (g + d)
      /\ g * B!Unit + d * 500 = 1000 * g + 500 * d
      /\ g * B!Unit + d * 999 = 1000 * g + 999 * d
  BY <1>2 DEF B!Unit
<1>5. /\ 1000 * g \in Int /\ 1000 * (g + d) \in Int
      /\ 1000 * g + 500 * d \in Int /\ 1000 * g + 999 * d \in Int
  BY <1>2
<1>6. /\ B!Integral(1000 * (g + d))
      /\ ~B!Integral(1000 * g + 500 * d) /\ ~B!Integral(1000 * g + 999 * d)
  BY <1>2, <1>4, Fractions
<1>7. Within(api, 1000 * g)
  BY <1>1, <1>3, <1>4, <1>5, ResolvedIsInterval
<1>8. ~Within(api, 1000 * (g + d))
  BY <1>1, <1>3, <1>4, <1>5, <1>6, ResolvedIsInterval
<1>9. r.strict <=> /\ ~api.integral /\ Within(api, 1000 * g + 500 * d)
                   /\ Within(api, 1000 * g + 999 * d)
  <2>1. \A n \in {1000 * g + 500 * d, 1000 * g + 999 * d} :
          B!Accepts(api, B!Num(n)) <=> Within(api, n) /\ ~api.integral
    <3>1. api.integral \in BOOLEAN
      BY <1>1 DEF B!Assumption
    <3> QED  BY <1>1, <1>5, <1>6, <3>1, ResolvedIsInterval
  <2> QED  BY <1>3, <1>4, <2>1
<1> QED  BY <1>2, <1>3, <1>7, <1>8, <1>9 DEF g, d

\* A number on a bound's side of the baseline satisfies it if and only if it
\* is in the interval.
LEMMA BoundIsTheEnd ==
  ASSUME B!Assumption, B!TypeOK, B!SearchHolds, B!Resolvable(api), NEW r \in rules, B!Earned(r),
         NEW n \in Int, (n - Start * B!Unit) * r.dir >= 0, api.integral => B!Integral(n)
  PROVE  B!RuleHolds(r, n) <=> Within(api, n)
<1> DEFINE g == r.accepted
<1> DEFINE d == r.dir
<1>1. /\ g \in Int /\ d \in {-1, 1} /\ r.strict \in BOOLEAN
      /\ (g - Start) * d >= 0
      /\ Within(api, 1000 * g) /\ ~Within(api, 1000 * (g + d))
      /\ r.strict <=> /\ ~api.integral /\ Within(api, 1000 * g + 500 * d)
                      /\ Within(api, 1000 * g + 999 * d)
      /\ r.at = IF r.strict THEN g + d ELSE g
  BY EarnedIsPlaced
<1>2. /\ api \in APIs /\ Start \in Int /\ api.lo \in Int /\ api.hi \in Int
      /\ api.strict \in BOOLEAN /\ api.integral \in BOOLEAN
  BY DEF B!TypeOK, B!Assumption
<1>3. PICK lo \in Int, hi \in Int : api.lo = 1000 * lo /\ api.hi = 1000 * hi
  BY <1>2, EndsAreIntegers
<1>4. Within(api, 1000 * Start)
  <2>1. B!Accepts(api, B!Num(1000 * Start)) /\ 1000 * Start \in Int
    <3>1. Start * B!Unit = 1000 * Start
      BY <1>2 DEF B!Unit
    <3> QED  BY <1>2, <3>1 DEF B!SearchHolds
  <2> QED  BY <1>2, <2>1, ResolvedIsInterval
<1>5. /\ (n - 1000 * Start) * d >= 0
      /\ B!RuleHolds(r, n) <=>
           IF d = 1 THEN IF r.strict THEN n < 1000 * r.at ELSE n <= 1000 * r.at
           ELSE IF r.strict THEN n > 1000 * r.at ELSE n >= 1000 * r.at
  <2>1. r.at \in Int
    BY <1>1
  <2>2. r.at * B!Unit = 1000 * r.at /\ Start * B!Unit = 1000 * Start
    BY <1>2, <2>1 DEF B!Unit
  <2> QED  BY <2>2 DEF B!RuleHolds
<1>6. api.integral => \E k \in Int : n = 1000 * k
  <2>1. B!Integral(n) => \E k \in Int : n = 1000 * k
    BY DEF B!Integral, B!Unit
  <2> QED  BY <2>1
<1> HIDE DEF g, d
<1>7. CASE d = 1 /\ api.integral
  BY <1>1, <1>2, <1>3, <1>4, <1>5, <1>6, <1>7 DEF Within
<1>8. CASE d = 1 /\ ~api.integral
  BY <1>1, <1>2, <1>3, <1>4, <1>5, <1>8 DEF Within
<1>9. CASE d = -1 /\ api.integral
  BY <1>1, <1>2, <1>3, <1>4, <1>5, <1>6, <1>9 DEF Within
<1>10. CASE d = -1 /\ ~api.integral
  BY <1>1, <1>2, <1>3, <1>4, <1>5, <1>10 DEF Within
<1> QED  BY <1>1, <1>2, <1>7, <1>8, <1>9, <1>10

(* The results *)

\* For every number on its side of the baseline, not only for those near it,
\* a reported bound says what the API does (the rules discoverBounds returns).
BoundIsExact ==
    B!Resolvable(api) =>
        \A r \in rules : \A n \in Int :
            ((n - Start * B!Unit) * r.dir >= 0 /\ (api.integral => B!Integral(n)))
            => (B!RuleHolds(r, n) <=> B!Accepts(api, B!Num(n)))

\* Of every integer written as text, the two accepted ends tell whether the
\* API reads it (the integerStringRange rule).
TextRangeIsExact ==
    (B!Resolvable(api) /\ B!AcceptsText) =>
        \A low, high \in rules : (low.dir = -1 /\ high.dir = 1) =>
            \A n \in Int : B!Integral(n) =>
                ((low.accepted * B!Unit <= n /\ n <= high.accepted * B!Unit)
                 <=> B!Accepts(api, B!Text(n)))

\* What was earned is exact.
LEMMA EarnedIsExact ==
  ASSUME B!Assumption, B!BInv
  PROVE  BoundIsExact
<1> SUFFICES ASSUME B!Resolvable(api), NEW r \in rules, NEW n \in Int,
                    (n - Start * B!Unit) * r.dir >= 0, api.integral => B!Integral(n)
             PROVE  B!RuleHolds(r, n) <=> B!Accepts(api, B!Num(n))
  BY DEF BoundIsExact
<1>1. B!TypeOK /\ B!SearchHolds /\ B!Earned(r) /\ api \in APIs
  BY DEF B!BInv, B!TypeOK
<1>2. B!RuleHolds(r, n) <=> Within(api, n)
  BY <1>1, BoundIsTheEnd
<1>3. B!Accepts(api, B!Num(n)) <=> Within(api, n)
  BY <1>1, ResolvedIsInterval
<1> QED  BY <1>2, <1>3

\* Two bounds that were earned are exact for integer text.
LEMMA EarnedTextIsExact ==
  ASSUME B!Assumption, B!BInv
  PROVE  TextRangeIsExact
<1> SUFFICES ASSUME B!Resolvable(api), B!AcceptsText, NEW low \in rules, NEW high \in rules,
                    low.dir = -1, high.dir = 1, NEW n \in Int, B!Integral(n)
             PROVE  (low.accepted * B!Unit <= n /\ n <= high.accepted * B!Unit)
                    <=> B!Accepts(api, B!Text(n))
  BY DEF TextRangeIsExact
<1>1. B!TypeOK /\ B!Earned(low) /\ B!Earned(high) /\ api \in APIs
  BY DEF B!BInv, B!TypeOK
<1>2. /\ api.lo \in Int /\ api.hi \in Int /\ api.strict \in BOOLEAN
  BY <1>1 DEF B!Assumption
<1>3. api.coerces
  BY DEF B!AcceptsText, B!Accepts
<1>4. B!Accepts(api, B!Text(n)) <=> Within(api, n)
  BY <1>1, <1>3, ResolvedIsInterval
<1>5. /\ low.accepted \in Int /\ Within(api, 1000 * low.accepted)
      /\ ~Within(api, 1000 * (low.accepted + (-1)))
  BY <1>1, EarnedIsPlaced
<1>6. /\ high.accepted \in Int /\ Within(api, 1000 * high.accepted)
      /\ ~Within(api, 1000 * (high.accepted + 1))
  BY <1>1, EarnedIsPlaced
<1>7. PICK k \in Int : n = 1000 * k
  BY DEF B!Integral, B!Unit
<1>8. (low.accepted * B!Unit <= n /\ n <= high.accepted * B!Unit)
      <=> (low.accepted <= k /\ k <= high.accepted)
  BY <1>5, <1>6, <1>7 DEF B!Unit
<1>9. Within(api, n) <=> (low.accepted <= k /\ k <= high.accepted)
  BY <1>2, <1>5, <1>6, <1>7 DEF Within
<1> QED  BY <1>4, <1>8, <1>9

\* What is exact everywhere is right near the bound, where TLC looks.
LEMMA ExactIsRight ==
  ASSUME B!Assumption, B!BInv, BoundIsExact, TextRangeIsExact
  PROVE  B!BoundIsRight /\ B!TextRangeIsRight
<1>1. \A m \in Int : B!Near(m) \subseteq Int
  BY DEF B!Near, B!Unit
<1>2. \A r \in rules : B!Near(r.at) \subseteq Int /\ B!Near(r.accepted) \subseteq Int
  BY <1>1 DEF B!BInv, B!TypeOK
<1>3. B!BoundIsRight
  BY <1>2 DEF BoundIsExact, B!BoundIsRight
<1>4. B!TextRangeIsRight
  BY <1>2 DEF TextRangeIsExact, B!TextRangeIsRight
<1> QED  BY <1>3, <1>4

-----------------------------------------------------------------------------
(* What the language can say *)

\* Fields are finitely many, absence is a state, and rules mention fields that
\* are not nested in one another.
ExpressAssumption(L) ==
  /\ E(L)!FieldAssumption /\ E(L)!StateAssumption /\ E(L)!OrderAssumption
  /\ L.independent

LEMMA SameSets ==
  ASSUME NEW L
  PROVE
  /\ \A S : E(L)!Cardinality(S) = Cardinality(S)
  /\ \A S : E(L)!IsFiniteSet(S) <=> IsFiniteSet(S)
<1>1. \A S : E(L)!Cardinality(S) = Cardinality(S)
  BY DEF E!Cardinality, Cardinality
<1>2. \A S : E(L)!IsFiniteSet(S) <=> IsFiniteSet(S)
  BY DEF E!IsFiniteSet, IsFiniteSet
<1> QED  BY <1>1, <1>2

\* The condition that a literal of a clause is false.
Negated(L, l) ==
  IF "is" \in DOMAIN l
  THEN [op |-> IF l.is = "present" THEN "absent" ELSE "present",
        field |-> l.field, value |-> L.absent]
  ELSE [op |-> "eq", field |-> l.field, value |-> l.not]

LEMMA NegatedIs ==
  ASSUME NEW L, E(L)!StateAssumption, NEW l \in E(L)!ClauseLiterals
  PROVE  /\ l.field \in L.fields
         /\ Negated(L, l) \in E(L)!Literals(l.field)
         /\ \A x \in [L.fields -> L.states] :
               E(L)!LiteralHolds(Negated(L, l), x) <=> ~E(L)!LiteralTrue(l, x)
<1>1. CASE l \in [field : L.fields, is : {"present", "absent"}]
  <2>1. "is" \in DOMAIN l /\ l.field \in L.fields /\ l.is \in {"present", "absent"}
    BY <1>1
  <2>2. Negated(L, l) = [op |-> IF l.is = "present" THEN "absent" ELSE "present",
                      field |-> l.field, value |-> L.absent]
    BY <2>1 DEF Negated
  <2>3. Negated(L, l) \in E(L)!Literals(l.field)
    BY <2>1, <2>2 DEF E!Literals
  <2>4. ASSUME NEW x \in [L.fields -> L.states]
        PROVE  E(L)!LiteralHolds(Negated(L, l), x) <=> ~E(L)!LiteralTrue(l, x)
    BY <2>1, <2>2 DEF E!LiteralHolds, E!LiteralTrue
  <2> QED  BY <2>1, <2>3, <2>4
<1>2. CASE l \in [field : L.fields, not : L.states \ {L.absent, L.null}]
  <2>1. "is" \notin DOMAIN l /\ l.field \in L.fields /\ l.not \in L.states \ {L.absent, L.null}
    BY <1>2
  <2>2. Negated(L, l) = [op |-> "eq", field |-> l.field, value |-> l.not]
    BY <2>1 DEF Negated
  <2>3. Negated(L, l) \in E(L)!Literals(l.field)
    BY <2>1, <2>2 DEF E!Literals
  <2>4. ASSUME NEW x \in [L.fields -> L.states]
        PROVE  E(L)!LiteralHolds(Negated(L, l), x) <=> ~E(L)!LiteralTrue(l, x)
    BY <2>1, <2>2 DEF E!LiteralHolds, E!LiteralTrue
  <2> QED  BY <2>1, <2>3, <2>4
<1> QED  BY <1>1, <1>2 DEF E!ClauseLiterals

\* What is asserted of one field.
LEMMA OneField ==
  ASSUME NEW L, NEW d, NEW x, NEW when, NEW kind
  PROVE  /\ E(L)!AssertHolds(E(L)!Rule(kind, when, "present", {d}), x) <=> x[d] # L.absent
         /\ E(L)!AssertHolds(E(L)!Rule(kind, when, "absent", {d}), x) <=> x[d] = L.absent
<1>1. CASE x[d] # L.absent
  <2>1. {g \in {d} : x[g] # L.absent} = {d}
    BY <1>1
  <2>2. E(L)!Cardinality({g \in {d} : x[g] # L.absent}) = 1
    BY <2>1, SameSets, FS_Singleton
  <2> QED  BY <1>1, <2>2 DEF E!AssertHolds, E!Rule
<1>2. CASE x[d] = L.absent
  <2>1. {g \in {d} : x[g] # L.absent} = {}
    BY <1>2
  <2>2. E(L)!Cardinality({g \in {d} : x[g] # L.absent}) = 0
    BY <2>1, SameSets, FS_EmptySet
  <2> QED  BY <1>2, <2>2 DEF E!AssertHolds, E!Rule
<1> QED  BY <1>1, <1>2

\* The other literals of a clause, negated, are a condition of the language.
LEMMA ConditionOf ==
  ASSUME NEW L, ExpressAssumption(L), NEW c \in E(L)!RequestClauses, NEW k \in c, c # {k}
  PROVE  {Negated(L, l) : l \in c \ {k}} \in E(L)!Conditions(k.field)
<1> DEFINE others == c \ {k}
           scope == {l.field : l \in others}
           of(d) == CHOOSE l \in others : l.field = d
           choice == [d \in scope |-> Negated(L, of(d))]
<1>1. /\ c \in SUBSET E(L)!ClauseLiterals /\ Cardinality(c) \in 1 .. L.order
      /\ \A l, m \in c : l.field = m.field => l = m
      /\ \A l, m \in c : ~E(L)!Related(l.field, m.field)
  BY SameSets DEF E!RequestClauses, E!Sizes, ExpressAssumption
<1>2. L.order \in Nat \ {0} /\ IsFiniteSet(L.fields)
  BY SameSets DEF ExpressAssumption, E!OrderAssumption, E!FieldAssumption
<1>3. \A l \in c : /\ l.field \in L.fields /\ Negated(L, l) \in E(L)!Literals(l.field)
  BY <1>1, NegatedIs DEF ExpressAssumption
<1>4. \A l \in others : of(l.field) = l
  BY <1>1
<1>5. IsFiniteSet(others) /\ Cardinality(others) \in 1 .. L.order - 1
  <2> DEFINE h == [l \in c |-> l.field]
  <2>1. h \in Injection(c, L.fields)
    BY <1>1, <1>3 DEF Injection, IsInjective
  <2> HIDE DEF h
  <2>2. IsFiniteSet(c)
    BY <1>2, <2>1, FS_Injection
  <2>3. IsFiniteSet(others) /\ Cardinality(others) = Cardinality(c) - 1
    BY <2>2, FS_RemoveElement
  <2>4. Cardinality(others) \in Nat /\ Cardinality(others) # 0
    <3>1. others # {}
      OBVIOUS
    <3> HIDE DEF others
    <3> QED  BY <2>3, <3>1, FS_CardinalityType, FS_EmptySet
  <2> QED  BY <1>1, <1>2, <2>3, <2>4
<1>6. Cardinality(scope) \in 1 .. L.order - 1
  <2> DEFINE h == [l \in others |-> l.field]
  <2>1. h \in Bijection(others, scope)
    <3>1. h \in Injection(others, scope)
      BY <1>1 DEF Injection, IsInjective
    <3>2. h \in Surjection(others, scope)
      BY DEF Surjection
    <3> QED  BY <3>1, <3>2 DEF Bijection
  <2> HIDE DEF h, others, scope
  <2>2. Cardinality(scope) = Cardinality(others)
    <3>1. ExistsBijection(others, scope)
      BY <2>1 DEF ExistsBijection
    <3> QED  BY <1>5, <3>1, FS_Bijection
  <2> QED  BY <1>5, <2>2
<1>7. scope \in E(L)!Sizes(E(L)!Controllers(k.field), 1, L.order - 1)
  <2>1. scope \in SUBSET E(L)!Controllers(k.field)
    BY <1>1, <1>3 DEF E!Controllers
  <2> HIDE DEF scope
  <2> QED  BY <1>6, <2>1, SameSets DEF E!Sizes
<1>8. \A d \in scope : of(d) \in others /\ choice[d] \in E(L)!Literals(d)
  <2>1. ASSUME NEW l \in others PROVE Negated(L, of(l.field)) \in E(L)!Literals(l.field)
    <3> HIDE DEF of
    <3> QED  BY <1>3, <1>4, <2>1
  <2> QED  BY <2>1
<1>9. choice \in [scope -> UNION {E(L)!Literals(d) : d \in scope}]
  <2> DEFINE all == UNION {E(L)!Literals(d) : d \in scope}
  <2>1. \A d \in scope : choice[d] \in all
    <3> HIDE DEF choice, scope
    <3> QED  BY <1>8
  <2> HIDE DEF all, scope
  <2>2. choice \in [scope -> all]
    BY <2>1
  <2> QED  BY <2>2 DEF all
<1>10. {choice[d] : d \in scope} = {Negated(L, l) : l \in others}
  <2> HIDE DEF of
  <2> QED  BY <1>4
<1> HIDE DEF others, scope, choice
<1>11. {choice[d] : d \in scope} \in E(L)!Conditions(k.field)
  BY <1>7, <1>8, <1>9 DEF E!Conditions
<1> QED  BY <1>10, <1>11 DEF others

\* Rules of the language.
LEMMA UnaryIs ==
  ASSUME NEW L, NEW d \in L.fields
  PROVE  /\ E(L)!Rule("fieldIsRequired", {}, "present", {d}) \in E(L)!UnaryRules
         /\ E(L)!Rule("fieldIsForbidden", {}, "absent", {d}) \in E(L)!UnaryRules
<1> DEFINE of(g) == {E(L)!Rule("fieldIsRequired", {}, "present", {g}),
                     E(L)!Rule("fieldIsForbidden", {}, "absent", {g}),
                     E(L)!Rule("fieldRejectsNull", {}, "notNull", {g})}
<1>1. E(L)!UnaryRules = UNION {of(g) : g \in L.fields}
  BY DEF E!UnaryRules
<1>2. /\ E(L)!Rule("fieldIsRequired", {}, "present", {d}) \in of(d)
      /\ E(L)!Rule("fieldIsForbidden", {}, "absent", {d}) \in of(d)
  OBVIOUS
<1> HIDE DEF of
<1> QED  BY <1>1, <1>2

ConditionalName(when) ==
  IF \A l \in when : l.op = "present"
  THEN "fieldRequiredWith" ELSE "fieldRequiredWhenFieldValueIs"

LEMMA ConditionalIs ==
  ASSUME NEW L, NEW d \in L.fields, NEW when \in E(L)!Conditions(d)
  PROVE  /\ E(L)!Rule(ConditionalName(when), when, "present", {d}) \in E(L)!ConditionalRules
         /\ E(L)!Rule("fieldBlockedWhen", when, "absent", {d}) \in E(L)!ConditionalRules
<1> DEFINE of(g, w) == {E(L)!Rule(ConditionalName(w), w, "present", {g}),
                        E(L)!Rule("fieldBlockedWhen", w, "absent", {g})}
           all(g) == UNION {of(g, w) : w \in E(L)!Conditions(g)}
<1>1. E(L)!ConditionalRules = UNION {all(g) : g \in L.fields}
  BY DEF E!ConditionalRules, ConditionalName
<1>2. /\ E(L)!Rule(ConditionalName(when), when, "present", {d}) \in of(d, when)
      /\ E(L)!Rule("fieldBlockedWhen", when, "absent", {d}) \in of(d, when)
  OBVIOUS
<1> HIDE DEF of
<1>3. /\ E(L)!Rule(ConditionalName(when), when, "present", {d}) \in all(d)
      /\ E(L)!Rule("fieldBlockedWhen", when, "absent", {d}) \in all(d)
  BY <1>2
<1> HIDE DEF all
<1> QED  BY <1>1, <1>3

\* The rule that concludes one literal of a clause from the others' negations.
LEMMA ClauseIsRule ==
  ASSUME NEW L, ExpressAssumption(L), NEW c \in E(L)!RequestClauses
  PROVE  \E r \in E(L)!Language : \A x \in E(L)!Requests :
            E(L)!Holds(r, x) <=> \E l \in c : E(L)!LiteralTrue(l, x)
<1>1. PICK k \in c : "is" \in DOMAIN k
  BY DEF E!RequestClauses
<1>2. \A l \in c : l \in E(L)!ClauseLiterals
  BY DEF E!RequestClauses, E!Sizes
<1>3. k.field \in L.fields /\ k.is \in {"present", "absent"}
  <2>1. k \notin [field : L.fields, not : L.states \ {L.absent, L.null}]
    BY <1>1
  <2>2. k \in [field : L.fields, is : {"present", "absent"}]
    BY <1>2, <2>1 DEF E!ClauseLiterals
  <2> QED  BY <2>2
<1> DEFINE when == {Negated(L, l) : l \in c \ {k}}
<1>4. \E kind : E(L)!Rule(kind, when, k.is, {k.field}) \in E(L)!Language
  <2>1. CASE c = {k}
    <3>1. when = {}
      BY <2>1
    <3> HIDE DEF when
    <3> QED  BY <1>3, <3>1, UnaryIs DEF E!Language
  <2>2. CASE c # {k}
    <3>1. when \in E(L)!Conditions(k.field)
      BY <2>2, ConditionOf
    <3> HIDE DEF when
    <3> QED  BY <1>3, <3>1, ConditionalIs DEF E!Language
  <2> QED  BY <2>1, <2>2
<1> PICK kind : E(L)!Rule(kind, when, k.is, {k.field}) \in E(L)!Language
  BY <1>4
<1> DEFINE r == E(L)!Rule(kind, when, k.is, {k.field})
<1>5. ASSUME NEW x \in E(L)!Requests
      PROVE  E(L)!Holds(r, x) <=> \E l \in c : E(L)!LiteralTrue(l, x)
  <2>1. x \in [L.fields -> L.states]
    BY DEF E!Requests
  <2>2. \A l \in c : E(L)!LiteralHolds(Negated(L, l), x) <=> ~E(L)!LiteralTrue(l, x)
    BY <1>2, <2>1, NegatedIs DEF ExpressAssumption
  <2>3. E(L)!WhenHolds(r, x) <=> \A l \in c \ {k} : ~E(L)!LiteralTrue(l, x)
    BY <2>2 DEF E!WhenHolds, E!Rule
  <2>4. E(L)!AssertHolds(r, x) <=> E(L)!LiteralTrue(k, x)
    <3>1. E(L)!LiteralTrue(k, x) <=> ((x[k.field] # L.absent) <=> (k.is = "present"))
      BY <1>1 DEF E!LiteralTrue
    <3> HIDE DEF when
    <3>4. /\ E(L)!AssertHolds(E(L)!Rule(kind, when, "present", {k.field}), x)
                <=> x[k.field] # L.absent
          /\ E(L)!AssertHolds(E(L)!Rule(kind, when, "absent", {k.field}), x)
                <=> x[k.field] = L.absent
      BY OneField
    <3>2. CASE k.is = "present"
      BY <3>1, <3>2, <3>4
    <3>3. CASE k.is = "absent"
      BY <3>1, <3>3, <3>4
    <3> QED  BY <1>3, <3>2, <3>3
  <2> HIDE DEF r
  <2> QED  BY <2>3, <2>4 DEF E!Holds
<1>6. r \in E(L)!Language
  OBVIOUS
<1> HIDE DEF r
<1> QED  BY <1>5, <1>6

\* One clause more, and the language can still say it.
LEMMA ClauseKeeps ==
  ASSUME NEW L, ExpressAssumption(L), E(L)!Expressible, E(L)!Next
  PROVE  E(L)!Expressible'
<1>0. valid \subseteq E(L)!Requests
  BY DEF E!Expressible
<1>1. PICK c \in E(L)!RequestClauses : valid' = valid \cap E(L)!Meaning(c)
  BY DEF E!Next, E!AddClause
<1>2. PICK q \in E(L)!Language : \A x \in E(L)!Requests :
         E(L)!Holds(q, x) <=> \E l \in c : E(L)!LiteralTrue(l, x)
  BY ClauseIsRule
<1>3. E(L)!Sat[q] = E(L)!Meaning(c)
  BY <1>2 DEF E!Sat, E!Meaning
<1>4. ASSUME NEW x \in E(L)!Requests,
             \A r \in E(L)!Language : valid' \subseteq E(L)!Sat[r] => x \in E(L)!Sat[r]
      PROVE  x \in valid'
  <2>1. \A r \in E(L)!Language : valid \subseteq E(L)!Sat[r] => x \in E(L)!Sat[r]
    BY <1>1, <1>4
  <2>2. x \in valid
    BY <2>1 DEF E!Expressible
  <2>3. x \in E(L)!Meaning(c)
    BY <1>1, <1>3, <1>4
  <2> QED  BY <1>1, <2>2, <2>3
<1>5. valid' \subseteq E(L)!Requests
  BY <1>0, <1>1
<1>6. {x \in E(L)!Requests :
         \A r \in E(L)!Language : valid' \subseteq E(L)!Sat[r] => x \in E(L)!Sat[r]} = valid'
  BY <1>4, <1>5
<1> QED  BY <1>6 DEF E!Expressible

LEMMA AllIsExpressible ==
  ASSUME NEW L, valid = E(L)!Requests
  PROVE  E(L)!Expressible
  BY DEF E!Expressible

-----------------------------------------------------------------------------
(* All of them *)

\* What carries the theorems: the invariant of the algorithm that runs.
AlgorithmsInv ==
  /\ subject = "bounds" => B!BInv
  /\ subject = "minimize" => M!MInv
  /\ subject = "cover" => C!CoverInv
  /\ subject = "graph" => G!PlanInv
  /\ Expressible

LEMMA LanguageIs ==
  ASSUME AlgorithmsAssumption, NEW l \in DOMAIN Languages
  PROVE  l \notin Subjects /\ ExpressAssumption(Languages[l])
BY DEF AlgorithmsAssumption, ExpressAssumption

\* A behaviour begins as its subject's.
LEMMA InitOf ==
  ASSUME AlgorithmsAssumption, Init
  PROVE  /\ subject = "bounds" => B!Init
         /\ subject = "minimize" => M!Init
         /\ subject = "cover" => C!Init
         /\ subject = "graph" => G!Init
         /\ \A l \in DOMAIN Languages : subject = l => E(Languages[l])!Init
<1>1. \A l \in DOMAIN Languages : l \notin Subjects
  BY LanguageIs
<1> QED  BY <1>1 DEF Init, Subjects

\* A step is a step of its subject.
LEMMA StepOf ==
  ASSUME AlgorithmsAssumption, Next
  PROVE  /\ subject' = subject
         /\ subject = "bounds" => B!Next
         /\ subject = "minimize" => M!Next
         /\ subject = "cover" => C!Next
         /\ subject = "graph" => G!Next
         /\ \A l \in DOMAIN Languages : subject = l => E(Languages[l])!Next
<1>1. \A l \in DOMAIN Languages : l \notin Subjects
  BY LanguageIs
<1> QED
  BY <1>1 DEF Next, NextBounds, NextMinimize, NextCover, NextGraph, NextValid, Subjects

LEMMA AlgorithmsInit ==
  ASSUME AlgorithmsAssumption, Init
  PROVE  AlgorithmsInv
<1>1. B!Assumption /\ M!Assumption /\ C!Assumption /\ G!Assumption
  BY DEF AlgorithmsAssumption
<1>2. ASSUME NEW l \in DOMAIN Languages, subject = l
      PROVE  E(Languages[l])!Expressible
  <2>1. E(Languages[l])!Init
    BY <1>2, InitOf
  <2> QED  BY <2>1, AllIsExpressible DEF E!Init
<1> QED  BY <1>1, <1>2, InitOf, BoundsInit, InitM, InitInv, InitPlan
         DEF AlgorithmsInv, Expressible

LEMMA AlgorithmsStep ==
  ASSUME AlgorithmsAssumption, AlgorithmsInv, [Next]_vars
  PROVE  AlgorithmsInv'
<1>1. B!Assumption /\ M!Assumption /\ C!Assumption /\ G!Assumption
  BY DEF AlgorithmsAssumption
<1>2. /\ subject' = subject
      /\ subject = "bounds" => [B!Next]_B!vars
      /\ subject = "minimize" => [M!Next]_M!vars
      /\ subject = "cover" => [C!Next]_C!vars
      /\ subject = "graph" => [G!Next]_G!vars
  BY StepOf DEF vars, boundsVars, minimizeVars, coverVars, graphVars,
                B!vars, M!vars, C!vars, G!vars
<1>3. ASSUME NEW l \in DOMAIN Languages, subject = l
      PROVE  E(Languages[l])!Expressible'
  <2>1. E(Languages[l])!Expressible /\ ExpressAssumption(Languages[l])
    BY <1>3, LanguageIs DEF AlgorithmsInv, Expressible
  <2>2. CASE E(Languages[l])!Next
    BY <2>1, <2>2, ClauseKeeps
  <2>3. CASE UNCHANGED valid
    BY <2>1, <2>3 DEF E!Expressible
  <2> QED  BY <1>3, <2>2, <2>3, StepOf DEF vars
<1>4. Expressible'
  BY <1>2, <1>3 DEF Expressible
<1> QED  BY <1>1, <1>2, <1>4, BoundsStep, MinimizeStep, CoverStep, PlanStep
         DEF AlgorithmsInv

LEMMA AlgorithmsInvariance ==
  AlgorithmsAssumption => (Spec => []AlgorithmsInv)
<1> SUFFICES ASSUME AlgorithmsAssumption PROVE Spec => []AlgorithmsInv
  OBVIOUS
<1>1. Init => AlgorithmsInv
  BY AlgorithmsInit
<1>2. AlgorithmsInv /\ [Next]_vars => AlgorithmsInv'
  BY AlgorithmsStep
<1> QED  BY <1>1, <1>2, PTL DEF Spec

-----------------------------------------------------------------------------
(* What each algorithm promises *)

\* The search of discoverBounds keeps an accepted and a rejected integer in
\* order, its challenges remember what was accepted, and every bound rests on
\* the probes beside it, for any API at all, resolvable or not.
THEOREM BoundsEarned ==
  ASSUME B!Assumption
  PROVE  B!Spec => []B!BInv
<1>1. B!Init => B!BInv
  BY BoundsInit
<1>2. B!BInv /\ [B!Next]_B!vars => B!BInv'
  BY BoundsStep
<1> QED  BY <1>1, <1>2, PTL DEF B!Spec

\* Over an interval that ends on integers, the bounds of discoverBounds and
\* its range of integer text are the API's own, for every number on the side
\* a bound is about.
THEOREM BoundsAreExact ==
  ASSUME B!Assumption
  PROVE  B!Spec => [](/\ BoundIsExact /\ TextRangeIsExact
                      /\ B!BracketHolds /\ B!BoundIsRight /\ B!TextRangeIsRight)
<1>1. B!BInv => BoundIsExact /\ TextRangeIsExact
  BY EarnedIsExact, EarnedTextIsExact
<1>2. B!BInv => /\ BoundIsExact /\ TextRangeIsExact
                /\ B!BracketHolds /\ B!BoundIsRight /\ B!TextRangeIsRight
  BY <1>1, ExactIsRight DEF B!BInv
<1> QED  BY <1>2, BoundsEarned, PTL

\* Whatever the list of changed fields and the answers of the API: what
\* minimisation holds was seen to be rejected, also when an error ends it, and
\* of what it finishes with each single field, put back to its accepted value,
\* was seen to lead to acceptance.
THEOREM Minimal == M!Assumption => (M!Spec => []M!RejectionIsMinimal)
<1> SUFFICES ASSUME M!Assumption PROVE M!Spec => []M!RejectionIsMinimal
  OBVIOUS
<1>1. M!Init => M!MInv
  BY InitM
<1>2. M!MInv /\ [M!Next]_M!vars => M!MInv'
  BY MinimizeStep
<1> QED  BY <1>1, <1>2, NothingToSpare, PTL DEF M!Spec

LEMMA PlanInvariance == G!Assumption => (G!Spec => []G!PlanInv)
<1> SUFFICES ASSUME G!Assumption PROVE G!Spec => []G!PlanInv
  OBVIOUS
<1>1. G!Init => G!PlanInv
  BY InitPlan
<1>2. G!PlanInv /\ [G!Next]_G!vars => G!PlanInv'
  BY PlanStep
<1> QED  BY <1>1, <1>2, PTL DEF G!Spec

\* Build orders the operations of a run: an operation comes after every
\* producer of its fields, and once; what is ordered is what was selected and
\* what that needs; and a dependency cycle is reported exactly if operations
\* of the plan need each other.
THEOREM PlanIsSound ==
  ASSUME G!Assumption
  PROVE  G!Spec => [](G!TypeOK /\ G!ProducersFirst /\ G!PlanIsClosure /\ G!CycleIsReal)
<1>1. G!PlanInv => G!TypeOK /\ G!ProducersFirst
  BY DEF G!PlanInv
<1>2. G!PlanInv => G!PlanIsClosure /\ G!CycleIsReal
  BY PlanIsThatClosure, CyclesAreReal
<1> QED  BY <1>1, <1>2, PlanInvariance, PTL

\* Evidence about an operation depends on every operation its experiments may
\* send requests of (dependencyContext): producers of producers, reads, polls
\* and the deletions of what any of them creates.
THEOREM PlanCovers ==
  ASSUME G!Assumption
  PROVE  G!Spec => []G!ContextCovers
<1>1. G!PlanInv => G!ContextCovers
  BY AllIsCovered
<1> QED  BY <1>1, PlanInvariance, PTL

\* An API whose validation is any number of clauses, each over at most as many
\* fields as the interaction order says and concluding presence or absence of
\* one of them, has a network in the language of learn.Candidates that is
\* exactly it - whatever the fields, values, nesting and order.
THEOREM ClausesAreExpressible ==
  ASSUME NEW CONSTANT L, ExpressAssumption(L)
  PROVE  E(L)!Spec => []E(L)!Expressible
<1>1. E(L)!Init => E(L)!Expressible
  BY AllIsExpressible DEF E!Init
<1>2. E(L)!Expressible /\ [E(L)!Next]_valid => E(L)!Expressible'
  <2>1. CASE UNCHANGED valid
    BY <2>1 DEF E!Expressible
  <2>2. CASE E(L)!Next
    BY <2>2, ClauseKeeps
  <2> QED  BY <2>1, <2>2
<1> QED  BY <1>1, <1>2, PTL DEF E!Spec

-----------------------------------------------------------------------------
(* The same of the specification that is checked *)

\* discoverBounds: at every step the bracket, the challenges and the reported
\* bounds are what the probes support, and over an interval that ends on
\* integers a bound, and a range of integer text, is the API's own.
THEOREM AlgorithmsBounds ==
  ASSUME AlgorithmsAssumption
  PROVE  Spec => []BoundsAreRight
<1>1. AlgorithmsInv => BoundsAreRight
  BY EarnedIsExact, EarnedTextIsExact, ExactIsRight
  DEF AlgorithmsAssumption, AlgorithmsInv, BoundsAreRight
<1> QED  BY <1>1, AlgorithmsInvariance, PTL

\* Minimize: at every step, and after an error, what it holds was seen to be
\* rejected, and of a finished result no single field can be put back.
THEOREM AlgorithmsMinimize ==
  ASSUME AlgorithmsAssumption
  PROVE  Spec => []RejectionIsMinimal
<1>1. AlgorithmsInv => RejectionIsMinimal
  BY NothingToSpare DEF AlgorithmsInv, RejectionIsMinimal
<1> QED  BY <1>1, AlgorithmsInvariance, PTL

\* generate.Cover: between two fields every tuple of the fields so far is in
\* some row; within one, those before it are, and the open ones are exactly
\* those of the new field that no row has.
THEOREM AlgorithmsCover ==
  ASSUME AlgorithmsAssumption
  PROVE  Spec => []PrefixCovered
<1>1. AlgorithmsInv => PrefixCovered
  BY DEF AlgorithmsInv, PrefixCovered
<1> QED  BY <1>1, AlgorithmsInvariance, PTL

\* Build and Analyze: the plan is the closure of what is selected, producers
\* first, cycles are reported exactly if there are any, and the context of
\* each operation in it covers what its experiments may send.
THEOREM AlgorithmsPlan ==
  ASSUME AlgorithmsAssumption
  PROVE  Spec => []PlanIsRight
<1>1. AlgorithmsInv => PlanIsRight
  BY PlanIsThatClosure, CyclesAreReal, AllIsCovered
  DEF AlgorithmsAssumption, AlgorithmsInv, PlanIsRight
<1> QED  BY <1>1, AlgorithmsInvariance, PTL

\* learn.Candidates: in every language given, what an API of any clauses
\* accepts is what some network of rules accepts.
THEOREM AlgorithmsExpress ==
  ASSUME AlgorithmsAssumption
  PROVE  Spec => []Expressible
<1>1. AlgorithmsInv => Expressible
  BY DEF AlgorithmsInv
<1> QED  BY <1>1, AlgorithmsInvariance, PTL

\* Every step of every algorithm decreases a measure bounded below - bounds by
\* direction, phase, doublings, bracket and challenges; minimisation by fields,
\* chunk and position; the array by fields, stage, rows and open tuples; the
\* plan by what is left to bind, order, start and visit - and Cover adds no row
\* in vain.
THEOREM EveryStepAdvances ==
  ASSUME AlgorithmsAssumption
  PROVE  Spec => [][AlgorithmsAdvance]_vars
<1>1. AlgorithmsInv /\ Next => AlgorithmsAdvance
  BY StepOf, BoundsAdvance, MinimizeAdvances, CoverAdvances, NewRowsTeach, PlanAdvances
  DEF AlgorithmsAssumption, AlgorithmsInv, AlgorithmsAdvance
<1>2. AlgorithmsInv /\ [Next]_vars => [AlgorithmsAdvance]_vars
  BY <1>1
<1> QED  BY <1>2, AlgorithmsInvariance, PTL DEF Spec
================================================================================
