------------------------------ MODULE CoverProofs ------------------------------
(***************************************************************************)
(* Whatever numbers of values the fields have, every combination of as     *)
(* many fields as the interaction order says is in some row, no row is     *)
(* added in vain, and every step comes nearer to the end.  The invariant   *)
(* that carries the proof is CoverInv.  Instance names are those of        *)
(* Algorithms; AlgorithmProofs builds on this module.                      *)
(***************************************************************************)
EXTENDS Algorithms, Sequences, FiniteSetTheorems, WellFoundedInduction, TLAPS

(* The operators Cover has from the community modules. *)
LEMMA CoverSets ==
  \A S : C!Cardinality(S) = Cardinality(S)
BY DEF C!Cardinality, Cardinality

(* Numbers and finite sets *)

\* A set of numbers that is not empty has a least one.
LEMMA Least ==
  ASSUME NEW S \in SUBSET Nat, S # {}
  PROVE  \E x \in S : \A y \in S : x <= y
<1> DEFINE R == OpToRel(<, Nat)
<1>1. IsWellFoundedOn(R, Nat)
  BY NatLessThanWellFounded
<1>2. \A x, y \in Nat : x < y => <<x, y>> \in R
  BY DEF OpToRel
<1> HIDE DEF R
<1>3. PICK x \in S : \A y \in S : ~(<<y, x>> \in R)
  BY <1>1, WFMin
<1>4. ASSUME NEW y \in S PROVE x <= y
  <2>1. x \in Nat /\ y \in Nat
    OBVIOUS
  <2>2. ~(y < x)
    BY <1>2, <1>3, <2>1
  <2> QED  BY <2>1, <2>2
<1> QED  BY <1>4

\* Best finds a value.
LEMMA BestIs ==
  ASSUME NEW n \in Nat \ {0}, NEW score \in [0 .. n - 1 -> Nat],
         NEW b \in Nat, \A v \in 0 .. n - 1 : score[v] <= b
  PROVE  C!Best(score) \in 0 .. n - 1
<1> DEFINE D == 0 .. n - 1
<1> DEFINE bounds == {c \in Nat : \A v \in D : score[v] <= c}
<1>1. PICK c \in bounds : \A d \in bounds : c <= d
  <2>1. bounds \in SUBSET Nat /\ b \in bounds
    OBVIOUS
  <2> HIDE DEF bounds
  <2> QED  BY <2>1, Least
<1>2. \E v \in D : score[v] = c
  <2> SUFFICES ASSUME \A v \in D : score[v] # c PROVE FALSE
    OBVIOUS
  <2>1. \A v \in D : score[v] \in Nat /\ score[v] <= c
    BY <1>1
  <2>2. c # 0
    <3>1. 0 \in D
      OBVIOUS
    <3> QED  BY <2>1, <3>1
  <2>3. c \in Nat
    BY <1>1
  <2> HIDE DEF D
  <2>4. \A v \in D : score[v] <= c - 1
    BY <2>1, <2>3
  <2>5. c - 1 \in bounds
    BY <2>2, <2>3, <2>4
  <2> QED  BY <1>1, <2>3, <2>5
<1> DEFINE best == {v \in D : score[v] = c}
<1>3. PICK v \in best : \A w \in best : v <= w
  <2>1. best \in SUBSET Nat /\ best # {}
    BY <1>2
  <2> HIDE DEF best
  <2> QED  BY <2>1, Least
<1>4. \A w \in D : score[w] < score[v] \/ (score[w] = score[v] /\ v <= w)
  <2> SUFFICES ASSUME NEW w \in D
               PROVE  score[w] < score[v] \/ (score[w] = score[v] /\ v <= w)
    OBVIOUS
  <2>1. score[v] = c /\ score[w] \in Nat /\ c \in Nat /\ score[w] <= c
    BY <1>1, <1>3
  <2>2. CASE score[w] = c
    BY <1>3, <2>1, <2>2
  <2>3. CASE score[w] # c
    BY <2>1, <2>3
  <2> QED  BY <2>2, <2>3
<1>5. v \in DOMAIN score /\ DOMAIN score = D
  BY <1>3
<1> HIDE DEF D, best
<1>6. C!Best(score) \in DOMAIN score
  BY <1>4, <1>5 DEF C!Best
<1> QED  BY <1>5, <1>6 DEF D

LEMMA ImageIsFinite ==
  ASSUME NEW S, IsFiniteSet(S), NEW g, DOMAIN g = S
  PROVE  IsFiniteSet({g[x] : x \in S})
<1> DEFINE T == {g[x] : x \in S}
<1> DEFINE h == [x \in S |-> g[x]]
<1>1. h \in Surjection(S, T)
  BY DEF Surjection
<1> HIDE DEF h, T
<1>2. IsFiniteSet(T)
  BY <1>1, FS_Surjection
<1> QED  BY <1>2 DEF T

\* Finitely many functions from a finite set to another: each is a set of pairs.
LEMMA FunctionsAreFinite ==
  ASSUME NEW S, NEW T, IsFiniteSet(S), IsFiniteSet(T)
  PROVE  IsFiniteSet([S -> T])
<1> DEFINE Graph(g) == {<<x, g[x]>> : x \in S}
<1> DEFINE h == [g \in [S -> T] |-> Graph(g)]
<1>1. IsFiniteSet(SUBSET (S \X T))
  BY FS_Product, FS_SUBSET
<1>2. \A g \in [S -> T] : Graph(g) \in SUBSET (S \X T)
  OBVIOUS
<1>3. ASSUME NEW g \in [S -> T], NEW k \in [S -> T], Graph(g) = Graph(k)
      PROVE  g = k
  <2>1. ASSUME NEW x \in S PROVE g[x] = k[x]
    <3>1. <<x, g[x]>> \in Graph(k)
      BY <1>3
    <3> QED  BY <3>1
  <2> QED  BY <2>1
<1>4. h \in Injection([S -> T], SUBSET (S \X T))
  <2> HIDE DEF Graph
  <2> QED  BY <1>2, <1>3 DEF Injection, IsInjective
<1> HIDE DEF h
<1> QED  BY <1>1, <1>4, FS_Injection

-----------------------------------------------------------------------------
(* Tuples *)

LEMMA SizeIs ==
  ASSUME C!Shape, NEW i \in 1 .. Len(sizes)
  PROVE  /\ sizes[i] \in Nat \ {0} /\ C!Values(i) = 0 .. sizes[i] - 1
         /\ C!Values(i) \subseteq Nat /\ IsFiniteSet(C!Values(i)) /\ 0 \in C!Values(i)
<1>1. sizes[i] \in Nat \ {0}
  BY DEF C!Shape
<1> HIDE DEF C!Shape
<1>2. 0 \in Int /\ sizes[i] - 1 \in Int
  BY <1>1
<1>3. IsFiniteSet(0 .. sizes[i] - 1)
  BY <1>2, FS_Interval
<1> QED  BY <1>1, <1>3 DEF C!Values

LEMMA AssignmentIs ==
  ASSUME NEW fields, NEW t \in C!Assignments(fields)
  PROVE  DOMAIN t = fields /\ \A i \in fields : t[i] \in C!Values(i)
  BY DEF C!Assignments

LEMMA TuplesAreFinite ==
  ASSUME C!Shape, NEW n \in 1 .. Len(sizes)
  PROVE  IsFiniteSet(C!Tuples(n))
<1>1. Len(sizes) \in Nat
  BY DEF C!Shape
<1>2. IsFiniteSet(1 .. n) /\ IsFiniteSet(1 .. n - 1)
  BY <1>1, FS_Interval
<1>3. IsFiniteSet(C!Scopes(n - 1, order - 1))
  <2>1. IsFiniteSet(SUBSET (1 .. n - 1))
    BY <1>2, FS_SUBSET
  <2>2. C!Scopes(n - 1, order - 1) \in SUBSET SUBSET (1 .. n - 1)
    BY DEF C!Scopes
  <2> QED  BY <2>1, <2>2, FS_Subset
<1>4. ASSUME NEW s \in SUBSET (1 .. n)
      PROVE  IsFiniteSet(C!Assignments(s))
  <2>1. IsFiniteSet(s)
    BY <1>2, FS_Subset
  <2>2. \A i \in s : i \in 1 .. Len(sizes)
    BY <1>1
  <2> DEFINE g == [i \in s |-> C!Values(i)]
  <2>3. IsFiniteSet({g[i] : i \in s})
    BY <2>1, ImageIsFinite
  <2>4. \A i \in s : IsFiniteSet(g[i])
    BY <2>2, SizeIs
  <2>5. IsFiniteSet(UNION {g[i] : i \in s})
    <3> HIDE DEF g
    <3> QED  BY <2>3, <2>4, FS_UNION
  <2>6. UNION {g[i] : i \in s} = UNION {C!Values(i) : i \in s}
    OBVIOUS
  <2>7. IsFiniteSet([s -> UNION {C!Values(i) : i \in s}])
    BY <2>1, <2>5, <2>6, FunctionsAreFinite
  <2>8. C!Assignments(s) \in SUBSET [s -> UNION {C!Values(i) : i \in s}]
    BY DEF C!Assignments
  <2> QED  BY <2>7, <2>8, FS_Subset
<1> DEFINE h == [s \in C!Scopes(n - 1, order - 1) |-> C!Assignments(s \cup {n})]
<1>5. IsFiniteSet({h[s] : s \in C!Scopes(n - 1, order - 1)})
  BY <1>3, ImageIsFinite
<1>6. \A s \in C!Scopes(n - 1, order - 1) : IsFiniteSet(h[s])
  <2>1. \A s \in C!Scopes(n - 1, order - 1) : s \cup {n} \in SUBSET (1 .. n)
    BY <1>1 DEF C!Scopes
  <2> QED  BY <1>4, <2>1
<1>7. IsFiniteSet(UNION {h[s] : s \in C!Scopes(n - 1, order - 1)})
  <2> HIDE DEF h
  <2> QED  BY <1>5, <1>6, FS_UNION
<1>8. C!Tuples(n) = UNION {h[s] : s \in C!Scopes(n - 1, order - 1)}
  BY DEF C!Tuples
<1> QED  BY <1>7, <1>8

\* A tuple of a field assigns a value to it and to fields before it.
LEMMA TupleIs ==
  ASSUME C!Shape, NEW n \in 1 .. Len(sizes), NEW t \in C!Tuples(n)
  PROVE  /\ DOMAIN t \in SUBSET (1 .. n) /\ n \in DOMAIN t
         /\ t \in [DOMAIN t -> Nat] /\ \A i \in DOMAIN t : t[i] \in C!Values(i)
<1>1. PICK s \in C!Scopes(n - 1, order - 1) : t \in C!Assignments(s \cup {n})
  BY DEF C!Tuples
<1>2. DOMAIN t = s \cup {n} /\ \A i \in s \cup {n} : t[i] \in C!Values(i)
  BY <1>1, AssignmentIs
<1>3. Len(sizes) \in Nat /\ s \subseteq 1 .. n - 1
  BY <1>1 DEF C!Shape, C!Scopes
<1>4. DOMAIN t \in SUBSET (1 .. n) /\ n \in DOMAIN t
  BY <1>2, <1>3
<1>5. \A i \in DOMAIN t : i \in 1 .. Len(sizes)
  BY <1>3, <1>4
<1>6. \A i \in DOMAIN t : t[i] \in Nat
  BY <1>2, <1>5, SizeIs
<1>7. t = [i \in DOMAIN t |-> t[i]]
  BY <1>1 DEF C!Assignments
<1> QED  BY <1>2, <1>4, <1>6, <1>7

\* The tuples over the first n fields are those without the last and its own.
LEMMA ScopesWith ==
  ASSUME C!Shape, NEW n \in 1 .. Len(sizes), NEW s \in C!Scopes(n, order),
         NEW t \in C!Assignments(s)
  PROVE  s \in C!Scopes(n - 1, order) \/ t \in C!Tuples(n)
<1>1. Len(sizes) \in Nat /\ order \in Nat \ {0} /\ n \in Nat \ {0}
  BY DEF C!Shape
<1>2. s \in SUBSET (1 .. n) /\ Cardinality(s) = order
  BY CoverSets DEF C!Scopes
<1>3. CASE n \notin s
  <2>1. s \in SUBSET (1 .. n - 1)
    BY <1>1, <1>2, <1>3
  <2> QED  BY <1>2, <2>1 DEF C!Scopes
<1>4. CASE n \in s
  <2>1. IsFiniteSet(s)
    <3>1. IsFiniteSet(1 .. n)
      BY <1>1, FS_Interval
    <3> QED  BY <1>2, <3>1, FS_Subset
  <2>2. Cardinality(s \ {n}) = order - 1
    BY <1>2, <1>4, <2>1, FS_RemoveElement
  <2>3. s \ {n} \in SUBSET (1 .. n - 1)
    BY <1>1, <1>2
  <2>4. (s \ {n}) \cup {n} = s
    BY <1>4
  <2>5. s \ {n} \in C!Scopes(n - 1, order - 1)
    BY <2>2, <2>3, CoverSets DEF C!Scopes
  <2> QED  BY <2>4, <2>5 DEF C!Tuples
<1> QED  BY <1>3, <1>4

(* Filling a row *)

\* Fill keeps the row and gives it a value of the field, if it has none.
LEMMA FillIs ==
  ASSUME C!Shape, IsFiniteSet(open), NEW i \in 1 .. Len(sizes), NEW row,
         row = [j \in DOMAIN row |-> row[j]]
  PROVE  /\ C!Fill(row, i) = [j \in DOMAIN row \cup {i} |-> C!Fill(row, i)[j]]
         /\ DOMAIN C!Fill(row, i) = DOMAIN row \cup {i}
         /\ \A j \in DOMAIN row : C!Fill(row, i)[j] = row[j]
         /\ i \notin DOMAIN row => C!Fill(row, i)[i] \in C!Values(i)
<1> DEFINE fits(v) == {u \in open : C!Compatible(C!With(row, i, v), u)}
<1> DEFINE score == [v \in C!Values(i) |-> Cardinality(fits(v))]
<1>1. C!Best(score) \in C!Values(i)
  <2>1. Cardinality(open) \in Nat
    BY FS_CardinalityType
  <2>2. ASSUME NEW v \in C!Values(i)
        PROVE  Cardinality(fits(v)) \in Nat /\ Cardinality(fits(v)) <= Cardinality(open)
    <3>1. fits(v) \in SUBSET open
      OBVIOUS
    <3> HIDE DEF fits
    <3>2. IsFiniteSet(fits(v)) /\ Cardinality(fits(v)) <= Cardinality(open)
      BY <3>1, FS_Subset
    <3> QED  BY <3>2, FS_CardinalityType
  <2>3. sizes[i] \in Nat \ {0} /\ C!Values(i) = 0 .. sizes[i] - 1
    BY SizeIs
  <2> HIDE DEF fits
  <2>4. score \in [0 .. sizes[i] - 1 -> Nat]
    BY <2>2, <2>3
  <2>5. \A v \in 0 .. sizes[i] - 1 : score[v] <= Cardinality(open)
    BY <2>2, <2>3
  <2> HIDE DEF score
  <2> QED  BY <2>1, <2>3, <2>4, <2>5, BestIs
<1>2. C!Fill(row, i) = IF i \in DOMAIN row THEN row ELSE C!With(row, i, C!Best(score))
  BY CoverSets DEF C!Fill
<1> HIDE DEF score
<1>3. CASE i \in DOMAIN row
  <2>1. C!Fill(row, i) = row /\ DOMAIN row \cup {i} = DOMAIN row
    BY <1>2, <1>3
  <2> QED  BY <1>3, <2>1
<1>4. CASE i \notin DOMAIN row
  <2>1. C!Fill(row, i) = [j \in DOMAIN row \cup {i} |->
                           IF j = i THEN C!Best(score) ELSE row[j]]
    BY <1>2, <1>4 DEF C!With
  <2>2. DOMAIN C!Fill(row, i) = DOMAIN row \cup {i}
    BY <2>1
  <2>3. \A j \in DOMAIN row : C!Fill(row, i)[j] = row[j]
    BY <1>4, <2>1
  <2>4. C!Fill(row, i)[i] \in C!Values(i)
    BY <1>1, <2>1
  <2>5. C!Fill(row, i) = [j \in DOMAIN row \cup {i} |-> C!Fill(row, i)[j]]
    BY <2>1, <2>2
  <2> QED  BY <2>2, <2>3, <2>4, <2>5
<1> QED  BY <1>3, <1>4

\* g gives what t is filled to, field after field.
Fills(t, g, n) ==
  g = [i \in 0 .. n |-> IF i = 0 THEN t ELSE C!Fill(g[i - 1], i)]

LEMMA FillsExists ==
  ASSUME NEW t
  PROVE  \A n \in Nat : \E g : Fills(t, g, n)
<1> DEFINE S == {n \in Nat : ~\E g : Fills(t, g, n)}
<1>1. ASSUME S # {} PROVE FALSE
  <2>1. PICK n \in S : \A y \in S : n <= y
    BY <1>1, Least
  <2>2. n # 0
    <3>1. Fills(t, [i \in 0 .. 0 |-> t], 0)
      BY DEF Fills
    <3> QED  BY <2>1, <3>1
  <2>3. n - 1 \in Nat /\ n - 1 \notin S
    BY <2>1, <2>2
  <2>4. PICK g : Fills(t, g, n - 1)
    BY <2>3
  <2> DEFINE h == [i \in 0 .. n |-> IF i < n THEN g[i] ELSE C!Fill(g[n - 1], n)]
  <2>5. \A i \in 0 .. n - 1 : g[i] = IF i = 0 THEN t ELSE C!Fill(g[i - 1], i)
    BY <2>3, <2>4 DEF Fills
  <2>6. ASSUME NEW i \in 0 .. n
        PROVE  h[i] = IF i = 0 THEN t ELSE C!Fill(h[i - 1], i)
    <3>1. CASE i < n
      <4>1. h[i] = g[i] /\ (i # 0 => h[i - 1] = g[i - 1])
        BY <2>1, <3>1
      <4> QED  BY <2>1, <2>5, <3>1, <4>1
    <3>2. CASE i = n
      <4>1. n - 1 < n /\ n - 1 \in 0 .. n /\ n \in Nat /\ ~(n < n)
        BY <2>1, <2>2
      <4>2. h[n] = C!Fill(g[n - 1], n) /\ h[n - 1] = g[n - 1]
        BY <4>1
      <4> QED  BY <2>2, <3>2, <4>2
    <3> QED  BY <2>1, <3>1, <3>2
  <2>7. h = [i \in 0 .. n |-> IF i = 0 THEN t ELSE C!Fill(h[i - 1], i)]
    <3>1. h = [i \in 0 .. n |-> h[i]]
      OBVIOUS
    <3> HIDE DEF h
    <3>2. \A i \in 0 .. n : h[i] = IF i = 0 THEN t ELSE C!Fill(h[i - 1], i)
      BY <2>6
    <3> QED  BY <3>1, <3>2
  <2> QED  BY <2>1, <2>7 DEF Fills
<1> QED  BY <1>1

\* A filled tuple is a row over the fields so far that covers the tuple.
LEMMA FilledIs ==
  ASSUME C!Shape, IsFiniteSet(open), NEW t \in C!Tuples(f)
  PROVE  /\ C!Filled(t) \in [1 .. f -> Nat]
         /\ \A i \in 1 .. f : C!Filled(t)[i] \in C!Values(i)
         /\ C!Match(C!Filled(t), t)
<1> DEFINE upTo[i \in 0 .. f] == IF i = 0 THEN t ELSE C!Fill(upTo[i - 1], i)
<1>0. f \in Nat /\ f \in 1 .. Len(sizes) /\ Len(sizes) \in Nat
  BY DEF C!Shape
<1>1. C!Filled(t) = upTo[f]
  BY DEF C!Filled
<1>2. PICK g : Fills(t, g, f)
  BY <1>0, FillsExists
<1>3. g = [i \in 0 .. f |-> IF i = 0 THEN t ELSE C!Fill(g[i - 1], i)]
  BY <1>2 DEF Fills
<1>4. upTo = CHOOSE h :
        h = [i \in 0 .. f |-> IF i = 0 THEN t ELSE C!Fill(h[i - 1], i)]
  BY DEF upTo
<1> HIDE DEF upTo
<1>5. upTo = [i \in 0 .. f |-> IF i = 0 THEN t ELSE C!Fill(upTo[i - 1], i)]
  BY <1>3, <1>4
<1> DEFINE Partial(row, i) ==
      /\ row = [j \in DOMAIN row |-> row[j]]
      /\ DOMAIN row = DOMAIN t \cup 1 .. i
      /\ \A j \in DOMAIN t : row[j] = t[j]
      /\ \A j \in DOMAIN row : row[j] \in C!Values(j)
<1>6. /\ DOMAIN t \in SUBSET (1 .. f) /\ t \in [DOMAIN t -> Nat]
      /\ \A i \in DOMAIN t : t[i] \in C!Values(i)
  BY <1>0, TupleIs
<1>7. \A i \in 0 .. f : Partial(upTo[i], i)
  <2> DEFINE S == {i \in 0 .. f : ~Partial(upTo[i], i)}
  <2> SUFFICES ASSUME S # {} PROVE FALSE
    OBVIOUS
  <2>1. PICK i \in S : \A y \in S : i <= y
    <3>1. S \in SUBSET Nat
      BY <1>0
    <3> HIDE DEF S
    <3> QED  BY <3>1, Least
  <2>2. i # 0
    <3>1. upTo[0] = t
      BY <1>0, <1>5
    <3>2. Partial(t, 0)
      BY <1>6
    <3> QED  BY <2>1, <3>1, <3>2
  <2>3. i - 1 \in 0 .. f /\ i - 1 \notin S /\ i \in 1 .. f /\ i \in 1 .. Len(sizes)
    BY <1>0, <2>1, <2>2
  <2>4. upTo[i] = C!Fill(upTo[i - 1], i)
    BY <1>5, <2>2, <2>3
  <2>5. Partial(upTo[i - 1], i - 1)
    BY <2>3
  <2> DEFINE row == upTo[i - 1]
  <2>6. /\ C!Fill(row, i) = [j \in DOMAIN row \cup {i} |-> C!Fill(row, i)[j]]
        /\ DOMAIN C!Fill(row, i) = DOMAIN row \cup {i}
        /\ \A j \in DOMAIN row : C!Fill(row, i)[j] = row[j]
        /\ i \notin DOMAIN row => C!Fill(row, i)[i] \in C!Values(i)
    BY <2>3, <2>5, FillIs
  <2>7. DOMAIN row \cup {i} = DOMAIN t \cup 1 .. i
    <3>1. 1 .. i = (1 .. i - 1) \cup {i}
      BY <2>3
    <3> QED  BY <2>5, <3>1
  <2> HIDE DEF row
  <2>8. \A j \in DOMAIN row : row[j] \in C!Values(j)
    BY <2>5 DEF row
  <2>9. \A j \in DOMAIN t : j \in DOMAIN row /\ row[j] = t[j]
    BY <2>5 DEF row
  <2>10. Partial(C!Fill(row, i), i)
    BY <2>6, <2>7, <2>8, <2>9
  <2> HIDE DEF Partial
  <2> QED  BY <2>1, <2>4, <2>10 DEF row
<1>8. Partial(C!Filled(t), f)
  <2>1. f \in 0 .. f
    BY <1>0
  <2> HIDE DEF Partial
  <2> QED  BY <1>1, <1>7, <2>1
<1>9. DOMAIN t \cup 1 .. f = 1 .. f
  BY <1>6
<1>10. \A i \in 1 .. f : C!Filled(t)[i] \in Nat
  BY <1>0, <1>8, <1>9, SizeIs
<1>11. /\ DOMAIN C!Filled(t) = 1 .. f
       /\ C!Filled(t) = [j \in DOMAIN C!Filled(t) |-> C!Filled(t)[j]]
       /\ \A j \in DOMAIN t : C!Filled(t)[j] = t[j]
       /\ \A j \in 1 .. f : C!Filled(t)[j] \in C!Values(j)
  BY <1>8, <1>9
<1> HIDE DEF Partial
<1>12. C!Filled(t) \in [1 .. f -> Nat]
  BY <1>10, <1>11
<1>13. C!Match(C!Filled(t), t)
  BY <1>6, <1>11 DEF C!Match
<1> QED  BY <1>11, <1>12, <1>13

(* All rows *)

\* Dividing a product with a remainder.
LEMMA Divides ==
  ASSUME NEW n \in Nat \ {0}, NEW a \in Nat, NEW b \in 0 .. n - 1
  PROVE  (a * n + b) \div n = a /\ (a * n + b) % n = b
  OBVIOUS

LEMMA DivMod ==
  ASSUME NEW n \in Nat \ {0}, NEW k \in Nat
  PROVE  /\ k \div n \in Nat /\ k % n \in 0 .. n - 1
         /\ k = (k \div n) * n + (k % n)
  OBVIOUS

LEMMA Below ==
  ASSUME NEW n \in Nat \ {0}, NEW a \in Nat, NEW m \in Nat
  PROVE  /\ a < m <=> a * n < m * n
         /\ \A b \in 0 .. n - 1 : a < m <=> a * n + b < m * n
  OBVIOUS

\* The rows of all are those over the first m of the given sizes.
AllRows(given, all, m) ==
  /\ all \in Seq(Seq(Nat))
  /\ \A k \in 1 .. Len(all) :
        Len(all[k]) = m /\ \A j \in 1 .. m : all[k][j] < given[j]
  /\ \A r \in Seq(Nat) :
        Len(r) = m /\ (\A j \in 1 .. m : r[j] < given[j]) =>
            \E k \in 1 .. Len(all) : all[k] = r

LEMMA ExtendedIs ==
  ASSUME NEW given \in Seq(Nat \ {0}), NEW m \in 1 .. Len(given), NEW all,
         AllRows(given, all, m - 1)
  PROVE  AllRows(given, C!Extended(all, given[m]), m)
<1> DEFINE n == given[m]
           ext == C!Extended(all, n)
<1>1. n \in Nat \ {0} /\ m \in Nat /\ Len(given) \in Nat
  OBVIOUS
<1>2. all \in Seq(Seq(Nat)) /\ Len(all) \in Nat /\ Len(all) * n \in Nat
  BY <1>1 DEF AllRows
<1>3. ext = [k \in 1 .. Len(all) * n |-> Append(all[(k - 1) \div n + 1], (k - 1) % n)]
  BY DEF C!Extended
<1> HIDE DEF n, ext
<1>4. ASSUME NEW k \in 1 .. Len(all) * n
      PROVE  /\ (k - 1) \div n + 1 \in 1 .. Len(all)
             /\ (k - 1) % n \in 0 .. n - 1
  <2>1. k - 1 \in Nat /\ k - 1 < Len(all) * n
    BY <1>2
  <2>2. /\ (k - 1) \div n \in Nat /\ (k - 1) % n \in 0 .. n - 1
        /\ k - 1 = ((k - 1) \div n) * n + ((k - 1) % n)
    BY <1>1, <2>1, DivMod
  <2>3. (k - 1) \div n < Len(all)
    <3> DEFINE a == (k - 1) \div n
               b == (k - 1) % n
    <3>1. a \in Nat /\ b \in 0 .. n - 1 /\ a * n + b < Len(all) * n
      BY <2>1, <2>2
    <3> HIDE DEF a, b
    <3>2. a < Len(all)
      BY <1>1, <1>2, <3>1, Below
    <3> QED  BY <3>2 DEF a
  <2> QED  BY <1>2, <2>2, <2>3
<1>5. ASSUME NEW r \in Seq(Nat), Len(r) = m - 1, NEW b \in Nat
      PROVE  /\ Append(r, b) \in Seq(Nat) /\ Len(Append(r, b)) = m
             /\ Append(r, b)[m] = b
             /\ \A j \in 1 .. m - 1 : Append(r, b)[j] = r[j]
  BY <1>1, <1>5
<1>6. /\ ext \in Seq(Seq(Nat)) /\ Len(ext) = Len(all) * n
      /\ \A k \in 1 .. Len(ext) :
            Len(ext[k]) = m /\ \A j \in 1 .. m : ext[k][j] < given[j]
  <2>1. ASSUME NEW k \in 1 .. Len(all) * n
        PROVE  /\ ext[k] \in Seq(Nat) /\ Len(ext[k]) = m
               /\ \A j \in 1 .. m : ext[k][j] < given[j]
    <3> DEFINE r == all[(k - 1) \div n + 1]
               b == (k - 1) % n
    <3>1. /\ r \in Seq(Nat) /\ Len(r) = m - 1
          /\ \A j \in 1 .. m - 1 : r[j] < given[j]
      <4> DEFINE q == (k - 1) \div n + 1
      <4>1. q \in 1 .. Len(all)
        BY <1>4
      <4> HIDE DEF q, r
      <4>2. /\ all[q] \in Seq(Nat) /\ Len(all[q]) = m - 1
            /\ \A j \in 1 .. m - 1 : all[q][j] < given[j]
        BY <1>2, <4>1 DEF AllRows
      <4> QED  BY <4>2 DEF q, r
    <3>2. b \in Nat /\ b < given[m]
      BY <1>1, <1>4 DEF n
    <3>3. ext[k] = Append(r, b)
      BY <1>3
    <3> HIDE DEF r, b
    <3> QED  BY <1>1, <1>5, <3>1, <3>2, <3>3
  <2>2. ext \in [1 .. Len(all) * n -> Seq(Nat)]
    BY <1>3, <2>1
  <2> QED  BY <1>2, <2>1, <2>2
<1>7. ASSUME NEW r \in Seq(Nat), Len(r) = m, \A j \in 1 .. m : r[j] < given[j]
      PROVE  \E k \in 1 .. Len(ext) : ext[k] = r
  <2> DEFINE s == [j \in 1 .. m - 1 |-> r[j]]
  <2>1. s \in Seq(Nat) /\ Len(s) = m - 1 /\ \A j \in 1 .. m - 1 : s[j] = r[j]
    BY <1>1, <1>7
  <2>2. r[m] \in 0 .. n - 1
    BY <1>1, <1>7 DEF n
  <2>3. PICK i \in 1 .. Len(all) : all[i] = s
    <3> HIDE DEF s
    <3>1. ASSUME NEW j \in 1 .. m - 1 PROVE s[j] < given[j]
      <4>1. j \in 1 .. m
        BY <1>1
      <4>2. r[j] < given[j]
        BY <1>7, <4>1
      <4> QED  BY <2>1, <4>2
    <3> QED  BY <2>1, <3>1 DEF AllRows
  <2> DEFINE k == (i - 1) * n + r[m] + 1
  <2>4. i - 1 \in Nat /\ i - 1 < Len(all) /\ (i - 1) * n \in Nat
    <3> DEFINE a == i - 1
    <3>1. a \in Nat /\ a < Len(all)
      BY <1>2, <2>3
    <3> HIDE DEF a
    <3>2. a * n \in Nat
      BY <1>1, <3>1
    <3> QED  BY <3>1, <3>2 DEF a
  <2>5. k \in 1 .. Len(all) * n /\ k - 1 = (i - 1) * n + r[m]
    <3> DEFINE a == (i - 1) * n
    <3>1. (i - 1) * n + r[m] < Len(all) * n
      BY <1>1, <1>2, <2>2, <2>4, Below
    <3> DEFINE N == Len(all) * n
               c == r[m]
    <3>2. a \in Nat /\ N \in Nat /\ c \in Nat /\ a + c < N /\ k = a + c + 1
      BY <1>1, <1>2, <2>2, <2>4, <3>1
    <3> HIDE DEF a, N, c, k
    <3>3. k \in Nat /\ 1 <= k /\ k <= N /\ k - 1 = a + c
      BY <3>2
    <3>4. k \in 1 .. N
      BY <3>2, <3>3
    <3> QED  BY <3>3, <3>4 DEF a, N, c
  <2>6. (k - 1) \div n = i - 1 /\ (k - 1) % n = r[m]
    <3> DEFINE a == i - 1
               b == r[m]
    <3>1. a \in Nat /\ b \in 0 .. n - 1 /\ k - 1 = a * n + b
      BY <2>2, <2>4, <2>5
    <3> HIDE DEF a, b, k
    <3>2. (a * n + b) \div n = a /\ (a * n + b) % n = b
      BY <1>1, <3>1, Divides
    <3> QED  BY <3>1, <3>2 DEF a, b
  <2> HIDE DEF k
  <2>7. ext[k] = Append(s, r[m])
    <3>1. (k - 1) \div n + 1 = i
      BY <2>3, <2>6
    <3> QED  BY <1>3, <2>3, <2>5, <2>6, <3>1
  <2> HIDE DEF s
  <2>8. Append(s, r[m]) = r
    <3>1. r[m] \in Nat
      BY <1>1, <2>2
    <3>2. /\ Append(s, r[m]) \in Seq(Nat) /\ Len(Append(s, r[m])) = m
          /\ Append(s, r[m])[m] = r[m]
          /\ \A j \in 1 .. m - 1 : Append(s, r[m])[j] = s[j]
      BY <1>5, <2>1, <3>1
    <3> DEFINE x == Append(s, r[m])
    <3> HIDE DEF x
    <3>3. ASSUME NEW j \in 1 .. m PROVE x[j] = r[j]
      <4>1. CASE j = m
        BY <3>2, <4>1 DEF x
      <4>2. CASE j \in 1 .. m - 1
        BY <2>1, <3>2, <4>2 DEF x
      <4> QED  BY <1>1, <4>1, <4>2
    <3>4. x \in Seq(Nat) /\ Len(x) = m
      BY <3>2 DEF x
    <3>5. x = r
      BY <1>1, <1>7, <3>3, <3>4
    <3> QED  BY <3>5 DEF x
  <2> QED  BY <1>6, <2>5, <2>7, <2>8
<1> QED  BY <1>6, <1>7 DEF AllRows, n, ext

\* g gives the rows over ever more of the given sizes.
Extends(given, g, n) ==
  g = [i \in 0 .. n |-> IF i = 0 THEN << <<>> >> ELSE C!Extended(g[i - 1], given[i])]

LEMMA ExtendsExists ==
  ASSUME NEW given
  PROVE  \A n \in Nat : \E g : Extends(given, g, n)
<1> DEFINE at(g, i) == IF i = 0 THEN << <<>> >> ELSE C!Extended(g[i - 1], given[i])
<1> DEFINE S == {n \in Nat : ~\E g : Extends(given, g, n)}
<1>1. ASSUME S # {} PROVE FALSE
  <2>1. PICK n \in S : \A y \in S : n <= y
    BY <1>1, Least
  <2>2. n # 0
    <3>1. Extends(given, [i \in 0 .. 0 |-> << <<>> >>], 0)
      BY DEF Extends
    <3> QED  BY <2>1, <3>1
  <2>3. n - 1 \in Nat /\ n - 1 \notin S
    BY <2>1, <2>2
  <2>4. PICK g : Extends(given, g, n - 1)
    BY <2>3
  <2> DEFINE h == [i \in 0 .. n |-> IF i < n THEN g[i] ELSE C!Extended(g[n - 1], given[n])]
  <2>5. \A i \in 0 .. n - 1 : g[i] = at(g, i)
    BY <2>3, <2>4 DEF Extends
  <2>6. ASSUME NEW i \in 0 .. n
        PROVE  h[i] = at(h, i)
    <3>1. CASE i < n
      <4>1. h[i] = g[i] /\ (i # 0 => h[i - 1] = g[i - 1])
        BY <2>1, <3>1
      <4> QED  BY <2>1, <2>5, <3>1, <4>1
    <3>2. CASE i = n
      <4>1. n - 1 < n /\ n - 1 \in 0 .. n /\ n \in Nat /\ ~(n < n)
        BY <2>1, <2>2
      <4>2. h[n] = C!Extended(g[n - 1], given[n]) /\ h[n - 1] = g[n - 1]
        BY <4>1
      <4> QED  BY <2>2, <3>2, <4>2
    <3> QED  BY <2>1, <3>1, <3>2
  <2>7. h = [i \in 0 .. n |-> at(h, i)]
    <3>1. h = [i \in 0 .. n |-> h[i]]
      OBVIOUS
    <3> HIDE DEF h, at
    <3>2. \A i \in 0 .. n : h[i] = at(h, i)
      BY <2>6
    <3> QED  BY <3>1, <3>2
  <2> QED  BY <2>1, <2>7 DEF Extends
<1> QED  BY <1>1

\* Cartesian gives all the rows, and nothing else.
LEMMA CartesianIs ==
  ASSUME NEW given \in Seq(Nat \ {0})
  PROVE  AllRows(given, C!Cartesian(given), Len(given))
<1> DEFINE upTo[n \in 0 .. Len(given)] ==
              IF n = 0 THEN << <<>> >> ELSE C!Extended(upTo[n - 1], given[n])
<1>0. Len(given) \in Nat
  OBVIOUS
<1>1. C!Cartesian(given) = upTo[Len(given)]
  BY DEF C!Cartesian
<1>2. PICK g : Extends(given, g, Len(given))
  BY <1>0, ExtendsExists
<1>3. g = [n \in 0 .. Len(given) |->
              IF n = 0 THEN << <<>> >> ELSE C!Extended(g[n - 1], given[n])]
  BY <1>2 DEF Extends
<1>4. upTo = CHOOSE h : h = [n \in 0 .. Len(given) |->
              IF n = 0 THEN << <<>> >> ELSE C!Extended(h[n - 1], given[n])]
  BY DEF upTo
<1> HIDE DEF upTo
<1>5. upTo = [n \in 0 .. Len(given) |->
              IF n = 0 THEN << <<>> >> ELSE C!Extended(upTo[n - 1], given[n])]
  BY <1>3, <1>4
<1>6. \A n \in 0 .. Len(given) : AllRows(given, upTo[n], n)
  <2> DEFINE S == {n \in 0 .. Len(given) : ~AllRows(given, upTo[n], n)}
  <2> SUFFICES ASSUME S # {} PROVE FALSE
    OBVIOUS
  <2>1. PICK n \in S : \A y \in S : n <= y
    <3>1. S \in SUBSET Nat
      BY <1>0
    <3> HIDE DEF S
    <3> QED  BY <3>1, Least
  <2>2. n # 0
    <3>1. upTo[0] = << <<>> >>
      BY <1>0, <1>5
    <3>2. AllRows(given, << <<>> >>, 0)
      <4>1. << <<>> >> \in Seq(Seq(Nat)) /\ Len(<< <<>> >>) = 1 /\ << <<>> >>[1] = <<>>
        OBVIOUS
      <4>2. \A r \in Seq(Nat) : Len(r) = 0 => r = <<>>
        OBVIOUS
      <4> QED  BY <4>1, <4>2 DEF AllRows
    <3> QED  BY <2>1, <3>1, <3>2
  <2>3. n - 1 \in 0 .. Len(given) /\ n - 1 \notin S /\ n \in 1 .. Len(given)
    BY <1>0, <2>1, <2>2
  <2>4. upTo[n] = C!Extended(upTo[n - 1], given[n])
    BY <1>5, <2>2, <2>3
  <2>5. AllRows(given, upTo[n - 1], n - 1)
    BY <2>3
  <2>6. AllRows(given, upTo[n], n)
    BY <2>3, <2>4, <2>5, ExtendedIs
  <2> QED  BY <2>1, <2>6
<1>7. Len(given) \in 0 .. Len(given)
  BY <1>0
<1> QED  BY <1>1, <1>6, <1>7

(* Rows *)

LEMMA ShapeIs ==
  ASSUME C!Shape
  PROVE  /\ f \in Nat \ {0} /\ order \in Nat \ {0} /\ Len(sizes) \in Nat
         /\ order <= f /\ f \in 1 .. Len(sizes) /\ Len(rows) \in Nat
         /\ DOMAIN rows = 1 .. Len(rows) /\ \A i \in DOMAIN rows : rows[i] \in Seq(Nat)
  BY DEF C!Shape

\* What tuples there are depends on the sizes and the order.
LEMMA SameTuples ==
  ASSUME UNCHANGED <<sizes, order>>
  PROVE  /\ \A i : C!Values(i)' = C!Values(i)
         /\ \A s : C!Assignments(s)' = C!Assignments(s)
         /\ \A n : C!Tuples(n)' = C!Tuples(n)
<1>1. \A i : C!Values(i)' = C!Values(i)
  BY DEF C!Values
<1>2. \A s : C!Assignments(s)' = C!Assignments(s)
  BY <1>1 DEF C!Assignments
<1>3. \A n : C!Tuples(n)' = C!Tuples(n)
  BY <1>2 DEF C!Tuples
<1> QED  BY <1>1, <1>2, <1>3

\* A prefix stays covered while rows only grow.
LEMMA PrefixStays ==
  ASSUME UNCHANGED <<sizes, order>>, \A t : C!Covered(t) => C!Covered(t)'
  PROVE  \A n : C!CoveredUpTo(n) => C!CoveredUpTo(n)'
<1>1. \A s : C!Assignments(s)' = C!Assignments(s)
  BY SameTuples
<1> QED  BY <1>1 DEF C!CoveredUpTo

\* A field whose tuples are all covered is done.
LEMMA FieldCovered ==
  ASSUME C!Shape, NEW n \in 1 .. Len(sizes), C!CoveredUpTo(n - 1),
         \A t \in C!Tuples(n) : C!Covered(t)
  PROVE  C!CoveredUpTo(n)
<1> SUFFICES ASSUME NEW s \in C!Scopes(n, order), NEW t \in C!Assignments(s)
             PROVE  C!Covered(t)
  BY DEF C!CoveredUpTo
<1>1. CASE s \in C!Scopes(n - 1, order)
  BY <1>1 DEF C!CoveredUpTo
<1>2. CASE t \in C!Tuples(n)
  BY <1>2
<1> QED  BY <1>1, <1>2, ScopesWith

-----------------------------------------------------------------------------
(* The steps *)

LEMMA InitInv ==
  ASSUME C!Assumption, C!Init
  PROVE  C!CoverInv
<1>1. PICK p \in Problems :
        LET first == 1 .. C!Smaller(p.order, Len(p.sizes))
        IN  /\ sizes = p.sizes /\ order = Cardinality(first)
            /\ f = order /\ open = {} /\ grown = 0
            /\ rows = C!Cartesian(SubSeq(p.sizes, 1, order))
            /\ state = IF Len(rows) > MaxTuples THEN "error" ELSE "next"
  BY CoverSets DEF C!Init
<1>2. /\ p.order \in Nat \ {0} /\ sizes \in Seq(Nat \ {0}) /\ sizes # <<>>
      /\ sizes = p.sizes
  BY <1>1 DEF C!Assumption
<1>3. Len(sizes) \in Nat \ {0}
  BY <1>2
<1> DEFINE k == C!Smaller(p.order, Len(sizes))
<1>4. k \in Nat \ {0} /\ k <= Len(sizes)
  BY <1>2, <1>3 DEF C!Smaller
<1>5. order = k
  <2>1. order = Cardinality(1 .. k)
    BY <1>1, <1>2
  <2> HIDE DEF k
  <2>2. Cardinality(1 .. k) = k
    BY <1>4, FS_Interval
  <2> QED  BY <2>1, <2>2
<1> DEFINE given == SubSeq(sizes, 1, order)
<1>6. /\ given \in Seq(Nat \ {0}) /\ Len(given) = order
      /\ \A i \in 1 .. order : given[i] = sizes[i]
  BY <1>2, <1>3, <1>4, <1>5
<1>7. f = order /\ grown = 0 /\ rows = C!Cartesian(given) /\ state \in {"error", "next"}
  BY <1>1, <1>2
<1> HIDE DEF k, given
<1>8. AllRows(given, rows, order)
  BY <1>6, <1>7, CartesianIs
<1>9. rows \in Seq(Seq(Nat)) /\ Len(rows) \in Nat
  BY <1>8 DEF AllRows
<1>10. C!Shape
  BY <1>2, <1>3, <1>4, <1>5, <1>7, <1>9 DEF C!Shape
<1>11. C!TypeOK
  <2>1. f \in order .. Len(sizes) /\ grown \in 0 .. Len(rows)
    BY <1>3, <1>4, <1>5, <1>7, <1>9
  <2>2. ASSUME NEW i \in DOMAIN rows
        PROVE  /\ DOMAIN rows[i] = 1 .. f
               /\ \A j \in DOMAIN rows[i] : rows[i][j] \in C!Values(j)
    <3>1. i \in 1 .. Len(rows) /\ rows[i] \in Seq(Nat)
      BY <1>9
    <3>2. Len(rows[i]) = order /\ \A j \in 1 .. order : rows[i][j] < given[j]
      BY <1>8, <3>1 DEF AllRows
    <3>3. DOMAIN rows[i] = 1 .. f
      BY <1>7, <3>1, <3>2
    <3>4. ASSUME NEW j \in 1 .. f PROVE rows[i][j] \in C!Values(j)
      <4>1. rows[i][j] \in Nat
        <5> DEFINE q == rows[i]
        <5>1. q \in Seq(Nat) /\ j \in DOMAIN q
          BY <3>1, <3>3
        <5> HIDE DEF q
        <5>2. q[j] \in Nat
          BY <5>1
        <5> QED  BY <5>2 DEF q
      <4>2. rows[i][j] < sizes[j] /\ sizes[j] \in Nat
        BY <1>2, <1>4, <1>5, <1>6, <1>7, <3>2
      <4> QED  BY <4>1, <4>2 DEF C!Values
    <3> QED  BY <3>3, <3>4
  <2> QED  BY <1>7, <2>1, <2>2 DEF C!TypeOK
<1>12. C!CoveredUpTo(f)
  <2> SUFFICES ASSUME NEW s \in C!Scopes(order, order), NEW t \in C!Assignments(s)
               PROVE  C!Covered(t)
    BY <1>7 DEF C!CoveredUpTo
  <2>1. s = 1 .. order
    <3>1. s \in SUBSET (1 .. order) /\ Cardinality(s) = order
      BY CoverSets DEF C!Scopes
    <3>2. order \in Nat /\ IsFiniteSet(1 .. order) /\ Cardinality(1 .. order) = order
      BY <1>4, <1>5, FS_Interval
    <3> QED  BY <3>1, <3>2, FS_Subset
  <2>2. /\ t = [i \in 1 .. order |-> t[i]]
        /\ \A i \in 1 .. order : t[i] \in C!Values(i)
    BY <2>1 DEF C!Assignments
  <2>3. \A i \in 1 .. order : t[i] \in Nat /\ t[i] < given[i]
    <3>1. \A i \in 1 .. order : i \in 1 .. Len(sizes) /\ sizes[i] \in Nat
      BY <1>2, <1>4, <1>5
    <3> QED  BY <1>6, <2>2, <3>1 DEF C!Values
  <2>4. t \in Seq(Nat) /\ Len(t) = order
    BY <1>4, <1>5, <2>2, <2>3
  <2>5. PICK i \in 1 .. Len(rows) : rows[i] = t
    BY <1>8, <2>3, <2>4 DEF AllRows
  <2> QED  BY <1>9, <2>5 DEF C!Covered, C!Match
<1> QED  BY <1>7, <1>10, <1>11, <1>12 DEF C!CoverInv, C!PrefixCovered, C!FieldUnderWay

LEMMA NextFieldInv ==
  ASSUME C!CoverInv, C!NextField
  PROVE  C!CoverInv'
<1>1. /\ C!Shape /\ C!TypeOK /\ C!CoveredUpTo(f) /\ state = "next" /\ f < Len(sizes)
      /\ UNCHANGED <<sizes, order, rows>>
  BY DEF C!CoverInv, C!PrefixCovered, C!NextField
<1>2. CASE state' = "error" /\ UNCHANGED <<f, open, grown>>
  <2>1. C!Shape' /\ C!TypeOK'
    BY <1>1, <1>2, SameTuples DEF C!Shape, C!TypeOK
  <2> QED  BY <1>2, <2>1 DEF C!CoverInv, C!PrefixCovered, C!FieldUnderWay
<1>3. CASE f' = f + 1 /\ open' = C!Tuples(f + 1) /\ grown' = 0 /\ state' = "grow"
  <2>0. /\ f \in Nat \ {0} /\ order \in Nat /\ Len(sizes) \in Nat /\ order <= f
        /\ Len(rows) \in Nat /\ DOMAIN rows = 1 .. Len(rows)
    BY <1>1, ShapeIs
  <2>1. \A i \in DOMAIN rows :
           DOMAIN rows[i] = 1 .. f /\ \A j \in DOMAIN rows[i] : rows[i][j] \in C!Values(j)
    BY <1>1 DEF C!TypeOK
  <2>2. C!Shape'
    BY <1>1, <1>3, <2>0 DEF C!Shape
  <2>3. C!TypeOK'
    <3>1. \A i \in DOMAIN rows : i > 0
      BY <2>0
    <3>2. \A j : C!Values(j)' = C!Values(j)
      BY <1>1, SameTuples
    <3>3. f' - 1 = f
      BY <1>3, <2>0
    <3>4. f' \in order' .. Len(sizes') /\ grown' \in 0 .. Len(rows')
      BY <1>1, <1>3, <2>0
    <3> QED  BY <1>1, <1>3, <2>1, <3>1, <3>2, <3>3, <3>4 DEF C!TypeOK
  <2>4. C!PrefixCovered'
    BY <1>3 DEF C!PrefixCovered
  <2>5. C!FieldUnderWay'
    <3> PICK n : n = f
      OBVIOUS
    <3>1. C!CoveredUpTo(n)'
      <4>1. \A t : C!Covered(t) => C!Covered(t)'
        BY <1>1 DEF C!Covered, C!Match
      <4> QED  BY <1>1, <4>1, PrefixStays
    <3>2. f' - 1 = n /\ f' > order'
      BY <1>1, <1>3, <2>0
    <3>3. C!CoveredUpTo(f - 1)'
      BY <3>1, <3>2
    <3>4. open' = C!Tuples(f)'
      BY <1>1, <1>3, SameTuples
    <3>5. ASSUME NEW t \in C!Tuples(f + 1) PROVE ~C!Covered(t)'
      <4>1. f + 1 \in DOMAIN t
        BY <1>1, <2>0, TupleIs
      <4>2. \A i \in DOMAIN rows : f + 1 \notin DOMAIN rows[i]
        BY <2>0, <2>1
      <4> QED  BY <1>1, <4>1, <4>2 DEF C!Covered, C!Match
    <3> QED  BY <1>3, <3>2, <3>3, <3>4, <3>5 DEF C!FieldUnderWay
  <2> QED  BY <2>2, <2>3, <2>4, <2>5 DEF C!CoverInv
<1> QED  BY <1>1, <1>2, <1>3 DEF C!NextField

\* A row added or extended in a field: what is open is what is not covered.
LEMMA StillUnderWay ==
  ASSUME C!Shape, C!FieldUnderWay, state \in {"grow", "complete"},
         UNCHANGED <<sizes, order, f>>, NEW row,
         \A t : C!Covered(t) => C!Covered(t)',
         \A t \in C!Tuples(f) : C!Covered(t)' <=> C!Covered(t) \/ C!Match(row, t),
         open' = {t \in open : ~C!Match(row, t)}
  PROVE  C!FieldUnderWay'
<1>1. /\ f > order /\ C!CoveredUpTo(f - 1) /\ open \subseteq C!Tuples(f)
      /\ \A t \in C!Tuples(f) : t \in open <=> ~C!Covered(t)
  BY DEF C!FieldUnderWay
<1>2. C!CoveredUpTo(f - 1)'
  BY <1>1, PrefixStays
<1>3. C!Tuples(f)' = C!Tuples(f)
  BY SameTuples
<1>4. \A t \in C!Tuples(f) : t \in open' <=> ~C!Covered(t)'
  BY <1>1
<1>5. open' \subseteq C!Tuples(f)
  BY <1>1
<1> QED  BY <1>1, <1>2, <1>3, <1>4, <1>5 DEF C!FieldUnderWay

\* What is open is finite.
LEMMA OpenIsFinite ==
  ASSUME C!Shape, C!FieldUnderWay, state \in {"grow", "complete"}
  PROVE  IsFiniteSet(open)
<1>1. open \in SUBSET C!Tuples(f) /\ f \in 1 .. Len(sizes)
  BY ShapeIs DEF C!FieldUnderWay
<1> QED  BY <1>1, TuplesAreFinite, FS_Subset

LEMMA GrowInv ==
  ASSUME C!CoverInv, C!Grow
  PROVE  C!CoverInv'
<1> DEFINE row == rows[grown + 1]
           fits(v) == {t \in open : C!Match(Append(row, v), t)}
           score == [v \in C!Values(f) |-> Cardinality(fits(v))]
           longer == Append(row, C!Best(score))
<1>1. /\ C!Shape /\ C!TypeOK /\ C!FieldUnderWay /\ state = "grow" /\ grown < Len(rows)
      /\ rows' = [rows EXCEPT ![grown + 1] = longer]
      /\ open' = {t \in open : ~C!Match(longer, t)} /\ grown' = grown + 1
      /\ UNCHANGED <<sizes, order, f, state>>
  BY CoverSets DEF C!CoverInv, C!Grow
<1>2. /\ f \in Nat \ {0} /\ f \in 1 .. Len(sizes) /\ Len(sizes) \in Nat
      /\ Len(rows) \in Nat /\ DOMAIN rows = 1 .. Len(rows) /\ grown \in Nat
      /\ \A i \in DOMAIN rows : rows[i] \in Seq(Nat)
  BY <1>1, ShapeIs DEF C!Shape
<1>3. grown + 1 \in DOMAIN rows /\ row \in Seq(Nat)
  BY <1>1, <1>2
<1>4. DOMAIN row = 1 .. f - 1 /\ \A j \in 1 .. f - 1 : row[j] \in C!Values(j)
  <2>1. grown + 1 > grown
    BY <1>2
  <2> QED  BY <1>1, <1>3, <2>1 DEF C!TypeOK
<1>5. Len(row) = f - 1
  <2> HIDE DEF row
  <2> QED  BY <1>2, <1>3, <1>4
<1>6. /\ sizes[f] \in Nat \ {0} /\ C!Values(f) = 0 .. sizes[f] - 1
      /\ C!Values(f) \subseteq Nat
  BY <1>1, <1>2, SizeIs
<1>7. C!Best(score) \in C!Values(f)
  <2>1. IsFiniteSet(open)
    BY <1>1, OpenIsFinite
  <2>2. Cardinality(open) \in Nat
    BY <2>1, FS_CardinalityType
  <2>3. ASSUME NEW v \in C!Values(f)
        PROVE  Cardinality(fits(v)) \in Nat /\ Cardinality(fits(v)) <= Cardinality(open)
    <3>1. fits(v) \in SUBSET open
      OBVIOUS
    <3> HIDE DEF fits
    <3>2. IsFiniteSet(fits(v)) /\ Cardinality(fits(v)) <= Cardinality(open)
      BY <2>1, <3>1, FS_Subset
    <3> QED  BY <3>2, FS_CardinalityType
  <2> HIDE DEF fits
  <2>4. score \in [0 .. sizes[f] - 1 -> Nat]
    BY <1>6, <2>3
  <2>5. \A v \in 0 .. sizes[f] - 1 : score[v] <= Cardinality(open)
    BY <1>6, <2>3
  <2> HIDE DEF score
  <2> QED  BY <1>6, <2>2, <2>4, <2>5, BestIs
<1> DEFINE b == C!Best(score)
<1>8. b \in C!Values(f) /\ b \in Nat
  BY <1>6, <1>7
<1> HIDE DEF b
<1>9. /\ longer \in Seq(Nat) /\ DOMAIN longer = 1 .. f
      /\ \A j \in 1 .. f - 1 : longer[j] = row[j]
      /\ longer[f] = b
  <2>1. longer = Append(row, b)
    BY DEF b
  <2> HIDE DEF row, longer
  <2> QED  BY <1>2, <1>3, <1>5, <1>8, <2>1
<1>10. \A j \in 1 .. f : longer[j] \in C!Values(j)
  <2> HIDE DEF row, longer
  <2>1. ASSUME NEW j \in 1 .. f PROVE longer[j] \in C!Values(j)
    <3>1. CASE j = f
      BY <1>8, <1>9, <3>1
    <3>2. CASE j # f
      <4>1. j \in 1 .. f - 1
        BY <1>2, <3>2
      <4> QED  BY <1>4, <1>9, <4>1
    <3> QED  BY <3>1, <3>2
  <2> QED  BY <2>1
<1> HIDE DEF longer
<1>11. /\ rows' \in Seq(Seq(Nat)) /\ Len(rows') = Len(rows) /\ DOMAIN rows' = DOMAIN rows
       /\ rows'[grown + 1] = longer
       /\ \A i \in DOMAIN rows : i # grown + 1 => rows'[i] = rows[i]
  <2>1. rows \in Seq(Seq(Nat))
    BY <1>1 DEF C!Shape
  <2> HIDE DEF row
  <2> QED  BY <1>1, <1>2, <1>3, <1>9, <2>1
<1>12. C!Shape'
  BY <1>1, <1>2, <1>11 DEF C!Shape
<1>13. C!TypeOK'
  <2>1. \A j : C!Values(j)' = C!Values(j)
    BY <1>1, SameTuples
  <2>2. f \in order .. Len(sizes) /\ grown' \in 0 .. Len(rows')
    BY <1>1, <1>2, <1>11 DEF C!TypeOK
  <2>3. ASSUME NEW i \in DOMAIN rows
        PROVE  /\ DOMAIN rows'[i] = 1 .. IF i > grown' THEN f - 1 ELSE f
               /\ \A j \in DOMAIN rows'[i] : rows'[i][j] \in C!Values(j)
    <3>1. CASE i = grown + 1
      <4>1. ~(i > grown')
        BY <1>1, <1>2, <3>1
      <4> QED  BY <1>9, <1>10, <1>11, <3>1, <4>1
    <3>2. CASE i # grown + 1
      <4>1. i > grown' <=> i > grown
        BY <1>1, <1>2, <3>2
      <4>2. /\ DOMAIN rows[i] = 1 .. IF i > grown THEN f - 1 ELSE f
            /\ \A j \in DOMAIN rows[i] : rows[i][j] \in C!Values(j)
        BY <1>1 DEF C!TypeOK
      <4>3. rows'[i] = rows[i]
        BY <1>11, <3>2
      <4> QED  BY <4>1, <4>2, <4>3
    <3> QED  BY <3>1, <3>2
  <2> QED  BY <1>1, <1>11, <2>1, <2>2, <2>3 DEF C!TypeOK
<1>14. \A t : C!Match(row, t) => C!Match(longer, t)
  <2>1. \A i \in DOMAIN row : i \in DOMAIN longer /\ longer[i] = row[i]
    BY <1>2, <1>4, <1>9
  <2> QED  BY <2>1 DEF C!Match
<1>15. \A t : C!Covered(t)' <=> \E i \in DOMAIN rows' : C!Match(rows'[i], t)
  BY DEF C!Covered, C!Match
<1>16. \A t : C!Covered(t) => C!Covered(t)'
  <2> SUFFICES ASSUME NEW t, NEW i \in DOMAIN rows, C!Match(rows[i], t)
               PROVE  C!Match(rows'[i], t)
    BY <1>11, <1>15 DEF C!Covered
  <2> QED  BY <1>11, <1>14
<1>17. ASSUME NEW t \in C!Tuples(f)
       PROVE  C!Covered(t)' <=> C!Covered(t) \/ C!Match(longer, t)
  <2>1. ASSUME C!Match(longer, t) PROVE C!Covered(t)'
    BY <1>3, <1>11, <1>15, <2>1
  <2>2. ASSUME C!Covered(t)' PROVE C!Covered(t) \/ C!Match(longer, t)
    BY <1>11, <1>15, <2>2 DEF C!Covered
  <2> QED  BY <1>16, <2>1, <2>2
<1>18. C!FieldUnderWay'
  BY <1>1, <1>16, <1>17, StillUnderWay
<1>19. C!PrefixCovered'
  BY <1>1 DEF C!PrefixCovered
<1> QED  BY <1>12, <1>13, <1>18, <1>19 DEF C!CoverInv

LEMMA GrownInv ==
  ASSUME C!CoverInv, C!Grown
  PROVE  C!CoverInv'
<1>1. /\ C!Shape /\ C!TypeOK /\ C!FieldUnderWay /\ state = "grow" /\ grown = Len(rows)
      /\ state' = "complete" /\ UNCHANGED <<sizes, order, rows, f, open, grown>>
  BY DEF C!CoverInv, C!Grown
<1>2. C!Shape'
  BY <1>1 DEF C!Shape
<1>3. C!TypeOK'
  <2>1. \A j : C!Values(j)' = C!Values(j)
    BY <1>1, SameTuples
  <2>2. \A i \in DOMAIN rows : ~(i > grown)
    BY <1>1, ShapeIs
  <2> QED  BY <1>1, <2>1, <2>2 DEF C!TypeOK
<1>4. C!FieldUnderWay'
  <2>1. \A t : C!Covered(t)' <=> C!Covered(t)
    BY <1>1 DEF C!Covered, C!Match
  <2>2. C!CoveredUpTo(f - 1)'
    BY <1>1, <2>1, PrefixStays DEF C!FieldUnderWay
  <2>3. C!Tuples(f)' = C!Tuples(f)
    BY <1>1, SameTuples
  <2> QED  BY <1>1, <2>1, <2>2, <2>3 DEF C!FieldUnderWay
<1> QED  BY <1>1, <1>2, <1>3, <1>4 DEF C!CoverInv, C!PrefixCovered

LEMMA CompleteInv ==
  ASSUME C!CoverInv, C!Complete
  PROVE  /\ C!CoverInv'
         /\ \E t \in open : /\ C!Match(rows'[Len(rows')], t)
                            /\ \A i \in DOMAIN rows : ~C!Match(rows[i], t)
<1> DEFINE u == CHOOSE t \in open : TRUE
           row == C!Filled(u)
<1>1. /\ C!Shape /\ C!TypeOK /\ C!FieldUnderWay /\ state = "complete" /\ open # {}
      /\ rows' = Append(rows, row) /\ open' = {t \in open : ~C!Match(row, t)}
      /\ UNCHANGED <<sizes, order, f, grown, state>>
  BY DEF C!CoverInv, C!Complete
<1>2. u \in open /\ u \in C!Tuples(f)
  BY <1>1 DEF C!FieldUnderWay
<1>3. /\ f \in Nat \ {0} /\ f \in 1 .. Len(sizes) /\ Len(sizes) \in Nat
      /\ Len(rows) \in Nat /\ DOMAIN rows = 1 .. Len(rows) /\ grown \in 0 .. Len(rows)
      /\ rows \in Seq(Seq(Nat))
  BY <1>1, ShapeIs DEF C!Shape, C!TypeOK
<1> HIDE DEF u
<1>4. /\ row \in [1 .. f -> Nat] /\ C!Match(row, u)
      /\ \A i \in 1 .. f : row[i] \in C!Values(i)
  BY <1>1, <1>2, OpenIsFinite, FilledIs
<1>5. row \in Seq(Nat) /\ DOMAIN row = 1 .. f
  BY <1>3, <1>4
<1> HIDE DEF row
<1>6. /\ rows' \in Seq(Seq(Nat)) /\ Len(rows') = Len(rows) + 1
      /\ DOMAIN rows' = DOMAIN rows \cup {Len(rows) + 1}
      /\ rows'[Len(rows) + 1] = row /\ \A i \in DOMAIN rows : rows'[i] = rows[i]
  BY <1>1, <1>3, <1>5
<1>7. C!Shape'
  BY <1>1, <1>3, <1>6 DEF C!Shape
<1>8. C!TypeOK'
  <2>1. \A j : C!Values(j)' = C!Values(j)
    BY <1>1, SameTuples
  <2>2. grown' \in 0 .. Len(rows')
    BY <1>1, <1>3, <1>6
  <2> QED  BY <1>1, <1>4, <1>5, <1>6, <2>1, <2>2 DEF C!TypeOK
<1>9. \A t : C!Covered(t)' <=> C!Covered(t) \/ C!Match(row, t)
  <2>1. \A t : C!Covered(t)' <=> \E i \in DOMAIN rows' : C!Match(rows'[i], t)
    BY DEF C!Covered, C!Match
  <2> QED  BY <1>6, <2>1 DEF C!Covered
<1>10. C!FieldUnderWay'
  BY <1>1, <1>9, StillUnderWay
<1>11. C!PrefixCovered'
  BY <1>1 DEF C!PrefixCovered
<1>12. \A i \in DOMAIN rows : ~C!Match(rows[i], u)
  BY <1>1, <1>2 DEF C!FieldUnderWay, C!Covered
<1> QED  BY <1>2, <1>4, <1>6, <1>7, <1>8, <1>10, <1>11, <1>12 DEF C!CoverInv

LEMMA FieldDoneInv ==
  ASSUME C!CoverInv, C!FieldDone
  PROVE  C!CoverInv'
<1>1. /\ C!Shape /\ C!TypeOK /\ C!FieldUnderWay /\ state = "complete" /\ open = {}
      /\ state' \in {"done", "next"} /\ UNCHANGED <<sizes, order, rows, f, open, grown>>
  BY DEF C!CoverInv, C!FieldDone
<1>2. C!Shape'
  BY <1>1 DEF C!Shape
<1>3. C!TypeOK'
  <2>1. \A j : C!Values(j)' = C!Values(j)
    BY <1>1, SameTuples
  <2> QED  BY <1>1, <2>1 DEF C!TypeOK
<1>4. C!CoveredUpTo(f)'
  <2>1. C!CoveredUpTo(f)
    BY <1>1, ShapeIs, FieldCovered DEF C!FieldUnderWay
  <2>2. \A t : C!Covered(t) => C!Covered(t)'
    BY <1>1 DEF C!Covered, C!Match
  <2> QED  BY <1>1, <2>1, <2>2, PrefixStays
<1> QED  BY <1>1, <1>2, <1>3, <1>4 DEF C!CoverInv, C!PrefixCovered, C!FieldUnderWay

LEMMA TrivialInv ==
  ASSUME C!CoverInv, C!Trivial
  PROVE  C!CoverInv'
<1>1. /\ C!Shape /\ C!TypeOK /\ C!CoveredUpTo(f) /\ state = "next" /\ state' = "done"
      /\ UNCHANGED <<sizes, order, rows, f, open, grown>>
  BY DEF C!CoverInv, C!PrefixCovered, C!Trivial
<1>2. C!Shape'
  BY <1>1 DEF C!Shape
<1>3. C!TypeOK'
  <2>1. \A j : C!Values(j)' = C!Values(j)
    BY <1>1, SameTuples
  <2> QED  BY <1>1, <2>1 DEF C!TypeOK
<1>4. C!CoveredUpTo(f)'
  <2>1. \A t : C!Covered(t) => C!Covered(t)'
    BY <1>1 DEF C!Covered, C!Match
  <2> QED  BY <1>1, <2>1, PrefixStays
<1> QED  BY <1>1, <1>2, <1>3, <1>4 DEF C!CoverInv, C!PrefixCovered, C!FieldUnderWay

LEMMA CoverStep ==
  ASSUME C!CoverInv, [C!Next]_C!vars
  PROVE  C!CoverInv'
<1>1. CASE C!NextField
  BY <1>1, NextFieldInv
<1>2. CASE C!Grow
  BY <1>2, GrowInv
<1>3. CASE C!Grown
  BY <1>3, GrownInv
<1>4. CASE C!Complete
  BY <1>4, CompleteInv
<1>5. CASE C!FieldDone
  BY <1>5, FieldDoneInv
<1>6. CASE C!Trivial
  BY <1>6, TrivialInv
<1>7. CASE UNCHANGED C!vars
  <2>1. UNCHANGED <<sizes, order, rows, f, open, grown, state>>
    BY <1>7 DEF C!vars
  <2>2. /\ \A j : C!Values(j)' = C!Values(j)
        /\ \A t : C!Covered(t)' <=> C!Covered(t)
        /\ C!Tuples(f)' = C!Tuples(f)
    BY <2>1, SameTuples DEF C!Covered, C!Match
  <2>3. \A n : C!CoveredUpTo(n) => C!CoveredUpTo(n)'
    BY <2>1, <2>2, PrefixStays
  <2> QED
    BY <2>1, <2>2, <2>3 DEF C!CoverInv, C!Shape, C!TypeOK, C!PrefixCovered, C!FieldUnderWay
<1> QED  BY <1>1, <1>2, <1>3, <1>4, <1>5, <1>6, <1>7 DEF C!Next

\* A step goes on to a later stage or field, gives one more row its value, or
\* covers a tuple that was open.
LEMMA CoverAdvances ==
  ASSUME C!CoverInv, C!Next
  PROVE  C!Advances
<1>1. C!Shape /\ C!TypeOK /\ C!FieldUnderWay
  BY DEF C!CoverInv
<1>2. f \in Nat /\ Len(rows) \in Nat /\ grown \in Nat
  BY <1>1, ShapeIs DEF C!Shape
<1>3. CASE C!NextField
  <2>1. state = "next" /\ (f' = f + 1 \/ (state' = "error" /\ f' = f))
    BY <1>3 DEF C!NextField
  <2> QED  BY <1>2, <2>1 DEF C!Advances, C!Stage
<1>4. CASE C!Grow
  <2>1. /\ f' = f /\ state' = state /\ grown' = grown + 1
        /\ Len(rows') = Len(rows)
    BY <1>1, <1>4 DEF C!Grow, C!Shape
  <2> QED  BY <1>2, <2>1 DEF C!Advances
<1>5. CASE C!Grown
  BY <1>5 DEF C!Grown, C!Advances, C!Stage
<1>6. CASE C!Complete
  <2>1. PICK t \in open : C!Match(rows'[Len(rows')], t)
    BY <1>6, CompleteInv
  <2> DEFINE row == C!Filled(CHOOSE u \in open : TRUE)
  <2>2. /\ f' = f /\ state' = state /\ state = "complete" /\ open # {}
        /\ rows' = Append(rows, row) /\ open' = {u \in open : ~C!Match(row, u)}
    BY <1>6 DEF C!Complete
  <2>3. row \in Seq(Nat)
    <3>1. (CHOOSE u \in open : TRUE) \in C!Tuples(f)
      BY <1>1, <2>2 DEF C!FieldUnderWay
    <3>2. C!Filled(CHOOSE u \in open : TRUE) \in [1 .. f -> Nat]
      BY <1>1, <2>2, <3>1, OpenIsFinite, FilledIs
    <3> QED  BY <1>2, <3>2
  <2> HIDE DEF row
  <2>4. rows'[Len(rows')] = row
    BY <1>1, <2>2, <2>3 DEF C!Shape
  <2>5. open' \subseteq open /\ t \notin open'
    BY <2>1, <2>2, <2>4
  <2> QED  BY <2>1, <2>2, <2>5 DEF C!Advances
<1>7. CASE C!FieldDone \/ C!Trivial
  <2>1. /\ f' = f /\ state \in {"complete", "next"}
        /\ state' = "done" \/ (state = "complete" /\ state' = "next")
    BY <1>7 DEF C!FieldDone, C!Trivial
  <2> QED  BY <2>1 DEF C!Advances, C!Stage
<1> QED  BY <1>3, <1>4, <1>5, <1>6, <1>7 DEF C!Next

\* A row is added only for a tuple that was open.
LEMMA NewRowsTeach ==
  ASSUME C!CoverInv, C!Next
  PROVE  C!NewRowTeaches
<1>1. CASE C!Complete
  BY <1>1, CompleteInv DEF C!NewRowTeaches
<1>2. CASE C!Grow
  <2>1. Len(rows') = Len(rows)
    BY <1>2 DEF C!CoverInv, C!Shape, C!Grow
  <2>2. Len(rows) \in Nat
    BY ShapeIs DEF C!CoverInv
  <2> QED  BY <2>1, <2>2 DEF C!NewRowTeaches
<1>3. CASE UNCHANGED rows
  <2>1. Len(rows) \in Nat
    BY ShapeIs DEF C!CoverInv
  <2> QED  BY <1>3, <2>1 DEF C!NewRowTeaches
<1> QED  BY <1>1, <1>2, <1>3 DEF C!Next, C!NextField, C!Grown, C!FieldDone, C!Trivial

LEMMA CoverIsInvariant ==
  ASSUME C!Assumption
  PROVE  C!Spec => []C!CoverInv
<1>1. C!Init => C!CoverInv
  BY InitInv
<1>2. C!CoverInv /\ [C!Next]_C!vars => C!CoverInv'
  BY CoverStep
<1> QED  BY <1>1, <1>2, PTL DEF C!Spec

-----------------------------------------------------------------------------
(* The theorems *)

\* Whatever the fields and the order of interaction: between two fields, and
\* when Cover returns its rows, every combination of values of as many of the
\* fields so far as the order says is in some row, and every row gives each
\* field one of its values (generate.Cover).
THEOREM CoverCovers ==
  ASSUME C!Assumption
  PROVE  C!Spec => [](C!TypeOK /\ C!PrefixCovered)
<1>1. C!CoverInv => C!TypeOK /\ C!PrefixCovered
  BY DEF C!CoverInv
<1> QED  BY <1>1, CoverIsInvariant, PTL

\* A row is added only for a combination that no row before it has.
THEOREM RowsTeach ==
  ASSUME C!Assumption
  PROVE  C!Spec => [][C!NewRowTeaches]_C!vars
<1>1. C!CoverInv /\ C!Next => C!NewRowTeaches
  BY NewRowsTeach
<1>2. C!CoverInv /\ [C!Next]_C!vars => [C!NewRowTeaches]_C!vars
  BY <1>1
<1> QED  BY <1>2, CoverIsInvariant, PTL DEF C!Spec
================================================================================
