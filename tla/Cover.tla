------------------------------- MODULE Cover -------------------------------
(***************************************************************************)
(* The covering array of the interaction phase (generate.Cover): all       *)
(* combinations of the first fields, then one field after the other -      *)
(* every row is given the value that covers most (horizontal growth), and  *)
(* rows are added for what is left (vertical completion).                  *)
(*                                                                         *)
(* A tuple assigns values to as many fields as the interaction order says. *)
(* The caller drops rows that cannot be built, with a child under an       *)
(* absent parent, and the tuples only they cover with them.                *)
(***************************************************************************)
EXTENDS Integers, FiniteSets, FiniteSetsExt, Sequences, SequencesExt

CONSTANTS
    Problems,     \* [sizes, order] records: values of each field, order
    MaxTuples     \* max-planning-tuples

(* There are fields to cover, with values; without, Cover returns at once   *)
(* or with an error.  Instances assume it.                                 *)
Assumption ==
    \A p \in Problems :
        p.order \in Nat \ {0} /\ p.sizes \in Seq(Nat \ {0}) /\ p.sizes # <<>>

VARIABLES
    sizes, order,
    rows,      \* rows over the first f fields
    f,
    open,      \* tuples with field f that no row covers yet
    grown,     \* rows that were given a value for field f
    state      \* "next", "grow", "complete", "done" or "error"

vars == <<sizes, order, rows, f, open, grown, state>>

Values(i) == 0 .. sizes[i] - 1
Smaller(n, m) == IF n < m THEN n ELSE m

(* Assignments of values to a set of fields. *)
Assignments(fields) ==
    {t \in [fields -> UNION {Values(i) : i \in fields}] :
        \A i \in fields : t[i] \in Values(i)}

Scopes(n, k) == {s \in SUBSET (1 .. n) : Cardinality(s) = k}

(* Deviation: the tuples of the new field with its neighbour only. *)
TuplesOfNeighbours(n) ==
    UNION {Assignments(s \cup {n}) :
              s \in {t \in Scopes(n - 1, order - 1) : order > 1 => n - 1 \in t}}

(* The tuples field n takes part in with the fields before it. *)
Tuples(n) == UNION {Assignments(s \cup {n}) : s \in Scopes(n - 1, order - 1)}

Match(row, t) ==
    \A i \in DOMAIN t : i \in DOMAIN row /\ row[i] = t[i]

(* Every row with each value for one field more. *)
Extended(all, n) ==
    [k \in 1 .. Len(all) * n |-> Append(all[(k - 1) \div n + 1], (k - 1) % n)]

(* Cartesian: all rows over the given sizes, the last field fastest. *)
Cartesian(given) ==
    LET upTo[n \in 0 .. Len(given)] ==
            IF n = 0 THEN << <<>> >> ELSE Extended(upTo[n - 1], given[n])
    IN  upTo[Len(given)]

Init ==
    \E p \in Problems :
        LET first == 1 .. Smaller(p.order, Len(p.sizes))
        IN  /\ sizes = p.sizes /\ order = Cardinality(first)
            /\ f = order /\ open = {} /\ grown = 0
            /\ rows = Cartesian(SubSeq(p.sizes, 1, order))
            /\ state = IF Len(rows) > MaxTuples THEN "error" ELSE "next"

(* The first of the values that score best. *)
Best(score) ==
    CHOOSE v \in DOMAIN score : \A w \in DOMAIN score :
        score[w] < score[v] \/ (score[w] = score[v] /\ v <= w)

(* The next field, unless its scopes or tuples are more than memory is     *)
(* meant to hold.                                                          *)
NextField ==
    /\ state = "next" /\ f < Len(sizes)
    /\ LET n == f + 1
       IN  IF \/ Cardinality(Scopes(f, order - 1)) > MaxTuples
              \/ Cardinality(Tuples(n)) > MaxTuples
           THEN state' = "error" /\ UNCHANGED <<f, open, grown>>
           ELSE f' = n /\ open' = Tuples(n) /\ grown' = 0 /\ state' = "grow"
    /\ UNCHANGED <<sizes, order, rows>>

Grow ==
    LET row == rows[grown + 1]
        score == [v \in Values(f) |-> Cardinality({t \in open : Match(Append(row, v), t)})]
        longer == Append(row, Best(score))
    IN  /\ state = "grow" /\ grown < Len(rows)
        /\ rows' = [rows EXCEPT ![grown + 1] = longer]
        /\ open' = {t \in open : ~Match(longer, t)}
        /\ grown' = grown + 1
        /\ UNCHANGED <<sizes, order, f, state>>

Grown ==
    /\ state = "grow" /\ grown = Len(rows)
    /\ state' = "complete"
    /\ UNCHANGED <<sizes, order, rows, f, open, grown>>

(* A partial row, the fields it does not have yet given one after the      *)
(* other the value most open tuples are compatible with.                   *)
Compatible(row, u) == \A i \in DOMAIN u \cap DOMAIN row : row[i] = u[i]
With(row, i, v) == [j \in DOMAIN row \cup {i} |-> IF j = i THEN v ELSE row[j]]
Fill(row, i) ==
    LET score == [v \in Values(i) |->
            Cardinality({u \in open : Compatible(With(row, i, v), u)})]
    IN  IF i \in DOMAIN row THEN row ELSE With(row, i, Best(score))

Filled(t) ==
    LET upTo[i \in 0 .. f] == IF i = 0 THEN t ELSE Fill(upTo[i - 1], i)
    IN  upTo[f]

(* A row for the next open tuple; in which order does not matter. *)
Complete ==
    LET row == Filled(CHOOSE u \in open : TRUE)
    IN  /\ state = "complete" /\ open # {}
        /\ rows' = Append(rows, row)
        /\ open' = {u \in open : ~Match(row, u)}
        /\ UNCHANGED <<sizes, order, f, grown, state>>

FieldDone ==
    /\ state = "complete" /\ open = {}
    /\ state' = IF f = Len(sizes) THEN "done" ELSE "next"
    /\ UNCHANGED <<sizes, order, rows, f, open, grown>>

Trivial ==
    /\ state = "next" /\ f = Len(sizes)
    /\ state' = "done"
    /\ UNCHANGED <<sizes, order, rows, f, open, grown>>

Next ==
    NextField \/ Grow \/ Grown \/ Complete \/ FieldDone \/ Trivial
Spec == Init /\ [][Next]_vars

-----------------------------------------------------------------------------
TypeOK ==
    /\ f \in order .. Len(sizes) /\ grown \in 0 .. Len(rows)
    /\ \A i \in DOMAIN rows :
          /\ DOMAIN rows[i] = 1 .. IF state = "grow" /\ i > grown THEN f - 1 ELSE f
          /\ \A j \in DOMAIN rows[i] : rows[i][j] \in Values(j)

Covered(t) == \E i \in DOMAIN rows : Match(rows[i], t)
CoveredUpTo(n) == \A s \in Scopes(n, order) : \A t \in Assignments(s) : Covered(t)

(* Between two fields every tuple over the fields so far is in some row.   *)
PrefixCovered == state \in {"next", "done"} => CoveredUpTo(f)

(* Within one, those over the fields before it are, and those with it are  *)
(* open until they are.                                                    *)
FieldUnderWay ==
    state \in {"grow", "complete"} =>
        /\ f > order /\ CoveredUpTo(f - 1) /\ open \subseteq Tuples(f)
        /\ \A t \in Tuples(f) : t \in open <=> ~Covered(t)

Shape ==
    /\ sizes \in Seq(Nat \ {0}) /\ order \in 1 .. Len(sizes)
    /\ f \in order .. Len(sizes)
    /\ rows \in Seq(Seq(Nat)) /\ grown \in Nat
    /\ state \in {"next", "grow", "complete", "done", "error"}

CoverInv == Shape /\ TypeOK /\ PrefixCovered /\ FieldUnderWay

(* A row that is added covers a tuple no row before it did. *)
NewRowTeaches ==
    Len(rows') > Len(rows) =>
        \E t \in open : /\ Match(rows'[Len(rows')], t)
                        /\ \A i \in DOMAIN rows : ~Match(rows[i], t)

(* Every step brings the array nearer: the next field; a later stage of    *)
(* it; one row more grown, or fewer tuples open.                           *)
Stage == [grow |-> 1, complete |-> 2, next |-> 3, done |-> 4, error |-> 4]
Advances ==
    \/ f < f'
    \/ /\ f' = f
       /\ \/ Stage[state] < Stage[state']
          \/ state' = state /\ Len(rows') = Len(rows) /\ grown < grown'
          \/ state' = state /\ open' \subseteq open /\ open' # open
=============================================================================
