------------------------------- MODULE Bounds -------------------------------
(***************************************************************************)
(* The boundary search of one numeric field (discoverBounds): from an      *)
(* accepted integer, doubling steps bracket a rejection in each direction, *)
(* bisection narrows the bracket to adjacent integers, and fractional      *)
(* neighbours tell an inclusive bound from an exclusive one.               *)
(*                                                                         *)
(* Numbers are in thousandths, the resolution the code formats fractions   *)
(* with.  Every other field keeps its baseline value, so an input is the   *)
(* value of this field, as a number or as text.  A probe may end the       *)
(* search; a later session starts again with what was classified.          *)
(***************************************************************************)
EXTENDS Integers, FiniteSets, Sequences, SequencesExt

CONSTANTS
    Start,          \* the baseline's integer
    Steps,          \* boundary-search-steps
    APIs,           \* [lo, hi, strict, integral, hole, coerces] records
    Samples,        \* values other phases may have classified before
    MaxInterrupts   \* bound on searches that end early

(* What Validate and the baseline guarantee, and the types of the data;     *)
(* instances assume it.                                                    *)
Assumption ==
    /\ Start \in Int /\ Steps \in 1 .. 30
    /\ \A a \in APIs : /\ a.lo \in Int /\ a.hi \in Int /\ a.hole \in Int
                      /\ {a.strict, a.integral, a.coerces} \subseteq BOOLEAN
    /\ Samples \subseteq [text : BOOLEAN, n : Int]

VARIABLES
    api,         \* what the API accepts
    known,       \* classified values of the field
    direction,   \* -1, then 1, then 0 when the search is over
    phase,       \* "begin", "double", "bisect", "challenge", "texts"
    step,        \* doubling steps made
    good, bad,   \* accepted and rejected integer
    rest,        \* challenges of the bracket still to make
    outside,     \* acceptedOutside
    rules,       \* bounds found
    interrupts

vars == <<api, known, direction, phase, step, good, bad, rest, outside, rules,
          interrupts>>

Unit == 1000
Num(n) == [text |-> FALSE, n |-> n]
Text(n) == [text |-> TRUE, n |-> n]
Integral(n) == n % Unit = 0

(* The API takes an interval, open or closed, perhaps of integers only,    *)
(* perhaps with one integer missing, perhaps numbers written as text.      *)
Accepts(a, v) ==
    /\ IF a.strict THEN a.lo < v.n /\ v.n < a.hi ELSE a.lo <= v.n /\ v.n <= a.hi
    /\ a.integral => Integral(v.n)
    /\ v.n # a.hole
    /\ v.text => a.coerces

Init ==
    /\ api \in {a \in APIs : Accepts(a, Num(Start * Unit))}
    /\ known \in {k \cup {Num(Start * Unit)} : k \in SUBSET Samples}
    /\ direction = -1 /\ phase = "begin" /\ step = 0
    /\ good = Start /\ bad = 0 /\ rest = <<>> /\ outside = TRUE
    /\ rules = {} /\ interrupts = 0

(* Go's division truncates towards zero. *)
Half(n) == IF n >= 0 THEN n \div 2 ELSE -((-n) \div 2)
Away(n) == (n - Start) * direction

(* Two values beyond the accepted integer and one before it, in the        *)
(* direction searched.                                                     *)
(* Deviation: the fractions beyond the bound are not tried.                *)
ChallengesNear == <<-1>>
Challenges == <<500, 999, -1>>

Value(g, c) == Num(g * Unit + direction * c)

(* A probe: the value is classified, unless it already was. *)
Probe(v) == known' = known \cup {v}

AcceptsText == \E v \in known : v.text /\ Integral(v.n) /\ Accepts(api, v)

-----------------------------------------------------------------------------
(* Known rejections on the side searched. *)
RejectedBefore ==
    {v.n \div Unit : v \in
        {w \in known : /\ ~w.text /\ Integral(w.n) /\ ~Accepts(api, w)
                       /\ Away(w.n \div Unit) > 0}}

Begin ==
    /\ direction # 0 /\ phase = "begin"
    /\ good' = Start /\ step' = 0
    /\ IF RejectedBefore = {}
       THEN phase' = "double" /\ bad' = 0
       ELSE /\ phase' = "bisect"
            /\ bad' = CHOOSE b \in RejectedBefore :
                          \A c \in RejectedBefore : Away(b) <= Away(c)
    /\ UNCHANGED <<api, known, direction, rest, outside, rules, interrupts>>

NextDirection ==
    /\ direction' = IF direction = -1 THEN 1 ELSE 0
    /\ phase' = "begin"

Double ==
    LET candidate == Start + direction * 2^step
    IN  /\ phase = "double" /\ step < Steps
        /\ Probe(Num(candidate * Unit))
        /\ step' = step + 1
        /\ IF Accepts(api, Num(candidate * Unit))
           THEN good' = candidate /\ UNCHANGED <<phase, bad>>
           ELSE bad' = candidate /\ phase' = "bisect" /\ UNCHANGED good
        /\ UNCHANGED <<api, direction, rest, outside, rules, interrupts>>

(* No rejection within reach: this side has no bound to report. *)
Unbounded ==
    /\ phase = "double" /\ step = Steps
    /\ NextDirection
    /\ UNCHANGED <<api, known, step, good, bad, rest, outside, rules, interrupts>>

(* Deviation: the bracket is narrowed until nothing is left of it. *)
AdjacentWhenEmpty == good = bad
Adjacent == good - bad \in {-1, 1}

Bisect ==
    LET mid == bad + Half(good - bad)
    IN  /\ phase = "bisect" /\ ~Adjacent
        /\ Probe(Num(mid * Unit))
        /\ IF Accepts(api, Num(mid * Unit))
           THEN good' = mid /\ UNCHANGED bad
           ELSE bad' = mid /\ UNCHANGED good
        /\ UNCHANGED <<api, direction, phase, step, rest, outside, rules,
                       interrupts>>

Bracketed ==
    /\ phase = "bisect" /\ Adjacent
    /\ phase' = "challenge" /\ rest' = Challenges /\ outside' = TRUE
    /\ UNCHANGED <<api, known, direction, step, good, bad, rules, interrupts>>

Challenge ==
    LET v == Value(good, Head(rest))
    IN  /\ phase = "challenge" /\ rest # <<>>
        /\ Probe(v)
        /\ rest' = Tail(rest)
        /\ outside' = (outside /\ (Head(rest) > 0 => Accepts(api, v)))
        /\ UNCHANGED <<api, direction, phase, step, good, bad, rules, interrupts>>

Bound == [dir |-> direction, strict |-> outside,
          at |-> IF outside THEN bad ELSE good, accepted |-> good]

(* The bound of this side; where integer text is accepted, the two ends of *)
(* the bracket are tried as text too.                                      *)
Conclude ==
    /\ phase = "challenge" /\ rest = <<>>
    /\ rules' = rules \cup {Bound}
    /\ IF AcceptsText
       THEN known' = known \cup {Text(good * Unit), Text(bad * Unit)}
       ELSE UNCHANGED known
    /\ NextDirection
    /\ UNCHANGED <<api, step, good, bad, rest, outside, interrupts>>

(* A probe is refused, fails or stays unclassified: the search ends with   *)
(* the rules it has, and is made again when the operation is resumed.      *)
Interrupt ==
    /\ direction # 0 /\ phase # "begin"
    /\ interrupts < MaxInterrupts /\ interrupts' = interrupts + 1
    /\ direction' = -1 /\ phase' = "begin" /\ rules' = {}
    /\ UNCHANGED <<api, known, step, good, bad, rest, outside>>

Search == Begin \/ Double \/ Unbounded \/ Bisect \/ Bracketed \/ Challenge \/ Conclude
Next == Search \/ Interrupt
Spec == Init /\ [][Next]_vars /\ WF_vars(Search)

-----------------------------------------------------------------------------
TypeOK ==
    /\ direction \in {-1, 0, 1} /\ step \in 0 .. Steps
    /\ phase \in {"begin", "double", "bisect", "challenge"}
    /\ api \in APIs /\ known \subseteq [text : BOOLEAN, n : Int]
    /\ good \in Int /\ bad \in Int /\ outside \in BOOLEAN
    /\ rules \subseteq [dir : {-1, 1}, strict : BOOLEAN, at : Int, accepted : Int]

(* Bisection, whatever the API does inside the bracket, keeps an accepted  *)
(* integer and a classified rejection beyond it, on the side searched.     *)
BracketHolds ==
    phase \in {"bisect", "challenge"} =>
        /\ Num(good * Unit) \in known /\ Accepts(api, Num(good * Unit))
        /\ Num(bad * Unit) \in known /\ ~Accepts(api, Num(bad * Unit))
        /\ 0 <= Away(good) /\ Away(good) < Away(bad)

(* The search on the way to a bracket: it starts at the baseline, what it  *)
(* goes on from is accepted, and the next step is farther.                 *)
SearchHolds ==
    /\ Num(Start * Unit) \in known /\ Accepts(api, Num(Start * Unit))
    /\ phase # "begin" => /\ direction # 0 /\ 0 <= Away(good)
                          /\ Accepts(api, Num(good * Unit))
                          /\ Num(good * Unit) \in known
    /\ phase = "double" => Away(good) < 2^step

(* The challenges start when the bracket is closed, and outside remembers  *)
(* whether all fractions tried so far were accepted.                       *)
ChallengesHold ==
    phase = "challenge" =>
        /\ bad = good + direction
        /\ \/ rest = Challenges /\ outside
           \/ rest = <<999, -1>> /\ (outside <=> Accepts(api, Value(good, 500)))
           \/ /\ rest \in {<<-1>>, <<>>}
              /\ outside <=> /\ Accepts(api, Value(good, 500))
                             /\ Accepts(api, Value(good, 999))

(* What a reported bound rests on.                                         *)
Earned(r) ==
    LET fraction(c) == Num(r.accepted * Unit + r.dir * c)
    IN  /\ (r.accepted - Start) * r.dir >= 0
        /\ Accepts(api, fraction(0)) /\ ~Accepts(api, fraction(Unit))
        /\ r.strict <=> Accepts(api, fraction(500)) /\ Accepts(api, fraction(999))
        /\ r.at = IF r.strict THEN r.accepted + r.dir ELSE r.accepted

(* The inductive invariant. *)
BInv ==
    /\ TypeOK /\ SearchHolds /\ BracketHolds /\ ChallengesHold
    /\ \A r \in rules : Earned(r)

RuleHolds(r, n) ==
    LET bound == r.at * Unit
    IN  IF r.dir = 1
        THEN IF r.strict THEN n < bound ELSE n <= bound
        ELSE IF r.strict THEN n > bound ELSE n >= bound

(* Intervals without a hole that end on integers are what the search can   *)
(* resolve.                                                                *)
Resolvable(a) ==
    Integral(a.lo) /\ Integral(a.hi) /\ (a.hole < a.lo \/ a.hi < a.hole)

Near(n) == {n * Unit + d : d \in {-1000, -999, -500, -1, 0, 1, 500, 999, 1000}}

(* A reported bound of such an interval is the API's own: no number near   *)
(* it, on its side of the baseline, is told apart by the two.              *)
BoundIsRight ==
    Resolvable(api) =>
        \A r \in rules : \A n \in Near(r.at) :
            ((n - Start * Unit) * r.dir >= 0
             /\ (api.integral => Integral(n)))
            => (RuleHolds(r, n) <=> Accepts(api, Num(n)))

(* With both bounds and integer text accepted, the range reported for      *)
(* integer text is the one the API reads.                                  *)
TextRangeIsRight ==
    (Resolvable(api) /\ direction = 0 /\ AcceptsText) =>
        \A low, high \in rules : (low.dir = -1 /\ high.dir = 1) =>
            \A n \in {m \in Near(low.accepted) \cup Near(high.accepted) : Integral(m)} :
                (low.accepted * Unit <= n /\ n <= high.accepted * Unit)
                <=> Accepts(api, Text(n))

(* Every probe brings the end nearer: the other direction; a later phase;  *)
(* one doubling of Steps, a smaller bracket, or one challenge less.  Only  *)
(* an interruption starts again.                                           *)
Advances ==
    \/ interrupts' = interrupts + 1
    \/ <<direction, direction'>> \in {<<-1, 1>>, <<1, 0>>}
    \/ /\ direction' = direction
       /\ \/ <<phase, phase'>> \in {<<"begin", "double">>, <<"begin", "bisect">>,
                                    <<"double", "bisect">>, <<"bisect", "challenge">>}
          \/ /\ phase' = phase
             /\ \/ phase = "double" /\ step < step' /\ step' <= Steps
                \/ /\ phase = "bisect"
                   /\ Away(good) <= Away(good') /\ Away(bad') <= Away(bad)
                   /\ Away(bad') - Away(good') < Away(bad) - Away(good)
                \/ phase = "challenge" /\ Len(rest') < Len(rest)

(* Bisection closes every bracket. *)
SearchEnds == <>(direction = 0)
=============================================================================
