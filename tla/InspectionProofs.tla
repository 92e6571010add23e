--------------------------- MODULE InspectionProofs ---------------------------
(***************************************************************************)
(* IInv of module InspectionInv is an inductive invariant of Inspection,   *)
(* for any fields and values, any candidate rules, any API, one that       *)
(* changes its mind included, and any number of sessions that may die,     *)
(* meet errors, or run out of requests.  From it follow that a complete    *)
(* analysis is earned, that a supported finding is confirmed and has no    *)
(* counterexample, that nothing is probed twice, and that exploration      *)
(* leaves the reserve to confirmation; and, with finitely many requests,   *)
(* that every step of a session takes it closer to its end.                *)
(***************************************************************************)
EXTENDS InspectionInv, FiniteSetTheorems, WellFoundedInduction, TLAPS

(* Lists and first elements *)

\* A set of positions that is not empty has a first one.
LEMMA FirstIs ==
  ASSUME NEW S \in SUBSET Nat, S # {}
  PROVE  First(S) \in S /\ \A y \in S : First(S) <= y
<1> DEFINE R == OpToRel(<, Nat)
<1>1. IsWellFoundedOn(R, Nat)
  BY NatLessThanWellFounded
<1>2. \A x, y \in Nat : x < y => <<x, y>> \in R
  BY DEF OpToRel
<1> HIDE DEF R
<1>3. PICK x \in S : \A y \in S : ~(<<y, x>> \in R)
  BY <1>1, WFMin
<1>4. ASSUME NEW y \in S PROVE x <= y
  <2>1. x \in Nat /\ y \in Nat
    OBVIOUS
  <2>2. ~(y < x)
    BY <1>2, <1>3, <2>1
  <2> QED  BY <2>1, <2>2
<1> QED  BY <1>4 DEF First

\* A finite set can be listed.
LEMMA ListOf ==
  ASSUME NEW S, IsFiniteSet(S)
  PROVE  SetToSeq(S) \in Seq(S) /\ ToSet(SetToSeq(S)) = S
<1> DEFINE n == Cardinality(S)
<1> DEFINE g == SetToSeq(S)
<1>1. n \in Nat /\ Bijection(1 .. n, S) # {}
  BY FS_CardinalityType DEF ExistsBijection
<1>2. PICK f \in [1 .. n -> S] : IsInjective(f)
  BY <1>1 DEF Bijection, Injection
<1>3. g \in [1 .. n -> S] /\ IsInjective(g)
  BY <1>2 DEF SetToSeq
<1> DEFINE T == {g[i] : i \in 1 .. n}
<1> HIDE DEF g
<1>4. g \in Surjection(1 .. n, T) /\ g \in Injection(1 .. n, T)
  BY <1>3 DEF Surjection, Injection
<1>5. IsFiniteSet(1 .. n) /\ Cardinality(1 .. n) = n
  <2>1. /\ IsFiniteSet(1 .. n)
        /\ Cardinality(1 .. n) = IF 1 > n THEN 0 ELSE n - 1 + 1
    BY <1>1, FS_Interval
  <2> QED  BY <1>1, <2>1
<1>6. Cardinality(T) = n
  BY <1>4, <1>5, FS_Surjection
<1>7. T \subseteq S
  BY <1>3
<1>8. T = S
  BY <1>6, <1>7, FS_Subset
<1>9. g \in Seq(S)
  BY <1>1, <1>3
<1>10. ToSet(g) = T
  BY <1>3 DEF ToSet
<1> QED  BY <1>8, <1>9, <1>10 DEF g

\* The image of a finite set is finite.
LEMMA ImageFinite ==
  ASSUME NEW S, IsFiniteSet(S), NEW f, f \in [S -> {f[x] : x \in S}]
  PROVE  IsFiniteSet({f[x] : x \in S})
<1>1. f \in Surjection(S, {f[x] : x \in S})
  BY DEF Surjection
<1> QED  BY <1>1, FS_Surjection

\* A session's claims.
LEMMA ClaimsAre == Claims \in Seq(AnyClaim)
<1> DEFINE o == [f \in Field |-> [kind |-> "optional", field |-> f]]
<1> DEFINE r == [s \in Surprising |->
                    [kind |-> "repair", field |-> s[1], value |-> s[2]]]
<1> DEFINE O == {o[f] : f \in Field}
<1> DEFINE R == {r[s] : s \in Surprising}
<1>1. IsFiniteSet(O) /\ IsFiniteSet(R)
  <2>1. o \in [Field -> O] /\ r \in [Surprising -> R]
    OBVIOUS
  <2> HIDE DEF o, r
  <2>2. IsFiniteSet(O)
    BY <2>1, ImageFinite, FieldAssumption
  <2>3. IsFiniteSet(R)
    BY <2>1, ImageFinite, SurprisingAssumption
  <2> QED  BY <2>2, <2>3
<1>2. /\ O = {[kind |-> "optional", field |-> f] : f \in Field}
      /\ R = {[kind |-> "repair", field |-> s[1], value |-> s[2]] : s \in Surprising}
  OBVIOUS
<1>3. O \subseteq AnyClaim /\ R \subseteq AnyClaim
  BY SurprisingAssumption DEF AnyClaim
<1> HIDE DEF O, R
<1>4. SetToSeq(O) \in Seq(AnyClaim) /\ SetToSeq(R) \in Seq(AnyClaim)
  <2>1. SetToSeq(O) \in Seq(O) /\ SetToSeq(R) \in Seq(R)
    BY <1>1, ListOf
  <2> QED  BY <1>3, <2>1
<1> DEFINE c == [i \in DOMAIN Ranked |-> [kind |-> "rule", rule |-> Ranked[i]]]
<1>5. c \in Seq(AnyClaim)
  <2>1. Ranked \in Seq(Language)
    BY RankedAssumption
  <2>2. Len(Ranked) \in Nat /\ DOMAIN Ranked = 1 .. Len(Ranked)
    BY <2>1
  <2>3. \A i \in DOMAIN Ranked : Ranked[i] \in Claimed
    BY DEF Claimed, ToSet
  <2>4. \A i \in DOMAIN Ranked : [kind |-> "rule", rule |-> Ranked[i]] \in AnyClaim
    BY <2>3 DEF AnyClaim
  <2> QED  BY <2>2, <2>4
<1>6. Claims = (c \o SetToSeq(O)) \o SetToSeq(R)
  BY <1>2 DEF Claims
<1> HIDE DEF c
<1> QED  BY <1>4, <1>5, <1>6

-------------------------------------------------------------------------------
(* What evidence means *)

Acc(E) == {o.input : o \in {p \in E : p.outcome = "accepted"}}
Rej(E) == {o.input : o \in {p \in E : p.outcome = "input-rejected"}}

\* The requests a claimed rule accepts.
LEMMA SatOf ==
  ASSUME NEW r \in Claimed
  PROVE  ClaimedSat[r] = Sat[r] /\ Sat[r] \subseteq Requests
<1>1. r \in Language
  <2>1. Ranked \in Seq(Language)
    BY RankedAssumption
  <2>2. PICK i \in DOMAIN Ranked : r = Ranked[i]
    BY DEF Claimed, ToSet
  <2>3. DOMAIN Ranked = 1 .. Len(Ranked)
    BY <2>1
  <2> QED  BY <2>1, <2>2, <2>3
<1> QED  BY <1>1 DEF ClaimedSat, Sat

\* Survivors hold on what was accepted, and a clause is what a rejection
\* violates.
LEMMA Meaning ==
  ASSUME NEW E
  PROVE  /\ N!Survivors(E) = {r \in Claimed : \A x \in Acc(E) : x \in ClaimedSat[r]}
         /\ N!Clauses(E) = {N!Violated(x) : x \in Rej(E)}
  BY DEF N!Survivors, N!Disabled, N!Violated, N!Clauses, Acc, Rej

\* More evidence leaves fewer networks.
LEMMA Narrows ==
  ASSUME NEW E, NEW F, Acc(E) \subseteq Acc(F), Rej(E) \subseteq Rej(F)
  PROVE  /\ N!Survivors(F) \subseteq N!Survivors(E)
         /\ N!Clauses(E) \subseteq N!Clauses(F)
         /\ N!Consistent(F) => N!Consistent(E)
         /\ \A x : N!CanAccept(F, x) => N!CanAccept(E, x)
         /\ \A x : N!CanReject(F, x) => N!CanReject(E, x)
         /\ \A x : N!Agreed(E, x) => N!Agreed(F, x)
<1>1. N!Survivors(F) \subseteq N!Survivors(E)
  BY Meaning
<1>2. N!Clauses(E) \subseteq N!Clauses(F)
  BY Meaning
<1>3. N!Consistent(F) => N!Consistent(E)
  BY <1>1, <1>2 DEF N!Consistent
<1>4. \A x : N!CanAccept(F, x) => N!CanAccept(E, x)
  BY <1>1, <1>2 DEF N!CanAccept
<1>5. \A x : N!CanReject(F, x) => N!CanReject(E, x)
  BY <1>1 DEF N!CanReject
<1> QED  BY <1>1, <1>2, <1>3, <1>4, <1>5 DEF N!Agreed

\* On what has been classified all networks agree.
LEMMA ClassifiedAgreed ==
  ASSUME NEW E, NEW x, x \in Acc(E) \cup Rej(E)
  PROVE  N!Agreed(E, x)
<1>1. CASE x \in Acc(E)
  <2>1. ~N!CanReject(E, x)
    BY <1>1, Meaning DEF N!CanReject
  <2> QED  BY <2>1 DEF N!Agreed
<1>2. CASE x \in Rej(E)
  <2>1. N!Violated(x) \in N!Clauses(E)
    BY <1>2, Meaning
  <2>2. ~N!CanAccept(E, x)
    BY <2>1 DEF N!CanAccept, N!Violated
  <2> QED  BY <2>2 DEF N!Agreed
<1> QED  BY <1>1, <1>2

\* A network that explains the evidence may accept what was accepted.
LEMMA AcceptedAcceptable ==
  ASSUME NEW E, NEW x \in Acc(E), N!Consistent(E)
  PROVE  N!CanAccept(E, x)
<1>1. \A r \in N!Survivors(E) : x \in ClaimedSat[r]
  BY Meaning
<1>2. \A c \in N!Clauses(E) : \E r \in c \cap N!Survivors(E) : TRUE
  BY DEF N!Consistent
<1> QED  BY <1>1, <1>2 DEF N!CanAccept

\* An entailed rule holds on what may be accepted.
LEMMA EntailedHolds ==
  ASSUME NEW E, NEW r, N!EntailedBy(E, r),
         NEW x \in Requests, N!CanAccept(E, x)
  PROVE  r \in Claimed /\ x \in Sat[r]
<1>1. r \in Claimed
  BY DEF N!EntailedBy, N!Survivors
<1>2. x \in ClaimedSat[r]
  BY DEF N!EntailedBy
<1> QED  BY <1>1, <1>2, SatOf

\* It holds on what was accepted.
LEMMA EntailedSurvives ==
  ASSUME NEW E, NEW r, N!EntailedBy(E, r)
  PROVE  r \in Claimed /\ \A x \in Acc(E) : x \in Sat[r]
<1>1. r \in N!Survivors(E)
  BY DEF N!EntailedBy
<1>2. r \in Claimed /\ \A x \in Acc(E) : x \in ClaimedSat[r]
  BY <1>1, Meaning
<1> QED  BY <1>2, SatOf

\* It stays entailed when what is accepted was accepted before or could be.
LEMMA EntailedStays ==
  ASSUME NEW E, NEW F, Acc(E) \subseteq Acc(F), Rej(E) \subseteq Rej(F),
         \A x \in Acc(F) : x \in Acc(E) \/ (x \in Requests /\ N!CanAccept(E, x)),
         NEW r, N!EntailedBy(E, r)
  PROVE  N!EntailedBy(F, r)
<1>1. r \in Claimed /\ ClaimedSat[r] = Sat[r]
  BY EntailedSurvives, SatOf
<1>2. \A x \in Acc(F) : x \in ClaimedSat[r]
  BY <1>1, EntailedSurvives, EntailedHolds
<1>3. r \in N!Survivors(F)
  BY <1>1, <1>2, Meaning
<1>4. \A x \in Requests \ ClaimedSat[r] : ~N!CanAccept(E, x)
  BY DEF N!EntailedBy
<1>5. \A x \in Requests \ ClaimedSat[r] : ~N!CanAccept(F, x)
  BY <1>4, Narrows
<1> QED  BY <1>3, <1>5 DEF N!EntailedBy

-------------------------------------------------------------------------------
(* What positions of a log say *)

EvidenceIn(l, o) ==
  {[input |-> l[i].input, outcome |-> l[i].outcome] : i \in o}
ToldIn(l, o, x, outcome) ==
  \E i \in o : l[i].input = x /\ l[i].outcome = outcome

\* The evidence of positions, read as requests accepted and rejected.
LEMMA Reading ==
  ASSUME NEW l, NEW o
  PROVE  /\ \A x : x \in Acc(EvidenceIn(l, o)) <=> ToldIn(l, o, x, "accepted")
         /\ \A x : x \in Rej(EvidenceIn(l, o)) <=> ToldIn(l, o, x, "input-rejected")
<1> DEFINE e(i) == [input |-> l[i].input, outcome |-> l[i].outcome]
<1>1. EvidenceIn(l, o) = {e(i) : i \in o}
  BY DEF EvidenceIn
<1>2. \A i : e(i).input = l[i].input /\ e(i).outcome = l[i].outcome
  OBVIOUS
<1> HIDE DEF e
<1>3. \A x : x \in Acc(EvidenceIn(l, o)) <=> ToldIn(l, o, x, "accepted")
  BY <1>1, <1>2 DEF Acc, ToldIn
<1>4. \A x : x \in Rej(EvidenceIn(l, o)) <=> ToldIn(l, o, x, "input-rejected")
  BY <1>1, <1>2 DEF Rej, ToldIn
<1> QED  BY <1>3, <1>4

Extends(l, m) == Len(l) <= Len(m) /\ \A i \in 1 .. Len(l) : m[i] = l[i]
Logs == {l \in Seq(Entries) : \A i \in DOMAIN l : l[i].control < i}

\* What a log is made of.
LEMMA LogIs ==
  ASSUME NEW l \in Logs
  PROVE  /\ l \in Seq(Entries) /\ Len(l) \in Nat /\ DOMAIN l = 1 .. Len(l)
         /\ \A i \in 1 .. Len(l) :
               /\ l[i] \in Entries /\ l[i].phase \in Phases
               /\ l[i].input \in Requests /\ l[i].outcome \in Outcomes
               /\ l[i].control \in 0 .. i - 1
<1>1. l \in Seq(Entries)
  BY DEF Logs
<1>2. Len(l) \in Nat /\ DOMAIN l = 1 .. Len(l)
  BY <1>1
<1>3. ASSUME NEW i \in 1 .. Len(l)
      PROVE  /\ l[i] \in Entries /\ l[i].phase \in Phases
             /\ l[i].input \in Requests /\ l[i].outcome \in Outcomes
             /\ l[i].control \in 0 .. i - 1
  <2>1. l[i] \in Entries
    BY <1>1, <1>2
  <2>2. /\ l[i].phase \in Phases /\ l[i].input \in Requests
        /\ l[i].outcome \in Outcomes /\ l[i].control \in Nat
    BY <2>1 DEF Entries
  <2>3. l[i].control < i
    BY <1>2 DEF Logs
  <2> QED  BY <2>1, <2>2, <2>3
<1> QED  BY <1>1, <1>2, <1>3

\* What was observed stays observed, in a longer log as well.
LEMMA ToldStays ==
  ASSUME NEW l, NEW m, NEW o, NEW p, o \subseteq p, \A i \in o : m[i] = l[i]
  PROVE  /\ \A x, y : ToldIn(l, o, x, y) => ToldIn(m, p, x, y)
         /\ Acc(EvidenceIn(l, o)) \subseteq Acc(EvidenceIn(m, p))
         /\ Rej(EvidenceIn(l, o)) \subseteq Rej(EvidenceIn(m, p))
<1>1. \A x, y : ToldIn(l, o, x, y) => ToldIn(m, p, x, y)
  BY DEF ToldIn
<1> QED  BY <1>1, Reading

FullIn(l, p, n) ==
  {i \in 1 .. n :
      /\ l[i].phase = "validation" /\ l[i].input = p.bad
      /\ l[i].outcome = p.expect /\ l[i].control # 0
      /\ l[l[i].control].input = p.good
      /\ l[l[i].control].outcome = "accepted"}

\* A log's complete trials are those of any longer log, up to the same place.
LEMMA FullSame ==
  ASSUME NEW l \in Logs, NEW m, Extends(l, m), NEW n \in 0 .. Len(l), NEW p
  PROVE  FullIn(m, p, n) = FullIn(l, p, n)
<1>1. Len(l) \in Nat
  BY LogIs
<1>2. ASSUME NEW i \in 1 .. n
      PROVE  /\ m[i] = l[i]
             /\ l[i].control # 0 => m[l[i].control] = l[l[i].control]
  <2>1. i \in 1 .. Len(l)
    BY <1>1
  <2>2. l[i].control \in 0 .. i - 1
    BY <2>1, LogIs
  <2>3. l[i].control # 0 => l[i].control \in 1 .. Len(l)
    BY <1>1, <2>1, <2>2
  <2> QED  BY <2>1, <2>3 DEF Extends
<1> QED  BY <1>2 DEF FullIn

\* They are finitely many, and more up to a later place.
LEMMA FullGrows ==
  ASSUME NEW l, NEW p, NEW n \in Nat, NEW k \in Nat, n <= k
  PROVE  /\ IsFiniteSet(FullIn(l, p, n))
         /\ Cardinality(FullIn(l, p, n)) \in Nat
         /\ Cardinality(FullIn(l, p, k)) \in Nat
         /\ Cardinality(FullIn(l, p, n)) <= Cardinality(FullIn(l, p, k))
<1>1. FullIn(l, p, n) \subseteq FullIn(l, p, k)
  BY DEF FullIn
<1>2. FullIn(l, p, k) \subseteq 1 .. k /\ IsFiniteSet(1 .. k)
  BY FS_Interval DEF FullIn
<1>3. IsFiniteSet(FullIn(l, p, k))
  BY <1>2, FS_Subset
<1> QED  BY <1>1, <1>3, FS_Subset, FS_CardinalityType

RetainedIn(l) == {i \in DOMAIN l : Reusable(l[i])}
TrialsIn(l, g, b) ==
  {i \in RetainedIn(l) :
      /\ l[i].phase = "validation" /\ l[i].input = b
      /\ l[i].control \in RetainedIn(l)
      /\ l[l[i].control].phase = "validation-control"
      /\ l[l[i].control].input = g}

\* Trials are not lost, and a new one is the entry that was appended.
LEMMA TrialsGrow ==
  ASSUME NEW l \in Logs, NEW m \in Logs, Extends(l, m), NEW g, NEW b
  PROVE  /\ TrialsIn(l, g, b) \subseteq TrialsIn(m, g, b)
         /\ \A i \in TrialsIn(m, g, b) : i \in 1 .. Len(l) => i \in TrialsIn(l, g, b)
<1>1. /\ Len(l) \in Nat /\ DOMAIN l = 1 .. Len(l)
      /\ Len(m) \in Nat /\ DOMAIN m = 1 .. Len(m)
      /\ Len(l) <= Len(m) /\ \A i \in 1 .. Len(l) : m[i] = l[i]
  BY LogIs DEF Extends
<1>2. \A i \in 1 .. Len(l) : i \in RetainedIn(l) <=> i \in RetainedIn(m)
  BY <1>1 DEF RetainedIn
<1>3. ASSUME NEW i \in TrialsIn(l, g, b)
      PROVE  i \in TrialsIn(m, g, b)
  <2>1. i \in 1 .. Len(l) /\ l[i].control \in 1 .. Len(l)
    BY <1>1, <1>3 DEF TrialsIn, RetainedIn
  <2> QED  BY <1>1, <1>2, <1>3, <2>1 DEF TrialsIn
<1>4. ASSUME NEW i \in TrialsIn(m, g, b), i \in 1 .. Len(l)
      PROVE  i \in TrialsIn(l, g, b)
  <2>1. l[i].control \in 0 .. i - 1
    BY <1>4, LogIs
  <2>2. m[i] = l[i] /\ l[i].control \in RetainedIn(m)
    BY <1>1, <1>4 DEF TrialsIn
  <2>3. l[i].control \in DOMAIN m
    BY <2>2 DEF RetainedIn
  <2>4. l[i].control \in 1 .. Len(l)
    BY <1>1, <1>4, <2>1, <2>3
  <2> QED  BY <1>1, <1>2, <1>4, <2>2, <2>4 DEF TrialsIn
<1> QED  BY <1>3, <1>4

\* A trial and its control are where they were in any longer log.
LEMMA TrialThere ==
  ASSUME NEW l \in Logs, NEW m, Extends(l, m), NEW g, NEW b,
         NEW i \in TrialsIn(l, g, b)
  PROVE  m[i] = l[i] /\ m[l[i].control] = l[l[i].control]
<1>1. DOMAIN l = 1 .. Len(l)
  BY LogIs
<1>2. i \in 1 .. Len(l) /\ l[i].control \in 1 .. Len(l)
  BY <1>1 DEF TrialsIn, RetainedIn
<1> QED  BY <1>2 DEF Extends

\* Trials that showed what they should are complete ones.
LEMMA TrialsAreFull ==
  ASSUME NEW l \in Logs, NEW p,
         \A i \in TrialsIn(l, p.good, p.bad) :
            l[i].outcome = p.expect /\ l[l[i].control].outcome = "accepted"
  PROVE  /\ IsFiniteSet(TrialsIn(l, p.good, p.bad))
         /\ Cardinality(TrialsIn(l, p.good, p.bad)) \in Nat
         /\ Cardinality(TrialsIn(l, p.good, p.bad))
               <= Cardinality(FullIn(l, p, Len(l)))
<1> DEFINE t == TrialsIn(l, p.good, p.bad)
<1>1. Len(l) \in Nat /\ DOMAIN l = 1 .. Len(l)
  BY LogIs
<1>2. t \subseteq FullIn(l, p, Len(l))
  <2> SUFFICES ASSUME NEW i \in t PROVE i \in FullIn(l, p, Len(l))
    OBVIOUS
  <2>1. i \in 1 .. Len(l) /\ l[i].control \in 1 .. Len(l)
    BY <1>1 DEF TrialsIn, RetainedIn
  <2> QED  BY <2>1 DEF TrialsIn, FullIn
<1>3. IsFiniteSet(FullIn(l, p, Len(l)))
  BY <1>1, FullGrows
<1> QED  BY <1>2, <1>3, FS_Subset, FS_CardinalityType

-------------------------------------------------------------------------------
(* Reports *)

CompleteIn(l, r) ==
  (r # None /\ r.state = "complete") =>
    /\ \A x \in Planned : \E i \in 1 .. r.at :
          l[i].input = x /\ l[i].outcome # "inconclusive"
    /\ N!Consistent(EvidenceIn(l, 1 .. r.at))
    /\ Active => \A x \in Requests : N!Agreed(EvidenceIn(l, 1 .. r.at), x)

SupportedIn(l, r) ==
  r # None =>
    \A f \in Supported(r.rules) :
      /\ Cardinality(FullIn(l, f.pair, r.at)) >= r.trials
      /\ f.claim.kind = "rule" => Matched(f.claim.rule, f.pair.good, f.pair.bad)

UncontradictedIn(l, r) ==
  r # None =>
    \A f \in Supported(r.rules) : f.claim.kind = "rule" =>
      \A i \in 1 .. r.at : l[i].outcome = "accepted" =>
        \/ l[i].input \in Sat[f.claim.rule]
        \/ ~r.finished /\ i = r.at /\ l[i].phase = "validation"

ReportIn(l, r) == CompleteIn(l, r) /\ SupportedIn(l, r) /\ UncontradictedIn(l, r)

\* What the properties say, as predicates of a log and a report.
LEMMA ReportIs ==
  /\ Inv <=> TypeOK /\ SupportedIn(log, report)
  /\ CompleteIsEarned <=> CompleteIn(log, report)
  /\ NoCounterexample <=> UncontradictedIn(log, report)
<1>1. \A p, n : Full(p, n) = FullIn(log, p, n)
  BY DEF Full, FullIn
<1>2. SupportedIsConfirmed <=> SupportedIn(log, report)
  BY <1>1 DEF SupportedIsConfirmed, SupportedIn
<1>3. Evidence(Reported) = EvidenceIn(log, 1 .. report.at)
  BY DEF Evidence, EvidenceIn, Reported
<1>4. CompleteIsEarned <=> CompleteIn(log, report)
  BY <1>3 DEF CompleteIsEarned, CompleteIn, Outside, Reported
<1>5. NoCounterexample <=> UncontradictedIn(log, report)
  BY DEF NoCounterexample, UncontradictedIn, Accepted, Reported, CutShort
<1> QED  BY <1>2, <1>4, <1>5 DEF Inv

\* A report stays right however the log grows.
LEMMA ReportStays ==
  ASSUME NEW l \in Logs, NEW m, Extends(l, m), NEW r \in Analyses \cup {None},
         r # None => r.at <= Len(l), ReportIn(l, r)
  PROVE  ReportIn(m, r)
<1> SUFFICES ASSUME r # None PROVE ReportIn(m, r)
  BY DEF ReportIn, CompleteIn, SupportedIn, UncontradictedIn
<1>1. r \in Analyses /\ r.at \in Nat /\ Len(l) \in Nat /\ r.at <= Len(l)
  BY LogIs DEF Analyses
<1>2. \A i \in 1 .. r.at : m[i] = l[i]
  BY <1>1 DEF Extends
<1>3. EvidenceIn(m, 1 .. r.at) = EvidenceIn(l, 1 .. r.at)
  BY <1>2 DEF EvidenceIn
<1>4. \A p : FullIn(m, p, r.at) = FullIn(l, p, r.at)
  BY <1>1, FullSame
<1>5. CompleteIn(m, r)
  BY <1>2, <1>3 DEF ReportIn, CompleteIn
<1>6. SupportedIn(m, r)
  BY <1>4 DEF ReportIn, SupportedIn
<1>7. UncontradictedIn(m, r)
  BY <1>2 DEF ReportIn, UncontradictedIn
<1> QED  BY <1>5, <1>6, <1>7 DEF ReportIn

-------------------------------------------------------------------------------
(* Types *)

\* The log of a state of its type.
LEMMA LogOK ==
  ASSUME TypeOK
  PROVE  log \in Logs /\ Len(log) \in Nat /\ DOMAIN log = 1 .. Len(log)
<1>1. log \in Logs
  BY DEF TypeOK, Logs
<1> QED  BY <1>1, LogIs

\* What an experiment leaves behind.
LEMMA Experimented ==
  ASSUME TypeOK, NEW phase \in Phases, NEW x \in Requests,
         NEW c \in 0 .. Len(log), NEW out \in Outcomes,
         Experiment(phase, x, c, out)
  PROVE  /\ log' \in Logs /\ Extends(log, log') /\ Len(log') = Len(log) + 1
         /\ log'[Len(log')] = [phase |-> phase, input |-> x, control |-> c,
                               outcome |-> out]
         /\ api' = api /\ used' \in Nat
         /\ conf \in Settings =>
              \/ conf.budget = 0 \/ used' <= conf.budget
         /\ used' = used + Cost \/ used' = used + Cost + Extra
<1> DEFINE e == [phase |-> phase, input |-> x, control |-> c, outcome |-> out]
<1>1. log \in Logs /\ log \in Seq(Entries) /\ Len(log) \in Nat
      /\ DOMAIN log = 1 .. Len(log)
  BY LogOK, LogIs
<1>2. e \in Entries
  BY <1>1 DEF Entries
<1>3. log' = Append(log, e) /\ api' = api
  BY DEF Experiment
<1> HIDE DEF e
<1>4. /\ log' \in Seq(Entries) /\ Len(log') = Len(log) + 1
      /\ log'[Len(log')] = e /\ \A i \in 1 .. Len(log) : log'[i] = log[i]
      /\ DOMAIN log' = 1 .. Len(log) + 1
  BY <1>1, <1>2, <1>3
<1>5. \A i \in DOMAIN log' : log'[i].control < i
  <2>1. \A i \in 1 .. Len(log) : log[i].control < i
    BY <1>1 DEF Logs
  <2>2. e.control < Len(log) + 1
    BY <1>1 DEF e
  <2> QED  BY <1>1, <1>4, <2>1, <2>2
<1>6. log' \in Logs
  BY <1>4, <1>5 DEF Logs
<1>7. PICK extra \in {0, Extra} : used' = used + Cost + extra /\ Affordable(Cost + extra)
  BY DEF Experiment
<1>8. used \in Nat /\ Cost \in Nat /\ Extra \in Nat
  BY CostAssumption DEF TypeOK
<1>9. used' \in Nat /\ (used' = used + Cost \/ used' = used + Cost + Extra)
  BY <1>7, <1>8
<1>10. ASSUME conf \in Settings PROVE conf.budget = 0 \/ used' <= conf.budget
  <2>1. conf.budget \in Nat
    BY <1>10, SettingsAssumption
  <2> QED  BY <1>7, <1>8, <2>1 DEF Affordable
<1> QED  BY <1>1, <1>3, <1>4, <1>6, <1>9, <1>10 DEF e, Extends

\* The same, of the entry's fields.
LEMMA Sent ==
  ASSUME TypeOK, NEW phase \in Phases, NEW x \in Requests,
         NEW c \in 0 .. Len(log), NEW out \in Outcomes,
         Experiment(phase, x, c, out)
  PROVE  /\ log' \in Logs /\ Extends(log, log') /\ Len(log') = Len(log) + 1
         /\ log'[Len(log')].phase = phase /\ log'[Len(log')].input = x
         /\ log'[Len(log')].control = c /\ log'[Len(log')].outcome = out
         /\ used' = used + Cost \/ used' = used + Cost + Extra
<1>1. /\ log' \in Logs /\ Extends(log, log') /\ Len(log') = Len(log) + 1
      /\ log'[Len(log')] = [phase |-> phase, input |-> x, control |-> c,
                            outcome |-> out]
      /\ used' = used + Cost \/ used' = used + Cost + Extra
  BY Experimented
<1> QED  BY <1>1

\* A session that is left leaves an analysis, and nothing else behind.
LEMMA LeftOK ==
  ASSUME TypeOK, stage # "off", NEW state \in {"partial", "complete"},
         NEW finished \in BOOLEAN, NEW converged \in BOOLEAN,
         NEW findings \in SUBSET Findings,
         Leave(state, finished, converged, findings),
         api' = api, used' \in Nat, log' \in Logs
  PROVE  TypeOK'
<1>1. conf \in Settings /\ conf.trials \in Nat
  BY SettingsAssumption DEF TypeOK
<1>2. Len(log') \in Nat
  BY LogIs
<1>3. report' \in Analyses /\ report'.at = Len(log')
  BY <1>1, <1>2 DEF Leave, Analyses
<1>4. /\ stage' = "off" /\ conf' = None /\ base' = None /\ obs' = {}
      /\ seen' = {} /\ todo' = <<>> /\ visit' = None /\ control' = 0
      /\ blocked' = {} /\ pair' = None /\ rules' = {} /\ cover' = NoCover
  BY DEF Leave, Forget
<1>5. api' \in SUBSET Requests
  BY DEF TypeOK
<1>6. TodoOK'
  BY <1>4 DEF TodoOK
<1>7. cover' \in Flags
  BY <1>4 DEF NoCover, Flags
<1>8. log' \in Seq(Entries) /\ \A i \in DOMAIN log' : log'[i].control < i
  BY DEF Logs
<1> QED  BY <1>2, <1>3, <1>4, <1>5, <1>6, <1>7, <1>8 DEF TypeOK, Stages

\* An error leaves a partial analysis.
LEMMA FailedOK ==
  ASSUME TypeOK, stage # "off", Fail, api' = api, used' \in Nat, log' \in Logs
  PROVE  TypeOK'
<1>1. cover.converged \in BOOLEAN /\ rules \in SUBSET Findings
  BY DEF TypeOK, Flags
<1> QED  BY <1>1, LeftOK DEF Fail

\* During minimisation it leaves the session to confirm what it has.
LEMMA FailedMinimisingOK ==
  ASSUME TypeOK, stage # "off", FailUnlessMinimising,
         api' = api, used' \in Nat, log' \in Logs, Extends(log, log')
  PROVE  TypeOK'
<1>1. CASE stage # "minimise"
  BY <1>1, FailedOK DEF FailUnlessMinimising
<1>2. CASE stage = "minimise"
  <2>1. /\ stage' = "confirm" /\ todo' = Tail(todo)
        /\ visit' = None /\ control' = 0
        /\ UNCHANGED <<conf, base, obs, seen, blocked, pair, rules, cover, report>>
    BY <1>2 DEF FailUnlessMinimising
  <2>2. TodoOK'
    BY <1>2, <2>1 DEF TypeOK, TodoOK
  <2>3. Len(log) \in Nat /\ DOMAIN log = 1 .. Len(log)
        /\ Len(log') \in Nat /\ DOMAIN log' = 1 .. Len(log') /\ Len(log) <= Len(log')
    BY LogOK, LogIs DEF Extends
  <2>4. obs' \subseteq DOMAIN log' /\ control' \in 0 .. Len(log')
    BY <2>1, <2>3 DEF TypeOK
  <2>5. report' # None => report'.at <= Len(log')
    <3> SUFFICES ASSUME report # None PROVE report.at <= Len(log')
      BY <2>1
    <3>1. report.at \in Nat /\ report.at <= Len(log)
      BY DEF TypeOK, Analyses
    <3> QED  BY <2>3, <3>1
  <2>6. log' \in Seq(Entries) /\ \A i \in DOMAIN log' : log'[i].control < i
    BY DEF Logs
  <2>7. conf' \in Settings
    BY <2>1 DEF TypeOK
  <2> QED  BY <2>1, <2>2, <2>4, <2>5, <2>6, <2>7 DEF TypeOK, Stages
<1> QED  BY <1>1, <1>2

\* What the other steps have to keep.
LEMMA Retyped ==
  ASSUME TypeOK, api' \subseteq Requests, used' \in Nat,
         log' \in Logs, Extends(log, log'), report' = report,
         stage' \in Stages, stage' # "off", TodoOK', conf' \in Settings,
         base' \in Requests \cup {None}, visit' \in Requests \cup {None},
         obs' \subseteq DOMAIN log', seen' \subseteq Requests,
         control' \in 0 .. Len(log'), blocked' \subseteq Requests,
         pair' \in Pairs \cup {None}, rules' \subseteq Findings, cover' \in Flags
  PROVE  TypeOK'
<1>1. Len(log) \in Nat /\ Len(log') \in Nat /\ Len(log) <= Len(log')
  BY LogOK, LogIs DEF Extends
<1>2. report' # None => report'.at <= Len(log')
  <2> SUFFICES ASSUME report # None PROVE report.at <= Len(log')
    OBVIOUS
  <2>1. report.at \in Nat /\ report.at <= Len(log)
    BY DEF TypeOK, Analyses
  <2> QED  BY <1>1, <2>1
<1>3. log' \in Seq(Entries) /\ \A i \in DOMAIN log' : log'[i].control < i
  BY DEF Logs
<1>4. report' \in Analyses \cup {None} /\ api' \in SUBSET Requests
  BY DEF TypeOK
<1> QED  BY <1>2, <1>3, <1>4 DEF TypeOK

\* The domain of a log that grew.
LEMMA Grown ==
  ASSUME TypeOK, log' \in Logs, Extends(log, log')
  PROVE  /\ Len(log) \in Nat /\ Len(log') \in Nat /\ Len(log) <= Len(log')
         /\ DOMAIN log = 1 .. Len(log) /\ DOMAIN log' = 1 .. Len(log')
         /\ obs \subseteq 1 .. Len(log) /\ obs \subseteq DOMAIN log'
         /\ control \in 0 .. Len(log')
         /\ \A i \in obs : log'[i] = log[i]
<1>1. /\ Len(log) \in Nat /\ Len(log') \in Nat /\ Len(log) <= Len(log')
      /\ DOMAIN log = 1 .. Len(log) /\ DOMAIN log' = 1 .. Len(log')
  BY LogOK, LogIs DEF Extends
<1> QED  BY <1>1 DEF TypeOK, Extends

\* Steps that send nothing.
LEMMA IdleLog ==
  ASSUME TypeOK, log' = log
  PROVE  log' \in Logs /\ Extends(log, log')
<1>1. log \in Logs /\ Len(log) \in Nat
  BY LogOK
<1> QED  BY <1>1 DEF Extends

\* A session begins.
LEMMA TypeBegin ==
  ASSUME TypeOK, NEW s \in Settings, Begin(s)
  PROVE  TypeOK'
<1>1. log' = log /\ used' = used /\ api' = api /\ report' = report
      /\ UNCHANGED <<visit, control, blocked, pair, rules, cover>>
  BY DEF Begin
<1>2. log \in Logs /\ Len(log) \in Nat /\ DOMAIN log = 1 .. Len(log)
  BY LogOK
<1>3. \A i \in DOMAIN log : log[i].input \in Requests
  BY <1>2, LogIs
<1>4. obs' = Retained /\ seen' = {log[i].input : i \in Retained}
  BY DEF Begin, Carried
<1>5. obs' \subseteq DOMAIN log' /\ seen' \subseteq Requests
  BY <1>1, <1>3, <1>4 DEF Retained
<1> DEFINE a == {i \in Accepted(Retained) : log[i].phase = "baseline"}
<1>6. a \subseteq DOMAIN log /\ a \in SUBSET Nat
  BY <1>2 DEF Retained, Accepted
<1>7. a # {} => First(a) \in DOMAIN log
  BY <1>6, FirstIs
<1>8. /\ base' = IF a # {} THEN log[First(a)].input ELSE None
      /\ stage' = IF a # {} THEN "recheck" ELSE "baseline"
      /\ todo' = IF a # {} THEN <<>> ELSE Baselines
      /\ conf' = s
  BY DEF Begin, Carried
<1> HIDE DEF a
<1>9. base' \in Requests \cup {None}
  BY <1>3, <1>7, <1>8
<1>10. TodoOK'
  BY <1>8, PlannedAssumption DEF TodoOK
<1> QED  BY <1>1, <1>2, <1>5, <1>8, <1>9, <1>10, IdleLog, Retyped DEF TypeOK, Stages

\* Exploration begins with the planned requests.
LEMMA TypeStart ==
  ASSUME TypeOK, StartExploring, log' \in Logs, Extends(log, log'),
         Len(log') = Len(log) + 1, api' = api, used' \in Nat, stage # "off",
         base' \in Requests, seen' \subseteq Requests
  PROVE  TypeOK'
<1>1. /\ stage' = "explore" /\ todo' = SetToSeq(Planned)
      /\ obs' = obs \cup {Len(log')}
      /\ UNCHANGED <<conf, visit, control, blocked, pair, rules, cover, report>>
  BY DEF StartExploring
<1>2. SetToSeq(Planned) \in Seq(Requests)
  <2>1. SetToSeq(Planned) \in Seq(Planned)
    BY PlannedAssumption, ListOf
  <2> QED  BY <2>1, PlannedAssumption
<1>3. obs' \subseteq DOMAIN log' /\ control' \in 0 .. Len(log')
  BY <1>1, Grown
<1>4. TodoOK'
  BY <1>1, <1>2 DEF TodoOK
<1> QED  BY <1>1, <1>3, <1>4, Retyped DEF TypeOK, Stages

LEMMA TypeRecheck ==
  ASSUME TypeOK, Shape, NEW o \in Outcomes, Recheck(o)
  PROVE  TypeOK'
<1>1. base \in Requests /\ stage = "recheck" /\ seen \subseteq Requests
  <2>1. \E i \in obs : log[i].input = base
    BY DEF Recheck, Shape, Told
  <2> QED  BY <2>1, LogOK, LogIs DEF Recheck, TypeOK
<1>2. /\ log' \in Logs /\ Extends(log, log') /\ Len(log') = Len(log) + 1
      /\ api' = api /\ used' \in Nat
  <2>1. Experiment("resume-control", base, 0, o) /\ 0 \in 0 .. Len(log)
    BY LogOK DEF Recheck
  <2> QED  BY <1>1, <2>1, Experimented DEF Phases
<1>3. CASE o = "accepted"
  <2>1. StartExploring /\ base' = base /\ seen' = seen
    BY <1>3 DEF Recheck
  <2> QED  BY <1>1, <1>2, <2>1, TypeStart
<1>4. CASE o # "accepted"
  BY <1>1, <1>2, <1>4, FailedOK DEF Recheck
<1> QED  BY <1>3, <1>4

LEMMA TypeBaseline ==
  ASSUME TypeOK, NEW o \in Outcomes, Baseline(o)
  PROVE  TypeOK'
<1>1. stage = "baseline" /\ todo \in Seq(Requests) /\ todo # <<>>
  BY DEF Baseline, TypeOK, TodoOK
<1>2. Head(todo) \in Requests /\ Tail(todo) \in Seq(Requests)
  BY <1>1
<1>3. /\ log' \in Logs /\ Extends(log, log') /\ Len(log') = Len(log) + 1
      /\ api' = api /\ used' \in Nat
  <2>1. Experiment("baseline", Head(todo), 0, o) /\ 0 \in 0 .. Len(log)
    BY LogOK DEF Baseline
  <2> QED  BY <1>2, <2>1, Experimented DEF Phases
<1>4. CASE o = "accepted"
  <2>1. /\ StartExploring /\ base' = Head(todo)
        /\ seen' = seen \cup {Head(todo)} /\ seen \subseteq Requests
    BY <1>4 DEF Baseline, TypeOK
  <2>2. seen' \subseteq Requests /\ base' \in Requests /\ stage # "off"
    BY <1>1, <1>2, <2>1
  <2> QED  BY <1>3, <2>1, <2>2, TypeStart
<1>5. CASE o = "input-rejected"
  <2>1. /\ seen' = seen \cup {Head(todo)}
        /\ obs' = obs \cup {Len(log')} /\ todo' = Tail(todo)
        /\ UNCHANGED <<stage, conf, base, visit, control, blocked, pair, rules,
                       cover, report>>
    BY <1>5 DEF Baseline
  <2>2. TodoOK'
    BY <1>1, <1>2, <2>1 DEF TodoOK
  <2>3. obs' \subseteq DOMAIN log' /\ control' \in 0 .. Len(log')
    BY <1>3, <2>1, Grown
  <2>4. seen' \subseteq Requests
    BY <1>2, <2>1 DEF TypeOK
  <2> QED  BY <1>1, <1>3, <2>1, <2>2, <2>3, <2>4, Retyped DEF TypeOK, Stages
<1>6. CASE o = "inconclusive"
  <2>1. Fail
    BY <1>6 DEF Baseline
  <2> QED  BY <1>1, <1>3, <2>1, FailedOK
<1> QED  BY <1>4, <1>5, <1>6 DEF Outcomes

LEMMA TypeControl ==
  ASSUME TypeOK, Shape, NEW o \in Outcomes, Control(o)
  PROVE  TypeOK'
<1>1. base \in Requests /\ stage # "off" /\ visit # None
  <2>1. stage \in {"explore", "query", "minimise"}
    BY DEF Control, Shape
  <2>2. \E i \in obs : log[i].input = base
    BY <2>1 DEF Shape, Told
  <2> QED  BY <2>1, <2>2, LogOK, LogIs DEF Control, TypeOK
<1>2. /\ log' \in Logs /\ Extends(log, log') /\ Len(log') = Len(log) + 1
      /\ api' = api /\ used' \in Nat
  <2>1. Experiment("control", base, 0, o) /\ 0 \in 0 .. Len(log)
    BY LogOK DEF Control
  <2> QED  BY <1>1, <2>1, Experimented DEF Phases
<1>3. CASE o = "accepted"
  <2>1. /\ control' = Len(log')
        /\ UNCHANGED <<Visiting, stage, obs, seen, todo, visit>>
    BY <1>3 DEF Control
  <2>2. obs' \subseteq DOMAIN log' /\ control' \in 0 .. Len(log')
    BY <1>2, <2>1, Grown
  <2>3. TodoOK'
    BY <2>1 DEF TypeOK, TodoOK
  <2> QED  BY <1>1, <1>2, <2>1, <2>2, <2>3, Retyped DEF TypeOK, Visiting
<1>4. CASE o # "accepted"
  <2>1. FailUnlessMinimising
    BY <1>4 DEF Control
  <2> QED  BY <1>1, <1>2, <2>1, FailedMinimisingOK
<1> QED  BY <1>3, <1>4

LEMMA TypeProbe ==
  ASSUME TypeOK, Shape, NEW o \in Outcomes, Probe(o)
  PROVE  TypeOK'
<1>1. visit \in Requests /\ stage \in {"explore", "query", "minimise"}
      /\ control \in 0 .. Len(log)
  BY DEF Probe, Shape, TypeOK
<1>2. /\ log' \in Logs /\ Extends(log, log') /\ Len(log') = Len(log) + 1
      /\ api' = api /\ used' \in Nat
  <2>1. Experiment("probe", visit, control, o)
    BY DEF Probe
  <2> QED  BY <1>1, <2>1, Experimented DEF Phases
<1>3. CASE stage = "explore" /\ visit \in Searched /\ o = "inconclusive"
  <2>1. Fail
    BY <1>3 DEF Probe
  <2> QED  BY <1>1, <1>2, <2>1, FailedOK
<1>4. CASE ~(stage = "explore" /\ visit \in Searched /\ o = "inconclusive")
  <2>1. /\ obs' = obs \cup {Len(log')} /\ seen' = seen \cup {visit}
        /\ visit' = None /\ control' = 0
        /\ IF stage = "minimise" /\ o = "inconclusive"
           THEN stage' = "confirm" /\ todo' = Tail(todo)
           ELSE UNCHANGED <<stage, todo>>
        /\ UNCHANGED Visiting
    BY <1>4 DEF Probe
  <2>2. obs' \subseteq DOMAIN log' /\ control' \in 0 .. Len(log')
    BY <1>2, <2>1, Grown
  <2>3. TodoOK' /\ stage' \in Stages /\ stage' # "off"
    <3>1. CASE stage = "minimise" /\ o = "inconclusive"
      BY <2>1, <3>1 DEF TypeOK, TodoOK, Stages
    <3>2. CASE ~(stage = "minimise" /\ o = "inconclusive")
      <4>1. stage' = stage /\ todo' = todo
        BY <2>1, <3>2
      <4> QED  BY <1>1, <4>1 DEF TypeOK, TodoOK
    <3> QED  BY <3>1, <3>2
  <2>4. seen' \subseteq Requests
    BY <1>1, <2>1 DEF TypeOK
  <2>5. UNCHANGED <<conf, base, blocked, pair, rules, cover, report>>
    BY <2>1 DEF Visiting
  <2> QED  BY <1>1, <1>2, <2>1, <2>2, <2>3, <2>4, <2>5, Retyped DEF TypeOK
<1> QED  BY <1>3, <1>4

\* A step of an active session that sends nothing and observes nothing.
LEMMA Thinking ==
  ASSUME TypeOK, stage # "off", UNCHANGED <<api, log, used, report>>,
         UNCHANGED <<conf, base, obs, seen>>, control' = control,
         stage' \in Stages, stage' # "off", TodoOK',
         visit' \in Requests \cup {None}, blocked' \subseteq Requests,
         pair' \in Pairs \cup {None}, rules' \subseteq Findings, cover' \in Flags
  PROVE  TypeOK'
<1>1. log' \in Logs /\ Extends(log, log')
  BY IdleLog
<1>2. obs' \subseteq DOMAIN log' /\ control' \in 0 .. Len(log')
  BY DEF TypeOK
<1> QED  BY <1>1, <1>2, Retyped DEF TypeOK

LEMMA TypeExplored ==
  ASSUME TypeOK, stage # "off", Idle, NEW flags \in Flags, Explored(flags)
  PROVE  TypeOK'
<1>1. /\ stage' = "assess" /\ todo' = <<>> /\ cover' \in Flags
      /\ UNCHANGED <<api, log, used, report>>
      /\ UNCHANGED <<conf, base, obs, seen, visit, control, blocked, pair, rules>>
  BY DEF Explored, Idle
<1>2. TodoOK'
  BY <1>1 DEF TodoOK
<1> QED  BY <1>1, <1>2, Thinking DEF TypeOK, Stages

LEMMA TypeExplore ==
  ASSUME TypeOK, Explore
  PROVE  TypeOK'
<1> DEFINE due == {i \in DOMAIN todo : todo[i] \notin seen}
<1> DEFINE next == First(due)
<1>1. stage = "explore" /\ Idle /\ todo \in Seq(Requests) /\ cover \in Flags
  BY DEF Explore, TypeOK, TodoOK
<1>2. Len(todo) \in Nat /\ DOMAIN todo = 1 .. Len(todo)
  BY <1>1
<1>3. CASE due # {}
  <2>1. next \in DOMAIN todo
    BY <1>2, <1>3, FirstIs
  <2>2. VisitNext(todo[next], SubSeq(todo, next + 1, Len(todo)))
    BY <1>3 DEF Explore
  <2> HIDE DEF next
  <2>3. todo[next] \in Requests
    BY <1>1, <1>2, <2>1
  <2>4. SubSeq(todo, next + 1, Len(todo)) \in Seq(Requests)
    BY <1>1, <1>2, <2>1
  <2>5. CASE MustPause
    <3>1. Explored([cover EXCEPT !.paused = TRUE]) /\ [cover EXCEPT !.paused = TRUE] \in Flags
      BY <1>1, <2>2, <2>5 DEF VisitNext, Flags
    <3> QED  BY <1>1, <3>1, TypeExplored
  <2>6. CASE ~MustPause
    <3>1. /\ visit' = todo[next] /\ todo' = SubSeq(todo, next + 1, Len(todo))
          /\ UNCHANGED <<api, log, used, report>>
          /\ UNCHANGED <<stage, conf, base, obs, seen, control, blocked, pair,
                         rules, cover>>
      BY <1>1, <2>2, <2>6 DEF VisitNext, Idle
    <3>2. TodoOK'
      BY <1>1, <2>4, <3>1 DEF TodoOK
    <3> QED  BY <1>1, <2>3, <3>1, <3>2, Thinking DEF TypeOK
  <2> QED  BY <2>5, <2>6
<1>4. CASE due = {} /\ Active /\ ~Outside(obs)
  <2>1. /\ stage' = "query" /\ todo' = <<>>
        /\ cover' = [cover EXCEPT !.interaction = TRUE]
        /\ UNCHANGED <<conf, base, obs, seen, visit, control, blocked,
                       pair, rules>>
        /\ UNCHANGED <<api, log, used, report>>
    BY <1>4 DEF Explore, Idle
  <2>2. TodoOK' /\ cover' \in Flags
    BY <1>1, <2>1 DEF TodoOK, Flags
  <2> QED  BY <1>1, <2>1, <2>2, Thinking DEF TypeOK, Stages
<1>5. CASE due = {} /\ ~(Active /\ ~Outside(obs))
  <2>1. Explored([cover EXCEPT !.interaction = TRUE])
    BY <1>5 DEF Explore
  <2>2. [cover EXCEPT !.interaction = TRUE] \in Flags
    BY <1>1 DEF Flags
  <2> QED  BY <1>1, <2>1, <2>2, TypeExplored
<1> QED  BY <1>3, <1>4, <1>5

LEMMA TypeQuery ==
  ASSUME TypeOK, NEW x \in Requests, Query(x)
  PROVE  TypeOK'
<1>1. stage = "query" /\ Idle /\ cover \in Flags
  BY DEF Query, TypeOK
<1>2. CASE x \notin seen /\ MustPause
  <2>1. Explored([cover EXCEPT !.paused = TRUE]) /\ [cover EXCEPT !.paused = TRUE] \in Flags
    BY <1>1, <1>2 DEF Query, Flags
  <2> QED  BY <1>1, <2>1, TypeExplored
<1>3. CASE ~(x \notin seen /\ MustPause)
  <2>1. /\ blocked' = blocked \cup {x} /\ visit' \in {x, visit}
        /\ UNCHANGED <<api, log, used, report>>
        /\ UNCHANGED <<stage, conf, base, obs, seen, todo, control, pair, rules, cover>>
    BY <1>1, <1>3 DEF Query, Idle
  <2>2. TodoOK'
    BY <1>1, <2>1 DEF TodoOK
  <2> QED  BY <1>1, <2>1, <2>2, Thinking DEF TypeOK
<1> QED  BY <1>2, <1>3

LEMMA TypeStopQuerying ==
  ASSUME TypeOK, StopQuerying
  PROVE  TypeOK'
<1>1. stage = "query" /\ Idle /\ Explored([cover EXCEPT !.converged = ~Outside(obs)])
  BY DEF StopQuerying
<1>2. (~Outside(obs)) \in BOOLEAN
  BY DEF Outside, N!Consistent
<1>3. [cover EXCEPT !.converged = ~Outside(obs)] \in Flags
  BY <1>2 DEF TypeOK, Flags
<1> QED  BY <1>1, <1>3, TypeExplored

LEMMA TypeAssess ==
  ASSUME TypeOK, Assess
  PROVE  TypeOK'
<1> DEFINE un == {i \in Rejected(obs) :
                    N!Survivors(Evidence(obs)) \cap N!Violated(log[i].input) = {}}
<1> DEFINE asked == IF un = {} THEN <<>> ELSE <<log[First(un)].input>>
<1>1. /\ stage = "assess" /\ Idle
      /\ cover' = [cover EXCEPT
            !.gap = Gap, !.interaction = @ /\ ~Gap,
            !.converged = @ /\ ~Gap /\ ~Outside(obs)]
      /\ todo' = asked \o Claims
      /\ stage' = IF asked = <<>> THEN "confirm" ELSE "minimise"
      /\ UNCHANGED <<conf, base, obs, seen, visit, control, blocked, pair, rules>>
  BY DEF Assess
<1>2. cover' \in Flags
  <2>1. Gap \in BOOLEAN /\ Outside(obs) \in BOOLEAN
    BY DEF Gap, Outside
  <2>2. cover \in Flags
    BY DEF TypeOK
  <2> HIDE DEF Gap, Outside
  <2> QED  BY <1>1, <2>1, <2>2 DEF Flags
<1>3. un # {} => log[First(un)].input \in Requests
  <2>1. un \in SUBSET Nat /\ un \subseteq DOMAIN log
    BY LogOK DEF TypeOK, Rejected
  <2>2. un # {} => First(un) \in DOMAIN log
    BY <2>1, FirstIs
  <2> QED  BY <2>2, LogOK, LogIs
<1>4. TodoOK' /\ stage' \in {"confirm", "minimise"}
  <2>1. CASE un = {}
    <3>1. asked = <<>> /\ stage' = "confirm"
      BY <1>1, <2>1
    <3>2. todo' = Claims
      BY <1>1, <3>1, ClaimsAre
    <3> QED  BY <3>1, <3>2, ClaimsAre DEF TodoOK
  <2>2. CASE un # {}
    <3> DEFINE y == log[First(un)].input
    <3>1. asked = <<y>> /\ stage' = "minimise" /\ y \in Requests
      <4>1. asked = <<y>>
        BY <2>2
      <4>2. <<y>> # <<>>
        OBVIOUS
      <4> HIDE DEF asked, y
      <4> QED  BY <1>1, <2>2, <4>1, <4>2, <1>3 DEF y
    <3> HIDE DEF y, asked, un
    <3>2. todo' = <<y>> \o Claims
      BY <1>1, <3>1
    <3>3. Head(todo') = y /\ Tail(todo') = Claims /\ todo' # <<>>
      BY <3>2, ClaimsAre
    <3> QED  BY <3>1, <3>3, ClaimsAre DEF TodoOK
  <2> QED  BY <2>1, <2>2
<1>5. UNCHANGED <<api, log, used, report>>
  BY <1>1 DEF Idle
<1> QED  BY <1>1, <1>2, <1>4, <1>5, Thinking DEF TypeOK, Stages

LEMMA TypeMinimise ==
  ASSUME TypeOK, NEW x \in Requests, Minimise(x)
  PROVE  TypeOK'
<1>1. /\ stage = "minimise" /\ visit' = x /\ UNCHANGED <<api, log, used, report>>
      /\ UNCHANGED <<stage, conf, base, obs, seen, todo, control, blocked, pair,
                     rules, cover>>
  BY DEF Minimise, Idle
<1>2. TodoOK'
  BY <1>1 DEF TypeOK, TodoOK
<1> QED  BY <1>1, <1>2, Thinking DEF TypeOK

LEMMA TypeMinimised ==
  ASSUME TypeOK, Minimised
  PROVE  TypeOK'
<1>1. /\ stage = "minimise" /\ stage' = "confirm" /\ todo' = Tail(todo)
      /\ UNCHANGED <<api, log, used, report>>
      /\ UNCHANGED <<conf, base, obs, seen, visit, control, blocked, pair, rules,
                     cover>>
  BY DEF Minimised, Idle
<1>2. TodoOK'
  BY <1>1 DEF TypeOK, TodoOK
<1> QED  BY <1>1, <1>2, Thinking DEF TypeOK, Stages

\* What confirmation has left to do.
LEMMA ClaimsLeft ==
  ASSUME TypeOK, stage = "confirm"
  PROVE  /\ todo \in Seq(AnyClaim) /\ Len(todo) \in Nat
         /\ DOMAIN todo = 1 .. Len(todo)
         /\ todo # <<>> => Head(todo) \in AnyClaim /\ Tail(todo) \in Seq(AnyClaim)
         /\ todo # <<>> => Head(todo).kind \in {"rule", "optional", "repair"}
         /\ todo # <<>> /\ Head(todo).kind = "rule" => Head(todo).rule \in Claimed
<1>1. todo \in Seq(AnyClaim)
  BY DEF TypeOK, TodoOK
<1>2. todo # <<>> => Head(todo) \in AnyClaim /\ Tail(todo) \in Seq(AnyClaim)
  BY <1>1
<1>3. \A c \in AnyClaim : /\ c.kind \in {"rule", "optional", "repair"}
                          /\ c.kind = "rule" => c.rule \in Claimed
  BY DEF AnyClaim
<1> QED  BY <1>1, <1>2, <1>3

LEMMA TypeSkip ==
  ASSUME TypeOK, Skip
  PROVE  TypeOK'
<1> DEFINE due == {i \in DOMAIN todo : ~Skipped(todo[i])}
<1>1. /\ stage = "confirm" /\ UNCHANGED <<api, log, used, report>>
      /\ UNCHANGED <<stage, conf, base, seen, visit, control, blocked, cover>>
      /\ UNCHANGED <<obs, pair, rules>>
      /\ todo' = IF due = {} THEN <<>> ELSE SubSeq(todo, First(due), Len(todo))
  BY DEF Skip, Confirming, Idle, Deciding
<1>2. todo \in Seq(AnyClaim) /\ Len(todo) \in Nat /\ DOMAIN todo = 1 .. Len(todo)
  BY <1>1, ClaimsLeft
<1>3. due # {} => First(due) \in 1 .. Len(todo)
  <2>1. due \subseteq 1 .. Len(todo) /\ due \in SUBSET Nat
    BY <1>2
  <2> HIDE DEF due
  <2> QED  BY <2>1, FirstIs
<1> HIDE DEF due
<1>4. todo' \in Seq(AnyClaim)
  <2>1. CASE due = {}
    BY <1>1, <2>1
  <2>2. CASE due # {}
    <3>1. todo' = SubSeq(todo, First(due), Len(todo))
      BY <1>1, <2>2
    <3> QED  BY <1>2, <1>3, <2>2, <3>1
  <2> QED  BY <2>1, <2>2
<1>5. TodoOK'
  BY <1>1, <1>4 DEF TodoOK
<1> QED  BY <1>1, <1>5, Thinking DEF TypeOK

LEMMA TypeHypothesise ==
  ASSUME TypeOK, Hypothesise
  PROVE  TypeOK'
<1>1. /\ stage = "confirm" /\ todo # <<>> /\ UNCHANGED <<api, log, used, report>>
      /\ UNCHANGED <<stage, conf, base, seen, visit, control, blocked, cover>>
      /\ UNCHANGED <<obs, pair>> /\ todo' = Tail(todo)
      /\ rules' = rules \cup {[claim |-> Head(todo), status |-> "hypothesis",
                               pair |-> None]}
  BY DEF Hypothesise, Confirming, Idle, Deciding
<1>2. Head(todo) \in AnyClaim /\ Tail(todo) \in Seq(AnyClaim)
  BY <1>1, ClaimsLeft
<1>3. rules' \subseteq Findings
  BY <1>1, <1>2 DEF TypeOK, Findings
<1>4. TodoOK'
  BY <1>1, <1>2 DEF TodoOK
<1> QED  BY <1>1, <1>3, <1>4, Thinking DEF TypeOK

\* The pairs a claim may be confirmed with.
LEMMA PairsAre ==
  ASSUME TypeOK, Shape, stage = "confirm", todo # <<>>,
         ~Skipped(Head(todo)),
         Head(todo).kind = "rule" => ~Outside(obs),
         NEW p \in PairsFor(Head(todo))
  PROVE  /\ p \in Pairs
         /\ Head(todo).kind = "rule" =>
               /\ p.expect = "input-rejected"
               /\ Matched(Head(todo).rule, p.good, p.bad)
               /\ N!EntailedBy(Evidence(obs), Head(todo).rule)
               /\ N!CanAccept(Evidence(obs), p.good)
         /\ Head(todo).kind # "rule" =>
               /\ p.expect = "accepted"
               /\ Told(p.good, "accepted") /\ Told(p.bad, "accepted")
<1> DEFINE c == Head(todo)
<1>1. /\ log \in Logs /\ DOMAIN log = 1 .. Len(log) /\ Len(log) \in Nat
      /\ obs \subseteq 1 .. Len(log)
      /\ \A i \in 1 .. Len(log) : log[i].input \in Requests
  BY LogOK, LogIs DEF TypeOK
<1>2. Told(base, "accepted") /\ base \in Requests
  <2>1. Told(base, "accepted")
    BY DEF Shape
  <2> QED  BY <1>1, <2>1 DEF Told
<1>3. CASE c.kind # "rule"
  <2>1. p = [good |-> base, bad |-> log[First(Showing(c))].input, expect |-> "accepted"]
    BY <1>3 DEF PairsFor
  <2>2. Showing(c) # {}
    BY <1>3 DEF Skipped
  <2>3. Showing(c) \subseteq Accepted(obs) /\ Accepted(obs) \subseteq obs
    BY DEF Showing, Accepted
  <2>4. First(Showing(c)) \in Accepted(obs)
    BY <1>1, <2>2, <2>3, FirstIs
  <2>5. /\ First(Showing(c)) \in obs
        /\ log[First(Showing(c))].outcome = "accepted"
    BY <2>4 DEF Accepted
  <2>6. Told(p.bad, "accepted") /\ p.bad \in Requests /\ p.good = base /\ p.expect = "accepted"
    BY <1>1, <2>1, <2>5 DEF Told
  <2> QED  BY <1>2, <1>3, <2>1, <2>6 DEF Pairs
<1>4. CASE c.kind = "rule"
  <2> DEFINE r == c.rule
  <2>1. ~Outside(obs) /\ N!EntailedBy(Evidence(obs), r)
    BY <1>4 DEF Skipped
  <2>2. PICK q \in IF Contrasts(r) = {} THEN ProposedPairs(r) ELSE {findContrast(r)} :
            p = [good |-> q[1], bad |-> q[2], expect |-> "input-rejected"]
    BY <1>4 DEF PairsFor
  <2>3. CASE Contrasts(r) = {}
    <3>1. q \in Requests \X Requests /\ N!CanAccept(Evidence(obs), q[1])
          /\ Matched(r, q[1], q[2])
      BY <2>2, <2>3 DEF ProposedPairs
    <3> QED  BY <1>4, <2>1, <2>2, <3>1 DEF Pairs
  <2>4. CASE Contrasts(r) # {}
    <3> DEFINE B == {s[1] : s \in Contrasts(r)}
    <3> DEFINE b == First(B)
    <3> DEFINE G == {s[2] : s \in {z \in Contrasts(r) : z[1] = b}}
    <3> DEFINE g == First(G)
    <3>1. Contrasts(r) \subseteq Rejected(obs) \X Accepted(obs)
          /\ Rejected(obs) \subseteq obs /\ Accepted(obs) \subseteq obs
      BY DEF Contrasts, Rejected, Accepted
    <3>2. B # {} /\ B \in SUBSET Nat
      BY <1>1, <2>4, <3>1
    <3>3. b \in B
      BY <3>2, FirstIs
    <3>4. G # {} /\ G \in SUBSET Nat
      <4> HIDE DEF b
      <4>1. PICK s \in Contrasts(r) : s[1] = b
        BY <3>3
      <4> QED  BY <1>1, <3>1, <4>1
    <3>5. g \in G
      BY <3>4, FirstIs
    <3> HIDE DEF b, g
    <3>6. PICK s \in Contrasts(r) : s[1] = b /\ s[2] = g
      BY <3>5
    <3>7. /\ b \in Rejected(obs) /\ g \in Accepted(obs)
          /\ Matched(r, log[g].input, log[b].input)
      BY <3>1, <3>6 DEF Contrasts
    <3>8. q = <<log[g].input, log[b].input>>
      BY <2>2, <2>4 DEF findContrast, b, g
    <3>9. g \in obs /\ b \in obs /\ log[g].outcome = "accepted"
      BY <3>1, <3>7 DEF Accepted
    <3>10. log[g].input \in Acc(EvidenceIn(log, obs))
      BY <3>9, Reading DEF ToldIn
    <3>11. N!CanAccept(Evidence(obs), log[g].input)
      <4>1. Evidence(obs) = EvidenceIn(log, obs)
        BY DEF Evidence, EvidenceIn
      <4> QED  BY <2>1, <3>10, <4>1, AcceptedAcceptable DEF Outside
    <3>12. log[g].input \in Requests /\ log[b].input \in Requests
      BY <1>1, <3>9
    <3> QED  BY <1>4, <2>1, <2>2, <3>7, <3>8, <3>11, <3>12 DEF Pairs
  <2> QED  BY <2>3, <2>4
<1> QED  BY <1>3, <1>4

LEMMA TypeStartPair ==
  ASSUME TypeOK, Shape, StartPair
  PROVE  TypeOK'
<1>1. /\ stage = "confirm" /\ todo # <<>> /\ ~Skipped(Head(todo))
      /\ Head(todo).kind = "rule" => ~Outside(obs)
      /\ UNCHANGED <<api, log, used, left>>
  BY DEF StartPair, Confirming
<1>2. PICK p \in PairsFor(Head(todo)) :
          \/ Fail
          \/ pair' = p /\ UNCHANGED <<Deciding, obs, todo, rules, report>>
  BY DEF StartPair
<1>3. p \in Pairs
  BY <1>1, PairsAre
<1>4. CASE Fail
  BY <1>1, <1>4, IdleLog, FailedOK DEF TypeOK
<1>5. CASE pair' = p /\ UNCHANGED <<Deciding, obs, todo, rules, report>>
  <2>1. UNCHANGED <<stage, conf, base, seen, visit, control, blocked, cover>>
        /\ UNCHANGED <<obs, todo, rules, report>>
    BY <1>5 DEF Deciding
  <2>2. TodoOK'
    BY <1>1, <2>1 DEF TypeOK, TodoOK
  <2> QED  BY <1>1, <1>3, <1>5, <2>1, <2>2, Thinking DEF TypeOK
<1> QED  BY <1>2, <1>4, <1>5

LEMMA TypeConfirmControl ==
  ASSUME TypeOK, Shape, NEW o \in Outcomes, ConfirmControl(o)
  PROVE  TypeOK'
<1>1. pair # None /\ pair \in Pairs /\ pair.good \in Requests /\ stage = "confirm"
  BY DEF ConfirmControl, TypeOK, Pairs, Shape
<1>2. /\ log' \in Logs /\ Extends(log, log') /\ Len(log') = Len(log) + 1
      /\ api' = api /\ used' \in Nat
  <2>1. Experiment("validation-control", pair.good, 0, o) /\ 0 \in 0 .. Len(log)
    BY LogOK DEF ConfirmControl
  <2> QED  BY <1>1, <2>1, Experimented DEF Phases
<1>3. CASE o = "accepted"
  <2>1. /\ control' = Len(log')
        /\ UNCHANGED <<stage, conf, base, obs, seen, todo, visit, blocked, pair,
                       rules, cover, report>>
    BY <1>3 DEF ConfirmControl
  <2>2. obs' \subseteq DOMAIN log' /\ control' \in 0 .. Len(log')
    BY <1>2, <2>1, Grown
  <2>3. TodoOK'
    BY <2>1 DEF TypeOK, TodoOK
  <2> QED  BY <1>1, <1>2, <2>1, <2>2, <2>3, Retyped DEF TypeOK
<1>4. CASE o # "accepted"
  <2>1. Fail
    BY <1>4 DEF ConfirmControl
  <2> QED  BY <1>1, <1>2, <2>1, FailedOK
<1> QED  BY <1>3, <1>4

LEMMA TypeConfirmTrial ==
  ASSUME TypeOK, Shape, NEW o \in Outcomes, ConfirmTrial(o)
  PROVE  TypeOK'
<1>1. /\ pair # None /\ pair \in Pairs /\ pair.bad \in Requests
      /\ stage = "confirm" /\ control \in 0 .. Len(log)
  BY DEF ConfirmTrial, TypeOK, Pairs, Shape
<1>2. /\ log' \in Logs /\ Extends(log, log') /\ Len(log') = Len(log) + 1
      /\ api' = api /\ used' \in Nat
  <2>1. Experiment("validation", pair.bad, control, o)
    BY DEF ConfirmTrial
  <2> QED  BY <1>1, <2>1, Experimented DEF Phases
<1>3. CASE o = pair.expect
  <2>1. /\ control' = 0
        /\ UNCHANGED <<stage, conf, base, obs, seen, todo, visit, blocked, pair,
                       rules, cover, report>>
    BY <1>3 DEF ConfirmTrial
  <2>2. obs' \subseteq DOMAIN log' /\ control' \in 0 .. Len(log')
    BY <1>2, <2>1, Grown
  <2>3. TodoOK'
    BY <2>1 DEF TypeOK, TodoOK
  <2> QED  BY <1>1, <1>2, <2>1, <2>2, <2>3, Retyped DEF TypeOK
<1>4. CASE o # pair.expect
  <2>1. Fail
    BY <1>4 DEF ConfirmTrial
  <2> QED  BY <1>1, <1>2, <2>1, FailedOK
<1> QED  BY <1>3, <1>4

\* The trials of a pair, and the pairs they complete.
Completed == Trials(pair.good, pair.bad)
Matching == Completed \cup {log[i].control : i \in Completed}

LEMMA CompletedIs ==
  ASSUME TypeOK
  PROVE  /\ \A g, b : Trials(g, b) = TrialsIn(log, g, b)
         /\ Matching \subseteq DOMAIN log
         /\ \A i \in Matching : log[i].outcome \in {"accepted", "input-rejected"}
<1>1. \A g, b : Trials(g, b) = TrialsIn(log, g, b)
  BY DEF Trials, TrialsIn, Retained, RetainedIn
<1>2. \A i \in Completed : i \in Retained /\ log[i].control \in Retained
  BY DEF Completed, Trials
<1>3. Matching \subseteq Retained
  BY <1>2 DEF Matching
<1> QED  BY <1>1, <1>3 DEF Retained, Reusable

\* What a pair concludes.
LEMMA Concluded ==
  ASSUME Conclude, TypeOK, Shape
  PROVE  /\ pair # None /\ control = 0 /\ TrialsMade >= conf.trials
         /\ stage = "confirm" /\ todo # <<>> /\ visit = None
         /\ UNCHANGED <<api, log, used, report>>
         /\ UNCHANGED <<stage, conf, base, seen, visit, control, blocked, cover>>
         /\ obs' = IF Head(todo).kind = "repair" THEN obs ELSE obs \cup Matching
         /\ pair' = None /\ todo' = Tail(todo)
         /\ \E status \in {"supported", "hypothesis"} :
               rules' = rules \cup
                  {[claim |-> Head(todo), pair |-> pair, status |-> status]}
<1>1. pair # None /\ Idle /\ UNCHANGED Deciding /\ control = 0
      /\ TrialsMade >= conf.trials
      /\ pair' = None /\ todo' = Tail(todo)
  BY DEF Conclude
<1>2. /\ stage = "confirm" /\ todo # <<>> /\ visit = None
      /\ UNCHANGED <<api, log, used, report>>
      /\ UNCHANGED <<stage, conf, base, seen, visit, control, blocked, cover>>
  BY <1>1 DEF Shape, Idle, Deciding
<1>3. obs' = IF Head(todo).kind = "repair" THEN obs ELSE obs \cup Matching
  BY DEF Conclude, Matching, Completed
<1>4. \E status \in {"supported", "hypothesis"} :
        rules' = rules \cup
            {[claim |-> Head(todo), pair |-> pair, status |-> status]}
  BY DEF Conclude
<1> QED  BY <1>1, <1>2, <1>3, <1>4

LEMMA TypeConclude ==
  ASSUME TypeOK, Shape, Conclude
  PROVE  TypeOK'
<1>1. /\ pair # None /\ stage = "confirm" /\ todo # <<>>
      /\ UNCHANGED <<api, log, used, report>>
      /\ UNCHANGED <<stage, conf, base, seen, visit, control, blocked, cover>>
      /\ obs' = IF Head(todo).kind = "repair" THEN obs ELSE obs \cup Matching
      /\ pair' = None /\ todo' = Tail(todo)
  BY Concluded
<1>2. PICK status \in {"supported", "hypothesis"} :
        rules' = rules \cup
            {[claim |-> Head(todo), pair |-> pair, status |-> status]}
  BY Concluded
<1>3. Head(todo) \in AnyClaim /\ Tail(todo) \in Seq(AnyClaim)
  BY <1>1, ClaimsLeft
<1>4. rules' \subseteq Findings
  BY <1>1, <1>2, <1>3 DEF TypeOK, Findings
<1>5. TodoOK'
  BY <1>1, <1>3 DEF TodoOK
<1>6. obs' \subseteq DOMAIN log'
  BY <1>1, CompletedIs DEF TypeOK
<1>7. log' \in Logs /\ Extends(log, log')
  BY <1>1, IdleLog
<1> QED  BY <1>1, <1>4, <1>5, <1>6, <1>7, Retyped DEF TypeOK

LEMMA TypeFinish ==
  ASSUME TypeOK, Finish
  PROVE  TypeOK'
<1>1. stage = "confirm" /\ UNCHANGED <<api, log, used>>
  BY DEF Finish, Confirming
<1> DEFINE state == IF Outside(obs) \/ cover.gap \/ cover.paused THEN "partial" ELSE "complete"
<1> DEFINE conv == cover.converged /\ ~Outside(obs)
<1> DEFINE found == {Settled(f) : f \in rules}
<1>2. Leave(state, TRUE, conv, found)
  BY DEF Finish
<1>3. conv \in BOOLEAN /\ state \in {"partial", "complete"}
  <2>1. Outside(obs) \in BOOLEAN
    BY DEF Outside
  <2>2. cover.converged \in BOOLEAN
    BY DEF TypeOK, Flags
  <2> HIDE DEF Outside
  <2> QED  BY <2>1, <2>2
<1>4. found \in SUBSET Findings
  <2> SUFFICES ASSUME NEW f \in rules PROVE Settled(f) \in Findings
    OBVIOUS
  <2>1. f \in Findings
    BY DEF TypeOK
  <2>2. [f EXCEPT !.status = "counterexample"] \in Findings
    BY <2>1 DEF Findings
  <2> QED  BY <2>1, <2>2 DEF Settled
<1> HIDE DEF state, conv, found
<1> QED  BY <1>1, <1>2, <1>3, <1>4, IdleLog, LeftOK DEF TypeOK

LEMMA TypeStep ==
  ASSUME TypeOK, Shape, [Next]_vars
  PROVE  TypeOK'
<1>1. CASE UNCHANGED vars
  BY <1>1 DEF vars, session, TypeOK, TodoOK
<1>2. CASE Rest
  BY <1>2 DEF Rest, vars, session, TypeOK, TodoOK
<1>3. CASE \E s \in Settings : Begin(s)
  BY <1>3, TypeBegin
<1>4. CASE NoBaseline
  BY <1>4, IdleLog, FailedOK DEF NoBaseline, TypeOK
<1>5. CASE Explore
  BY <1>5, TypeExplore
<1>6. CASE StopQuerying
  BY <1>6, TypeStopQuerying
<1>7. CASE Assess
  BY <1>7, TypeAssess
<1>8. CASE Minimised
  BY <1>8, TypeMinimised
<1>9. CASE Skip
  BY <1>9, TypeSkip
<1>10. CASE Hypothesise
  BY <1>10, TypeHypothesise
<1>11. CASE StartPair
  BY <1>11, TypeStartPair
<1>12. CASE Conclude
  BY <1>12, TypeConclude
<1>13. CASE Finish
  BY <1>13, TypeFinish
<1>14. ASSUME NEW o \in Outcomes,
              \/ Recheck(o) \/ Baseline(o) \/ Control(o) \/ Probe(o)
              \/ ConfirmControl(o) \/ ConfirmTrial(o)
       PROVE  TypeOK'
  BY <1>14, TypeRecheck, TypeBaseline, TypeControl, TypeProbe,
     TypeConfirmControl, TypeConfirmTrial
<1>15. ASSUME NEW x \in Requests, Query(x) \/ Minimise(x)
       PROVE  TypeOK'
  BY <1>15, TypeQuery, TypeMinimise
<1>16. CASE OutOfBudget \/ ExperimentFails
  <2>1. log' = log /\ api' = api /\ FailUnlessMinimising /\ stage # "off"
    BY <1>16 DEF OutOfBudget, ExperimentFails, Due, Shape
  <2>2. used' \in Nat
    <3>1. CASE ExperimentFails
      BY <3>1 DEF ExperimentFails, TypeOK
    <3>2. CASE OutOfBudget
      <4>1. conf \in Settings
        BY <2>1 DEF TypeOK
      <4>2. used \in Nat /\ conf.budget \in Nat
        BY <4>1, SettingsAssumption DEF TypeOK
      <4> QED  BY <3>2, <4>2 DEF OutOfBudget
    <3> QED  BY <1>16, <3>1, <3>2
  <2> QED  BY <2>1, <2>2, IdleLog, FailedMinimisingOK
<1>17. CASE Crash
  <2>1. Forget /\ UNCHANGED <<api, log, used, report>>
    BY <1>17 DEF Crash
  <2>2. TodoOK' /\ cover' \in Flags
    BY <2>1 DEF Forget, TodoOK, NoCover, Flags
  <2>3. control' \in 0 .. Len(log')
    BY <2>1, LogOK DEF Forget
  <2> QED  BY <2>1, <2>2, <2>3 DEF Forget, TypeOK, Stages
<1>18. ASSUME NEW x \in Requests, Drift(x)
       PROVE  TypeOK'
  <2>1. UNCHANGED <<session, log, used, report>> /\ api' \in SUBSET Requests
    BY <1>18 DEF Drift, TypeOK
  <2> QED  BY <2>1 DEF session, TypeOK, TodoOK
<1> QED
  BY <1>1, <1>2, <1>3, <1>4, <1>5, <1>6, <1>7, <1>8, <1>9, <1>10, <1>11, <1>12,
     <1>13, <1>14, <1>15, <1>16, <1>17, <1>18 DEF Next, SessionStep

-------------------------------------------------------------------------------
(* What a session knows, as predicates of a log and its observations *)

HeardAt(l, o, p, i) ==
  /\ l[i].outcome = "accepted" =>
        \/ ToldIn(l, o, l[i].input, "accepted")
        \/ p # None /\ l[i].input = p.good
  /\ l[i].outcome = "input-rejected" =>
        \/ ToldIn(l, o, l[i].input, "input-rejected")
        \/ ~N!Consistent(EvidenceIn(l, o))
        \/ /\ p # None /\ l[i].input = p.bad
           /\ p.expect = "input-rejected"

PairIn(l, o, p, ctl, claim) ==
  /\ \A i \in TrialsIn(l, p.good, p.bad) :
        l[i].outcome = p.expect /\ l[l[i].control].outcome = "accepted"
  /\ ctl # 0 => l[ctl].phase = "validation-control" /\ l[ctl].input = p.good
  /\ claim.kind = "rule" =>
        /\ p.expect = "input-rejected"
        /\ Matched(claim.rule, p.good, p.bad)
        /\ N!EntailedBy(EvidenceIn(l, o), claim.rule)
        /\ N!CanAccept(EvidenceIn(l, o), p.good)
  /\ claim.kind # "rule" =>
        /\ p.expect = "accepted"
        /\ ToldIn(l, o, p.good, "accepted") /\ ToldIn(l, o, p.bad, "accepted")

RulesIn(l, o, rs, t) ==
  \A f \in Supported(rs) :
    /\ Cardinality(FullIn(l, f.pair, Len(l))) >= t
    /\ f.claim.kind = "rule" =>
          /\ Matched(f.claim.rule, f.pair.good, f.pair.bad)
          /\ N!EntailedBy(EvidenceIn(l, o), f.claim.rule)

SettledIn(l, o, s, c) ==
  \/ c.paused
  \/ /\ Planned \subseteq s
     /\ Active => \/ ~N!Consistent(EvidenceIn(l, o))
                  \/ \A x \in Requests : x \in s \/ N!Agreed(EvidenceIn(l, o), x)

OpenIn(l, o, c) ==
  \/ ~N!Consistent(EvidenceIn(l, o)) \/ c.gap
  \/ \A i \in o : l[i].outcome # "inconclusive"

ShapeParts ==
  /\ stage = "off" =>
        obs = {} /\ visit = None /\ control = 0 /\ pair = None /\ rules = {}
  /\ visit # None => stage \in {"explore", "query", "minimise"}
  /\ pair # None => stage = "confirm" /\ todo # <<>>
  /\ control # 0 => visit # None \/ pair # None
  /\ control # 0 => log[control].outcome = "accepted"
  /\ stage \notin {"off", "baseline"} => ToldIn(log, obs, base, "accepted")
  /\ stage # "confirm" => rules = {}
  /\ stage \in {"off", "recheck", "baseline", "explore"} => blocked = {}

HeardParts == stage # "off" => \A i \in DOMAIN log : HeardAt(log, obs, pair, i)

PairParts == pair # None => PairIn(log, obs, pair, control, Head(todo))

RulesParts == RulesIn(log, obs, rules, conf.trials)

CoversParts ==
  /\ stage = "explore" =>
        \A x \in Planned : x \in seen \/ x = visit \/ x \in ToSet(todo)
  /\ stage = "query" => Planned \subseteq seen /\ blocked \ {visit} \subseteq seen
  /\ stage \in {"assess", "minimise", "confirm"} => SettledIn(log, obs, seen, cover)
  /\ stage \in {"minimise", "confirm"} => OpenIn(log, obs, cover)
  /\ stage = "minimise" => ~N!Consistent(EvidenceIn(log, obs))

Parts == ShapeParts /\ HeardParts /\ Seen /\ PairParts /\ RulesParts
         /\ CoversParts /\ Reserved

LEMMA EvidenceIs ==
  /\ Evidence(obs) = EvidenceIn(log, obs)
  /\ Outside(obs) <=> ~N!Consistent(EvidenceIn(log, obs))
  /\ \A x, y : Told(x, y) <=> ToldIn(log, obs, x, y)
<1>1. Evidence(obs) = EvidenceIn(log, obs)
  BY DEF Evidence, EvidenceIn
<1> QED  BY <1>1 DEF Outside, Told, ToldIn

\* The parts of the invariant in these terms, before and after a step.
LEMMA PartsAre == Session <=> Parts
<1>1. Shape <=> ShapeParts
  BY DEF Shape, ShapeParts, Told, ToldIn
<1>2. Heard <=> HeardParts
  <2>1. ASSUME NEW i \in DOMAIN log
        PROVE  /\ Told(log[i].input, "accepted")
                    <=> ToldIn(log, obs, log[i].input, "accepted")
               /\ Told(log[i].input, "input-rejected")
                    <=> ToldIn(log, obs, log[i].input, "input-rejected")
    BY DEF Told, ToldIn
  <2> QED  BY <2>1, EvidenceIs DEF Heard, HeardAt, HeardParts
<1>3. PairHolds <=> PairParts
  <2>1. /\ Told(pair.good, "accepted") <=> ToldIn(log, obs, pair.good, "accepted")
        /\ Told(pair.bad, "accepted") <=> ToldIn(log, obs, pair.bad, "accepted")
    BY DEF Told, ToldIn
  <2>2. Trials(pair.good, pair.bad) = TrialsIn(log, pair.good, pair.bad)
    BY DEF Trials, TrialsIn, Retained, RetainedIn
  <2> QED  BY <2>1, <2>2, EvidenceIs DEF PairHolds, PairIn, PairParts
<1>4. RulesHold <=> RulesParts
  <2>1. \A p : Full(p, Len(log)) = FullIn(log, p, Len(log))
    BY DEF Full, FullIn
  <2> QED  BY <2>1, EvidenceIs DEF RulesHold, RulesIn, RulesParts
<1>5. Covers <=> CoversParts
  <2>1. \A x : Answered(x) <=> x \in seen \/ N!Agreed(EvidenceIn(log, obs), x)
    BY EvidenceIs DEF Answered
  <2> QED  BY <2>1, EvidenceIs DEF Covers, CoversParts, SettledIn, OpenIn
<1> QED  BY <1>1, <1>2, <1>3, <1>4, <1>5 DEF Session, Parts

LEMMA PartsAreNext == Parts' => Session'
  BY PartsAre, PTL

\* A session that has ended knows nothing.
LEMMA Ended ==
  ASSUME stage' = "off", obs' = {}, seen' = {}, visit' = None, control' = 0,
         pair' = None, rules' = {}, blocked' = {}
  PROVE  Session'
<1>1. ShapeParts' /\ HeardParts' /\ PairParts' /\ CoversParts'
  BY DEF ShapeParts, HeardParts, PairParts, CoversParts
<1>2. Seen' /\ Reserved'
  BY DEF Seen, Reserved
<1>3. RulesParts'
  BY DEF RulesParts, RulesIn, Supported
<1> QED  BY <1>1, <1>2, <1>3, PartsAreNext DEF Parts

-------------------------------------------------------------------------------
(* Growth *)

\* What more observations, in a longer log, keep.
LEMMA Grows ==
  ASSUME NEW l \in Logs, NEW m \in Logs, Extends(l, m),
         NEW o, NEW q, o \subseteq 1 .. Len(l), o \subseteq q
  PROVE  /\ \A x, y : ToldIn(l, o, x, y) => ToldIn(m, q, x, y)
         /\ Acc(EvidenceIn(l, o)) \subseteq Acc(EvidenceIn(m, q))
         /\ Rej(EvidenceIn(l, o)) \subseteq Rej(EvidenceIn(m, q))
         /\ N!Consistent(EvidenceIn(m, q)) => N!Consistent(EvidenceIn(l, o))
         /\ \A x : N!Agreed(EvidenceIn(l, o), x) => N!Agreed(EvidenceIn(m, q), x)
<1>1. \A i \in o : m[i] = l[i]
  BY DEF Extends
<1>2. /\ \A x, y : ToldIn(l, o, x, y) => ToldIn(m, q, x, y)
      /\ Acc(EvidenceIn(l, o)) \subseteq Acc(EvidenceIn(m, q))
      /\ Rej(EvidenceIn(l, o)) \subseteq Rej(EvidenceIn(m, q))
  BY <1>1, ToldStays
<1> QED  BY <1>2, Narrows

LEMMA HeardGrows ==
  ASSUME NEW l \in Logs, NEW m \in Logs, Extends(l, m),
         NEW o, NEW q, o \subseteq 1 .. Len(l), o \subseteq q,
         NEW p, NEW r,
         \A i \in 1 .. Len(l) : HeardAt(l, o, p, i),
         \/ p = None \/ r = p
         \/ /\ ToldIn(m, q, p.good, "accepted")
            /\ p.expect = "input-rejected" => ToldIn(m, q, p.bad, "input-rejected"),
         \A i \in 1 .. Len(m) : i > Len(l) => HeardAt(m, q, r, i)
  PROVE  \A i \in DOMAIN m : HeardAt(m, q, r, i)
<1>1. Len(l) \in Nat /\ Len(m) \in Nat /\ DOMAIN m = 1 .. Len(m)
  BY LogIs
<1>3. /\ \A x, y : ToldIn(l, o, x, y) => ToldIn(m, q, x, y)
      /\ N!Consistent(EvidenceIn(m, q)) => N!Consistent(EvidenceIn(l, o))
  BY Grows
<1>2. ASSUME NEW i \in 1 .. Len(l) PROVE HeardAt(m, q, r, i)
  <2>1. m[i] = l[i] /\ HeardAt(l, o, p, i)
    BY <1>2 DEF Extends
  <2> DEFINE x == l[i].input
  <2>2. ASSUME m[i].outcome = "accepted"
        PROVE  \/ ToldIn(m, q, m[i].input, "accepted")
               \/ r # None /\ m[i].input = r.good
    <3>1. ToldIn(l, o, x, "accepted") \/ (p # None /\ x = p.good)
      BY <2>1, <2>2 DEF HeardAt
    <3>2. ToldIn(l, o, x, "accepted") => ToldIn(m, q, x, "accepted")
      BY <1>3
    <3> HIDE DEF x
    <3>3. ToldIn(m, q, x, "accepted") \/ (r # None /\ x = r.good)
      BY <3>1, <3>2
    <3> QED  BY <2>1, <3>3 DEF x
  <2>3. ASSUME m[i].outcome = "input-rejected"
        PROVE  \/ ToldIn(m, q, m[i].input, "input-rejected")
               \/ ~N!Consistent(EvidenceIn(m, q))
               \/ /\ r # None /\ m[i].input = r.bad
                  /\ r.expect = "input-rejected"
    <3>1. \/ ToldIn(l, o, x, "input-rejected")
          \/ ~N!Consistent(EvidenceIn(l, o))
          \/ p # None /\ x = p.bad /\ p.expect = "input-rejected"
      BY <2>1, <2>3 DEF HeardAt
    <3>2. /\ ToldIn(l, o, x, "input-rejected") => ToldIn(m, q, x, "input-rejected")
          /\ N!Consistent(EvidenceIn(m, q)) => N!Consistent(EvidenceIn(l, o))
      BY <1>3
    <3> HIDE DEF x
    <3>3. \/ ToldIn(m, q, x, "input-rejected")
          \/ ~N!Consistent(EvidenceIn(m, q))
          \/ r # None /\ x = r.bad /\ r.expect = "input-rejected"
      BY <3>1, <3>2
    <3> QED  BY <2>1, <3>3 DEF x
  <2> QED  BY <2>2, <2>3 DEF HeardAt
<1> QED  BY <1>1, <1>2

\* Confirmed findings stay confirmed, and entailed rules entailed while what
\* is accepted could be.
LEMMA RulesGrow ==
  ASSUME NEW l \in Logs, NEW m \in Logs, Extends(l, m),
         NEW o, NEW q, o \subseteq 1 .. Len(l), o \subseteq q,
         \A x \in Acc(EvidenceIn(m, q)) :
            \/ x \in Acc(EvidenceIn(l, o))
            \/ x \in Requests /\ N!CanAccept(EvidenceIn(l, o), x),
         NEW t \in Nat, NEW rs, RulesIn(l, o, rs, t)
  PROVE  RulesIn(m, q, rs, t)
<1> SUFFICES ASSUME NEW f \in Supported(rs)
    PROVE  /\ Cardinality(FullIn(m, f.pair, Len(m))) >= t
           /\ f.claim.kind = "rule" =>
                 /\ Matched(f.claim.rule, f.pair.good, f.pair.bad)
                 /\ N!EntailedBy(EvidenceIn(m, q), f.claim.rule)
  BY DEF RulesIn
<1>1. Len(l) \in Nat /\ Len(m) \in Nat /\ Len(l) <= Len(m)
  BY LogIs DEF Extends
<1>2. Cardinality(FullIn(m, f.pair, Len(m))) >= t
  <2>1. FullIn(m, f.pair, Len(l)) = FullIn(l, f.pair, Len(l))
    BY <1>1, FullSame
  <2>2. /\ Cardinality(FullIn(m, f.pair, Len(l))) \in Nat
        /\ Cardinality(FullIn(m, f.pair, Len(m))) \in Nat
        /\ Cardinality(FullIn(m, f.pair, Len(l)))
              <= Cardinality(FullIn(m, f.pair, Len(m)))
    BY <1>1, FullGrows
  <2>3. Cardinality(FullIn(l, f.pair, Len(l))) >= t
    BY DEF RulesIn
  <2> QED  BY <2>1, <2>2, <2>3
<1>3. ASSUME f.claim.kind = "rule"
      PROVE  /\ Matched(f.claim.rule, f.pair.good, f.pair.bad)
             /\ N!EntailedBy(EvidenceIn(m, q), f.claim.rule)
  <2>1. /\ Matched(f.claim.rule, f.pair.good, f.pair.bad)
        /\ N!EntailedBy(EvidenceIn(l, o), f.claim.rule)
    BY <1>3 DEF RulesIn
  <2>2. /\ Acc(EvidenceIn(l, o)) \subseteq Acc(EvidenceIn(m, q))
        /\ Rej(EvidenceIn(l, o)) \subseteq Rej(EvidenceIn(m, q))
    BY Grows
  <2> QED  BY <2>1, <2>2, EntailedStays
<1> QED  BY <1>2, <1>3

LEMMA SettledGrows ==
  ASSUME NEW l \in Logs, NEW m \in Logs, Extends(l, m),
         NEW o, NEW q, o \subseteq 1 .. Len(l), o \subseteq q,
         NEW s, NEW t, s \subseteq t, NEW c, SettledIn(l, o, s, c)
  PROVE  SettledIn(m, q, t, c)
  BY Grows DEF SettledIn

\* The settings of a session are settings.
LEMMA ConfIs ==
  ASSUME TypeOK, stage # "off"
  PROVE  conf \in Settings /\ conf.trials \in Nat \ {0} /\ conf.budget \in Nat
  BY SettingsAssumption DEF TypeOK

\* A step that sends and observes nothing, between experiments.
LEMMA Quiet ==
  ASSUME TypeOK, Parts, UNCHANGED <<log, conf, base, obs, seen, control>>,
         stage \notin {"off", "baseline"}, stage' \notin {"off", "baseline"},
         visit = None, pair = None,
         visit' # None => stage' \in {"explore", "query", "minimise"} /\ visit' \notin seen,
         pair' # None => stage' = "confirm" /\ todo' # <<>>,
         stage = "confirm" => stage' = "confirm",
         stage' # "confirm" => rules' = rules,
         stage' \in {"recheck", "explore"} => stage' = stage /\ blocked' = blocked,
         Supported(rules') = Supported(rules)
  PROVE  control = 0 /\ ShapeParts' /\ HeardParts' /\ Seen' /\ RulesParts'
<1>1. control = 0
  BY DEF Parts, ShapeParts
<1>2. ShapeParts'
  BY <1>1 DEF Parts, ShapeParts
<1>3. HeardParts'
  BY DEF Parts, HeardParts, HeardAt
<1>4. Seen'
  <2>1. \A x \in seen : \E i \in obs : log[i].input = x
    BY DEF Parts, Seen
  <2>2. stage' \notin {"off", "confirm"} =>
          \A i \in DOMAIN log :
              log[i].outcome # "inconclusive" => log[i].input \in seen
    BY DEF Parts, Seen
  <2> QED  BY <2>1, <2>2 DEF Seen
<1>5. RulesParts'
  BY DEF Parts, RulesParts, RulesIn
<1> QED  BY <1>1, <1>2, <1>3, <1>4, <1>5

\* The reserve of a session's settings is a number.
LEMMA ReserveIs ==
  ASSUME TypeOK, stage # "off"
  PROVE  used \in Int /\ conf.budget \in Int /\ ReserveOf(conf) \in Int
<1>1. conf.trials \in Int /\ conf.budget \in Int
  BY ConfIs
<1>2. Cardinality(Field) \in Int
  BY FieldAssumption, FS_CardinalityType
<1>3. 2 * conf.trials * Cardinality(Field) * Cost \in Int
  BY <1>1, <1>2, CostAssumption
<1>4. conf.budget \div 4 \in Int
  BY <1>1
<1>5. ReserveOf(conf) \in Int
  BY <1>3, <1>4, CostAssumption DEF ReserveOf
<1> QED  BY <1>1, <1>5 DEF TypeOK

\* Of a request to visit next.
LEMMA ReserveAfter ==
  ASSUME TypeOK, UNCHANGED <<conf, used, control>>, control = 0, ~MustPause,
         stage # "off"
  PROVE  Reserved'
<1>1. conf.budget \in Nat
  BY ConfIs
<1>2. (conf.budget > 0 /\ ConfirmationReserve >= 0) =>
          ~(conf.budget - used < ReserveOf(conf) + 2 * Cost)
  BY <1>1 DEF MustPause
<1>3. used \in Int /\ Cost \in Int /\ conf.budget \in Int /\ ReserveOf(conf) \in Int
  BY ReserveIs, CostAssumption
<1>4. (conf.budget > 0 /\ ConfirmationReserve >= 0) =>
          conf.budget - used >= ReserveOf(conf) + 2 * Cost
  BY <1>2, <1>3
<1>5. ReserveOf(conf)' = ReserveOf(conf)
  BY DEF ReserveOf
<1> QED  BY <1>4, <1>5 DEF Reserved

\* Exploration ends with what it covered.
LEMMA SessionExplored ==
  ASSUME TypeOK, Parts, NEW flags, Explored(flags), Idle, pair = None,
         stage \in {"explore", "query"},
         SettledIn(log, obs, seen, flags)
  PROVE  Session'
<1>1. /\ cover' = flags /\ stage' = "assess" /\ todo' = <<>>
      /\ UNCHANGED <<log, conf, base, obs, seen, visit, control, blocked, pair, rules>>
      /\ visit = None
  BY DEF Explored, Idle
<1>2. control = 0 /\ ShapeParts' /\ HeardParts' /\ Seen' /\ RulesParts'
  BY <1>1, Quiet DEF Supported
<1>3. CoversParts'
  BY <1>1 DEF CoversParts
<1>4. PairParts' /\ Reserved'
  BY <1>1 DEF PairParts, Reserved
<1> QED  BY <1>2, <1>3, <1>4, PartsAreNext DEF Parts

LEMMA SessionExplore ==
  ASSUME TypeOK, Parts, Explore
  PROVE  Session'
<1> DEFINE due == {i \in DOMAIN todo : todo[i] \notin seen}
<1> DEFINE next == First(due)
<1> DEFINE rest == SubSeq(todo, next + 1, Len(todo))
<1>1. stage = "explore" /\ Idle /\ todo \in Seq(Requests) /\ visit = None
      /\ UNCHANGED <<log, used>> /\ pair = None
  BY DEF Explore, TypeOK, TodoOK, Idle, Parts, ShapeParts
<1>2. Len(todo) \in Nat /\ DOMAIN todo = 1 .. Len(todo)
  BY <1>1
<1>3. \A x \in Planned : x \in seen \/ x \in ToSet(todo)
  BY <1>1, PlannedAssumption, NoneAssumption DEF Parts, CoversParts
<1>4. CASE due # {}
  <2>1. next \in due /\ \A i \in due : next <= i
    BY <1>2, <1>4, FirstIs
  <2>2. VisitNext(todo[next], rest)
    BY <1>4 DEF Explore
  <2> HIDE DEF next
  <2>3. next \in 1 .. Len(todo) /\ todo[next] \notin seen /\ todo[next] \in Requests
    BY <1>1, <1>2, <2>1
  <2>4. CASE MustPause
    BY <1>1, <2>2, <2>4, SessionExplored DEF VisitNext, SettledIn, TypeOK, Flags
  <2>5. CASE ~MustPause
    <3>1. /\ visit' = todo[next] /\ todo' = rest
          /\ UNCHANGED <<stage, conf, base, obs, seen, control, blocked, pair,
                         rules, cover>>
      BY <2>2, <2>5 DEF VisitNext
    <3>2. control = 0 /\ ShapeParts' /\ HeardParts' /\ Seen' /\ RulesParts'
      BY <1>1, <2>3, <3>1, Quiet
    <3>3. ASSUME NEW x \in Planned, x \notin seen, x # todo[next]
          PROVE  x \in ToSet(rest)
      <4>1. PICK i \in 1 .. Len(todo) : todo[i] = x
        BY <1>2, <1>3, <3>3 DEF ToSet
      <4>2. i > next
        BY <1>2, <2>1, <2>3, <3>3, <4>1
      <4>3. i - next \in 1 .. Len(todo) - next
        BY <1>2, <2>3, <4>1, <4>2
      <4>4. DOMAIN rest = 1 .. Len(todo) - next /\ rest[i - next] = todo[i]
        BY <1>1, <1>2, <2>3, <4>3
      <4> QED  BY <4>1, <4>3, <4>4 DEF ToSet
    <3>4. CoversParts'
      BY <1>1, <3>1, <3>3 DEF CoversParts
    <3>5. Reserved'
      BY <1>1, <2>5, <3>1, <3>2, ReserveAfter
    <3>6. PairParts'
      BY <1>1, <3>1 DEF PairParts
    <3> QED  BY <3>2, <3>4, <3>5, <3>6, PartsAreNext DEF Parts
  <2> QED  BY <2>4, <2>5
<1>5. due = {} => Planned \subseteq seen
  <2> SUFFICES ASSUME due = {}, NEW x \in Planned PROVE x \in seen
    OBVIOUS
  <2>1. \A i \in DOMAIN todo : todo[i] \in seen
    OBVIOUS
  <2> QED  BY <1>3, <2>1 DEF ToSet
<1> HIDE DEF due
<1>6. CASE due = {} /\ Active /\ ~Outside(obs)
  <2>1. /\ stage' = "query" /\ todo' = <<>>
        /\ UNCHANGED <<conf, base, obs, seen, visit, control, blocked, pair, rules>>
    BY <1>6 DEF Explore, due
  <2>2. control = 0 /\ ShapeParts' /\ HeardParts' /\ Seen' /\ RulesParts'
    BY <1>1, <2>1, Quiet
  <2>3. CoversParts'
    <3>1. blocked = {}
      BY <1>1 DEF Parts, ShapeParts
    <3> QED  BY <1>5, <1>6, <2>1, <3>1 DEF CoversParts
  <2>4. PairParts' /\ Reserved'
    BY <1>1, <2>1 DEF PairParts, Reserved
  <2> QED  BY <2>2, <2>3, <2>4, PartsAreNext DEF Parts
<1>7. CASE due = {} /\ ~(Active /\ ~Outside(obs))
  <2>1. Explored([cover EXCEPT !.interaction = TRUE])
    BY <1>7 DEF Explore, due
  <2>2. SettledIn(log, obs, seen, [cover EXCEPT !.interaction = TRUE])
    BY <1>5, <1>7, EvidenceIs DEF SettledIn
  <2> QED  BY <1>1, <2>1, <2>2, SessionExplored
<1> QED  BY <1>4, <1>6, <1>7 DEF due

LEMMA SessionQuery ==
  ASSUME TypeOK, Parts, NEW x \in Requests, Query(x)
  PROVE  Session'
<1>1. stage = "query" /\ Idle /\ visit = None /\ UNCHANGED <<log, used>> /\ pair = None
  BY DEF Query, Idle, Parts, ShapeParts
<1>2. Planned \subseteq seen /\ blocked \subseteq seen
  <2>1. blocked \subseteq Requests /\ blocked \ {None} \subseteq seen
    BY <1>1 DEF Parts, CoversParts, TypeOK
  <2> QED  BY <1>1, <2>1, NoneAssumption DEF Parts, CoversParts
<1>3. CASE x \in seen
  <2>1. /\ blocked' = blocked \cup {x}
        /\ UNCHANGED <<stage, conf, base, obs, seen, todo, visit, control,
                       pair, rules, cover>>
    BY <1>3 DEF Query
  <2>2. control = 0 /\ ShapeParts' /\ HeardParts' /\ Seen' /\ RulesParts'
    BY <1>1, <2>1, Quiet
  <2>3. CoversParts' /\ PairParts' /\ Reserved'
    BY <1>1, <1>2, <1>3, <2>1 DEF CoversParts, PairParts, Reserved
  <2> QED  BY <2>2, <2>3, PartsAreNext DEF Parts
<1>4. CASE x \notin seen /\ MustPause
  <2>1. Explored([cover EXCEPT !.paused = TRUE])
    BY <1>4 DEF Query
  <2>2. SettledIn(log, obs, seen, [cover EXCEPT !.paused = TRUE])
    BY DEF SettledIn, TypeOK, Flags
  <2> QED  BY <1>1, <2>1, <2>2, SessionExplored
<1>5. CASE x \notin seen /\ ~MustPause
  <2>1. /\ blocked' = blocked \cup {x} /\ visit' = x
        /\ UNCHANGED <<stage, conf, base, obs, seen, todo, control, pair, rules,
                       cover>>
    BY <1>5 DEF Query
  <2>2. control = 0 /\ ShapeParts' /\ HeardParts' /\ Seen' /\ RulesParts'
    BY <1>1, <1>5, <2>1, Quiet
  <2>3. CoversParts' /\ PairParts'
    BY <1>1, <1>2, <2>1 DEF CoversParts, PairParts
  <2>4. Reserved'
    BY <1>1, <1>5, <2>1, <2>2, ReserveAfter
  <2> QED  BY <2>2, <2>3, <2>4, PartsAreNext DEF Parts
<1> QED  BY <1>3, <1>4, <1>5

\* Where no row is left to ask for, the networks agree.
LEMMA SessionStopQuerying ==
  ASSUME TypeOK, Parts, StopQuerying
  PROVE  Session'
<1>1. stage = "query" /\ Idle /\ visit = None /\ pair = None
      /\ Explored([cover EXCEPT !.converged = ~Outside(obs)])
  BY DEF StopQuerying, Idle, Parts, ShapeParts
<1>2. Planned \subseteq seen /\ blocked \subseteq seen
  <2>1. blocked \subseteq Requests /\ blocked \ {None} \subseteq seen
    BY <1>1 DEF Parts, CoversParts, TypeOK
  <2> QED  BY <1>1, <2>1, NoneAssumption DEF Parts, CoversParts
<1>3. ASSUME ~Outside(obs), NEW x \in Requests
      PROVE  x \in seen \/ N!Agreed(EvidenceIn(log, obs), x)
  <2>1. N!WitnessesBy(EvidenceIn(log, obs), blocked) = {}
    BY <1>3, EvidenceIs DEF StopQuerying
  <2>2. x \in blocked \/ ~(N!CanAccept(EvidenceIn(log, obs), x)
                           /\ N!CanReject(EvidenceIn(log, obs), x))
    BY <2>1 DEF N!WitnessesBy
  <2> QED  BY <1>2, <2>2 DEF N!Agreed
<1>4. SettledIn(log, obs, seen, [cover EXCEPT !.converged = ~Outside(obs)])
  <2>1. \/ ~N!Consistent(EvidenceIn(log, obs))
        \/ \A x \in Requests : x \in seen \/ N!Agreed(EvidenceIn(log, obs), x)
    BY <1>3, EvidenceIs
  <2> QED  BY <1>2, <2>1 DEF SettledIn
<1> QED  BY <1>1, <1>4, SessionExplored

\* An unexplained rejection is one no network explains.
LEMMA SessionAssess ==
  ASSUME TypeOK, Parts, Assess
  PROVE  Session'
<1> DEFINE un == {i \in Rejected(obs) :
                    N!Survivors(Evidence(obs)) \cap N!Violated(log[i].input) = {}}
<1> DEFINE asked == IF un = {} THEN <<>> ELSE <<log[First(un)].input>>
<1>1. /\ stage = "assess" /\ Idle /\ visit = None /\ pair = None
      /\ cover' = [cover EXCEPT
            !.gap = Gap, !.interaction = @ /\ ~Gap,
            !.converged = @ /\ ~Gap /\ ~Outside(obs)]
      /\ stage' = IF asked = <<>> THEN "confirm" ELSE "minimise"
      /\ UNCHANGED <<conf, base, obs, seen, visit, control, blocked, pair, rules>>
      /\ log' = log /\ used' = used
  BY DEF Assess, Idle, Parts, ShapeParts
<1>2. stage' \in {"confirm", "minimise"} /\ (stage' = "minimise" => un # {})
  BY <1>1
<1> HIDE DEF asked
<1>3. ASSUME un # {} PROVE ~N!Consistent(EvidenceIn(log, obs))
  <2>1. PICK i \in Rejected(obs) :
            N!Survivors(Evidence(obs)) \cap N!Violated(log[i].input) = {}
    BY <1>3
  <2>2. log[i].input \in Rej(EvidenceIn(log, obs))
    BY <2>1, Reading DEF Rejected, ToldIn
  <2>3. N!Violated(log[i].input) \in N!Clauses(EvidenceIn(log, obs))
    BY <2>2, Meaning
  <2> QED  BY <2>1, <2>3, EvidenceIs DEF N!Consistent
<1> HIDE DEF un
<1>4. cover'.paused = cover.paused /\ cover'.gap = Gap
  BY <1>1 DEF TypeOK, Flags
<1>5. OpenIn(log, obs, cover')
  BY <1>4 DEF OpenIn, Gap
<1>6. SettledIn(log, obs, seen, cover')
  BY <1>1, <1>4 DEF SettledIn, Parts, CoversParts
<1>7. CoversParts'
  BY <1>1, <1>2, <1>3, <1>5, <1>6 DEF CoversParts
<1>8. control = 0 /\ ShapeParts' /\ HeardParts' /\ Seen' /\ RulesParts'
  BY <1>1, <1>2, Quiet
<1>9. PairParts' /\ Reserved'
  BY <1>1 DEF PairParts, Reserved
<1> QED  BY <1>7, <1>8, <1>9, PartsAreNext DEF Parts

LEMMA SessionMinimise ==
  ASSUME TypeOK, Parts, NEW x \in Requests, Minimise(x)
  PROVE  Session'
<1>1. /\ stage = "minimise" /\ visit' = x /\ x \notin seen /\ ~MustPause
      /\ visit = None /\ pair = None /\ log' = log /\ used' = used
      /\ UNCHANGED <<stage, conf, base, obs, seen, todo, control, blocked, pair,
                     rules, cover>>
  BY DEF Minimise, Idle, Parts, ShapeParts
<1>2. control = 0 /\ ShapeParts' /\ HeardParts' /\ Seen' /\ RulesParts'
  BY <1>1, Quiet
<1>3. CoversParts' /\ PairParts'
  BY <1>1 DEF Parts, CoversParts, PairParts
<1>4. Reserved'
  BY <1>1, <1>2, ReserveAfter
<1> QED  BY <1>2, <1>3, <1>4, PartsAreNext DEF Parts

\* Minimisation ends, of itself or by an error, with what was observed.
LEMMA SessionGivesUp ==
  ASSUME TypeOK, Parts, stage = "minimise", stage' = "confirm",
         todo' = Tail(todo), visit' = None, control' = 0, log' = log,
         UNCHANGED <<conf, base, obs, seen, blocked, pair, rules, cover>>
  PROVE  Session'
<1>1. pair = None /\ rules = {}
  BY DEF Parts, ShapeParts
<1>2. ShapeParts' /\ PairParts' /\ Reserved' /\ CoversParts'
  BY <1>1 DEF Parts, ShapeParts, PairParts, Reserved, CoversParts
<1>3. HeardParts'
  BY DEF Parts, HeardParts
<1>4. Seen' /\ RulesParts'
  BY <1>1 DEF Parts, Seen, RulesParts, RulesIn, Supported
<1> QED  BY <1>2, <1>3, <1>4, PartsAreNext DEF Parts

LEMMA SessionMinimised ==
  ASSUME TypeOK, Parts, Minimised
  PROVE  Session'
<1>1. control = 0 /\ visit = None
  BY DEF Minimised, Idle, Parts, ShapeParts
<1> QED  BY <1>1, SessionGivesUp DEF Minimised, Idle

LEMMA SessionFails ==
  ASSUME TypeOK, Parts, stage # "off", FailUnlessMinimising, log' = log
  PROVE  Session'
<1>1. CASE stage = "minimise"
  BY <1>1, SessionGivesUp DEF FailUnlessMinimising
<1>2. CASE stage # "minimise"
  BY <1>2, Ended DEF FailUnlessMinimising, Fail, Leave, Forget
<1> QED  BY <1>1, <1>2

\* A step of confirmation between pairs.
LEMMA Between ==
  ASSUME TypeOK, Parts, Confirming, UNCHANGED <<Deciding, obs, pair, log>>,
         visit = None, Supported(rules') = Supported(rules)
  PROVE  Session'
<1>1. /\ UNCHANGED <<stage, conf, base, seen, visit, control, blocked, cover>>
      /\ UNCHANGED <<obs, pair, log>> /\ stage = "confirm" /\ pair = None
  BY DEF Deciding, Confirming
<1>2. control = 0 /\ ShapeParts' /\ HeardParts' /\ Seen' /\ RulesParts'
  BY <1>1, Quiet
<1>3. CoversParts' /\ PairParts' /\ Reserved'
  BY <1>1 DEF Parts, CoversParts, PairParts, Reserved
<1> QED  BY <1>2, <1>3, PartsAreNext DEF Parts

LEMMA SessionSkip ==
  ASSUME TypeOK, Parts, Skip
  PROVE  Session'
<1>1. Confirming /\ UNCHANGED <<Deciding, obs, pair, log>> /\ visit = None /\ rules' = rules
  BY DEF Skip, Idle
<1> QED  BY <1>1, Between

LEMMA SessionHypothesise ==
  ASSUME TypeOK, Parts, Hypothesise
  PROVE  Session'
<1>1. Confirming /\ UNCHANGED <<Deciding, obs, pair, log>> /\ visit = None
      /\ rules' = rules \cup {[claim |-> Head(todo), status |-> "hypothesis",
                               pair |-> None]}
  BY DEF Hypothesise, Idle
<1>2. Supported(rules') = Supported(rules)
  BY <1>1 DEF Supported
<1> QED  BY <1>1, <1>2, Between

LEMMA SessionStartPair ==
  ASSUME TypeOK, Session, Parts, StartPair
  PROVE  Session'
<1>1. /\ stage = "confirm" /\ pair = None /\ todo # <<>> /\ ~Skipped(Head(todo))
      /\ Head(todo).kind = "rule" => ~Outside(obs)
      /\ UNCHANGED <<api, log, used, left>> /\ visit = None
  BY DEF StartPair, Confirming
<1>2. PICK p \in PairsFor(Head(todo)) :
          IF \E i \in Trials(p.good, p.bad) :
                log[i].outcome # p.expect \/ log[log[i].control].outcome # "accepted"
          THEN Fail
          ELSE pair' = p /\ UNCHANGED <<Deciding, obs, todo, rules, report>>
  BY DEF StartPair
<1>3. CASE Fail
  BY <1>3, Ended DEF Fail, Leave, Forget
<1>4. CASE ~Fail
  <2>1. /\ \A i \in Trials(p.good, p.bad) :
              log[i].outcome = p.expect /\ log[log[i].control].outcome = "accepted"
        /\ pair' = p /\ UNCHANGED <<Deciding, obs, todo, rules, report>>
    BY <1>2, <1>4
  <2>2. /\ UNCHANGED <<stage, conf, base, seen, visit, control, blocked, cover>>
        /\ UNCHANGED <<obs, todo, rules, log>>
    BY <1>1, <2>1 DEF Deciding
  <2>3. control = 0 /\ ShapeParts' /\ HeardParts' /\ Seen' /\ RulesParts'
    BY <1>1, <2>2, Quiet
  <2>4. CoversParts' /\ Reserved'
    BY <1>1, <2>2 DEF Parts, CoversParts, Reserved
  <2>5. PairIn(log, obs, p, 0, Head(todo))
    <3>1. Trials(p.good, p.bad) = TrialsIn(log, p.good, p.bad)
      BY CompletedIs
    <3>2. /\ Head(todo).kind = "rule" =>
               /\ p.expect = "input-rejected"
               /\ Matched(Head(todo).rule, p.good, p.bad)
               /\ N!EntailedBy(Evidence(obs), Head(todo).rule)
               /\ N!CanAccept(Evidence(obs), p.good)
          /\ Head(todo).kind # "rule" =>
               /\ p.expect = "accepted"
               /\ Told(p.good, "accepted") /\ Told(p.bad, "accepted")
      BY <1>1, PairsAre DEF Session
    <3> QED  BY <2>1, <3>1, <3>2, EvidenceIs DEF PairIn
  <2>6. PairParts'
    BY <2>1, <2>2, <2>3, <2>5 DEF PairParts
  <2> QED  BY <2>3, <2>4, <2>6, PartsAreNext DEF Parts
<1> QED  BY <1>3, <1>4

-------------------------------------------------------------------------------
(* Steps that send *)

\* A step that leaves the session alone.
LEMMA Unmoved ==
  ASSUME Parts, UNCHANGED <<session, log, used>>
  PROVE  Session'
<1>1. ShapeParts' /\ HeardParts' /\ PairParts' /\ CoversParts'
  BY DEF session, Parts, ShapeParts, HeardParts, PairParts, CoversParts
<1>2. Seen' /\ RulesParts'
  BY DEF session, Parts, Seen, RulesParts
<1>3. Reserved'
  BY DEF session, Parts, Reserved, ReserveOf
<1> QED  BY <1>1, <1>2, <1>3, PartsAreNext DEF Parts

\* What has not been observed yet changes nothing that was.
LEMMA Unobserved ==
  ASSUME TypeOK, log' \in Logs, Extends(log, log'), obs' = obs
  PROVE  /\ EvidenceIn(log', obs') = EvidenceIn(log, obs)
         /\ \A x, y : ToldIn(log', obs', x, y) <=> ToldIn(log, obs, x, y)
         /\ \A s, c : SettledIn(log, obs, s, c) => SettledIn(log', obs', s, c)
         /\ \A c : OpenIn(log, obs, c) => OpenIn(log', obs', c)
         /\ \A rs : \A t \in Nat :
               RulesIn(log, obs, rs, t) => RulesIn(log', obs', rs, t)
<1>1. \A i \in obs : log'[i] = log[i]
  BY Grown
<1>2. EvidenceIn(log', obs') = EvidenceIn(log, obs)
  BY <1>1 DEF EvidenceIn
<1>3. \A x, y : ToldIn(log', obs', x, y) <=> ToldIn(log, obs, x, y)
  BY <1>1 DEF ToldIn
<1>4. ASSUME NEW rs, NEW t \in Nat, RulesIn(log, obs, rs, t)
      PROVE  RulesIn(log', obs', rs, t)
  <2>1. log \in Logs /\ obs \subseteq 1 .. Len(log)
    BY LogOK, Grown
  <2> QED  BY <1>2, <1>4, <2>1, RulesGrow
<1>5. /\ \A s, c : SettledIn(log, obs, s, c) => SettledIn(log', obs', s, c)
      /\ \A c : OpenIn(log, obs, c) => OpenIn(log', obs', c)
  BY <1>1, <1>2 DEF SettledIn, OpenIn
<1> QED  BY <1>2, <1>3, <1>4, <1>5

\* What an experiment with an observed outcome adds.
LEMMA Observed ==
  ASSUME TypeOK, Parts, stage \notin {"off", "confirm"},
         NEW x \in Requests, NEW out \in Outcomes,
         log' \in Logs, Extends(log, log'), Len(log') = Len(log) + 1,
         log'[Len(log')].input = x, log'[Len(log')].outcome = out,
         obs' = obs \cup {Len(log')}, seen' = seen \cup {x}, pair' = pair
  PROVE  /\ HeardParts'
         /\ \A y \in seen' : \E i \in obs' : log'[i].input = y
         /\ \A i \in DOMAIN log' :
               log'[i].outcome # "inconclusive" => log'[i].input \in seen'
         /\ \A y, z : ToldIn(log, obs, y, z) => ToldIn(log', obs', y, z)
         /\ N!Consistent(EvidenceIn(log', obs')) => N!Consistent(EvidenceIn(log, obs))
         /\ \A c : SettledIn(log, obs, seen, c) => SettledIn(log', obs', seen', c)
<1>1. /\ Len(log) \in Nat /\ DOMAIN log' = 1 .. Len(log) + 1
      /\ DOMAIN log = 1 .. Len(log) /\ obs \subseteq 1 .. Len(log)
      /\ \A i \in 1 .. Len(log) : log'[i] = log[i]
      /\ log \in Logs
  BY LogOK, Grown DEF Extends
<1>2. obs \subseteq obs' /\ seen \subseteq seen' /\ Len(log') \in obs'
  OBVIOUS
<1>3. /\ \A y, z : ToldIn(log, obs, y, z) => ToldIn(log', obs', y, z)
      /\ N!Consistent(EvidenceIn(log', obs')) => N!Consistent(EvidenceIn(log, obs))
  BY <1>1, <1>2, Grows
<1>4. \A c : SettledIn(log, obs, seen, c) => SettledIn(log', obs', seen', c)
  BY <1>1, <1>2, SettledGrows
<1>5. HeardParts'
  <2>1. \A i \in 1 .. Len(log) : HeardAt(log, obs, pair, i)
    BY <1>1 DEF Parts, HeardParts
  <2>2. HeardAt(log', obs', pair', Len(log'))
    BY <1>2 DEF HeardAt, ToldIn
  <2>3. \A i \in 1 .. Len(log') : i > Len(log) => HeardAt(log', obs', pair', i)
    BY <1>1, <2>2
  <2>4. \A i \in DOMAIN log' : HeardAt(log', obs', pair', i)
    BY <1>1, <1>2, <2>1, <2>3, HeardGrows
  <2> QED  BY <2>4 DEF HeardParts
<1>6. \A y \in seen' : \E i \in obs' : log'[i].input = y
  <2>1. \A y \in seen : \E i \in obs : log'[i].input = y
    BY <1>1 DEF Parts, Seen
  <2> QED  BY <1>2, <2>1
<1>7. \A i \in DOMAIN log' : log'[i].outcome # "inconclusive" => log'[i].input \in seen'
  <2>1. \A i \in 1 .. Len(log) :
            log'[i].outcome # "inconclusive" => log'[i].input \in seen'
    BY <1>1 DEF Parts, Seen
  <2>2. log'[Len(log')].input \in seen'
    OBVIOUS
  <2> QED  BY <1>1, <2>1, <2>2
<1> QED  BY <1>3, <1>4, <1>5, <1>6, <1>7

\* A session begins with all that the journal classified.
LEMMA SessionBegin ==
  ASSUME TypeOK, Parts, NEW s \in Settings, Begin(s)
  PROVE  Session'
<1>1. log' = log /\ UNCHANGED <<visit, control, blocked, pair, rules>>
      /\ stage = "off" /\ obs' = Retained /\ seen' = {log[i].input : i \in Retained}
  BY DEF Begin, Carried
<1>2. visit = None /\ control = 0 /\ pair = None /\ rules = {} /\ blocked = {}
  BY <1>1 DEF Parts, ShapeParts
<1> DEFINE a == {i \in Accepted(Retained) : log[i].phase = "baseline"}
<1>3. a # {} => First(a) \in a
  <2>1. a \in SUBSET Nat
    BY LogOK DEF Retained, Accepted
  <2> QED  BY <2>1, FirstIs
<1>4. /\ base' = IF a # {} THEN log[First(a)].input ELSE None
      /\ stage' = IF a # {} THEN "recheck" ELSE "baseline"
  BY DEF Begin, Carried
<1>5. stage' = "recheck" => ToldIn(log, Retained, base', "accepted")
  <2> HIDE DEF a
  <2> SUFFICES ASSUME a # {} PROVE ToldIn(log, Retained, base', "accepted")
    BY <1>4
  <2>1. First(a) \in Retained /\ log[First(a)].outcome = "accepted"
    BY <1>3 DEF a, Accepted
  <2> QED  BY <1>4, <2>1 DEF ToldIn
<1> HIDE DEF a
<1>6. ShapeParts'
  BY <1>1, <1>2, <1>4, <1>5 DEF ShapeParts
<1>7. HeardParts'
  BY <1>1, <1>2 DEF HeardParts, HeardAt, ToldIn, Retained, Reusable
<1>8. Seen'
  <2>1. \A i \in DOMAIN log : log[i].outcome # "inconclusive" => i \in Retained
    BY LogOK, LogIs DEF Retained, Reusable, Outcomes
  <2> QED  BY <1>1, <1>2, <2>1 DEF Seen
<1>9. PairParts' /\ RulesParts' /\ CoversParts' /\ Reserved'
  BY <1>1, <1>2, <1>4
     DEF PairParts, RulesParts, RulesIn, Supported, CoversParts, Reserved
<1> QED  BY <1>6, <1>7, <1>8, <1>9, PartsAreNext DEF Parts

\* Exploration begins with every planned request to make.
LEMMA SessionStart ==
  ASSUME TypeOK, Parts, StartExploring, stage \in {"recheck", "baseline"},
         NEW x \in Requests, log' \in Logs, Extends(log, log'),
         Len(log') = Len(log) + 1, log'[Len(log')].input = x,
         log'[Len(log')].outcome = "accepted", base' = x, seen' = seen \cup {x}
  PROVE  Session'
<1>1. /\ stage' = "explore" /\ todo' = SetToSeq(Planned)
      /\ obs' = obs \cup {Len(log')}
      /\ UNCHANGED <<conf, visit, control, blocked, pair, rules, cover>>
  BY DEF StartExploring
<1>2. visit = None /\ control = 0 /\ pair = None /\ rules = {} /\ blocked = {}
  BY DEF Parts, ShapeParts
<1>3. /\ HeardParts'
      /\ \A y \in seen' : \E i \in obs' : log'[i].input = y
      /\ \A i \in DOMAIN log' :
            log'[i].outcome # "inconclusive" => log'[i].input \in seen'
  BY <1>1, Observed DEF Outcomes
<1>4. ToldIn(log', obs', base', "accepted")
  BY <1>1 DEF ToldIn
<1>5. ShapeParts' /\ Seen' /\ PairParts' /\ RulesParts' /\ Reserved'
  BY <1>1, <1>2, <1>3, <1>4
     DEF ShapeParts, Seen, PairParts, RulesParts, RulesIn, Supported, Reserved
<1>6. CoversParts'
  <2>1. ToSet(todo') = Planned
    BY <1>1, PlannedAssumption, ListOf
  <2> QED  BY <1>1, <2>1 DEF CoversParts
<1> QED  BY <1>3, <1>5, <1>6, PartsAreNext DEF Parts

\* A request the session was told about is a request.
LEMMA BaseIs ==
  ASSUME TypeOK, Parts, stage \notin {"off", "baseline"}
  PROVE  base \in Requests
<1>1. \E i \in obs : log[i].input = base
  BY DEF Parts, ShapeParts, ToldIn
<1> QED  BY <1>1, LogOK, LogIs DEF TypeOK

LEMMA SessionRecheck ==
  ASSUME TypeOK, Parts, NEW o \in Outcomes, Recheck(o)
  PROVE  Session'
<1>1. stage = "recheck" /\ base \in Requests
  BY BaseIs DEF Recheck
<1>2. /\ log' \in Logs /\ Extends(log, log') /\ Len(log') = Len(log) + 1
      /\ log'[Len(log')].input = base /\ log'[Len(log')].outcome = o
  <2>1. Experiment("resume-control", base, 0, o) /\ 0 \in 0 .. Len(log)
    BY LogOK DEF Recheck
  <2> QED  BY <1>1, <2>1, Sent DEF Phases
<1>3. CASE o = "accepted"
  <2>1. StartExploring /\ base' = base /\ seen' = seen
    BY <1>3 DEF Recheck
  <2>2. base \in seen
    <3>1. PICK i \in obs : log[i].input = base /\ log[i].outcome = "accepted"
      BY <1>1 DEF Parts, ShapeParts, ToldIn
    <3>2. i \in DOMAIN log
      BY DEF TypeOK
    <3> QED  BY <1>1, <3>1, <3>2 DEF Parts, Seen
  <2>3. seen' = seen \cup {base}
    BY <2>1, <2>2
  <2> QED  BY <1>1, <1>2, <1>3, <2>1, <2>3, SessionStart
<1>4. CASE o # "accepted"
  BY <1>4, Ended DEF Recheck, Fail, Leave, Forget
<1> QED  BY <1>3, <1>4

LEMMA SessionBaseline ==
  ASSUME TypeOK, Parts, NEW o \in Outcomes, Baseline(o)
  PROVE  Session'
<1>1. stage = "baseline" /\ Head(todo) \in Requests
  BY DEF Baseline, TypeOK, TodoOK
<1>2. /\ log' \in Logs /\ Extends(log, log') /\ Len(log') = Len(log) + 1
      /\ log'[Len(log')].input = Head(todo) /\ log'[Len(log')].outcome = o
  <2>1. Experiment("baseline", Head(todo), 0, o) /\ 0 \in 0 .. Len(log)
    BY LogOK DEF Baseline
  <2> QED  BY <1>1, <2>1, Sent DEF Phases
<1>3. CASE o = "accepted"
  <2>1. StartExploring /\ base' = Head(todo) /\ seen' = seen \cup {Head(todo)}
    BY <1>3 DEF Baseline
  <2> QED  BY <1>1, <1>2, <1>3, <2>1, SessionStart
<1>4. CASE o = "input-rejected"
  <2>1. /\ seen' = seen \cup {Head(todo)}
        /\ obs' = obs \cup {Len(log')}
        /\ UNCHANGED <<stage, conf, base, visit, control, blocked, pair, rules,
                       cover>>
    BY <1>4 DEF Baseline
  <2>2. visit = None /\ control = 0 /\ pair = None /\ rules = {} /\ blocked = {}
    BY <1>1 DEF Parts, ShapeParts
  <2>3. /\ HeardParts'
        /\ \A y \in seen' : \E i \in obs' : log'[i].input = y
        /\ \A i \in DOMAIN log' :
              log'[i].outcome # "inconclusive" => log'[i].input \in seen'
    BY <1>1, <1>2, <2>1, Observed
  <2>4. ShapeParts' /\ Seen' /\ PairParts' /\ RulesParts' /\ Reserved' /\ CoversParts'
    BY <1>1, <2>1, <2>2, <2>3
       DEF ShapeParts, Seen, PairParts, RulesParts, RulesIn, Supported, Reserved,
           CoversParts
  <2> QED  BY <2>3, <2>4, PartsAreNext DEF Parts
<1>5. CASE o = "inconclusive"
  BY <1>5, Ended DEF Baseline, Fail, Leave, Forget
<1> QED  BY <1>3, <1>4, <1>5 DEF Outcomes

\* A fresh control of a visit, or the request that ends a minimisation.
LEMMA SessionControl ==
  ASSUME TypeOK, Parts, NEW o \in Outcomes, Control(o)
  PROVE  Session'
<1>1. /\ visit # None /\ control = 0 /\ stage \in {"explore", "query", "minimise"}
      /\ pair = None /\ rules = {} /\ base \in Requests
      /\ stage = "explore" => blocked = {}
  BY BaseIs DEF Control, Parts, ShapeParts
<1>2. /\ log' \in Logs /\ Extends(log, log') /\ Len(log') = Len(log) + 1
      /\ log'[Len(log')].input = base /\ log'[Len(log')].outcome = o
      /\ used' = used + Cost \/ used' = used + Cost + Extra
  <2>1. Experiment("control", base, 0, o) /\ 0 \in 0 .. Len(log)
    BY LogOK DEF Control
  <2> QED  BY <1>1, <2>1, Sent DEF Phases
<1>3. /\ Len(log) \in Nat /\ DOMAIN log' = 1 .. Len(log) + 1
      /\ DOMAIN log = 1 .. Len(log) /\ obs \subseteq 1 .. Len(log)
      /\ \A i \in 1 .. Len(log) : log'[i] = log[i]
      /\ \A i \in obs : log'[i] = log[i]
      /\ log \in Logs
  BY <1>2, LogOK, Grown DEF Extends
<1>4. CASE o # "accepted" /\ stage # "minimise"
  BY <1>4, Ended DEF Control, FailUnlessMinimising, Fail, Leave, Forget
<1>5. CASE o = "accepted" \/ stage = "minimise"
  <2>1. obs' = obs /\ UNCHANGED <<conf, base, seen, blocked, pair, rules, cover>>
    BY <1>5 DEF Control, FailUnlessMinimising, Visiting
  <2>2. ToldIn(log, obs, base, "accepted")
    BY <1>1 DEF Parts, ShapeParts
  <2>3. /\ EvidenceIn(log', obs') = EvidenceIn(log, obs)
        /\ ToldIn(log', obs', base, "accepted")
        /\ \A s, c : SettledIn(log, obs, s, c) => SettledIn(log', obs', s, c)
        /\ \A c : OpenIn(log, obs, c) => OpenIn(log', obs', c)
    BY <1>2, <2>1, <2>2, Unobserved
  <2>4. stage = "minimise" => ~N!Consistent(EvidenceIn(log', obs'))
    BY <2>3 DEF Parts, CoversParts
  <2>5. stage' # "off" => HeardParts'
    <3>1. \A i \in 1 .. Len(log) : HeardAt(log, obs, pair, i)
      BY <1>1, <1>3 DEF Parts, HeardParts
    <3>2. HeardAt(log', obs', pair', Len(log'))
      BY <1>2, <1>5, <2>3, <2>4 DEF HeardAt
    <3>3. \A i \in 1 .. Len(log') : i > Len(log) => HeardAt(log', obs', pair', i)
      BY <1>2, <1>3, <3>2
    <3>4. \A i \in DOMAIN log' : HeardAt(log', obs', pair', i)
      BY <1>2, <1>3, <2>1, <3>1, <3>3, HeardGrows
    <3> QED  BY <3>4 DEF HeardParts
  <2>6. base \in seen
    <3>1. PICK i \in obs : log[i].input = base /\ log[i].outcome = "accepted"
      BY <2>2 DEF ToldIn
    <3>2. i \in DOMAIN log
      BY DEF TypeOK
    <3> QED  BY <1>1, <3>1, <3>2 DEF Parts, Seen
  <2>7. \A y \in seen' : \E i \in obs' : log'[i].input = y
    <3>1. \A y \in seen : \E i \in obs : log[i].input = y
      BY DEF Parts, Seen
    <3> QED  BY <1>3, <2>1, <3>1
  <2>8. CASE o = "accepted"
    <3>1. /\ control' = Len(log')
          /\ UNCHANGED <<stage, obs, seen, todo, visit>>
      BY <2>8 DEF Control
    <3>2. ShapeParts'
      BY <1>1, <1>2, <2>1, <2>3, <2>8, <3>1 DEF ShapeParts
    <3>3. Seen'
      <4>1. \A i \in 1 .. Len(log) :
                log'[i].outcome # "inconclusive" => log'[i].input \in seen
        BY <1>1, <1>3 DEF Parts, Seen
      <4>2. \A i \in DOMAIN log' :
                log'[i].outcome # "inconclusive" => log'[i].input \in seen
        BY <1>2, <1>3, <2>6, <4>1
      <4>3. visit' # None => visit' \notin seen'
        BY <1>1, <3>1 DEF Parts, Seen
      <4> QED  BY <2>1, <2>7, <4>2, <4>3 DEF Seen
    <3>4. CoversParts'
      BY <1>1, <2>1, <2>3, <2>4, <3>1 DEF Parts, CoversParts
    <3>5. Reserved'
      <4> SUFFICES ASSUME conf.budget > 0, ConfirmationReserve >= 0
          PROVE  conf.budget - used' >= ReserveOf(conf) + (Cost - Extra)
        BY <1>2, <1>3, <2>1, <3>1 DEF Reserved, ReserveOf
      <4>1. conf.budget - used >= ReserveOf(conf) + 2 * Cost
        BY <1>1 DEF Parts, Reserved
      <4>2. used \in Int /\ conf.budget \in Int /\ ReserveOf(conf) \in Int
        BY <1>1, ReserveIs
      <4> QED  BY <1>2, <4>1, <4>2, CostAssumption
    <3>6. PairParts' /\ RulesParts'
      BY <1>1, <2>1 DEF PairParts, RulesParts, RulesIn, Supported
    <3> QED  BY <1>1, <2>5, <3>1, <3>2, <3>3, <3>4, <3>5, <3>6, PartsAreNext DEF Parts
  <2>9. CASE o # "accepted"
    <3>1. /\ stage' = "confirm" /\ todo' = Tail(todo) /\ visit' = None
          /\ control' = 0 /\ stage = "minimise"
      BY <1>5, <2>9 DEF Control, FailUnlessMinimising
    <3>2. ShapeParts' /\ Seen' /\ PairParts' /\ RulesParts' /\ Reserved'
      BY <1>1, <2>1, <2>3, <2>7, <3>1
         DEF ShapeParts, Seen, PairParts, RulesParts, RulesIn, Supported, Reserved
    <3>3. CoversParts'
      BY <2>1, <2>3, <3>1 DEF Parts, CoversParts
    <3> QED  BY <2>5, <3>1, <3>2, <3>3, PartsAreNext DEF Parts
  <2> QED  BY <2>8, <2>9
<1> QED  BY <1>4, <1>5

\* The answer to a request visited.
LEMMA SessionProbe ==
  ASSUME TypeOK, Parts, NEW o \in Outcomes, Probe(o)
  PROVE  Session'
<1>1. /\ visit # None /\ visit \in Requests /\ control \in 0 .. Len(log)
      /\ stage \in {"explore", "query", "minimise"}
      /\ pair = None /\ rules = {}
      /\ stage = "explore" => blocked = {}
  BY DEF Probe, TypeOK, Parts, ShapeParts
<1>2. /\ log' \in Logs /\ Extends(log, log') /\ Len(log') = Len(log) + 1
      /\ log'[Len(log')].input = visit /\ log'[Len(log')].outcome = o
  <2>1. Experiment("probe", visit, control, o)
    BY DEF Probe
  <2> QED  BY <1>1, <2>1, Sent DEF Phases
<1>3. CASE stage = "explore" /\ visit \in Searched /\ o = "inconclusive"
  BY <1>3, Ended DEF Probe, Fail, Leave, Forget
<1>4. CASE ~(stage = "explore" /\ visit \in Searched /\ o = "inconclusive")
  <2>1. /\ obs' = obs \cup {Len(log')} /\ seen' = seen \cup {visit}
        /\ visit' = None /\ control' = 0
        /\ UNCHANGED <<conf, base, blocked, pair, rules, cover>>
        /\ \/ stage = "minimise" /\ stage' = "confirm"
           \/ stage' = stage /\ todo' = todo
    BY <1>4 DEF Probe, Visiting
  <2>2. /\ HeardParts'
        /\ \A y \in seen' : \E i \in obs' : log'[i].input = y
        /\ \A i \in DOMAIN log' :
              log'[i].outcome # "inconclusive" => log'[i].input \in seen'
        /\ ToldIn(log, obs, base, "accepted") => ToldIn(log', obs', base, "accepted")
        /\ N!Consistent(EvidenceIn(log', obs')) => N!Consistent(EvidenceIn(log, obs))
        /\ SettledIn(log, obs, seen, cover) => SettledIn(log', obs', seen', cover')
    BY <1>1, <1>2, <2>1, Observed
  <2>3. ShapeParts' /\ Seen' /\ PairParts' /\ RulesParts' /\ Reserved'
    <3>1. ToldIn(log', obs', base', "accepted")
      BY <1>1, <2>1, <2>2 DEF Parts, ShapeParts
    <3>2. ShapeParts'
      <4>1. stage' # "off" /\ stage' \notin {"recheck", "baseline"}
        BY <1>1, <2>1
      <4>2. stage' = "explore" => blocked' = {}
        BY <1>1, <2>1
      <4> QED  BY <1>1, <2>1, <3>1, <4>1, <4>2 DEF ShapeParts
    <3>3. Seen'
      BY <2>1, <2>2 DEF Seen
    <3>4. PairParts' /\ RulesParts' /\ Reserved'
      BY <1>1, <2>1 DEF PairParts, RulesParts, RulesIn, Supported, Reserved
    <3> QED  BY <3>2, <3>3, <3>4
  <2>4. CoversParts'
    <3>1. stage' = "explore" =>
            \A x \in Planned : x \in seen' \/ x = visit' \/ x \in ToSet(todo')
      BY <2>1 DEF Parts, CoversParts
    <3>2. stage' = "query" => Planned \subseteq seen' /\ blocked' \ {visit'} \subseteq seen'
      BY <2>1 DEF Parts, CoversParts
    <3>3. stage' \in {"assess", "minimise", "confirm"} =>
              SettledIn(log', obs', seen', cover')
      BY <1>1, <2>1, <2>2 DEF Parts, CoversParts
    <3>4. stage = "minimise" => ~N!Consistent(EvidenceIn(log', obs'))
      BY <2>2 DEF Parts, CoversParts
    <3>5. stage' \in {"minimise", "confirm"} => OpenIn(log', obs', cover')
      BY <1>1, <2>1, <3>4 DEF OpenIn
    <3> QED  BY <1>1, <2>1, <3>1, <3>2, <3>3, <3>4, <3>5 DEF CoversParts
  <2> QED  BY <2>2, <2>3, <2>4, PartsAreNext DEF Parts
<1> QED  BY <1>3, <1>4

\* What a step of confirmation that sends a matched request keeps.
LEMMA Confirmed ==
  ASSUME TypeOK, Parts, pair # None, log' \in Logs, Extends(log, log'),
         Len(log') = Len(log) + 1,
         UNCHANGED <<stage, conf, base, obs, seen, todo, visit, blocked, pair,
                     rules, cover>>,
         control' # 0 => log'[control'].outcome = "accepted",
         HeardAt(log', obs', pair', Len(log'))
  PROVE  ShapeParts' /\ HeardParts' /\ Seen' /\ RulesParts' /\ CoversParts' /\ Reserved'
<1>1. stage = "confirm" /\ todo # <<>> /\ visit = None
  BY DEF Parts, ShapeParts
<1>2. /\ Len(log) \in Nat /\ DOMAIN log' = 1 .. Len(log) + 1
      /\ DOMAIN log = 1 .. Len(log) /\ obs \subseteq 1 .. Len(log)
      /\ \A i \in obs : log'[i] = log[i]
      /\ log \in Logs
  BY LogOK, Grown DEF Extends
<1>3. /\ EvidenceIn(log', obs') = EvidenceIn(log, obs)
      /\ \A x, y : ToldIn(log', obs', x, y) <=> ToldIn(log, obs, x, y)
      /\ \A s, c : SettledIn(log, obs, s, c) => SettledIn(log', obs', s, c)
      /\ \A c : OpenIn(log, obs, c) => OpenIn(log', obs', c)
      /\ \A rs : \A t \in Nat :
            RulesIn(log, obs, rs, t) => RulesIn(log', obs', rs, t)
  BY Unobserved
<1>4. ShapeParts'
  <2>1. ToldIn(log', obs', base', "accepted")
    BY <1>1, <1>3 DEF Parts, ShapeParts
  <2> QED  BY <1>1, <2>1 DEF ShapeParts
<1>5. HeardParts'
  <2>1. \A i \in 1 .. Len(log) : HeardAt(log, obs, pair, i)
    BY <1>1, <1>2 DEF Parts, HeardParts
  <2>2. \A i \in 1 .. Len(log') : i > Len(log) => HeardAt(log', obs', pair', i)
    BY <1>2
  <2>3. \A i \in DOMAIN log' : HeardAt(log', obs', pair', i)
    BY <1>2, <2>1, <2>2, HeardGrows
  <2> QED  BY <2>3 DEF HeardParts
<1>6. Seen'
  <2>1. \A y \in seen : \E i \in obs : log[i].input = y
    BY DEF Parts, Seen
  <2>2. \A y \in seen' : \E i \in obs' : log'[i].input = y
    BY <1>2, <2>1
  <2> QED  BY <1>1, <2>2 DEF Seen
<1>7. RulesParts'
  <2>1. conf.trials \in Nat
    BY <1>1, ConfIs
  <2> QED  BY <1>3, <2>1 DEF Parts, RulesParts
<1>8. CoversParts'
  BY <1>1, <1>3 DEF Parts, CoversParts
<1>9. Reserved'
  BY <1>1 DEF Reserved
<1> QED  BY <1>4, <1>5, <1>6, <1>7, <1>8, <1>9

LEMMA SessionConfirmControl ==
  ASSUME TypeOK, Parts, NEW o \in Outcomes, ConfirmControl(o)
  PROVE  Session'
<1>1. pair # None /\ pair \in Pairs /\ pair.good \in Requests
  BY DEF ConfirmControl, TypeOK, Pairs
<1>2. /\ log' \in Logs /\ Extends(log, log') /\ Len(log') = Len(log) + 1
      /\ log'[Len(log')].phase = "validation-control"
      /\ log'[Len(log')].input = pair.good /\ log'[Len(log')].outcome = o
  <2>1. Experiment("validation-control", pair.good, 0, o) /\ 0 \in 0 .. Len(log)
    BY LogOK DEF ConfirmControl
  <2> QED  BY <1>1, <2>1, Sent DEF Phases
<1>3. CASE o # "accepted"
  BY <1>3, Ended DEF ConfirmControl, Fail, Leave, Forget
<1>4. CASE o = "accepted"
  <2>1. /\ control' = Len(log')
        /\ UNCHANGED <<stage, conf, base, obs, seen, todo, visit, blocked, pair,
                       rules, cover>>
    BY <1>4 DEF ConfirmControl
  <2>2. HeardAt(log', obs', pair', Len(log'))
    BY <1>1, <1>2, <1>4, <2>1 DEF HeardAt
  <2>3. ShapeParts' /\ HeardParts' /\ Seen' /\ RulesParts' /\ CoversParts' /\ Reserved'
    BY <1>1, <1>2, <1>4, <2>1, <2>2, Confirmed
  <2>4. PairParts'
    <3>1. PairIn(log, obs, pair, control, Head(todo))
      BY <1>1 DEF Parts, PairParts
    <3>2. \A i \in TrialsIn(log', pair.good, pair.bad) :
              log'[i].outcome = pair.expect /\ log'[log'[i].control].outcome = "accepted"
      <4> SUFFICES ASSUME NEW i \in TrialsIn(log', pair.good, pair.bad)
          PROVE  log'[i].outcome = pair.expect
                 /\ log'[log'[i].control].outcome = "accepted"
        OBVIOUS
      <4>1. i \in DOMAIN log' /\ log'[i].phase = "validation"
        BY DEF TrialsIn, RetainedIn
      <4>2. i \in 1 .. Len(log)
        BY <1>2, <4>1, LogOK, LogIs
      <4>3. i \in TrialsIn(log, pair.good, pair.bad)
        BY <1>2, <4>2, LogOK, TrialsGrow
      <4>4. log'[i] = log[i] /\ log'[log[i].control] = log[log[i].control]
        BY <1>2, <4>3, LogOK, TrialThere
      <4>5. log[i].outcome = pair.expect /\ log[log[i].control].outcome = "accepted"
        BY <3>1, <4>3 DEF PairIn
      <4> QED  BY <4>4, <4>5
    <3>3. EvidenceIn(log', obs') = EvidenceIn(log, obs)
          /\ \A x, y : ToldIn(log', obs', x, y) <=> ToldIn(log, obs, x, y)
      BY <1>2, <2>1, Unobserved
    <3>4. PairIn(log', obs', pair, control', Head(todo))
      BY <1>2, <2>1, <3>1, <3>2, <3>3 DEF PairIn
    <3> QED  BY <2>1, <3>4 DEF PairParts
  <2> QED  BY <2>3, <2>4, PartsAreNext DEF Parts
<1> QED  BY <1>3, <1>4

LEMMA SessionConfirmTrial ==
  ASSUME TypeOK, Parts, NEW o \in Outcomes, ConfirmTrial(o)
  PROVE  Session'
<1>1. /\ pair # None /\ pair \in Pairs /\ pair.bad \in Requests
      /\ control # 0 /\ control \in 0 .. Len(log) /\ Len(log) \in Nat
      /\ log[control].outcome = "accepted"
      /\ PairIn(log, obs, pair, control, Head(todo))
  BY LogOK DEF ConfirmTrial, TypeOK, Pairs, Parts, ShapeParts, PairParts
<1>2. /\ log' \in Logs /\ Extends(log, log') /\ Len(log') = Len(log) + 1
      /\ log'[Len(log')].control = control
      /\ log'[Len(log')].input = pair.bad /\ log'[Len(log')].outcome = o
  <2>1. Experiment("validation", pair.bad, control, o)
    BY DEF ConfirmTrial
  <2> QED  BY <1>1, <2>1, Sent DEF Phases
<1>3. CASE o # pair.expect
  BY <1>3, Ended DEF ConfirmTrial, Fail, Leave, Forget
<1>4. CASE o = pair.expect
  <2>1. /\ control' = 0
        /\ UNCHANGED <<stage, conf, base, obs, seen, todo, visit, blocked, pair,
                       rules, cover>>
    BY <1>4 DEF ConfirmTrial
  <2>2. EvidenceIn(log', obs') = EvidenceIn(log, obs)
        /\ \A x, y : ToldIn(log', obs', x, y) <=> ToldIn(log, obs, x, y)
    BY <1>2, <2>1, Unobserved
  <2>3. HeardAt(log', obs', pair', Len(log'))
    <3>1. o = "accepted" => ToldIn(log', obs', pair.bad, "accepted")
      BY <1>1, <1>4, <2>2 DEF PairIn
    <3> QED  BY <1>1, <1>2, <1>4, <2>1, <3>1 DEF HeardAt
  <2>4. ShapeParts' /\ HeardParts' /\ Seen' /\ RulesParts' /\ CoversParts' /\ Reserved'
    BY <1>1, <1>2, <2>1, <2>3, Confirmed
  <2>5. PairParts'
    <3>1. \A i \in TrialsIn(log', pair.good, pair.bad) :
              log'[i].outcome = pair.expect /\ log'[log'[i].control].outcome = "accepted"
      <4> SUFFICES ASSUME NEW i \in TrialsIn(log', pair.good, pair.bad)
          PROVE  log'[i].outcome = pair.expect
                 /\ log'[log'[i].control].outcome = "accepted"
        OBVIOUS
      <4>1. i \in 1 .. Len(log) + 1
        BY <1>2, LogIs DEF TrialsIn, RetainedIn
      <4>2. CASE i \in 1 .. Len(log)
        <5>1. i \in TrialsIn(log, pair.good, pair.bad)
          BY <1>2, <4>2, LogOK, TrialsGrow
        <5>2. log'[i] = log[i] /\ log'[log[i].control] = log[log[i].control]
          BY <1>2, <5>1, LogOK, TrialThere
        <5>3. log[i].outcome = pair.expect /\ log[log[i].control].outcome = "accepted"
          BY <1>1, <5>1 DEF PairIn
        <5> QED  BY <5>2, <5>3
      <4>3. CASE i = Len(log')
        <5>1. log'[control] = log[control]
          BY <1>1, <1>2 DEF Extends
        <5> QED  BY <1>1, <1>2, <1>4, <4>3, <5>1
      <4> QED  BY <1>1, <1>2, <4>1, <4>2, <4>3
    <3>2. PairIn(log', obs', pair, 0, Head(todo))
      BY <1>1, <2>2, <3>1 DEF PairIn
    <3> QED  BY <2>1, <3>2 DEF PairParts
  <2> QED  BY <2>4, <2>5, PartsAreNext DEF Parts
<1> QED  BY <1>3, <1>4

\* The trials of a pair are enough, and show what was expected of them.
LEMMA PairShown ==
  ASSUME TypeOK, Parts, Conclude
  PROVE  /\ pair \in Pairs /\ pair # None
         /\ PairIn(log, obs, pair, 0, Head(todo))
         /\ Completed = TrialsIn(log, pair.good, pair.bad)
         /\ \A i \in Completed :
               /\ log[i].input = pair.bad /\ log[i].outcome = pair.expect
               /\ log[log[i].control].input = pair.good
               /\ log[log[i].control].outcome = "accepted"
         /\ Completed # {}
         /\ Cardinality(FullIn(log, pair, Len(log))) >= conf.trials
<1>1. /\ pair # None /\ control = 0 /\ TrialsMade >= conf.trials
      /\ pair \in Pairs /\ stage = "confirm"
  BY DEF Conclude, Parts, ShapeParts, TypeOK
<1>2. PairIn(log, obs, pair, 0, Head(todo))
  BY <1>1 DEF Parts, PairParts
<1>3. Completed = TrialsIn(log, pair.good, pair.bad)
  BY CompletedIs DEF Completed
<1>4. \A i \in Completed :
        /\ log[i].input = pair.bad /\ log[i].outcome = pair.expect
        /\ log[log[i].control].input = pair.good
        /\ log[log[i].control].outcome = "accepted"
  BY <1>2, <1>3 DEF PairIn, TrialsIn
<1>5. /\ IsFiniteSet(Completed) /\ Cardinality(Completed) \in Nat
      /\ Cardinality(Completed) <= Cardinality(FullIn(log, pair, Len(log)))
  <2>1. log \in Logs
    BY LogOK
  <2> QED  BY <1>3, <1>4, <2>1, TrialsAreFull
<1>6. Cardinality(Completed) >= conf.trials /\ conf.trials \in Nat \ {0}
  BY <1>1, ConfIs DEF Completed, TrialsMade
<1>7. Completed # {}
  BY <1>5, <1>6, FS_EmptySet
<1>8. Cardinality(FullIn(log, pair, Len(log))) \in Nat
  BY LogOK, FullGrows
<1> QED  BY <1>1, <1>2, <1>3, <1>4, <1>5, <1>6, <1>7, <1>8

\* What the observations of a pair may newly accept was acceptable before.
LEMMA PairAccepts ==
  ASSUME TypeOK, Parts, Conclude, NEW x \in Acc(EvidenceIn(log, obs'))
  PROVE  \/ x \in Acc(EvidenceIn(log, obs))
         \/ x \in Requests /\ N!CanAccept(EvidenceIn(log, obs), x)
<1>1. PICK i \in obs' : log[i].input = x /\ log[i].outcome = "accepted"
  BY Reading DEF ToldIn
<1>2. /\ obs' = IF Head(todo).kind = "repair" THEN obs ELSE obs \cup Matching
      /\ pair \in Pairs
      /\ PairIn(log, obs, pair, 0, Head(todo))
      /\ \A j \in Completed :
            /\ log[j].input = pair.bad /\ log[j].outcome = pair.expect
            /\ log[log[j].control].input = pair.good
  BY Concluded, PairShown, PartsAre DEF Session
<1>3. CASE i \in obs
  BY <1>1, <1>3, Reading DEF ToldIn
<1>4. CASE i \notin obs
  <2>1. i \in Matching
    BY <1>2, <1>4
  <2>2. x = pair.good \/ (x = pair.bad /\ pair.expect = "accepted")
    BY <1>1, <1>2, <2>1 DEF Matching
  <2>3. CASE Head(todo).kind = "rule"
    <3>1. x = pair.good /\ N!CanAccept(EvidenceIn(log, obs), pair.good)
      BY <1>2, <2>2, <2>3 DEF PairIn
    <3> QED  BY <1>2, <3>1 DEF Pairs
  <2>4. CASE Head(todo).kind # "rule"
    <3>1. ToldIn(log, obs, x, "accepted")
      BY <1>2, <2>2, <2>4 DEF PairIn
    <3> QED  BY <3>1, Reading
  <2> QED  BY <2>3, <2>4
<1> QED  BY <1>3, <1>4

LEMMA SessionConclude ==
  ASSUME TypeOK, Parts, Conclude
  PROVE  Session'
<1>1. /\ control = 0 /\ stage = "confirm" /\ todo # <<>> /\ visit = None
      /\ UNCHANGED <<log, used>>
      /\ UNCHANGED <<stage, conf, base, seen, visit, control, blocked, cover>>
      /\ obs' = IF Head(todo).kind = "repair" THEN obs ELSE obs \cup Matching
      /\ pair' = None
  BY Concluded, PartsAre DEF Session
<1>2. PICK status \in {"supported", "hypothesis"} :
        rules' = rules \cup
            {[claim |-> Head(todo), pair |-> pair, status |-> status]}
  BY Concluded, PartsAre DEF Session
<1>3. /\ pair \in Pairs /\ pair # None
      /\ PairIn(log, obs, pair, 0, Head(todo))
      /\ Completed # {}
      /\ \A i \in Completed :
            /\ log[i].input = pair.bad /\ log[i].outcome = pair.expect
            /\ log[log[i].control].input = pair.good
            /\ log[log[i].control].outcome = "accepted"
      /\ Cardinality(FullIn(log, pair, Len(log))) >= conf.trials
  BY PairShown
<1>4. log \in Logs /\ Extends(log, log) /\ obs \subseteq 1 .. Len(log)
      /\ obs \subseteq obs' /\ DOMAIN log = 1 .. Len(log) /\ Len(log) \in Nat
  BY <1>1, LogOK, IdleLog, Grown
<1>5. /\ \A x, y : ToldIn(log, obs, x, y) => ToldIn(log, obs', x, y)
      /\ Acc(EvidenceIn(log, obs)) \subseteq Acc(EvidenceIn(log, obs'))
      /\ Rej(EvidenceIn(log, obs)) \subseteq Rej(EvidenceIn(log, obs'))
      /\ N!Consistent(EvidenceIn(log, obs')) => N!Consistent(EvidenceIn(log, obs))
  BY <1>4, Grows
<1>6. ShapeParts'
  <2>1. ToldIn(log', obs', base', "accepted")
    BY <1>1, <1>5 DEF Parts, ShapeParts
  <2> QED  BY <1>1, <2>1 DEF ShapeParts
<1>7. HeardParts'
  <2>1. \A i \in 1 .. Len(log) : HeardAt(log, obs, pair, i)
    BY <1>1, <1>4 DEF Parts, HeardParts
  <2>2. /\ ToldIn(log, obs', pair.good, "accepted")
        /\ pair.expect = "input-rejected" =>
              ToldIn(log, obs', pair.bad, "input-rejected")
    <3>1. CASE Head(todo).kind = "repair"
      BY <1>3, <1>5, <3>1 DEF PairIn
    <3>2. CASE Head(todo).kind # "repair"
      <4>1. PICK i \in Completed : TRUE
        BY <1>3
      <4>2. i \in obs' /\ log[i].control \in obs'
        BY <1>1, <3>2 DEF Matching
      <4> QED  BY <1>3, <4>2 DEF ToldIn
    <3> QED  BY <3>1, <3>2
  <2>3. \A i \in 1 .. Len(log) : i > Len(log) => HeardAt(log, obs', None, i)
    BY <1>4
  <2>4. \A i \in DOMAIN log : HeardAt(log, obs', None, i)
    BY <1>4, <2>1, <2>2, <2>3, HeardGrows
  <2> QED  BY <1>1, <2>4 DEF HeardParts
<1>8. Seen'
  BY <1>1, <1>4 DEF Parts, Seen
<1>9. RulesParts'
  <2>1. RulesIn(log, obs', rules, conf.trials)
    <3>1. conf.trials \in Nat
      BY <1>1, ConfIs
    <3>2. RulesIn(log, obs, rules, conf.trials)
      BY DEF Parts, RulesParts
    <3> QED  BY <1>4, <3>1, <3>2, PairAccepts, RulesGrow
  <2>2. Head(todo).kind = "rule" =>
            /\ Matched(Head(todo).rule, pair.good, pair.bad)
            /\ N!EntailedBy(EvidenceIn(log, obs'), Head(todo).rule)
    <3> SUFFICES ASSUME Head(todo).kind = "rule"
        PROVE  /\ Matched(Head(todo).rule, pair.good, pair.bad)
               /\ N!EntailedBy(EvidenceIn(log, obs'), Head(todo).rule)
      OBVIOUS
    <3>1. /\ Matched(Head(todo).rule, pair.good, pair.bad)
          /\ N!EntailedBy(EvidenceIn(log, obs), Head(todo).rule)
      BY <1>3 DEF PairIn
    <3> QED  BY <1>5, <3>1, PairAccepts, EntailedStays
  <2>3. \A f \in Supported(rules') :
            f \in Supported(rules) \/ (f.claim = Head(todo) /\ f.pair = pair)
    BY <1>2 DEF Supported
  <2>4. RulesIn(log, obs', rules', conf.trials)
    <3> SUFFICES ASSUME NEW f \in Supported(rules')
        PROVE  /\ Cardinality(FullIn(log, f.pair, Len(log))) >= conf.trials
               /\ f.claim.kind = "rule" =>
                     /\ Matched(f.claim.rule, f.pair.good, f.pair.bad)
                     /\ N!EntailedBy(EvidenceIn(log, obs'), f.claim.rule)
      BY DEF RulesIn
    <3>1. CASE f \in Supported(rules)
      BY <2>1, <3>1 DEF RulesIn
    <3>2. CASE f.claim = Head(todo) /\ f.pair = pair
      BY <1>3, <2>2, <3>2
    <3> QED  BY <2>3, <3>1, <3>2
  <2> QED  BY <1>1, <2>4 DEF RulesParts
<1>10. CoversParts'
  <2>1. SettledIn(log, obs', seen, cover)
    <3>1. SettledIn(log, obs, seen, cover)
      BY <1>1 DEF Parts, CoversParts
    <3> QED  BY <1>4, <3>1, SettledGrows
  <2>2. OpenIn(log, obs', cover)
    <3>1. OpenIn(log, obs, cover)
      BY <1>1 DEF Parts, CoversParts
    <3>2. \A i \in obs' : i \in obs \/ log[i].outcome # "inconclusive"
      BY <1>1, CompletedIs
    <3> QED  BY <1>5, <3>1, <3>2 DEF OpenIn
  <2> QED  BY <1>1, <2>1, <2>2 DEF CoversParts
<1>11. PairParts' /\ Reserved'
  BY <1>1 DEF PairParts, Reserved
<1> QED  BY <1>6, <1>7, <1>8, <1>9, <1>10, <1>11, PartsAreNext DEF Parts

\* Every step keeps what a session knows.
LEMMA SessionSteps ==
  ASSUME TypeOK, Session, [Next]_vars
  PROVE  Session'
<1> Parts
  BY PartsAre
<1>1. CASE UNCHANGED vars
  BY <1>1, Unmoved DEF vars, session
<1>2. CASE Rest
  BY <1>2, Unmoved DEF Rest, vars, session
<1>3. CASE \E s \in Settings : Begin(s)
  BY <1>3, SessionBegin
<1>4. CASE NoBaseline
  BY <1>4, Ended DEF NoBaseline, Fail, Leave, Forget
<1>5. CASE Explore
  BY <1>5, SessionExplore
<1>6. CASE StopQuerying
  BY <1>6, SessionStopQuerying
<1>7. CASE Assess
  BY <1>7, SessionAssess
<1>8. CASE Minimised
  BY <1>8, SessionMinimised
<1>9. CASE Skip
  BY <1>9, SessionSkip
<1>10. CASE Hypothesise
  BY <1>10, SessionHypothesise
<1>11. CASE StartPair
  BY <1>11, SessionStartPair
<1>12. CASE Conclude
  BY <1>12, SessionConclude
<1>13. CASE Finish
  BY <1>13, Ended DEF Finish, Leave, Forget
<1>14. ASSUME NEW o \in Outcomes,
              \/ Recheck(o) \/ Baseline(o) \/ Control(o) \/ Probe(o)
              \/ ConfirmControl(o) \/ ConfirmTrial(o)
       PROVE  Session'
  BY <1>14, SessionRecheck, SessionBaseline, SessionControl, SessionProbe,
     SessionConfirmControl, SessionConfirmTrial
<1>15. ASSUME NEW x \in Requests, Query(x) \/ Minimise(x)
       PROVE  Session'
  BY <1>15, SessionQuery, SessionMinimise
<1>16. CASE OutOfBudget \/ ExperimentFails
  <2>1. log' = log /\ FailUnlessMinimising /\ stage # "off"
    BY <1>16 DEF OutOfBudget, ExperimentFails, Due, Parts, ShapeParts
  <2> QED  BY <2>1, SessionFails
<1>17. CASE Crash
  BY <1>17, Ended DEF Crash, Forget
<1>18. ASSUME NEW x \in Requests, Drift(x)
       PROVE  Session'
  BY <1>18, Unmoved DEF Drift
<1> QED
  BY <1>1, <1>2, <1>3, <1>4, <1>5, <1>6, <1>7, <1>8, <1>9, <1>10, <1>11, <1>12,
     <1>13, <1>14, <1>15, <1>16, <1>17, <1>18 DEF Next, SessionStep

-------------------------------------------------------------------------------
(* What is reported *)

\* No journaled acceptance violates a rule a session has confirmed.
LEMMA NoneViolates ==
  ASSUME TypeOK, Parts, stage # "off", NEW f \in Supported(rules),
         f.claim.kind = "rule",
         NEW i \in DOMAIN log, log[i].outcome = "accepted"
  PROVE  log[i].input \in Sat[f.claim.rule]
<1>1. N!EntailedBy(EvidenceIn(log, obs), f.claim.rule)
  BY DEF Parts, RulesParts, RulesIn
<1>2. HeardAt(log, obs, pair, i)
  BY DEF Parts, HeardParts
<1>3. CASE ToldIn(log, obs, log[i].input, "accepted")
  <2>1. log[i].input \in Acc(EvidenceIn(log, obs))
    BY <1>3, Reading
  <2> QED  BY <1>1, <2>1, EntailedSurvives
<1>4. CASE pair # None /\ log[i].input = pair.good
  <2>1. PairIn(log, obs, pair, control, Head(todo))
    BY <1>4 DEF Parts, PairParts
  <2>2. CASE Head(todo).kind = "rule"
    <3>1. N!CanAccept(EvidenceIn(log, obs), pair.good)
      BY <2>1, <2>2 DEF PairIn
    <3>2. pair.good \in Requests
      BY <1>4 DEF TypeOK, Pairs
    <3> QED  BY <1>1, <1>4, <3>1, <3>2, EntailedHolds
  <2>3. CASE Head(todo).kind # "rule"
    <3>1. ToldIn(log, obs, pair.good, "accepted")
      BY <2>1, <2>3 DEF PairIn
    <3>2. pair.good \in Acc(EvidenceIn(log, obs))
      BY <3>1, Reading
    <3> QED  BY <1>1, <1>4, <3>2, EntailedSurvives
  <2> QED  BY <2>2, <2>3
<1> QED  BY <1>2, <1>3, <1>4 DEF HeardAt

\* A report that a session was cut short with.
LEMMA ReportOfFailure ==
  ASSUME TypeOK, Parts, stage # "off", Fail, log' \in Logs, Extends(log, log'),
         \/ Len(log') = Len(log)
         \/ /\ Len(log') = Len(log) + 1
            /\ \/ log'[Len(log')].outcome # "accepted"
               \/ log'[Len(log')].phase = "validation"
  PROVE  ReportIn(log', report')
<1> DEFINE kept == {f \in rules : f.claim.kind # "repair"}
<1> DEFINE r == [state |-> "partial", finished |-> FALSE,
                 converged |-> cover.converged, rules |-> kept,
                 trials |-> conf.trials, at |-> Len(log')]
<1>1. report' = r
  BY DEF Fail, Leave
<1>2. /\ r.state = "partial" /\ r.finished = FALSE /\ r.rules = kept
      /\ r.trials = conf.trials /\ r.at = Len(log')
  OBVIOUS
<1> HIDE DEF r
<1>0. kept \subseteq rules
  OBVIOUS
<1>3. CompleteIn(log', r)
  BY <1>2 DEF CompleteIn
<1>4. /\ log \in Logs /\ obs \subseteq 1 .. Len(log) /\ Len(log) \in Nat
      /\ DOMAIN log = 1 .. Len(log) /\ \A i \in 1 .. Len(log) : log'[i] = log[i]
      /\ \A i \in obs : log'[i] = log[i]
      /\ conf.trials \in Nat
  BY LogOK, Grown, ConfIs DEF Extends
<1>5. RulesIn(log', obs, rules, conf.trials)
  <2>1. EvidenceIn(log', obs) = EvidenceIn(log, obs)
    BY <1>4 DEF EvidenceIn
  <2>2. RulesIn(log, obs, rules, conf.trials)
    BY DEF Parts, RulesParts
  <2> QED  BY <1>4, <2>1, <2>2, RulesGrow
<1>6. SupportedIn(log', r)
  BY <1>0, <1>2, <1>5 DEF RulesIn, SupportedIn, Supported
<1>7. UncontradictedIn(log', r)
  <2> SUFFICES ASSUME NEW f \in Supported(rules), f.claim.kind = "rule",
                      NEW i \in 1 .. Len(log'), log'[i].outcome = "accepted"
      PROVE  \/ log'[i].input \in Sat[f.claim.rule]
             \/ i = Len(log') /\ log'[i].phase = "validation"
    BY <1>0, <1>2 DEF UncontradictedIn, Supported
  <2>1. CASE i \in 1 .. Len(log)
    BY <1>4, <2>1, NoneViolates
  <2>2. CASE i \notin 1 .. Len(log)
    BY <1>4, <2>2
  <2> QED  BY <2>1, <2>2
<1> QED  BY <1>1, <1>3, <1>6, <1>7 DEF ReportIn

\* What a session that ends as it should has earned.
LEMMA Earned ==
  ASSUME TypeOK, Parts, stage = "confirm", pair = None,
         ~Outside(obs), ~cover.gap, ~cover.paused
  PROVE  /\ \A x \in Planned : \E i \in 1 .. Len(log) :
               log[i].input = x /\ log[i].outcome # "inconclusive"
         /\ N!Consistent(EvidenceIn(log, 1 .. Len(log)))
         /\ Active => \A x \in Requests :
               N!Agreed(EvidenceIn(log, 1 .. Len(log)), x)
<1> DEFINE E == EvidenceIn(log, obs)
<1> DEFINE F == EvidenceIn(log, 1 .. Len(log))
<1>1. /\ log \in Logs /\ Extends(log, log) /\ obs \subseteq 1 .. Len(log)
      /\ DOMAIN log = 1 .. Len(log) /\ Len(log) \in Nat
  BY LogOK DEF TypeOK, Extends
<1>2. N!Consistent(E)
  BY EvidenceIs
<1>3. /\ \A i \in obs : log[i].outcome # "inconclusive"
      /\ Planned \subseteq seen
      /\ Active => \A x \in Requests : x \in seen \/ N!Agreed(E, x)
  BY <1>2 DEF Parts, CoversParts, OpenIn, SettledIn
<1>4. \A x \in seen : \E i \in obs : log[i].input = x
  BY DEF Parts, Seen
<1>5. \A i \in 1 .. Len(log) :
        /\ log[i].outcome = "accepted" => ToldIn(log, obs, log[i].input, "accepted")
        /\ log[i].outcome = "input-rejected" =>
              ToldIn(log, obs, log[i].input, "input-rejected")
  BY <1>1, <1>2 DEF Parts, HeardParts, HeardAt
<1>6. Acc(F) \subseteq Acc(E) /\ Rej(F) \subseteq Rej(E)
  <2>1. \A x : ToldIn(log, 1 .. Len(log), x, "accepted") => ToldIn(log, obs, x, "accepted")
    BY <1>5 DEF ToldIn
  <2>2. \A x : ToldIn(log, 1 .. Len(log), x, "input-rejected")
                  => ToldIn(log, obs, x, "input-rejected")
    BY <1>5 DEF ToldIn
  <2> QED  BY <2>1, <2>2, Reading
<1>7. N!Consistent(F)
  BY <1>2, <1>6, Narrows
<1>8. \A x : N!Agreed(E, x) => N!Agreed(F, x)
  BY <1>1, Grows
<1>9. \A x \in seen : N!Agreed(E, x)
  <2> SUFFICES ASSUME NEW x \in seen PROVE N!Agreed(E, x)
    OBVIOUS
  <2>1. PICK i \in obs : log[i].input = x
    BY <1>4
  <2>2. log[i].outcome \in {"accepted", "input-rejected"}
    BY <1>1, <1>3, LogIs DEF Outcomes
  <2>3. x \in Acc(E) \cup Rej(E)
    BY <2>1, <2>2, Reading DEF ToldIn
  <2> QED  BY <2>3, ClassifiedAgreed
<1> HIDE DEF E, F
<1>10. \A x \in Planned : \E i \in 1 .. Len(log) :
          log[i].input = x /\ log[i].outcome # "inconclusive"
  BY <1>1, <1>3, <1>4
<1> QED  BY <1>3, <1>7, <1>8, <1>9, <1>10 DEF F

LEMMA ReportOfFinish ==
  ASSUME TypeOK, Parts, Finish
  PROVE  ReportIn(log', report')
<1> DEFINE found == {Settled(f) : f \in rules}
<1> DEFINE state == IF Outside(obs) \/ cover.gap \/ cover.paused THEN "partial" ELSE "complete"
<1> DEFINE conv == cover.converged /\ ~Outside(obs)
<1> DEFINE r == [state |-> state, finished |-> TRUE, converged |-> conv,
                 rules |-> found, trials |-> conf.trials, at |-> Len(log')]
<1>1. stage = "confirm" /\ pair = None /\ log' = log
  BY DEF Finish, Confirming
<1>2. report' = r
  BY DEF Finish, Leave
<1> HIDE DEF state, conv, found
<1>3. /\ r.state = state /\ r.rules = found /\ r.trials = conf.trials
      /\ r.at = Len(log)
  BY <1>1
<1> HIDE DEF r
<1>4. CompleteIn(log, r)
  <2> SUFFICES ASSUME state = "complete"
      PROVE  /\ \A x \in Planned : \E i \in 1 .. Len(log) :
                   log[i].input = x /\ log[i].outcome # "inconclusive"
             /\ N!Consistent(EvidenceIn(log, 1 .. Len(log)))
             /\ Active => \A x \in Requests :
                   N!Agreed(EvidenceIn(log, 1 .. Len(log)), x)
    BY <1>3 DEF CompleteIn
  <2>1. ~Outside(obs) /\ ~cover.gap /\ ~cover.paused
    BY DEF state
  <2> QED  BY <1>1, <2>1, Earned
<1>5. Supported(found) \subseteq Supported(rules)
  <2> SUFFICES ASSUME NEW f \in rules, Settled(f).status = "supported"
      PROVE  Settled(f) \in Supported(rules)
    BY DEF Supported, found
  <2>1. f \in Findings
    BY DEF TypeOK
  <2>2. [f EXCEPT !.status = "counterexample"].status = "counterexample"
    BY <2>1 DEF Findings
  <2>3. Settled(f) = f
    BY <2>2 DEF Settled
  <2> QED  BY <2>3 DEF Supported
<1>6. SupportedIn(log, r)
  BY <1>3, <1>5 DEF Parts, RulesParts, RulesIn, SupportedIn
<1>7. UncontradictedIn(log, r)
  <2> SUFFICES ASSUME NEW f \in Supported(rules), f.claim.kind = "rule",
                      NEW i \in 1 .. Len(log), log[i].outcome = "accepted"
      PROVE  log[i].input \in Sat[f.claim.rule]
    BY <1>3, <1>5 DEF UncontradictedIn
  <2>1. i \in DOMAIN log
    BY LogOK
  <2> QED  BY <1>1, <2>1, NoneViolates
<1> QED  BY <1>1, <1>2, <1>4, <1>6, <1>7 DEF ReportIn

\* A report that is not replaced.
LEMMA ReportKept ==
  ASSUME TypeOK, ReportIn(log, report), report' = report,
         log' \in Logs, Extends(log, log')
  PROVE  ReportIn(log', report')
<1>1. log \in Logs /\ report \in Analyses \cup {None}
      /\ (report # None => report.at <= Len(log))
  BY LogOK DEF TypeOK
<1> QED  BY <1>1, ReportStays

\* An experiment ends the session with a report, or leaves the last one.
LEMMA ReportOfExperiment ==
  ASSUME TypeOK, Parts, ReportIn(log, report), NEW o \in Outcomes,
         \/ Recheck(o) \/ Baseline(o) \/ Control(o) \/ Probe(o)
         \/ ConfirmControl(o) \/ ConfirmTrial(o)
  PROVE  ReportIn(log', report')
<1> USE DEF Phases
<1>1. 0 \in 0 .. Len(log) /\ control \in 0 .. Len(log)
  BY LogOK DEF TypeOK
<1>2. CASE Recheck(o)
  <2>1. Experiment("resume-control", base, 0, o) /\ base \in Requests /\ stage # "off"
    BY <1>2, BaseIs DEF Recheck
  <2>2. /\ log' \in Logs /\ Extends(log, log') /\ Len(log') = Len(log) + 1
        /\ log'[Len(log')].outcome = o
    BY <1>1, <2>1, Sent
  <2>3. report' = report \/ (Fail /\ o # "accepted")
    BY <1>2 DEF Recheck, StartExploring
  <2> QED  BY <2>1, <2>2, <2>3, ReportOfFailure, ReportKept
<1>3. CASE Baseline(o)
  <2>1. /\ Experiment("baseline", Head(todo), 0, o) /\ Head(todo) \in Requests
        /\ stage # "off"
    BY <1>3 DEF Baseline, TypeOK, TodoOK
  <2>2. /\ log' \in Logs /\ Extends(log, log') /\ Len(log') = Len(log) + 1
        /\ log'[Len(log')].outcome = o
    BY <1>1, <2>1, Sent
  <2>3. report' = report \/ (Fail /\ o # "accepted")
    <3>1. CASE o = "accepted"
      BY <1>3, <3>1 DEF Baseline, StartExploring
    <3>2. CASE o = "input-rejected"
      BY <1>3, <3>2 DEF Baseline
    <3>3. CASE o = "inconclusive"
      BY <1>3, <3>3 DEF Baseline
    <3> QED  BY <3>1, <3>2, <3>3 DEF Outcomes
  <2> QED  BY <2>1, <2>2, <2>3, ReportOfFailure, ReportKept
<1>4. CASE Control(o)
  <2>1. Experiment("control", base, 0, o) /\ base \in Requests /\ stage # "off"
    BY <1>4, BaseIs DEF Control, Parts, ShapeParts
  <2>2. /\ log' \in Logs /\ Extends(log, log') /\ Len(log') = Len(log) + 1
        /\ log'[Len(log')].outcome = o
    BY <1>1, <2>1, Sent
  <2>3. report' = report \/ (Fail /\ o # "accepted")
    BY <1>4 DEF Control, FailUnlessMinimising, Visiting
  <2> QED  BY <2>1, <2>2, <2>3, ReportOfFailure, ReportKept
<1>5. CASE Probe(o)
  <2>1. Experiment("probe", visit, control, o) /\ visit \in Requests /\ stage # "off"
    BY <1>5 DEF Probe, Parts, ShapeParts, TypeOK
  <2>2. /\ log' \in Logs /\ Extends(log, log') /\ Len(log') = Len(log) + 1
        /\ log'[Len(log')].outcome = o
    BY <1>1, <2>1, Sent
  <2>3. report' = report \/ (Fail /\ o # "accepted")
    BY <1>5 DEF Probe, Visiting
  <2> QED  BY <2>1, <2>2, <2>3, ReportOfFailure, ReportKept
<1>6. CASE ConfirmControl(o)
  <2>1. /\ Experiment("validation-control", pair.good, 0, o)
        /\ pair.good \in Requests /\ stage # "off"
    BY <1>6 DEF ConfirmControl, Parts, ShapeParts, TypeOK, Pairs
  <2>2. /\ log' \in Logs /\ Extends(log, log') /\ Len(log') = Len(log) + 1
        /\ log'[Len(log')].outcome = o
    BY <1>1, <2>1, Sent
  <2>3. report' = report \/ (Fail /\ o # "accepted")
    BY <1>6 DEF ConfirmControl
  <2> QED  BY <2>1, <2>2, <2>3, ReportOfFailure, ReportKept
<1>7. CASE ConfirmTrial(o)
  <2>1. /\ Experiment("validation", pair.bad, control, o)
        /\ pair.bad \in Requests /\ stage # "off"
    BY <1>7 DEF ConfirmTrial, Parts, ShapeParts, TypeOK, Pairs
  <2>2. /\ log' \in Logs /\ Extends(log, log') /\ Len(log') = Len(log) + 1
        /\ log'[Len(log')].phase = "validation"
    BY <1>1, <2>1, Sent
  <2>3. report' = report \/ Fail
    BY <1>7 DEF ConfirmTrial
  <2> QED  BY <2>1, <2>2, <2>3, ReportOfFailure, ReportKept
<1> QED  BY <1>2, <1>3, <1>4, <1>5, <1>6, <1>7

LEMMA ReportSteps ==
  ASSUME TypeOK, Session, ReportIn(log, report), [Next]_vars
  PROVE  ReportIn(log', report')
<1> Parts
  BY PartsAre
<1>1. ASSUME log' = log, report' = report \/ (stage # "off" /\ Fail)
      PROVE  ReportIn(log', report')
  <2>1. log' \in Logs /\ Extends(log, log') /\ Len(log') = Len(log)
    BY <1>1, IdleLog
  <2> QED  BY <1>1, <2>1, ReportKept, ReportOfFailure
<1>2. CASE UNCHANGED vars \/ Rest \/ Crash \/ \E s \in Settings : Begin(s)
  BY <1>1, <1>2 DEF Rest, vars, Crash, Begin
<1>3. CASE Explore \/ StopQuerying \/ Assess \/ Minimised \/ Skip \/ Hypothesise
  BY <1>1, <1>3
     DEF Explore, StopQuerying, Assess, Minimised, Skip, Hypothesise, Idle
<1>4. CASE NoBaseline
  BY <1>1, <1>4 DEF NoBaseline
<1>5. CASE StartPair
  <2>1. log' = log /\ stage # "off"
    BY <1>5 DEF StartPair, Confirming
  <2>2. Fail \/ report' = report
    BY <1>5 DEF StartPair
  <2> QED  BY <1>1, <2>1, <2>2
<1>6. CASE Conclude
  BY <1>1, <1>6, Concluded DEF Session
<1>7. CASE Finish
  BY <1>7, ReportOfFinish
<1>8. ASSUME NEW o \in Outcomes,
             \/ Recheck(o) \/ Baseline(o) \/ Control(o) \/ Probe(o)
             \/ ConfirmControl(o) \/ ConfirmTrial(o)
      PROVE  ReportIn(log', report')
  BY <1>8, ReportOfExperiment
<1>9. ASSUME NEW x \in Requests, Query(x) \/ Minimise(x) \/ Drift(x)
      PROVE  ReportIn(log', report')
  BY <1>1, <1>9 DEF Query, Minimise, Drift, Idle
<1>10. CASE OutOfBudget \/ ExperimentFails
  <2>1. log' = log /\ stage # "off"
    BY <1>10 DEF OutOfBudget, ExperimentFails, Due, Parts, ShapeParts
  <2>2. report' = report \/ Fail
    BY <1>10 DEF OutOfBudget, ExperimentFails, FailUnlessMinimising
  <2> QED  BY <1>1, <2>1, <2>2
<1> QED
  BY <1>2, <1>3, <1>4, <1>5, <1>6, <1>7, <1>8, <1>9, <1>10 DEF Next, SessionStep

-------------------------------------------------------------------------------
(* The invariant *)

LEMMA IInvIs == IInv <=> TypeOK /\ Session /\ ReportIn(log, report)
  BY ReportIs DEF IInv, ReportIn

LEMMA IInvIsNext == (IInv <=> TypeOK /\ Session /\ ReportIn(log, report))'
  BY IInvIs, PTL

LEMMA InvInit == Init => IInv
<1> SUFFICES ASSUME Init PROVE IInv
  OBVIOUS
<1>1. /\ log = <<>> /\ report = None /\ used = 0 /\ api \in APIs
      /\ stage = "off" /\ conf = None /\ base = None /\ obs = {} /\ seen = {}
      /\ todo = <<>> /\ visit = None /\ control = 0 /\ blocked = {}
      /\ pair = None /\ rules = {} /\ cover = NoCover
  BY DEF Init
<1>2. Len(log) = 0 /\ DOMAIN log = {} /\ log \in Seq(Entries)
  BY <1>1
<1>3. TypeOK
  BY <1>1, <1>2, APIsAssumption DEF TypeOK, TodoOK, Stages, NoCover, Flags
<1>4. Parts
  BY <1>1 DEF Parts, ShapeParts, HeardParts, Seen, PairParts, RulesParts, RulesIn,
              Supported, CoversParts, Reserved
<1>5. ReportIn(log, report)
  BY <1>1 DEF ReportIn, CompleteIn, SupportedIn, UncontradictedIn
<1> QED  BY <1>3, <1>4, <1>5, PartsAre, IInvIs

LEMMA InvStep == IInv /\ [Next]_vars => IInv'
<1> SUFFICES ASSUME IInv, [Next]_vars PROVE IInv'
  OBVIOUS
<1>1. TypeOK /\ Session /\ ReportIn(log, report)
  BY IInvIs
<1>2. TypeOK'
  BY <1>1, TypeStep DEF Session
<1>3. Session'
  BY <1>1, SessionSteps
<1>4. ReportIn(log, report)'
  BY <1>1, ReportSteps
<1> QED  BY <1>2, <1>3, <1>4, IInvIsNext

-------------------------------------------------------------------------------
(* What follows *)

\* Of any fields, values, candidate rules, budgets and sessions, and of an API
\* that answers as it likes: what a session knows of the journal
\* (inspectOperation), the shape of its state, and what is promised of the
\* analysis it reported.
THEOREM InspectionInvariant == Spec => []IInv
<1>1. Init => IInv
  BY InvInit
<1>2. IInv /\ [Next]_vars => IInv'
  BY InvStep
<1> QED  BY <1>1, <1>2, PTL DEF Spec

\* A state is of its type, and a rule reported as supported was confirmed by
\* as many complete matched trials as the session was configured with
\* (confirmPair).
THEOREM SupportIsConfirmed == Spec => []Inv
<1>1. IInv => Inv
  BY DEF IInv
<1> QED  BY <1>1, InspectionInvariant, PTL

\* An analysis is reported as complete only after every planned request was
\* classified, when the language explains all that was journaled and, under
\* the active strategy, nothing is left to ask (run.go's completeness).
THEOREM CompletionIsEarned == Spec => []CompleteIsEarned
<1>1. IInv => CompleteIsEarned
  BY DEF IInv
<1> QED  BY <1>1, InspectionInvariant, PTL

\* A rule reported as supported is violated by no accepted request, of this
\* session or an earlier one, but for the trial that cut the session short.
THEOREM NoneContradicted == Spec => []NoCounterexample
<1>1. IInv => NoCounterexample
  BY DEF IInv
<1> QED  BY <1>1, InspectionInvariant, PTL

\* The steps that send.
LEMMA Sending ==
  ASSUME [Next]_vars, log' # log
  PROVE  \E o \in Outcomes :
            \/ Recheck(o) \/ Baseline(o) \/ Control(o) \/ Probe(o)
            \/ ConfirmControl(o) \/ ConfirmTrial(o)
  BY DEF Next, SessionStep, Begin, NoBaseline, Explore, StopQuerying, Assess,
         Minimised, Skip, Hypothesise, StartPair, Conclude, Finish, OutOfBudget,
         ExperimentFails, Crash, Drift, Query, Minimise, Rest, Idle, vars

\* A request the journal has classified is not probed again, in no session
\* (visitInput's seen, filled from the journal).
THEOREM ProbesOnce == Spec => ProbedOnce
<1> DEFINE P == (log' # log /\ log'[Len(log')].phase = "probe")
                  => ~\E i \in DOMAIN log :
                        /\ log[i].outcome # "inconclusive"
                        /\ log[i].input = log'[Len(log')].input
<1>1. IInv /\ [Next]_vars => P
  <2> SUFFICES ASSUME IInv, [Next]_vars, log' # log,
                      log'[Len(log')].phase = "probe",
                      NEW i \in DOMAIN log, log[i].outcome # "inconclusive"
      PROVE  log[i].input # log'[Len(log')].input
    OBVIOUS
  <2>1. PICK o \in Outcomes :
          \/ Recheck(o) \/ Baseline(o) \/ Control(o) \/ Probe(o)
          \/ ConfirmControl(o) \/ ConfirmTrial(o)
    BY Sending
  <2>2. TypeOK /\ Parts
    BY IInvIs, PartsAre
  <2>3. Probe(o)
    <3> USE DEF Phases
    <3>1. 0 \in 0 .. Len(log) /\ control \in 0 .. Len(log)
      BY <2>2, LogOK DEF TypeOK
    <3>2. ~Recheck(o)
      <4> SUFFICES ASSUME Recheck(o) PROVE FALSE
        OBVIOUS
      <4>1. Experiment("resume-control", base, 0, o) /\ base \in Requests
        BY <2>2, BaseIs DEF Recheck
      <4>2. log'[Len(log')].phase = "resume-control"
        BY <2>2, <3>1, <4>1, Sent
      <4> QED  BY <4>2
    <3>3. ~Baseline(o)
      <4> SUFFICES ASSUME Baseline(o) PROVE FALSE
        OBVIOUS
      <4>1. Experiment("baseline", Head(todo), 0, o) /\ Head(todo) \in Requests
        BY <2>2 DEF Baseline, TypeOK, TodoOK
      <4>2. log'[Len(log')].phase = "baseline"
        BY <2>2, <3>1, <4>1, Sent
      <4> QED  BY <4>2
    <3>4. ~Control(o)
      <4> SUFFICES ASSUME Control(o) PROVE FALSE
        OBVIOUS
      <4>1. Experiment("control", base, 0, o) /\ base \in Requests
        BY <2>2, BaseIs DEF Control, Parts, ShapeParts
      <4>2. log'[Len(log')].phase = "control"
        BY <2>2, <3>1, <4>1, Sent
      <4> QED  BY <4>2
    <3>5. ~ConfirmControl(o)
      <4> SUFFICES ASSUME ConfirmControl(o) PROVE FALSE
        OBVIOUS
      <4>1. Experiment("validation-control", pair.good, 0, o) /\ pair.good \in Requests
        BY <2>2 DEF ConfirmControl, TypeOK, Pairs
      <4>2. log'[Len(log')].phase = "validation-control"
        BY <2>2, <3>1, <4>1, Sent
      <4> QED  BY <4>2
    <3>6. ~ConfirmTrial(o)
      <4> SUFFICES ASSUME ConfirmTrial(o) PROVE FALSE
        OBVIOUS
      <4>1. Experiment("validation", pair.bad, control, o) /\ pair.bad \in Requests
        BY <2>2 DEF ConfirmTrial, TypeOK, Pairs
      <4>2. log'[Len(log')].phase = "validation"
        BY <2>2, <3>1, <4>1, Sent
      <4> QED  BY <4>2
    <3> QED  BY <2>1, <3>2, <3>3, <3>4, <3>5, <3>6
  <2>4. /\ visit # None /\ visit \in Requests /\ control \in 0 .. Len(log)
        /\ stage \notin {"off", "confirm"}
    BY <2>2, <2>3 DEF Probe, Parts, ShapeParts, TypeOK
  <2>5. log'[Len(log')].input = visit
    <3>1. Experiment("probe", visit, control, o)
      BY <2>3 DEF Probe
    <3> QED  BY <2>2, <2>4, <3>1, Sent DEF Phases
  <2>6. log[i].input \in seen /\ visit \notin seen
    BY <2>2, <2>4 DEF Parts, Seen
  <2> QED  BY <2>5, <2>6
<1> HIDE DEF P
<1>2. IInv /\ [Next]_vars => [P]_vars
  BY <1>1
<1>3. [][P]_vars => ProbedOnce
  BY PTL DEF P, ProbedOnce
<1> QED  BY <1>2, <1>3, InspectionInvariant, PTL DEF Spec

\* Exploration leaves the reserve to confirmation (explorationBudget), but for
\* what its last two experiments cost above their estimate.
THEOREM ReserveIsKept == Spec => ReserveKept
<1> DEFINE P == (visit # None /\ visit' = None /\ log' # log /\ conf.budget > 0)
                  => conf.budget - used' >= ReserveOf(conf) - 2 * Extra
<1>1. IInv /\ [Next]_vars => P
  <2> SUFFICES ASSUME IInv, [Next]_vars, visit # None, log' # log, conf.budget > 0
      PROVE  conf.budget - used' >= ReserveOf(conf) - 2 * Extra
    OBVIOUS
  <2>1. TypeOK /\ Parts
    BY IInvIs, PartsAre
  <2>2. /\ stage \in {"explore", "query", "minimise"} /\ pair = None
        /\ visit \in Requests /\ control \in 0 .. Len(log) /\ 0 \in 0 .. Len(log)
    BY <2>1, LogOK DEF Parts, ShapeParts, TypeOK
  <2>3. PICK o \in Outcomes : Control(o) \/ Probe(o)
    BY <2>2, Sending DEF Recheck, Baseline, ConfirmControl, ConfirmTrial
  <2>4. PICK phase \in Phases, x \in Requests, c \in 0 .. Len(log) :
            Experiment(phase, x, c, o)
    <3>1. CASE Control(o)
      BY <2>1, <2>2, <3>1, BaseIs DEF Control, Phases
    <3>2. CASE Probe(o)
      BY <2>2, <3>2 DEF Probe, Phases
    <3> QED  BY <2>3, <3>1, <3>2
  <2>5. /\ used' = used + Cost \/ used' = used + Cost + Extra
        /\ used' \in Nat
        /\ conf \in Settings => (conf.budget = 0 \/ used' <= conf.budget)
    BY <2>1, <2>4, Experimented
  <2>6. used \in Int /\ conf.budget \in Nat /\ ReserveOf(conf) \in Int
        /\ conf \in Settings
    BY <2>1, <2>2, ReserveIs, ConfIs
  <2>7. CASE ConfirmationReserve >= 0
    <3>1. conf.budget - used >= ReserveOf(conf)
              + IF control = 0 THEN 2 * Cost ELSE Cost - Extra
      BY <2>1, <2>7 DEF Parts, Reserved
    <3> QED  BY <2>5, <2>6, <3>1, CostAssumption
  <2>8. CASE ConfirmationReserve < 0
    <3>1. ReserveOf(conf) = 0
      BY <2>8, CostAssumption DEF ReserveOf
    <3> QED  BY <2>5, <2>6, <3>1, CostAssumption
  <2> QED  BY <2>7, <2>8, CostAssumption
<1> HIDE DEF P
<1>2. IInv /\ [Next]_vars => [P]_vars
  BY <1>1
<1>3. [][P]_vars => ReserveKept
  BY PTL DEF P, ReserveKept
<1> QED  BY <1>2, <1>3, InspectionInvariant, PTL DEF Spec

-------------------------------------------------------------------------------
(* Sessions end *)

\* A step closer: in the stages to come, in what is left of the stage, or in
\* what is left of the experiment or pair under way.
LEMMA NextStage ==
  ASSUME StageRank(stage') < StageRank(stage)
  PROVE  Closer(Distance', Distance)
<1>1. Distance'[1] = StageRank(stage') /\ Distance[1] = StageRank(stage)
  BY DEF Distance
<1> HIDE DEF Distance
<1> QED  BY <1>1 DEF Closer

LEMMA LessOfStage ==
  ASSUME stage' = stage, LeftOfStage' < LeftOfStage
  PROVE  Closer(Distance', Distance)
<1>1. /\ Distance'[1] = StageRank(stage') /\ Distance[1] = StageRank(stage)
      /\ Distance'[2] = LeftOfStage' /\ Distance[2] = LeftOfStage
  BY DEF Distance
<1> HIDE DEF Distance
<1>2. \A j \in 1 .. 2 - 1 : j = 1
  OBVIOUS
<1> QED  BY <1>1, <1>2 DEF Closer

LEMMA LessUnderWay ==
  ASSUME stage' = stage, LeftOfStage' = LeftOfStage, UnderWay' < UnderWay
  PROVE  Closer(Distance', Distance)
<1>1. /\ Distance'[1] = StageRank(stage') /\ Distance[1] = StageRank(stage)
      /\ Distance'[2] = LeftOfStage' /\ Distance[2] = LeftOfStage
      /\ Distance'[3] = UnderWay' /\ Distance[3] = UnderWay
  BY DEF Distance
<1> HIDE DEF Distance
<1>2. \A j \in 1 .. 3 - 1 : j = 1 \/ j = 2
  OBVIOUS
<1> QED  BY <1>1, <1>2 DEF Closer

\* The end of a session is the last stage of all.
LEMMA OffIsNearest ==
  ASSUME TypeOK, stage # "off", stage' = "off"
  PROVE  Closer(Distance', Distance)
<1>1. StageRank(stage') = 0 /\ StageRank(stage) > 0
  BY DEF StageRank, TypeOK, Stages
<1> QED  BY <1>1, NextStage

\* A stage after this one.
LEMMA LaterStage ==
  ASSUME \/ stage \in {"recheck", "baseline"} /\ stage' = "explore"
         \/ stage = "explore" /\ stage' \in {"query", "assess"}
         \/ stage = "query" /\ stage' = "assess"
         \/ stage = "assess" /\ stage' \in {"minimise", "confirm"}
         \/ stage = "minimise" /\ stage' = "confirm"
  PROVE  Closer(Distance', Distance)
<1>1. StageRank(stage') < StageRank(stage)
  BY DEF StageRank
<1> QED  BY <1>1, NextStage

\* Errors end the session, or its minimisation.
LEMMA ErrorIsNearer ==
  ASSUME TypeOK, stage # "off", FailUnlessMinimising
  PROVE  Closer(Distance', Distance)
<1>1. CASE stage = "minimise"
  BY <1>1, LaterStage DEF FailUnlessMinimising
<1>2. CASE stage # "minimise"
  BY <1>2, OffIsNearest DEF FailUnlessMinimising, Fail, Leave, Forget
<1> QED  BY <1>1, <1>2

\* A list from a later place on, and one without its head, is shorter.
LEMMA Shorter ==
  ASSUME NEW S, NEW s \in Seq(S), s # <<>>
  PROVE  /\ Len(Tail(s)) < Len(s)
         /\ Len(<<>>) < Len(s)
         /\ \A i \in 2 .. Len(s) + 1 : Len(SubSeq(s, i, Len(s))) < Len(s)
<1>1. Len(s) \in Nat /\ Len(s) > 0
  OBVIOUS
<1>2. Len(Tail(s)) = Len(s) - 1
  BY <1>1
<1>3. ASSUME NEW i \in 2 .. Len(s) + 1
      PROVE  Len(SubSeq(s, i, Len(s))) = Len(s) - i + 1
  BY <1>1, <1>3
<1> QED  BY <1>1, <1>2, <1>3

\* With a request less, fewer are left.
LEMMA FewerLeft ==
  ASSUME IsFiniteSet(Requests), NEW A, NEW x \in Requests, x \notin A
  PROVE  Cardinality(Requests \ (A \cup {x})) < Cardinality(Requests \ A)
<1> DEFINE R == Requests \ A
<1>1. IsFiniteSet(R) /\ x \in R
  BY FS_Difference
<1>2. Requests \ (A \cup {x}) = R \ {x}
  OBVIOUS
<1>3. Cardinality(R \ {x}) = Cardinality(R) - 1 /\ Cardinality(R) \in Nat
  BY <1>1, FS_RemoveElement, FS_CardinalityType
<1> HIDE DEF R
<1>4. Cardinality(R \ {x}) < Cardinality(R)
  BY <1>3
<1> QED  BY <1>2, <1>4 DEF R

\* The trials of a pair are counted, a new one adds to them.
LEMMA TrialsCount ==
  ASSUME NEW l \in Logs, NEW m \in Logs, Extends(l, m), NEW g, NEW b
  PROVE  /\ Cardinality(TrialsIn(l, g, b)) \in Nat
         /\ Cardinality(TrialsIn(m, g, b)) \in Nat
         /\ Cardinality(TrialsIn(l, g, b)) <= Cardinality(TrialsIn(m, g, b))
         /\ (\E i \in TrialsIn(m, g, b) : i \notin 1 .. Len(l)) =>
               Cardinality(TrialsIn(l, g, b)) < Cardinality(TrialsIn(m, g, b))
<1> DEFINE S == TrialsIn(l, g, b)
<1> DEFINE T == TrialsIn(m, g, b)
<1>1. /\ DOMAIN l = 1 .. Len(l) /\ Len(l) \in Nat
      /\ DOMAIN m = 1 .. Len(m) /\ Len(m) \in Nat
  BY LogIs
<1>2. S \subseteq 1 .. Len(l) /\ T \subseteq 1 .. Len(m)
  BY <1>1 DEF TrialsIn, RetainedIn
<1>3. S \subseteq T
  BY TrialsGrow
<1> HIDE DEF S, T
<1>4. IsFiniteSet(S) /\ IsFiniteSet(T)
  <2>1. IsFiniteSet(1 .. Len(l)) /\ IsFiniteSet(1 .. Len(m))
    BY <1>1, FS_Interval
  <2> QED  BY <1>2, <2>1, FS_Subset
<1>5. /\ Cardinality(S) \in Nat /\ Cardinality(T) \in Nat
      /\ Cardinality(S) <= Cardinality(T)
      /\ Cardinality(S) = Cardinality(T) => S = T
  BY <1>3, <1>4, FS_Subset, FS_CardinalityType
<1>6. ASSUME NEW i \in T, i \notin 1 .. Len(l)
      PROVE  Cardinality(S) < Cardinality(T)
  BY <1>2, <1>5, <1>6
<1> QED  BY <1>5, <1>6 DEF S, T

\* A request left to a stage: where nothing changed what is left, and what is
\* left of a visit.
LEMMA VisitIsNearer ==
  ASSUME visit # None, control = 0, control' # 0,
         UNCHANGED <<stage, seen, todo, visit, blocked>>
  PROVE  Closer(Distance', Distance)
<1>1. LeftOfStage' = LeftOfStage
  BY DEF LeftOfStage
<1>2. UnderWay = 2 /\ UnderWay' = 1
  BY DEF UnderWay
<1> QED  BY <1>1, <1>2, LessUnderWay

LEMMA ControlIsNearer ==
  ASSUME TypeOK, Parts, NEW o \in Outcomes, Control(o)
  PROVE  Closer(Distance', Distance)
<1>1. visit # None /\ control = 0 /\ stage # "off" /\ visit \in Requests
  BY DEF Control, Parts, ShapeParts, TypeOK
<1>2. CASE o = "accepted"
  <2>1. control' = Len(log') /\ UNCHANGED <<stage, seen, todo, visit, blocked>>
    BY <1>2 DEF Control, Visiting
  <2>2. Len(log') = Len(log) + 1 /\ Len(log) \in Nat
    <3>1. Experiment("control", base, 0, o) /\ 0 \in 0 .. Len(log)
      BY LogOK DEF Control
    <3>2. base \in Requests
      BY <1>1, BaseIs DEF Parts, ShapeParts
    <3> QED  BY <3>1, <3>2, Sent, LogOK DEF Phases
  <2> QED  BY <1>1, <2>1, <2>2, VisitIsNearer
<1>3. CASE o # "accepted"
  BY <1>1, <1>3, ErrorIsNearer DEF Control
<1> QED  BY <1>2, <1>3

LEMMA ProbeIsNearer ==
  ASSUME TypeOK, Parts, NEW o \in Outcomes, Probe(o)
  PROVE  Closer(Distance', Distance)
<1>1. /\ visit # None /\ control # 0 /\ visit \in Requests /\ pair = None
      /\ stage \in {"explore", "query", "minimise"}
  BY DEF Probe, Parts, ShapeParts, TypeOK
<1>2. CASE stage = "explore" /\ visit \in Searched /\ o = "inconclusive"
  BY <1>1, <1>2, OffIsNearest DEF Probe, Fail, Leave, Forget
<1>3. CASE stage = "minimise" /\ o = "inconclusive"
  BY <1>3, LaterStage DEF Probe
<1>4. CASE /\ ~(stage = "explore" /\ visit \in Searched /\ o = "inconclusive")
           /\ ~(stage = "minimise" /\ o = "inconclusive")
  <2>1. /\ seen' = seen \cup {visit} /\ visit' = None
        /\ UNCHANGED <<stage, todo, blocked, pair>>
    BY <1>4 DEF Probe, Visiting
  <2>2. Requests \ (seen' \cup {visit'}) = Requests \ (seen \cup {visit})
    BY <2>1, NoneAssumption
  <2>3. LeftOfStage' = LeftOfStage
    BY <2>1, <2>2 DEF LeftOfStage
  <2>4. UnderWay = 1 /\ UnderWay' = 0
    BY <1>1, <2>1 DEF UnderWay
  <2> QED  BY <2>1, <2>3, <2>4, LessUnderWay
<1> QED  BY <1>2, <1>3, <1>4

LEMMA BaselineIsNearer ==
  ASSUME TypeOK, NEW o \in Outcomes, Recheck(o) \/ Baseline(o)
  PROVE  Closer(Distance', Distance)
<1>1. CASE Fail
  BY <1>1, OffIsNearest DEF Fail, Leave, Forget, Recheck, Baseline
<1>2. CASE StartExploring
  BY <1>2, LaterStage DEF StartExploring, Recheck, Baseline
<1>3. CASE ~Fail /\ ~StartExploring
  <2>1. /\ stage = "baseline" /\ todo # <<>> /\ stage' = stage /\ todo' = Tail(todo)
    BY <1>3 DEF Recheck, Baseline, Outcomes
  <2>2. todo \in Seq(Requests)
    BY <2>1 DEF TypeOK, TodoOK
  <2>3. LeftOfStage' = Len(Tail(todo)) /\ LeftOfStage = Len(todo)
    BY <2>1 DEF LeftOfStage
  <2> QED  BY <2>1, <2>2, <2>3, Shorter, LessOfStage
<1> QED  BY <1>1, <1>2, <1>3

LEMMA ExploreIsNearer ==
  ASSUME TypeOK, Explore
  PROVE  Closer(Distance', Distance)
<1> DEFINE due == {i \in DOMAIN todo : todo[i] \notin seen}
<1> DEFINE next == First(due)
<1>1. stage = "explore" /\ todo \in Seq(Requests)
  BY DEF Explore, TypeOK, TodoOK
<1>2. Len(todo) \in Nat /\ DOMAIN todo = 1 .. Len(todo)
  BY <1>1
<1>3. CASE due # {} /\ ~MustPause
  <2>1. next \in 1 .. Len(todo)
    BY <1>2, <1>3, FirstIs
  <2>2. stage' = stage /\ todo' = SubSeq(todo, next + 1, Len(todo))
    BY <1>3 DEF Explore, VisitNext
  <2> HIDE DEF next
  <2>3. todo # <<>> /\ next + 1 \in 2 .. Len(todo) + 1
    BY <1>1, <1>2, <2>1
  <2>4. Len(todo') < Len(todo)
    BY <1>1, <2>2, <2>3, Shorter
  <2>5. LeftOfStage' = Len(todo') /\ LeftOfStage = Len(todo)
    BY <1>1, <2>2 DEF LeftOfStage
  <2> QED  BY <2>2, <2>4, <2>5, LessOfStage
<1>4. CASE due = {} \/ MustPause
  <2>1. stage' \in {"query", "assess"}
    BY <1>4 DEF Explore, VisitNext, Explored
  <2> QED  BY <1>1, <2>1, LaterStage
<1> QED  BY <1>3, <1>4

LEMMA QueryIsNearer ==
  ASSUME IsFiniteSet(Requests), NEW x \in Requests, Query(x)
  PROVE  Closer(Distance', Distance)
<1>1. stage = "query" /\ x \in N!WitnessesBy(Evidence(obs), blocked)
  BY DEF Query
<1>2. x \notin blocked
  BY <1>1 DEF N!WitnessesBy
<1>3. CASE x \notin seen /\ MustPause
  BY <1>1, <1>3, LaterStage DEF Query, Explored
<1>4. CASE ~(x \notin seen /\ MustPause)
  <2>1. stage' = stage /\ blocked' = blocked \cup {x}
    BY <1>4 DEF Query
  <2>2. /\ LeftOfStage' = Cardinality(Requests \ (blocked \cup {x}))
        /\ LeftOfStage = Cardinality(Requests \ blocked)
    BY <1>1, <2>1 DEF LeftOfStage
  <2> QED  BY <1>2, <2>1, <2>2, FewerLeft, LessOfStage
<1> QED  BY <1>3, <1>4

LEMMA MinimiseIsNearer ==
  ASSUME IsFiniteSet(Requests), NEW x \in Requests, Minimise(x)
  PROVE  Closer(Distance', Distance)
<1>1. stage = "minimise" /\ visit = None /\ x \notin seen /\ visit' = x
      /\ UNCHANGED <<stage, seen>>
  BY DEF Minimise, Idle
<1>2. /\ Requests \ (seen \cup {visit}) = Requests \ seen
      /\ seen' \cup {visit'} = seen \cup {x}
  BY <1>1, NoneAssumption
<1>3. /\ LeftOfStage' = Cardinality(Requests \ (seen \cup {x}))
      /\ LeftOfStage = Cardinality(Requests \ seen)
  BY <1>1, <1>2 DEF LeftOfStage
<1> QED  BY <1>1, <1>3, FewerLeft, LessOfStage

LEMMA ClaimIsNearer ==
  ASSUME TypeOK, Shape, Skip \/ Hypothesise \/ Conclude
  PROVE  Closer(Distance', Distance)
<1> DEFINE due == {i \in DOMAIN todo : ~Skipped(todo[i])}
<1>1. stage = "confirm" /\ stage' = stage /\ todo # <<>> /\ todo \in Seq(AnyClaim)
  BY DEF Skip, Hypothesise, Conclude, Confirming, Deciding, Shape, TypeOK, TodoOK
<1>2. Len(todo) \in Nat /\ DOMAIN todo = 1 .. Len(todo)
  BY <1>1
<1>3. Len(todo') < Len(todo)
  <2>1. CASE Skip /\ due # {}
    <3>1. todo' = SubSeq(todo, First(due), Len(todo)) /\ Skipped(Head(todo))
      BY <2>1 DEF Skip
    <3>2. 1 \notin due
      BY <1>1, <1>2, <3>1
    <3>3. due \subseteq 1 .. Len(todo) /\ due \in SUBSET Nat
      BY <1>2
    <3> HIDE DEF due
    <3>4. First(due) \in due
      BY <2>1, <3>3, FirstIs
    <3> DEFINE d == First(due)
    <3>5. d \in due
      BY <3>4
    <3> HIDE DEF d
    <3>6. d \in 2 .. Len(todo) + 1
      BY <1>2, <3>2, <3>3, <3>5
    <3>7. todo' = SubSeq(todo, d, Len(todo))
      BY <3>1 DEF d, due
    <3> QED  BY <1>1, <3>6, <3>7, Shorter
  <2>2. CASE Skip /\ due = {}
    BY <1>1, <2>2, Shorter DEF Skip
  <2>3. CASE Hypothesise \/ Conclude
    BY <1>1, <2>3, Shorter DEF Hypothesise, Conclude
  <2> QED  BY <2>1, <2>2, <2>3
<1>4. LeftOfStage' = Len(todo') /\ LeftOfStage = Len(todo)
  BY <1>1 DEF LeftOfStage
<1> QED  BY <1>1, <1>3, <1>4, LessOfStage

LEMMA PairIsNearer ==
  ASSUME TypeOK, Parts, StartPair, session' # session
  PROVE  Closer(Distance', Distance)
<1>1. /\ stage = "confirm" /\ pair = None /\ visit = None /\ todo # <<>>
      /\ ~Skipped(Head(todo)) /\ Head(todo).kind = "rule" => ~Outside(obs)
      /\ log' = log /\ control = 0
  BY DEF StartPair, Confirming, Parts, ShapeParts
<1>2. PICK p \in PairsFor(Head(todo)) :
          \/ Fail
          \/ pair' = p /\ UNCHANGED <<Deciding, obs, todo, rules, report>>
  BY DEF StartPair
<1>3. CASE Fail
  BY <1>1, <1>3, OffIsNearest DEF Fail, Leave, Forget
<1>4. CASE pair' = p /\ UNCHANGED <<Deciding, obs, todo, rules, report>>
  <2>1. UNCHANGED <<stage, conf, visit, control, todo>>
    BY <1>4 DEF Deciding
  <2>2. LeftOfStage' = LeftOfStage
    BY <1>1, <2>1 DEF LeftOfStage
  <2>3. UnderWay = 2 * conf.trials + 3
    BY <1>1 DEF UnderWay
  <2>4. CASE p = None
    BY <1>1, <1>4, <2>4 DEF Deciding, session
  <2>5. CASE p # None
    <3>1. TrialsMade' \in Nat /\ conf.trials \in Nat
      <4>1. TrialsMade' = Cardinality(TrialsIn(log', p.good, p.bad))
        BY <1>4 DEF TrialsMade, Trials, TrialsIn, Retained, RetainedIn
      <4> QED  BY <1>1, <4>1, LogOK, IdleLog, TrialsCount, ConfIs
    <3>2. UnderWay' = IF TrialsMade' < conf.trials
                        THEN 2 * (conf.trials - TrialsMade') + 2 ELSE 0
      BY <1>1, <1>4, <2>1, <2>5, <3>1 DEF UnderWay
    <3> QED  BY <2>1, <2>2, <2>3, <3>1, <3>2, LessUnderWay
  <2> QED  BY <2>4, <2>5
<1> QED  BY <1>2, <1>3, <1>4

LEMMA TrialIsNearer ==
  ASSUME TypeOK, Parts, NEW o \in Outcomes, ConfirmControl(o) \/ ConfirmTrial(o)
  PROVE  Closer(Distance', Distance)
<1>1. /\ pair # None /\ pair \in Pairs /\ stage = "confirm" /\ visit = None
      /\ pair.good \in Requests /\ pair.bad \in Requests
      /\ pair.expect \in {"accepted", "input-rejected"}
      /\ control \in 0 .. Len(log) /\ Len(log) \in Nat /\ log \in Logs
  BY LogOK DEF ConfirmControl, ConfirmTrial, TypeOK, Pairs, Parts, ShapeParts
<1>2. CASE stage' = "off"
  BY <1>1, <1>2, OffIsNearest
<1>3. CASE stage' # "off"
  <2>1. UNCHANGED <<stage, conf, todo, visit, pair>>
    BY <1>3 DEF ConfirmControl, ConfirmTrial, Fail, Leave, Forget
  <2>2. /\ TrialsMade = Cardinality(TrialsIn(log, pair.good, pair.bad))
        /\ TrialsMade' = Cardinality(TrialsIn(log', pair.good, pair.bad))
    BY <2>1 DEF TrialsMade, Trials, TrialsIn, Retained, RetainedIn
  <2>3. conf.trials \in Nat
    BY <1>1, ConfIs
  <2>4. LeftOfStage' = LeftOfStage
    BY <1>1, <2>1 DEF LeftOfStage
  <2>5. CASE ConfirmControl(o)
    <3>1. control = 0 /\ control' = Len(log')
      BY <1>3, <2>5 DEF ConfirmControl, Fail, Leave, Forget
    <3>2. log' \in Logs /\ Extends(log, log') /\ Len(log') = Len(log) + 1
      <4>1. Experiment("validation-control", pair.good, 0, o) /\ 0 \in 0 .. Len(log)
        BY <1>1, <2>5 DEF ConfirmControl
      <4> QED  BY <1>1, <4>1, Sent DEF Phases
    <3>3. TrialsMade \in Nat /\ TrialsMade' \in Nat /\ TrialsMade <= TrialsMade'
      BY <1>1, <2>2, <3>2, TrialsCount
    <3>4. TrialsMade < conf.trials
      BY <2>5 DEF ConfirmControl
    <3>5. UnderWay = 2 * (conf.trials - TrialsMade) + 2
      BY <1>1, <2>3, <3>1, <3>3, <3>4 DEF UnderWay
    <3>6. UnderWay' = IF TrialsMade' < conf.trials
                        THEN 2 * (conf.trials - TrialsMade') + 1 ELSE 1
      BY <1>1, <2>1, <2>3, <3>1, <3>2, <3>3 DEF UnderWay
    <3>7. UnderWay' < UnderWay
      BY <2>3, <3>3, <3>4, <3>5, <3>6
    <3> QED  BY <2>1, <2>4, <3>7, LessUnderWay
  <2>6. CASE ConfirmTrial(o)
    <3>1. control # 0 /\ control' = 0 /\ o = pair.expect
      BY <1>3, <2>6 DEF ConfirmTrial, Fail, Leave, Forget
    <3>2. /\ log' \in Logs /\ Extends(log, log') /\ Len(log') = Len(log) + 1
          /\ log'[Len(log')].phase = "validation"
          /\ log'[Len(log')].input = pair.bad
          /\ log'[Len(log')].control = control /\ log'[Len(log')].outcome = o
      <4>1. Experiment("validation", pair.bad, control, o)
        BY <2>6 DEF ConfirmTrial
      <4> QED  BY <1>1, <4>1, Sent DEF Phases
    <3>3. /\ log[control].outcome = "accepted"
          /\ log[control].phase = "validation-control"
          /\ log[control].input = pair.good
      BY <1>1, <3>1 DEF Parts, ShapeParts, PairParts, PairIn
    <3>4. Len(log') \in TrialsIn(log', pair.good, pair.bad)
      <4>1. DOMAIN log' = 1 .. Len(log') /\ log'[control] = log[control]
        BY <1>1, <3>1, <3>2, LogIs DEF Extends
      <4>2. Len(log') \in RetainedIn(log') /\ control \in RetainedIn(log')
        BY <1>1, <3>1, <3>2, <3>3, <4>1 DEF RetainedIn, Reusable
      <4> QED  BY <3>2, <3>3, <4>1, <4>2 DEF TrialsIn
    <3>5. Len(log') \notin 1 .. Len(log)
      BY <1>1, <3>2
    <3>6. TrialsMade \in Nat /\ TrialsMade' \in Nat /\ TrialsMade < TrialsMade'
      BY <1>1, <2>2, <3>2, <3>4, <3>5, TrialsCount
    <3>7. UnderWay = IF TrialsMade < conf.trials
                       THEN 2 * (conf.trials - TrialsMade) + 1 ELSE 1
      BY <1>1, <2>3, <3>1, <3>6 DEF UnderWay
    <3>8. UnderWay' = IF TrialsMade' < conf.trials
                        THEN 2 * (conf.trials - TrialsMade') + 2 ELSE 0
      BY <1>1, <2>1, <2>3, <3>1, <3>6 DEF UnderWay
    <3>9. UnderWay' < UnderWay
      BY <2>3, <3>6, <3>7, <3>8
    <3> QED  BY <2>1, <2>4, <3>9, LessUnderWay
  <2> QED  BY <2>5, <2>6
<1> QED  BY <1>2, <1>3

\* Distances are counted in numbers.
LEMMA DistanceIsMeasured ==
  ASSUME TypeOK, Parts, Shape, IsFiniteSet(Requests)
  PROVE  Measured
<1>1. StageRank(stage) \in Nat
  BY DEF StageRank
<1>2. LeftOfStage \in Nat
  <2>1. Len(todo) \in Nat
    BY DEF TypeOK, TodoOK
  <2>2. /\ Cardinality(Requests \ blocked) \in Nat
        /\ Cardinality(Requests \ (seen \cup {visit})) \in Nat
    BY FS_Difference, FS_CardinalityType
  <2> QED  BY <2>1, <2>2 DEF LeftOfStage
<1>3. UnderWay \in Nat
  <2>1. CASE visit # None
    BY <2>1 DEF UnderWay
  <2>2. CASE visit = None /\ pair = None
    BY <2>2, ConfIs DEF UnderWay
  <2>3. CASE visit = None /\ pair # None
    <3>1. conf.trials \in Nat
      BY <2>3, ConfIs DEF Shape
    <3>2. TrialsMade \in Nat
      <4>1. log \in Logs /\ Extends(log, log)
        BY LogOK DEF Extends
      <4>2. TrialsMade = Cardinality(TrialsIn(log, pair.good, pair.bad))
        BY DEF TrialsMade, Trials, TrialsIn, Retained, RetainedIn
      <4> QED  BY <4>1, <4>2, TrialsCount
    <3> QED  BY <2>3, <3>1, <3>2 DEF UnderWay
  <2> QED  BY <2>1, <2>2, <2>3
<1> QED  BY <1>1, <1>2, <1>3 DEF Measured, Distance

\* Stages, minimisation and confirmation of inspectOperation nest, but no step
\* of a session leads back: where there are finitely many requests to make,
\* each step takes the session closer to its end, so none goes on for ever.
THEOREM SessionsEnd ==
  ASSUME IsFiniteSet(Requests)
  PROVE  Spec => SessionAdvances
<1> DEFINE P == (stage # "off" /\ session' # session) => Closer(Distance', Distance)
<1>1. IInv /\ [Next]_vars => P
  <2> SUFFICES ASSUME IInv, [Next]_vars, stage # "off", session' # session
               PROVE  Closer(Distance', Distance)
    OBVIOUS
  <2>1. TypeOK /\ Shape /\ Parts
    BY IInvIs, PartsAre DEF Session
  <2>2. CASE \E s \in Settings : Begin(s)
    BY <2>2 DEF Begin
  <2>3. CASE NoBaseline \/ Finish \/ Crash
    BY <2>1, <2>3, OffIsNearest DEF NoBaseline, Finish, Crash, Fail, Leave, Forget
  <2>4. CASE Explore
    BY <2>1, <2>4, ExploreIsNearer
  <2>5. CASE StopQuerying \/ Assess \/ Minimised
    BY <2>5, LaterStage DEF StopQuerying, Explored, Assess, Minimised
  <2>6. CASE Skip \/ Hypothesise \/ Conclude
    BY <2>1, <2>6, ClaimIsNearer
  <2>7. CASE StartPair
    BY <2>1, <2>7, PairIsNearer
  <2>8. CASE OutOfBudget \/ ExperimentFails
    BY <2>1, <2>8, ErrorIsNearer DEF OutOfBudget, ExperimentFails
  <2>9. CASE \E o \in Outcomes :
               \/ Recheck(o) \/ Baseline(o) \/ Control(o) \/ Probe(o)
               \/ ConfirmControl(o) \/ ConfirmTrial(o)
    BY <2>1, <2>9, BaselineIsNearer, ControlIsNearer, ProbeIsNearer, TrialIsNearer
  <2>10. CASE \E x \in Requests : Query(x) \/ Minimise(x)
    BY <2>10, QueryIsNearer, MinimiseIsNearer
  <2>11. CASE (\E x \in Requests : Drift(x)) \/ Rest \/ UNCHANGED vars
    BY <2>11 DEF Drift, Rest, vars
  <2> QED
    BY <2>2, <2>3, <2>4, <2>5, <2>6, <2>7, <2>8, <2>9, <2>10, <2>11
    DEF Next, SessionStep
<1> HIDE DEF P
<1>2. IInv /\ [Next]_vars => [P]_vars
  BY <1>1
<1>3. IInv => Measured
  BY IInvIs, PartsAre, DistanceIsMeasured DEF Session
<1>4. []Measured /\ [][P]_vars => SessionAdvances
  BY PTL DEF P, SessionAdvances
<1> QED  BY <1>2, <1>3, <1>4, InspectionInvariant, PTL DEF Spec
===============================================================================
