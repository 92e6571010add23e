----------------------------- MODULE LearnerProofs -----------------------------
(***************************************************************************)
(* What is learned about the rules of an operation, for every candidate    *)
(* language, every API and every set of requests: the first part is about  *)
(* networks and evidence, the second about the loop of Learner.            *)
(***************************************************************************)
EXTENDS Learner, FiniteSetTheorems, TLAPS

-----------------------------------------------------------------------------
(* Networks *)

(* All surviving rules that hold on x explain every rejection, if any      *)
(* network that accepts x does: the code's SAT query for an accepting      *)
(* network needs no enumeration.                                           *)
LEMMA AcceptingNetwork ==
    ASSUME NEW evidence, NEW x \in Inputs
    PROVE  (\E n \in NetworksOf(evidence) : Accepts(n, x)) <=> CanAccept(evidence, x)
<1>1. ASSUME NEW n \in NetworksOf(evidence), Accepts(n, x)
      PROVE  CanAccept(evidence, x)
    <2>1. n \subseteq Survivors(evidence) BY <1>1 DEF NetworksOf
    <2>2. ASSUME NEW c \in Clauses(evidence)
          PROVE  \E r \in c \cap Survivors(evidence) : x \in Satisfies[r]
        <3>1. PICK r \in c \cap n : TRUE BY <2>2 DEF NetworksOf
        <3>2. x \in Satisfies[r] BY <1>1, <3>1 DEF Accepts
        <3>3. QED BY <2>1, <3>1, <3>2
    <2>3. QED BY <2>2 DEF CanAccept
<1>2. ASSUME CanAccept(evidence, x)
      PROVE  \E n \in NetworksOf(evidence) : Accepts(n, x)
    <2> DEFINE n == {r \in Survivors(evidence) : x \in Satisfies[r]}
    <2>1. Accepts(n, x) BY DEF Accepts
    <2>2. \A c \in Clauses(evidence) : c \cap n # {} BY <1>2 DEF CanAccept
    <2>3. n \in NetworksOf(evidence) BY <2>2 DEF NetworksOf
    <2>4. QED BY <2>1, <2>3
<1>3. QED BY <1>1, <1>2

(* If the evidence has an explanation, all the survivors are one: any      *)
(* surviving rule is part of some network.                                 *)
LEMMA RejectingNetwork ==
    ASSUME NEW evidence, NEW x \in Inputs, Consistent(evidence)
    PROVE  (\E n \in NetworksOf(evidence) : ~Accepts(n, x)) <=> CanReject(evidence, x)
<1>1. Survivors(evidence) \in NetworksOf(evidence) BY DEF Consistent, NetworksOf
<1>2. CanReject(evidence, x) => ~Accepts(Survivors(evidence), x) BY DEF CanReject, Accepts
<1>3. ASSUME NEW n \in NetworksOf(evidence), ~Accepts(n, x)
      PROVE  CanReject(evidence, x)
    BY <1>3 DEF NetworksOf, CanReject, Accepts
<1>4. QED BY <1>1, <1>2, <1>3

(* Evidence some network explains is consistent in the code's sense. *)
LEMMA ExplainedIsConsistent ==
    ASSUME NEW evidence, NEW n \in NetworksOf(evidence)
    PROVE  Consistent(evidence)
<1>1. n \subseteq Survivors(evidence) /\ \A c \in Clauses(evidence) : c \cap n # {}
    BY DEF NetworksOf
<1>2. QED BY <1>1 DEF Consistent

(* Evidence that leaves an accepting network is consistent. *)
LEMMA AcceptableIsConsistent ==
    ASSUME NEW evidence, NEW x, CanAccept(evidence, x)
    PROVE  Consistent(evidence)
BY DEF CanAccept, Consistent

(* Entailment, contrasts and distinguishing queries mean what the report   *)
(* says of them: they quantify over every consistent network.              *)
THEOREM ContrastsAreSemantic ==
    ASSUME NEW evidence
    PROVE  Acceptable(evidence) = {x \in Inputs : CanAccept(evidence, x)}
BY AcceptingNetwork DEF Acceptable

(* A rule is entailed exactly when no explanation of the evidence accepts  *)
(* a request that violates it.                                             *)
THEOREM EntailmentIsSemantic ==
    ASSUME NEW evidence, NEW r \in Rules
    PROVE  Entailed(evidence, r) <=> EntailedBy(evidence, r)
<1>1. ASSUME Entailed(evidence, r) PROVE EntailedBy(evidence, r)
    <2>1. ASSUME NEW x \in Inputs \ Satisfies[r] PROVE ~CanAccept(evidence, x)
        <3>1. \A n \in NetworksOf(evidence) : ~Accepts(n, x) BY <1>1, <2>1 DEF Entailed
        <3>2. QED BY <2>1, <3>1, AcceptingNetwork
    <2>2. QED BY <1>1, <2>1 DEF Entailed, EntailedBy
<1>2. ASSUME EntailedBy(evidence, r) PROVE Entailed(evidence, r)
    <2>1. ASSUME NEW n \in NetworksOf(evidence), NEW x \in Inputs, Accepts(n, x)
          PROVE  x \in Satisfies[r]
        <3>1. CanAccept(evidence, x) BY <2>1, AcceptingNetwork
        <3>2. QED BY <1>2, <2>1, <3>1 DEF EntailedBy
    <2>2. QED BY <1>2, <2>1 DEF Entailed, EntailedBy
<1>3. QED BY <1>1, <1>2

(* What the SAT query of Ask finds is a request two explanations of the      *)
(* evidence answer differently, and it misses none.                        *)
THEOREM QueriesAreSemantic ==
    ASSUME NEW evidence, NEW rows
    PROVE  Witnesses(evidence, rows) = WitnessesBy(evidence, rows)
<1>1. ASSUME NEW x \in Inputs
      PROVE  (/\ \E m \in NetworksOf(evidence) : Accepts(m, x)
              /\ \E n \in NetworksOf(evidence) : ~Accepts(n, x))
             <=> (CanAccept(evidence, x) /\ CanReject(evidence, x))
    <2>1. CASE CanAccept(evidence, x)
        <3>1. Consistent(evidence) BY <2>1, AcceptableIsConsistent
        <3>2. QED BY <3>1, AcceptingNetwork, RejectingNetwork
    <2>2. CASE ~CanAccept(evidence, x) BY <2>2, AcceptingNetwork
    <2>3. QED BY <2>1, <2>2
<1>2. QED BY <1>1 DEF Witnesses, WitnessesBy

(* More evidence leaves fewer networks. *)
LEMMA EvidenceNarrows ==
    ASSUME NEW evidence, NEW more, evidence \subseteq more
    PROVE  NetworksOf(more) \subseteq NetworksOf(evidence)
<1>1. Clauses(evidence) \subseteq Clauses(more) BY DEF Clauses
<1>2. Disabled(evidence) \subseteq Disabled(more) BY DEF Disabled
<1>3. Survivors(more) \subseteq Survivors(evidence) BY <1>2 DEF Survivors
<1>4. QED BY <1>1, <1>3 DEF NetworksOf

(* An accepted request is accepted by every network that explains it, a    *)
(* rejected one by none.                                                   *)
LEMMA AcceptedByAll ==
    ASSUME NEW evidence, NEW o \in evidence, o.outcome = "accepted",
           o.input \in Inputs, NEW r \in Survivors(evidence)
    PROVE  o.input \in Satisfies[r]
<1>1. r \in Rules /\ r \notin Disabled(evidence) BY DEF Survivors
<1>2. r \notin Violated(o.input) BY <1>1 DEF Disabled
<1>3. QED BY <1>1, <1>2 DEF Violated

(* A rejected request is rejected by every network that explains it. *)
LEMMA RejectedByAll ==
    ASSUME NEW evidence, NEW o \in evidence, o.outcome = "input-rejected",
           o.input \in Inputs
    PROVE  ~CanAccept(evidence, o.input)
<1>1. Violated(o.input) \in Clauses(evidence) BY DEF Clauses
<1>2. \A r \in Violated(o.input) : o.input \notin Satisfies[r] BY DEF Violated
<1>3. QED BY <1>1, <1>2 DEF CanAccept

-----------------------------------------------------------------------------
(* The loop *)

(* What classifies an input is what the API does with it. *)
Faithful ==
    \A o \in obs : /\ o.outcome = "accepted" => o.input \in accepts
                   /\ o.outcome = "input-rejected" => o.input \notin accepts

(* A blocked row was visited; verdicts are about the evidence at hand.     *)
Verdicts ==
    /\ blocked \subseteq seen
    /\ verdict = "converged" => Witnesses(obs, blocked) = {}
    /\ verdict = "outside" => ~Consistent(obs)

LInv == TypeOK /\ Faithful /\ Verdicts

(* One more observation, whatever it says, is one of the API's answers.    *)
LEMMA VisitKeeps ==
    ASSUME TypeOK, Faithful, NEW x \in Inputs, NEW a \in Answers(x), Visit(x, a),
           accepts' = accepts
    PROVE  /\ obs' \subseteq Observation /\ obs \subseteq obs'
           /\ Faithful'
           /\ seen' = seen \cup {x}
<1>1. a \in {"accepted", "input-rejected", "inconclusive"} BY DEF Answers
<1>2. (a = "accepted" => x \in accepts) /\ (a = "input-rejected" => x \notin accepts)
    BY DEF Answers
<1> DEFINE o == [input |-> x, outcome |-> a]
<1>3. obs' = obs \cup {o} BY DEF Visit
<1>4. o \in Observation /\ o.input = x /\ o.outcome = a BY <1>1 DEF Observation, Outcomes
<1>5. obs' \subseteq Observation /\ obs \subseteq obs' BY <1>3, <1>4 DEF TypeOK
<1>6. Faithful' BY <1>2, <1>3, <1>4 DEF Faithful
<1>7. seen' = seen \cup {x} BY <1>3, <1>4 DEF seen
<1>8. QED BY <1>5, <1>6, <1>7

(* The inductive invariant holds before the first observation. *)
LEMMA LearnerInit == Init => LInv
BY DEF Init, LInv, TypeOK, Faithful, Verdicts, seen

(* Every step of the loop keeps the inductive invariant. *)
LEMMA LearnerStep == LInv /\ [Next]_vars => LInv'
<1> SUFFICES ASSUME LInv, [Next]_vars PROVE LInv' OBVIOUS
<1> USE DEF LInv
<1>1. CASE Explore
    <2>1. PICK x \in Planned \ seen : \E a \in Answers(x) : Visit(x, a) BY <1>1 DEF Explore
    <2>0. PICK a \in Answers(x) : Visit(x, a) BY <2>1
    <2>2. x \in Inputs BY PlannedAssumption
    <2>3. accepts' = accepts /\ blocked' = blocked /\ verdict' = verdict /\ verdict = "explore"
        BY <1>1 DEF Explore
    <2>4. obs' \subseteq Observation /\ Faithful' /\ seen' = seen \cup {x}
        BY <2>0, <2>2, <2>3, VisitKeeps
    <2>5. TypeOK' BY <2>3, <2>4 DEF TypeOK
    <2>6. Verdicts' BY <2>3, <2>4 DEF Verdicts
    <2>7. QED BY <2>4, <2>5, <2>6
<1>2. CASE StartQueries
    <2>1. obs' = obs /\ accepts' = accepts /\ blocked' = blocked BY <1>2 DEF StartQueries
    <2>2. verdict' = "query" \/ (verdict' = "outside" /\ ~Consistent(obs))
        BY <1>2 DEF StartQueries
    <2>3. TypeOK' BY <2>1, <2>2 DEF TypeOK
    <2>4. Faithful' BY <2>1 DEF Faithful
    <2>5. seen' = seen BY <2>1 DEF seen
    <2>6. Verdicts' BY <2>1, <2>2, <2>5 DEF Verdicts
    <2>7. QED BY <2>3, <2>4, <2>6
<1>3. CASE Query
    <2>1. PICK x \in Witnesses(obs, blocked) :
              /\ blocked' = blocked \cup {x}
              /\ IF x \in seen THEN UNCHANGED obs
                 ELSE \E a \in Answers(x) : Visit(x, a)
        BY <1>3 DEF Query
    <2>2. x \in Inputs BY DEF Witnesses
    <2>3. accepts' = accepts BY <1>3 DEF Query
    <2>4. verdict' = "query" \/ (verdict' = "outside" /\ ~Consistent(obs'))
        BY <1>3 DEF Query
    <2>5. obs' \subseteq Observation /\ Faithful' /\ seen' = seen \cup {x}
        <3>1. CASE x \in seen
            <4>1. obs' = obs BY <2>1, <3>1
            <4>2. seen' = seen BY <4>1 DEF seen
            <4>3. QED BY <2>3, <3>1, <4>1, <4>2 DEF TypeOK, Faithful
        <3>2. CASE x \notin seen
            <4>1. PICK a \in Answers(x) : Visit(x, a) BY <2>1, <3>2
            <4>2. QED BY <2>2, <2>3, <4>1, VisitKeeps
        <3>3. QED BY <3>1, <3>2
    <2>6. TypeOK' BY <2>1, <2>2, <2>3, <2>4, <2>5 DEF TypeOK
    <2>7. blocked' \subseteq seen' BY <2>1, <2>5 DEF Verdicts
    <2>8. Verdicts' BY <2>4, <2>7 DEF Verdicts
    <2>9. QED BY <2>5, <2>6, <2>8
<1>4. CASE Converge
    <2>1. obs' = obs /\ accepts' = accepts /\ blocked' = blocked /\ verdict' = "converged"
          /\ Witnesses(obs, blocked) = {}
        BY <1>4 DEF Converge
    <2>2. TypeOK' BY <2>1 DEF TypeOK
    <2>3. Faithful' BY <2>1 DEF Faithful
    <2>4. seen' = seen BY <2>1 DEF seen
    <2>5. Verdicts' BY <2>1, <2>4 DEF Verdicts
    <2>6. QED BY <2>2, <2>3, <2>5
<1>5. CASE UNCHANGED vars
    <2>1. obs' = obs /\ accepts' = accepts /\ blocked' = blocked /\ verdict' = verdict
        BY <1>5 DEF vars
    <2>2. seen' = seen BY <2>1 DEF seen
    <2>3. QED BY <2>1, <2>2 DEF TypeOK, Faithful, Verdicts
<1>6. QED BY <1>1, <1>2, <1>3, <1>4, <1>5 DEF Next

(* The inductive invariant of the learner loop (Ask, Observe): the evidence *)
(* is the API's own answers, and every verdict has its reason.              *)
THEOREM LearnerInvariant == Spec => []LInv
<1>1. QED BY LearnerInit, LearnerStep, PTL DEF Spec

(* Every state of the loop is well typed. *)
THEOREM LearnerTypeOK == Spec => []TypeOK
<1>1. LInv => TypeOK BY DEF LInv
<1>2. QED BY <1>1, LearnerInvariant, PTL

-----------------------------------------------------------------------------
(* A network that is the API's validation explains the evidence. *)
LEMMA TruthExplains ==
    ASSUME LInv, NEW t \in Truths
    PROVE  t \in NetworksOf(obs)
<1>1. t \subseteq Rules /\ \A x \in Inputs : Accepts(t, x) <=> x \in accepts
    BY DEF Truths
<1>2. \A o \in obs : o.input \in Inputs BY DEF LInv, TypeOK, Observation
<1>3. ASSUME NEW r \in t PROVE r \in Survivors(obs)
    <2>1. ASSUME NEW o \in obs, o.outcome = "accepted" PROVE r \notin Violated(o.input)
        <3>1. Accepts(t, o.input) BY <1>1, <1>2, <2>1 DEF LInv, Faithful
        <3>2. QED BY <3>1, <1>3 DEF Accepts, Violated
    <2>2. QED BY <1>1, <1>3, <2>1 DEF Survivors, Disabled
<1>4. ASSUME NEW c \in Clauses(obs) PROVE c \cap t # {}
    <2>1. PICK o \in obs : o.outcome = "input-rejected" /\ c = Violated(o.input)
        BY <1>4 DEF Clauses
    <2>2. ~Accepts(t, o.input) BY <1>1, <1>2, <2>1 DEF LInv, Faithful
    <2>3. PICK r \in t : o.input \notin Satisfies[r] BY <2>2 DEF Accepts
    <2>4. QED BY <1>1, <2>1, <2>3 DEF Violated
<1>5. QED BY <1>3, <1>4 DEF NetworksOf

(* Elimination never loses a representable truth, whatever was asked and   *)
(* in whichever order; a gap is reported only if there is none.            *)
THEOREM LearnerTruthSurvives == Spec => []TruthSurvives
<1>1. LInv => TruthSurvives
    <2> SUFFICES ASSUME LInv PROVE TruthSurvives OBVIOUS
    <2>1. Truths \subseteq NetworksOf(obs) BY TruthExplains
    <2>2. verdict = "outside" => Truths = {}
        BY <2>1, ExplainedIsConsistent DEF LInv, Verdicts
    <2>3. QED BY <2>1, <2>2 DEF TruthSurvives
<1>2. QED BY <1>1, LearnerInvariant, PTL

(* A converged model leaves no two explanations that disagree on an input  *)
(* that was classified or never asked about.                               *)
LEMMA Agreement ==
    ASSUME LInv, verdict = "converged", NEW x \in Inputs \ unclassified
    PROVE  Agreed(obs, x)
<1>1. CASE x \in blocked
    <2>1. PICK o \in obs : o.input = x BY <1>1 DEF LInv, Verdicts, seen
    <2>2. o.outcome \in {"accepted", "input-rejected"}
        BY <2>1 DEF LInv, TypeOK, Observation, Outcomes, unclassified
    <2>3. CASE o.outcome = "accepted"
        <3>1. \A r \in Survivors(obs) : x \in Satisfies[r] BY <2>1, <2>3, AcceptedByAll
        <3>2. QED BY <3>1 DEF Agreed, CanReject
    <2>4. CASE o.outcome = "input-rejected"
        BY <2>1, <2>4, RejectedByAll DEF Agreed
    <2>5. QED BY <2>2, <2>3, <2>4
<1>2. CASE x \notin blocked
    <2>1. x \notin WitnessesBy(obs, blocked)
        BY QueriesAreSemantic DEF LInv, Verdicts
    <2>2. QED BY <1>2, <2>1 DEF WitnessesBy, Agreed
<1>3. QED BY <1>1, <1>2

(* When the loop of Ask reports convergence, no two explanations disagree   *)
(* on a request that was classified or could still be asked about.         *)
THEOREM LearnerConvergedAgrees == Spec => []ConvergedAgrees
<1>1. LInv => ConvergedAgrees BY Agreement DEF ConvergedAgrees
<1>2. QED BY <1>1, LearnerInvariant, PTL

(* With a representable API and every request classified, a converged      *)
(* model is the API's validation.                                          *)
THEOREM LearnerConvergedIsRight == Spec => []ConvergedIsRight
<1>1. LInv => ConvergedIsRight
    <2> SUFFICES ASSUME LInv, verdict = "converged", NEW t \in Truths, unclassified = {},
                        NEW n \in NetworksOf(obs), NEW x \in Inputs
                 PROVE  Accepts(n, x) <=> x \in accepts
        BY DEF ConvergedIsRight
    <2>1. Agreed(obs, x) BY Agreement
    <2>2. t \in NetworksOf(obs) BY TruthExplains
    <2>3. Consistent(obs) BY <2>2, ExplainedIsConsistent
    <2>4. Accepts(n, x) <=> Accepts(t, x)
        BY <2>1, <2>2, <2>3, AcceptingNetwork, RejectingNetwork DEF Agreed
    <2>5. Accepts(t, x) <=> x \in accepts BY DEF Truths
    <2>6. QED BY <2>4, <2>5
<1>2. QED BY <1>1, LearnerInvariant, PTL

(* An entailed rule holds for everything a representable API accepts, long *)
(* before convergence.                                                     *)
THEOREM LearnerEntailedIsTrue == Spec => []EntailedIsTrue
<1>1. LInv => EntailedIsTrue
    <2> SUFFICES ASSUME LInv, NEW t \in Truths, NEW r \in Rules, Entailed(obs, r),
                        NEW x \in accepts
                 PROVE  x \in Satisfies[r]
        BY DEF EntailedIsTrue
    <2>1. x \in Inputs /\ Accepts(t, x) BY DEF LInv, TypeOK, Truths
    <2>2. t \in NetworksOf(obs) BY TruthExplains
    <2>3. QED BY <2>1, <2>2 DEF Entailed
<1>2. QED BY <1>1, LearnerInvariant, PTL

(* At every moment, converged or not, the loop keeps a representable truth *)
(* and entails nothing that is false.                                      *)
THEOREM LearnerSound == Spec => []Inv
<1>1. QED
    BY LearnerTypeOK, LearnerTruthSurvives, LearnerEntailedIsTrue, PTL DEF Inv

-----------------------------------------------------------------------------
(* Every query that is answered leaves fewer explanations. *)
LEMMA QueryNarrows ==
    ASSUME LInv, [Next]_vars, verdict = "query", obs' # obs, unclassified' = unclassified
    PROVE  /\ NetworksOf(obs') \subseteq NetworksOf(obs)
           /\ NetworksOf(obs') # NetworksOf(obs)
<1>1. Query
    BY DEF Next, vars, Explore, StartQueries, Converge
<1>2. PICK x \in Witnesses(obs, blocked) : x \notin seen /\ \E a \in Answers(x) : Visit(x, a)
    BY <1>1 DEF Query
<1>3. PICK a \in Answers(x) : obs' = obs \cup {[input |-> x, outcome |-> a]}
    BY <1>2 DEF Visit
<1> DEFINE o == [input |-> x, outcome |-> a]
<1>4. x \in Inputs /\ o \in obs' /\ o.input = x /\ o.outcome = a BY <1>3 DEF Witnesses
<1>5. a # "inconclusive"
    <2>1. x \notin unclassified BY <1>2 DEF seen, unclassified
    <2>2. a = "inconclusive" => x \in unclassified' BY <1>4 DEF unclassified
    <2>3. QED BY <2>1, <2>2
<1>6. NetworksOf(obs') \subseteq NetworksOf(obs) BY <1>3, EvidenceNarrows
<1>7. PICK m \in NetworksOf(obs), n \in NetworksOf(obs) : Accepts(m, x) /\ ~Accepts(n, x)
    BY DEF Witnesses
<1>8. CASE a = "accepted"
    <2>1. \A r \in Survivors(obs') : x \in Satisfies[r] BY <1>4, <1>8, AcceptedByAll
    <2>2. n \notin NetworksOf(obs') BY <1>7, <2>1 DEF NetworksOf, Accepts
    <2>3. QED BY <1>6, <1>7, <2>2
<1>9. CASE a = "input-rejected"
    <2>1. ~CanAccept(obs', x) BY <1>4, <1>9, RejectedByAll
    <2>2. m \notin NetworksOf(obs') BY <1>4, <1>7, <2>1, AcceptingNetwork
    <2>3. QED BY <1>6, <1>7, <2>2
<1>10. QED BY <1>5, <1>8, <1>9 DEF Answers

(* A query whose answer is classified refutes at least one explanation.    *)
THEOREM LearnerQueryTeaches == Spec => QueryTeaches
<1>1. LInv /\ [Next]_vars =>
        [(verdict = "query" /\ obs' # obs /\ unclassified' = unclassified) =>
           NetworksOf(obs') \subseteq NetworksOf(obs)
           /\ NetworksOf(obs') # NetworksOf(obs)]_vars
    BY QueryNarrows
<1>2. QED BY <1>1, LearnerInvariant, PTL DEF Spec, QueryTeaches

(* The loop comes nearer to its end with every step.                       *)
THEOREM LearnerAdvances == Spec => LoopAdvances
<1>1. ASSUME Next PROVE Advances
    <2>1. CASE Explore
        <3>1. PICK x \in Planned \ seen : \E a \in Answers(x) : Visit(x, a)
            BY <2>1 DEF Explore
        <3>2. PICK a : obs' = obs \cup {[input |-> x, outcome |-> a]}
            BY <3>1 DEF Visit
        <3>3. seen' = seen \cup {x}
            <4> DEFINE o == [input |-> x, outcome |-> a]
            <4>1. o.input = x /\ obs' = obs \cup {o} BY <3>2
            <4> HIDE DEF o
            <4>2. QED BY <4>1 DEF seen
        <3>4. verdict = "explore" /\ verdict' = verdict BY <2>1 DEF Explore
        <3>5. QED BY <3>1, <3>3, <3>4 DEF Advances
    <2>2. CASE Query
        <3>1. PICK x \in Witnesses(obs, blocked) : blocked' = blocked \cup {x}
            BY <2>2 DEF Query
        <3>2. x \in Inputs \ blocked BY DEF Witnesses
        <3>3. verdict = "query" /\ verdict' \in {"query", "outside"} BY <2>2 DEF Query
        <3>4. QED BY <3>1, <3>2, <3>3 DEF Advances
    <2>3. CASE StartQueries \/ Converge
        BY <2>3 DEF StartQueries, Converge, Advances
    <2>4. QED BY <1>1, <2>1, <2>2, <2>3 DEF Next
<1>2. QED BY <1>1, PTL DEF Spec, LoopAdvances
================================================================================
