------------------------------- MODULE Learner -------------------------------
(***************************************************************************)
(* Model acquisition for one operation against an API whose validation     *)
(* does not change: the planned requests are tried first, then the active  *)
(* strategy asks distinguishing queries until no two consistent networks   *)
(* disagree, or until no network explains the evidence.                    *)
(*                                                                         *)
(* The API is any set of accepted inputs, representable in the candidate   *)
(* language or not.  An experiment may stay inconclusive.                  *)
(***************************************************************************)
EXTENDS Networks, Naturals

CONSTANTS
    Planned,           \* inputs visited whatever the model says
    MaxInconclusive    \* bound on unclassified experiments

ASSUME PlannedAssumption == Planned \subseteq Inputs

VARIABLES
    accepts,   \* the inputs the API accepts
    obs,       \* observations the learner was given
    blocked,   \* rows a distinguishing query has proposed
    verdict    \* "explore", "query", "converged" or "outside"

vars == <<accepts, obs, blocked, verdict>>

seen == {o.input : o \in obs}
unclassified == {o.input : o \in {p \in obs : p.outcome = "inconclusive"}}

Init ==
    /\ accepts \in SUBSET Inputs
    /\ obs = {}
    /\ blocked = {}
    /\ verdict = "explore"

(* What an experiment with x may report. *)
Answers(x) ==
    {IF x \in accepts THEN "accepted" ELSE "input-rejected"}
    \cup {a \in {"inconclusive"} : Cardinality(unclassified) < MaxInconclusive}

Visit(x, answer) == obs' = obs \cup {[input |-> x, outcome |-> answer]}

(* A planned request: unary, boundary and covering rows. *)
Explore ==
    /\ verdict = "explore"
    /\ \E x \in Planned \ seen : \E a \in Answers(x) : Visit(x, a)
    /\ UNCHANGED <<accepts, blocked, verdict>>

(* The active loop starts only while some network explains the evidence. *)
StartQueries ==
    /\ verdict = "explore" /\ Planned \subseteq seen
    /\ verdict' = IF Consistent(obs) THEN "query" ELSE "outside"
    /\ UNCHANGED <<accepts, obs, blocked>>

(* One query: the row is blocked, then visited unless it was seen before. *)
Query ==
    /\ verdict = "query"
    /\ \E x \in Witnesses(obs, blocked) :
          /\ blocked' = blocked \cup {x}
          /\ IF x \in seen
             THEN UNCHANGED obs
             ELSE \E a \in Answers(x) : Visit(x, a)
    /\ verdict' = IF Consistent(obs') THEN "query" ELSE "outside"
    /\ UNCHANGED accepts

Converge ==
    /\ verdict = "query" /\ Witnesses(obs, blocked) = {}
    /\ verdict' = "converged"
    /\ UNCHANGED <<accepts, obs, blocked>>

Next == Explore \/ StartQueries \/ Query \/ Converge

Spec == Init /\ [][Next]_vars /\ WF_vars(Next)

-----------------------------------------------------------------------------
TypeOK ==
    /\ accepts \subseteq Inputs
    /\ obs \subseteq Observation
    /\ blocked \subseteq Inputs
    /\ verdict \in {"explore", "query", "converged", "outside"}

(* The networks that are exactly the API's validation. *)
Truths == {n \in SUBSET Rules : {x \in Inputs : Accepts(n, x)} = accepts}

(* Whatever was asked and in whichever order, a network that is the API's  *)
(* validation explains the evidence: elimination never loses the truth,    *)
(* and a model gap is reported only when the language has no such network. *)
TruthSurvives ==
    /\ Truths \subseteq NetworksOf(obs)
    /\ verdict = "outside" => Truths = {}

(* The meaning the report gives to modelConverged: the networks left agree *)
(* on every input of the domains that is not an unclassified gap.          *)
ConvergedAgrees ==
    verdict = "converged" =>
        \A x \in Inputs \ unclassified : Agreed(obs, x)

(* With a representable API and no gap, agreement is agreement with the    *)
(* API itself.                                                             *)
ConvergedIsRight ==
    (verdict = "converged" /\ Truths # {} /\ unclassified = {}) =>
        \A n \in NetworksOf(obs) : \A x \in Inputs :
            Accepts(n, x) <=> x \in accepts

(* An entailed rule is never wrong about a representable API, at any time  *)
(* and not only after convergence.                                         *)
EntailedIsTrue ==
    Truths # {} =>
        \A r \in Rules : Entailed(obs, r) => accepts \subseteq Satisfies[r]

(* At all times: the truth is kept, and what is entailed is true. *)
Inv == TypeOK /\ TruthSurvives /\ EntailedIsTrue

(* A distinguishing query that is answered eliminates a network: the loop  *)
(* spends no request on a question the evidence already settles.           *)
QueryTeaches ==
    [][(verdict = "query" /\ obs' # obs /\ unclassified' = unclassified) =>
           NetworksOf(obs') \subseteq NetworksOf(obs)
           /\ NetworksOf(obs') # NetworksOf(obs)]_vars

(* Every step brings the end nearer: a later verdict, one planned request   *)
(* less, or one row less that a query may propose.                         *)
Advances ==
    \/ <<verdict, verdict'>> \in {<<"explore", "query">>, <<"explore", "outside">>,
                                  <<"query", "outside">>, <<"query", "converged">>}
    \/ /\ verdict = "explore" /\ verdict' = verdict
       /\ Planned \ seen' \subseteq Planned \ seen
       /\ Planned \ seen' # Planned \ seen
    \/ /\ verdict = "query" /\ verdict' = verdict
       /\ Inputs \ blocked' \subseteq Inputs \ blocked
       /\ Inputs \ blocked' # Inputs \ blocked

LoopAdvances == [][Advances]_vars

(* The loop ends, also when a proposed row stays inconclusive and would be *)
(* proposed again: blocked rows are what ends it.                          *)
Settles == <>(verdict \in {"converged", "outside"}) /\ LoopAdvances
=============================================================================
