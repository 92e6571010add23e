------------------------------ MODULE MCLearner ------------------------------
(* Two optional fields and the part of the candidate language that          *)
(* requires them: four requests, seven rules, sixteen possible APIs, not    *)
(* all of them representable.                                               *)
EXTENDS Learner

CONSTANTS a, b, v, absent, null

C == INSTANCE Candidates WITH
        Field <- {a, b}, State <- {absent, v}, Absent <- absent, Null <- null,
        Nested <- {}, InteractionOrder <- 2

MCRules ==
    {r \in C!Language :
        \/ r.kind \in {"fieldIsRequired", "fieldRequiredWith", "atMostOne", "any"}
        \/ r.kind = "fieldIsForbidden" /\ r.fields = {a}}
MCInputs == C!Requests
MCSatisfies == [r \in MCRules |-> C!Sat[r]]

(* Only one request is planned; the active loop chooses the others. *)
MCPlanned == {[f \in {a, b} |-> v]}
=============================================================================
