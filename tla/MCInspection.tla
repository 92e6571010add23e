---------------------------- MODULE MCInspection ----------------------------
(* Two optional fields of one representative value: four requests.  The     *)
(* full language of order two has trivial and symmetric rules; the          *)
(* instances claim the part of it that can be told apart, and keep rules    *)
(* of every form.                                                           *)
EXTENDS InspectionInv

CONSTANTS a, b, v, absent, null

MCField == {a, b}
MCState == {absent, v}
Both == [f \in {a, b} |-> v]
Neither == [f \in {a, b} |-> absent]
Only(g) == [f \in {a, b} |-> IF f = g THEN v ELSE absent]

MCClaimed ==
    {r \in Language :
        \/ r.kind = "fieldIsRequired" /\ r.fields = {a}
        \/ r.kind \in {"fieldRequiredWith", "atMostOne"}}
(* Simplest first, and of those the unary ones first. *)
MCRanked ==
    SetToSortSeq(MCClaimed, LAMBDA r, s :
        LET Rank(t) == <<Complexity(t), Cardinality(t.fields)>>
        IN  \/ Rank(r)[1] < Rank(s)[1]
            \/ Rank(r)[1] = Rank(s)[1] /\ Rank(r)[2] < Rank(s)[2])
MCEither == <<Both, Neither>>
PlannedTwo == {Neither, Only(b)}
SearchedB == {Only(b)}
SurpriseB == {<<b, v>>}
AnyAPI == SUBSET Requests

(* What may go wrong: an API that gives no clear answer, one that changes   *)
(* its mind, or experiments that cost more than they should.                *)
Steady == [sessions |-> 2, drift |-> 0, unclear |-> 1, errors |-> 1, dear |-> 0]
Changing == [Steady EXCEPT !.drift = 1, !.unclear = 0]
Dear == [Steady EXCEPT !.dear = 3, !.unclear = 0]
MCBounds == {Steady, Changing, Dear}

MCSettings == {[trials |-> 2, budget |-> 0], [trials |-> 1, budget |-> 12]}
=============================================================================
