---------------------------- MODULE InspectionInv ----------------------------
(***************************************************************************)
(* The inductive invariant of Inspection.  What a session knows is its     *)
(* observations; what is promised of a report is about the whole log.  The *)
(* invariant says how far the two can be apart at each stage, what each    *)
(* stage has established, and what it still has requests for.              *)
(***************************************************************************)
EXTENDS Inspection

(* The session has observed that x has this outcome. *)
Told(x, outcome) ==
    \E i \in obs : log[i].input = x /\ log[i].outcome = outcome

(* What belongs to which stage. *)
Shape ==
    /\ stage = "off" =>
          /\ obs = {} /\ visit = None /\ control = 0 /\ pair = None
          /\ rules = {}
    /\ visit # None => stage \in {"explore", "query", "minimise"}
    /\ pair # None => stage = "confirm" /\ todo # <<>>
    /\ control # 0 => visit # None \/ pair # None
    /\ control # 0 => log[control].outcome = "accepted"
    /\ stage \notin {"off", "baseline"} => Told(base, "accepted")
    /\ stage # "confirm" => rules = {}
    /\ stage \in {"off", "recheck", "baseline", "explore"} => blocked = {}

(* The log says nothing the session has not observed, but for the pair     *)
(* under way, and for a rejected control when the model failed already.    *)
Heard ==
    stage # "off" => \A i \in DOMAIN log :
        /\ log[i].outcome = "accepted" =>
              \/ Told(log[i].input, "accepted")
              \/ pair # None /\ log[i].input = pair.good
        /\ log[i].outcome = "input-rejected" =>
              \/ Told(log[i].input, "input-rejected")
              \/ Outside(obs)
              \/ /\ pair # None /\ log[i].input = pair.bad
                 /\ pair.expect = "input-rejected"

(* Inputs that are not sent again have been observed; until confirmation   *)
(* those are all that are classified, and the one visited is not.          *)
Seen ==
    /\ \A x \in seen : \E i \in obs : log[i].input = x
    /\ stage \notin {"off", "confirm"} =>
          \A i \in DOMAIN log :
              log[i].outcome # "inconclusive" => log[i].input \in seen
    /\ visit # None => visit \notin seen

(* The pair under way is a matched one of a claim that is entailed, or of  *)
(* two observed acceptances, and has shown nothing else so far.            *)
PairHolds ==
    pair # None =>
        LET claim == Head(todo)
        IN  /\ \A i \in Trials(pair.good, pair.bad) :
                  /\ log[i].outcome = pair.expect
                  /\ log[log[i].control].outcome = "accepted"
            /\ control # 0 =>
                  /\ log[control].phase = "validation-control"
                  /\ log[control].input = pair.good
            /\ claim.kind = "rule" =>
                  /\ pair.expect = "input-rejected"
                  /\ Matched(claim.rule, pair.good, pair.bad)
                  /\ N!EntailedBy(Evidence(obs), claim.rule)
                  /\ N!CanAccept(Evidence(obs), pair.good)
            /\ claim.kind # "rule" =>
                  /\ pair.expect = "accepted"
                  /\ Told(pair.good, "accepted") /\ Told(pair.bad, "accepted")

(* Supported findings are confirmed, and their rules entailed. *)
RulesHold ==
    \A f \in Supported(rules) :
        /\ Cardinality(Full(f.pair, Len(log))) >= conf.trials
        /\ f.claim.kind = "rule" =>
              /\ Matched(f.claim.rule, f.pair.good, f.pair.bad)
              /\ N!EntailedBy(Evidence(obs), f.claim.rule)

(* What exploration has covered and what it left open. *)
Answered(x) == x \in seen \/ N!Agreed(Evidence(obs), x)

Covers ==
    /\ stage = "explore" =>
          \A x \in Planned : x \in seen \/ x = visit \/ x \in ToSet(todo)
    /\ stage = "query" => Planned \subseteq seen /\ blocked \ {visit} \subseteq seen
    /\ stage \in {"assess", "minimise", "confirm"} =>
          \/ cover.paused
          \/ /\ Planned \subseteq seen
             /\ Active => Outside(obs) \/ \A x \in Requests : Answered(x)
    /\ stage \in {"minimise", "confirm"} =>
          \/ Outside(obs) \/ cover.gap
          \/ \A i \in obs : log[i].outcome # "inconclusive"
    /\ stage = "minimise" => Outside(obs)

(* A visit was begun with requests for both its experiments to spare. *)
Reserved ==
    (visit # None /\ conf.budget > 0 /\ ConfirmationReserve >= 0) =>
        conf.budget - used >= ReserveOf(conf)
            + IF control = 0 THEN 2 * Cost ELSE Cost - Extra

Session == Shape /\ Heard /\ Seen /\ PairHolds /\ RulesHold /\ Covers /\ Reserved

IInv == Inv /\ CompleteIsEarned /\ NoCounterexample /\ Session
=============================================================================
