----------------------------- MODULE Inspection -----------------------------
(***************************************************************************)
(* The inspection of one operation (inspectOperation), session after       *)
(* session: baseline, planned and distinguishing requests, minimisation,   *)
(* the confirmation of what the learner proposes, and the analysis that is *)
(* reported.  A session may die, meet an error, pause to keep a reserve of *)
(* requests, or run out of them; the next one resumes from the journal.    *)
(*                                                                         *)
(* An experiment is one step: its fixtures, readbacks and cleanup are the  *)
(* business of ResourceRun, its requests are a number here.  The API may   *)
(* change its mind about an input between any two steps.                   *)
(***************************************************************************)
EXTENDS Candidates, Integers, Sequences, SequencesExt

CONSTANTS
    Ranked,       \* candidate rules, the language or a part of it, in the
                  \* order they are confirmed
    Baselines,    \* requests tried as baseline, in order
    Planned,      \* requests of the unary, boundary and covering phases
    Searched,     \* of those, the requests of the boundary search
    Active,       \* strategy "active": distinguishing queries
    Surprising,   \* <<field, value>> pairs the declared schema rules out
    Cost, Extra,  \* requests of an experiment: the estimate, and above it
    ConfirmationReserve,   \* configured: negative none, 0 estimated
    None,
    Settings,     \* [trials, budget] a session may be configured with
    APIs,         \* what the API may accept at first
    Bounds        \* how many sessions there are, changes of mind, unclassified
                  \* answers, errors and experiments above the estimate

(* Findings are confirmed from the simplest on; candidates of the same     *)
(* complexity stay in the order they were made in.                         *)
ASSUME RankedAssumption ==
    /\ Ranked \in Seq(Language) /\ IsInjective(Ranked)
    /\ \A i, j \in DOMAIN Ranked :
          i < j => Complexity(Ranked[i]) <= Complexity(Ranked[j])
ASSUME PlannedAssumption ==
    /\ Searched \subseteq Planned /\ Planned \subseteq Requests
    /\ IsFiniteSet(Planned) /\ Baselines \in Seq(Requests)
ASSUME SurprisingAssumption ==
    IsFiniteSet(Surprising) /\ Surprising \subseteq Field \X State
ASSUME CostAssumption ==
    Cost \in Nat \ {0} /\ Extra \in Nat /\ ConfirmationReserve \in Int
ASSUME SettingsAssumption ==
    Settings \subseteq [trials : Nat \ {0}, budget : Nat]
ASSUME APIsAssumption == APIs \subseteq SUBSET Requests
ASSUME NoneAssumption == None \notin Requests

Claimed == ToSet(Ranked)
ClaimedSat == [r \in Claimed |-> Sat[r]]

N == INSTANCE Networks WITH
        Rules <- Claimed, Inputs <- Requests, Satisfies <- ClaimedSat

VARIABLES
    api,       \* what the API does with each request now
    log,       \* journaled experiments of the operation, in order
    used,      \* requests sent, over all sessions
    stage,     \* where the session is; "off" between sessions
    conf,      \* settings of the session
    base,      \* the accepted baseline, or None
    obs,       \* the session's observations: positions of the log
    seen,      \* inputs the session will not send again
    todo,      \* what is left of the stage's list
    visit,     \* the input visitInput was called with, or None
    control,   \* position of the matched control, or 0
    blocked,   \* rows distinguishing queries have proposed
    pair,      \* the pair being confirmed, or None
    rules,     \* findings of the session so far
    cover,     \* coverage flags of the session
    report,    \* the analysis last reported of the operation, or None
    left       \* sessions and what may still go wrong

session == <<stage, conf, base, obs, seen, todo, visit, control, blocked,
             pair, rules, cover>>
vars == <<api, log, used, session, report, left>>

(* The flags of a session that has not explored. *)
NoCover == [converged |-> FALSE, interaction |-> FALSE, paused |-> FALSE,
            gap |-> FALSE]

-----------------------------------------------------------------------------
(* What the observations say. *)
Evidence(positions) ==
    {[input |-> log[i].input, outcome |-> log[i].outcome] : i \in positions}
Outside(positions) == ~N!Consistent(Evidence(positions))

Accepted(positions) == {i \in positions : log[i].outcome = "accepted"}
Rejected(positions) == {i \in positions : log[i].outcome = "input-rejected"}
First(positions) == CHOOSE i \in positions : \A j \in positions : i <= j

changedFields(x, y) == {f \in Field : x[f] # y[f]}

(* Deviation: only acceptances are taken over. *)
ReusableAccepted(o) == o.outcome = "accepted"

(* reusable: what a resumed session takes over from the journal.  A        *)
(* classified request was sent; inputs the journal withholds a value of    *)
(* are left to Incremental.                                                *)
Reusable(o) == o.outcome \in {"accepted", "input-rejected"}

Retained == {i \in DOMAIN log : Reusable(log[i])}

(* Complete control/trial pairs recorded for a pair of inputs: the trial   *)
(* names the control it was matched with.                                  *)
Trials(good, bad) ==
    {i \in Retained :
        /\ log[i].phase = "validation" /\ log[i].input = bad
        /\ log[i].control \in Retained
        /\ log[log[i].control].phase = "validation-control"
        /\ log[log[i].control].input = good}

-----------------------------------------------------------------------------
(* The claims a session confirms: candidates, simplest first, then the     *)
(* omission of each field, then values the schema rules out.               *)
Claims ==
    [i \in DOMAIN Ranked |-> [kind |-> "rule", rule |-> Ranked[i]]]
    \o SetToSeq({[kind |-> "optional", field |-> f] : f \in Field})
    \o SetToSeq({[kind |-> "repair", field |-> s[1], value |-> s[2]] :
                    s \in Surprising})

(* A matched pair differs only in fields the conclusion names, or in their *)
(* ancestors.                                                              *)
Matched(r, good, bad) ==
    /\ good # bad
    /\ good \in Sat[r] /\ WhenHolds(r, good) /\ bad \notin Sat[r]
    /\ \A f \in changedFields(good, bad) :
          f \in r.fields \/ \E c \in r.fields : <<c, f>> \in Nested

(* findContrast: the first matched pair among the observations. *)
Contrasts(r) ==
    {p \in Rejected(obs) \X Accepted(obs) :
        Matched(r, log[p[2]].input, log[p[1]].input)}
findContrast(r) ==
    LET bad == First({p[1] : p \in Contrasts(r)})
        good == First({p[2] : p \in {q \in Contrasts(r) : q[1] = bad}})
    IN  <<log[good].input, log[bad].input>>

(* Without an observed pair, both sides of the rule must have been seen.   *)
BothSides(r) ==
    /\ \E i \in Accepted(obs) :
          WhenHolds(r, log[i].input) /\ log[i].input \in Sat[r]
    /\ \E i \in Rejected(obs) : log[i].input \notin Sat[r]

(* Pairs the learner may propose from the model alone. *)
ProposedPairs(r) ==
    {p \in Requests \X Requests :
        N!CanAccept(Evidence(obs), p[1]) /\ Matched(r, p[1], p[2])}

redundant(r) ==
    \E f \in rules :
        /\ f.claim.kind = "rule" /\ f.status = "supported"
        /\ Implies(f.claim.rule, r)

(* Accepted observations that show a field omitted, or a ruled-out value.  *)
Showing(c) ==
    {i \in Accepted(obs) :
        log[i].input[c.field] =
            IF c.kind = "optional" THEN Absent ELSE c.value}

(* A claim there is nothing to report about. *)
Skipped(c) ==
    IF c.kind # "rule" THEN Showing(c) = {}
    ELSE LET r == c.rule
         IN  \/ r \notin N!Survivors(Evidence(obs))
             \/ Contrasts(r) = {} /\ ~BothSides(r)
             \/ redundant(r)
             \/ /\ ~Outside(obs)
                /\ \/ ~N!EntailedBy(Evidence(obs), r)
                   \/ Contrasts(r) = {} /\ ProposedPairs(r) = {}

(* The pairs of inputs a claim may be confirmed with, and what the trial   *)
(* is expected to show.                                                    *)
PairsFor(c) ==
    IF c.kind # "rule"
    THEN {[good |-> base, bad |-> log[First(Showing(c))].input,
           expect |-> "accepted"]}
    ELSE {[good |-> p[1], bad |-> p[2], expect |-> "input-rejected"] :
             p \in IF Contrasts(c.rule) = {} THEN ProposedPairs(c.rule)
                   ELSE {findContrast(c.rule)}}
-----------------------------------------------------------------------------
Init ==
    /\ api \in APIs
    /\ log = <<>> /\ used = 0 /\ report = None
    /\ stage = "off" /\ conf = None /\ base = None /\ obs = {} /\ seen = {}
    /\ todo = <<>> /\ visit = None /\ control = 0 /\ blocked = {}
    /\ pair = None /\ rules = {} /\ cover = NoCover
    /\ left \in Bounds

Forget ==
    /\ stage' = "off" /\ conf' = None /\ base' = None /\ obs' = {}
    /\ seen' = {} /\ todo' = <<>> /\ visit' = None /\ control' = 0
    /\ blocked' = {} /\ pair' = None /\ rules' = {} /\ cover' = NoCover

(* The session ends; its analysis replaces the last one. *)
Leave(state, finished, converged, findings) ==
    /\ report' = [state |-> state, finished |-> finished,
                  converged |-> converged, rules |-> findings,
                  trials |-> conf.trials, at |-> Len(log')]
    /\ Forget

(* An error ends the session with what it has, but for the repairs: those  *)
(* count when all of them have been confirmed.                             *)
Fail == Leave("partial", FALSE, cover.converged,
              {f \in rules : f.claim.kind # "repair"})

(* An error of minimisation is dropped. *)
FailUnlessMinimising ==
    IF stage = "minimise"
    THEN /\ stage' = "confirm" /\ todo' = Tail(todo)
         /\ visit' = None /\ control' = 0
         /\ UNCHANGED <<conf, base, obs, seen, blocked, pair, rules, cover,
                        report>>
    ELSE Fail

-----------------------------------------------------------------------------
(* Experiments and requests. *)
Affordable(cost) == conf.budget = 0 \/ used + cost <= conf.budget

Answers(x) ==
    {IF x \in api THEN "accepted" ELSE "input-rejected"}
    \cup {a \in {"inconclusive"} : left.unclear > 0}

(* One experiment with x, from fixtures to readback, and its outcome. *)
Experiment(phase, x, matched, outcome) ==
    /\ outcome \in Answers(x)
    /\ \E extra \in {0} \cup {e \in {Extra} : left.dear > 0} :
          /\ Affordable(Cost + extra) /\ used' = used + Cost + extra
          /\ left' = [left EXCEPT
                !.unclear = IF outcome = "inconclusive" THEN @ - 1 ELSE @,
                !.dear = IF extra > 0 THEN @ - 1 ELSE @]
    /\ log' = Append(log, [phase |-> phase, input |-> x, control |-> matched,
                           outcome |-> outcome])
    /\ UNCHANGED api

(* The requests kept for confirmation: configured, or estimated and at     *)
(* most a quarter of the budget.                                           *)
ReserveOf(c) ==
    LET estimate == 2 * c.trials * Cardinality(Field) * Cost
        quarter == c.budget \div 4
    IN  CASE ConfirmationReserve > 0 -> ConfirmationReserve
          [] ConfirmationReserve < 0 -> 0
          [] OTHER -> IF quarter < estimate THEN quarter ELSE estimate

(* Deviation: only the probe, not its control, is held against the reserve. *)
MustPauseSingle ==
    conf.budget > 0 /\ conf.budget - used < ReserveOf(conf) + Cost

(* explorationBudget: whether a visit would eat into the reserve. *)
MustPause ==
    /\ conf.budget > 0 /\ ConfirmationReserve >= 0
    /\ conf.budget - used < ReserveOf(conf) + 2 * Cost

-----------------------------------------------------------------------------
(* The experiments a session begins with.                                  *)
(* Deviation: only the accepted baselines are taken over.                  *)
CarriedBaselines ==
    {i \in Accepted(Retained) : log[i].phase = "baseline"}
Carried == Retained

(* A session begins with what the journal retains; an operation whose last *)
(* analysis is complete under the same plan is left alone.                 *)
Begin(settings) ==
    LET kept == Carried
        accepted == {i \in Accepted(kept) : log[i].phase = "baseline"}
        resumed == accepted # {}
    IN  /\ stage = "off" /\ left.sessions > 0
        /\ ~(/\ report # None /\ report.state = "complete"
             /\ report.trials = settings.trials)
        /\ conf' = settings
        /\ obs' = kept
        /\ seen' = {log[i].input : i \in kept}
        /\ base' = IF resumed THEN log[First(accepted)].input ELSE None
        /\ stage' = IF resumed THEN "recheck" ELSE "baseline"
        /\ todo' = IF resumed THEN <<>> ELSE Baselines
        /\ left' = [left EXCEPT !.sessions = @ - 1]
        /\ UNCHANGED <<api, log, used, visit, control, blocked, pair,
                       rules, cover, report>>

StartExploring ==
    /\ stage' = "explore" /\ todo' = SetToSeq(Planned)
    /\ obs' = obs \cup {Len(log')}
    /\ UNCHANGED <<conf, visit, control, blocked, pair, rules, cover, report>>

(* A resumed session asks whether its baseline still succeeds. *)
Recheck(outcome) ==
    /\ stage = "recheck"
    /\ Experiment("resume-control", base, 0, outcome)
    /\ IF outcome = "accepted"
       THEN StartExploring /\ UNCHANGED <<base, seen>>
       ELSE Fail

(* Baselines are tried in order until one is accepted; one that stays      *)
(* unclassified, or none accepted, leaves the operation partial.           *)
Baseline(outcome) ==
    /\ stage = "baseline" /\ todo # <<>>
    /\ Experiment("baseline", Head(todo), 0, outcome)
    /\ CASE outcome = "accepted" ->
              /\ base' = Head(todo) /\ seen' = seen \cup {Head(todo)}
              /\ StartExploring
         [] outcome = "input-rejected" ->
              /\ seen' = seen \cup {Head(todo)}
              /\ obs' = obs \cup {Len(log')} /\ todo' = Tail(todo)
              /\ UNCHANGED <<stage, conf, base, visit, control, blocked, pair,
                             rules, cover, report>>
         [] outcome = "inconclusive" -> Fail

NoBaseline ==
    /\ stage = "baseline" /\ todo = <<>>
    /\ UNCHANGED <<api, log, used, left>>
    /\ Fail

-----------------------------------------------------------------------------
(* visitInput: a fresh control of the baseline, then the probe. *)
Visiting == <<conf, base, blocked, pair, rules, cover, report>>

Control(outcome) ==
    /\ visit # None /\ control = 0
    /\ Experiment("control", base, 0, outcome)
    /\ IF outcome = "accepted"
       THEN /\ control' = Len(log')
            /\ UNCHANGED <<Visiting, stage, obs, seen, todo, visit>>
       ELSE FailUnlessMinimising

(* An unclassified answer ends a minimisation, and of a boundary search    *)
(* the session.                                                            *)
Probe(outcome) ==
    /\ visit # None /\ control # 0
    /\ Experiment("probe", visit, control, outcome)
    /\ IF stage = "explore" /\ visit \in Searched /\ outcome = "inconclusive"
       THEN Fail
       ELSE /\ obs' = obs \cup {Len(log')} /\ seen' = seen \cup {visit}
            /\ visit' = None /\ control' = 0
            /\ IF stage = "minimise" /\ outcome = "inconclusive"
               THEN stage' = "confirm" /\ todo' = Tail(todo)
               ELSE UNCHANGED <<stage, todo>>
            /\ UNCHANGED Visiting

Idle == visit = None /\ UNCHANGED <<api, log, used, left, report>>

(* Exploration stops, with or without the coverage it was after. *)
Explored(flags) ==
    /\ cover' = flags
    /\ stage' = "assess" /\ todo' = <<>>
    /\ UNCHANGED <<conf, base, obs, seen, visit, control, blocked, pair, rules>>

VisitNext(x, rest) ==
    IF MustPause
    THEN Explored([cover EXCEPT !.paused = TRUE])
    ELSE /\ visit' = x /\ todo' = rest
         /\ UNCHANGED <<stage, conf, base, obs, seen, control, blocked, pair,
                        rules, cover>>

(* The planned phases, in order. *)
Explore ==
    LET due == {i \in DOMAIN todo : todo[i] \notin seen}
        next == First(due)
    IN  /\ stage = "explore" /\ Idle
        /\ IF due # {}
           THEN VisitNext(todo[next], SubSeq(todo, next + 1, Len(todo)))
           ELSE IF Active /\ ~Outside(obs)
           THEN /\ stage' = "query" /\ todo' = <<>>
                /\ cover' = [cover EXCEPT !.interaction = TRUE]
                /\ UNCHANGED <<conf, base, obs, seen, visit, control, blocked,
                               pair, rules>>
           ELSE Explored([cover EXCEPT !.interaction = TRUE])

(* A row on which two consistent networks disagree is proposed once. *)
Query(x) ==
    /\ stage = "query" /\ Idle /\ ~Outside(obs)
    /\ x \in N!WitnessesBy(Evidence(obs), blocked)
    /\ IF x \in seen
       THEN /\ blocked' = blocked \cup {x}
            /\ UNCHANGED <<stage, conf, base, obs, seen, todo, visit, control,
                           pair, rules, cover>>
       ELSE IF MustPause
       THEN Explored([cover EXCEPT !.paused = TRUE])
       ELSE /\ blocked' = blocked \cup {x} /\ visit' = x
            /\ UNCHANGED <<stage, conf, base, obs, seen, todo, control, pair,
                           rules, cover>>

(* Without such a row the model has converged; outside the language there  *)
(* is nothing to ask for.                                                  *)
StopQuerying ==
    /\ stage = "query" /\ Idle
    /\ Outside(obs) \/ N!WitnessesBy(Evidence(obs), blocked) = {}
    /\ Explored([cover EXCEPT !.converged = ~Outside(obs)])

-----------------------------------------------------------------------------
Gap == \E i \in obs : log[i].outcome = "inconclusive"

(* Gaps take coverage back; a model gap also has its first unexplained     *)
(* rejection minimised.                                                    *)
Assess ==
    LET unexplained ==
            {i \in Rejected(obs) :
                N!Survivors(Evidence(obs)) \cap N!Violated(log[i].input) = {}}
        asked == IF unexplained = {} THEN <<>>
                 ELSE <<log[First(unexplained)].input>>
    IN  /\ stage = "assess" /\ Idle
        /\ cover' = [cover EXCEPT
                !.gap = Gap,
                !.interaction = @ /\ ~Gap,
                !.converged = @ /\ ~Gap /\ ~Outside(obs)]
        /\ todo' = asked \o Claims
        /\ stage' = IF asked = <<>> THEN "confirm" ELSE "minimise"
        /\ UNCHANGED <<conf, base, obs, seen, visit, control, blocked, pair,
                       rules>>

(* Deviation: a request that was sent before is sent again. *)
MinimiseAgain(x) ==
    /\ stage = "minimise" /\ Idle /\ ~MustPause
    /\ \A f \in Field : x[f] \in {base[f], Head(todo)[f]}
    /\ visit' = x
    /\ UNCHANGED <<stage, conf, base, obs, seen, todo, control, blocked, pair,
                   rules, cover>>

(* Minimisation asks requests that take each field from the baseline or    *)
(* from the failure, as Minimize chooses them, until it has enough.        *)
Minimise(x) ==
    /\ stage = "minimise" /\ Idle /\ ~MustPause
    /\ x \notin seen /\ \A f \in Field : x[f] \in {base[f], Head(todo)[f]}
    /\ visit' = x
    /\ UNCHANGED <<stage, conf, base, obs, seen, todo, control, blocked, pair,
                   rules, cover>>

Minimised ==
    /\ stage = "minimise" /\ Idle
    /\ stage' = "confirm" /\ todo' = Tail(todo)
    /\ UNCHANGED <<conf, base, obs, seen, visit, control, blocked, pair, rules,
                   cover>>

-----------------------------------------------------------------------------
Confirming == stage = "confirm" /\ pair = None
Deciding == <<stage, conf, base, seen, visit, control, blocked, cover>>

Skip ==
    LET due == {i \in DOMAIN todo : ~Skipped(todo[i])}
    IN  /\ Confirming /\ Idle /\ todo # <<>> /\ Skipped(Head(todo))
        /\ todo' = IF due = {} THEN <<>>
                   ELSE SubSeq(todo, First(due), Len(todo))
        /\ UNCHANGED <<Deciding, obs, pair, rules>>

(* Outside the language nothing is entailed: claims stay hypotheses. *)
Hypothesise ==
    LET claim == Head(todo)
    IN  /\ Confirming /\ Idle /\ todo # <<>> /\ ~Skipped(claim)
        /\ claim.kind = "rule" /\ Outside(obs)
        /\ rules' = rules \cup {[claim |-> claim, status |-> "hypothesis",
                                 pair |-> None]}
        /\ todo' = Tail(todo)
        /\ UNCHANGED <<Deciding, obs, pair>>

(* confirmPair begins with the recorded pairs; one that showed something   *)
(* else is an error.                                                       *)
StartPair ==
    /\ Confirming /\ visit = None /\ todo # <<>> /\ ~Skipped(Head(todo))
    /\ Head(todo).kind = "rule" => ~Outside(obs)
    /\ UNCHANGED <<api, log, used, left>>
    /\ \E p \in PairsFor(Head(todo)) :
          IF \E i \in Trials(p.good, p.bad) :
                log[i].outcome # p.expect \/ log[log[i].control].outcome # "accepted"
          THEN Fail
          ELSE pair' = p /\ UNCHANGED <<Deciding, obs, todo, rules, report>>

(* Deviation: a control counts before its trial was made. *)
TrialsStarted ==
    Cardinality({i \in Retained : /\ log[i].phase = "validation-control"
                                  /\ log[i].input = pair.good})

TrialsMade == Cardinality(Trials(pair.good, pair.bad))

ConfirmControl(outcome) ==
    /\ pair # None /\ control = 0 /\ TrialsMade < conf.trials
    /\ Experiment("validation-control", pair.good, 0, outcome)
    /\ IF outcome = "accepted"
       THEN /\ control' = Len(log')
            /\ UNCHANGED <<stage, conf, base, obs, seen, todo, visit, blocked,
                           pair, rules, cover, report>>
       ELSE Fail

ConfirmTrial(outcome) ==
    /\ pair # None /\ control # 0
    /\ Experiment("validation", pair.bad, control, outcome)
    /\ IF outcome = pair.expect
       THEN /\ control' = 0
            /\ UNCHANGED <<stage, conf, base, obs, seen, todo, visit, blocked,
                           pair, rules, cover, report>>
       ELSE Fail

(* The pairs of a rule or of an omission become observations; those of a   *)
(* repair do not.                                                          *)
Conclude ==
    LET claim == Head(todo)
        trials == Trials(pair.good, pair.bad)
        shown == IF claim.kind = "repair" THEN obs
                 ELSE obs \cup trials \cup {log[i].control : i \in trials}
        supported ==
            CASE claim.kind = "rule" ->
                    claim.rule \in N!Survivors(Evidence(shown))
              [] claim.kind = "optional" -> TrialsMade = conf.trials
              [] claim.kind = "repair" -> TRUE
    IN  /\ pair # None /\ control = 0 /\ TrialsMade >= conf.trials /\ Idle
        /\ obs' = shown
        /\ rules' = rules \cup
              {[claim |-> claim, pair |-> pair,
                status |-> IF supported THEN "supported" ELSE "hypothesis"]}
        /\ pair' = None /\ todo' = Tail(todo)
        /\ UNCHANGED Deciding

(* A rule an accepted observation violates is reported as refuted. *)
Settled(f) ==
    IF /\ f.claim.kind = "rule"
       /\ \E i \in Accepted(obs) : log[i].input \notin Sat[f.claim.rule]
    THEN [f EXCEPT !.status = "counterexample"] ELSE f

Finish ==
    /\ Confirming /\ visit = None /\ todo = <<>>
    /\ UNCHANGED <<api, log, used, left>>
    /\ Leave(IF Outside(obs) \/ cover.gap \/ cover.paused
             THEN "partial" ELSE "complete",
             TRUE, cover.converged /\ ~Outside(obs), {Settled(f) : f \in rules})

-----------------------------------------------------------------------------
(* What may go wrong. *)

(* An experiment is due. *)
Due ==
    \/ stage = "recheck"
    \/ stage = "baseline" /\ todo # <<>>
    \/ visit # None
    \/ pair # None /\ (control # 0 \/ TrialsMade < conf.trials)

(* The request budget ends in the middle of an experiment. *)
OutOfBudget ==
    /\ Due /\ ~Affordable(Cost + Extra)
    /\ used' = IF used > conf.budget THEN used ELSE conf.budget
    /\ UNCHANGED <<api, log, left>>
    /\ FailUnlessMinimising

(* An experiment meets an error: no fixture, a transport failure, a        *)
(* cleanup that must come first.                                           *)
ExperimentFails ==
    /\ Due /\ left.errors > 0
    /\ left' = [left EXCEPT !.errors = @ - 1]
    /\ UNCHANGED <<api, log, used>>
    /\ FailUnlessMinimising

(* The process dies: nothing of the session is reported. *)
Crash ==
    /\ stage # "off" /\ left.errors > 0
    /\ left' = [left EXCEPT !.errors = @ - 1]
    /\ Forget
    /\ UNCHANGED <<api, log, used, report>>

(* The API changes its mind about a request. *)
Drift(x) ==
    /\ left.drift > 0
    /\ api' = IF x \in api THEN api \ {x} ELSE api \cup {x}
    /\ left' = [left EXCEPT !.drift = @ - 1]
    /\ UNCHANGED <<session, log, used, report>>

-----------------------------------------------------------------------------
Outcomes == {"accepted", "input-rejected", "inconclusive"}

SessionStep ==
    \/ NoBaseline \/ Explore \/ StopQuerying
    \/ Assess \/ Minimised
    \/ Skip \/ Hypothesise \/ StartPair \/ Conclude \/ Finish
    \/ OutOfBudget
    \/ \E o \in Outcomes :
          \/ Recheck(o) \/ Baseline(o) \/ Control(o) \/ Probe(o)
          \/ ConfirmControl(o) \/ ConfirmTrial(o)
    \/ \E x \in Requests : Query(x) \/ Minimise(x)

(* Between sessions the program is not running. *)
Rest == stage = "off" /\ UNCHANGED vars

Next ==
    \/ \E s \in Settings : Begin(s)
    \/ SessionStep
    \/ ExperimentFails \/ Crash
    \/ \E x \in Requests : Drift(x)
    \/ Rest

Spec == Init /\ [][Next]_vars

-----------------------------------------------------------------------------
Stages == {"off", "recheck", "baseline", "explore", "query", "assess",
           "minimise", "confirm"}
Phases == {"resume-control", "baseline", "control", "probe",
           "validation-control", "validation"}
Entries ==
    [phase : Phases, input : Requests, control : Nat, outcome : Outcomes]
AnyClaim ==
    [kind : {"rule"}, rule : Claimed] \cup [kind : {"optional"}, field : Field]
    \cup [kind : {"repair"}, field : Field, value : State]
Pairs ==
    [good : Requests, bad : Requests, expect : {"accepted", "input-rejected"}]
Findings ==
    [claim : AnyClaim, pair : Pairs \cup {None},
     status : {"hypothesis", "supported", "counterexample"}]
Flags == [converged : BOOLEAN, interaction : BOOLEAN, paused : BOOLEAN,
          gap : BOOLEAN]
Analyses ==
    [state : {"partial", "complete"}, finished : BOOLEAN, converged : BOOLEAN,
     rules : SUBSET Findings, trials : Nat, at : Nat]

(* What is left of each stage's list. *)
TodoOK ==
    /\ stage \in {"baseline", "explore"} => todo \in Seq(Requests)
    /\ stage = "minimise" =>
          /\ todo # <<>>
          /\ Head(todo) \in Requests /\ Tail(todo) \in Seq(AnyClaim)
    /\ stage = "confirm" => todo \in Seq(AnyClaim)

TypeOK ==
    /\ api \in SUBSET Requests /\ used \in Nat
    /\ log \in Seq(Entries) /\ \A i \in DOMAIN log : log[i].control < i
    /\ stage \in Stages /\ TodoOK
    /\ conf \in IF stage = "off" THEN {None} ELSE Settings
    /\ base \in Requests \cup {None} /\ visit \in Requests \cup {None}
    /\ obs \subseteq DOMAIN log /\ seen \subseteq Requests
    /\ control \in 0 .. Len(log) /\ blocked \subseteq Requests
    /\ pair \in Pairs \cup {None} /\ rules \subseteq Findings
    /\ cover \in Flags
    /\ report \in Analyses \cup {None}
    /\ report # None => report.at <= Len(log)

(* What was journaled before the analysis was reported. *)
Reported == 1 .. report.at

(* A complete analysis is earned: every planned request was classified,    *)
(* the candidate language explains all that was seen, sessions before      *)
(* included, and under the active strategy its networks agree.             *)
CompleteIsEarned ==
    (report # None /\ report.state = "complete") =>
        /\ \A x \in Planned : \E i \in Reported :
              log[i].input = x /\ log[i].outcome # "inconclusive"
        /\ ~Outside(Reported)
        /\ Active => \A x \in Requests : N!Agreed(Evidence(Reported), x)

(* The complete trials of a pair up to a place in the log. *)
Full(p, n) ==
    {i \in 1 .. n :
        /\ log[i].phase = "validation" /\ log[i].input = p.bad
        /\ log[i].outcome = p.expect /\ log[i].control # 0
        /\ log[log[i].control].input = p.good
        /\ log[log[i].control].outcome = "accepted"}

Supported(findings) == {f \in findings : f.status = "supported"}

(* Every supported finding has as many complete matched trials as the      *)
(* session asked for, with the expected outcomes; the trials of a rule      *)
(* differ only where its conclusion says they may.                         *)
SupportedIsConfirmed ==
    report # None =>
        \A f \in Supported(report.rules) :
            /\ Cardinality(Full(f.pair, report.at)) >= report.trials
            /\ f.claim.kind = "rule" =>
                  Matched(f.claim.rule, f.pair.good, f.pair.bad)

(* That, of a state of its shape. *)
Inv == TypeOK /\ SupportedIsConfirmed

(* The request a session ended with, short of its end: a trial that did    *)
(* not show what it should have.                                           *)
CutShort(i) ==
    ~report.finished /\ i = report.at /\ log[i].phase = "validation"

(* No accepted request, of whatever phase or session, violates a rule      *)
(* reported as supported, but for the trial an error ended the session     *)
(* with: a session is not cut short by anything else it learns.            *)
NoCounterexample ==
    report # None =>
        \A f \in Supported(report.rules) : f.claim.kind = "rule" =>
            \A i \in Accepted(Reported) :
                log[i].input \in Sat[f.claim.rule] \/ CutShort(i)

(* What the journal has classified is never probed again.                  *)
ProbedOnce ==
    [][(log' # log /\ log'[Len(log')].phase = "probe")
        => ~\E i \in DOMAIN log :
              /\ log[i].outcome # "inconclusive"
              /\ log[i].input = log'[Len(log')].input]_vars

(* Exploration leaves the reserve to confirmation, up to what two          *)
(* experiments may cost above their estimate.                              *)
ReserveKept ==
    [][(visit # None /\ visit' = None /\ log' # log /\ conf.budget > 0)
        => conf.budget - used' >= ReserveOf(conf) - 2 * Extra]_vars

(* How far a session is from its end: stages to come, then what is left of *)
(* the stage, then what is left of the visit or the pair under way.        *)
StageRank(s) ==
    CASE s = "off" -> 0 [] s = "confirm" -> 1 [] s = "minimise" -> 2
      [] s = "assess" -> 3 [] s = "query" -> 4 [] s = "explore" -> 5
      [] OTHER -> 6
LeftOfStage ==
    CASE stage = "query" -> Cardinality(Requests \ blocked)
      [] stage = "minimise" -> Cardinality(Requests \ (seen \cup {visit}))
      [] OTHER -> Len(todo)
UnderWay ==
    LET experiment == IF control # 0 THEN 1 ELSE 2
    IN  CASE visit # None -> experiment
          [] visit = None /\ pair # None /\ TrialsMade < conf.trials ->
                2 * (conf.trials - TrialsMade) + experiment
          [] visit = None /\ pair # None /\ TrialsMade >= conf.trials ->
                2 - experiment
          [] visit = None /\ pair = None ->
                IF stage = "confirm" THEN 2 * conf.trials + 3 ELSE 0
Distance == <<StageRank(stage), LeftOfStage, UnderWay>>

Closer(d, e) ==
    \E i \in 1 .. 3 : d[i] < e[i] /\ \A j \in 1 .. i - 1 : d[j] = e[j]

Measured == Distance \in Nat \X Nat \X Nat

(* Phases, minimisation and confirmation nest, but no step of a session    *)
(* leads back: each takes it closer to its end, at a distance that is      *)
(* counted in numbers, so a session has finitely many steps.               *)
SessionAdvances ==
    [][(stage # "off" /\ session' # session)
        => Measured' /\ Closer(Distance', Distance)]_vars
=============================================================================
