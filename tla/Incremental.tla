---------------------------- MODULE Incremental ----------------------------
(***************************************************************************)
(* A chain of runs: a run is resumed from its journal, or a child run      *)
(* inherits what a baseline run learned and is still compatible with the   *)
(* new document and settings (PrepareIncremental, inherit, Load, Resume,   *)
(* progressFor).  An operation's inspection is a baseline and one probe    *)
(* per case, each probe matched with the session's baseline; Inspection    *)
(* has the rest of it.                                                     *)
(*                                                                         *)
(* Three fields of an observation are not the program's: the run that sent *)
(* it, and the document and hints it was sent under, for the properties to *)
(* compare.                                                                *)
(***************************************************************************)
EXTENDS Integers, FiniteSets, Sequences

CONSTANTS
    Op, Order,     \* operations, and the order plans inspect them in
    Depends,       \* [Op -> operations of its dependency context]
    Create,        \* operations that create a resource
    Read,          \* [op -> operation that reads back], for some operations
    Twin,          \* [op -> create or update of the same resource], for some
    Histories,     \* what may happen to a chain of runs: [doc, conf] of the
                   \* first, the [documents, configs] later ones may have, the
                   \* [outcomes] of requests, and bounds: on all [sessions],
                   \* and on the observations before a refused candidate for
                   \* a baseline is followed by another [candidates]
    Inputs,        \* inputs of probes
    Base,          \* the input of the baseline
    Redacted,      \* inputs the journal does not keep
    None

ASSUME ContextAssumption == \A op \in Op : op \in Depends[op]
ASSUME OrderAssumption == Order \in Seq(Op)
ASSUME ReadAssumption ==
    /\ DOMAIN Read \subseteq Op
    /\ \A op \in DOMAIN Read : Read[op] \in Op /\ Depends[Read[op]] \subseteq Depends[op]
ASSUME HistoryAssumption ==
    \A h \in DOMAIN Histories :
        /\ Histories[h].doc \in Histories[h].documents
        /\ Histories[h].conf \in Histories[h].configs
ASSUME NoneAssumption == None \notin Nat

VARIABLES
    journal,    \* events of the current run
    parent,     \* events of the run to inherit from, or <<>>
    run,        \* number of the current run
    mem,        \* what the process holds, or None
    at,         \* "off", "start", "next" or "op"
    todo,       \* operations the session has not come to
    base,       \* the session's accepted baseline, 0 or NoBaseline
    seen,       \* inputs the session will not send again
    sent,       \* observations so far: the last id
    sessions,   \* sessions started
    history     \* the history this is

vars == <<journal, parent, run, mem, at, todo, base, seen, sent, sessions, history>>

chosen == Histories[history]

Withheld == "[REDACTED]"
NoBaseline == -1   \* the API accepted none

-----------------------------------------------------------------------------
(* Deviation: only the operation's own document counts. *)
OwnContext(op, d, c) == [o \in {op} |-> <<d[o], c.hints[o]>>]

(* observationSignature: what the outcome of a request with op depends on. *)
Context(op, d, c) == [o \in Depends[op] |-> <<d[o], c.hints[o]>>]

(* planSignature: the context, and the configured domains of the fields.   *)
planSignature(op, d, c) == <<Context(op, d, c), c.domains>>

(* Domains of one operation's fields outrank those of the field.           *)
Cases(op, c) == IF c.scoped[op] # None THEN c.scoped[op] ELSE c.domains

Classified(o) == o.outcome \in {"accepted", "input-rejected"}
reusable(o) == Classified(o) /\ o.input # Withheld

Journaled(o) == IF o.input \in Redacted THEN [o EXCEPT !.input = Withheld] ELSE o

(* Entries of an operation, and of the others. *)
Of(items, op) == {x \in items : x.op = op}
Others(items, op) == items \ Of(items, op)

SameRule(r, s) == r.op = s.op /\ r.kind = s.kind /\ r.about = s.about
(* Of rules with the same identity the last one stays. *)
Merged(rules, later) == {r \in rules : \A s \in later : ~SameRule(r, s)} \cup later

-----------------------------------------------------------------------------
(* Load and restoreProgress: what the events of a journal amount to.       *)
(* The progress of an operation is its signature, None without any, and    *)
(* those of the experiments that are its own.                              *)
Blank(d, c, n) ==
    [run |-> n, doc |-> d, conf |-> c, inherited |-> FALSE,
     signatures |-> [op \in Op |-> None], experiments |-> {}, effects |-> {},
     observations |-> {}, rules |-> {}, coverage |-> {}, deleted |-> {}]

Started(s, op, signature) ==
    [s EXCEPT !.signatures[op] = signature, !.experiments = Others(@, op)]

Inheriting(s, i) ==
    [s EXCEPT !.inherited = TRUE, !.observations = @ \cup i.observations,
              !.rules = i.rules, !.coverage = i.coverage,
              !.effects = @ \cup i.effects,
              !.signatures = [op \in Op |-> IF op \in DOMAIN i.signatures
                                            THEN i.signatures[op] ELSE @[op]],
              !.experiments = {o \in @ : o.op \notin DOMAIN i.signatures}
                                \cup i.experiments]

(* Deviation: effects are not restored. *)
RestoreNoEffect(s, effect) == s

RestoreEffect(s, effect) == [s EXCEPT !.effects = @ \cup {effect}]

Apply(s, e) ==
    CASE e.kind = "run"         -> Blank(e.doc, e.conf, e.run)
      [] e.kind = "resumed"     -> [s EXCEPT !.conf = e.conf]
      [] e.kind = "inheritance" -> Inheriting(s, e.state)
      [] e.kind = "operation-progress" -> Started(s, e.op, e.signature)
      [] e.kind = "observation" -> [s EXCEPT !.observations = @ \cup {e.obs}]
      [] e.kind = "effect"      -> RestoreEffect(s, e.effect)
      [] e.kind = "experiment"  ->
            [s EXCEPT !.experiments = @ \cup {e.obs}]
      [] e.kind = "resource"    -> [s EXCEPT !.deleted = @ \cup e.ids]
      [] e.kind = "report"      ->
            [s EXCEPT !.rules = e.rules, !.coverage = e.coverage]

Replay(events) ==
    LET upTo[n \in 0 .. Len(events)] ==
            IF n = 0 THEN None ELSE Apply(upTo[n - 1], events[n])
    IN  upTo[Len(events)]

(* Load: a creation of this run that may have succeeded and was not        *)
(* deleted is the run's to clean up.                                       *)
Owned(s) ==
    {o.id : o \in {x \in s.observations :
        x.op \in Create /\ x.origin = None /\ x.outcome # "input-rejected"}}
      \ s.deleted

(* Load refuses a child that stopped before it had inherited. *)
Loadable(events, child) == events # <<>> /\ (child => Replay(events).inherited)

Report(s) == [kind |-> "report", rules |-> s.rules, coverage |-> s.coverage]

-----------------------------------------------------------------------------
(* What a child takes over from its baseline p under a new document d and  *)
(* settings c (PrepareIncremental).                                        *)
Compatible(p, op, d, c) ==
    /\ p.doc[op] # None /\ p.signatures[op] # None
    /\ Context(op, p.doc, p.conf) = Context(op, d, c)
    /\ p.signatures[op] = Context(op, p.doc, p.conf)
    /\ \E o \in Of(p.experiments, op) : reusable(o)

(* Deviation: what the journal withheld does not hold a plan open. *)
EnoughWithheld(p, op, c) ==
    /\ \E v \in Of(p.coverage, op) :
          v.state = "complete" /\ v.signature = planSignature(op, p.doc, p.conf)
    /\ p.conf.domains = c.domains

(* Everything the settings ask for is known and can be reused. *)
Enough(p, op, c) ==
    /\ \E v \in Of(p.coverage, op) :
          v.state = "complete" /\ v.signature = planSignature(op, p.doc, p.conf)
    /\ \A o \in Of(p.experiments, op) : Classified(o) => reusable(o)
    /\ p.conf.domains = c.domains

Action(p, op, d, c) ==
    IF d[op] = None THEN "history"
    ELSE IF op \notin c.selected THEN "out-of-scope"
    ELSE IF ~Compatible(p, op, d, c) THEN "inspect"
    ELSE IF Enough(p, op, c) THEN "inherit"
    ELSE "resume"

Stamp(x, n) == IF x.origin = None THEN [x EXCEPT !.origin = n] ELSE x

(* Deviation: only what is about the operations themselves is carried. *)
SupportingNone(effects, experiments) == {}

(* Observations that effects and experiments refer to. *)
Supporting(effects, experiments) ==
    {e.read : e \in effects} \cup {o.control : o \in experiments}

AnalysisOf(items, whole) == {x \in items : x.op \in whole}

(* inherit: experiments and effects of compatible operations, the          *)
(* observations they rest on, and the analysis of those that need no more. *)
Inheritance(p, d, c) ==
    LET ops == {op \in Op : Action(p, op, d, c) \in {"inherit", "resume"}}
        whole == {op \in Op : Action(p, op, d, c) = "inherit"}
        taken == {o \in p.experiments : o.op \in ops /\ reusable(o)}
        ids == {o.id : o \in taken}
        effects == {e \in p.effects : e.op \in ops /\ e.experiment \in ids}
        carried == {o \in p.observations :
                       o.op \in ops \/ o.id \in Supporting(effects, taken)}
    IN  [signatures |-> [op \in ops |-> Context(op, d, c)],
         experiments |-> {Stamp(o, p.run) : o \in taken},
         effects |-> effects,
         observations |-> {[Stamp(o, p.run) EXCEPT
                               !.evidenceOnly = @ \/ o.op \notin ops \/ o.id \notin ids] :
                           o \in carried},
         rules |-> {Stamp(r, p.run) : r \in AnalysisOf(p.rules, whole)},
         coverage |-> {[Stamp(v, p.run) EXCEPT !.signature = planSignature(v.op, d, c)] :
                           v \in AnalysisOf(p.coverage, whole)}]

-----------------------------------------------------------------------------
(* The operations a session inspects. *)
Planned(op) == op \in mem.conf.selected /\ mem.doc[op] # None

(* The "resource" events of what was cleaned up, as one. *)
Deleted(ids) == IF ids = {} THEN <<>> ELSE <<[kind |-> "resource", ids |-> ids]>>

RunEvent(d, c, n) == [kind |-> "run", doc |-> d, conf |-> c, run |-> n]

Init ==
    /\ history \in DOMAIN Histories
    /\ journal = <<RunEvent(chosen.doc, chosen.conf, 1)>> /\ parent = <<>> /\ run = 1
    /\ mem = Blank(chosen.doc, chosen.conf, 1)
    /\ at = "next" /\ todo = Order
    /\ base = 0 /\ seen = {} /\ sent = 0 /\ sessions = 1

(* Inspect --baseline-run: the new run is recorded before it inherits. *)
StartChild(d, c) ==
    /\ at = "off" /\ sessions < chosen.sessions
    /\ parent' = IF Loadable(journal, parent # <<>>) THEN journal ELSE parent
    /\ Owned(Replay(parent')) = {}
    /\ run' = run + 1 /\ sessions' = sessions + 1
    /\ journal' = <<RunEvent(d, c, run')>>
    /\ mem' = Blank(d, c, run')
    /\ at' = "start"
    /\ UNCHANGED <<todo, base, seen, sent>>

Inherit ==
    /\ at = "start"
    /\ LET state == Inheritance(Replay(parent), mem.doc, mem.conf)
           next == Inheriting(mem, state)
       IN  /\ journal' = journal \o <<[kind |-> "inheritance", state |-> state], Report(next)>>
           /\ mem' = next
    /\ at' = "next" /\ todo' = Order
    /\ UNCHANGED <<parent, run, base, seen, sent, sessions>>

(* Resume: settings may change, but not so that recorded outcomes belong   *)
(* to another context; what the run may own is deleted first.              *)
Resume(c) ==
    /\ at = "off" /\ sessions < chosen.sessions
    /\ Loadable(journal, parent # <<>>)
    /\ LET s == Replay(journal)
           kept == {o \in s.experiments : s.signatures[o.op] # Context(o.op, s.doc, c)}
       IN  /\ \A o \in kept : ~Classified(o)
           /\ journal' = journal \o Deleted(Owned(s)) \o <<[kind |-> "resumed", conf |-> c]>>
           /\ mem' = [s EXCEPT !.conf = c, !.deleted = @ \cup Owned(s)]
    /\ todo' = Order
    /\ at' = "next" /\ sessions' = sessions + 1
    /\ UNCHANGED <<parent, run, base, seen, sent>>

-----------------------------------------------------------------------------
Complete(op) ==
    \E v \in Of(mem.coverage, op) :
        v.state = "complete" /\ v.signature = planSignature(op, mem.doc, mem.conf)

Skip ==
    /\ at = "next" /\ todo # <<>>
    /\ ~Planned(Head(todo)) \/ Complete(Head(todo))
    /\ todo' = Tail(todo)
    /\ UNCHANGED <<journal, parent, run, mem, at, base, seen, sent, sessions>>

(* The operation's earlier analysis is dropped, its experiments are kept   *)
(* when they belong to this context (dropAnalysis, progressFor).           *)
Begin ==
    /\ at = "next" /\ todo # <<>>
    /\ Planned(Head(todo)) /\ ~Complete(Head(todo))
    /\ LET op == Head(todo)
           signature == Context(op, mem.doc, mem.conf)
           known == mem.signatures[op] = signature
           dropped == [mem EXCEPT !.rules = Others(@, op), !.coverage = Others(@, op)]
           event == [kind |-> "operation-progress", op |-> op, signature |-> signature]
       IN  IF known
           THEN /\ mem' = dropped /\ UNCHANGED journal
                /\ seen' = {o.input : o \in {x \in Of(mem.experiments, op) : reusable(x)}}
           ELSE /\ mem' = Started([dropped EXCEPT !.effects = Others(@, op)], op, signature)
                /\ journal' = Append(journal, event) /\ seen' = {}
    /\ at' = "op" /\ base' = 0
    /\ UNCHANGED <<parent, run, todo, sent, sessions>>

(* The process is gone; a session starts from the journal again. *)
Ended == mem' = None /\ at' = "off" /\ todo' = <<>> /\ base' = 0 /\ seen' = {}

Logged(kind, o) == [kind |-> kind, obs |-> Journaled(o)]

(* One experiment: the request, the readback of an accepted one with its   *)
(* effect, the record of the experiment, and the deletion of what it       *)
(* created.  The process may die after any of these.                       *)
Experiment(in, phase, outcome, reach, survivor) ==
    LET op == Head(todo)
        Obs(id, o, ph, result, ctl) ==
            [id |-> id, op |-> o, input |-> in, phase |-> ph, outcome |-> result,
             control |-> ctl, origin |-> None, evidenceOnly |-> FALSE,
             doc |-> mem.doc, hints |-> mem.conf.hints, sender |-> run]
        main == Obs(sent + 1, op, phase, outcome, base)
        readback == Obs(sent + 2, Read[op], "readback", "accepted", sent + 1)
        effect == [op |-> op, experiment |-> sent + 1, read |-> sent + 2]
        readable == op \in DOMAIN Read /\ outcome = "accepted"
        gone == IF op \in Create /\ outcome # "input-rejected" THEN {sent + 1} ELSE {}
        written == <<Logged("observation", main)>>
                   \o (IF reach > 1 /\ readable
                       THEN <<Logged("observation", readback),
                              [kind |-> "effect", effect |-> effect]>> ELSE <<>>)
                   \o (IF reach > 2 THEN <<Logged("experiment", main)>> ELSE <<>>)
                   \o (IF reach > 3 THEN Deleted(gone) ELSE <<>>)
    IN  /\ journal' = journal \o written
        /\ sent' = sent + 2
        /\ IF reach < 4 THEN Ended
           ELSE /\ mem' = [mem EXCEPT
                      !.observations = @ \cup IF readable THEN {main, readback} ELSE {main},
                      !.effects = @ \cup IF readable THEN {effect} ELSE {},
                      !.experiments = @ \cup {main},
                      !.deleted = @ \cup gone]
                /\ base' = survivor /\ seen' = seen \cup {in}
                /\ UNCHANGED <<at, todo>>
    /\ UNCHANGED <<parent, run, sessions>>

(* An earlier session had a baseline: it is checked, nothing else is tried. *)
Rechecked(op) ==
    \E o \in Of(mem.experiments, op) :
        reusable(o) /\ o.phase = "baseline" /\ o.outcome = "accepted"

(* A refused candidate leaves the session to the next one, if there is one. *)
Survivors(outcome) ==
    CASE outcome = "accepted" -> {sent + 1}
      [] /\ outcome = "input-rejected" /\ ~Rechecked(Head(todo))
         /\ sent < chosen.candidates -> {0, NoBaseline}
      [] OTHER -> {NoBaseline}

(* A fresh baseline, whether or not an earlier session had one.  Base      *)
(* stands for all candidates, which the model does not tell apart.         *)
Baseline(outcome, reach) ==
    /\ at = "op" /\ base = 0
    /\ \E survivor \in Survivors(outcome) :
          Experiment(Base, "baseline", outcome, reach, survivor)

Probe(in, outcome, reach) ==
    /\ at = "op" /\ base > 0
    /\ in \in Cases(Head(todo), mem.conf) \ seen
    /\ Experiment(in, "probe", outcome, reach, base)

(* What the session concludes from a probe and its control. *)
RuleOf(o) ==
    [op |-> o.op, kind |-> IF o.outcome = "accepted" THEN "optional" ELSE "required",
     about |-> o.input, evidence |-> {o.id, o.control}, origin |-> None]

Conclude(op, state) ==
    LET probes == {o \in Of(mem.experiments, op) : o.phase = "probe" /\ reusable(o)}
        entry == [op |-> op, state |-> state, origin |-> None,
                  signature |-> planSignature(op, mem.doc, mem.conf)]
        next == [mem EXCEPT !.rules = @ \cup {RuleOf(o) : o \in probes},
                            !.coverage = @ \cup {entry}]
    IN  /\ mem' = next
        /\ journal' = Append(journal, Report(next))
        /\ at' = "next" /\ base' = 0 /\ seen' = {}

(* The operation is done: completely if every case was classified. *)
Finish ==
    /\ at = "op"
    /\ base > 0 => Cases(Head(todo), mem.conf) \subseteq seen
    /\ base # 0
    /\ LET op == Head(todo)
           known == {o.input : o \in {x \in Of(mem.experiments, op) : Classified(x)}}
       IN  Conclude(op, IF base > 0 /\ Cases(op, mem.conf) \subseteq known
                        THEN "complete" ELSE "partial")
    /\ todo' = Tail(todo)
    /\ UNCHANGED <<parent, run, sent, sessions>>

(* An error within an operation: without requests or time left, or with    *)
(* resources left over, it ends the session; otherwise the next operation  *)
(* has its turn.                                                           *)
Stop ==
    /\ at = "op"
    /\ Conclude(Head(todo), "partial")
    /\ todo' \in {<<>>, Tail(todo)}
    /\ UNCHANGED <<parent, run, sent, sessions>>

effectRules ==
    {[op |-> op, kind |-> "effect", about |-> None, origin |-> None,
      evidence |-> UNION {{e.experiment, e.read} : e \in Of(mem.effects, op)}] :
        op \in {e.op : e \in mem.effects}}

(* addOperationRequiredness: a field one operation on a resource needs and *)
(* its counterpart does not.                                               *)
requiredness ==
    {[r[1] EXCEPT !.kind = "requiredHereOnly", !.evidence = @ \cup r[2].evidence] :
        r \in {x \in mem.rules \X mem.rules :
                 /\ x[1].op \in DOMAIN Twin /\ x[2].op = Twin[x[1].op]
                 /\ x[1].kind = "required" /\ x[2].kind = "optional"
                 /\ x[1].about = x[2].about}}

EndRun ==
    /\ at = "next" /\ todo = <<>>
    /\ journal' = Append(journal,
          Report([mem EXCEPT !.rules = Merged(@, effectRules \cup requiredness)]))
    /\ Ended
    /\ UNCHANGED <<parent, run, sent, sessions>>

Crash == at # "off" /\ Ended /\ UNCHANGED <<journal, parent, run, sent, sessions>>

Step ==
    \/ \E d \in chosen.documents, c \in chosen.configs : StartChild(d, c)
    \/ Inherit
    \/ \E c \in chosen.configs : Resume(c)
    \/ Skip \/ Begin
    \/ \E outcome \in chosen.outcomes, reach \in 1 .. 4 : Baseline(outcome, reach)
    \/ \E in \in Inputs, outcome \in chosen.outcomes, reach \in 1 .. 4 :
          Probe(in, outcome, reach)
    \/ Finish \/ Stop \/ EndRun \/ Crash

(* A history is chosen once. *)
Next == Step /\ UNCHANGED history

Spec == Init /\ [][Next]_vars

-----------------------------------------------------------------------------
Running == at # "off"

(* What the process holds, or what the journal says when there is none. *)
Held == IF Running THEN mem ELSE Replay(journal)
HeldContext(s, op) == Context(op, s.doc, s.conf)

(* Nothing the observation depends on has changed since. *)
Current(s, o) ==
    \A op \in Depends[o.op] : o.doc[op] = s.doc[op] /\ o.hints[op] = s.conf.hints[op]

IdsOf(s) == {o.id : o \in s.observations}

TypeOK ==
    /\ at \in {"off", "start", "next", "op"}
    /\ Running \/ mem = None
    /\ todo \in Seq(Op)
    /\ base \in NoBaseline .. sent
    /\ Held.run = run
    /\ \A v \in Held.coverage : v.state \in {"complete", "partial"}
    /\ \A v, w \in Held.coverage : v.op = w.op => v = w

(* An outcome that is taken over, or exported as a fact, was observed in   *)
(* the context of this run: the same definitions and settings of the       *)
(* operation and of all it depends on, however many runs lie between.      *)
ReusedIsCurrent ==
    LET s == Held
    IN  /\ \A o \in s.experiments :
              s.signatures[o.op] = HeldContext(s, o.op) => Current(s, o)
        /\ \A o \in s.observations : o.evidenceOnly \/ Current(s, o)

(* An operation counts as complete, and is not inspected again, only if    *)
(* every case of its settings was classified in the present context; where *)
(* completeness is inherited, by an outcome whose input is still known.    *)
CompletionIsEarned ==
    LET s == Held
        Known(op) == {o \in Of(s.observations, op) : Classified(o) /\ Current(s, o)}
        Hidden(x) == IF x \in Redacted THEN Withheld ELSE x
    IN  \A v \in s.coverage :
            (v.state = "complete" /\ v.signature = planSignature(v.op, s.doc, s.conf)) =>
                \A x \in Cases(v.op, s.conf) :
                    \E o \in Known(v.op) :
                        o.input \in IF v.origin = None THEN {x, Hidden(x)} ELSE {x}

(* Rules that rest on observations the run need not have.  Those that      *)
(* compare two operations are filed under one of them, and taken over      *)
(* although the other has changed and without its observations.  The       *)
(* effect of an experiment that was never recorded (the process died in    *)
(* between) supports rules like any other, but its readback is not taken   *)
(* over with them.  The two properties below except both.                  *)
Unsupported(r) ==
    \/ r.kind = "requiredHereOnly"
    \/ r.kind = "effect" /\ r.origin # None

(* A run needs no other run's record: what rules, effects and reused       *)
(* experiments refer to is among its own observations.                     *)
SelfContained ==
    LET s == Held
    IN  /\ \A r \in s.rules : Unsupported(r) \/ r.evidence \subseteq IdsOf(s)
        /\ \A e \in s.effects : {e.experiment, e.read} \subseteq IdsOf(s)
        /\ \A o \in s.experiments : {o.id, o.control} \ {0} \subseteq IdsOf(s)

(* What a report concludes rests on outcomes of the present context. *)
RulesAreCurrent ==
    LET s == Held
        current == {o \in s.observations : Current(s, o)}
    IN  \A r \in s.rules :
            Unsupported(r) \/ r.evidence \subseteq {o.id : o \in current}

(* An observation names the run that sent the request if that is another   *)
(* one, over any number of inheritances.                                   *)
OriginIsSender ==
    LET s == Held
    IN  \A o \in s.observations \cup s.experiments :
            o.origin = IF o.sender = run THEN None ELSE o.sender

(* What a run may delete was created by its own requests. *)
OwnedIsOwn ==
    LET s == Held
    IN  \A o \in s.observations : o.id \in Owned(s) => o.sender = run

(* What is held is whole, and every observation is known for whose it is. *)
Inv == TypeOK /\ SelfContained /\ OriginIsSender /\ OwnedIsOwn

(* What is reused, and what is concluded, is of the present context. *)
EvidenceIsCurrent == ReusedIsCurrent /\ RulesAreCurrent

(* A session that dies now comes back with what it knows: the journal      *)
(* amounts to what the process holds, but for inputs it must not keep.     *)
ReplayIsMemory ==
    Running =>
        LET s == Replay(journal)
            Kept(items) == {Journaled(o) : o \in items}
        IN  /\ s.conf = mem.conf /\ s.effects = mem.effects /\ s.deleted = mem.deleted
            /\ s.signatures = mem.signatures
            /\ s.observations = Kept(mem.observations)
            /\ s.experiments = Kept(mem.experiments)
=============================================================================
