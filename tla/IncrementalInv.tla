--------------------------- MODULE IncrementalInv ---------------------------
(***************************************************************************)
(* The inductive invariant of Incremental.  It is about three accounts of  *)
(* a run: what its journal amounts to, what its process holds, and what    *)
(* the journal of the run to inherit from amounts to.  Each is whole:      *)
(* experiments, effects and rules find their observations in it, and an    *)
(* observation tells whose it is.  Each is steady, as long as sessions of  *)
(* one run keep their hints: what is to be reused is of its context.       *)
(***************************************************************************)
EXTENDS Incremental

Documents == UNION {Histories[h].documents : h \in DOMAIN Histories}
Configs == UNION {Histories[h].configs : h \in DOMAIN Histories}
Outcome == {"accepted"} \cup UNION {Histories[h].outcomes : h \in DOMAIN Histories}
Input == Inputs \cup {Base, Withheld}
Origin == Nat \cup {None}
Signature == {Context(op, d, c) : op \in Op, d \in Documents, c \in Configs}
PlanSignature == {planSignature(op, d, c) : op \in Op, d \in Documents, c \in Configs}

Observation ==
    [id : Nat \ {0}, op : Op, input : Input,
     phase : {"baseline", "probe", "readback"}, outcome : Outcome, control : Nat,
     origin : Origin, evidenceOnly : BOOLEAN, doc : Documents,
     hints : {c.hints : c \in Configs}, sender : Nat]
Effect == [op : Op, experiment : Nat, read : Nat]
Rule ==
    [op : Op, kind : {"required", "optional", "requiredHereOnly", "effect"},
     about : Input \cup {None}, evidence : SUBSET Nat, origin : Origin]
Verdict ==
    [op : Op, state : {"complete", "partial"}, origin : Origin,
     signature : PlanSignature]

(* What a journal amounts to, and what a process holds. *)
Account ==
    [run : Nat, doc : Documents, conf : Configs, inherited : BOOLEAN,
     signatures : [Op -> Signature \cup {None}], experiments : SUBSET Observation,
     effects : SUBSET Effect, observations : SUBSET Observation,
     rules : SUBSET Rule, coverage : SUBSET Verdict, deleted : SUBSET Nat]

-----------------------------------------------------------------------------
(* An observation of that number was made with op. *)
Found(s, i, op) == \E o \in s.observations : o.id = i /\ o.op = op

(* One request has one number and one sender, in whatever run. *)
Traced(s, last) ==
    /\ \A o \in s.observations \cup s.experiments :
          /\ o.id <= last /\ o.sender <= s.run
          /\ o.origin = IF o.sender = s.run THEN None ELSE o.sender
    /\ \A o, q \in s.observations : o.id = q.id => o.sender = q.sender

(* The observation of an experiment says the same. *)
Echoed(s, o) ==
    \E q \in s.observations :
        /\ q.id = o.id /\ q.op = o.op /\ q.input = o.input
        /\ q.outcome = o.outcome /\ q.doc = o.doc /\ q.hints = o.hints

(* Experiments are matched with an observation of the same operation. *)
Recorded(s) ==
    \A o \in s.experiments :
        /\ Echoed(s, o)
        /\ o.control = 0 \/ Found(s, o.control, o.op)
        /\ o.phase = "probe" => o.control # 0

Seen(s) ==
    \A e \in s.effects :
        /\ e.op \in DOMAIN Read
        /\ Found(s, e.experiment, e.op) /\ Found(s, e.read, Read[e.op])

(* What a probe showed rests on observations of its operation. *)
Probed(r) == r.kind \in {"required", "optional"}

Grounded(s) ==
    \A r \in s.rules :
        /\ Probed(r) => \A i \in r.evidence : Found(s, i, r.op)
        /\ r.kind = "effect" => r.origin # None \/ r.evidence \subseteq IdsOf(s)

Single(s) == \A v, w \in s.coverage : v.op = w.op => v = w

Whole(s, last) ==
    /\ s \in Account
    /\ Traced(s, last) /\ Recorded(s) /\ Seen(s) /\ Grounded(s) /\ Single(s)

(* It contains no input that the journal withholds. *)
Bare(s) == \A o \in s.observations \cup s.experiments : Journaled(o) = o

-----------------------------------------------------------------------------
(* The same, of observations in the present context. *)
FoundNow(s, i, op) ==
    \E o \in s.observations : o.id = i /\ o.op = op /\ Current(s, o)

Fresh(s) ==
    /\ \A o \in s.observations : o.evidenceOnly \/ Current(s, o)
    /\ \A o \in s.experiments :
          /\ Current(s, o) /\ s.signatures[o.op] = HeldContext(s, o.op)
          /\ o.control = 0 \/ FoundNow(s, o.control, o.op)
    /\ \A e \in s.effects :
          /\ s.signatures[e.op] = HeldContext(s, e.op)
          /\ FoundNow(s, e.experiment, e.op) /\ FoundNow(s, e.read, Read[e.op])

FreshRules(s) ==
    \A r \in s.rules :
        /\ Probed(r) => \A i \in r.evidence : FoundNow(s, i, r.op)
        /\ r.kind = "effect" /\ r.origin = None =>
              \A i \in r.evidence : \E op \in Op : FoundNow(s, i, op)

(* Every case of a complete operation has a classified experiment. *)
Hide(x) == IF x \in Redacted THEN Withheld ELSE x

Earned(s) ==
    \A v \in s.coverage : v.state = "complete" =>
        \A x \in v.signature[2] :
            \E o \in s.experiments :
                /\ o.op = v.op /\ Classified(o)
                /\ o.input \in IF v.origin = None THEN {x, Hide(x)} ELSE {x} \ Redacted

(* Domains are configured by field, for no operation in particular. *)
ByField == \A c \in Configs, op \in Op : c.scoped[op] = None

Steady(s) == Fresh(s) /\ FreshRules(s) /\ (ByField => Earned(s))

-----------------------------------------------------------------------------
Kept(items) == {Journaled(o) : o \in items}

(* The journal tells what the process holds, and maybe effects it dropped. *)
Mirrors(s, m) ==
    /\ s.run = m.run /\ s.doc = m.doc /\ s.conf = m.conf
    /\ s.inherited = m.inherited /\ s.signatures = m.signatures
    /\ m.effects \subseteq s.effects /\ s.deleted = m.deleted
    /\ s.observations = Kept(m.observations)
    /\ s.experiments = Kept(m.experiments)

Numbers ==
    /\ run \in Nat /\ sent \in Nat /\ base \in NoBaseline .. sent
    /\ history \in DOMAIN Histories /\ todo \in Seq(Op)
    /\ at \in {"off", "start", "next", "op"}
    /\ at = "off" => mem = None

Files ==
    /\ journal # <<>> /\ journal \in Seq({journal[i] : i \in DOMAIN journal})
    /\ parent # <<>> => parent \in Seq({parent[i] : i \in DOMAIN parent})

Accounts ==
    /\ Whole(Replay(journal), sent) /\ Bare(Replay(journal))
    /\ Replay(journal).run = run
    /\ Running => Whole(mem, sent) /\ Mirrors(Replay(journal), mem)
    /\ parent # <<>> =>
          /\ Whole(Replay(parent), sent) /\ Bare(Replay(parent))
          /\ Replay(parent).run < run

Stages ==
    /\ at = "start" =>
          parent # <<>> /\ mem = Blank(mem.doc, mem.conf, run) /\ Replay(journal) = mem
    /\ at = "op" =>
          /\ todo # <<>>
          /\ mem.signatures[Head(todo)] = HeldContext(mem, Head(todo))
          /\ base > 0 => Found(mem, base, Head(todo))
          /\ \A v \in mem.coverage : v.op # Head(todo)

Sound == Numbers /\ Files /\ Accounts /\ Stages

AllSteady ==
    /\ Steady(Replay(journal))
    /\ Running => Steady(mem) /\ Replay(journal).effects = mem.effects
    /\ parent # <<>> => Steady(Replay(parent))
    /\ at = "op" /\ base > 0 => FoundNow(mem, base, Head(todo))

(* A resumed run keeps the hints it had. *)
HintsKept ==
    (at = "off" /\ at' = "next") => mem'.conf.hints = Replay(journal).conf.hints

IInv == Inv /\ Sound
SInv == IInv /\ AllSteady
=============================================================================
