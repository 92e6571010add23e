----------------------------- MODULE ResourceRun -----------------------------
(***************************************************************************)
(* The life of the resources a run creates on the API under test:          *)
(* experiments provision fixtures and send a trial, every request is       *)
(* journaled before and after it is sent, resources are registered and     *)
(* cleaned up in reverse order, and a process that dies at any point is    *)
(* followed by one that rebuilds its resources from the journal.           *)
(*                                                                         *)
(* internal/engine/run.go      experiment, resolve, send, register, cleanup*)
(* internal/engine/resume.go   Load and Resume                             *)
(* internal/httpclient/client.go  Do: intent, dispatch, observation        *)
(*                                                                         *)
(* The journal is kept as the maps Load builds from it; that an append is  *)
(* durable once it returned is the subject of module Journal.              *)
(***************************************************************************)
EXTENDS Naturals, SequencesExt

CONSTANTS
  Op,           \* operations of the document
  NoOp,         \* "" where the code keeps an operation key
  Role,         \* [Op -> role]                          graph.Role
  Producers,    \* [Op -> SUBSET Op]                     graph.Plan.Bindings
  DeleteOf,     \* [Op -> Op \cup {NoOp}]                graph.Plan.Companion
  Target,       \* [Op -> Op \cup {NoOp}] the producer of the item an
                \*   operation's path names             graph.Plan.Bindings
  Polled,       \* operations with a polling hint
  Attempts,     \* Config.Cleanup.Attempts
  MaxIds,       \* bound: requests with a journaled intent
  MaxExps,      \* bound: experiments
  MaxCrashes    \* bound: process deaths

Roles == {"create", "update", "delete", "read", "action"}

ASSUME NoOpAssumption == NoOp \notin Op
ASSUME PlanAssumption ==
  /\ Role \in [Op -> Roles]
  /\ Producers \in [Op -> SUBSET Op]
  /\ DeleteOf \in [Op -> Op \cup {NoOp}]
  /\ Target \in [Op -> Op \cup {NoOp}]
  /\ Polled \subseteq Op
\* Companions may be any operations (hints.delete), of several creators too;
\* but not one that the run takes for a creation itself.
ASSUME DeleteAssumption ==
  \A p \in Op : DeleteOf[p] # NoOp => Role[DeleteOf[p]] # "create"
ASSUME BoundsAssumption ==
  /\ Attempts \in Nat \ {0}
  /\ MaxIds \in Nat /\ MaxExps \in Nat /\ MaxCrashes \in Nat

Id == 1 .. MaxIds
NoId == 0           \* a request that failed before its intent was written
Borrowed == MaxIds + 1 \* a fixture read from the API, not owned by the run

\* How a request ended, as far as its callers tell apart.
\*   gone     404 or 410            async   202
\*   error    sent, transport error unsent  not sent, error returned
\*   skipped  not sent, no error (authentication failed)
Outcome == {"accepted", "input-rejected", "inconclusive", "gone", "async",
            "error", "unsent", "skipped"}

State == {"none", "owned", "ambiguous", "leftover", "deleted"}
Resource == [state : State, parents : SUBSET Id, del : Op \cup {NoOp}]
NoRes == [state |-> "none", parents |-> {}, del |-> NoOp]

VARIABLES
  \* the API under test
  live,      \* writes whose resource exists
  pending,   \* writes whose resource may still appear
  \* the journal, as Load indexes it
  begun,     \* the "run" event is there
  intent,    \* [Id -> operation of the "intent" event, or NoOp]
  seen,      \* [Id -> outcome of the first "observation" event, or "none"]
  saved,     \* [Id -> last "resource" event]
  firsts,    \* ids in the order of their first "resource" event
  verdict,   \* Report.State of the last "report" event
  \* the process
  pc,
  res,       \* Report.Resources, as ids in order
  mem,       \* [Id -> the entry of Report.Resources]
  tried,     \* cleanupTried
  exp,       \* the experiment under way
  call,      \* the request under way
  sweep,     \* the cleanupFrom under way
  \* bounds and observation
  next,      \* next fresh id
  exps, crashes,
  born,      \* [Id -> fixtures the request was sent on top of]
  granted,   \* writes whose creation the API confirmed
  deletes,   \* [Id -> cleanup DELETEs sent by this process]
  swallowed, \* this process dropped the error of a minimisation experiment
  mistaken   \* resources an accepted delete trial settled that it did not name

server == <<live, pending, mistaken>>
journal == <<begun, intent, seen, saved, firsts, verdict>>
memory == <<res, mem, tried>>
ghosts == <<born, granted, deletes, swallowed>>
vars == <<server, journal, pc, memory, exp, call, sweep, next, exps, crashes,
          ghosts>>

NoExp == [op |-> NoOp, need |-> {}, fix |-> [p \in Op |-> NoId],
          start |-> 0, err |-> "nil"]
NoCall == [id |-> NoId, op |-> NoOp, kind |-> "none", of |-> NoId,
           out |-> "skipped"]
NoSweep == [from |-> 0, i |-> 0, attempt |-> 0, failures |-> {},
            after |-> "none"]

Init ==
  /\ live = {} /\ pending = {}
  /\ begun = FALSE
  /\ intent = [id \in Id |-> NoOp]
  /\ seen = [id \in Id |-> "none"]
  /\ saved = [id \in Id |-> NoRes]
  /\ firsts = << >>
  /\ verdict = "running"
  /\ pc = "down"
  /\ res = << >> /\ mem = [id \in Id |-> NoRes] /\ tried = {}
  /\ exp = NoExp /\ call = NoCall /\ sweep = NoSweep
  /\ next = 1 /\ exps = 0 /\ crashes = 0
  /\ born = [id \in Id |-> {}]
  /\ granted = {}
  /\ deletes = [id \in Id |-> 0]
  /\ swallowed = FALSE
  /\ mistaken = {}

------------------------------------------------------------------------------
(* What Load makes of the journal *)

IsWrite(op) == op # NoOp /\ Role[op] # "read"
IsCreate(op) == op # NoOp /\ Role[op] = "create"

\* Operations that remove the resource their path names.
Deletions ==
  {op \in Op : Role[op] = "delete" \/ \E p \in Op : DeleteOf[p] = op}

\* Deviation: a transport error is taken for a creation that did not happen.
MayHaveCreatedNoError(out) ==
  out \in {"accepted", "inconclusive", "gone", "async"}

\* The outcomes register and Load take for a resource that exists or may.
MayHaveCreated(out) ==
  out \in {"accepted", "inconclusive", "gone", "async", "error"}

\* Deviation: Load overlooks intents without an observation.
UnresolvedNever(id) == FALSE

Unresolved(id) ==
  saved[id] = NoRes /\ IsWrite(intent[id]) /\ seen[id] = "none"

Unregistered(id) ==
  saved[id] = NoRes /\ IsCreate(intent[id]) /\ MayHaveCreated(seen[id])

\* Deviation: Load takes every unregistered creation for owned.
RecoveredOwned(id) ==
  IF saved[id] # NoRes THEN saved[id]
  ELSE IF Unresolved(id) THEN [NoRes EXCEPT !.state = "ambiguous"]
  ELSE IF Unregistered(id)
    THEN [state |-> "owned", parents |-> {}, del |-> DeleteOf[intent[id]]]
  ELSE NoRes

Recovered(id) ==
  IF saved[id] # NoRes THEN saved[id]
  ELSE IF Unresolved(id) THEN [NoRes EXCEPT !.state = "ambiguous"]
  ELSE IF Unregistered(id)
    THEN [state |-> IF seen[id] = "accepted" THEN "owned" ELSE "ambiguous",
          parents |-> {}, del |-> DeleteOf[intent[id]]]
  ELSE NoRes

\* Registered resources in journal order, then unresolved writes in the order
\* of a map, then creations seen but not registered in the order of requests.
Unresolveds == SetToSeqs({id \in Id : Unresolved(id)})
Unregistereds == SetToSeqs({id \in Id : Unregistered(id)})
Rising(s) == \A i, j \in DOMAIN s : i < j => s[i] < s[j]

RecoveredOrders ==
  UNION {{firsts \o u \o o : o \in {s \in Unregistereds : Rising(s)}} :
           u \in Unresolveds}

Claims == {id \in Id : Recovered(id).state \notin {"none", "deleted"}}

------------------------------------------------------------------------------
(* Processes *)

Forget ==
  /\ pc' = "down"
  /\ res' = << >> /\ mem' = [id \in Id |-> NoRes] /\ tried' = {}
  /\ exp' = NoExp /\ call' = NoCall /\ sweep' = NoSweep

\* cleanupFrom(from - 1): walk res from its end down to index from.
Sweep(from, after) ==
  [from |-> from, i |-> Len(res'), attempt |-> 0, failures |-> {},
   after |-> after]

Inspect ==
  /\ pc = "down" /\ ~begun
  /\ begun' = TRUE
  /\ pc' = "ready"
  /\ deletes' = [id \in Id |-> 0]
  /\ UNCHANGED <<server, intent, seen, saved, firsts, verdict, memory, exp,
                 call, sweep, next, exps, crashes, born, granted, swallowed>>

\* Load, then the reconciliation both "resume" and "cleanup" start with.
Resume(command) ==
  /\ pc = "down" /\ begun
  /\ res' \in RecoveredOrders
  /\ mem' = [id \in Id |-> Recovered(id)]
  /\ tried' = {}
  /\ pc' = "sweep"
  /\ sweep' = Sweep(1, command)
  /\ deletes' = [id \in Id |-> 0]
  /\ swallowed' = FALSE
  /\ UNCHANGED <<server, journal, exp, call, next, exps, crashes, born,
                 granted>>

Crash ==
  /\ pc # "down" /\ crashes < MaxCrashes
  /\ crashes' = crashes + 1
  /\ Forget
  /\ UNCHANGED <<server, journal, next, exps, ghosts>>

------------------------------------------------------------------------------
(* Requests: Client.Do, and the server's side of it *)

Fixtures == {exp.fix[p] : p \in Op} \cap Id

\* The intent is synced; the request itself has not left.
Announce(op, kind, of) ==
  /\ next <= MaxIds
  /\ intent' = [intent EXCEPT ![next] = op]
  /\ call' = [id |-> next, op |-> op, kind |-> kind, of |-> of,
              out |-> "skipped"]
  /\ next' = next + 1
  /\ pc' = "dispatch"

\* The request could not be built or authenticated: no intent, nothing sent.
Refuse(op, kind, of) ==
  /\ \E out \in {"unsent", "skipped"} :
       call' = [id |-> NoId, op |-> op, kind |-> kind, of |-> of, out |-> out]
  /\ pc' = "settle"
  /\ UNCHANGED <<intent, next>>

Answer(out) ==
  /\ call' = [call EXCEPT !.out = out]
  /\ pc' = "answered"
  /\ granted' = IF out = "accepted" /\ IsCreate(call.op)
                THEN granted \cup {call.id} ELSE granted
  /\ UNCHANGED <<journal, memory, exp, sweep, next, exps, crashes, born,
                 deletes, swallowed>>

ServerCreates ==
  /\ pc = "dispatch" /\ IsCreate(call.op)
  /\ live' = live \cup {call.id}
  /\ UNCHANGED <<pending, mistaken>>
  /\ \E out \in {"accepted", "inconclusive", "async", "error"} : Answer(out)

\* Accepted for later (202), or a request the server finishes after the client
\* has given up on it.
ServerDefers ==
  /\ pc = "dispatch" /\ IsCreate(call.op)
  /\ pending' = pending \cup {call.id}
  /\ UNCHANGED <<live, mistaken>>
  /\ \E out \in {"async", "error"} : Answer(out)

ServerRemoves ==
  /\ pc = "dispatch" /\ call.op \in Deletions
  /\ live' = live \ {call.of}
  /\ UNCHANGED <<pending, mistaken>>
  /\ \E out \in {"accepted", "inconclusive", "async", "error"} : Answer(out)

\* The request changes no resource.  Assumed of the API: a creation is not
\* confirmed without a resource, and a DELETE is confirmed, or answered 404 or
\* 410, only when its resource does not exist.
ServerLeaves ==
  /\ pc = "dispatch"
  /\ UNCHANGED server
  /\ \E out \in Outcome \ {"skipped"} :
       /\ out = "accepted" => ~IsCreate(call.op)
       /\ call.op \in Deletions /\ out \in {"accepted", "gone"} =>
            call.of \notin live
       /\ Answer(out)

\* A delayed creation takes place, or never will.
ServerMaterialises(id) ==
  /\ id \in pending
  /\ pending' = pending \ {id}
  /\ live' \in {live, live \cup {id}}
  /\ UNCHANGED mistaken
  /\ UNCHANGED <<journal, pc, memory, exp, call, sweep, next, exps, crashes,
                 ghosts>>

RecordObservation ==
  /\ pc = "answered"
  /\ seen' = [seen EXCEPT ![call.id] = call.out]
  /\ pc' = IF call.out = "async" /\ call.op \in Polled THEN "polling"
           ELSE "settle"
  /\ UNCHANGED <<server, begun, intent, saved, firsts, verdict, memory, exp,
                 call, sweep, next, exps, crashes, ghosts>>

\* A polled job reports success: what it promised has happened by then.
PollSucceeds ==
  /\ pc = "polling"
  /\ IF IsCreate(call.op)
       THEN /\ call.id \in live \cup pending
            /\ live' = live \cup {call.id}
            /\ pending' = pending \ {call.id}
            /\ granted' = granted \cup {call.id}
       ELSE /\ live' = live \ (IF call.op \in Deletions THEN {call.of}
                               ELSE {})
            /\ UNCHANGED <<pending, granted>>
  /\ call' = [call EXCEPT !.out = "accepted"]
  /\ pc' = "settle"
  /\ UNCHANGED <<mistaken, journal, memory, exp, sweep, next, exps, crashes,
                 born, deletes, swallowed>>

\* The job failed, polling failed or timed out, or no poll could be sent.
PollFails ==
  /\ pc = "polling"
  /\ \E out \in {"inconclusive", "error"} : call' = [call EXCEPT !.out = out]
  /\ pc' = "settle"
  /\ UNCHANGED <<server, journal, memory, exp, sweep, next, exps, crashes,
                 ghosts>>

------------------------------------------------------------------------------
(* Experiments: experiment, resolve, register *)

\* A set of producers an experiment on op may need: each is bound to a present
\* field of the trial or of another fixture.  resolve skips absent fields.
Need(op) ==
  {S \in SUBSET (Op \ {op}) :
     \A p \in S : \E c \in S \cup {op} : p \in Producers[c]}

BeginExperiment(op) ==
  /\ pc = "ready" /\ exps < MaxExps
  /\ exps' = exps + 1
  /\ \E need \in Need(op) :
       exp' = [NoExp EXCEPT !.op = op, !.need = need, !.start = Len(res)]
  /\ pc' = "resolve"
  /\ UNCHANGED <<server, journal, memory, call, sweep, next, crashes, ghosts>>

Resolved(p) == exp.fix[p] # NoId

\* The deferred function of experiment: clean up what the experiment created.
EndExperiment(err) ==
  /\ exp' = [exp EXCEPT !.err = err]
  /\ pc' = "sweep"
  /\ sweep' = Sweep(exp.start + 1, "experiment")

\* The next fixture: every producer it is bound to stands already.
SendFixture(p) ==
  /\ pc = "resolve" /\ p \in exp.need /\ ~Resolved(p)
  /\ \A q \in Producers[p] \cap exp.need : Resolved(q)
  /\ \/ /\ Announce(p, "fixture", NoId)
        /\ born' = [born EXCEPT ![next] = Fixtures]
     \/ Refuse(p, "fixture", NoId) /\ UNCHANGED born
  /\ UNCHANGED <<server, begun, seen, saved, firsts, verdict, memory, exp,
                 sweep, exps, crashes, granted, deletes, swallowed>>

\* The resource of the run a trial's path names, if it is bound to one.
Addressed(op) ==
  IF Target[op] # NoOp /\ exp.fix[Target[op]] \in Id THEN exp.fix[Target[op]]
  ELSE NoId

\* Update and delete trials are refused without an owned fixture.
SendTrial ==
  /\ pc = "resolve" /\ \A p \in exp.need : Resolved(p)
  /\ Role[exp.op] \in {"update", "delete"} => Fixtures # {}
  /\ \/ /\ Announce(exp.op, "trial", Addressed(exp.op))
        /\ born' = [born EXCEPT ![next] = Fixtures]
     \/ Refuse(exp.op, "trial", NoId) /\ UNCHANGED born
  /\ UNCHANGED <<server, begun, seen, saved, firsts, verdict, memory, exp,
                 sweep, exps, crashes, granted, deletes, swallowed>>

\* No candidate fixture is left, a producer returned no usable value, the trial
\* has no owned fixture, or a read before the trial failed.
ResolveFails ==
  /\ pc = "resolve"
  /\ UNCHANGED memory
  /\ EndExperiment("error")
  /\ UNCHANGED <<server, journal, call, next, exps, crashes, ghosts>>

\* A "resource" event.
Record(id, r) ==
  /\ saved' = [saved EXCEPT ![id] = r]
  /\ firsts' = IF saved[id] = NoRes THEN Append(firsts, id) ELSE firsts

\* Deviation: only accepted creations are registered.
RegisterAccepted ==
  IF IsCreate(call.op) /\ call.out = "accepted"
    THEN LET r == [state |-> "owned", parents |-> Fixtures,
                   del |-> DeleteOf[call.op]]
         IN /\ res' = Append(res, call.id)
            /\ mem' = [mem EXCEPT ![call.id] = r]
            /\ Record(call.id, r)
    ELSE UNCHANGED <<res, mem, saved, firsts>>

Register ==
  LET r == [state |-> IF call.out = "accepted" THEN "owned" ELSE "ambiguous",
            parents |-> Fixtures, del |-> DeleteOf[call.op]]
  IN IF IsCreate(call.op) /\ MayHaveCreated(call.out)
       THEN /\ res' = Append(res, call.id)
            /\ mem' = [mem EXCEPT ![call.id] = r]
            /\ Record(call.id, r)
       ELSE UNCHANGED <<res, mem, saved, firsts>>

FixtureSettled ==
  /\ pc = "settle" /\ call.kind = "fixture"
  /\ Register
  /\ UNCHANGED tried
  /\ CASE call.out = "accepted" ->
            /\ exp' = [exp EXCEPT !.fix[call.op] =
                         IF IsCreate(call.op) THEN call.id ELSE Borrowed]
            /\ pc' = "resolve"
            /\ UNCHANGED sweep
       \* the next candidate; ResolveFails when there is none
       [] call.out = "input-rejected" ->
            pc' = "resolve" /\ UNCHANGED <<exp, sweep>>
       [] OTHER -> EndExperiment("error")
  /\ call' = NoCall
  /\ UNCHANGED <<server, begun, intent, seen, verdict, next, exps, crashes,
                 ghosts>>

Standing(id) == mem[id].state # "deleted"

\* What an accepted delete trial settles: every fixture whose companion DELETE
\* is the trial's operation, whichever of them its path names.
Settling ==
  IF pc = "settle" /\ call.kind = "trial" /\ call.op # NoOp
       /\ Role[call.op] = "delete" /\ call.out = "accepted"
    THEN {id \in Fixtures : mem[id].del = call.op /\ Standing(id)}
    ELSE {}

\* One of them, each with an event of its own.
SettleDeleted(id) ==
  /\ id \in Settling
  /\ mem' = [mem EXCEPT ![id].state = "deleted"]
  /\ Record(id, mem'[id])
  /\ mistaken' =
        mistaken \cup {x \in {id} : x # call.of /\ mem[x].del = call.op}
  /\ UNCHANGED <<live, pending, begun, intent, seen, verdict, pc, res, tried,
                 exp, call, sweep, next, exps, crashes, ghosts>>

\* The trial's own resource is registered, if it created one; readbacks that
\* follow change no resource, and may fail.
TrialSettled ==
  /\ pc = "settle" /\ call.kind = "trial" /\ Settling = {}
  /\ Register
  /\ UNCHANGED tried
  /\ \E err \in {"nil", "error"} :
       /\ call.out \in {"error", "unsent"} => err = "error"
       /\ EndExperiment(err)
  /\ call' = NoCall
  /\ UNCHANGED <<server, begun, intent, seen, verdict, next, exps, crashes,
                 ghosts>>

------------------------------------------------------------------------------
(* Cleanup: cleanupFrom *)

cur == res[sweep.i]
\* Deviation: only owned dependents block a deletion.
BlockedByOwned(id) ==
  \E c \in ToSet(res) : mem[c].state = "owned" /\ id \in mem[c].parents
Blocked(id) == \E c \in ToSet(res) : Standing(c) /\ id \in mem[c].parents

\* The sweep is at a resource it has not looked at yet.
AtResource == pc = "sweep" /\ sweep.i >= sweep.from /\ sweep.attempt = 0
\* Deviation: cleanupTried is not consulted.
FreshAgain == AtResource /\ Standing(cur)
Fresh == AtResource /\ Standing(cur) /\ cur \notin tried

\* Deviation: the sweep stays where it is.
OnwardStays(failures) ==
  sweep' = [sweep EXCEPT !.attempt = 0, !.failures = @ \cup failures]

\* On to the resource before it; failures collects those that remain.
Onward(failures) ==
  sweep' = [sweep EXCEPT !.i = @ - 1, !.attempt = 0,
                         !.failures = @ \cup failures]

SkipDeleted ==
  /\ AtResource /\ ~Standing(cur)
  /\ Onward({})
  /\ UNCHANGED <<server, journal, pc, memory, exp, call, next, exps, crashes,
                 ghosts>>

AlreadyTried ==
  /\ AtResource /\ Standing(cur) /\ cur \in tried
  /\ Onward({cur})
  /\ UNCHANGED <<server, journal, pc, memory, exp, call, next, exps, crashes,
                 ghosts>>

SkipAmbiguous ==
  /\ Fresh /\ ~Blocked(cur) /\ mem[cur].state = "ambiguous"
  /\ tried' = tried \cup {cur}
  /\ Onward({cur})
  /\ UNCHANGED <<server, journal, pc, res, mem, exp, call, next, exps,
                 crashes, ghosts>>

\* A dependent resource still stands, or the resource cannot be addressed:
\* no companion DELETE, or no value for its path.
LeaveOver ==
  /\ Fresh
  /\ Blocked(cur) \/ mem[cur].state # "ambiguous"
  /\ tried' = tried \cup {cur}
  /\ mem' = [mem EXCEPT ![cur].state = "leftover"]
  /\ Record(cur, mem'[cur])
  /\ Onward({cur})
  /\ UNCHANGED <<server, begun, intent, seen, verdict, pc, res, exp, call,
                 next, exps, crashes, ghosts>>

Deletable ==
  \/ Fresh /\ ~Blocked(cur) /\ mem[cur].state # "ambiguous"
           /\ mem[cur].del # NoOp
  \/ pc = "sweep" /\ sweep.attempt \in 1 .. Attempts - 1

SendDelete ==
  /\ Deletable
  /\ tried' = tried \cup {cur}
  /\ sweep' = [sweep EXCEPT !.attempt = @ + 1]
  /\ \/ /\ Announce(mem[cur].del, "cleanup", cur)
        /\ deletes' = [deletes EXCEPT ![cur] = @ + 1]
     \/ Refuse(mem[cur].del, "cleanup", cur) /\ UNCHANGED deletes
  /\ UNCHANGED <<server, begun, seen, saved, firsts, verdict, res, mem, exp,
                 exps, crashes, born, granted, swallowed>>

\* The cleanup deadline passes before an attempt: cleanupFrom returns at once.
SweepTimesOut ==
  /\ Deletable
  /\ tried' = tried \cup {cur}
  /\ sweep' = [sweep EXCEPT !.i = sweep.from - 1, !.attempt = 0,
                            !.failures = @ \cup {cur}]
  /\ UNCHANGED <<server, journal, pc, res, mem, exp, call, next, exps,
                 crashes, ghosts>>

DeleteSettled ==
  /\ pc = "settle" /\ call.kind = "cleanup"
  /\ LET done == call.out \in {"accepted", "gone"}
     IN /\ mem' = [mem EXCEPT ![cur].state =
                     IF done THEN "deleted" ELSE "leftover"]
        /\ IF done \/ sweep.attempt = Attempts
             THEN Record(cur, mem'[cur]) /\ Onward(IF done THEN {} ELSE {cur})
             ELSE UNCHANGED <<saved, firsts, sweep>>
  /\ pc' = "sweep"
  /\ call' = NoCall
  /\ UNCHANGED <<server, begun, intent, seen, verdict, res, tried, exp, next,
                 exps, crashes, ghosts>>

------------------------------------------------------------------------------
(* What follows a sweep *)

SweepOver(after) == pc = "sweep" /\ sweep.i < sweep.from /\ sweep.after = after
Erred == exp.err # "nil" \/ sweep.failures # {}
\* Deviation: ambiguous resources are not counted.
LeftoversNamed == \E id \in ToSet(res) : mem[id].state = "leftover"
Leftovers == \E id \in ToSet(res) : Standing(id)

\* experiment returned without error, or its error was returned:
\* inspectOperation gives up, and Run goes on only if every resource is deleted.
ExperimentEnds ==
  /\ SweepOver("experiment")
  /\ IF Erred /\ Leftovers
       THEN /\ UNCHANGED memory
            /\ pc' = "sweep"
            /\ sweep' = Sweep(1, "final")
       ELSE pc' = "ready" /\ sweep' = NoSweep /\ UNCHANGED memory
  /\ exp' = NoExp
  /\ UNCHANGED <<server, journal, call, next, exps, crashes, ghosts>>

\* generate.Minimize returned the error of the experiment, and inspectOperation
\* drops it: the operation goes on.
ExperimentErrorDropped ==
  /\ SweepOver("experiment")
  /\ Erred
  /\ swallowed' = TRUE
  /\ pc' = "ready" /\ sweep' = NoSweep
  /\ exp' = NoExp
  /\ UNCHANGED <<server, journal, memory, call, next, exps, crashes, born,
                 granted, deletes>>

\* Every operation is done, or the run was cancelled or out of budget.
FinalCleanup ==
  /\ pc = "ready"
  /\ UNCHANGED memory
  /\ pc' = "sweep"
  /\ sweep' = Sweep(1, "final")
  /\ UNCHANGED <<server, journal, exp, call, next, exps, crashes, ghosts>>

Finish ==
  /\ SweepOver("final")
  /\ verdict' \in IF sweep.failures # {} \/ Leftovers THEN {"partial"}
                  ELSE {"partial", "complete"}
  /\ Forget
  /\ UNCHANGED <<server, begun, intent, seen, saved, firsts, next, exps,
                 crashes, ghosts>>

\* "cleanup" stops here, and so does "resume" when a resource is left.
ReconcileStops ==
  /\ \/ SweepOver("cleanup")
     \/ SweepOver("resume") /\ sweep.failures # {}
  /\ verdict' = IF sweep.failures # {} THEN "partial" ELSE verdict
  /\ Forget
  /\ UNCHANGED <<server, begun, intent, seen, saved, firsts, next, exps,
                 crashes, ghosts>>

ReconcileSucceeds ==
  /\ SweepOver("resume") /\ sweep.failures = {}
  /\ pc' = "ready" /\ sweep' = NoSweep
  /\ UNCHANGED <<server, journal, memory, exp, call, next, exps, crashes,
                 ghosts>>

------------------------------------------------------------------------------
Reply == ServerCreates \/ ServerDefers \/ ServerRemoves \/ ServerLeaves
Request == RecordObservation \/ PollSucceeds \/ PollFails
Experiment ==
  \/ \E op \in Op : BeginExperiment(op) \/ SendFixture(op)
  \/ SendTrial \/ ResolveFails \/ FixtureSettled \/ TrialSettled
  \/ \E id \in Id : SettleDeleted(id)
Cleanup ==
  \/ SkipDeleted \/ AlreadyTried \/ SkipAmbiguous \/ LeaveOver
  \/ SendDelete \/ SweepTimesOut \/ DeleteSettled
Conclude ==
  \/ ExperimentEnds \/ ExperimentErrorDropped \/ FinalCleanup \/ Finish
  \/ ReconcileStops \/ ReconcileSucceeds

Step == Reply \/ Request \/ Experiment \/ Cleanup \/ Conclude

Next ==
  \/ Inspect
  \/ \E command \in {"resume", "cleanup"} : Resume(command)
  \/ Crash
  \/ \E id \in Id : ServerMaterialises(id)
  \/ Step

Spec == Init /\ [][Next]_vars

\* A running process keeps running: there is one goroutine, every wait in it
\* has a deadline (request timeout, polling timeout, cleanup timeout).
FairSpec == Spec /\ WF_vars(Step)

------------------------------------------------------------------------------
(* Properties *)

PCs == {"down", "ready", "resolve", "dispatch", "answered", "polling",
        "settle", "sweep"}
Requesting == pc \in {"dispatch", "answered", "polling", "settle"}

ServerTypes ==
  /\ live \subseteq Id /\ pending \subseteq Id /\ mistaken \subseteq Id
JournalTypes ==
  /\ begun \in BOOLEAN
  /\ intent \in [Id -> Op \cup {NoOp}]
  /\ seen \in [Id -> Outcome \cup {"none"}]
  /\ saved \in [Id -> Resource]
  /\ firsts \in Seq(Id)
  /\ verdict \in {"running", "partial", "complete"}
PcTypes == pc \in PCs
MemoryTypes ==
  /\ res \in Seq(Id)
  /\ mem \in [Id -> Resource]
  /\ tried \subseteq Id
ExpTypes ==
  exp \in [op : Op \cup {NoOp}, need : SUBSET Op,
           fix : [Op -> Id \cup {NoId, Borrowed}],
           start : Nat, err : {"nil", "error"}]
CallTypes ==
  call \in [id : Id \cup {NoId}, op : Op \cup {NoOp},
            kind : {"none", "fixture", "trial", "cleanup"},
            of : Id \cup {NoId}, out : Outcome]
SweepTypes ==
  sweep \in [from : Nat, i : Nat, attempt : Nat, failures : SUBSET Id,
             after : {"none", "experiment", "final", "resume", "cleanup"}]
BookTypes ==
  /\ next \in 1 .. MaxIds + 1
  /\ exps \in 0 .. MaxExps /\ crashes \in 0 .. MaxCrashes
  /\ born \in [Id -> SUBSET Id]
  /\ granted \subseteq Id
  /\ deletes \in [Id -> Nat]
  /\ swallowed \in BOOLEAN

\* The shape of the state.
TypeOK ==
  /\ ServerTypes /\ JournalTypes /\ PcTypes /\ MemoryTypes
  /\ ExpTypes /\ CallTypes /\ SweepTypes /\ BookTypes

\* Resources that exist or may still appear; but for those a delete trial had
\* the run take for deleted when it named another one of the same DELETE.
Exposed == (live \cup pending) \ mistaken

\* No such mistake happens where the item each DELETE names is bound to the one
\* creation whose companion it is.
DeletesApart ==
  \A p \in Op : DeleteOf[p] # NoOp => Target[DeleteOf[p]] = p

\* Whatever the process was doing when it died, a resource of the run that
\* exists, or may still appear, is one Load reports and does not take for
\* deleted (run.go send/register/cleanupFrom against resume.go Load).
NothingLost == Exposed \subseteq Claims

\* The running process knows every resource that exists: it is in
\* Report.Resources and not deleted, or it is the work of the request under
\* way.
NothingForgotten ==
  pc # "down" =>
    \A id \in Exposed :
      \/ id \in ToSet(res) /\ Standing(id)
      \/ Requesting /\ call.id = id

\* The journal keeps the promise of module Custody at every step.
C == INSTANCE Custody WITH exposed <- Exposed, claimed <- Claims
ImplementsCustody == C!Spec

\* Cleanup sends a DELETE only for a resource whose creation the API confirmed:
\* a write of unknown outcome is never deleted speculatively, also after it was
\* journaled as leftover and reloaded.
OnlyConfirmedDeleted ==
  pc = "dispatch" /\ call.kind = "cleanup" => call.of \in granted

\* A process spends at most the configured attempts on a resource, although
\* each experiment, the end of the run and the reconciliation all sweep.
AttemptsBounded == \A id \in Id : deletes[id] <= Attempts

\* Cleanup deletes a resource only when every resource created on top of it is
\* gone.
DependentsFirst ==
  pc = "dispatch" /\ call.kind = "cleanup" =>
    \A id \in live \cup pending : call.of \notin born[id]

\* The same, but for dependents a process death took the parents of: Load
\* rebuilds a resource that was not journaled yet without them.
RecordedDependentsFirst ==
  pc = "dispatch" /\ call.kind = "cleanup" =>
    \A id \in Exposed :
      call.of \in born[id] => crashes > 0 /\ mem[id].parents = {}

\* An experiment begins on a clean server, except after the error of a
\* minimisation experiment was dropped: resources left by one experiment never
\* take part in another.  (Exposed, not live: see there.)
CleanStart == pc = "ready" /\ ~swallowed => Exposed = {}

\* A run whose final report says "complete" leaves nothing on the server, but
\* what a delete trial made it take for deleted.
CompleteIsClean ==
  [][Finish /\ verdict' = "complete" => Exposed = {}]_vars

Sweeping == pc = "sweep" \/ (Requesting /\ call.kind = "cleanup")

\* How far the process is: in its life (reconciliation, run, final cleanup,
\* end), in an experiment (requests, sweep, end), and in a request.
Era ==
  IF pc = "down" THEN 4
  ELSE IF Sweeping /\ sweep.after \in {"resume", "cleanup"} THEN 1
  ELSE IF Sweeping /\ sweep.after = "final" THEN 3
  ELSE 2
Part == IF Sweeping THEN 2 ELSE IF pc = "ready" THEN 3 ELSE 1
Place ==
  IF pc = "settle" /\ call.id = NoId THEN 6
  ELSE [dispatch |-> 1, answered |-> 2, polling |-> 3, settle |-> 4,
        resolve |-> 5, sweep |-> 7, ready |-> 8, down |-> 9][pc]

\* Nearer to the end of the process: in its life; one experiment more; in the
\* experiment; in the sweep, on to an earlier resource or to the next attempt
\* at this one; one request more, of which there are MaxIds; in the request;
\* one fixture less to settle.
Closer ==
  \/ Era < Era'
  \/ Era' = Era /\ exps < exps'
  \/ /\ Era' = Era /\ exps' = exps
     /\ \/ Part < Part'
        \/ Part' = Part /\ sweep'.i < sweep.i
        \/ /\ Part' = Part /\ sweep'.i = sweep.i
           /\ \/ sweep.attempt < sweep'.attempt
              \/ sweep'.attempt = sweep.attempt /\ next < next'
              \/ /\ sweep'.attempt = sweep.attempt /\ next' = next
                 /\ \/ Place < Place'
                    \/ Place' = Place /\ Settling' \subseteq Settling
                                      /\ Settling' # Settling

\* Whatever the server answers, a process never goes round in a circle: not
\* over the fixtures, the polls, the attempts or the sweeps, although each
\* experiment, the end of the run and the reconciliation all sweep.
ProcessAdvances == [][Step => Closer]_vars

\* So every process that takes its next steps ends by itself.
ProcessesEnd == (pc # "down" ~> pc = "down") /\ ProcessAdvances
==============================================================================
