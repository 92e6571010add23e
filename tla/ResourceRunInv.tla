---------------------------- MODULE ResourceRunInv ----------------------------
(***************************************************************************)
(* The inductive invariants behind the safety properties of ResourceRun:   *)
(* IInv relates the server, the journal, the resources in memory, the      *)
(* request under way and the sweep under way; KInv adds, on top of it, what*)
(* the running process knows of the server.                                *)
(***************************************************************************)
EXTENDS ResourceRun

HasAnswer == pc \in {"answered", "polling", "settle"}

\* Ids that no request has used yet left no trace.
Untouched ==
  \A id \in Id : id >= next =>
    /\ intent[id] = NoOp /\ seen[id] = "none" /\ saved[id] = NoRes
    /\ id \notin Exposed /\ id \notin granted

\* Every resource that exists comes from a create whose traces in the journal
\* Load takes for a resource.
Traced ==
  \A id \in Exposed :
    /\ IsCreate(intent[id])
    /\ IF saved[id] = NoRes
         THEN seen[id] = "none" \/ MayHaveCreated(seen[id])
         ELSE saved[id].state \in {"owned", "ambiguous", "leftover"}

\* A confirmed creation is not still to come.
ConfirmedArrived == granted \cap pending = {}

\* Resources held as owned or left over were confirmed, and so was every
\* resource another one was created on.
Confirmed(r, id) ==
  /\ r[id].state \in {"owned", "leftover"} => id \in granted
  /\ r[id].parents \subseteq granted
ConfirmedHeld ==
  \A id \in Id :
    /\ Confirmed(saved, id) /\ Confirmed(mem, id)
    /\ seen[id] = "accepted" /\ IsCreate(intent[id]) => id \in granted
    /\ saved[id].state = "none" => saved[id] = NoRes
    /\ id \in ToSet(res) => mem[id].state # "none" /\ id < next

\* The order kept beside the "resource" events is that of their ids.
FirstsHeld == ToSet(firsts) = {id \in Id : saved[id] # NoRes}

\* The fixtures of the experiment are confirmed resources of their creators.
FixturesHeld ==
  \A p \in Op : exp.fix[p] \in Id =>
    /\ exp.fix[p] \in granted
    /\ mem[exp.fix[p]].del = DeleteOf[p]
    /\ saved[exp.fix[p]] # NoRes

\* The request under way.
CallHeld ==
  /\ pc \in {"dispatch", "answered", "polling"} =>
       /\ call.id \in Id /\ call.id < next
       /\ intent[call.id] = call.op
  /\ pc = "settle" /\ call.id \in Id =>
       call.id < next /\ intent[call.id] = call.op
  /\ pc = "dispatch" =>
       call.id \notin Exposed \cup granted /\ seen[call.id] = "none"
  /\ Requesting =>
       /\ call.kind # "none"
       /\ call.id \in Id => saved[call.id] = NoRes
       /\ call.of \in granted \cup {NoId}
  /\ HasAnswer =>
       /\ call.id \in Exposed => MayHaveCreated(call.out)
       /\ call.id = NoId => call.out \in {"unsent", "skipped"}
       /\ call.out = "accepted" /\ IsCreate(call.op) => call.id \in granted
       /\ call.out \in {"accepted", "gone"} /\ call.op \in Deletions =>
            call.of \notin live
  /\ Requesting /\ call.kind = "trial" =>
       /\ call.op = exp.op
       /\ call.id # NoId => call.of = Addressed(exp.op)
  /\ Requesting /\ call.kind # "cleanup" => call.op # NoOp
  /\ pc = "resolve" \/ (Requesting /\ call.kind = "fixture") =>
       exp.op # NoOp
  /\ pc = "down" => exp = NoExp

\* The sweep under way, and the cleanup request it waits for.
SweepHeld ==
  /\ Sweeping =>
       /\ sweep.from >= 1 /\ sweep.i <= Len(res)
       /\ sweep.attempt <= Attempts
       /\ sweep.attempt > 0 =>
            /\ sweep.i >= sweep.from
            /\ cur \in granted /\ cur \in tried
            /\ mem[cur].del \in Deletions /\ mem[cur].state # "deleted"
  /\ pc = "sweep" => sweep.attempt < Attempts
  /\ Requesting /\ call.kind = "cleanup" =>
       /\ sweep.attempt > 0
       /\ call.of = cur /\ call.op = mem[cur].del

\* Attempts of this process: none for a resource it has not tried, and the
\* sweep's own count for the resource it is at.
AttemptsHeld ==
  \A id \in Id :
    /\ deletes[id] <= Attempts
    /\ pc # "down" =>
      /\ id \notin tried => deletes[id] = 0
      /\ Sweeping /\ sweep.attempt > 0 /\ id = cur =>
           deletes[id] <= sweep.attempt

\* The operations resources are deleted with.
DeletesHeld ==
  \A id \in Id :
    /\ mem[id].del \in Deletions \cup {NoOp}
    /\ saved[id].del \in Deletions \cup {NoOp}

\* What was mistaken for deleted stays so, in the journal and in memory; and
\* nothing was before the run, or where no two creations share a DELETE.
MistakenHeld ==
  /\ \A id \in mistaken :
        /\ saved[id].state = "deleted"
        /\ pc # "down" => mem[id].state = "deleted"
  /\ ~begun => pc = "down" /\ mistaken = {}
  /\ DeletesApart => mistaken = {}

RunInv ==
  /\ TypeOK /\ Untouched /\ Traced /\ ConfirmedArrived /\ ConfirmedHeld
  /\ FirstsHeld /\ FixturesHeld /\ CallHeld /\ SweepHeld /\ AttemptsHeld
  /\ DeletesHeld

IInv == RunInv /\ MistakenHeld

------------------------------------------------------------------------------
(* What the running process knows *)

\* A process that is not there holds nothing; before the first one there is
\* nothing on the server.
DownHeld ==
  /\ pc = "down" => res = << >>
  /\ ~begun => pc = "down" /\ Exposed = {}

\* The request under way is not in Report.Resources yet.
CallApart == Requesting => call.id \notin ToSet(res)

\* Without a crash every write is settled in the journal before the next one.
Settled(id) == ~Unresolved(id) /\ ~Unregistered(id)
SettledHeld ==
  crashes = 0 =>
    \A id \in Id : Settled(id) \/ (Requesting /\ call.id = id)

\* What the journal says of the answer leaves no more open than the request.
SeenHeld ==
  pc \in {"polling", "settle"} /\ call.id \in Id =>
    /\ seen[call.id] # "none"
    /\ MayHaveCreated(seen[call.id]) => MayHaveCreated(call.out)

\* The parents held of a resource are those it was created on, unless a crash
\* came between its creation and its "resource" event.
Parented(r, id) ==
  r[id].parents = born[id] \/ (crashes > 0 /\ r[id].parents = {})
LineageHeld ==
  /\ \A id \in Id :
       /\ saved[id] # NoRes => Parented(saved, id)
       /\ id \in ToSet(res) => Parented(mem, id)
  /\ Requesting /\ call.kind # "cleanup" /\ call.id \in Id =>
       born[call.id] = Fixtures

\* The fixtures of the experiment are in Report.Resources.
FixturesListed == Fixtures \subseteq ToSet(res)

\* Between two attempts the resource stands, and nothing stands on it.
AttemptHeld ==
  Sweeping /\ sweep.attempt > 0 => Standing(cur) /\ ~Blocked(cur)

\* Nothing of res stands in its first n places, or after its n-th place.
GoneUpTo(n) == \A j \in DOMAIN res : j <= n => ~Standing(res[j])
GoneAfter(n) == \A j \in DOMAIN res : j > n => ~Standing(res[j])

Experimenting ==
  \/ pc = "resolve"
  \/ Requesting /\ call.kind # "cleanup"
  \/ Sweeping /\ sweep.after = "experiment"

\* An experiment begins with nothing standing, unless an error was dropped; a
\* sweep without failures leaves nothing standing behind it, and one that ends
\* anything but an experiment walks all of res.
SweptHeld ==
  /\ pc = "ready" /\ ~swallowed => \A id \in ToSet(res) : ~Standing(id)
  /\ Experimenting /\ ~swallowed => GoneUpTo(exp.start)
  /\ Experimenting => exp.start <= Len(res)
  /\ Sweeping =>
       /\ sweep.failures = {} => GoneAfter(sweep.i)
       /\ sweep.from =
            IF sweep.after = "experiment" THEN exp.start + 1 ELSE 1

Known ==
  /\ NothingForgotten /\ DownHeld /\ CallApart /\ SettledHeld /\ SeenHeld
  /\ LineageHeld /\ FixturesListed /\ AttemptHeld /\ SweptHeld

KInv == IInv /\ Known
==============================================================================
