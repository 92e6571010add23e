-------------------------- MODULE ResourceRunProofs --------------------------
(***************************************************************************)
(* IInv of module ResourceRunInv is an inductive invariant of ResourceRun, *)
(* for every plan, every number of attempts and every bound; from it       *)
(* follow the safety properties proved in the middle of this module.       *)
(*                                                                         *)
(* KInv is one too: the running process knows every resource that exists,  *)
(* knows what it was created on, and begins an experiment with nothing     *)
(* left standing.  The second half proves it and what follows from it;     *)
(* that the journal implements module Custody, and that every step brings  *)
(* the process nearer to its end, follow from IInv and are proved last.    *)
(*                                                                         *)
(* One lemma per action shows that it preserves RunInv; that IInv also has *)
(* MistakenHeld is one lemma over all actions.  A conjunct that reads only *)
(* variables the action leaves alone is kept by its frame lemma.           *)
(***************************************************************************)
EXTENDS ResourceRunInv, TLAPS, FiniteSetTheorems

(* Frames *)

\* ServerTypes depends on these variables only.
LEMMA ServerTypesFrame ==
  ASSUME ServerTypes, UNCHANGED <<live, pending, mistaken>>
  PROVE  ServerTypes'
BY DEF ServerTypes

\* JournalTypes depends on these variables only.
LEMMA JournalTypesFrame ==
  ASSUME JournalTypes,
         UNCHANGED <<begun, intent, seen, saved, firsts, verdict>>
  PROVE  JournalTypes'
BY DEF JournalTypes, Id

\* PcTypes depends on these variables only.
LEMMA PcTypesFrame ==
  ASSUME PcTypes, UNCHANGED <<pc>>
  PROVE  PcTypes'
BY DEF PcTypes, PCs

\* MemoryTypes depends on these variables only.
LEMMA MemoryTypesFrame ==
  ASSUME MemoryTypes, UNCHANGED <<res, mem, tried>>
  PROVE  MemoryTypes'
BY DEF MemoryTypes

\* ExpTypes depends on these variables only.
LEMMA ExpTypesFrame ==
  ASSUME ExpTypes, UNCHANGED <<exp>>
  PROVE  ExpTypes'
BY DEF ExpTypes, Id

\* CallTypes depends on these variables only.
LEMMA CallTypesFrame ==
  ASSUME CallTypes, UNCHANGED <<call>>
  PROVE  CallTypes'
BY DEF CallTypes, Id

\* SweepTypes depends on these variables only.
LEMMA SweepTypesFrame ==
  ASSUME SweepTypes, UNCHANGED <<sweep>>
  PROVE  SweepTypes'
BY DEF SweepTypes

\* BookTypes depends on these variables only.
LEMMA BookTypesFrame ==
  ASSUME BookTypes,
         UNCHANGED <<next, exps, crashes, born, granted, deletes,
                     swallowed>>
  PROVE  BookTypes'
BY DEF BookTypes, Id

\* Untouched depends on these variables only.
LEMMA UntouchedFrame ==
  ASSUME Untouched,
         UNCHANGED <<intent, seen, saved, live, pending, mistaken,
                     granted, next>>
  PROVE  Untouched'
BY DEF Untouched, Exposed, Id

\* Traced depends on these variables only.
LEMMA TracedFrame ==
  ASSUME Traced, UNCHANGED <<live, pending, mistaken, intent, saved, seen>>
  PROVE  Traced'
BY DEF Traced, Exposed, MayHaveCreated, IsCreate

\* ConfirmedArrived depends on these variables only.
LEMMA ConfirmedArrivedFrame ==
  ASSUME ConfirmedArrived, UNCHANGED <<granted, pending>>
  PROVE  ConfirmedArrived'
BY DEF ConfirmedArrived

\* ConfirmedHeld depends on these variables only.
LEMMA ConfirmedHeldFrame ==
  ASSUME ConfirmedHeld,
         UNCHANGED <<saved, mem, granted, seen, intent, res, next>>
  PROVE  ConfirmedHeld'
BY DEF ConfirmedHeld, Confirmed, ToSet, IsCreate, Id

\* FirstsHeld depends on these variables only.
LEMMA FirstsHeldFrame ==
  ASSUME FirstsHeld, UNCHANGED <<firsts, saved>>
  PROVE  FirstsHeld'
BY DEF FirstsHeld, ToSet

\* FixturesHeld depends on these variables only.
LEMMA FixturesHeldFrame ==
  ASSUME FixturesHeld, UNCHANGED <<exp, granted, mem, saved>>
  PROVE  FixturesHeld'
BY DEF FixturesHeld, Id

\* CallHeld depends on these variables only.
LEMMA CallHeldFrame ==
  ASSUME CallHeld,
         UNCHANGED <<pc, call, next, intent, seen, live, pending, mistaken,
                     granted, saved, exp>>
  PROVE  CallHeld'
BY DEF CallHeld, Requesting, HasAnswer, Exposed, MayHaveCreated, IsCreate,
       Addressed, Id

\* SweepHeld depends on these variables only.
LEMMA SweepHeldFrame ==
  ASSUME SweepHeld, UNCHANGED <<pc, call, sweep, res, granted, tried, mem>>
  PROVE  SweepHeld'
BY DEF SweepHeld, Sweeping, Requesting, cur

\* AttemptsHeld depends on these variables only.
LEMMA AttemptsHeldFrame ==
  ASSUME AttemptsHeld, UNCHANGED <<deletes, pc, tried, call, sweep, res>>
  PROVE  AttemptsHeld'
BY DEF AttemptsHeld, Sweeping, Requesting, cur

\* DeletesHeld depends on these variables only.
LEMMA DeletesHeldFrame ==
  ASSUME DeletesHeld, UNCHANGED <<mem, saved>>
  PROVE  DeletesHeld'
BY DEF DeletesHeld

\* MistakenHeld keeps while no event of a resource is added, or the process
\* forgets them.
LEMMA MistakenHeldFrame ==
  ASSUME MistakenHeld, UNCHANGED <<mistaken, saved, begun>>,
         \/ UNCHANGED <<pc, mem>>
         \/ pc # "down" /\ (pc' = "down" \/ mem' = mem)
  PROVE  MistakenHeld'
BY DEF MistakenHeld, DeletesApart

------------------------------------------------------------------------------
(* Requests, registration and sweeps *)

\* Operations that remove resources are operations, and create none.
LEMMA DeletionsCreateNothing ==
  \A op \in Deletions : op \in Op /\ op # NoOp /\ ~IsCreate(op)
BY DeleteAssumption, NoOpAssumption DEF Deletions, IsCreate

\* The companion of an operation removes resources.
LEMMA CompanionsDelete == \A p \in Op : DeleteOf[p] \in Deletions \cup {NoOp}
BY PlanAssumption DEF Deletions

\* The request under way when its answer comes.
LEMMA Dispatched ==
  ASSUME IInv, pc = "dispatch"
  PROVE  /\ call.id \in Id /\ call.id < next
         /\ intent[call.id] = call.op
         /\ call.id \notin Exposed /\ call.id \notin granted
         /\ seen[call.id] = "none" /\ saved[call.id] = NoRes
         /\ call.of \in granted \cup {NoId}
         /\ call.id \notin live \cup pending \cup mistaken
<1>1. /\ call.id \in Id /\ call.id < next
      /\ intent[call.id] = call.op
      /\ call.id \notin Exposed /\ call.id \notin granted
      /\ seen[call.id] = "none" /\ saved[call.id] = NoRes
      /\ call.of \in granted \cup {NoId}
  BY DEF IInv, RunInv, CallHeld, Requesting
<1>2. call.id \notin mistaken
  BY <1>1 DEF IInv, MistakenHeld, NoRes
<1> QED  BY <1>1, <1>2 DEF Exposed

\* The request under way when its answer is recorded.
LEMMA Answered ==
  ASSUME IInv, pc \in {"answered", "polling"}
  PROVE  /\ call.id \in Id /\ call.id < next
         /\ intent[call.id] = call.op
         /\ saved[call.id] = NoRes
         /\ call.id \in Exposed => MayHaveCreated(call.out)
         /\ call.out = "accepted" /\ IsCreate(call.op) => call.id \in granted
         /\ call.id \notin mistaken
BY DEF IInv, RunInv, CallHeld, Requesting, HasAnswer, MistakenHeld, NoRes

\* An announced request takes an id without a trace.
LEMMA Announced ==
  ASSUME IInv, next <= MaxIds
  PROVE  /\ next \in Id /\ next + 1 \in 1 .. MaxIds + 1 /\ next # NoId
         /\ intent[next] = NoOp /\ seen[next] = "none" /\ saved[next] = NoRes
         /\ next \notin Exposed /\ next \notin granted
BY BoundsAssumption
DEF IInv, RunInv, TypeOK, BookTypes, Untouched, ConfirmedHeld, Id, NoId

\* A resource a sweep looks at.
LEMMA AtSweep ==
  ASSUME IInv, Sweeping, sweep.i >= sweep.from
  PROVE  /\ sweep.i \in 1 .. Len(res)
         /\ cur \in Id /\ cur \in ToSet(res) /\ cur < next
         /\ mem[cur] \in Resource /\ mem[cur].state # "none"
<1>1. sweep.i \in 1 .. Len(res)
  BY DEF IInv, RunInv, TypeOK, SweepTypes, MemoryTypes, SweepHeld
<1>2. cur \in Id /\ cur \in ToSet(res)
  BY <1>1 DEF IInv, RunInv, TypeOK, MemoryTypes, cur, ToSet
<1> QED  BY <1>1, <1>2 DEF IInv, RunInv, TypeOK, MemoryTypes, ConfirmedHeld

\* A "resource" event is indexed under its id, and ordered by its first one.
LEMMA Recorded ==
  ASSUME JournalTypes, FirstsHeld, NEW id \in Id, NEW r \in Resource,
         r.state # "none", Record(id, r)
  PROVE  /\ saved' = [saved EXCEPT ![id] = r]
         /\ saved' \in [Id -> Resource]
         /\ firsts' \in Seq(Id)
         /\ FirstsHeld'
<1>1. saved' = [saved EXCEPT ![id] = r] /\ saved' \in [Id -> Resource]
  BY DEF JournalTypes, Record
<1>2. r # NoRes
  BY DEF NoRes
<1>3. firsts' \in Seq(Id) /\ ToSet(firsts') = ToSet(firsts) \cup {id}
  <2>1. CASE saved[id] = NoRes
    BY <2>1 DEF JournalTypes, Record, ToSet
  <2>2. CASE saved[id] # NoRes
    BY <2>2 DEF JournalTypes, Record, ToSet, FirstsHeld
  <2> QED  BY <2>1, <2>2
<1> QED  BY <1>1, <1>2, <1>3 DEF FirstsHeld, JournalTypes

\* A created resource, in memory and in the journal.
LEMMA RegisterCases ==
  ASSUME IInv, pc = "settle", call.kind # "cleanup", Register
  PROVE  \/ /\ ~(IsCreate(call.op) /\ MayHaveCreated(call.out))
            /\ UNCHANGED <<res, mem, saved, firsts>>
         \/ /\ IsCreate(call.op) /\ MayHaveCreated(call.out)
            /\ call.id \in Id /\ call.id < next
            /\ intent[call.id] = call.op /\ saved[call.id] = NoRes
            /\ \E r \in Resource :
                 /\ r.state \in {"owned", "ambiguous"}
                 /\ r.state = "owned" <=> call.out = "accepted"
                 /\ r.parents \subseteq granted
                 /\ r.del = DeleteOf[call.op]
                 /\ res' = Append(res, call.id)
                 /\ mem' = [mem EXCEPT ![call.id] = r]
                 /\ Record(call.id, r)
<1> DEFINE r == [state |-> IF call.out = "accepted" THEN "owned"
                           ELSE "ambiguous",
                 parents |-> Fixtures, del |-> DeleteOf[call.op]]
<1>1. CASE ~(IsCreate(call.op) /\ MayHaveCreated(call.out))
  BY <1>1 DEF Register
<1>2. CASE IsCreate(call.op) /\ MayHaveCreated(call.out)
  <2>1. /\ call.id \in Id /\ call.id < next
        /\ intent[call.id] = call.op /\ saved[call.id] = NoRes
    BY <1>2 DEF IInv, RunInv, TypeOK, CallTypes, CallHeld, Requesting,
                HasAnswer, MayHaveCreated
  <2>2. Fixtures \subseteq granted /\ Fixtures \subseteq Id
    BY DEF IInv, RunInv, FixturesHeld, Fixtures
  <2>3. call.op \in Op
    BY <1>2 DEF IInv, RunInv, TypeOK, CallTypes, IsCreate
  <2>4. DeleteOf[call.op] \in Op \cup {NoOp}
    BY <2>3, PlanAssumption
  <2>5. r \in Resource
    BY <2>2, <2>4 DEF Resource, State
  <2>6. /\ res' = Append(res, call.id)
        /\ mem' = [mem EXCEPT ![call.id] = r]
        /\ Record(call.id, r)
    BY <1>2 DEF Register
  <2> QED  BY <1>2, <2>1, <2>2, <2>5, <2>6
<1> QED  BY <1>1, <1>2

\* Registering keeps what the invariant says of journal and memory.
LEMMA RegisterKeeps ==
  ASSUME IInv, pc = "settle", call.kind # "cleanup", Register,
         UNCHANGED <<server, begun, intent, seen, verdict, next, granted,
                     tried>>
  PROVE  /\ JournalTypes' /\ MemoryTypes' /\ Untouched' /\ Traced'
         /\ ConfirmedHeld' /\ FirstsHeld' /\ DeletesHeld'
<1>1. CASE UNCHANGED <<res, mem, saved, firsts>>
  BY <1>1, JournalTypesFrame, MemoryTypesFrame, UntouchedFrame, TracedFrame,
     ConfirmedHeldFrame, FirstsHeldFrame, DeletesHeldFrame
     DEF IInv, RunInv, TypeOK, server
<1>2. ASSUME IsCreate(call.op), MayHaveCreated(call.out),
             call.id \in Id, call.id < next,
             intent[call.id] = call.op, saved[call.id] = NoRes,
             NEW r \in Resource,
             r.state \in {"owned", "ambiguous"},
             r.state = "owned" <=> call.out = "accepted",
             r.parents \subseteq granted,
             r.del = DeleteOf[call.op],
             res' = Append(res, call.id),
             mem' = [mem EXCEPT ![call.id] = r],
             Record(call.id, r)
      PROVE  /\ JournalTypes' /\ MemoryTypes' /\ Untouched' /\ Traced'
             /\ ConfirmedHeld' /\ FirstsHeld' /\ DeletesHeld'
  <2>1. /\ saved' = [saved EXCEPT ![call.id] = r]
        /\ saved' \in [Id -> Resource]
        /\ firsts' \in Seq(Id)
        /\ FirstsHeld'
    BY <1>2, Recorded DEF IInv, RunInv, TypeOK
  <2>2. JournalTypes'
    BY <2>1 DEF IInv, RunInv, TypeOK, JournalTypes
  <2>3. MemoryTypes'
    BY <1>2 DEF IInv, RunInv, TypeOK, MemoryTypes
  <2>4. Untouched'
    BY <1>2, <2>1 DEF IInv, RunInv, TypeOK, JournalTypes, Untouched, Exposed,
                      server, BookTypes, Id
  <2>5. Traced'
    <3>1. /\ saved'[call.id] = r /\ r # NoRes
          /\ \A id \in Id \ {call.id} : saved'[id] = saved[id]
      BY <1>2, <2>1 DEF IInv, RunInv, TypeOK, JournalTypes, NoRes
    <3> QED  BY <1>2, <3>1 DEF IInv, RunInv, Traced, Exposed, server, TypeOK,
                               ServerTypes
  <2>6. call.out = "accepted" => call.id \in granted
    BY <1>2 DEF IInv, RunInv, CallHeld, HasAnswer
  <2>7. ToSet(res') = ToSet(res) \cup {call.id}
    BY <1>2 DEF IInv, RunInv, TypeOK, MemoryTypes, ToSet
  <2>8. ConfirmedHeld'
    BY <1>2, <2>1, <2>6, <2>7
    DEF IInv, RunInv, TypeOK, JournalTypes, MemoryTypes, ConfirmedHeld,
        Confirmed, IsCreate, NoRes
  <2>9. r.del \in Deletions \cup {NoOp}
    BY <1>2, CompanionsDelete DEF IInv, RunInv, TypeOK, CallTypes, IsCreate
  <2>10. DeletesHeld'
    BY <1>2, <2>1, <2>9 DEF IInv, RunInv, TypeOK, JournalTypes, MemoryTypes,
                            DeletesHeld
  <2> QED  BY <2>1, <2>2, <2>3, <2>4, <2>5, <2>8, <2>10
<1> QED  BY <1>1, <1>2, RegisterCases

\* The resources held already stay, and an accepted create is held.
LEMMA RegisterHolds ==
  ASSUME IInv, pc = "settle", call.kind # "cleanup", Register
  PROVE  /\ \A id \in Id : saved[id] # NoRes =>
              saved'[id] # NoRes /\ mem'[id].del = mem[id].del
         /\ IsCreate(call.op) /\ call.out = "accepted" =>
              saved'[call.id] # NoRes /\ mem'[call.id].del = DeleteOf[call.op]
<1>1. call.out = "accepted" => MayHaveCreated(call.out)
  BY DEF MayHaveCreated
<1>2. ASSUME call.id \in Id, saved[call.id] = NoRes,
             NEW r \in Resource,
             r.state \in {"owned", "ambiguous"},
             r.del = DeleteOf[call.op],
             mem' = [mem EXCEPT ![call.id] = r],
             Record(call.id, r)
      PROVE  /\ \A id \in Id : saved[id] # NoRes =>
                   saved'[id] # NoRes /\ mem'[id].del = mem[id].del
             /\ saved'[call.id] # NoRes /\ mem'[call.id].del = DeleteOf[call.op]
  BY <1>2 DEF Record, IInv, RunInv, TypeOK, JournalTypes, MemoryTypes, NoRes
<1> QED  BY <1>1, <1>2, RegisterCases

\* A fixture an accepted delete trial settles: gone, if its path names it, and
\* it does where no two creations share a DELETE.
LEMMA SettlingHeld ==
  ASSUME IInv, NEW id \in Settling
  PROVE  /\ pc = "settle" /\ call.kind = "trial" /\ call.op \in Deletions
         /\ call.out = "accepted"
         /\ id \in Id /\ id \in granted /\ id < next /\ saved[id] # NoRes
         /\ mem[id] \in Resource /\ Standing(id)
         /\ id = call.of => id \notin live \cup pending
         /\ DeletesApart => id = call.of
<1>1. /\ pc = "settle" /\ call.kind = "trial" /\ call.op # NoOp
      /\ Role[call.op] = "delete" /\ call.out = "accepted"
      /\ id \in Fixtures /\ mem[id].del = call.op /\ Standing(id)
  BY DEF Settling
<1>2. call.op = exp.op /\ call.op \in Op
  BY <1>1 DEF IInv, RunInv, TypeOK, CallTypes, CallHeld, Requesting
<1>3. call.op \in Deletions
  BY <1>1, <1>2 DEF Deletions
<1>4. PICK p \in Op : id = exp.fix[p] /\ id \in Id
  BY <1>1 DEF Fixtures
<1>5. id \in granted /\ mem[id].del = DeleteOf[p] /\ saved[id] # NoRes
  BY <1>4 DEF IInv, RunInv, FixturesHeld
<1>6. id < next
  BY <1>4, <1>5 DEF IInv, RunInv, TypeOK, Untouched, BookTypes, Id
<1>7. mem[id] \in Resource
  BY <1>4 DEF IInv, RunInv, TypeOK, MemoryTypes
<1>8. call.of \notin live
  BY <1>1, <1>3 DEF IInv, RunInv, CallHeld, HasAnswer
<1>9. id \notin pending
  BY <1>5 DEF IInv, RunInv, ConfirmedArrived
<1>10. ASSUME DeletesApart PROVE id = call.of
  <2>1. DeleteOf[p] = exp.op /\ DeleteOf[p] # NoOp
    BY <1>1, <1>2, <1>5
  <2>2. Target[exp.op] = p
    BY <1>10, <2>1 DEF DeletesApart
  <2>3. Addressed(exp.op) = id
    BY <1>4, <2>2, NoOpAssumption DEF Addressed
  <2>4. call.id # NoId
    BY <1>1 DEF IInv, RunInv, CallHeld, HasAnswer
  <2> QED  BY <1>1, <2>3, <2>4 DEF IInv, RunInv, CallHeld, Requesting
<1> QED  BY <1>1, <1>3, <1>4, <1>5, <1>6, <1>7, <1>8, <1>9, <1>10

\* The state of a resource changes, in memory and in the journal.
LEMMA RecordKeeps ==
  ASSUME IInv, NEW id \in Id, NEW r \in Resource, id < next,
         r.state \in {"leftover", "deleted"},
         r.state = "leftover" => id \in granted,
         r.state = "deleted" => id \notin Exposed',
         Exposed' \subseteq Exposed,
         r.parents = mem[id].parents, r.del = mem[id].del,
         mem' = [mem EXCEPT ![id] = r],
         Record(id, r),
         UNCHANGED <<begun, intent, seen, verdict, next, granted, exp, res>>
  PROVE  /\ JournalTypes' /\ mem' \in [Id -> Resource] /\ Untouched'
         /\ Traced' /\ ConfirmedHeld' /\ FirstsHeld' /\ FixturesHeld'
         /\ DeletesHeld'
<1>1. r # NoRes /\ r.state \notin {"none", "owned"}
  BY DEF NoRes
<1>2. mem'[id] = r /\ \A x \in Id \ {id} : mem'[x] = mem[x]
  BY DEF IInv, RunInv, TypeOK, MemoryTypes
<1>3. /\ saved' = [saved EXCEPT ![id] = r]
      /\ saved' \in [Id -> Resource]
      /\ firsts' \in Seq(Id)
      /\ FirstsHeld'
  BY Recorded DEF IInv, RunInv, TypeOK
<1>4. JournalTypes'
  BY <1>3 DEF IInv, RunInv, TypeOK, JournalTypes
<1>5. mem' \in [Id -> Resource]
  BY <1>1, <1>2 DEF IInv, RunInv, TypeOK, MemoryTypes
<1>6. Untouched'
  BY <1>3 DEF IInv, RunInv, TypeOK, JournalTypes, Untouched,
              BookTypes, Id
<1>7. Traced'
  <2>1. /\ saved'[id] = r
        /\ \A x \in Id \ {id} : saved'[x] = saved[x]
    BY <1>3 DEF IInv, RunInv, TypeOK, JournalTypes
  <2> QED  BY <1>1, <2>1 DEF IInv, RunInv, Traced, Exposed, TypeOK,
                             ServerTypes
<1>8. ConfirmedHeld'
  BY <1>1, <1>2, <1>3
  DEF IInv, RunInv, TypeOK, JournalTypes, MemoryTypes, ConfirmedHeld,
      Confirmed, NoRes
<1>9. FixturesHeld'
  <2>1. \A x \in Id : /\ mem'[x].del = mem[x].del
                      /\ saved[x] # NoRes => saved'[x] # NoRes
    BY <1>1, <1>2, <1>3 DEF IInv, RunInv, TypeOK, JournalTypes
  <2> QED  BY <2>1 DEF IInv, RunInv, FixturesHeld
<1>10. DeletesHeld'
  BY <1>1, <1>2, <1>3
  DEF IInv, RunInv, TypeOK, JournalTypes, MemoryTypes, DeletesHeld
<1> QED  BY <1>3, <1>4, <1>5, <1>6, <1>7, <1>8, <1>9, <1>10

\* What exists has an id.
LEMMA LiveAndPending ==
  ASSUME ServerTypes, UNCHANGED server PROVE Exposed' \subseteq Id
BY DEF ServerTypes, server, Exposed

\* A request is announced under a fresh id.
LEMMA AnnounceKeeps ==
  ASSUME IInv, NEW op \in Op, NEW kind \in {"fixture", "trial", "cleanup"},
         NEW of \in Id \cup {NoId},
         Announce(op, kind, of),
         of \in granted \cup {NoId},
         kind = "trial" => op = exp.op /\ of = Addressed(exp.op),
         kind = "fixture" => exp.op # NoOp,
         UNCHANGED <<server, begun, seen, saved, firsts, verdict, res, mem,
                     exp, granted>>
  PROVE  /\ JournalTypes' /\ PcTypes' /\ CallTypes'
         /\ next' \in 1 .. MaxIds + 1
         /\ Untouched' /\ Traced' /\ ConfirmedHeld' /\ CallHeld'
<1>1. /\ next \in Id /\ next' \in 1 .. MaxIds + 1
      /\ intent[next] = NoOp /\ seen[next] = "none" /\ saved[next] = NoRes
      /\ next \notin Exposed /\ next \notin granted
      /\ next' = next + 1
  BY Announced DEF Announce
<1>2. /\ intent' = [intent EXCEPT ![next] = op]
      /\ intent'[next] = op
      /\ \A id \in Id \ {next} : intent'[id] = intent[id]
  BY <1>1 DEF Announce, IInv, RunInv, TypeOK, JournalTypes
<1>3. /\ call' = [id |-> next, op |-> op, kind |-> kind, of |-> of,
                  out |-> "skipped"]
      /\ pc' = "dispatch"
  BY DEF Announce
<1>4. JournalTypes'
  BY <1>1, <1>2 DEF IInv, RunInv, TypeOK, JournalTypes
<1>5. PcTypes' /\ CallTypes'
  BY <1>1, <1>3 DEF PcTypes, PCs, CallTypes, Outcome
<1>6. Untouched'
  BY <1>1, <1>2 DEF IInv, RunInv, TypeOK, BookTypes, Untouched, Exposed,
                    server, Id
<1>7. Traced'
  BY <1>1, <1>2 DEF IInv, RunInv, TypeOK, ServerTypes, Traced, Exposed, server
<1>8. ConfirmedHeld'
  <2>1. \A id \in Id : seen[id] = "accepted" => id # next
    BY <1>1
  <2> QED
    BY <1>1, <1>2, <2>1
    DEF IInv, RunInv, TypeOK, BookTypes, ConfirmedHeld, Confirmed, Id
<1>9. CallHeld'
  BY <1>1, <1>2, <1>3, NoOpAssumption
  DEF IInv, RunInv, TypeOK, BookTypes, CallHeld, Requesting, HasAnswer,
      Exposed, server, Addressed, Id, NoId
<1> QED  BY <1>1, <1>4, <1>5, <1>6, <1>7, <1>8, <1>9

\* A request is refused before its intent is written.
LEMMA RefuseKeeps ==
  ASSUME IInv, NEW op \in Op, NEW kind \in {"fixture", "trial", "cleanup"},
         NEW of \in Id \cup {NoId},
         Refuse(op, kind, of),
         of \in granted \cup {NoId},
         kind = "trial" => op = exp.op, kind = "fixture" => exp.op # NoOp,
         UNCHANGED <<server, begun, seen, saved, firsts, verdict, res, mem,
                     exp, granted>>
  PROVE  /\ JournalTypes' /\ PcTypes' /\ CallTypes'
         /\ next' \in 1 .. MaxIds + 1
         /\ Untouched' /\ Traced' /\ ConfirmedHeld' /\ CallHeld'
<1>1. PICK out \in {"unsent", "skipped"} :
        /\ call' = [id |-> NoId, op |-> op, kind |-> kind, of |-> of,
                    out |-> out]
        /\ pc' = "settle"
        /\ UNCHANGED <<intent, next>>
  BY DEF Refuse
<1>2. JournalTypes' /\ Untouched' /\ Traced' /\ ConfirmedHeld'
  BY <1>1, JournalTypesFrame, UntouchedFrame, TracedFrame, ConfirmedHeldFrame
  DEF IInv, RunInv, TypeOK, server
<1>3. PcTypes' /\ CallTypes'
  BY <1>1 DEF PcTypes, PCs, CallTypes, Outcome
<1>4. next' \in 1 .. MaxIds + 1
  BY <1>1 DEF IInv, RunInv, TypeOK, BookTypes
<1>5. NoId \notin Id
  BY DEF NoId, Id
<1>6. CallHeld'
  BY <1>1, <1>5, NoOpAssumption, LiveAndPending
  DEF IInv, RunInv, TypeOK, CallHeld, Requesting, HasAnswer, MayHaveCreated
<1> QED  BY <1>2, <1>3, <1>4, <1>6

\* What cleanup may delete is held as owned or left over.
LEMMA DeletableHeld ==
  ASSUME IInv, Deletable
  PROVE  /\ sweep.i \in 1 .. Len(res) /\ sweep.i >= sweep.from
         /\ cur \in Id /\ cur \in granted
         /\ mem[cur].del \in Deletions /\ Standing(cur)
<1>1. pc = "sweep" /\ sweep.i >= sweep.from
  BY DEF IInv, RunInv, TypeOK, SweepTypes, Deletable, Fresh, AtResource,
         SweepHeld, Sweeping
<1>2. /\ sweep.i \in 1 .. Len(res) /\ cur \in Id
      /\ mem[cur] \in Resource /\ mem[cur].state # "none"
  BY <1>1, AtSweep DEF Sweeping
<1>3. CASE Fresh /\ mem[cur].state # "ambiguous" /\ mem[cur].del # NoOp
  <2>1. mem[cur].state \in {"owned", "leftover"}
    BY <1>2, <1>3 DEF Fresh, Standing, Resource, State
  <2> QED
    BY <1>1, <1>2, <1>3, <2>1
    DEF IInv, RunInv, ConfirmedHeld, Confirmed, DeletesHeld, Standing
<1>4. CASE sweep.attempt \in 1 .. Attempts - 1
  BY <1>1, <1>2, <1>4, BoundsAssumption DEF IInv, RunInv, SweepHeld, Sweeping,
      Standing
<1> QED  BY <1>3, <1>4 DEF Deletable

\* The sweep goes on to the resource before.
LEMMA OnwardKeeps ==
  ASSUME SweepTypes, res \in Seq(Id), sweep.i \in 1 .. Len(res),
         NEW failures \in SUBSET Id, Onward(failures)
  PROVE  /\ SweepTypes'
         /\ sweep'.i = sweep.i - 1 /\ sweep'.from = sweep.from
         /\ sweep'.attempt = 0
<1>1. sweep.i - 1 \in Nat
  OBVIOUS
<1>2. sweep.failures \cup failures \in SUBSET Id
  BY DEF SweepTypes
<1> QED  BY <1>1, <1>2 DEF SweepTypes, Onward

------------------------------------------------------------------------------
(* Load *)

\* Any order of a set of requests is a sequence of them.
LEMMA Ordered ==
  ASSUME NEW S \in SUBSET Id, NEW s \in SetToSeqs(S)
  PROVE  s \in Seq(Id) /\ ToSet(s) \subseteq S
<1>1. IsFiniteSet(S)
  <2>1. IsFiniteSet(1 .. MaxIds)
    BY FS_Interval, BoundsAssumption
  <2>2. S \in SUBSET (1 .. MaxIds)
    BY DEF Id
  <2> QED  BY <2>1, <2>2, FS_Subset
<1>2. Cardinality(S) \in Nat
  BY <1>1, FS_CardinalityType
<1>3. s \in [1 .. Cardinality(S) -> S]
  BY DEF SetToSeqs
<1> QED  BY <1>2, <1>3 DEF ToSet

\* A joined list holds what its parts hold.
LEMMA Joined ==
  ASSUME NEW a \in Seq(Id), NEW b \in Seq(Id)
  PROVE  a \o b \in Seq(Id) /\ ToSet(a \o b) = ToSet(a) \cup ToSet(b)
<1>1. a \o b \in Seq(Id)
  OBVIOUS
<1>2. ToSet(a \o b) \subseteq ToSet(a) \cup ToSet(b)
  BY DEF ToSet
<1>3. ToSet(a) \subseteq ToSet(a \o b)
  BY DEF ToSet
<1>4. ToSet(b) \subseteq ToSet(a \o b)
  <2>1. \A i \in DOMAIN b : /\ Len(a) + i \in DOMAIN (a \o b)
                            /\ (a \o b)[Len(a) + i] = b[i]
    OBVIOUS
  <2> QED  BY <2>1 DEF ToSet
<1> QED  BY <1>1, <1>2, <1>3, <1>4

\* What Load makes of the journal is a list of resources.
LEMMA RecoveredResources ==
  ASSUME IInv
  PROVE  \A id \in Id :
           /\ Recovered(id) \in Resource
           /\ Recovered(id).state = "none" => Recovered(id) = NoRes
           /\ Recovered(id).state \in {"owned", "leftover"} => id \in granted
           /\ Recovered(id).parents \subseteq granted
           /\ Recovered(id).del \in Deletions \cup {NoOp}
           /\ Recovered(id).state # "none" => id < next
<1> SUFFICES ASSUME NEW id \in Id
             PROVE  /\ Recovered(id) \in Resource
                    /\ Recovered(id).state = "none" => Recovered(id) = NoRes
                    /\ Recovered(id).state \in {"owned", "leftover"} =>
                         id \in granted
                    /\ Recovered(id).parents \subseteq granted
                    /\ Recovered(id).del \in Deletions \cup {NoOp}
                    /\ Recovered(id).state # "none" => id < next
  OBVIOUS
<1> USE DEF IInv, RunInv, TypeOK
<1>1. NoRes \in Resource
  BY DEF NoRes, Resource, State
<1>2. id < next \/ (intent[id] = NoOp /\ saved[id] = NoRes)
  BY DEF Untouched, BookTypes, Id
<1>3. CASE saved[id] # NoRes
  BY <1>2, <1>3
  DEF Recovered, JournalTypes, ConfirmedHeld, Confirmed, DeletesHeld
<1>4. CASE saved[id] = NoRes /\ Unresolved(id)
  <2>1. Recovered(id) = [state |-> "ambiguous", parents |-> {}, del |-> NoOp]
    BY <1>4 DEF Recovered, NoRes
  <2> QED  BY <1>2, <1>4, <2>1 DEF Unresolved, IsWrite, Resource, State
<1>5. CASE saved[id] = NoRes /\ ~Unresolved(id) /\ Unregistered(id)
  <2>1. Recovered(id) =
          [state |-> IF seen[id] = "accepted" THEN "owned" ELSE "ambiguous",
           parents |-> {}, del |-> DeleteOf[intent[id]]]
    BY <1>5 DEF Recovered
  <2>2. intent[id] \in Op /\ IsCreate(intent[id])
    BY <1>5 DEF Unregistered, IsCreate, JournalTypes
  <2>3. DeleteOf[intent[id]] \in Op \cup {NoOp}
    BY <2>2, PlanAssumption
  <2>4. DeleteOf[intent[id]] \in Deletions \cup {NoOp}
    BY <2>2, CompanionsDelete
  <2>5. seen[id] = "accepted" => id \in granted
    BY <2>2 DEF ConfirmedHeld
  <2>6. id < next
    BY <1>2, <2>2 DEF IsCreate
  <2> QED  BY <2>1, <2>3, <2>4, <2>5, <2>6 DEF Resource, State
<1>6. CASE saved[id] = NoRes /\ ~Unresolved(id) /\ ~Unregistered(id)
  BY <1>1, <1>6 DEF Recovered, NoRes
<1> QED  BY <1>3, <1>4, <1>5, <1>6

\* Load lists only resources.
LEMMA RecoveredList ==
  ASSUME IInv, NEW r \in RecoveredOrders
  PROVE  /\ r \in Seq(Id)
         /\ \A id \in ToSet(r) : id \in Id /\ Recovered(id).state # "none"
<1>1. PICK u \in Unresolveds, o \in Unregistereds : r = firsts \o u \o o
  BY DEF RecoveredOrders
<1>2. /\ u \in Seq(Id) /\ \A id \in ToSet(u) : id \in Id /\ Unresolved(id)
      /\ o \in Seq(Id) /\ \A id \in ToSet(o) : id \in Id /\ Unregistered(id)
  <2>1. {id \in Id : Unresolved(id)} \in SUBSET Id
    OBVIOUS
  <2>2. {id \in Id : Unregistered(id)} \in SUBSET Id
    OBVIOUS
  <2> QED  BY <2>1, <2>2, Ordered DEF Unresolveds, Unregistereds
<1>3. firsts \in Seq(Id) /\ ToSet(firsts) = {id \in Id : saved[id] # NoRes}
  BY DEF IInv, RunInv, TypeOK, JournalTypes, FirstsHeld
<1>4. /\ firsts \o u \in Seq(Id)
      /\ ToSet(firsts \o u) = ToSet(firsts) \cup ToSet(u)
  BY <1>2, <1>3, Joined
<1>5. r \in Seq(Id) /\ ToSet(r) = ToSet(firsts) \cup ToSet(u) \cup ToSet(o)
  BY <1>1, <1>2, <1>4, Joined
<1>6. ASSUME NEW id \in Id, saved[id] # NoRes
      PROVE  Recovered(id).state # "none"
  BY <1>6 DEF Recovered, IInv, RunInv, ConfirmedHeld
<1>7. ASSUME NEW id \in Id, Unresolved(id)
      PROVE  Recovered(id).state # "none"
  BY <1>7 DEF Recovered, Unresolved, NoRes
<1>8. ASSUME NEW id \in Id, Unregistered(id)
      PROVE  Recovered(id).state # "none"
  BY <1>8 DEF Recovered, Unregistered, NoRes
<1> QED  BY <1>2, <1>3, <1>5, <1>6, <1>7, <1>8

------------------------------------------------------------------------------
(* The actions *)

\* The initial state.
LEMMA InitHolds == Init => IInv
<1> SUFFICES ASSUME Init PROVE IInv
  OBVIOUS
<1> USE DEF Init
<1>1. TypeOK
  <2>1. NoRes \in Resource /\ NoExp \in [op : Op \cup {NoOp}, need : SUBSET Op,
           fix : [Op -> Id \cup {NoId, Borrowed}],
           start : Nat, err : {"nil", "error"}]
    BY DEF NoRes, Resource, State, NoExp
  <2>2. ServerTypes /\ PcTypes
    BY DEF ServerTypes, PcTypes, PCs
  <2>3. JournalTypes /\ MemoryTypes
    <3>1. firsts \in Seq(Id) /\ res \in Seq(Id)
      OBVIOUS
    <3>3. begun \in BOOLEAN
      OBVIOUS
    <3>2. /\ intent \in [Id -> Op \cup {NoOp}]
          /\ seen \in [Id -> Outcome \cup {"none"}]
          /\ saved \in [Id -> Resource] /\ mem \in [Id -> Resource]
      BY <2>1
    <3> QED  BY <3>1, <3>2, <3>3 DEF JournalTypes, MemoryTypes
  <2>4. ExpTypes /\ SweepTypes
    BY <2>1 DEF ExpTypes, SweepTypes, NoSweep
  <2>5. CallTypes
    BY DEF CallTypes, NoCall, Outcome
  <2>6. BookTypes
    <3>1. /\ next \in 1 .. MaxIds + 1
          /\ exps \in 0 .. MaxExps /\ crashes \in 0 .. MaxCrashes
      BY BoundsAssumption
    <3>2. born \in [Id -> SUBSET Id] /\ deletes \in [Id -> Nat]
      OBVIOUS
    <3>3. granted \subseteq Id /\ swallowed \in BOOLEAN
      OBVIOUS
    <3> QED  BY <3>1, <3>2, <3>3 DEF BookTypes
  <2> QED  BY <2>2, <2>3, <2>4, <2>5, <2>6 DEF TypeOK
<1>2. Untouched /\ Traced /\ ConfirmedArrived
  BY DEF Untouched, Traced, ConfirmedArrived, Exposed
<1>3. ConfirmedHeld /\ DeletesHeld
  BY NoOpAssumption DEF ConfirmedHeld, Confirmed, DeletesHeld, NoRes, ToSet
<1>4. FirstsHeld /\ FixturesHeld
  BY DEF FirstsHeld, ToSet, FixturesHeld, NoExp, NoId, Id
<1>5. CallHeld /\ SweepHeld /\ AttemptsHeld
  BY BoundsAssumption
  DEF CallHeld, SweepHeld, AttemptsHeld, Requesting, HasAnswer, Sweeping
<1>6. MistakenHeld
  BY DEF MistakenHeld
<1> QED  BY <1>1, <1>2, <1>3, <1>4, <1>5, <1>6 DEF IInv, RunInv

\* Load rebuilds resources that are confirmed where they are held as owned.
LEMMA KeepsResume ==
  ASSUME IInv, NEW command \in {"resume", "cleanup"}, Resume(command)
  PROVE  RunInv'
<1> USE DEF IInv, RunInv, TypeOK
<1>1. ServerTypes' /\ JournalTypes' /\ ExpTypes' /\ CallTypes'
      /\ Untouched' /\ Traced' /\ ConfirmedArrived' /\ FirstsHeld'
  BY ServerTypesFrame, JournalTypesFrame, ExpTypesFrame, CallTypesFrame,
     UntouchedFrame, TracedFrame, ConfirmedArrivedFrame, FirstsHeldFrame
  DEF Resume, server, journal
<1>2. /\ mem' = [id \in Id |-> Recovered(id)] /\ tried' = {}
      /\ pc = "down" /\ pc' = "sweep" /\ exp' = exp
      /\ UNCHANGED <<saved, seen, intent, next, granted>>
      /\ deletes' = [id \in Id |-> 0]
  BY DEF Resume, journal
<1>3. /\ res' \in Seq(Id)
      /\ \A id \in ToSet(res') : id \in Id /\ Recovered(id).state # "none"
  BY RecoveredList DEF Resume
<1>4. MemoryTypes' /\ PcTypes'
  BY <1>2, <1>3, RecoveredResources DEF MemoryTypes, PcTypes, PCs
<1>5. /\ sweep' = [from |-> 1, i |-> Len(res'), attempt |-> 0,
                   failures |-> {}, after |-> command]
      /\ SweepTypes'
  BY <1>3 DEF Resume, Sweep, SweepTypes
<1>6. BookTypes'
  <2>1. /\ UNCHANGED <<next, exps, crashes, born, granted>>
        /\ swallowed' = FALSE
    BY DEF Resume
  <2>2. deletes' \in [Id -> Nat]
    BY <1>2
  <2>3. swallowed' \in BOOLEAN
    BY <2>1
  <2> QED  BY <2>1, <2>2, <2>3 DEF BookTypes
<1>7. ConfirmedHeld'
  BY <1>2, <1>3, RecoveredResources DEF ConfirmedHeld, Confirmed
<1>8. FixturesHeld'
  BY <1>2 DEF FixturesHeld, CallHeld, NoExp, NoId, Id
<1>9. CallHeld'
  BY <1>2 DEF CallHeld, Requesting, HasAnswer
<1>10. SweepHeld' /\ AttemptsHeld'
  BY <1>2, <1>3, <1>5, BoundsAssumption
  DEF SweepHeld, AttemptsHeld, Sweeping, Requesting
<1>11. DeletesHeld'
  BY <1>2, RecoveredResources DEF DeletesHeld
<1> QED
  BY <1>1, <1>4, <1>5, <1>6, <1>7, <1>8, <1>9, <1>10, <1>11

\* The run event is written: nothing exists yet that the journal tells of.
LEMMA KeepsInspect ==
  ASSUME IInv, Inspect
  PROVE  RunInv'
<1> USE DEF IInv, RunInv, TypeOK
<1>1. /\ ServerTypes' /\ MemoryTypes' /\ ExpTypes' /\ CallTypes'
      /\ SweepTypes' /\ Untouched' /\ Traced' /\ ConfirmedArrived'
      /\ ConfirmedHeld' /\ FirstsHeld' /\ FixturesHeld' /\ DeletesHeld'
  BY ServerTypesFrame, MemoryTypesFrame, ExpTypesFrame, CallTypesFrame,
     SweepTypesFrame, UntouchedFrame, TracedFrame, ConfirmedArrivedFrame,
     ConfirmedHeldFrame, FirstsHeldFrame, FixturesHeldFrame, DeletesHeldFrame
  DEF Inspect, server, memory
<1>2. JournalTypes'
  BY DEF JournalTypes, Inspect
<1>3. PcTypes'
  BY DEF PcTypes, Inspect, PCs
<1>4. BookTypes'
  BY DEF BookTypes, Inspect
<1>5. CallHeld'
  BY DEF CallHeld, Inspect, Requesting, HasAnswer
<1>6. SweepHeld'
  BY DEF SweepHeld, Inspect, Sweeping, Requesting
<1>7. AttemptsHeld'
  BY BoundsAssumption DEF AttemptsHeld, Inspect, Sweeping, Requesting
<1> QED  BY <1>1, <1>2, <1>3, <1>4, <1>5, <1>6, <1>7

\* What the process knew is gone; the server and the journal stay.
LEMMA KeepsCrash ==
  ASSUME IInv, Crash
  PROVE  RunInv'
<1> USE DEF IInv, RunInv, TypeOK
<1>1. /\ ServerTypes' /\ JournalTypes' /\ Untouched' /\ Traced'
      /\ ConfirmedArrived' /\ FirstsHeld'
  BY ServerTypesFrame, JournalTypesFrame, UntouchedFrame, TracedFrame,
     ConfirmedArrivedFrame, FirstsHeldFrame
  DEF Crash, server, journal, ghosts
<1>2. PcTypes'
  BY DEF PcTypes, Crash, Forget, PCs
<1>3. MemoryTypes'
  BY DEF MemoryTypes, Crash, Forget, State, Resource, NoRes
<1>4. ExpTypes'
  BY DEF ExpTypes, Crash, Forget, NoExp
<1>5. CallTypes'
  BY DEF CallTypes, Crash, Forget, NoCall, Outcome
<1>6. SweepTypes'
  BY DEF SweepTypes, Crash, Forget, NoSweep
<1>7. BookTypes'
  BY BoundsAssumption DEF BookTypes, Crash, ghosts
<1>8. ConfirmedHeld'
  BY DEF ConfirmedHeld, JournalTypes, Crash, Forget, Confirmed, NoRes, ToSet,
         journal, ghosts
<1>9. FixturesHeld'
  BY DEF FixturesHeld, Crash, Forget, NoExp, NoId, Id
<1>10. CallHeld'
  BY DEF CallHeld, Crash, Forget, Requesting, HasAnswer
<1>11. SweepHeld'
  BY DEF SweepHeld, Crash, Forget, NoCall, Sweeping
<1>12. AttemptsHeld'
  BY DEF AttemptsHeld, Crash, Forget, ghosts
<1>13. DeletesHeld'
  BY DEF DeletesHeld, Crash, Forget, NoRes, journal
<1> QED  BY <1>1, <1>2, <1>3, <1>4, <1>5, <1>6, <1>7, <1>8, <1>9,
            <1>10, <1>11, <1>12, <1>13

\* The created resource carries the id of the announced request.
LEMMA KeepsServerCreates ==
  ASSUME IInv, ServerCreates
  PROVE  RunInv'
<1> USE DEF IInv, RunInv, TypeOK
<1>1. /\ call.id \in Id /\ call.id < next
      /\ intent[call.id] = call.op
      /\ call.id \notin Exposed /\ call.id \notin granted
      /\ seen[call.id] = "none" /\ saved[call.id] = NoRes
      /\ call.of \in granted \cup {NoId}
      /\ call.id \notin live \cup pending \cup mistaken
  BY Dispatched DEF ServerCreates
<1>2. /\ granted \subseteq granted' /\ granted' \subseteq granted \cup {call.id}
      /\ UNCHANGED <<journal, memory, next, exp, sweep>>
  BY DEF ServerCreates, Answer
<1>3. /\ JournalTypes' /\ MemoryTypes' /\ ExpTypes' /\ SweepTypes'
      /\ FirstsHeld' /\ DeletesHeld'
  BY JournalTypesFrame, MemoryTypesFrame, ExpTypesFrame, SweepTypesFrame,
     FirstsHeldFrame, DeletesHeldFrame
  DEF ServerCreates, Answer, journal, memory
<1>4. ServerTypes'
  BY <1>1 DEF ServerTypes, ServerCreates
<1>5. PcTypes'
  BY DEF PcTypes, ServerCreates, Answer, PCs
<1>6. CallTypes'
  BY DEF CallTypes, ServerCreates, Answer, Outcome
<1>7. BookTypes'
  BY <1>1, <1>2 DEF BookTypes, ServerCreates, Answer, ghosts
<1>8. Untouched'
  BY <1>1, <1>2 DEF Untouched, ServerCreates, Exposed, journal, Id, BookTypes
<1>9. Traced'
  BY <1>1, <1>2 DEF Traced, ServerCreates, Exposed, journal, ServerTypes
<1>10. ConfirmedArrived'
  BY <1>1 DEF ConfirmedArrived, ServerCreates, Answer, Exposed
<1>11. ConfirmedHeld'
  BY DEF ConfirmedHeld, JournalTypes, ServerCreates, Answer, Confirmed, journal,
         memory
<1>12. FixturesHeld'
  BY DEF FixturesHeld, ServerCreates, Answer, journal, memory
<1>13. CallHeld'
  BY <1>1, DeletionsCreateNothing
  DEF CallHeld, ServerCreates, Answer, Requesting, MayHaveCreated, IsCreate,
         Addressed, NoId, Id, journal
<1>14. SweepHeld'
  BY DEF SweepHeld, ServerCreates, Answer, Sweeping, Requesting, cur, memory
<1>15. AttemptsHeld'
  BY DEF AttemptsHeld, ServerCreates, Answer, Sweeping, Requesting, cur, memory
<1> QED  BY <1>3, <1>4, <1>5, <1>6, <1>7, <1>8, <1>9, <1>10, <1>11,
            <1>12, <1>13, <1>14, <1>15

\* The announced creation may still appear.
LEMMA KeepsServerDefers ==
  ASSUME IInv, ServerDefers
  PROVE  RunInv'
<1> USE DEF IInv, RunInv, TypeOK
<1>1. /\ call.id \in Id /\ call.id < next
      /\ intent[call.id] = call.op
      /\ call.id \notin Exposed /\ call.id \notin granted
      /\ seen[call.id] = "none" /\ saved[call.id] = NoRes
      /\ call.of \in granted \cup {NoId}
      /\ call.id \notin live \cup pending \cup mistaken
  BY Dispatched DEF ServerDefers
<1>2. /\ granted \subseteq granted' /\ granted' \subseteq granted \cup {call.id}
      /\ UNCHANGED <<journal, memory, next, exp, sweep>>
  BY DEF ServerDefers, Answer
<1>3. /\ JournalTypes' /\ MemoryTypes' /\ ExpTypes' /\ SweepTypes'
      /\ FirstsHeld' /\ DeletesHeld'
  BY JournalTypesFrame, MemoryTypesFrame, ExpTypesFrame, SweepTypesFrame,
     FirstsHeldFrame, DeletesHeldFrame
  DEF ServerDefers, Answer, journal, memory
<1>4. ServerTypes'
  BY <1>1 DEF ServerTypes, ServerDefers
<1>5. PcTypes'
  BY DEF PcTypes, ServerDefers, Answer, PCs
<1>6. CallTypes'
  BY DEF CallTypes, ServerDefers, Answer, Outcome
<1>7. BookTypes'
  BY <1>1, <1>2 DEF BookTypes, ServerDefers, Answer, ghosts
<1>8. Untouched'
  BY <1>1, <1>2 DEF Untouched, ServerDefers, Exposed, journal, Id, BookTypes
<1>9. Traced'
  BY <1>1, <1>2 DEF Traced, ServerDefers, Exposed, journal, ServerTypes
<1>10. ConfirmedArrived'
  BY <1>1 DEF ConfirmedArrived, ServerDefers, Answer, Exposed
<1>11. ConfirmedHeld'
  BY DEF ConfirmedHeld, JournalTypes, ServerDefers, Answer, Confirmed, journal,
         memory
<1>12. FixturesHeld'
  BY DEF FixturesHeld, ServerDefers, Answer, journal, memory
<1>13. CallHeld'
  BY DEF CallHeld, ServerDefers, Answer, Requesting, MayHaveCreated, Addressed,
         NoId, Id, journal
<1>14. SweepHeld'
  BY DEF SweepHeld, ServerDefers, Answer, Sweeping, Requesting, cur, memory
<1>15. AttemptsHeld'
  BY DEF AttemptsHeld, ServerDefers, Answer, Sweeping, Requesting, cur, memory
<1> QED  BY <1>3, <1>4, <1>5, <1>6, <1>7, <1>8, <1>9, <1>10, <1>11,
            <1>12, <1>13, <1>14, <1>15

\* A DELETE only takes from the server.
LEMMA KeepsServerRemoves ==
  ASSUME IInv, ServerRemoves
  PROVE  RunInv'
<1> USE DEF IInv, RunInv, TypeOK
<1>1. /\ call.id \in Id /\ call.id < next
      /\ intent[call.id] = call.op
      /\ call.id \notin Exposed /\ call.id \notin granted
      /\ seen[call.id] = "none" /\ saved[call.id] = NoRes
      /\ call.of \in granted \cup {NoId}
      /\ call.id \notin live \cup pending \cup mistaken
  BY Dispatched DEF ServerRemoves
<1>2. /\ granted \subseteq granted' /\ granted' \subseteq granted \cup {call.id}
      /\ UNCHANGED <<journal, memory, next, exp, sweep>>
  BY DEF ServerRemoves, Answer
<1>3. /\ JournalTypes' /\ MemoryTypes' /\ ExpTypes' /\ SweepTypes'
      /\ FirstsHeld' /\ DeletesHeld'
  BY JournalTypesFrame, MemoryTypesFrame, ExpTypesFrame, SweepTypesFrame,
     FirstsHeldFrame, DeletesHeldFrame
  DEF ServerRemoves, Answer, journal, memory
<1>4. ServerTypes'
  BY <1>1 DEF ServerTypes, ServerRemoves
<1>5. PcTypes'
  BY DEF PcTypes, ServerRemoves, Answer, PCs
<1>6. CallTypes'
  BY DEF CallTypes, ServerRemoves, Answer, Outcome
<1>7. BookTypes'
  BY <1>1, <1>2 DEF BookTypes, ServerRemoves, Answer, ghosts
<1>8. Untouched'
  BY <1>1, <1>2 DEF Untouched, ServerRemoves, Exposed, journal, Id, BookTypes
<1>9. Traced'
  BY <1>1, <1>2 DEF Traced, ServerRemoves, Exposed, journal, ServerTypes
<1>10. ConfirmedArrived'
  BY <1>1 DEF ConfirmedArrived, ServerRemoves, Answer, Exposed
<1>11. ConfirmedHeld'
  BY DEF ConfirmedHeld, JournalTypes, ServerRemoves, Answer, Confirmed, journal,
         memory
<1>12. FixturesHeld'
  BY DEF FixturesHeld, ServerRemoves, Answer, journal, memory
<1>13. CallHeld'
  BY DEF CallHeld, ServerRemoves, Answer, Requesting, MayHaveCreated, Addressed,
         NoId, Id, journal
<1>14. SweepHeld'
  BY DEF SweepHeld, ServerRemoves, Answer, Sweeping, Requesting, cur, memory
<1>15. AttemptsHeld'
  BY DEF AttemptsHeld, ServerRemoves, Answer, Sweeping, Requesting, cur, memory
<1> QED  BY <1>3, <1>4, <1>5, <1>6, <1>7, <1>8, <1>9, <1>10, <1>11,
            <1>12, <1>13, <1>14, <1>15

\* An answer that changes no resource.
LEMMA KeepsServerLeaves ==
  ASSUME IInv, ServerLeaves
  PROVE  RunInv'
<1> USE DEF IInv, RunInv, TypeOK
<1>1. /\ call.id \in Id /\ call.id < next
      /\ intent[call.id] = call.op
      /\ call.id \notin Exposed /\ call.id \notin granted
      /\ seen[call.id] = "none" /\ saved[call.id] = NoRes
      /\ call.of \in granted \cup {NoId}
      /\ call.id \notin live \cup pending \cup mistaken
  BY Dispatched DEF ServerLeaves
<1>2. UNCHANGED <<live, pending, mistaken, granted, journal, memory, next, exp,
                sweep>>
  BY DEF ServerLeaves, Answer, server
<1>3. /\ ServerTypes' /\ JournalTypes' /\ MemoryTypes' /\ ExpTypes'
      /\ SweepTypes' /\ Traced' /\ FirstsHeld' /\ DeletesHeld'
  BY ServerTypesFrame, JournalTypesFrame, MemoryTypesFrame, ExpTypesFrame,
     SweepTypesFrame, TracedFrame, FirstsHeldFrame, DeletesHeldFrame
  DEF ServerLeaves, Answer, server, journal, memory
<1>4. PcTypes'
  BY DEF PcTypes, ServerLeaves, Answer, PCs
<1>5. CallTypes'
  BY DEF CallTypes, ServerLeaves, Answer
<1>6. BookTypes'
  BY <1>1, <1>2 DEF BookTypes, ServerLeaves, Answer, ghosts
<1>7. Untouched'
  BY <1>1, <1>2 DEF Untouched, ServerLeaves, Exposed, journal, Id, BookTypes
<1>8. ConfirmedArrived'
  BY <1>2, ConfirmedArrivedFrame
<1>9. ConfirmedHeld'
  BY DEF ConfirmedHeld, JournalTypes, ServerLeaves, Answer, Confirmed, journal,
         memory
<1>10. FixturesHeld'
  BY DEF FixturesHeld, ServerLeaves, Answer, journal, memory
<1>11. CallHeld'
  <2>1. PICK out \in Outcome \ {"skipped"} :
          /\ out = "accepted" => ~IsCreate(call.op)
          /\ call.op \in Deletions /\ out \in {"accepted", "gone"} =>
               call.of \notin live
          /\ Answer(out)
    BY DEF ServerLeaves
  <2>2. /\ pc' = "answered" /\ call'.out = out
        /\ call'.id = call.id /\ call'.op = call.op /\ call'.of = call.of
        /\ call'.kind = call.kind
        /\ UNCHANGED <<live, pending, mistaken, granted>>
    BY <2>1 DEF Answer, CallTypes, ServerLeaves, server
  <2>3. call'.out = "accepted" /\ IsCreate(call.op) => call.id \in granted
    BY <2>1, <2>2
  <2> QED
    BY <1>1, <1>2, <2>1, <2>2, <2>3
    DEF CallHeld, Requesting, HasAnswer, Exposed, journal, Addressed, NoId,
        Id, ServerLeaves
<1>12. SweepHeld'
  BY DEF SweepHeld, ServerLeaves, Answer, Sweeping, Requesting, cur, memory
<1>13. AttemptsHeld'
  BY DEF AttemptsHeld, ServerLeaves, Answer, Sweeping, Requesting, cur, memory
<1> QED  BY <1>3, <1>4, <1>5, <1>6, <1>7, <1>8, <1>9, <1>10, <1>11,
            <1>12, <1>13

\* A delayed creation takes place under an id that was exposed already.
LEMMA KeepsServerMaterialises ==
  ASSUME IInv, NEW id \in Id, ServerMaterialises(id)
  PROVE  RunInv'
<1> USE DEF IInv, RunInv, TypeOK
<1>1. /\ JournalTypes' /\ PcTypes' /\ MemoryTypes' /\ ExpTypes' /\ CallTypes'
      /\ SweepTypes' /\ BookTypes' /\ ConfirmedHeld' /\ FirstsHeld'
      /\ FixturesHeld' /\ SweepHeld' /\ AttemptsHeld' /\ DeletesHeld'
  BY JournalTypesFrame, PcTypesFrame, MemoryTypesFrame, ExpTypesFrame,
     CallTypesFrame, SweepTypesFrame, BookTypesFrame, ConfirmedHeldFrame,
     FirstsHeldFrame, FixturesHeldFrame, SweepHeldFrame, AttemptsHeldFrame,
     DeletesHeldFrame
  DEF ServerMaterialises, journal, memory, ghosts
<1>2. ServerTypes'
  BY DEF ServerTypes, ServerMaterialises
<1>3. Untouched'
  BY DEF Untouched, ServerMaterialises, Exposed, journal, ghosts
<1>4. Traced'
  BY DEF Traced, ServerMaterialises, Exposed, journal
<1>5. ConfirmedArrived'
  BY DEF ConfirmedArrived, ServerMaterialises, ghosts
<1>6. CallHeld'
  <2>1. Exposed' \subseteq Exposed /\ live' \subseteq live \cup pending
    BY DEF ServerMaterialises, Exposed
  <2>2. (granted \cup {NoId}) \cap pending = {}
    BY DEF ServerTypes, ConfirmedArrived, NoId, Id
  <2> QED
    BY <2>1, <2>2
    DEF CallHeld, ServerMaterialises, Requesting, HasAnswer, Addressed, journal,
        ghosts
<1> QED  BY <1>1, <1>2, <1>3, <1>4, <1>5, <1>6

\* An observation that leaves a creation open is not input-rejected.
LEMMA KeepsRecordObservation ==
  ASSUME IInv, RecordObservation
  PROVE  RunInv'
<1> USE DEF IInv, RunInv, TypeOK
<1>1. /\ call.id \in Id /\ call.id < next
      /\ intent[call.id] = call.op
      /\ call.id \in Exposed => MayHaveCreated(call.out)
      /\ call.out = "accepted" /\ IsCreate(call.op) => call.id \in granted
  BY Answered DEF RecordObservation
<1>2. /\ ServerTypes' /\ MemoryTypes' /\ ExpTypes' /\ CallTypes'
      /\ SweepTypes' /\ BookTypes' /\ ConfirmedArrived' /\ FirstsHeld'
      /\ FixturesHeld' /\ DeletesHeld'
  BY ServerTypesFrame, MemoryTypesFrame, ExpTypesFrame, CallTypesFrame,
     SweepTypesFrame, BookTypesFrame, ConfirmedArrivedFrame, FirstsHeldFrame,
     FixturesHeldFrame, DeletesHeldFrame
  DEF RecordObservation, server, memory, ghosts
<1>3. JournalTypes'
  BY DEF JournalTypes, CallTypes, RecordObservation
<1>4. PcTypes'
  BY DEF PcTypes, RecordObservation, PCs
<1>5. Untouched'
  BY <1>1 DEF Untouched, RecordObservation, Exposed, server, ghosts, Id,
         BookTypes, JournalTypes
<1>6. Traced'
  BY <1>1 DEF Traced, RecordObservation, Exposed, server, JournalTypes,
         ServerTypes, MayHaveCreated
<1>7. ConfirmedHeld'
  BY <1>1 DEF ConfirmedHeld, Confirmed, RecordObservation, memory, ghosts,
         JournalTypes
<1>8. CallHeld'
  BY DEF CallHeld, RecordObservation, Requesting, HasAnswer, Exposed, Addressed,
         server, ghosts
<1>9. SweepHeld'
  BY DEF SweepHeld, RecordObservation, Sweeping, Requesting, cur, memory, ghosts
<1>10. AttemptsHeld'
  BY DEF AttemptsHeld, RecordObservation, Sweeping, Requesting, cur, memory,
         ghosts
<1> QED  BY <1>2, <1>3, <1>4, <1>5, <1>6, <1>7, <1>8, <1>9, <1>10

\* The polled creation has arrived, so it is confirmed.
LEMMA KeepsPollSucceeds ==
  ASSUME IInv, PollSucceeds
  PROVE  RunInv'
<1> USE DEF IInv, RunInv, TypeOK
<1>1. /\ JournalTypes' /\ MemoryTypes' /\ ExpTypes' /\ SweepTypes'
      /\ FirstsHeld' /\ DeletesHeld'
  BY JournalTypesFrame, MemoryTypesFrame, ExpTypesFrame, SweepTypesFrame,
     FirstsHeldFrame, DeletesHeldFrame
  DEF PollSucceeds, journal, memory
<1>2. ServerTypes'
  BY DEF ServerTypes, PollSucceeds
<1>3. PcTypes'
  BY DEF PcTypes, PollSucceeds, PCs
<1>4. CallTypes'
  BY DEF CallTypes, PollSucceeds, Outcome
<1>5. BookTypes'
  BY Answered DEF BookTypes, PollSucceeds, ghosts
<1>6. Untouched'
  BY Answered DEF Untouched, PollSucceeds, Exposed, journal
<1>7. Traced'
  BY Answered DEF Traced, PollSucceeds, Exposed, journal
<1>8. ConfirmedArrived'
  BY DEF ConfirmedArrived, PollSucceeds
<1>9. ConfirmedHeld'
  BY DEF ConfirmedHeld, PollSucceeds, Confirmed, journal, memory
<1>10. FixturesHeld'
  BY DEF FixturesHeld, PollSucceeds, journal, memory
<1>11. CallHeld'
  BY Answered, DeletionsCreateNothing
  DEF CallHeld, PollSucceeds, Requesting, MayHaveCreated, IsCreate,
         Addressed, NoId, Id, journal
<1>12. SweepHeld'
  BY DEF SweepHeld, PollSucceeds, Sweeping, Requesting, cur, memory
<1>13. AttemptsHeld'
  BY DEF AttemptsHeld, PollSucceeds, Sweeping, Requesting, cur, memory
<1> QED  BY <1>1, <1>2, <1>3, <1>4, <1>5, <1>6, <1>7, <1>8, <1>9,
            <1>10, <1>11, <1>12, <1>13

\* A failed poll leaves the outcome of the creation open.
LEMMA KeepsPollFails ==
  ASSUME IInv, PollFails
  PROVE  RunInv'
<1> USE DEF IInv, RunInv, TypeOK
<1>1. /\ ServerTypes' /\ JournalTypes' /\ MemoryTypes' /\ ExpTypes'
      /\ SweepTypes' /\ BookTypes' /\ Untouched' /\ Traced'
      /\ ConfirmedArrived' /\ ConfirmedHeld' /\ FirstsHeld' /\ FixturesHeld'
      /\ DeletesHeld'
  BY ServerTypesFrame, JournalTypesFrame, MemoryTypesFrame, ExpTypesFrame,
     SweepTypesFrame, BookTypesFrame, UntouchedFrame, TracedFrame,
     ConfirmedArrivedFrame, ConfirmedHeldFrame, FirstsHeldFrame,
     FixturesHeldFrame, DeletesHeldFrame
  DEF PollFails, server, journal, memory, ghosts
<1>2. PcTypes'
  BY DEF PcTypes, PollFails, PCs
<1>3. CallTypes'
  BY DEF CallTypes, PollFails, Outcome
<1>4. CallHeld'
  BY DEF CallHeld, PollFails, Requesting, MayHaveCreated, Addressed, NoId, Id,
         journal, ghosts
<1>5. SweepHeld'
  BY DEF SweepHeld, PollFails, Sweeping, Requesting, cur, memory, ghosts
<1>6. AttemptsHeld'
  BY DEF AttemptsHeld, PollFails, Sweeping, Requesting, cur, memory, ghosts
<1> QED  BY <1>1, <1>2, <1>3, <1>4, <1>5, <1>6

\* An experiment begins without fixtures.
LEMMA KeepsBeginExperiment ==
  ASSUME IInv, NEW op \in Op, BeginExperiment(op)
  PROVE  RunInv'
<1> USE DEF IInv, RunInv, TypeOK
<1>1. /\ ServerTypes' /\ JournalTypes' /\ MemoryTypes' /\ CallTypes'
      /\ SweepTypes' /\ Untouched' /\ Traced' /\ ConfirmedArrived'
      /\ ConfirmedHeld' /\ FirstsHeld' /\ DeletesHeld'
  BY ServerTypesFrame, JournalTypesFrame, MemoryTypesFrame, CallTypesFrame,
     SweepTypesFrame, UntouchedFrame, TracedFrame, ConfirmedArrivedFrame,
     ConfirmedHeldFrame, FirstsHeldFrame, DeletesHeldFrame
  DEF BeginExperiment, server, journal, memory, ghosts
<1>2. PcTypes'
  BY DEF PcTypes, BeginExperiment, PCs
<1>3. ExpTypes'
  <2>1. PICK need \in Need(op) :
          exp' = [NoExp EXCEPT !.op = op, !.need = need, !.start = Len(res)]
    BY DEF BeginExperiment
  <2>2. need \subseteq Op /\ Len(res) \in Nat
    BY DEF Need, MemoryTypes
  <2> QED  BY <2>1, <2>2 DEF ExpTypes, NoExp
<1>4. BookTypes'
  BY BoundsAssumption DEF BookTypes, BeginExperiment, ghosts
<1>5. FixturesHeld'
  BY DEF FixturesHeld, BeginExperiment, NoExp, NoId, Id
<1>6. CallHeld'
  BY NoOpAssumption
       DEF CallHeld, BeginExperiment, Requesting, HasAnswer, NoExp
<1>7. SweepHeld'
  BY DEF SweepHeld, BeginExperiment, Sweeping, Requesting
<1>8. AttemptsHeld'
  BY DEF AttemptsHeld, BeginExperiment, Sweeping, Requesting, memory, ghosts
<1> QED  BY <1>1, <1>2, <1>3, <1>4, <1>5, <1>6, <1>7, <1>8

\* A fixture request is announced or refused.
LEMMA KeepsSendFixture ==
  ASSUME IInv, NEW op \in Op, SendFixture(op)
  PROVE  RunInv'
<1> USE DEF IInv, RunInv, TypeOK
<1>1. /\ op \in Op /\ NoId \in granted \cup {NoId}
      /\ UNCHANGED <<server, begun, seen, saved, firsts, verdict, res, mem,
                     exp, granted>>
  BY DEF SendFixture, memory
<1>2. exp.op # NoOp
  BY DEF SendFixture, CallHeld
<1>3. /\ JournalTypes' /\ PcTypes' /\ CallTypes'
      /\ next' \in 1 .. MaxIds + 1
      /\ Untouched' /\ Traced' /\ ConfirmedHeld' /\ CallHeld'
  <2>1. CASE Announce(op, "fixture", NoId)
    BY <1>1, <1>2, <2>1, AnnounceKeeps
  <2>2. CASE Refuse(op, "fixture", NoId)
    BY <1>1, <1>2, <2>2, RefuseKeeps
  <2> QED  BY <2>1, <2>2 DEF SendFixture
<1>4. /\ ServerTypes' /\ MemoryTypes' /\ ExpTypes' /\ SweepTypes'
      /\ ConfirmedArrived' /\ FirstsHeld' /\ FixturesHeld' /\ DeletesHeld'
  BY ServerTypesFrame, MemoryTypesFrame, ExpTypesFrame, SweepTypesFrame,
     ConfirmedArrivedFrame, FirstsHeldFrame, FixturesHeldFrame, DeletesHeldFrame
  DEF SendFixture, server, memory
<1>5. BookTypes'
  <2>1. Fixtures \subseteq Id
    BY DEF Fixtures
  <2> QED  BY <1>3, <2>1 DEF BookTypes, SendFixture
<1>6. SweepHeld'
  BY DEF SweepHeld, SendFixture, Announce, Refuse, Sweeping
<1>7. AttemptsHeld'
  BY DEF AttemptsHeld, SendFixture, Announce, Refuse, Sweeping, memory
<1> QED  BY <1>3, <1>4, <1>5, <1>6, <1>7

\* The trial is announced or refused; a DELETE addresses a fixture.
LEMMA KeepsSendTrial ==
  ASSUME IInv, SendTrial
  PROVE  RunInv'
<1> USE DEF IInv, RunInv, TypeOK
<1>1. /\ exp.op \in Op
      /\ UNCHANGED <<server, begun, seen, saved, firsts, verdict, res, mem,
                     exp, granted>>
  BY DEF SendTrial, memory, CallHeld, ExpTypes
<1>2. Addressed(exp.op) \in (granted \cap Id) \cup {NoId}
  BY <1>1, PlanAssumption, NoOpAssumption DEF Addressed, FixturesHeld
<1>3. /\ JournalTypes' /\ PcTypes' /\ CallTypes'
      /\ next' \in 1 .. MaxIds + 1
      /\ Untouched' /\ Traced' /\ ConfirmedHeld' /\ CallHeld'
  <2>1. CASE Announce(exp.op, "trial", Addressed(exp.op))
    BY <1>1, <1>2, <2>1, AnnounceKeeps
  <2>2. CASE Refuse(exp.op, "trial", NoId)
    BY <1>1, <1>2, <2>2, RefuseKeeps
  <2> QED  BY <2>1, <2>2 DEF SendTrial
<1>4. /\ ServerTypes' /\ MemoryTypes' /\ ExpTypes' /\ SweepTypes'
      /\ ConfirmedArrived' /\ FirstsHeld' /\ FixturesHeld' /\ DeletesHeld'
  BY ServerTypesFrame, MemoryTypesFrame, ExpTypesFrame, SweepTypesFrame,
     ConfirmedArrivedFrame, FirstsHeldFrame, FixturesHeldFrame, DeletesHeldFrame
  DEF SendTrial, server, memory
<1>5. BookTypes'
  <2>1. Fixtures \subseteq Id
    BY DEF Fixtures
  <2> QED  BY <1>3, <2>1 DEF BookTypes, SendTrial
<1>6. SweepHeld'
  BY DEF SweepHeld, SendTrial, Announce, Refuse, Sweeping
<1>7. AttemptsHeld'
  BY DEF AttemptsHeld, SendTrial, Announce, Refuse, Sweeping, memory
<1> QED  BY <1>3, <1>4, <1>5, <1>6, <1>7

\* The experiment ends before its trial.
LEMMA KeepsResolveFails ==
  ASSUME IInv, ResolveFails
  PROVE  RunInv'
<1> USE DEF IInv, RunInv, TypeOK
<1>1. /\ ServerTypes' /\ JournalTypes' /\ MemoryTypes' /\ CallTypes'
      /\ BookTypes' /\ Untouched' /\ Traced' /\ ConfirmedArrived'
      /\ ConfirmedHeld' /\ FirstsHeld' /\ DeletesHeld'
  BY ServerTypesFrame, JournalTypesFrame, MemoryTypesFrame, CallTypesFrame,
     BookTypesFrame, UntouchedFrame, TracedFrame, ConfirmedArrivedFrame,
     ConfirmedHeldFrame, FirstsHeldFrame, DeletesHeldFrame
  DEF ResolveFails, server, journal, memory, ghosts
<1>2. PcTypes'
  BY DEF PcTypes, ResolveFails, EndExperiment, PCs
<1>3. ExpTypes'
  BY DEF ExpTypes, ResolveFails, EndExperiment
<1>4. SweepTypes'
  BY DEF SweepTypes, ExpTypes, ResolveFails, EndExperiment, Sweep
<1>5. FixturesHeld'
  BY DEF FixturesHeld, ExpTypes, ResolveFails, EndExperiment, journal, memory,
         ghosts
<1>6. CallHeld'
  BY DEF CallHeld, ResolveFails, EndExperiment, Requesting, HasAnswer
<1>7. SweepHeld'
  BY BoundsAssumption
       DEF SweepHeld, MemoryTypes, ExpTypes, ResolveFails, EndExperiment, Sweep,
           Sweeping, Requesting, memory
<1>8. AttemptsHeld'
  BY DEF AttemptsHeld, ResolveFails, EndExperiment, Sweep, memory, ghosts
<1> QED  BY <1>1, <1>2, <1>3, <1>4, <1>5, <1>6, <1>7, <1>8

\* A created fixture is registered before the experiment uses it.
LEMMA KeepsFixtureSettled ==
  ASSUME IInv, FixtureSettled
  PROVE  RunInv'
<1> USE DEF IInv, RunInv, TypeOK
<1>1. /\ JournalTypes' /\ MemoryTypes' /\ Untouched' /\ Traced'
      /\ ConfirmedHeld' /\ FirstsHeld' /\ DeletesHeld'
  BY RegisterKeeps DEF FixtureSettled, ghosts
<1>2. /\ call.op \in Op
      /\ call.out = "accepted" /\ IsCreate(call.op) =>
           call.id \in granted \cap Id
  BY DEF FixtureSettled, CallHeld, Requesting, HasAnswer, CallTypes, BookTypes
<1>3. Len(res') \in Nat
  BY <1>1 DEF MemoryTypes
<1>4. \/ /\ call.out = "accepted"
         /\ exp' = [exp EXCEPT !.fix[call.op] =
                      IF IsCreate(call.op) THEN call.id ELSE Borrowed]
         /\ pc' = "resolve" /\ UNCHANGED sweep
      \/ pc' = "resolve" /\ UNCHANGED <<exp, sweep>>
      \/ EndExperiment("error")
  BY DEF FixtureSettled
<1>5. ServerTypes' /\ BookTypes' /\ ConfirmedArrived'
  BY ServerTypesFrame, BookTypesFrame, ConfirmedArrivedFrame
  DEF FixtureSettled, server, ghosts
<1>6. PcTypes'
  BY <1>4 DEF PcTypes, PCs, EndExperiment
<1>7. ExpTypes'
  BY <1>2, <1>4 DEF ExpTypes, EndExperiment
<1>8. CallTypes'
  BY DEF CallTypes, FixtureSettled, NoCall, Outcome
<1>9. SweepTypes'
  BY <1>3, <1>4 DEF SweepTypes, ExpTypes, EndExperiment, Sweep
<1>10. FixturesHeld'
  <2>1. /\ \A id \in Id : saved[id] # NoRes =>
             saved'[id] # NoRes /\ mem'[id].del = mem[id].del
        /\ IsCreate(call.op) /\ call.out = "accepted" =>
             saved'[call.id] # NoRes /\ mem'[call.id].del = DeleteOf[call.op]
    BY RegisterHolds DEF FixtureSettled
  <2>2. Borrowed \notin Id /\ granted' = granted
    BY BoundsAssumption DEF Borrowed, Id, FixtureSettled, ghosts
  <2>3. \A p \in Op : exp'.fix[p] = exp.fix[p]
          \/ /\ p = call.op /\ call.out = "accepted"
             /\ exp'.fix[p] = IF IsCreate(p) THEN call.id ELSE Borrowed
    BY <1>2, <1>4 DEF ExpTypes, EndExperiment
  <2> QED  BY <1>2, <2>1, <2>2, <2>3 DEF FixturesHeld
<1>11. CallHeld'
  BY <1>4, NoOpAssumption
       DEF CallHeld, Requesting, HasAnswer, EndExperiment, FixtureSettled,
           ExpTypes, NoCall
<1>12. SweepHeld'
  BY <1>3, <1>4, BoundsAssumption
       DEF SweepHeld, EndExperiment, Sweep, Sweeping, Requesting,
           FixtureSettled, ExpTypes
<1>13. AttemptsHeld'
  BY <1>4
       DEF AttemptsHeld, EndExperiment, Sweep, Sweeping, Requesting,
           FixtureSettled, ghosts, SweepTypes
<1> QED  BY <1>1, <1>5, <1>6, <1>7, <1>8, <1>9, <1>10, <1>11, <1>12,
            <1>13

\* It settles resources of the trial's DELETE only: those it did not name are
\* the mistaken ones.
LEMMA SettleMarks ==
  ASSUME NEW id \in Id, SettleDeleted(id)
  PROVE  mistaken' = mistaken \cup ({id} \ {call.of})
<1>1. mem[id].del = call.op
  BY DEF SettleDeleted, Settling
<1>2. {x \in {id} : x # call.of /\ mem[x].del = call.op} = {id} \ {call.of}
  BY <1>1
<1> QED  BY <1>2 DEF SettleDeleted

\* A fixture an accepted delete trial settles is gone, or mistaken for it.
LEMMA KeepsSettleDeleted ==
  ASSUME IInv, NEW id \in Id, SettleDeleted(id)
  PROVE  RunInv'
<1> USE DEF IInv, RunInv, TypeOK
<1>1. /\ pc = "settle" /\ call.kind = "trial"
      /\ id \in granted /\ id < next /\ saved[id] # NoRes
      /\ mem[id] \in Resource
      /\ id = call.of => id \notin live \cup pending
  BY SettlingHeld DEF SettleDeleted
<1>2. PICK r \in Resource : r = [mem[id] EXCEPT !.state = "deleted"]
  BY <1>1 DEF Resource, State
<1>3. r.state = "deleted" /\ r.parents = mem[id].parents /\ r.del = mem[id].del
  BY <1>1, <1>2 DEF Resource
<1>4. mem' = [mem EXCEPT ![id] = r] /\ mem'[id] = r
  BY <1>2 DEF SettleDeleted, MemoryTypes
<1>5. Record(id, r)
  BY <1>4 DEF SettleDeleted, Record
<1>6. /\ UNCHANGED <<live, pending, begun, intent, seen, verdict, pc, res,
                     tried, exp, call, sweep, next, exps, crashes, born,
                     granted, deletes, swallowed>>
      /\ mistaken' = mistaken \cup ({id} \ {call.of})
  BY SettleMarks DEF SettleDeleted, ghosts
<1>7. Exposed' \subseteq Exposed /\ id \notin Exposed'
  BY <1>1, <1>6 DEF Exposed
<1>8. /\ JournalTypes' /\ mem' \in [Id -> Resource] /\ Untouched'
      /\ Traced' /\ ConfirmedHeld' /\ FirstsHeld' /\ FixturesHeld'
      /\ DeletesHeld'
  BY <1>1, <1>3, <1>4, <1>5, <1>6, <1>7, RecordKeeps
<1>9. /\ PcTypes' /\ ExpTypes' /\ CallTypes' /\ SweepTypes' /\ BookTypes'
      /\ ConfirmedArrived' /\ AttemptsHeld'
  BY <1>6, PcTypesFrame, ExpTypesFrame, CallTypesFrame, SweepTypesFrame,
     BookTypesFrame, ConfirmedArrivedFrame, AttemptsHeldFrame
<1>10. ServerTypes'
  BY <1>6 DEF ServerTypes
<1>11. MemoryTypes'
  BY <1>6, <1>8 DEF MemoryTypes
<1>12. CallHeld'
  <2>1. \A x \in Id : saved[x] = NoRes => saved'[x] = NoRes
    BY <1>1, <1>5 DEF Record, JournalTypes
  <2> QED
    BY <1>1, <1>6, <1>7, <2>1
    DEF CallHeld, Requesting, HasAnswer, MayHaveCreated, IsCreate, Addressed
<1>13. SweepHeld'
  BY <1>1, <1>6 DEF SweepHeld, Sweeping, Requesting
<1> QED  BY <1>8, <1>9, <1>10, <1>11, <1>12, <1>13

\* A trial registers what it created.
LEMMA KeepsTrialSettled ==
  ASSUME IInv, TrialSettled
  PROVE  RunInv'
<1> USE DEF IInv, RunInv, TypeOK
<1>1. /\ JournalTypes' /\ MemoryTypes' /\ Untouched' /\ Traced'
      /\ ConfirmedHeld' /\ FirstsHeld' /\ DeletesHeld'
      /\ \A id \in Id : saved[id] # NoRes =>
           saved'[id] # NoRes /\ mem'[id].del = mem[id].del
  BY RegisterKeeps, RegisterHolds DEF TrialSettled, ghosts
<1>2. Len(res') \in Nat
  BY <1>1 DEF MemoryTypes
<1>3. PICK err \in {"nil", "error"} : EndExperiment(err)
  BY DEF TrialSettled
<1>4. exp' = [exp EXCEPT !.err = err] /\ exp'.fix = exp.fix /\ pc' = "sweep"
      /\ granted' = granted
  BY <1>3 DEF EndExperiment, ExpTypes, TrialSettled, ghosts
<1>5. ServerTypes' /\ BookTypes' /\ ConfirmedArrived'
  BY ServerTypesFrame, BookTypesFrame, ConfirmedArrivedFrame
  DEF TrialSettled, server, ghosts
<1>6. PcTypes'
  BY <1>4 DEF PcTypes, PCs
<1>7. ExpTypes'
  BY <1>3 DEF ExpTypes, EndExperiment
<1>8. CallTypes'
  BY NoOpAssumption DEF CallTypes, TrialSettled, NoCall, Outcome
<1>9. SweepTypes'
  BY <1>2, <1>3 DEF SweepTypes, ExpTypes, EndExperiment, Sweep
<1>10. FixturesHeld'
  BY <1>1, <1>4 DEF FixturesHeld
<1>11. CallHeld'
  BY <1>4 DEF CallHeld, Requesting, HasAnswer
<1>12. SweepHeld'
  BY <1>2, <1>3, <1>4, BoundsAssumption
       DEF SweepHeld, EndExperiment, Sweep, Sweeping, Requesting, ExpTypes
<1>13. AttemptsHeld'
  BY <1>3, <1>4
       DEF AttemptsHeld, EndExperiment, Sweep, TrialSettled, ghosts
<1> QED  BY <1>1, <1>5, <1>6, <1>7, <1>8, <1>9, <1>10, <1>11, <1>12,
            <1>13

\* The sweep passes a deleted resource.
LEMMA KeepsSkipDeleted ==
  ASSUME IInv, SkipDeleted
  PROVE  RunInv'
<1> USE DEF IInv, RunInv, TypeOK
<1>1. /\ sweep.i \in 1 .. Len(res)
      /\ cur \in Id /\ cur \in ToSet(res) /\ cur < next
      /\ mem[cur] \in Resource /\ mem[cur].state # "none"
  BY AtSweep DEF SkipDeleted, AtResource, Sweeping
<1>2. /\ ServerTypes' /\ JournalTypes' /\ PcTypes' /\ MemoryTypes'
      /\ ExpTypes' /\ CallTypes' /\ BookTypes' /\ Untouched' /\ Traced'
      /\ ConfirmedArrived' /\ ConfirmedHeld' /\ FirstsHeld' /\ FixturesHeld'
      /\ CallHeld' /\ DeletesHeld'
  BY ServerTypesFrame, JournalTypesFrame, PcTypesFrame, MemoryTypesFrame,
     ExpTypesFrame, CallTypesFrame, BookTypesFrame, UntouchedFrame, TracedFrame,
     ConfirmedArrivedFrame, ConfirmedHeldFrame, FirstsHeldFrame,
     FixturesHeldFrame, CallHeldFrame, DeletesHeldFrame
  DEF SkipDeleted, server, journal, memory, ghosts
<1>3. SweepTypes'
  BY <1>1, OnwardKeeps DEF MemoryTypes, SkipDeleted
<1>4. SweepHeld'
  BY DEF SweepHeld, SweepTypes, SkipDeleted, AtResource, Onward, Sweeping,
         Requesting, memory
<1>5. AttemptsHeld'
  BY DEF AttemptsHeld, SkipDeleted, Onward, memory, ghosts
<1> QED  BY <1>2, <1>3, <1>4, <1>5

\* The sweep passes a resource this process has tried.
LEMMA KeepsAlreadyTried ==
  ASSUME IInv, AlreadyTried
  PROVE  RunInv'
<1> USE DEF IInv, RunInv, TypeOK
<1>1. /\ sweep.i \in 1 .. Len(res)
      /\ cur \in Id /\ cur \in ToSet(res) /\ cur < next
      /\ mem[cur] \in Resource /\ mem[cur].state # "none"
  BY AtSweep DEF AlreadyTried, AtResource, Sweeping
<1>2. /\ ServerTypes' /\ JournalTypes' /\ PcTypes' /\ MemoryTypes'
      /\ ExpTypes' /\ CallTypes' /\ BookTypes' /\ Untouched' /\ Traced'
      /\ ConfirmedArrived' /\ ConfirmedHeld' /\ FirstsHeld' /\ FixturesHeld'
      /\ CallHeld' /\ DeletesHeld'
  BY ServerTypesFrame, JournalTypesFrame, PcTypesFrame, MemoryTypesFrame,
     ExpTypesFrame, CallTypesFrame, BookTypesFrame, UntouchedFrame, TracedFrame,
     ConfirmedArrivedFrame, ConfirmedHeldFrame, FirstsHeldFrame,
     FixturesHeldFrame, CallHeldFrame, DeletesHeldFrame
  DEF AlreadyTried, server, journal, memory, ghosts
<1>3. SweepTypes'
  BY <1>1, OnwardKeeps DEF MemoryTypes, AlreadyTried
<1>4. SweepHeld'
  BY DEF SweepHeld, SweepTypes, AlreadyTried, AtResource, Onward, Sweeping,
         Requesting, memory
<1>5. AttemptsHeld'
  BY DEF AttemptsHeld, AlreadyTried, Onward, memory, ghosts
<1> QED  BY <1>2, <1>3, <1>4, <1>5

\* The sweep passes a write of unknown outcome.
LEMMA KeepsSkipAmbiguous ==
  ASSUME IInv, SkipAmbiguous
  PROVE  RunInv'
<1> USE DEF IInv, RunInv, TypeOK
<1>1. /\ sweep.i \in 1 .. Len(res)
      /\ cur \in Id /\ cur \in ToSet(res) /\ cur < next
      /\ mem[cur] \in Resource /\ mem[cur].state # "none"
  BY AtSweep DEF SkipAmbiguous, Fresh, AtResource, Sweeping
<1>2. /\ ServerTypes' /\ JournalTypes' /\ PcTypes' /\ ExpTypes' /\ CallTypes'
      /\ BookTypes' /\ Untouched' /\ Traced' /\ ConfirmedArrived'
      /\ ConfirmedHeld' /\ FirstsHeld' /\ FixturesHeld' /\ CallHeld'
      /\ DeletesHeld'
  BY ServerTypesFrame, JournalTypesFrame, PcTypesFrame, ExpTypesFrame,
     CallTypesFrame, BookTypesFrame, UntouchedFrame, TracedFrame,
     ConfirmedArrivedFrame, ConfirmedHeldFrame, FirstsHeldFrame,
     FixturesHeldFrame, CallHeldFrame, DeletesHeldFrame
  DEF SkipAmbiguous, server, journal, ghosts
<1>3. MemoryTypes'
  BY <1>1 DEF MemoryTypes, SkipAmbiguous
<1>4. SweepTypes'
  BY <1>1, OnwardKeeps DEF MemoryTypes, SkipAmbiguous
<1>5. SweepHeld'
  BY DEF SweepHeld, SweepTypes, SkipAmbiguous, Fresh, Onward, Sweeping,
         Requesting
<1>6. AttemptsHeld'
  BY DEF AttemptsHeld, SkipAmbiguous, Onward, ghosts
<1> QED  BY <1>2, <1>3, <1>4, <1>5, <1>6

\* A resource held as owned is left over; it was confirmed.
LEMMA KeepsLeaveOver ==
  ASSUME IInv, LeaveOver
  PROVE  RunInv'
<1> USE DEF IInv, RunInv, TypeOK
<1>1. /\ sweep.i \in 1 .. Len(res)
      /\ cur \in Id /\ cur \in ToSet(res) /\ cur < next
      /\ mem[cur] \in Resource /\ mem[cur].state # "none"
  BY AtSweep DEF LeaveOver, Fresh, AtResource, Sweeping
<1>2. mem[cur].state = "deleted" => FALSE
  BY DEF LeaveOver, Fresh, Standing
<1>3. cur \in granted
  <2>1. CASE Blocked(cur)
    BY <2>1 DEF Blocked, ConfirmedHeld, Confirmed, MemoryTypes, ToSet
  <2>2. CASE mem[cur].state # "ambiguous"
    BY <1>1, <1>2, <2>2 DEF ConfirmedHeld, Confirmed, Resource, State
  <2> QED  BY <2>1, <2>2 DEF LeaveOver
<1>4. PICK id \in Id : id = cur
  BY <1>1
<1>5. PICK r \in Resource : r = [mem[id] EXCEPT !.state = "leftover"]
  BY <1>1, <1>4 DEF Resource, State
<1>6. r.state = "leftover" /\ r.parents = mem[id].parents /\ r.del = mem[id].del
  BY <1>1, <1>4, <1>5 DEF Resource
<1>7. mem' = [mem EXCEPT ![id] = r] /\ mem'[id] = r
  BY <1>4, <1>5 DEF LeaveOver, MemoryTypes
<1>8. Record(id, r)
  BY <1>4, <1>7 DEF LeaveOver, Record
<1>9. /\ JournalTypes' /\ mem' \in [Id -> Resource] /\ Untouched'
      /\ Traced' /\ ConfirmedHeld' /\ FirstsHeld' /\ FixturesHeld'
      /\ DeletesHeld'
  BY <1>1, <1>3, <1>4, <1>6, <1>7, <1>8, RecordKeeps
  DEF LeaveOver, ghosts, Exposed, server
<1>10. /\ ServerTypes' /\ PcTypes' /\ ExpTypes' /\ CallTypes' /\ BookTypes'
       /\ ConfirmedArrived'
  BY ServerTypesFrame, PcTypesFrame, ExpTypesFrame, CallTypesFrame,
     BookTypesFrame, ConfirmedArrivedFrame
  DEF LeaveOver, server, ghosts
<1>11. MemoryTypes'
  BY <1>1, <1>9 DEF MemoryTypes, LeaveOver
<1>12. SweepTypes'
  BY <1>1, OnwardKeeps DEF MemoryTypes, LeaveOver
<1>13. CallHeld'
  BY DEF CallHeld, LeaveOver, AtResource, Fresh, Requesting, HasAnswer
<1>14. SweepHeld'
  BY DEF SweepHeld, SweepTypes, LeaveOver, Fresh, Onward, Sweeping, Requesting
<1>15. AttemptsHeld'
  BY DEF AttemptsHeld, LeaveOver, Onward, ghosts
<1> QED  BY <1>9, <1>10, <1>11, <1>12, <1>13, <1>14, <1>15

\* A DELETE is announced or refused for a confirmed resource.
LEMMA KeepsSendDelete ==
  ASSUME IInv, SendDelete
  PROVE  RunInv'
<1> USE DEF IInv, RunInv, TypeOK
<1>1. /\ sweep.i \in 1 .. Len(res) /\ sweep.i >= sweep.from
      /\ cur \in Id
  BY DeletableHeld DEF SendDelete
<1>2. cur \in granted /\ mem[cur].del \in Deletions /\ Standing(cur)
  BY DeletableHeld DEF SendDelete
<1>3. mem[cur].del \in Op
  BY <1>2, DeletionsCreateNothing
<1>4. PICK op \in Op, id \in Id : op = mem[cur].del /\ id = cur
  BY <1>1, <1>3
<1>5. /\ JournalTypes' /\ PcTypes' /\ CallTypes'
      /\ next' \in 1 .. MaxIds + 1
      /\ Untouched' /\ Traced' /\ ConfirmedHeld' /\ CallHeld'
  <2>1. UNCHANGED <<server, begun, seen, saved, firsts, verdict, res, mem,
                    exp, granted>>
    BY DEF SendDelete
  <2>2. CASE Announce(mem[cur].del, "cleanup", cur)
    <3>1. Announce(op, "cleanup", id)
      BY <1>4, <2>2 DEF Announce
    <3> QED  BY <1>2, <1>4, <2>1, <3>1, AnnounceKeeps
  <2>3. CASE Refuse(mem[cur].del, "cleanup", cur)
    <3>1. Refuse(op, "cleanup", id)
      BY <1>4, <2>3 DEF Refuse
    <3> QED  BY <1>2, <1>4, <2>1, <3>1, RefuseKeeps
  <2> QED  BY <2>2, <2>3 DEF SendDelete
<1>6. /\ tried' = tried \cup {cur}
      /\ sweep' = [sweep EXCEPT !.attempt = @ + 1]
      /\ pc' \in {"dispatch", "settle"}
      /\ call'.kind = "cleanup" /\ call'.of = cur /\ call'.op = mem[cur].del
      /\ UNCHANGED <<res, mem, granted>>
  BY DEF SendDelete, Announce, Refuse
<1>7. sweep.attempt \in 0 .. Attempts - 1
  BY BoundsAssumption DEF SendDelete, Deletable, Fresh, AtResource
<1>8. /\ sweep'.i = sweep.i /\ sweep'.from = sweep.from
      /\ sweep'.attempt = sweep.attempt + 1
      /\ cur' = cur
  BY <1>6 DEF SweepTypes, cur
<1>9. \A x \in Id \ {cur} : deletes'[x] = deletes[x]
  BY DEF SendDelete, BookTypes
<1>10. deletes[cur] <= sweep.attempt
  <2>1. CASE Fresh
    BY <1>1, <2>1 DEF AttemptsHeld, Fresh, AtResource, BookTypes
  <2>2. CASE pc = "sweep" /\ sweep.attempt \in 1 .. Attempts - 1
    BY <1>1, <2>2, BoundsAssumption DEF AttemptsHeld, Sweeping
  <2> QED  BY <2>1, <2>2 DEF SendDelete, Deletable
<1>11. deletes' \in [Id -> Nat] /\ deletes'[cur] <= sweep.attempt + 1
  BY <1>1, <1>7, <1>10 DEF SendDelete, BookTypes
<1>12. /\ ServerTypes' /\ ExpTypes' /\ ConfirmedArrived' /\ FirstsHeld'
       /\ FixturesHeld' /\ DeletesHeld'
  BY ServerTypesFrame, ExpTypesFrame, ConfirmedArrivedFrame, FirstsHeldFrame,
     FixturesHeldFrame, DeletesHeldFrame
  DEF SendDelete, server
<1>13. MemoryTypes'
  BY <1>1, <1>6 DEF MemoryTypes
<1>14. SweepTypes'
  BY <1>6 DEF SweepTypes
<1>15. BookTypes'
  BY <1>5, <1>11 DEF BookTypes, SendDelete
<1>16. SweepHeld'
  <2>1. /\ sweep'.from >= 1 /\ sweep'.i <= Len(res')
        /\ sweep'.attempt \in 1 .. Attempts /\ sweep'.i >= sweep'.from
    BY <1>1, <1>6, <1>7, <1>8, BoundsAssumption
    DEF SweepHeld, MemoryTypes, SendDelete, Deletable, Fresh, AtResource,
        Sweeping
  <2> QED
    BY <1>2, <1>6, <1>8, <2>1, BoundsAssumption
    DEF SweepHeld, Sweeping, Requesting, Standing
<1>17. AttemptsHeld'
  BY <1>6, <1>7, <1>8, <1>9, <1>11, BoundsAssumption
       DEF AttemptsHeld, BookTypes, SendDelete, Deletable, Fresh, AtResource,
           SweepTypes
<1> QED  BY <1>5, <1>12, <1>13, <1>14, <1>15, <1>16, <1>17

\* The sweep is cut short.
LEMMA KeepsSweepTimesOut ==
  ASSUME IInv, SweepTimesOut
  PROVE  RunInv'
<1> USE DEF IInv, RunInv, TypeOK
<1>1. /\ sweep.i \in 1 .. Len(res) /\ sweep.i >= sweep.from
      /\ cur \in Id /\ sweep.from >= 1 /\ pc = "sweep"
  BY DeletableHeld DEF SweepTimesOut, Deletable, Fresh, AtResource, Sweeping,
                        SweepHeld
<1>2. /\ SweepTypes' /\ sweep'.from = sweep.from
      /\ sweep'.i = sweep.from - 1 /\ sweep'.attempt = 0
  <2>1. sweep.from - 1 \in Nat /\ sweep.failures \cup {cur} \in SUBSET Id
    BY <1>1 DEF SweepTypes
  <2>2. sweep' = [sweep EXCEPT !.i = sweep.from - 1, !.attempt = 0,
                               !.failures = sweep.failures \cup {cur}]
    BY DEF SweepTimesOut
  <2> QED  BY <2>1, <2>2 DEF SweepTypes
<1>3. /\ ServerTypes' /\ JournalTypes' /\ PcTypes' /\ ExpTypes' /\ CallTypes'
      /\ BookTypes' /\ Untouched' /\ Traced' /\ ConfirmedArrived'
      /\ ConfirmedHeld' /\ FirstsHeld' /\ FixturesHeld' /\ CallHeld'
      /\ DeletesHeld'
  BY ServerTypesFrame, JournalTypesFrame, PcTypesFrame, ExpTypesFrame,
     CallTypesFrame, BookTypesFrame, UntouchedFrame, TracedFrame,
     ConfirmedArrivedFrame, ConfirmedHeldFrame, FirstsHeldFrame,
     FixturesHeldFrame, CallHeldFrame, DeletesHeldFrame
  DEF SweepTimesOut, server, journal, ghosts
<1>4. MemoryTypes'
  BY <1>1 DEF MemoryTypes, SweepTimesOut
<1>5. SweepTypes'
  BY <1>2
<1>6. SweepHeld'
  <2>1. sweep'.i <= Len(res')
    BY <1>1, <1>2 DEF SweepTypes, MemoryTypes, SweepTimesOut
  <2> QED
    BY <1>1, <1>2, <2>1, BoundsAssumption
    DEF SweepHeld, SweepTimesOut, Sweeping, Requesting
<1>7. AttemptsHeld'
  BY DEF AttemptsHeld, SweepTimesOut, ghosts
<1> QED  BY <1>3, <1>4, <1>5, <1>6, <1>7

\* A resource becomes deleted only when the API has it no more.
LEMMA KeepsDeleteSettled ==
  ASSUME IInv, DeleteSettled
  PROVE  RunInv'
<1> USE DEF IInv, RunInv, TypeOK
<1> DEFINE done == call.out \in {"accepted", "gone"}
<1> DEFINE state == IF done THEN "deleted" ELSE "leftover"
<1>1. /\ sweep.i \in 1 .. Len(res) /\ sweep.i >= sweep.from
      /\ sweep.attempt \in 1 .. Attempts /\ sweep.from >= 1
      /\ cur \in granted /\ cur \in tried
      /\ mem[cur].del \in Deletions
      /\ call.of = cur /\ call.op = mem[cur].del
  BY AtSweep, BoundsAssumption
     DEF DeleteSettled, SweepHeld, Sweeping, Requesting, SweepTypes
<1>2. /\ cur \in Id /\ cur \in ToSet(res) /\ cur < next
      /\ mem[cur] \in Resource
  BY <1>1, AtSweep DEF DeleteSettled, Sweeping, Requesting
<1>3. done => cur \notin Exposed
  BY <1>1 DEF DeleteSettled, CallHeld, HasAnswer, ConfirmedArrived, Exposed
<1>4. PICK id \in Id : id = cur
  BY <1>2
<1>5. PICK r \in Resource : r = [mem[id] EXCEPT !.state = state]
  BY <1>2, <1>4 DEF Resource, State
<1>6. /\ r.state = state /\ r.parents = mem[id].parents
      /\ r.del = mem[id].del
  BY <1>2, <1>4, <1>5 DEF Resource
<1>7. mem' = [mem EXCEPT ![id] = r] /\ mem'[id] = r
  BY <1>4, <1>5 DEF DeleteSettled, MemoryTypes
<1>8. UNCHANGED <<server, begun, intent, seen, verdict, next, granted, exp,
                  res, tried, deletes>> /\ pc' = "sweep" /\ call' = NoCall
  BY DEF DeleteSettled, ghosts
<1>9. /\ JournalTypes' /\ mem' \in [Id -> Resource] /\ Untouched'
      /\ Traced' /\ ConfirmedHeld' /\ FirstsHeld' /\ FixturesHeld'
      /\ DeletesHeld'
  <2>1. CASE done \/ sweep.attempt = Attempts
    <3>1. Record(id, r)
      BY <1>4, <1>7, <2>1 DEF DeleteSettled, Record
    <3> QED
      BY <1>1, <1>2, <1>3, <1>4, <1>6, <1>7, <1>8, <3>1, RecordKeeps
      DEF Exposed, server
  <2>2. CASE ~(done \/ sweep.attempt = Attempts)
    <3>1. UNCHANGED <<saved, firsts>> /\ r.state = "leftover"
      BY <1>6, <2>2 DEF DeleteSettled
    <3>2. /\ mem' \in [Id -> Resource]
          /\ \A x \in Id : x # id => mem'[x] = mem[x]
      BY <1>7 DEF MemoryTypes
    <3>3. JournalTypes' /\ Untouched' /\ Traced' /\ FirstsHeld'
      BY <1>8, <3>1, JournalTypesFrame, UntouchedFrame, TracedFrame,
         FirstsHeldFrame DEF server
    <3>4. ConfirmedHeld'
      BY <1>1, <1>4, <1>6, <1>7, <1>8, <3>1, <3>2
      DEF ConfirmedHeld, Confirmed
    <3>5. FixturesHeld' /\ DeletesHeld'
      BY <1>6, <1>7, <1>8, <3>1, <3>2 DEF FixturesHeld, DeletesHeld
    <3> QED  BY <3>2, <3>3, <3>4, <3>5
  <2> QED  BY <2>1, <2>2
<1>10. \/ sweep.attempt < Attempts /\ UNCHANGED sweep
      \/ /\ SweepTypes' /\ sweep'.i = sweep.i - 1
         /\ sweep'.from = sweep.from /\ sweep'.attempt = 0
  <2>1. CASE done \/ sweep.attempt = Attempts
    <3>1. PICK failures \in SUBSET Id : Onward(failures)
      <4>1. (IF done THEN {} ELSE {cur}) \in SUBSET Id
        BY <1>2
      <4> QED  BY <2>1, <4>1 DEF DeleteSettled
    <3> QED  BY <1>1, <3>1, OnwardKeeps DEF MemoryTypes
  <2>2. CASE ~(done \/ sweep.attempt = Attempts)
    BY <1>1, <2>2, BoundsAssumption DEF DeleteSettled
  <2> QED  BY <2>1, <2>2
<1>11. ServerTypes' /\ ExpTypes' /\ BookTypes' /\ ConfirmedArrived'
  BY ServerTypesFrame, ExpTypesFrame, BookTypesFrame, ConfirmedArrivedFrame
  DEF DeleteSettled, server, ghosts
<1>12. PcTypes'
  BY DEF PcTypes, DeleteSettled, PCs
<1>13. MemoryTypes'
  BY <1>8, <1>9 DEF MemoryTypes
<1>14. CallTypes'
  BY DEF CallTypes, DeleteSettled, NoCall, Outcome
<1>15. SweepTypes'
  BY <1>10, SweepTypesFrame
<1>16. CallHeld'
  BY DEF CallHeld, DeleteSettled, Requesting, HasAnswer
<1>17. SweepHeld'
  <2>1. cur' = cur \/ sweep'.attempt = 0
    BY <1>8, <1>10 DEF cur
  <2>2. /\ mem'[cur].del = mem[cur].del
        /\ sweep'.attempt > 0 => mem'[cur].state = "leftover"
    <3>1. done => sweep'.attempt = 0
      BY DEF DeleteSettled, Onward, SweepTypes
    <3> QED  BY <1>4, <1>6, <1>7, <3>1
  <2>3. /\ sweep'.from >= 1 /\ sweep'.i <= Len(res')
        /\ sweep'.attempt \in 0 .. Attempts - 1
    BY <1>1, <1>8, <1>10, BoundsAssumption DEF MemoryTypes
  <2>4. sweep'.attempt > 0 =>
          sweep' = sweep /\ cur' = cur
    BY <1>10, <2>1
  <2> QED
    BY <1>1, <1>8, <2>2, <2>3, <2>4, BoundsAssumption
    DEF SweepHeld, Sweeping, Requesting, Standing
<1>18. AttemptsHeld'
  <2>1. sweep'.attempt = 0 \/ (sweep' = sweep /\ cur' = cur)
    BY <1>8, <1>10 DEF cur
  <2>2. Sweeping /\ pc # "down"
    BY DEF Sweeping, Requesting, DeleteSettled
  <2> QED  BY <1>8, <2>1, <2>2 DEF AttemptsHeld
<1> QED  BY <1>9, <1>11, <1>12, <1>13, <1>14, <1>15, <1>16, <1>17, <1>18

\* The experiment is over: a final sweep, or the next experiment.
LEMMA KeepsExperimentEnds ==
  ASSUME IInv, ExperimentEnds
  PROVE  RunInv'
<1> USE DEF IInv, RunInv, TypeOK
<1>1. /\ ServerTypes' /\ JournalTypes' /\ MemoryTypes' /\ CallTypes'
      /\ BookTypes' /\ Untouched' /\ Traced' /\ ConfirmedArrived'
      /\ ConfirmedHeld' /\ FirstsHeld' /\ DeletesHeld'
  BY ServerTypesFrame, JournalTypesFrame, MemoryTypesFrame, CallTypesFrame,
     BookTypesFrame, UntouchedFrame, TracedFrame, ConfirmedArrivedFrame,
     ConfirmedHeldFrame, FirstsHeldFrame, DeletesHeldFrame
  DEF ExperimentEnds, server, journal, memory, ghosts
<1>2. PcTypes'
  BY DEF PcTypes, ExperimentEnds, PCs
<1>3. ExpTypes'
  BY DEF ExpTypes, ExperimentEnds, NoExp
<1>4. SweepTypes'
  BY DEF SweepTypes, ExperimentEnds, Sweep, NoSweep
<1>5. FixturesHeld'
  BY DEF FixturesHeld, ExperimentEnds, NoExp, NoId, Id
<1>6. CallHeld'
  BY DEF CallHeld, ExperimentEnds, Requesting, HasAnswer
<1>7. SweepHeld'
  BY DEF SweepHeld, SweepTypes, ExperimentEnds, SweepOver, Sweep, Sweeping,
         Requesting
<1>8. AttemptsHeld'
  BY DEF AttemptsHeld, ExperimentEnds, SweepOver, Sweep, NoSweep, memory, ghosts
<1> QED  BY <1>1, <1>2, <1>3, <1>4, <1>5, <1>6, <1>7, <1>8

\* The experiment is over and its error is dropped.
LEMMA KeepsExperimentErrorDropped ==
  ASSUME IInv, ExperimentErrorDropped
  PROVE  RunInv'
<1> USE DEF IInv, RunInv, TypeOK
<1>1. /\ ServerTypes' /\ JournalTypes' /\ MemoryTypes' /\ CallTypes'
      /\ Untouched' /\ Traced' /\ ConfirmedArrived' /\ ConfirmedHeld'
      /\ FirstsHeld' /\ DeletesHeld'
  BY ServerTypesFrame, JournalTypesFrame, MemoryTypesFrame, CallTypesFrame,
     UntouchedFrame, TracedFrame, ConfirmedArrivedFrame, ConfirmedHeldFrame,
     FirstsHeldFrame, DeletesHeldFrame
  DEF ExperimentErrorDropped, server, journal, memory
<1>2. PcTypes'
  BY DEF PcTypes, ExperimentErrorDropped, PCs
<1>3. ExpTypes'
  BY DEF ExpTypes, ExperimentErrorDropped, NoExp
<1>4. SweepTypes'
  BY DEF SweepTypes, ExperimentErrorDropped, NoSweep
<1>5. BookTypes'
  BY DEF BookTypes, ExperimentErrorDropped
<1>6. FixturesHeld'
  BY DEF FixturesHeld, ExperimentErrorDropped, NoExp, NoId, Id
<1>7. CallHeld'
  BY DEF CallHeld, ExperimentErrorDropped, Requesting, HasAnswer
<1>8. SweepHeld'
  BY DEF SweepHeld, ExperimentErrorDropped, Sweeping, Requesting
<1>9. AttemptsHeld'
  BY DEF AttemptsHeld, ExperimentErrorDropped, SweepOver, NoSweep, memory
<1> QED  BY <1>1, <1>2, <1>3, <1>4, <1>5, <1>6, <1>7, <1>8, <1>9

\* The final sweep begins with nothing attempted.
LEMMA KeepsFinalCleanup ==
  ASSUME IInv, FinalCleanup
  PROVE  RunInv'
<1> USE DEF IInv, RunInv, TypeOK
<1>1. /\ ServerTypes' /\ JournalTypes' /\ MemoryTypes' /\ ExpTypes'
      /\ CallTypes' /\ BookTypes' /\ Untouched' /\ Traced'
      /\ ConfirmedArrived' /\ ConfirmedHeld' /\ FirstsHeld' /\ FixturesHeld'
      /\ DeletesHeld'
  BY ServerTypesFrame, JournalTypesFrame, MemoryTypesFrame, ExpTypesFrame,
     CallTypesFrame, BookTypesFrame, UntouchedFrame, TracedFrame,
     ConfirmedArrivedFrame, ConfirmedHeldFrame, FirstsHeldFrame,
     FixturesHeldFrame, DeletesHeldFrame
  DEF FinalCleanup, server, journal, memory, ghosts
<1>2. PcTypes'
  BY DEF PcTypes, FinalCleanup, PCs
<1>3. SweepTypes'
  BY DEF SweepTypes, FinalCleanup, Sweep
<1>4. CallHeld'
  BY DEF CallHeld, FinalCleanup, Requesting, HasAnswer
<1>5. SweepHeld'
  BY BoundsAssumption
       DEF SweepHeld, MemoryTypes, FinalCleanup, Sweep, Sweeping, Requesting,
           memory
<1>6. AttemptsHeld'
  BY DEF AttemptsHeld, FinalCleanup, Sweep, memory, ghosts
<1> QED  BY <1>1, <1>2, <1>3, <1>4, <1>5, <1>6

\* The run ends: what it knew is gone.
LEMMA KeepsFinish ==
  ASSUME IInv, Finish
  PROVE  RunInv'
<1> USE DEF IInv, RunInv, TypeOK
<1>1. /\ ServerTypes' /\ BookTypes' /\ Untouched' /\ Traced'
      /\ ConfirmedArrived' /\ FirstsHeld'
  BY ServerTypesFrame, BookTypesFrame, UntouchedFrame, TracedFrame,
     ConfirmedArrivedFrame, FirstsHeldFrame
  DEF Finish, server, ghosts
<1>2. JournalTypes'
  BY DEF JournalTypes, Finish
<1>3. PcTypes'
  BY DEF PcTypes, Finish, Forget, PCs
<1>4. MemoryTypes'
  BY DEF MemoryTypes, Finish, Forget, State, Resource, NoRes
<1>5. ExpTypes'
  BY DEF ExpTypes, Finish, Forget, NoExp
<1>6. CallTypes'
  BY DEF CallTypes, Finish, Forget, NoCall, Outcome
<1>7. SweepTypes'
  BY DEF SweepTypes, Finish, Forget, NoSweep
<1>8. ConfirmedHeld'
  BY DEF ConfirmedHeld, JournalTypes, Finish, Forget, Confirmed, NoRes, ToSet,
         ghosts
<1>9. FixturesHeld'
  BY DEF FixturesHeld, Finish, Forget, NoExp, NoId, Id
<1>10. CallHeld'
  BY DEF CallHeld, Finish, Forget, Requesting, HasAnswer
<1>11. SweepHeld'
  BY DEF SweepHeld, Finish, Forget, NoCall, Sweeping
<1>12. AttemptsHeld'
  BY DEF AttemptsHeld, Finish, Forget, ghosts
<1>13. DeletesHeld'
  BY DEF DeletesHeld, Finish, Forget, NoRes
<1> QED  BY <1>1, <1>2, <1>3, <1>4, <1>5, <1>6, <1>7, <1>8, <1>9,
            <1>10, <1>11, <1>12, <1>13

\* The reconciliation ends the process.
LEMMA KeepsReconcileStops ==
  ASSUME IInv, ReconcileStops
  PROVE  RunInv'
<1> USE DEF IInv, RunInv, TypeOK
<1>1. /\ ServerTypes' /\ BookTypes' /\ Untouched' /\ Traced'
      /\ ConfirmedArrived' /\ FirstsHeld'
  BY ServerTypesFrame, BookTypesFrame, UntouchedFrame, TracedFrame,
     ConfirmedArrivedFrame, FirstsHeldFrame
  DEF ReconcileStops, server, ghosts
<1>2. JournalTypes'
  BY DEF JournalTypes, ReconcileStops
<1>3. PcTypes'
  BY DEF PcTypes, ReconcileStops, Forget, PCs
<1>4. MemoryTypes'
  BY DEF MemoryTypes, ReconcileStops, Forget, State, Resource, NoRes
<1>5. ExpTypes'
  BY DEF ExpTypes, ReconcileStops, Forget, NoExp
<1>6. CallTypes'
  BY DEF CallTypes, ReconcileStops, Forget, NoCall, Outcome
<1>7. SweepTypes'
  BY DEF SweepTypes, ReconcileStops, Forget, NoSweep
<1>8. ConfirmedHeld'
  BY DEF ConfirmedHeld, JournalTypes, ReconcileStops, Forget, Confirmed, NoRes,
         ToSet, ghosts
<1>9. FixturesHeld'
  BY DEF FixturesHeld, ReconcileStops, Forget, NoExp, NoId, Id
<1>10. CallHeld'
  BY DEF CallHeld, ReconcileStops, Forget, Requesting, HasAnswer
<1>11. SweepHeld'
  BY DEF SweepHeld, ReconcileStops, Forget, NoCall, Sweeping
<1>12. AttemptsHeld'
  BY DEF AttemptsHeld, ReconcileStops, Forget, ghosts
<1>13. DeletesHeld'
  BY DEF DeletesHeld, ReconcileStops, Forget, NoRes
<1> QED  BY <1>1, <1>2, <1>3, <1>4, <1>5, <1>6, <1>7, <1>8, <1>9,
            <1>10, <1>11, <1>12, <1>13

\* The reconciliation is over and the run goes on.
LEMMA KeepsReconcileSucceeds ==
  ASSUME IInv, ReconcileSucceeds
  PROVE  RunInv'
<1> USE DEF IInv, RunInv, TypeOK
<1>1. /\ ServerTypes' /\ JournalTypes' /\ MemoryTypes' /\ ExpTypes'
      /\ CallTypes' /\ BookTypes' /\ Untouched' /\ Traced'
      /\ ConfirmedArrived' /\ ConfirmedHeld' /\ FirstsHeld' /\ FixturesHeld'
      /\ DeletesHeld'
  BY ServerTypesFrame, JournalTypesFrame, MemoryTypesFrame, ExpTypesFrame,
     CallTypesFrame, BookTypesFrame, UntouchedFrame, TracedFrame,
     ConfirmedArrivedFrame, ConfirmedHeldFrame, FirstsHeldFrame,
     FixturesHeldFrame, DeletesHeldFrame
  DEF ReconcileSucceeds, server, journal, memory, ghosts
<1>2. PcTypes'
  BY DEF PcTypes, ReconcileSucceeds, PCs
<1>3. SweepTypes'
  BY DEF SweepTypes, ReconcileSucceeds, NoSweep
<1>4. CallHeld'
  BY DEF CallHeld, ReconcileSucceeds, Requesting, HasAnswer
<1>5. SweepHeld'
  BY DEF SweepHeld, ReconcileSucceeds, Sweeping, Requesting
<1>6. AttemptsHeld'
  BY DEF AttemptsHeld, ReconcileSucceeds, SweepOver, NoSweep, memory, ghosts
<1> QED  BY <1>1, <1>2, <1>3, <1>4, <1>5, <1>6

------------------------------------------------------------------------------
(* Results *)

\* An event of a resource that stood, or had none, leaves what was mistaken for
\* deleted as it is.
LEMMA MistakenApart ==
  ASSUME IInv, NEW id \in Id, NEW r,
         pc # "down", Standing(id) \/ saved[id] = NoRes,
         UNCHANGED <<mistaken, begun>>,
         mem' = [mem EXCEPT ![id] = r],
         saved' = saved \/ saved' = [saved EXCEPT ![id] = r]
  PROVE  MistakenHeld'
<1>1. id \notin mistaken
  BY DEF IInv, MistakenHeld, NoRes, Standing
<1>2. \A x \in mistaken : mem'[x] = mem[x] /\ saved'[x] = saved[x]
  BY <1>1
  DEF IInv, RunInv, TypeOK, ServerTypes, MemoryTypes, JournalTypes
<1> QED  BY <1>2 DEF IInv, MistakenHeld, DeletesApart

\* So does a registration.
LEMMA RegisterApart ==
  ASSUME IInv, pc = "settle", call.kind # "cleanup", Register,
         UNCHANGED <<mistaken, begun>>
  PROVE  MistakenHeld'
<1>1. CASE UNCHANGED <<res, mem, saved, firsts>>
  BY <1>1, MistakenHeldFrame DEF IInv
<1>2. ASSUME call.id \in Id, saved[call.id] = NoRes,
             NEW r, mem' = [mem EXCEPT ![call.id] = r], Record(call.id, r)
      PROVE  MistakenHeld'
  BY <1>2, MistakenApart DEF Record
<1> QED  BY <1>1, <1>2, RegisterCases

\* What an accepted delete trial mistakes for deleted is settled as such.
LEMMA SettleMistakes ==
  ASSUME IInv, NEW id \in Id, SettleDeleted(id)
  PROVE  MistakenHeld'
<1>1. /\ pc = "settle" /\ mem[id] \in Resource
      /\ DeletesApart => id = call.of
  BY SettlingHeld DEF SettleDeleted
<1>2. /\ mem' = [mem EXCEPT ![id].state = "deleted"]
      /\ saved' = [saved EXCEPT ![id] = mem'[id]]
      /\ mistaken' = mistaken \cup ({id} \ {call.of})
      /\ UNCHANGED <<pc, begun>>
  BY SettleMarks DEF SettleDeleted, Record
<1>3. mem'[id].state = "deleted" /\ saved'[id] = mem'[id]
  BY <1>1, <1>2 DEF IInv, RunInv, TypeOK, MemoryTypes, JournalTypes, Resource
<1>4. \A x \in Id \ {id} : mem'[x] = mem[x] /\ saved'[x] = saved[x]
  BY <1>2 DEF IInv, RunInv, TypeOK, MemoryTypes, JournalTypes
<1> QED
  BY <1>1, <1>2, <1>3, <1>4
  DEF IInv, RunInv, TypeOK, ServerTypes, MistakenHeld, DeletesApart

\* Load takes what was mistaken for deleted as the journal has it.
LEMMA ResumeMistakes ==
  ASSUME IInv, NEW command \in {"resume", "cleanup"}, Resume(command)
  PROVE  MistakenHeld'
<1>1. /\ UNCHANGED <<mistaken, saved, begun>> /\ begun /\ pc' # "down"
      /\ mem' = [id \in Id |-> Recovered(id)]
  BY DEF Resume, server, journal
<1>2. ASSUME NEW id \in mistaken
      PROVE  saved[id].state = "deleted" /\ mem'[id] = saved[id]
  <2>1. id \in Id /\ saved[id].state = "deleted" /\ saved[id] # NoRes
    BY DEF IInv, RunInv, TypeOK, ServerTypes, MistakenHeld, NoRes
  <2> QED  BY <1>1, <2>1 DEF Recovered
<1> QED  BY <1>1, <1>2 DEF IInv, MistakenHeld, DeletesApart

\* Every step keeps what was mistaken for deleted.
LEMMA MistakenNext ==
  ASSUME IInv, [Next]_vars
  PROVE  MistakenHeld'
<1> DEFINE Kept ==
      /\ UNCHANGED <<mistaken, saved, begun>>
      /\ \/ UNCHANGED <<pc, mem>>
         \/ pc # "down" /\ (pc' = "down" \/ mem' = mem)
<1>1. Kept => MistakenHeld'
  BY MistakenHeldFrame DEF IInv
<1> HIDE DEF Kept
<1> USE DEF server, journal, memory, ghosts
<1>2. CASE Inspect
  BY <1>2 DEF IInv, MistakenHeld, DeletesApart, Inspect
<1>3. CASE \E command \in {"resume", "cleanup"} : Resume(command)
  BY <1>3, ResumeMistakes
<1>4. CASE Crash
  BY <1>1, <1>4 DEF Kept, Crash, Forget
<1>5. CASE \E id \in Id : ServerMaterialises(id)
  BY <1>1, <1>5 DEF Kept, ServerMaterialises
<1>6. CASE Reply \/ Request
  BY <1>1, <1>6
  DEF Kept, Reply, Request, ServerCreates, ServerDefers, ServerRemoves,
      ServerLeaves, Answer, RecordObservation, PollSucceeds, PollFails
<1>7. CASE Experiment
  <2>1. CASE \E op \in Op : BeginExperiment(op) \/ SendFixture(op)
    BY <1>1, <2>1 DEF Kept, BeginExperiment, SendFixture
  <2>2. CASE SendTrial \/ ResolveFails
    BY <1>1, <2>2 DEF Kept, SendTrial, ResolveFails
  <2>3. CASE FixtureSettled
    BY <2>3, RegisterApart DEF FixtureSettled
  <2>4. CASE TrialSettled
    BY <2>4, RegisterApart DEF TrialSettled
  <2>5. CASE \E id \in Id : SettleDeleted(id)
    BY <2>5, SettleMistakes
  <2> QED  BY <1>7, <2>1, <2>2, <2>3, <2>4, <2>5 DEF Experiment
<1>8. CASE Cleanup
  <2>1. CASE \/ SkipDeleted \/ AlreadyTried \/ SkipAmbiguous \/ SendDelete
             \/ SweepTimesOut
    BY <1>1, <2>1
    DEF Kept, SkipDeleted, AlreadyTried, SkipAmbiguous, Fresh, AtResource,
        SendDelete, SweepTimesOut, Deletable
  <2>2. CASE LeaveOver
    <3>1. cur \in Id /\ Standing(cur) /\ pc = "sweep"
      BY <2>2, AtSweep DEF LeaveOver, Fresh, AtResource, Sweeping
    <3> DEFINE r == [mem[cur] EXCEPT !.state = "leftover"]
    <3>2. mem' = [mem EXCEPT ![cur] = r] /\ mem'[cur] = r
      BY <2>2, <3>1 DEF LeaveOver, IInv, RunInv, TypeOK, MemoryTypes
    <3>3. saved' = [saved EXCEPT ![cur] = r]
      BY <2>2, <3>2 DEF LeaveOver, Record
    <3> HIDE DEF r
    <3> QED
      BY <2>2, <3>1, <3>2, <3>3, MistakenApart DEF LeaveOver
  <2>3. CASE DeleteSettled
    <3>1. /\ pc = "settle" /\ sweep.attempt > 0 /\ sweep.i >= sweep.from
          /\ Standing(cur)
      BY <2>3 DEF DeleteSettled, IInv, RunInv, SweepHeld, Sweeping,
                  Requesting, Standing
    <3>2. cur \in Id
      BY <2>3, <3>1, AtSweep DEF DeleteSettled, Sweeping, Requesting
    <3> DEFINE r == [mem[cur] EXCEPT !.state =
                       IF call.out \in {"accepted", "gone"} THEN "deleted"
                       ELSE "leftover"]
    <3>3. mem' = [mem EXCEPT ![cur] = r] /\ mem'[cur] = r
      BY <2>3, <3>2 DEF DeleteSettled, IInv, RunInv, TypeOK, MemoryTypes
    <3>4. saved' = saved \/ saved' = [saved EXCEPT ![cur] = r]
      BY <2>3, <3>3 DEF DeleteSettled, Record
    <3> HIDE DEF r
    <3> QED
      BY <2>3, <3>1, <3>2, <3>3, <3>4, MistakenApart DEF DeleteSettled
  <2> QED  BY <1>8, <2>1, <2>2, <2>3 DEF Cleanup
<1>9. CASE Conclude
  BY <1>1, <1>9
  DEF Kept, Conclude, ExperimentEnds, ExperimentErrorDropped, FinalCleanup,
      Finish, ReconcileStops, ReconcileSucceeds, SweepOver, Forget
<1>10. CASE UNCHANGED vars
  BY <1>1, <1>10 DEF Kept, vars
<1> QED
  BY <1>2, <1>3, <1>4, <1>5, <1>6, <1>7, <1>8, <1>9, <1>10 DEF Next, Step

\* Every step, stuttering included, preserves the invariant.
LEMMA KeepsNext == IInv /\ [Next]_vars => IInv'
<1> SUFFICES ASSUME IInv, [Next]_vars PROVE RunInv'
  BY MistakenNext DEF IInv
<1>1. CASE Inspect
  BY <1>1, KeepsInspect
<1>2. CASE \E command \in {"resume", "cleanup"} : Resume(command)
  BY <1>2, KeepsResume
<1>3. CASE Crash
  BY <1>3, KeepsCrash
<1>4. CASE \E id \in Id : ServerMaterialises(id)
  BY <1>4, KeepsServerMaterialises
<1>5. CASE Reply
  BY <1>5, KeepsServerCreates, KeepsServerDefers, KeepsServerRemoves,
     KeepsServerLeaves DEF Reply
<1>6. CASE Request
  BY <1>6, KeepsRecordObservation, KeepsPollSucceeds, KeepsPollFails
  DEF Request
<1>7. CASE Experiment
  BY <1>7, KeepsBeginExperiment, KeepsSendFixture, KeepsSendTrial,
     KeepsResolveFails, KeepsFixtureSettled, KeepsTrialSettled,
     KeepsSettleDeleted DEF Experiment
<1>8. CASE Cleanup
  BY <1>8, KeepsSkipDeleted, KeepsAlreadyTried, KeepsSkipAmbiguous,
     KeepsLeaveOver, KeepsSendDelete, KeepsSweepTimesOut, KeepsDeleteSettled
  DEF Cleanup
<1>9. CASE Conclude
  BY <1>9, KeepsExperimentEnds, KeepsExperimentErrorDropped,
     KeepsFinalCleanup, KeepsFinish, KeepsReconcileStops,
     KeepsReconcileSucceeds DEF Conclude
<1>10. CASE UNCHANGED vars
  <2>1. /\ UNCHANGED <<live, pending, mistaken, begun, intent, seen, saved,
                       firsts, verdict>>
        /\ UNCHANGED <<pc, res, mem, tried, exp, call, sweep>>
        /\ UNCHANGED <<next, exps, crashes, born, granted, deletes,
                       swallowed>>
    BY <1>10 DEF vars, server, journal, memory, ghosts
  <2>2. TypeOK'
    BY <2>1, ServerTypesFrame, JournalTypesFrame, PcTypesFrame,
       MemoryTypesFrame, ExpTypesFrame, CallTypesFrame, SweepTypesFrame,
       BookTypesFrame DEF IInv, RunInv, TypeOK
  <2>3. /\ Untouched' /\ Traced' /\ ConfirmedArrived' /\ ConfirmedHeld'
        /\ FirstsHeld'
    BY <2>1, UntouchedFrame, TracedFrame, ConfirmedArrivedFrame,
       ConfirmedHeldFrame, FirstsHeldFrame DEF IInv, RunInv
  <2>4. /\ FixturesHeld' /\ CallHeld' /\ SweepHeld' /\ AttemptsHeld'
        /\ DeletesHeld'
    BY <2>1, FixturesHeldFrame, CallHeldFrame, SweepHeldFrame,
       AttemptsHeldFrame, DeletesHeldFrame DEF IInv, RunInv
  <2> QED  BY <2>2, <2>3, <2>4 DEF IInv, RunInv
<1> QED
  BY <1>1, <1>2, <1>3, <1>4, <1>5, <1>6, <1>7, <1>8, <1>9, <1>10
  DEF Next, Step

\* The invariant holds in every reachable state.
THEOREM Invariance == Spec => []IInv
BY InitHolds, KeepsNext, PTL DEF Spec

\* Where no two creations share a DELETE, and each DELETE names the item of the
\* creation it is the companion of, no accepted delete trial makes the run take
\* a resource for deleted that the API still has: the theorems below then speak
\* of everything that exists or may still appear.
THEOREM NothingMistaken == ASSUME DeletesApart PROVE Spec => [](mistaken = {})
<1>1. IInv => mistaken = {}
  BY DEF IInv, MistakenHeld
<1> QED  BY <1>1, Invariance, PTL

\* Every reachable state has the declared shape.
THEOREM TypeCorrect == Spec => []TypeOK
<1>1. IInv => TypeOK
  BY DEF IInv, RunInv
<1> QED  BY <1>1, Invariance, PTL

\* What the invariant traces in the journal, Load claims.
LEMMA TracedIsClaimed == IInv => NothingLost
<1> SUFFICES ASSUME IInv, NEW id \in Exposed PROVE id \in Claims
  BY DEF NothingLost
<1>1. id \in Id /\ id \in Exposed
  BY DEF IInv, RunInv, TypeOK, ServerTypes, Exposed
<1>2. IsCreate(intent[id])
  BY <1>1 DEF IInv, RunInv, Traced
<1>3. CASE saved[id] # NoRes
  BY <1>1, <1>3 DEF IInv, RunInv, Traced, Recovered, Claims
<1>4. CASE saved[id] = NoRes /\ seen[id] = "none"
  <2>1. Unresolved(id)
    BY <1>2, <1>4 DEF Unresolved, IsWrite, IsCreate
  <2>2. Recovered(id).state = "ambiguous"
    BY <1>4, <2>1 DEF Recovered, NoRes
  <2> QED  BY <1>1, <2>2 DEF Claims
<1>5. CASE saved[id] = NoRes /\ MayHaveCreated(seen[id])
  <2>1. Unregistered(id) /\ ~Unresolved(id)
    BY <1>2, <1>5 DEF Unregistered, Unresolved, MayHaveCreated
  <2>2. Recovered(id).state \in {"owned", "ambiguous"}
    BY <1>5, <2>1 DEF Recovered
  <2> QED  BY <1>1, <2>2 DEF Claims
<1> QED  BY <1>1, <1>3, <1>4, <1>5 DEF IInv, RunInv, Traced

\* Whatever a process was doing when it died, no resource of the run escapes
\* the journal.
THEOREM NothingIsLost == Spec => []NothingLost
BY TracedIsClaimed, Invariance, PTL

\* Cleanup never sends a DELETE for a write of unknown outcome.
THEOREM DeletesConfirmed == Spec => []OnlyConfirmedDeleted
<1>1. IInv => OnlyConfirmedDeleted
  <2> SUFFICES ASSUME IInv, pc = "dispatch", call.kind = "cleanup"
               PROVE  call.of \in granted
    BY DEF OnlyConfirmedDeleted
  <2> QED
    BY DEF IInv, RunInv, SweepHeld, Sweeping, Requesting
<1> QED  BY <1>1, Invariance, PTL

\* A process sends at most Config.Cleanup.Attempts DELETEs for a resource.
THEOREM AttemptsHold == Spec => []AttemptsBounded
<1>1. IInv => AttemptsBounded
  BY DEF IInv, RunInv, AttemptsHeld, AttemptsBounded
<1> QED  BY <1>1, Invariance, PTL

(* What KInv adds depends on few variables *)

\* Resources stay known while the server only loses some of them.
LEMMA KnownFrame ==
  ASSUME NothingForgotten, UNCHANGED <<pc, res, mem, call>>,
         Exposed' \subseteq Exposed
  PROVE  NothingForgotten'
BY DEF NothingForgotten, Requesting, Standing, ToSet

\* DownHeld depends on these variables only.
LEMMA DownFrame ==
  ASSUME DownHeld, UNCHANGED <<pc, res, begun>>,
         Exposed' \subseteq Exposed
  PROVE  DownHeld'
BY DEF DownHeld, Exposed

\* CallApart depends on these variables only.
LEMMA CallApartFrame ==
  ASSUME CallApart, UNCHANGED <<pc, res, call>>
  PROVE  CallApart'
BY DEF CallApart, Requesting, ToSet

\* A write settled in the journal is settled whatever else happens.
LEMMA SettledFrame ==
  ASSUME NEW id \in Id, Settled(id), saved'[id] = saved[id],
         intent'[id] = intent[id], seen'[id] = seen[id]
  PROVE  Settled(id)'
BY DEF Settled, Unresolved, Unregistered, IsWrite, IsCreate, MayHaveCreated

\* SettledHeld depends on these variables only.
LEMMA SettledHeldFrame ==
  ASSUME SettledHeld, UNCHANGED <<crashes, saved, intent, seen, pc, call>>
  PROVE  SettledHeld'
BY SettledFrame DEF SettledHeld, Requesting, Id

\* SeenHeld depends on these variables only.
LEMMA SeenHeldFrame ==
  ASSUME SeenHeld, UNCHANGED <<pc, call, seen>>
  PROVE  SeenHeld'
BY DEF SeenHeld, MayHaveCreated, Id

\* LineageHeld depends on these variables only.
LEMMA LineageHeldFrame ==
  ASSUME LineageHeld,
         UNCHANGED <<saved, mem, res, born, crashes, pc, call, exp>>
  PROVE  LineageHeld'
BY DEF LineageHeld, Parented, Requesting, Fixtures, ToSet, Id

\* FixturesListed depends on these variables only.
LEMMA FixturesListedFrame ==
  ASSUME FixturesListed, UNCHANGED <<res, exp>>
  PROVE  FixturesListed'
BY DEF FixturesListed, Fixtures, ToSet, Id

\* AttemptHeld depends on these variables only.
LEMMA AttemptHeldFrame ==
  ASSUME AttemptHeld, UNCHANGED <<pc, call, sweep, res, mem>>
  PROVE  AttemptHeld'
BY DEF AttemptHeld, Sweeping, Requesting, cur, Standing, Blocked, ToSet

\* SweptHeld depends on these variables only.
LEMMA SweptHeldFrame ==
  ASSUME SweptHeld, UNCHANGED <<pc, call, sweep, res, mem, exp, swallowed>>
  PROVE  SweptHeld'
BY DEF SweptHeld, Experimenting, Sweeping, Requesting, Standing, GoneUpTo,
       GoneAfter, ToSet

------------------------------------------------------------------------------
(* Requests *)

\* From its dispatch to its last answer, a request changes nothing the process
\* holds; what appears on the server is its work.
LEMMA CarriesOn ==
  ASSUME KInv, Requesting, Requesting',
         UNCHANGED <<begun, intent, saved, res, mem, exp, sweep, crashes,
                     born, swallowed>>,
         call'.id = call.id, call'.kind = call.kind,
         Exposed' \subseteq Exposed \cup {call.id},
         \A id \in Id : id # call.id => seen'[id] = seen[id]
  PROVE  /\ NothingForgotten' /\ DownHeld' /\ CallApart' /\ SettledHeld'
         /\ LineageHeld' /\ FixturesListed' /\ AttemptHeld' /\ SweptHeld'
<1> USE DEF KInv, Known
<1>1. NothingForgotten'
  <2> SUFFICES ASSUME NEW id \in Exposed'
               PROVE  (id \in ToSet(res) /\ Standing(id)) \/ id = call.id
    BY DEF NothingForgotten, Exposed, Standing, ToSet
  <2> QED  BY DEF NothingForgotten, Requesting, Exposed
<1>2. DownHeld'
  BY DEF DownHeld, Requesting
<1>3. CallApart'
  BY DEF CallApart, ToSet
<1>4. SettledHeld'
  BY SettledFrame DEF SettledHeld, Id
<1>5. LineageHeld'
  BY DEF LineageHeld, Parented, Fixtures, ToSet, Id
<1>6. AttemptHeld'
  BY DEF AttemptHeld, Sweeping, Requesting, cur, Standing, Blocked, ToSet
<1>7. SweptHeld'
  BY DEF SweptHeld, Experimenting, Sweeping, Requesting, Standing, GoneUpTo,
         GoneAfter, ToSet
<1>8. FixturesListed'
  BY FixturesListedFrame
<1> QED  BY <1>1, <1>2, <1>3, <1>4, <1>5, <1>6, <1>7, <1>8

\* A new request is not in Report.Resources.
LEMMA Asked ==
  ASSUME KInv, pc # "down", ~Requesting,
         NEW op, NEW kind, NEW of,
         Announce(op, kind, of) \/ Refuse(op, kind, of),
         UNCHANGED <<server, begun, seen, saved, res, mem, crashes>>
  PROVE  /\ Requesting' /\ call'.id \in {next, NoId}
         /\ call'.kind = kind /\ call'.of = of
         /\ call'.id \in Id => Announce(op, kind, of)
         /\ NothingForgotten' /\ DownHeld' /\ CallApart' /\ SettledHeld'
         /\ SeenHeld'
<1> USE DEF KInv, Known
<1>1. /\ Requesting' /\ call'.id \in {next, NoId}
      /\ call'.kind = kind /\ call'.of = of
      /\ call'.id \in Id => Announce(op, kind, of)
      /\ pc' \in {"dispatch", "settle"}
  BY DEF Announce, Refuse, Requesting, NoId, Id
<1>2. NothingForgotten'
  BY DEF NothingForgotten, Exposed, server, Standing, ToSet
<1>3. DownHeld'
  BY <1>1 DEF DownHeld, Exposed, server
<1>4. CallApart'
  <2>1. \A id \in ToSet(res) : id \in Id /\ id < next
    BY DEF IInv, RunInv, TypeOK, MemoryTypes, ConfirmedHeld, ToSet
  <2> QED  BY <1>1, <2>1 DEF CallApart, NoId, Id, ToSet
<1>5. SettledHeld'
  <2>1. CASE Announce(op, kind, of)
    <3>1. /\ call'.id = next
          /\ \A id \in Id \ {next} : intent'[id] = intent[id]
      BY <2>1 DEF Announce, IInv, RunInv, TypeOK, JournalTypes
    <3> QED  BY <1>1, <3>1, SettledFrame DEF SettledHeld, Id
  <2>2. CASE Refuse(op, kind, of)
    BY <2>2, SettledFrame DEF SettledHeld, Refuse, Id
  <2> QED  BY <2>1, <2>2
<1>6. SeenHeld'
  BY DEF SeenHeld, Announce, Refuse, NoId, Id
<1> QED  BY <1>1, <1>2, <1>3, <1>4, <1>5, <1>6

\* Registering what a request created, or may have: it is known from then on,
\* with the fixtures it was created on, and nothing else changes.
LEMMA Registered ==
  ASSUME KInv, pc = "settle", call.kind # "cleanup", Register,
         UNCHANGED <<server, begun, intent, seen, crashes, born>>,
         call' = NoCall, pc' \in {"resolve", "sweep"}
  PROVE  /\ NothingForgotten' /\ DownHeld' /\ CallApart' /\ SettledHeld'
         /\ SeenHeld' /\ LineageHeld' /\ Len(res) <= Len(res')
         /\ Len(res') \in Nat
         /\ \A j \in DOMAIN res :
              j \in DOMAIN res' /\ res'[j] = res[j] /\ mem'[res[j]] = mem[res[j]]
         /\ ToSet(res) \subseteq ToSet(res')
         /\ IsCreate(call.op) /\ MayHaveCreated(call.out) =>
              call.id \in ToSet(res')
<1> USE DEF KInv, Known, IInv, RunInv, TypeOK
<1>1. Requesting /\ ~Requesting'
  BY DEF Requesting
<1>2. DownHeld' /\ CallApart' /\ SeenHeld'
  BY <1>1 DEF DownHeld, CallApart, SeenHeld, NoCall, NoId, Id, Exposed, server
<1>3. CASE /\ ~(IsCreate(call.op) /\ MayHaveCreated(call.out))
           /\ UNCHANGED <<res, mem, saved, firsts>>
  <2>1. call.id \notin Exposed
    BY <1>3 DEF Traced, CallHeld, HasAnswer, ServerTypes, Exposed
  <2>2. NothingForgotten'
    BY <1>1, <1>3, <2>1
    DEF NothingForgotten, Standing, ToSet, Exposed, server
  <2>3. call.id \in Id => Settled(call.id)
    BY <1>3 DEF Settled, Unresolved, Unregistered, SeenHeld, CallHeld
  <2>4. SettledHeld'
    BY <1>3, <2>3, SettledFrame DEF SettledHeld, Id
  <2>5. LineageHeld'
    BY <1>1, <1>3 DEF LineageHeld, Parented, ToSet, Id
  <2> QED  BY <1>2, <1>3, <2>2, <2>4, <2>5 DEF MemoryTypes, ToSet
<1>4. ASSUME call.id \in Id, saved[call.id] = NoRes,
             NEW r \in Resource, r.state \in {"owned", "ambiguous"},
             r.parents = Fixtures,
             res' = Append(res, call.id),
             mem' = [mem EXCEPT ![call.id] = r],
             Record(call.id, r)
      PROVE  /\ NothingForgotten' /\ SettledHeld' /\ LineageHeld'
             /\ Len(res) <= Len(res') /\ Len(res') \in Nat
             /\ \A j \in DOMAIN res :
                  /\ j \in DOMAIN res' /\ res'[j] = res[j]
                  /\ mem'[res[j]] = mem[res[j]]
             /\ ToSet(res') = ToSet(res) \cup {call.id}
  <2>1. /\ res \in Seq(Id) /\ ToSet(res') = ToSet(res) \cup {call.id}
        /\ Len(res') = Len(res) + 1
        /\ \A j \in DOMAIN res : j \in DOMAIN res' /\ res'[j] = res[j]
    BY <1>4 DEF MemoryTypes, ToSet
  <2>2. call.id \notin ToSet(res)
    BY <1>1 DEF CallApart
  <2>3. mem'[call.id] = r /\ \A id \in Id \ {call.id} : mem'[id] = mem[id]
    BY <1>4 DEF MemoryTypes
  <2>4. saved'[call.id] = r /\ \A id \in Id \ {call.id} : saved'[id] = saved[id]
    BY <1>4 DEF JournalTypes, Record
  <2>5. r # NoRes
    BY <1>4 DEF NoRes
  <2>6. \A j \in DOMAIN res : mem'[res[j]] = mem[res[j]]
    BY <2>1, <2>2, <2>3 DEF ToSet
  <2>7. NothingForgotten'
    <3> SUFFICES ASSUME NEW id \in Exposed
                 PROVE  id \in ToSet(res') /\ Standing(id)'
      BY DEF NothingForgotten, Exposed, server
    <3>1. CASE id = call.id
      BY <1>4, <2>1, <2>3, <3>1 DEF Standing
    <3>2. CASE id # call.id
      <4>1. id \in ToSet(res) /\ Standing(id) /\ id \in Id
        BY <3>2 DEF NothingForgotten, Exposed, ServerTypes
      <4> QED  BY <2>1, <2>3, <3>2, <4>1 DEF Standing
    <3> QED  BY <3>1, <3>2
  <2>8. SettledHeld'
    <3>1. ASSUME NEW id \in Id, id = call.id PROVE Settled(id)'
      BY <2>4, <2>5, <3>1 DEF Settled, Unresolved, Unregistered
    <3> QED  BY <2>4, <3>1, SettledFrame DEF SettledHeld, Id
  <2>9. LineageHeld'
    <3>1. born[call.id] = Fixtures
      BY <1>1, <1>4 DEF LineageHeld
    <3>2. ASSUME NEW id \in Id
          PROVE  /\ saved'[id] # NoRes => Parented(saved, id)'
                 /\ id \in ToSet(res') => Parented(mem, id)'
      <4>1. CASE id = call.id
        BY <1>4, <2>3, <2>4, <3>1, <4>1 DEF Parented
      <4>2. CASE id # call.id
        BY <2>1, <2>3, <2>4, <4>2 DEF LineageHeld, Parented
      <4> QED  BY <4>1, <4>2
    <3> QED  BY <1>1, <3>2 DEF LineageHeld, Id
  <2> QED  BY <2>1, <2>6, <2>7, <2>8, <2>9 DEF MemoryTypes
<1>5. CASE IsCreate(call.op) /\ MayHaveCreated(call.out)
  <2> DEFINE r == [state |-> IF call.out = "accepted" THEN "owned"
                             ELSE "ambiguous",
                   parents |-> Fixtures, del |-> DeleteOf[call.op]]
  <2>1. /\ call.id \in Id /\ saved[call.id] = NoRes
        /\ r \in Resource /\ res' = Append(res, call.id)
        /\ mem' = [mem EXCEPT ![call.id] = r]
        /\ Record(call.id, r)
    <3>1. call.id \in Id /\ saved[call.id] = NoRes
      BY <1>5, RegisterCases
    <3>2. Fixtures \subseteq Id /\ DeleteOf[call.op] \in Op \cup {NoOp}
      BY <1>5, PlanAssumption DEF Fixtures, IsCreate, CallTypes
    <3>3. r \in Resource
      BY <3>2 DEF Resource, State
    <3> QED  BY <1>5, <3>1, <3>3 DEF Register
  <2>2. r.state \in {"owned", "ambiguous"} /\ r.parents = Fixtures
    OBVIOUS
  <2> QED  BY <1>2, <1>4, <2>1, <2>2
<1>6. \/ /\ ~(IsCreate(call.op) /\ MayHaveCreated(call.out))
         /\ UNCHANGED <<res, mem, saved, firsts>>
      \/ IsCreate(call.op) /\ MayHaveCreated(call.out)
  BY RegisterCases
<1> QED  BY <1>2, <1>3, <1>5, <1>6

------------------------------------------------------------------------------
(* Load *)

\* Any order of a set of requests lists all of them.
LEMMA OrderedAll ==
  ASSUME NEW S \in SUBSET Id, NEW s \in SetToSeqs(S)
  PROVE  ToSet(s) = S
<1>1. IsFiniteSet(S)
  <2>1. IsFiniteSet(1 .. MaxIds)
    BY FS_Interval, BoundsAssumption
  <2>2. S \in SUBSET (1 .. MaxIds)
    BY DEF Id
  <2> QED  BY <2>1, <2>2, FS_Subset
<1> DEFINE D == 1 .. Cardinality(S)
<1>2. Cardinality(S) \in Nat
  BY <1>1, FS_CardinalityType
<1>3. s \in [D -> S] /\ \A i, j \in D : i # j => s[i] # s[j]
  BY DEF SetToSeqs
<1>4. s \in Injection(D, S)
  BY <1>3 DEF Injection, IsInjective
<1>5. Cardinality(D) = Cardinality(S)
  BY <1>2, FS_Interval
<1>6. s \in Surjection(D, S)
  BY <1>1, <1>4, <1>5, FS_Injection
<1> QED  BY <1>3, <1>6 DEF Surjection, ToSet

\* Load lists every resource it claims.
LEMMA ClaimsListed ==
  ASSUME IInv, NEW r \in RecoveredOrders
  PROVE  Claims \subseteq ToSet(r)
<1>1. PICK u \in Unresolveds, o \in Unregistereds : r = firsts \o u \o o
  BY DEF RecoveredOrders
<1>2. /\ u \in Seq(Id) /\ ToSet(u) = {id \in Id : Unresolved(id)}
      /\ o \in Seq(Id) /\ ToSet(o) = {id \in Id : Unregistered(id)}
  <2>1. {id \in Id : Unresolved(id)} \in SUBSET Id
    OBVIOUS
  <2>2. {id \in Id : Unregistered(id)} \in SUBSET Id
    OBVIOUS
  <2> QED
    BY <2>1, <2>2, Ordered, OrderedAll DEF Unresolveds, Unregistereds
<1>3. firsts \in Seq(Id) /\ ToSet(firsts) = {id \in Id : saved[id] # NoRes}
  BY DEF IInv, RunInv, TypeOK, JournalTypes, FirstsHeld
<1>4. /\ firsts \o u \in Seq(Id)
      /\ ToSet(firsts \o u) = ToSet(firsts) \cup ToSet(u)
  BY <1>2, <1>3, Joined
<1>5. ToSet(r) = ToSet(firsts) \cup ToSet(u) \cup ToSet(o)
  BY <1>1, <1>2, <1>4, Joined
<1>6. ASSUME NEW id \in Claims
      PROVE  id \in Id /\ (saved[id] # NoRes \/ Unresolved(id) \/ Unregistered(id))
  BY <1>6 DEF Claims, Recovered, NoRes
<1> QED  BY <1>2, <1>3, <1>5, <1>6

\* Load holds for a resource the parents its last event gives it; one without
\* an event is left over from a crash.
LEMMA RecoveredParents ==
  ASSUME KInv, pc = "down", NEW id \in Id, Recovered(id).state # "none"
  PROVE  \/ Parented(saved, id) /\ saved[id] = Recovered(id)
         \/ crashes > 0 /\ Recovered(id).parents = {}
<1> USE DEF KInv, Known
<1>1. CASE saved[id] # NoRes
  BY <1>1 DEF Recovered, LineageHeld, Parented
<1>2. CASE saved[id] = NoRes
  <2>1. Unresolved(id) \/ Unregistered(id)
    BY <1>2 DEF Recovered, NoRes
  <2>2. crashes > 0
    BY <2>1 DEF SettledHeld, Settled, Requesting, IInv, RunInv, TypeOK,
                BookTypes
  <2>3. Recovered(id).parents = {}
    BY <1>2, <2>1 DEF Recovered, NoRes
  <2> QED  BY <2>2, <2>3
<1> QED  BY <1>1, <1>2

------------------------------------------------------------------------------
(* Sweeps *)

\* A sweep that begins has passed nothing.
LEMMA SweepBegins ==
  ASSUME NEW after, NEW from, sweep' = Sweep(from, after), pc' = "sweep",
         res' \in Seq(Id),
         after # "experiment" => from = 1,
         after = "experiment" =>
           /\ from = exp'.start + 1 /\ exp'.start <= Len(res')
           /\ ~swallowed' => GoneUpTo(exp.start)'
  PROVE  AttemptHeld' /\ SweptHeld'
<1>1. /\ sweep'.i = Len(res') /\ sweep'.from = from /\ sweep'.attempt = 0
      /\ sweep'.after = after
  BY DEF Sweep
<1>2. AttemptHeld'
  BY <1>1 DEF AttemptHeld
<1>3. GoneAfter(sweep.i)'
  BY <1>1 DEF GoneAfter
<1> QED
  BY <1>1, <1>2, <1>3 DEF SweptHeld, Experimenting, Sweeping, Requesting

\* A sweep moves on over resources that are deleted or that it reports.
LEMMA SweepMoves ==
  ASSUME KInv, pc = "sweep",
         UNCHANGED <<server, begun, intent, seen, saved, pc, res, mem, exp,
                     call, crashes, born, swallowed>>,
         sweep'.from = sweep.from, sweep'.after = sweep.after,
         sweep'.attempt = 0,
         sweep'.failures = {} => sweep.failures = {} /\ GoneAfter(sweep'.i)
  PROVE  Known'
<1> USE DEF KInv, Known
<1>1. /\ NothingForgotten' /\ DownHeld' /\ CallApart' /\ SettledHeld'
      /\ SeenHeld' /\ LineageHeld' /\ FixturesListed'
  BY KnownFrame, DownFrame, CallApartFrame, SettledHeldFrame, SeenHeldFrame,
     LineageHeldFrame, FixturesListedFrame DEF Exposed, server
<1>2. AttemptHeld'
  BY DEF AttemptHeld
<1>3. SweptHeld'
  BY DEF SweptHeld, Experimenting, Sweeping, Requesting, GoneUpTo, GoneAfter,
         Standing
<1> QED  BY <1>1, <1>2, <1>3

\* A sweep leaves the resource it is at over, or finds it gone.
LEMMA SweepStates ==
  ASSUME KInv, Sweeping, NEW id \in Id, id = cur, sweep.i \in DOMAIN res,
         Standing(id),
         NEW r \in Resource, r.state \in {"leftover", "deleted"},
         r.state = "deleted" => id \notin Exposed,
         r.parents = mem[id].parents,
         mem' = [mem EXCEPT ![id] = r],
         \/ saved' = [saved EXCEPT ![id] = r]
         \/ saved' = saved,
         pc' = "sweep", ~Requesting',
         Requesting => /\ call.id \notin Exposed
                       /\ call.id \in Id => Settled(call.id),
         UNCHANGED <<server, begun, intent, seen, res, exp, crashes, born,
                     swallowed>>,
         \/ r.state = "leftover" /\ UNCHANGED sweep
         \/ /\ sweep'.from = sweep.from /\ sweep'.after = sweep.after
            /\ sweep'.attempt = 0 /\ sweep'.i = sweep.i - 1
            /\ sweep'.failures = {} =>
                 sweep.failures = {} /\ r.state = "deleted"
  PROVE  Known'
<1> USE DEF KInv, Known, IInv, RunInv, TypeOK
<1>1. mem'[id] = r /\ \A x \in Id \ {id} : mem'[x] = mem[x]
  BY DEF MemoryTypes
<1>2. \A x \in Id : x \in ToSet(res) /\ Standing(x)' => Standing(x)
  BY <1>1 DEF Standing
<1>3. res \in Seq(Id) /\ \A j \in DOMAIN res : res[j] \in Id
  BY DEF MemoryTypes
<1>4. NothingForgotten'
  <2> SUFFICES ASSUME NEW x \in Exposed
               PROVE  x \in ToSet(res) /\ Standing(x)'
    BY DEF NothingForgotten, Exposed, server, ToSet
  <2>1. x \in ToSet(res) /\ Standing(x) /\ x \in Id
    BY DEF NothingForgotten, Exposed, Sweeping, Requesting, ServerTypes
  <2>2. CASE x = id
    BY <1>1, <2>1, <2>2 DEF Standing
  <2>3. CASE x # id
    BY <1>1, <2>1, <2>3 DEF Standing
  <2> QED  BY <2>1, <2>2, <2>3
<1>5. DownHeld' /\ CallApart' /\ SeenHeld' /\ FixturesListed'
  BY FixturesListedFrame
  DEF DownHeld, CallApart, SeenHeld, Sweeping, Requesting
<1>6. SettledHeld'
  <2>1. ASSUME NEW x \in Id, crashes = 0
        PROVE  Settled(x)'
    <3>1. Settled(x)
      BY <2>1 DEF SettledHeld
    <3>2. CASE saved'[x] = saved[x]
      BY <3>1, <3>2, SettledFrame
    <3>3. CASE saved'[x] # saved[x]
      <4>1. saved'[x] = r
        BY <3>3 DEF JournalTypes
      <4>2. saved'[x] # NoRes
        BY <4>1 DEF NoRes
      <4> QED  BY <4>2 DEF Settled, Unresolved, Unregistered
    <3> QED  BY <3>2, <3>3
  <2> QED  BY <2>1 DEF SettledHeld, Id
<1>7. LineageHeld'
  <2>1. ASSUME NEW x \in Id
        PROVE  /\ saved'[x] # NoRes => Parented(saved, x)'
               /\ x \in ToSet(res') => Parented(mem, x)'
    <3>1. CASE x # id
      <4>1. saved'[x] = saved[x] /\ mem'[x] = mem[x]
        BY <1>1, <3>1 DEF JournalTypes
      <4> QED  BY <4>1 DEF LineageHeld, Parented, ToSet
    <3>2. CASE x = id
      <4>1. x \in ToSet(res)
        BY <3>2 DEF cur, ToSet
      <4>2. Parented(mem, x)
        BY <4>1 DEF LineageHeld
      <4>3. saved'[x] = saved[x] \/ saved'[x] = r
        BY <3>2 DEF JournalTypes
      <4> QED  BY <1>1, <3>2, <4>2, <4>3 DEF LineageHeld, Parented
    <3> QED  BY <3>1, <3>2
  <2> QED  BY <2>1 DEF LineageHeld, Id
<1>8. AttemptHeld'
  <2>1. CASE r.state = "leftover" /\ UNCHANGED sweep
    <3>1. cur' = id
      BY <2>1 DEF cur
    <3>2. Standing(id)'
      BY <1>1, <2>1 DEF Standing
    <3>3. \A x \in ToSet(res) : x \in Id /\ mem'[x].parents = mem[x].parents
      BY <1>1, <1>3 DEF ToSet
    <3>4. ~Blocked(id) => ~Blocked(id)'
      BY <1>2, <3>3 DEF Blocked, ToSet
    <3> QED  BY <2>1, <3>1, <3>2, <3>4 DEF AttemptHeld
  <2>2. CASE sweep'.attempt = 0
    BY <2>2 DEF AttemptHeld
  <2> QED  BY <2>1, <2>2
<1>9. SweptHeld'
  <2>1. GoneUpTo(exp.start) => GoneUpTo(exp.start)'
    BY <1>2, <1>3 DEF GoneUpTo, ToSet
  <2>2. Experimenting' => Experimenting
    BY DEF Experimenting, Sweeping, Requesting
  <2>3. sweep'.failures = {} => GoneAfter(sweep.i)'
    <3>1. sweep.failures = {} => GoneAfter(sweep.i)
      BY DEF SweptHeld
    <3>2. CASE r.state = "leftover" /\ UNCHANGED sweep
      BY <1>2, <1>3, <3>1, <3>2 DEF GoneAfter, ToSet
    <3>3. CASE sweep'.i = sweep.i - 1 /\ sweep.failures = {} /\ r.state = "deleted"
      <4>1. ASSUME NEW j \in DOMAIN res, j > sweep.i - 1
            PROVE  ~Standing(res[j])'
        <5>1. CASE j > sweep.i
          BY <1>2, <1>3, <3>1, <3>3, <5>1 DEF GoneAfter, ToSet
        <5>2. CASE j = sweep.i
          <6>1. res[j] = id /\ res' = res
            BY <5>2 DEF cur
          <6> QED  BY <1>1, <3>3, <6>1 DEF Standing
        <5> QED  BY <1>3, <4>1, <5>1, <5>2
      <4> QED  BY <3>3, <4>1 DEF GoneAfter
    <3> QED  BY <3>2, <3>3
  <2> QED
    BY <2>1, <2>2, <2>3 DEF SweptHeld, Sweeping, Requesting
<1> QED  BY <1>4, <1>5, <1>6, <1>7, <1>8, <1>9

------------------------------------------------------------------------------
(* The actions *)

\* A process that is gone holds nothing, and leaves the journal as it is.
LEMMA Forgotten ==
  ASSUME KInv, Forget, begun,
         UNCHANGED <<server, begun, intent, seen, saved, born>>,
         \/ crashes' > 0
         \/ crashes' = crashes /\ ~Requesting
  PROVE  Known'
<1> USE DEF KInv, Known
<1>1. /\ pc' = "down" /\ res' = << >> /\ ToSet(res') = {}
      /\ ~Requesting' /\ ~Sweeping' /\ ~Experimenting'
  BY DEF Forget, Requesting, Sweeping, Experimenting, ToSet
<1>2. NothingForgotten' /\ DownHeld' /\ CallApart' /\ SeenHeld'
  BY <1>1 DEF NothingForgotten, DownHeld, CallApart, SeenHeld
<1>3. SettledHeld'
  BY <1>1, SettledFrame DEF SettledHeld, Id
<1>4. LineageHeld'
  BY <1>1 DEF LineageHeld, Parented, Id
<1>5. AttemptHeld' /\ SweptHeld' /\ FixturesListed'
  BY <1>1
  DEF AttemptHeld, SweptHeld, FixturesListed, Fixtures, Forget, NoExp, NoId, Id
<1> QED  BY <1>2, <1>3, <1>4, <1>5

\* The first process begins with an empty server.
LEMMA InspectKnows ==
  ASSUME KInv, Inspect PROVE Known'
<1> USE DEF KInv, Known
<1>1. /\ Exposed = {} /\ res = << >> /\ ToSet(res) = {}
  BY DEF Inspect, DownHeld, ToSet
<1>2. NothingForgotten' /\ DownHeld' /\ CallApart' /\ SeenHeld' /\ AttemptHeld'
  BY <1>1
  DEF Inspect, NothingForgotten, DownHeld, CallApart, SeenHeld, AttemptHeld,
      Requesting, Sweeping, Exposed, server
<1>3. SettledHeld'
  BY SettledFrame DEF Inspect, SettledHeld, Requesting, Id
<1>4. LineageHeld'
  BY <1>1 DEF Inspect, LineageHeld, Parented, Requesting, memory, Id
<1>5. SweptHeld' /\ FixturesListed'
  BY <1>1, FixturesListedFrame
  DEF Inspect, SweptHeld, Experimenting, Sweeping, Requesting, memory
<1> QED  BY <1>2, <1>3, <1>4, <1>5

\* A process that takes a run up again knows what Load claims.
LEMMA ResumeKnows ==
  ASSUME KInv, NEW command \in {"resume", "cleanup"}, Resume(command)
  PROVE  Known'
<1> USE DEF KInv, Known
<1>1. /\ mem' = [id \in Id |-> Recovered(id)]
      /\ pc = "down" /\ pc' = "sweep" /\ begun /\ begun' = begun
      /\ UNCHANGED <<live, pending, mistaken, saved, seen, intent, crashes,
                     born, exp, call>>
      /\ sweep' = Sweep(1, command)
      /\ res' \in RecoveredOrders
      /\ ~Requesting /\ ~Requesting'
  BY DEF Resume, journal, server, Requesting
<1>2. /\ res' \in Seq(Id)
      /\ \A id \in ToSet(res') : id \in Id /\ Recovered(id).state # "none"
  BY <1>1, RecoveredList
<1>3. NothingForgotten'
  <2> SUFFICES ASSUME NEW id \in Exposed
               PROVE  id \in ToSet(res') /\ mem'[id].state # "deleted"
    BY <1>1 DEF NothingForgotten, Standing, Exposed
  <2>1. id \in Claims
    BY TracedIsClaimed DEF NothingLost
  <2>2. id \in Id /\ Recovered(id).state # "deleted"
    BY <2>1 DEF Claims
  <2> QED  BY <1>1, <2>1, <2>2, ClaimsListed
<1>4. DownHeld' /\ CallApart' /\ SeenHeld'
  BY <1>1 DEF DownHeld, CallApart, SeenHeld
<1>5. SettledHeld'
  BY <1>1, SettledFrame DEF SettledHeld, Id
<1>6. LineageHeld'
  <2>1. ASSUME NEW id \in ToSet(res')
        PROVE  Parented(mem, id)'
    BY <1>1, <1>2, <2>1, RecoveredParents DEF Parented
  <2> QED  BY <1>1, <2>1 DEF LineageHeld, Parented, Id
<1>7. AttemptHeld' /\ SweptHeld'
  BY <1>1, <1>2, SweepBegins
<1>8. FixturesListed'
  BY <1>1 DEF FixturesListed, Fixtures, IInv, RunInv, CallHeld, NoExp, NoId, Id
<1> QED  BY <1>3, <1>4, <1>5, <1>6, <1>7, <1>8

\* A crash leaves what the journal says.
LEMMA CrashKnows ==
  ASSUME KInv, Crash PROVE Known'
<1>1. /\ begun /\ Forget /\ crashes' = crashes + 1 /\ crashes \in Nat
      /\ UNCHANGED <<server, begun, intent, seen, saved, born>>
  BY DEF Crash, KInv, Known, DownHeld, IInv, RunInv, TypeOK, BookTypes,
         journal, ghosts
<1>2. crashes' > 0
  BY <1>1
<1> QED  BY <1>1, <1>2, Forgotten

\* An answer: at most the resource of the request appears.
LEMMA ReplyKnows ==
  ASSUME KInv, Reply PROVE Known'
<1>1. /\ pc = "dispatch" /\ pc' = "answered"
      /\ Exposed' \subseteq Exposed \cup {call.id}
      /\ UNCHANGED <<journal, memory, exp, sweep, crashes, born, swallowed>>
      /\ \E out \in Outcome : call' = [call EXCEPT !.out = out]
  BY DEF Reply, ServerCreates, ServerDefers, ServerRemoves, ServerLeaves,
         Answer, server, Outcome, Exposed
<1>2. call'.id = call.id /\ call'.kind = call.kind
  BY <1>1 DEF KInv, IInv, RunInv, TypeOK, CallTypes
<1>3. /\ NothingForgotten' /\ DownHeld' /\ CallApart' /\ SettledHeld'
      /\ LineageHeld' /\ FixturesListed' /\ AttemptHeld' /\ SweptHeld'
  BY <1>1, <1>2, CarriesOn DEF Requesting, Exposed, journal, memory
<1>4. SeenHeld'
  BY <1>1 DEF SeenHeld
<1> QED  BY <1>3, <1>4 DEF Known

\* A delayed creation takes place, or never will.
LEMMA ServerMaterialisesKnows ==
  ASSUME KInv, NEW id \in Id, ServerMaterialises(id) PROVE Known'
<1>1. /\ Exposed' \subseteq Exposed
      /\ UNCHANGED <<begun, intent, seen, saved, pc, res, mem, exp, call,
                     sweep, crashes, born, swallowed>>
  BY DEF ServerMaterialises, Exposed, journal, memory, ghosts
<1> QED
  BY <1>1, KnownFrame, DownFrame, CallApartFrame, SettledHeldFrame,
     SeenHeldFrame, LineageHeldFrame, FixturesListedFrame, AttemptHeldFrame,
     SweptHeldFrame
  DEF KInv, Known

\* The observation is recorded under the request's id.
LEMMA RecordObservationKnows ==
  ASSUME KInv, RecordObservation PROVE Known'
<1>1. /\ pc = "answered" /\ pc' \in {"polling", "settle"}
      /\ seen' = [seen EXCEPT ![call.id] = call.out]
      /\ UNCHANGED <<live, pending, mistaken, begun, intent, saved, memory,
                     exp, call, sweep, crashes, born, swallowed>>
  BY DEF RecordObservation, server, ghosts
<1>2. call.id \in Id /\ seen \in [Id -> Outcome \cup {"none"}]
      /\ call.out \in Outcome
  BY <1>1, Answered DEF KInv, IInv, RunInv, TypeOK, JournalTypes, CallTypes
<1>3. /\ NothingForgotten' /\ DownHeld' /\ CallApart' /\ SettledHeld'
      /\ LineageHeld' /\ FixturesListed' /\ AttemptHeld' /\ SweptHeld'
  BY <1>1, <1>2, CarriesOn DEF Requesting, Exposed, memory
<1>4. SeenHeld'
  BY <1>1, <1>2 DEF SeenHeld, Outcome
<1> QED  BY <1>3, <1>4 DEF Known

\* Polling ends with an outcome that leaves a creation open, or confirms it.
LEMMA PollKnows ==
  ASSUME KInv, PollSucceeds \/ PollFails PROVE Known'
<1>1. /\ pc = "polling" /\ pc' = "settle"
      /\ Exposed' \subseteq Exposed
      /\ UNCHANGED <<journal, memory, exp, sweep, crashes, born, swallowed>>
      /\ \E out \in {"accepted", "inconclusive", "error"} :
           call' = [call EXCEPT !.out = out]
  BY DEF PollSucceeds, PollFails, server, ghosts, Exposed
<1>2. /\ call'.id = call.id /\ call'.kind = call.kind
      /\ call'.out \in {"accepted", "inconclusive", "error"}
  BY <1>1 DEF KInv, IInv, RunInv, TypeOK, CallTypes
<1>3. /\ NothingForgotten' /\ DownHeld' /\ CallApart' /\ SettledHeld'
      /\ LineageHeld' /\ FixturesListed' /\ AttemptHeld' /\ SweptHeld'
  BY <1>1, <1>2, CarriesOn DEF Requesting, Exposed, journal, memory
<1>4. SeenHeld'
  BY <1>1, <1>2
  DEF KInv, Known, SeenHeld, MayHaveCreated, journal, Id
<1> QED  BY <1>3, <1>4 DEF Known

\* An experiment begins at the end of Report.Resources.
LEMMA BeginExperimentKnows ==
  ASSUME KInv, NEW op \in Op, BeginExperiment(op) PROVE Known'
<1> USE DEF KInv, Known
<1>1. /\ pc = "ready" /\ pc' = "resolve" /\ exp'.start = Len(res)
      /\ UNCHANGED <<live, pending, mistaken, begun, intent, seen, saved, res,
                     mem, call, sweep, crashes, born, swallowed>>
  BY DEF BeginExperiment, NoExp, server, journal, memory, ghosts
<1>2. res \in Seq(Id)
  BY DEF IInv, RunInv, TypeOK, MemoryTypes
<1>3. NothingForgotten' /\ DownHeld' /\ CallApart' /\ SeenHeld' /\ AttemptHeld'
  BY <1>1
  DEF NothingForgotten, DownHeld, CallApart, SeenHeld, AttemptHeld,
      Requesting, Sweeping, Standing, Exposed, ToSet
<1>4. SettledHeld'
  BY <1>1, SettledFrame DEF SettledHeld, Requesting, Id
<1>5. LineageHeld'
  BY <1>1 DEF LineageHeld, Parented, Requesting, ToSet, Id
<1>6. SweptHeld'
  <2>1. ~swallowed => GoneUpTo(exp.start)'
    BY <1>1, <1>2 DEF SweptHeld, GoneUpTo, Standing, ToSet
  <2> QED
    BY <1>1, <1>2, <2>1
    DEF SweptHeld, Experimenting, Sweeping, Requesting
<1>7. FixturesListed'
  BY DEF BeginExperiment, FixturesListed, Fixtures, NoExp, NoId, Id
<1> QED  BY <1>3, <1>4, <1>5, <1>6, <1>7

\* A request of an experiment is sent on top of its fixtures.
LEMMA SendKnows ==
  ASSUME KInv, NEW op \in Op, NEW kind \in {"fixture", "trial"},
         NEW of \in Id \cup {NoId},
         pc = "resolve",
         \/ /\ Announce(op, kind, of)
            /\ born' = [born EXCEPT ![next] = Fixtures]
         \/ Refuse(op, kind, NoId) /\ UNCHANGED born,
         UNCHANGED <<server, begun, seen, saved, firsts, verdict, memory, exp,
                     sweep, exps, crashes, granted, deletes, swallowed>>
  PROVE  Known'
<1> USE DEF KInv, Known
<1>1. \E x : Announce(op, kind, x) \/ Refuse(op, kind, x)
  OBVIOUS
<1>2. /\ Requesting' /\ call'.id \in {next, NoId}
      /\ call'.kind = kind
      /\ NothingForgotten' /\ DownHeld' /\ CallApart' /\ SettledHeld'
      /\ SeenHeld'
  BY <1>1, Asked DEF Requesting, memory
<1>3. UNCHANGED <<res, mem>> /\ pc' \in {"dispatch", "settle"}
  BY DEF memory, Announce, Refuse
<1>4. LineageHeld'
  <2>1. CASE /\ Announce(op, kind, of)
             /\ born' = [born EXCEPT ![next] = Fixtures]
    <3>1. /\ next \in Id /\ saved[next] = NoRes /\ call'.id = next
      BY <2>1, Announced DEF Announce
    <3>2. next \notin ToSet(res)
      BY <3>1 DEF IInv, RunInv, TypeOK, ConfirmedHeld, BookTypes
    <3>3. born'[next] = Fixtures /\ \A id \in Id \ {next} : born'[id] = born[id]
      BY <2>1, <3>1 DEF IInv, RunInv, TypeOK, BookTypes
    <3> QED
      BY <1>2, <1>3, <3>1, <3>2, <3>3
      DEF LineageHeld, Parented, Fixtures, ToSet, Id
  <2>2. CASE Refuse(op, kind, NoId) /\ UNCHANGED born
    <3>1. call'.id \notin Id
      BY <2>2 DEF Refuse, NoId, Id
    <3> QED  BY <1>3, <2>2, <3>1 DEF LineageHeld, Parented, ToSet, Id
  <2> QED  BY <2>1, <2>2
<1>5. AttemptHeld' /\ SweptHeld' /\ FixturesListed'
  BY <1>2, <1>3, FixturesListedFrame
  DEF AttemptHeld, SweptHeld, Experimenting, Sweeping, Requesting, GoneUpTo,
      Standing
<1> QED  BY <1>2, <1>4, <1>5

\* A fixture request.
LEMMA SendFixtureKnows ==
  ASSUME KInv, NEW op \in Op, SendFixture(op) PROVE Known'
BY SendKnows DEF SendFixture

\* The trial request.
LEMMA SendTrialKnows ==
  ASSUME KInv, SendTrial PROVE Known'
<1>1. exp.op \in Op
  BY DEF SendTrial, KInv, IInv, RunInv, TypeOK, CallHeld, ExpTypes
<1>2. Addressed(exp.op) \in Id \cup {NoId}
  BY DEF Addressed
<1> QED  BY <1>1, <1>2, SendKnows DEF SendTrial

\* An experiment that ends sweeps what was registered since it began.
LEMMA EndKnows ==
  ASSUME KInv, NEW err, EndExperiment(err), Experimenting,
         UNCHANGED swallowed,
         Len(res) <= Len(res'), res' \in Seq(Id),
         \A j \in DOMAIN res :
           /\ j \in DOMAIN res' /\ res'[j] = res[j]
           /\ ~Standing(res[j]) => mem'[res[j]].state = "deleted"
  PROVE  AttemptHeld' /\ SweptHeld'
<1> USE DEF KInv, Known
<1>1. /\ pc' = "sweep" /\ sweep' = Sweep(exp.start + 1, "experiment")
      /\ exp'.start = exp.start
  BY DEF EndExperiment, IInv, RunInv, TypeOK, ExpTypes
<1>2. exp.start \in Nat /\ res \in Seq(Id)
  BY DEF IInv, RunInv, TypeOK, ExpTypes, MemoryTypes
<1>3. exp'.start <= Len(res')
  BY <1>1, <1>2 DEF SweptHeld
<1>4. ~swallowed' => GoneUpTo(exp.start)'
  <2> SUFFICES ASSUME ~swallowed, NEW j \in DOMAIN res', j <= exp.start
               PROVE  mem'[res'[j]].state = "deleted"
    BY <1>1 DEF GoneUpTo, Standing
  <2>1. j \in DOMAIN res
    BY <1>2 DEF SweptHeld
  <2> QED  BY <2>1 DEF SweptHeld, GoneUpTo
<1> QED  BY <1>1, <1>3, <1>4, SweepBegins

\* The experiment ends before its trial.
LEMMA ResolveFailsKnows ==
  ASSUME KInv, ResolveFails PROVE Known'
<1> USE DEF KInv, Known
<1>1. /\ pc = "resolve" /\ pc' = "sweep" /\ EndExperiment("error")
      /\ UNCHANGED <<live, pending, mistaken, begun, intent, seen, saved, res,
                     mem, call, crashes, born, swallowed>>
      /\ exp'.fix = exp.fix
  BY DEF ResolveFails, EndExperiment, server, journal, memory, ghosts, IInv,
         RunInv, TypeOK, ExpTypes
<1>2. NothingForgotten' /\ DownHeld' /\ CallApart' /\ SeenHeld'
  BY <1>1
  DEF NothingForgotten, DownHeld, CallApart, SeenHeld, Requesting, Standing,
      Exposed, ToSet
<1>3. SettledHeld'
  BY <1>1, SettledFrame DEF SettledHeld, Requesting, Id
<1>4. LineageHeld'
  BY <1>1 DEF LineageHeld, Parented, Requesting, ToSet, Id
<1>5. Experimenting
  BY <1>1 DEF Experimenting
<1>6. res \in Seq(Id)
  BY DEF IInv, RunInv, TypeOK, MemoryTypes
<1>7. FixturesListed'
  BY <1>1 DEF FixturesListed, Fixtures, ToSet
<1>8. AttemptHeld' /\ SweptHeld'
  BY <1>1, <1>5, <1>6, EndKnows DEF Standing
<1> QED  BY <1>2, <1>3, <1>4, <1>7, <1>8

\* What a fixture request created is known before the experiment goes on.
LEMMA FixtureSettledKnows ==
  ASSUME KInv, FixtureSettled PROVE Known'
<1>1. /\ pc = "settle" /\ call.kind # "cleanup" /\ Register
      /\ UNCHANGED <<server, begun, intent, seen, crashes, born, swallowed>>
      /\ call' = NoCall
      /\ \/ /\ pc' = "resolve" /\ UNCHANGED sweep
            /\ \/ exp' = [exp EXCEPT !.fix[call.op] =
                            IF IsCreate(call.op) THEN call.id ELSE Borrowed]
               \/ UNCHANGED exp
         \/ EndExperiment("error")
  BY DEF FixtureSettled, ghosts
<1>2. pc' \in {"resolve", "sweep"}
  BY <1>1 DEF EndExperiment
<1>3. /\ NothingForgotten' /\ DownHeld' /\ CallApart' /\ SettledHeld'
      /\ SeenHeld' /\ LineageHeld' /\ Len(res) <= Len(res')
      /\ Len(res') \in Nat
      /\ \A j \in DOMAIN res :
           j \in DOMAIN res' /\ res'[j] = res[j] /\ mem'[res[j]] = mem[res[j]]
      /\ ToSet(res) \subseteq ToSet(res')
      /\ IsCreate(call.op) /\ MayHaveCreated(call.out) =>
           call.id \in ToSet(res')
  BY <1>1, <1>2, Registered
<1>4. Experimenting
  BY <1>1 DEF Experimenting, Requesting
<1>5. res \in Seq(Id) /\ res' \in Seq(Id)
  BY KeepsFixtureSettled DEF KInv, IInv, RunInv, TypeOK, MemoryTypes
<1>6. FixturesListed'
  <2>1. Fixtures' \subseteq Fixtures \cup {call.id}
    BY <1>1, BoundsAssumption
    DEF KInv, IInv, RunInv, TypeOK, ExpTypes, Fixtures, EndExperiment,
        Borrowed, Id
  <2>2. call.id \in Fixtures' \ Fixtures =>
          IsCreate(call.op) /\ MayHaveCreated(call.out)
    BY BoundsAssumption
    DEF FixtureSettled, KInv, IInv, RunInv, TypeOK, ExpTypes, Fixtures,
        EndExperiment, Borrowed, Id, MayHaveCreated
  <2> QED  BY <1>3, <2>1, <2>2 DEF KInv, Known, FixturesListed
<1>7. CASE EndExperiment("error")
  <2>1. AttemptHeld' /\ SweptHeld'
    BY <1>1, <1>3, <1>4, <1>5, <1>7, EndKnows DEF Standing
  <2> QED  BY <1>3, <1>6, <2>1 DEF Known
<1>8. CASE pc' = "resolve" /\ exp'.start = exp.start
  <2>1. ~Sweeping'
    BY <1>8 DEF Sweeping, Requesting
  <2>2. ASSUME GoneUpTo(exp.start), exp.start <= Len(res)
        PROVE  GoneUpTo(exp.start)'
    <3>1. exp.start \in Nat
      BY DEF KInv, IInv, RunInv, TypeOK, ExpTypes
    <3> QED  BY <1>3, <1>5, <1>8, <2>2, <3>1 DEF GoneUpTo, Standing
  <2>3. exp.start \in Nat /\ exp'.start <= Len(res')
    BY <1>3, <1>4, <1>5, <1>8
    DEF KInv, Known, SweptHeld, IInv, RunInv, TypeOK, ExpTypes
  <2>4. AttemptHeld' /\ SweptHeld'
    BY <1>1, <1>4, <1>8, <2>1, <2>2, <2>3
    DEF KInv, Known, AttemptHeld, SweptHeld
  <2> QED  BY <1>3, <1>6, <2>4 DEF Known
<1>9. EndExperiment("error") \/ (pc' = "resolve" /\ exp'.start = exp.start)
  BY <1>1 DEF KInv, IInv, RunInv, TypeOK, ExpTypes
<1> QED  BY <1>7, <1>8, <1>9

\* A trial registers its creation.
LEMMA TrialSettledKnows ==
  ASSUME KInv, TrialSettled PROVE Known'
<1>1. /\ pc = "settle" /\ call.kind = "trial" /\ call' = NoCall
      /\ pc' = "sweep" /\ Register
      /\ UNCHANGED <<server, begun, intent, seen, crashes, born, swallowed>>
  BY DEF TrialSettled, EndExperiment, ghosts
<1>2. Experimenting /\ Requesting /\ ~Requesting'
  BY <1>1 DEF Experimenting, Requesting
<1>3. PICK err \in {"nil", "error"} : EndExperiment(err)
  BY DEF TrialSettled
<1>4. res \in Seq(Id) /\ res' \in Seq(Id)
  BY KeepsTrialSettled DEF KInv, IInv, RunInv, TypeOK, MemoryTypes
<1>5. Fixtures' = Fixtures
  BY <1>3
  DEF KInv, IInv, RunInv, TypeOK, ExpTypes, Fixtures, EndExperiment
<1>6. /\ NothingForgotten' /\ DownHeld' /\ CallApart' /\ SettledHeld'
      /\ SeenHeld' /\ LineageHeld' /\ Len(res) <= Len(res')
      /\ \A j \in DOMAIN res :
           /\ j \in DOMAIN res' /\ res'[j] = res[j]
           /\ mem'[res[j]] = mem[res[j]]
      /\ ToSet(res) \subseteq ToSet(res')
  BY <1>1, Registered
<1>7. AttemptHeld' /\ SweptHeld'
  BY <1>1, <1>2, <1>3, <1>4, <1>6, EndKnows DEF Standing
<1>8. FixturesListed'
  BY <1>5, <1>6 DEF KInv, Known, FixturesListed
<1> QED  BY <1>6, <1>7, <1>8 DEF Known

\* A fixture that is settled as deleted is exposed no more; its parents stay.
LEMMA SettleDeletedKnows ==
  ASSUME KInv, NEW id \in Id, SettleDeleted(id) PROVE Known'
<1> USE DEF KInv, Known
<1>1. /\ pc = "settle" /\ call.kind = "trial" /\ id \in Fixtures
      /\ id = call.of => id \notin live \cup pending
      /\ mem[id] \in Resource /\ saved \in [Id -> Resource]
      /\ mem \in [Id -> Resource] /\ res \in Seq(Id)
  BY SettlingHeld
  DEF SettleDeleted, Settling, IInv, RunInv, TypeOK, MemoryTypes, JournalTypes
<1>2. /\ UNCHANGED <<live, pending, begun, intent, seen, pc, res, exp, call,
                     sweep, crashes, born, swallowed>>
      /\ mistaken' = mistaken \cup ({id} \ {call.of})
      /\ mem' = [mem EXCEPT ![id].state = "deleted"]
      /\ saved' = [saved EXCEPT ![id] = mem'[id]]
  BY SettleMarks DEF SettleDeleted, Record, ghosts
<1>3. /\ mem'[id].state = "deleted" /\ mem'[id].parents = mem[id].parents
      /\ saved'[id] = mem'[id] /\ saved'[id] # NoRes
      /\ \A x \in Id \ {id} : mem'[x] = mem[x] /\ saved'[x] = saved[x]
  <2>1. mem'[id].state = "deleted" /\ mem'[id].parents = mem[id].parents
    BY <1>1, <1>2 DEF Resource
  <2> QED  BY <1>1, <1>2, <2>1 DEF NoRes
<1>4. Exposed' \subseteq Exposed /\ id \notin Exposed'
  BY <1>1, <1>2 DEF Exposed
<1>5. NothingForgotten'
  <2> SUFFICES ASSUME NEW x \in Exposed'
               PROVE  \/ x \in ToSet(res) /\ mem'[x].state # "deleted"
                      \/ Requesting /\ call.id = x
    BY <1>2 DEF NothingForgotten, Requesting, Standing
  <2>1. x \in Exposed /\ x # id /\ x \in Id
    BY <1>4 DEF IInv, RunInv, TypeOK, ServerTypes, Exposed
  <2> QED  BY <1>1, <1>3, <2>1 DEF NothingForgotten, Standing
<1>6. DownHeld' /\ CallApart' /\ SeenHeld' /\ FixturesListed'
  BY <1>2, <1>4, DownFrame, CallApartFrame, SeenHeldFrame,
     FixturesListedFrame
<1>7. SettledHeld'
  <2>1. ASSUME NEW x \in Id, Settled(x) PROVE Settled(x)'
    <3>1. CASE x = id
      BY <1>3, <3>1 DEF Settled, Unresolved, Unregistered
    <3> QED  BY <1>2, <1>3, <2>1, <3>1, SettledFrame
  <2> QED  BY <1>2, <2>1 DEF SettledHeld, Requesting
<1>8. LineageHeld'
  <2>1. id \in ToSet(res)
    BY <1>1 DEF FixturesListed
  <2>2. Parented(mem, id)' /\ Parented(saved, id)'
    BY <1>2, <1>3, <2>1 DEF LineageHeld, Parented
  <2>3. ASSUME NEW x \in Id \ {id}
        PROVE  /\ saved'[x] # NoRes => Parented(saved, x)'
               /\ x \in ToSet(res') => Parented(mem, x)'
    <3>1. mem'[x] = mem[x] /\ saved'[x] = saved[x]
      BY <1>3
    <3>2. saved[x] # NoRes => Parented(saved, x)
      BY DEF LineageHeld
    <3>3. x \in ToSet(res) => Parented(mem, x)
      BY DEF LineageHeld
    <3> QED  BY <1>2, <3>1, <3>2, <3>3 DEF Parented
  <2>4. \A x \in Id : /\ saved'[x] # NoRes => Parented(saved, x)'
                      /\ x \in ToSet(res') => Parented(mem, x)'
    BY <2>2, <2>3
  <2>5. Requesting /\ call.kind # "cleanup" /\ call.id \in Id =>
          born[call.id] = Fixtures
    BY DEF LineageHeld
  <2> QED  BY <1>2, <2>4, <2>5 DEF LineageHeld, Requesting, Fixtures, Id
<1>9. AttemptHeld' /\ SweptHeld'
  <2>1. ~Sweeping' /\ pc' = "settle" /\ Experimenting
    BY <1>1, <1>2 DEF Sweeping, Requesting, Experimenting
  <2>2. \A j \in DOMAIN res : res[j] \in Id
    BY <1>1
  <2>3. GoneUpTo(exp.start) => GoneUpTo(exp.start)'
    BY <1>2, <1>3, <2>2 DEF GoneUpTo, Standing
  <2> QED  BY <1>2, <2>1, <2>3 DEF AttemptHeld, SweptHeld
<1> QED  BY <1>5, <1>6, <1>7, <1>8, <1>9

\* A resource that is deleted is passed.
LEMMA SkipDeletedKnows ==
  ASSUME KInv, SkipDeleted PROVE Known'
<1> USE DEF KInv, Known
<1>1. /\ pc = "sweep" /\ ~Standing(cur) /\ Onward({})
      /\ UNCHANGED <<server, begun, intent, seen, saved, pc, res, mem, exp,
                     call, crashes, born, swallowed>>
  BY DEF SkipDeleted, AtResource, journal, memory, ghosts
<1>2. /\ sweep'.from = sweep.from /\ sweep'.after = sweep.after
      /\ sweep'.attempt = 0 /\ sweep'.i = sweep.i - 1
      /\ sweep'.failures = sweep.failures
  BY <1>1 DEF Onward, IInv, RunInv, TypeOK, SweepTypes
<1>3. sweep.failures = {} => GoneAfter(sweep'.i)
  <2>1. sweep.failures = {} => GoneAfter(sweep.i)
    BY <1>1 DEF SweptHeld, Sweeping
  <2> QED
    BY <1>1, <1>2, <2>1
    DEF GoneAfter, cur, IInv, RunInv, TypeOK, SweepTypes, MemoryTypes
<1> QED  BY <1>1, <1>2, <1>3, SweepMoves

\* A sweep that reports a resource has failed.
LEMMA ReportedKnows ==
  ASSUME KInv, pc = "sweep", NEW id,
         sweep'.from = sweep.from, sweep'.after = sweep.after,
         sweep'.attempt = 0, sweep'.failures = sweep.failures \cup {id},
         UNCHANGED <<server, begun, intent, seen, saved, pc, res, mem, exp,
                     call, crashes, born, swallowed>>
  PROVE  Known'
BY SweepMoves

\* A resource already tried is reported and passed.
LEMMA AlreadyTriedKnows ==
  ASSUME KInv, AlreadyTried PROVE Known'
<1>1. /\ pc = "sweep" /\ Onward({cur})
      /\ UNCHANGED <<server, begun, intent, seen, saved, pc, res, mem, exp,
                     call, crashes, born, swallowed>>
  BY DEF AlreadyTried, AtResource, journal, memory, ghosts
<1>2. /\ sweep'.from = sweep.from /\ sweep'.after = sweep.after
      /\ sweep'.attempt = 0 /\ sweep'.failures = sweep.failures \cup {cur}
  BY <1>1 DEF Onward, KInv, IInv, RunInv, TypeOK, SweepTypes
<1> QED  BY <1>1, <1>2, ReportedKnows

\* A write of unknown outcome is reported and passed.
LEMMA SkipAmbiguousKnows ==
  ASSUME KInv, SkipAmbiguous PROVE Known'
<1>1. /\ pc = "sweep" /\ Onward({cur})
      /\ UNCHANGED <<server, begun, intent, seen, saved, pc, res, mem, exp,
                     call, crashes, born, swallowed>>
  BY DEF SkipAmbiguous, Fresh, AtResource, journal, ghosts
<1>2. /\ sweep'.from = sweep.from /\ sweep'.after = sweep.after
      /\ sweep'.attempt = 0 /\ sweep'.failures = sweep.failures \cup {cur}
  BY <1>1 DEF Onward, KInv, IInv, RunInv, TypeOK, SweepTypes
<1> QED  BY <1>1, <1>2, ReportedKnows

\* The deadline ends the sweep with a failure.
LEMMA SweepTimesOutKnows ==
  ASSUME KInv, SweepTimesOut PROVE Known'
<1>1. /\ pc = "sweep"
      /\ sweep' = [sweep EXCEPT !.i = sweep.from - 1, !.attempt = 0,
                                !.failures = sweep.failures \cup {cur}]
      /\ UNCHANGED <<server, begun, intent, seen, saved, pc, res, mem, exp,
                     call, crashes, born, swallowed>>
  BY DEF SweepTimesOut, Deletable, Fresh, AtResource, journal, ghosts
<1>2. /\ sweep'.from = sweep.from /\ sweep'.after = sweep.after
      /\ sweep'.attempt = 0 /\ sweep'.failures = sweep.failures \cup {cur}
  BY <1>1 DEF KInv, IInv, RunInv, TypeOK, SweepTypes
<1> QED  BY <1>1, <1>2, ReportedKnows

\* A resource that cannot be deleted is left over, and stays known.
LEMMA LeaveOverKnows ==
  ASSUME KInv, LeaveOver PROVE Known'
<1> USE DEF KInv, Known, IInv, RunInv, TypeOK
<1>1. /\ pc = "sweep" /\ sweep.i >= sweep.from /\ Standing(cur) /\ Sweeping
      /\ ~Requesting
  BY DEF LeaveOver, Fresh, AtResource, Sweeping, Requesting
<1>2. sweep.i \in DOMAIN res /\ cur \in Id /\ mem[cur] \in Resource
  BY <1>1, AtSweep DEF MemoryTypes
<1>3. PICK id \in Id : id = cur
  BY <1>2
<1>4. PICK r \in Resource : r = [mem[id] EXCEPT !.state = "leftover"]
  BY <1>2, <1>3 DEF Resource, State
<1>5. r.state = "leftover" /\ r.parents = mem[id].parents
  BY <1>2, <1>3, <1>4 DEF Resource
<1>6. mem' = [mem EXCEPT ![id] = r] /\ mem'[id] = r
  BY <1>3, <1>4 DEF LeaveOver, MemoryTypes
<1>7. saved' = [saved EXCEPT ![id] = r]
  BY <1>3, <1>6 DEF LeaveOver, Record
<1>8. /\ pc' = "sweep" /\ ~Requesting'
      /\ UNCHANGED <<server, begun, intent, seen, res, exp, crashes, born,
                     swallowed>>
  BY <1>1 DEF LeaveOver, Requesting, ghosts
<1>9. /\ sweep'.from = sweep.from /\ sweep'.after = sweep.after
      /\ sweep'.attempt = 0 /\ sweep'.i = sweep.i - 1
      /\ sweep'.failures = sweep.failures \cup {cur}
  BY DEF LeaveOver, Onward, SweepTypes
<1>10. sweep'.failures # {}
  BY <1>9
<1>11. Standing(id)
  BY <1>1, <1>3
<1>12. KInv
  OBVIOUS
<1> QED
  BY <1>1, <1>2, <1>3, <1>5, <1>6, <1>7, <1>8, <1>9, <1>10, <1>11, <1>12,
     SweepStates

\* A DELETE is sent for a resource on which nothing stands.
LEMMA SendDeleteKnows ==
  ASSUME KInv, SendDelete PROVE Known'
<1> USE DEF KInv, Known
<1>1. /\ pc = "sweep" /\ ~Requesting /\ Sweeping
      /\ UNCHANGED <<server, begun, seen, saved, res, mem, exp, crashes,
                     born, swallowed>>
  BY DEF SendDelete, Deletable, Fresh, AtResource, Requesting, Sweeping
<1>2. \/ Announce(mem[cur].del, "cleanup", cur)
      \/ Refuse(mem[cur].del, "cleanup", cur)
  BY DEF SendDelete
<1>3. /\ Requesting' /\ call'.kind = "cleanup"
      /\ NothingForgotten' /\ DownHeld' /\ CallApart' /\ SettledHeld'
      /\ SeenHeld'
  <2> DEFINE op == mem[cur].del
  <2> DEFINE of == cur
  <2>1. Announce(op, "cleanup", of) \/ Refuse(op, "cleanup", of)
    BY <1>2
  <2> HIDE DEF op, of
  <2> QED  BY <1>1, <2>1, Asked
<1>4. /\ sweep'.i = sweep.i /\ sweep'.from = sweep.from
      /\ sweep'.after = sweep.after /\ sweep'.failures = sweep.failures
      /\ cur' = cur
  BY <1>1 DEF SendDelete, IInv, RunInv, TypeOK, SweepTypes, cur
<1>5. LineageHeld'
  BY <1>1, <1>3 DEF LineageHeld, Parented, ToSet, Id
<1>6. Standing(cur) /\ ~Blocked(cur)
  <2>1. CASE Fresh
    BY <2>1 DEF SendDelete, Deletable, Fresh, AttemptHeld, AtResource, IInv,
                RunInv, TypeOK, SweepTypes
  <2>2. CASE pc = "sweep" /\ sweep.attempt \in 1 .. Attempts - 1
    BY <1>1, <2>2, BoundsAssumption DEF AttemptHeld
  <2> QED  BY <2>1, <2>2 DEF SendDelete, Deletable
<1>7. AttemptHeld'
  BY <1>1, <1>4, <1>6 DEF AttemptHeld, Standing, Blocked, ToSet
<1>8. SweptHeld'
  BY <1>1, <1>3, <1>4
  DEF SweptHeld, Experimenting, Sweeping, Requesting, GoneUpTo, GoneAfter,
      Standing
<1>9. FixturesListed'
  BY <1>1, FixturesListedFrame
<1> QED  BY <1>3, <1>5, <1>7, <1>8, <1>9

\* A DELETE that was answered settles its resource, or leaves it for the next
\* attempt.
LEMMA DeleteSettledKnows ==
  ASSUME KInv, DeleteSettled PROVE Known'
<1> USE DEF KInv, Known, IInv, RunInv, TypeOK
<1> DEFINE done == call.out \in {"accepted", "gone"}
<1> DEFINE state == IF done THEN "deleted" ELSE "leftover"
<1>1. /\ Requesting /\ Sweeping /\ pc = "settle" /\ call.kind = "cleanup"
      /\ sweep.i >= sweep.from /\ sweep.attempt \in 1 .. Attempts
      /\ call.of = cur /\ call.op = mem[cur].del
      /\ mem[cur].del \in Deletions
      /\ cur \in granted
  BY BoundsAssumption
  DEF DeleteSettled, SweepHeld, Sweeping, Requesting, SweepTypes
<1>2. /\ sweep.i \in DOMAIN res /\ cur \in Id /\ mem[cur] \in Resource
      /\ Standing(cur)
  BY <1>1, AtSweep DEF MemoryTypes, AttemptHeld
<1>3. done => cur \notin Exposed
  BY <1>1 DEF CallHeld, HasAnswer, ConfirmedArrived, Exposed
<1>4. PICK id \in Id : id = cur
  BY <1>2
<1>5. PICK r \in Resource : r = [mem[id] EXCEPT !.state = state]
  BY <1>2, <1>4 DEF Resource, State
<1>6. r.state = state /\ r.parents = mem[id].parents
  BY <1>2, <1>4, <1>5 DEF Resource
<1>7. mem' = [mem EXCEPT ![id] = r] /\ mem'[id] = r
  BY <1>4, <1>5 DEF DeleteSettled, MemoryTypes
<1>8. /\ pc' = "sweep" /\ ~Requesting'
      /\ UNCHANGED <<server, begun, intent, seen, res, exp, crashes, born,
                     swallowed>>
  BY DEF DeleteSettled, Requesting, ghosts
<1>9. saved' = [saved EXCEPT ![id] = r] \/ saved' = saved
  BY <1>4, <1>7 DEF DeleteSettled, Record
<1>10. \/ r.state = "leftover" /\ UNCHANGED sweep
       \/ /\ sweep'.from = sweep.from /\ sweep'.after = sweep.after
          /\ sweep'.attempt = 0 /\ sweep'.i = sweep.i - 1
          /\ sweep'.failures = {} =>
               sweep.failures = {} /\ r.state = "deleted"
  <2>1. CASE done
    <3>1. Onward({})
      BY <2>1 DEF DeleteSettled
    <3>2. r.state = "deleted"
      BY <1>6, <2>1
    <3> QED  BY <3>1, <3>2 DEF Onward, SweepTypes
  <2>2. CASE ~done /\ sweep.attempt = Attempts
    <3>1. Onward({cur})
      BY <2>2 DEF DeleteSettled
    <3> QED  BY <3>1 DEF Onward, SweepTypes
  <2>3. CASE ~done /\ sweep.attempt # Attempts
    BY <1>6, <2>3 DEF DeleteSettled
  <2> QED  BY <2>1, <2>2, <2>3
<1>11. ASSUME call.id \in Id
       PROVE  intent[call.id] = call.op /\ ~IsCreate(intent[call.id])
  BY <1>1, <1>11, DeletionsCreateNothing DEF CallHeld
<1>12. call.id \notin Exposed
  BY <1>11 DEF Traced, Exposed, ServerTypes
<1>13. call.id \in Id => Settled(call.id)
  BY <1>1, <1>11 DEF SeenHeld, Settled, Unresolved, Unregistered
<1>14. /\ KInv /\ Standing(id) /\ id = cur
       /\ r.state \in {"leftover", "deleted"}
       /\ r.state = "deleted" => id \notin Exposed
  BY <1>2, <1>3, <1>4, <1>6
<1> QED
  BY <1>1, <1>2, <1>6, <1>7, <1>8, <1>9, <1>10, <1>12, <1>13, <1>14,
     SweepStates

\* An experiment after which nothing failed leaves nothing standing.
LEMMA ExperimentEndsKnows ==
  ASSUME KInv, ExperimentEnds PROVE Known'
<1> USE DEF KInv, Known
<1>1. /\ pc = "sweep" /\ sweep.i < sweep.from /\ Sweeping /\ Experimenting
      /\ sweep.after = "experiment" /\ exp' = NoExp
      /\ UNCHANGED <<live, pending, mistaken, begun, intent, seen, saved, res,
                     mem, call, crashes, born, swallowed>>
  BY DEF ExperimentEnds, SweepOver, Sweeping, Experimenting, server, journal,
         memory, ghosts
<1>2. pc' \in {"sweep", "ready"}
  BY DEF ExperimentEnds
<1>3. /\ NothingForgotten' /\ DownHeld' /\ CallApart' /\ SeenHeld'
      /\ SettledHeld' /\ LineageHeld' /\ FixturesListed'
  <2>1. ~Requesting /\ ~Requesting' /\ pc # "down" /\ pc' # "down"
    BY <1>1, <1>2 DEF Requesting
  <2>2. NothingForgotten' /\ DownHeld' /\ CallApart' /\ SeenHeld'
    BY <1>1, <1>2, <2>1
    DEF NothingForgotten, DownHeld, CallApart, SeenHeld, Standing, Exposed,
        ToSet
  <2>3. SettledHeld'
    BY <1>1, <2>1, SettledFrame DEF SettledHeld, Id
  <2>4. LineageHeld'
    BY <1>1, <2>1 DEF LineageHeld, Parented, ToSet, Id
  <2>5. FixturesListed'
    BY <1>1 DEF FixturesListed, Fixtures, NoExp, NoId, Id
  <2> QED  BY <2>2, <2>3, <2>4, <2>5
<1>4. res \in Seq(Id) /\ exp.start \in Nat /\ sweep.i \in Nat
  BY DEF IInv, RunInv, TypeOK, MemoryTypes, ExpTypes, SweepTypes
<1>5. CASE Erred /\ Leftovers
  <2>1. pc' = "sweep" /\ sweep' = Sweep(1, "final")
    BY <1>5 DEF ExperimentEnds
  <2> QED  BY <1>1, <1>3, <1>4, <2>1, SweepBegins
<1>6. CASE ~(Erred /\ Leftovers)
  <2>1. pc' = "ready" /\ sweep' = NoSweep
    BY <1>6 DEF ExperimentEnds
  <2>2. ASSUME ~swallowed PROVE \A id \in ToSet(res) : ~Standing(id)
    <3>1. CASE ~Leftovers
      BY <3>1 DEF Leftovers
    <3>2. CASE ~Erred
      <4>1. sweep.failures = {}
        BY <3>2 DEF Erred
      <4>2. GoneAfter(sweep.i) /\ GoneUpTo(exp.start)
        BY <1>1, <2>2, <4>1 DEF SweptHeld
      <4>3. sweep.i <= exp.start
        BY <1>1, <1>4 DEF SweptHeld
      <4>4. \A j \in DOMAIN res : ~Standing(res[j])
        BY <1>4, <4>2, <4>3 DEF GoneAfter, GoneUpTo
      <4> QED  BY <4>4 DEF ToSet
    <3> QED  BY <1>6, <3>1, <3>2
  <2>3. AttemptHeld' /\ SweptHeld'
    BY <1>1, <2>1, <2>2
    DEF AttemptHeld, SweptHeld, Sweeping, Experimenting, Requesting, Standing,
        ToSet
  <2> QED  BY <1>3, <2>3
<1> QED  BY <1>5, <1>6

\* An error that is dropped is remembered.
LEMMA ExperimentErrorDroppedKnows ==
  ASSUME KInv, ExperimentErrorDropped PROVE Known'
<1> USE DEF KInv, Known
<1>1. /\ pc = "sweep" /\ pc' = "ready" /\ exp' = NoExp /\ swallowed'
      /\ UNCHANGED <<live, pending, mistaken, begun, intent, seen, saved, res,
                     mem, call, crashes, born>>
      /\ ~Requesting /\ ~Requesting' /\ ~Sweeping' /\ ~Experimenting'
  BY DEF ExperimentErrorDropped, SweepOver, Sweeping, Experimenting,
         Requesting, server, journal, memory
<1>2. NothingForgotten' /\ DownHeld' /\ CallApart' /\ SeenHeld'
  BY <1>1
  DEF NothingForgotten, DownHeld, CallApart, SeenHeld, Standing, Exposed,
      ToSet
<1>3. SettledHeld'
  BY <1>1, SettledFrame DEF SettledHeld, Id
<1>4. LineageHeld'
  BY <1>1 DEF LineageHeld, Parented, ToSet, Id
<1>5. FixturesListed' /\ AttemptHeld' /\ SweptHeld'
  BY <1>1 DEF FixturesListed, Fixtures, NoExp, NoId, Id, AttemptHeld,
              SweptHeld
<1> QED  BY <1>2, <1>3, <1>4, <1>5

\* The final cleanup walks all of Report.Resources.
LEMMA FinalCleanupKnows ==
  ASSUME KInv, FinalCleanup PROVE Known'
<1> USE DEF KInv, Known
<1>1. /\ pc = "ready" /\ pc' = "sweep" /\ sweep' = Sweep(1, "final")
      /\ UNCHANGED <<live, pending, mistaken, begun, intent, seen, saved, res,
                     mem, call, crashes, born, swallowed, exp>>
      /\ ~Requesting /\ ~Requesting'
  BY DEF FinalCleanup, Requesting, server, journal, memory, ghosts
<1>2. NothingForgotten' /\ DownHeld' /\ CallApart' /\ SeenHeld'
  BY <1>1
  DEF NothingForgotten, DownHeld, CallApart, SeenHeld, Standing, Exposed,
      ToSet
<1>3. SettledHeld'
  BY <1>1, SettledFrame DEF SettledHeld, Id
<1>4. LineageHeld' /\ FixturesListed'
  BY <1>1, FixturesListedFrame DEF LineageHeld, Parented, ToSet, Id
<1>5. res' \in Seq(Id)
  BY <1>1 DEF IInv, RunInv, TypeOK, MemoryTypes
<1>6. AttemptHeld' /\ SweptHeld'
  BY <1>1, <1>5, SweepBegins
<1> QED  BY <1>2, <1>3, <1>4, <1>6

\* A run that ends, and a reconciliation that stops, forget what they held.
LEMMA EndOfProcessKnows ==
  ASSUME KInv, Finish \/ ReconcileStops PROVE Known'
<1>1. /\ pc = "sweep" /\ Forget
      /\ UNCHANGED <<server, begun, intent, seen, saved, born, crashes>>
  BY DEF Finish, ReconcileStops, SweepOver, ghosts
<1>2. begun /\ ~Requesting
  BY <1>1 DEF KInv, Known, DownHeld, Requesting
<1> QED  BY <1>1, <1>2, Forgotten

\* A reconciliation without failures left nothing standing.
LEMMA ReconcileSucceedsKnows ==
  ASSUME KInv, ReconcileSucceeds PROVE Known'
<1> USE DEF KInv, Known
<1>1. /\ pc = "sweep" /\ pc' = "ready" /\ sweep.i < sweep.from
      /\ sweep.after = "resume" /\ sweep.failures = {}
      /\ UNCHANGED <<live, pending, mistaken, begun, intent, seen, saved, res,
                     mem, call, crashes, born, swallowed, exp>>
      /\ ~Requesting /\ ~Requesting' /\ Sweeping
      /\ ~Sweeping' /\ ~Experimenting'
  BY DEF ReconcileSucceeds, SweepOver, Requesting, Sweeping, Experimenting,
         server, journal, memory, ghosts
<1>2. NothingForgotten' /\ DownHeld' /\ CallApart' /\ SeenHeld'
  BY <1>1
  DEF NothingForgotten, DownHeld, CallApart, SeenHeld, Standing, Exposed,
      ToSet
<1>3. SettledHeld'
  BY <1>1, SettledFrame DEF SettledHeld, Id
<1>4. LineageHeld' /\ FixturesListed'
  BY <1>1, FixturesListedFrame DEF LineageHeld, Parented, ToSet, Id
<1>5. \A id \in ToSet(res) : ~Standing(id)
  <2>1. GoneAfter(sweep.i) /\ sweep.from = 1
    BY <1>1 DEF SweptHeld
  <2>2. res \in Seq(Id) /\ sweep.i \in Nat
    BY DEF IInv, RunInv, TypeOK, MemoryTypes, SweepTypes
  <2>3. \A j \in DOMAIN res : ~Standing(res[j])
    BY <1>1, <2>1, <2>2 DEF GoneAfter
  <2> QED  BY <2>3 DEF ToSet
<1>6. AttemptHeld' /\ SweptHeld'
  BY <1>1, <1>5 DEF AttemptHeld, SweptHeld, Standing, ToSet
<1> QED  BY <1>2, <1>3, <1>4, <1>6

\* The first state.
LEMMA InitKnows == Init => Known
<1> SUFFICES ASSUME Init PROVE Known
  OBVIOUS
<1>1. /\ pc = "down" /\ res = << >> /\ ~begun /\ Exposed = {} /\ crashes = 0
      /\ ~Requesting /\ ~Sweeping /\ ~Experimenting
      /\ ToSet(res) = {}
  BY DEF Init, Exposed, Requesting, Sweeping, Experimenting, ToSet
<1>2. SettledHeld
  BY DEF Init, SettledHeld, Settled, Unresolved, Unregistered, IsWrite,
         IsCreate, NoRes
<1>3. LineageHeld
  BY <1>1 DEF Init, LineageHeld, NoRes
<1> QED
  BY <1>1, <1>2, <1>3
  DEF Init, Known, NothingForgotten, DownHeld, CallApart, SeenHeld,
      FixturesListed, Fixtures, NoExp, NoId, Id, AttemptHeld, SweptHeld

------------------------------------------------------------------------------
(* The invariant *)

\* Every step keeps what the process knows true.
LEMMA KnowsNext == KInv /\ [Next]_vars => KInv'
<1> SUFFICES ASSUME KInv, [Next]_vars PROVE Known'
  BY KeepsNext DEF KInv
<1>2. CASE Inspect  BY <1>2, InspectKnows
<1>3. ASSUME NEW command \in {"resume", "cleanup"}, Resume(command)
      PROVE  Known'
  BY <1>3, ResumeKnows
<1>4. CASE Crash  BY <1>4, CrashKnows
<1>5. ASSUME NEW id \in Id, ServerMaterialises(id) PROVE Known'
  BY <1>5, ServerMaterialisesKnows
<1>6. CASE Reply  BY <1>6, ReplyKnows
<1>7. CASE Request
  BY <1>7, RecordObservationKnows, PollKnows DEF Request
<1>8. CASE Experiment
  BY <1>8, BeginExperimentKnows, SendFixtureKnows, SendTrialKnows,
     ResolveFailsKnows, FixtureSettledKnows, TrialSettledKnows,
     SettleDeletedKnows
  DEF Experiment
<1>9. CASE Cleanup
  BY <1>9, SkipDeletedKnows, AlreadyTriedKnows, SkipAmbiguousKnows,
     LeaveOverKnows, SendDeleteKnows, SweepTimesOutKnows, DeleteSettledKnows
  DEF Cleanup
<1>10. CASE Conclude
  BY <1>10, ExperimentEndsKnows, ExperimentErrorDroppedKnows,
     FinalCleanupKnows, EndOfProcessKnows, ReconcileSucceedsKnows
  DEF Conclude
<1>11. CASE UNCHANGED vars
  <2>1. UNCHANGED <<live, pending, mistaken, begun, intent, seen, saved, pc,
                    res, mem, exp, call, sweep, crashes, born, swallowed>>
    BY <1>11 DEF vars, server, journal, memory, ghosts
  <2> QED
    BY <2>1, KnownFrame, DownFrame, CallApartFrame, SettledHeldFrame,
       SeenHeldFrame, LineageHeldFrame, FixturesListedFrame,
       AttemptHeldFrame, SweptHeldFrame
    DEF KInv, Known, Exposed
<1> QED
  BY <1>2, <1>3, <1>4, <1>5, <1>6, <1>7, <1>8, <1>9, <1>10, <1>11
  DEF Next, Step

\* What the process knows of the server is true in every reachable state.
THEOREM Knowledge == Spec => []KInv
<1>1. Init => KInv
  BY InitHolds, InitKnows DEF KInv
<1> QED  BY <1>1, KnowsNext, PTL DEF Spec

\* No resource is forgotten: whatever exists is in Report.Resources and not
\* taken for deleted, or is the work of the request under way.
THEOREM ResourcesKnown == Spec => []NothingForgotten
<1>1. KInv => NothingForgotten
  BY DEF KInv, Known
<1> QED  BY <1>1, Knowledge, PTL

\* An experiment begins on a clean server unless an error was dropped.
LEMMA ReadyIsClean == KInv => CleanStart
<1> SUFFICES ASSUME KInv, pc = "ready", ~swallowed, NEW id \in Exposed
             PROVE  FALSE
  BY DEF CleanStart
<1>1. id \in ToSet(res) /\ Standing(id)
  BY DEF KInv, Known, NothingForgotten, Requesting
<1> QED  BY <1>1 DEF KInv, Known, SweptHeld

\* Experiments do not see each other's resources.
THEOREM ExperimentsStartClean == Spec => []CleanStart
BY Knowledge, ReadyIsClean, PTL

\* A DELETE of the cleanup leaves no recorded dependent behind.
LEMMA DeletedLast == KInv => RecordedDependentsFirst
<1> SUFFICES ASSUME KInv, pc = "dispatch", call.kind = "cleanup",
                    NEW id \in Exposed, call.of \in born[id]
             PROVE  crashes > 0 /\ mem[id].parents = {}
  BY DEF RecordedDependentsFirst
<1> USE DEF KInv, Known, IInv, RunInv
<1>1. Requesting /\ Sweeping
  BY DEF Requesting, Sweeping
<1>2. call.of = cur /\ sweep.attempt > 0
  BY <1>1 DEF SweepHeld
<1>3. call.id \notin Exposed
  BY DEF CallHeld
<1>4. id \in ToSet(res) /\ Standing(id) /\ id \in Id
  BY <1>3 DEF NothingForgotten, Exposed, TypeOK, ServerTypes
<1>5. call.of \notin mem[id].parents
  BY <1>1, <1>2, <1>4 DEF AttemptHeld, Blocked
<1>6. Parented(mem, id)
  BY <1>4 DEF LineageHeld
<1> QED  BY <1>5, <1>6 DEF Parented

\* Dependents are deleted first, except those a crash took the parents of.
THEOREM DependentsGoFirst == Spec => []RecordedDependentsFirst
BY Knowledge, DeletedLast, PTL

\* A run reported complete has nothing on the server.
THEOREM CompletionIsClean == Spec => CompleteIsClean
<1>1. ASSUME KInv, Finish, verdict' = "complete"
      PROVE  Exposed = {}
  <2>1. ~Leftovers /\ pc = "sweep"
    BY <1>1 DEF Finish, SweepOver
  <2> QED
    BY <1>1, <2>1
    DEF KInv, Known, NothingForgotten, Leftovers, Requesting
<1>2. KInv => (Finish /\ verdict' = "complete" => Exposed = {})
  BY <1>1
<1>3. KInv /\ [Next]_vars =>
        [Finish /\ verdict' = "complete" => Exposed = {}]_vars
  BY <1>2
<1> QED  BY <1>3, Knowledge, PTL DEF Spec, CompleteIsClean

------------------------------------------------------------------------------
(* The journal implements module Custody *)

\* What Load makes of an id depends on the events of that id only.
LEMMA ClaimFrame ==
  ASSUME NEW id \in Id, saved'[id] = saved[id], intent'[id] = intent[id],
         seen'[id] = seen[id]
  PROVE  id \in Claims' <=> id \in Claims
<1>1. /\ Unresolved(id)' <=> Unresolved(id)
      /\ Unregistered(id)' <=> Unregistered(id)
  BY DEF Unresolved, Unregistered, IsWrite, IsCreate, MayHaveCreated
<1>2. Recovered(id)' = Recovered(id)
  BY <1>1 DEF Recovered
<1> QED  BY <1>2 DEF Claims, Id

\* What is traced after a step is claimed after it.
LEMMA ClaimedNext == IInv' => NothingLost'
BY TracedIsClaimed, PTL

\* An event of one id is a custody step of that id.
LEMMA JournalStep ==
  ASSUME IInv, IInv', UNCHANGED server, NEW x \in Id,
         \A id \in Id \ {x} : /\ saved'[id] = saved[id]
                              /\ intent'[id] = intent[id]
                              /\ seen'[id] = seen[id]
  PROVE  [C!Next]_C!vars
<1>1. \A id \in Id \ {x} : id \in Claims' <=> id \in Claims
  BY ClaimFrame
<1>2. Claims \subseteq Id /\ Claims' \subseteq Id
  BY DEF Claims, Id
<1>3. Exposed' = Exposed
  BY DEF server, Exposed
<1>4. Exposed \subseteq Claims /\ Exposed \subseteq Claims'
  BY <1>3, TracedIsClaimed, ClaimedNext DEF NothingLost
<1>5. CASE x \in Claims <=> x \in Claims'
  <2>1. Claims' = Claims
    BY <1>1, <1>2, <1>5
  <2> QED  BY <1>3, <2>1 DEF C!vars
<1>6. CASE x \notin Claims /\ x \in Claims'
  <2>1. Claims' = Claims \cup {x}
    BY <1>1, <1>2, <1>6
  <2>2. C!Claim(x)
    BY <1>3, <1>6, <2>1 DEF C!Claim
  <2> QED  BY <2>2 DEF C!Next
<1>7. CASE x \in Claims /\ x \notin Claims'
  <2>1. Claims' = Claims \ {x} /\ x \notin Exposed
    BY <1>1, <1>2, <1>4, <1>7
  <2>2. C!Release(x)
    BY <1>3, <2>1 DEF C!Release
  <2> QED  BY <2>2 DEF C!Next
<1> QED  BY <1>5, <1>6, <1>7

\* A step of the server for one write is a custody step of that write.
LEMMA ServerStep ==
  ASSUME IInv, IInv', UNCHANGED <<saved, intent, seen>>, NEW x,
         \/ Exposed' = Exposed
         \/ Exposed' = Exposed \cup {x} /\ x \in Id
         \/ Exposed' = Exposed \ {x}
  PROVE  [C!Next]_C!vars
<1>1. Claims' = Claims
  BY ClaimFrame DEF Claims, Id
<1>2. Exposed \subseteq Id /\ Exposed' \subseteq Claims'
  BY TracedIsClaimed, ClaimedNext
  DEF NothingLost, Exposed, IInv, RunInv, TypeOK, ServerTypes
<1>3. CASE Exposed' = Exposed
  BY <1>1, <1>3 DEF C!vars, Exposed
<1>4. CASE Exposed' = Exposed \cup {x} /\ x \in Id
  <2>1. x \in Claims
    BY <1>1, <1>2, <1>4
  <2>2. C!Appear(x)
    BY <1>1, <1>4, <2>1 DEF C!Appear, Exposed
  <2> QED  BY <1>4, <2>2 DEF C!Next
<1>5. CASE Exposed' = Exposed \ {x} /\ x \in Exposed
  <2>1. C!Vanish(x)
    BY <1>1, <1>5 DEF C!Vanish, Exposed
  <2> QED  BY <1>2, <1>5, <2>1 DEF C!Next
<1>6. CASE Exposed' = Exposed \ {x} /\ x \notin Exposed
  BY <1>1, <1>6 DEF C!vars, Exposed
<1> QED  BY <1>3, <1>4, <1>5, <1>6

\* A step that changes neither is none.
LEMMA Silent ==
  ASSUME UNCHANGED <<server, saved, intent, seen>>
  PROVE  UNCHANGED C!vars
<1>1. Claims' = Claims
  BY ClaimFrame DEF Claims, Id
<1> QED  BY <1>1 DEF C!vars, server, Exposed

\* A request is claimed when it is announced.
LEMMA SendIsCustody ==
  ASSUME IInv, IInv', NEW op, NEW kind, NEW of,
         Announce(op, kind, of) \/ Refuse(op, kind, of),
         UNCHANGED <<server, saved, seen>>
  PROVE  [C!Next]_C!vars
<1>1. CASE Announce(op, kind, of)
  <2>1. /\ next \in Id
        /\ \A id \in Id \ {next} : intent'[id] = intent[id]
    BY <1>1, Announced DEF Announce, IInv, RunInv, TypeOK, JournalTypes
  <2> QED  BY <2>1, JournalStep
<1>2. CASE Refuse(op, kind, of)
  BY <1>2, Silent DEF Refuse
<1> QED  BY <1>1, <1>2

\* An answer changes one resource: the one created, or the one deleted.
LEMMA ReplyIsCustody ==
  ASSUME IInv, IInv', Reply
  PROVE  [C!Next]_C!vars
<1>1. /\ call.id \in Id /\ call.of \notin pending
      /\ call.id \notin mistaken
      /\ UNCHANGED <<saved, intent, seen>>
  BY Dispatched
  DEF Reply, ServerCreates, ServerDefers, ServerRemoves, ServerLeaves, Answer,
      journal, IInv, RunInv, ConfirmedArrived, TypeOK, ServerTypes, NoId, Id
<1>2. CASE ServerCreates \/ ServerDefers
  <2>1. Exposed' = Exposed \cup {call.id}
    BY <1>1, <1>2 DEF ServerCreates, ServerDefers, Exposed
  <2> QED  BY <1>1, <2>1, ServerStep
<1>3. CASE ServerRemoves
  <2>1. Exposed' = Exposed \ {call.of}
    BY <1>1, <1>3 DEF ServerRemoves, Exposed
  <2> QED  BY <1>1, <2>1, ServerStep
<1>4. CASE ServerLeaves
  BY <1>1, <1>4, Silent DEF ServerLeaves
<1> QED  BY <1>2, <1>3, <1>4 DEF Reply

\* So does a job that polling saw succeed.
LEMMA PollIsCustody ==
  ASSUME IInv, IInv', PollSucceeds
  PROVE  [C!Next]_C!vars
<1>1. /\ call.of \notin pending /\ UNCHANGED <<saved, intent, seen>>
  BY DEF PollSucceeds, journal, IInv, RunInv, CallHeld, Requesting,
         ConfirmedArrived, TypeOK, ServerTypes, NoId, Id
<1>2. Exposed' = Exposed \/ Exposed' = Exposed \ {call.of}
  BY <1>1 DEF PollSucceeds, Exposed
<1> QED  BY <1>1, <1>2, ServerStep

\* Registering concerns one write.
LEMMA SettledIsCustody ==
  ASSUME IInv, IInv', FixtureSettled \/ TrialSettled
  PROVE  [C!Next]_C!vars
<1>1. /\ pc = "settle" /\ call.kind # "cleanup" /\ Register
      /\ UNCHANGED <<server, intent, seen>>
  BY DEF FixtureSettled, TrialSettled
<1>2. CASE UNCHANGED <<res, mem, saved, firsts>>
  BY <1>1, <1>2, Silent
<1>3. ASSUME call.id \in Id, NEW r \in Resource, Record(call.id, r)
      PROVE  [C!Next]_C!vars
  <2>1. \A id \in Id \ {call.id} : saved'[id] = saved[id]
    BY <1>3 DEF Record, IInv, RunInv, TypeOK, JournalTypes
  <2> QED  BY <1>1, <1>3, <2>1, JournalStep
<1> QED  BY <1>1, <1>2, <1>3, RegisterCases

\* The claim of a settled fixture ends: nothing is exposed of it, or what is
\* was mistaken for deleted.
LEMMA SettleIsCustody ==
  ASSUME IInv, IInv', NEW id \in Id, SettleDeleted(id)
  PROVE  [C!Next]_C!vars
<1>1. /\ UNCHANGED <<live, pending, intent, seen>>
      /\ mistaken' = mistaken \cup ({id} \ {call.of})
      /\ mem' = [mem EXCEPT ![id].state = "deleted"]
      /\ saved' = [saved EXCEPT ![id] = mem'[id]]
  BY SettleMarks DEF SettleDeleted, Record
<1>2. mem'[id].state = "deleted"
  BY SettlingHeld, <1>1
  DEF SettleDeleted, IInv, RunInv, TypeOK, MemoryTypes, Resource
<1>3. saved'[id] = mem'[id] /\ \A x \in Id \ {id} : saved'[x] = saved[x]
  BY <1>1 DEF IInv, RunInv, TypeOK, JournalTypes
<1>4. CASE id = call.of
  BY <1>1, <1>3, <1>4, JournalStep DEF server
<1>5. CASE id # call.of
  <2>1. Exposed' = Exposed \ {id}
    BY <1>1, <1>5 DEF Exposed
  <2>2. \A x \in Id \ {id} : x \in Claims' <=> x \in Claims
    BY <1>1, <1>3, ClaimFrame
  <2>3. id \notin Claims'
    BY <1>2, <1>3 DEF Claims, Recovered, NoRes
  <2>4. Claims \subseteq Id /\ Claims' \subseteq Id
    BY DEF Claims, Id
  <2>5. C!Settle(id)
    BY <2>1, <2>2, <2>3, <2>4 DEF C!Settle
  <2> QED  BY <2>5 DEF C!Next
<1> QED  BY <1>4, <1>5

\* Every step of a process, of the server or a crash is a custody step.
LEMMA CustodyNext == IInv /\ IInv' /\ [Next]_vars => [C!Next]_C!vars
<1> SUFFICES ASSUME IInv, IInv', [Next]_vars PROVE [C!Next]_C!vars
  OBVIOUS
<1>1. CASE \/ Inspect \/ Crash
           \/ \E command \in {"resume", "cleanup"} : Resume(command)
  BY <1>1, Silent DEF Inspect, Crash, Resume, journal
<1>2. ASSUME NEW id \in Id, ServerMaterialises(id)
      PROVE  [C!Next]_C!vars
  <2>1. /\ Exposed' = Exposed \/ Exposed' = Exposed \ {id}
        /\ UNCHANGED <<saved, intent, seen>>
    BY <1>2 DEF ServerMaterialises, Exposed, journal
  <2> QED  BY <2>1, ServerStep
<1>3. CASE Reply  BY <1>3, ReplyIsCustody
<1>4. CASE Request
  <2>1. CASE RecordObservation
    <3>1. /\ call.id \in Id /\ UNCHANGED <<server, saved, intent>>
          /\ \A id \in Id \ {call.id} : seen'[id] = seen[id]
      BY <2>1, Answered DEF RecordObservation, IInv, RunInv, TypeOK,
                            JournalTypes
    <3> QED  BY <3>1, JournalStep
  <2>2. CASE PollFails
    BY <2>2, Silent DEF PollFails, journal
  <2> QED  BY <1>4, <2>1, <2>2, PollIsCustody DEF Request
<1>5. CASE Experiment
  <2>1. ASSUME NEW op \in Op, SendFixture(op) PROVE [C!Next]_C!vars
    BY <2>1, SendIsCustody DEF SendFixture
  <2>2. CASE SendTrial
    BY <2>2, SendIsCustody DEF SendTrial
  <2>3. CASE ResolveFails \/ \E op \in Op : BeginExperiment(op)
    BY <2>3, Silent DEF ResolveFails, BeginExperiment, journal
  <2> QED
    BY <1>5, <2>1, <2>2, <2>3, SettledIsCustody, SettleIsCustody
    DEF Experiment
<1>6. CASE Cleanup
  <2>1. CASE SkipDeleted \/ AlreadyTried \/ SkipAmbiguous \/ SweepTimesOut
    BY <2>1, Silent
    DEF SkipDeleted, AlreadyTried, SkipAmbiguous, SweepTimesOut, journal
  <2>2. CASE SendDelete
    <3>1. UNCHANGED <<server, saved, seen>>
      BY <2>2 DEF SendDelete
    <3>2. PICK op, of : Announce(op, "cleanup", of) \/ Refuse(op, "cleanup", of)
      BY <2>2 DEF SendDelete
    <3> QED  BY <3>1, <3>2, SendIsCustody
  <2>3. CASE LeaveOver \/ DeleteSettled
    <3>1. cur \in Id
      <4>1. Sweeping /\ sweep.i >= sweep.from
        BY <2>3, BoundsAssumption
        DEF LeaveOver, Fresh, AtResource, DeleteSettled, Sweeping, Requesting,
            IInv, RunInv, SweepHeld, TypeOK, SweepTypes
      <4> QED  BY <4>1, AtSweep
    <3>2. PICK id \in Id : id = cur
      BY <3>1
    <3>3. /\ UNCHANGED <<server, intent, seen>>
          /\ \A x \in Id \ {id} : saved'[x] = saved[x]
      BY <2>3, <3>2
      DEF LeaveOver, DeleteSettled, Record, IInv, RunInv, TypeOK, JournalTypes
    <3> QED  BY <3>3, JournalStep
  <2> QED  BY <1>6, <2>1, <2>2, <2>3 DEF Cleanup
<1>7. CASE Conclude
  BY <1>7, Silent
  DEF Conclude, ExperimentEnds, ExperimentErrorDropped, FinalCleanup, Finish,
      ReconcileStops, ReconcileSucceeds, journal
<1>8. CASE UNCHANGED vars
  BY <1>8, Silent DEF vars, journal
<1> QED
  BY <1>1, <1>2, <1>3, <1>4, <1>5, <1>6, <1>7, <1>8 DEF Next, Step

\* The journal keeps the promise of module Custody: a resource appears only
\* for a claimed write, and a claim is given up only when nothing is exposed.
THEOREM JournalIsCustody == Spec => ImplementsCustody
<1>1. Init => C!Init
  <2> SUFFICES ASSUME Init PROVE C!Init
    OBVIOUS
  <2>1. Claims = {}
    BY DEF Init, Claims, Recovered, Unresolved, Unregistered, IsWrite,
           IsCreate, NoRes
  <2> QED  BY <2>1 DEF Init, C!Init, Exposed
<1> QED
  BY <1>1, CustodyNext, Invariance, PTL DEF Spec, ImplementsCustody, C!Spec

------------------------------------------------------------------------------
(* The end of a process *)

\* A request under way stays the same request of the same sweep.
LEMMA InRequest ==
  ASSUME IInv, Requesting, Requesting', Place < Place',
         call'.kind = call.kind, UNCHANGED <<sweep, exps, next>>
  PROVE  Closer
BY DEF Closer, Era, Part, Sweeping, Requesting

\* The server's answer, its record and the polls lead through the request.
LEMMA RequestAdvances ==
  ASSUME IInv, Reply \/ Request
  PROVE  Closer
<1>1. call \in [id : Id \cup {NoId}, op : Op \cup {NoOp},
                kind : {"none", "fixture", "trial", "cleanup"},
                of : Id \cup {NoId}, out : Outcome]
  BY DEF IInv, RunInv, TypeOK, CallTypes
<1>2. CASE Reply
  <2>1. /\ pc = "dispatch" /\ pc' = "answered" /\ call'.kind = call.kind
        /\ UNCHANGED <<sweep, exps, next>>
    BY <1>1, <1>2 DEF Reply, ServerCreates, ServerDefers, ServerRemoves,
                      ServerLeaves, Answer
  <2> QED  BY <2>1, InRequest DEF Place, Requesting
<1>3. CASE RecordObservation
  <2>1. /\ pc = "answered" /\ pc' \in {"polling", "settle"} /\ call' = call
        /\ UNCHANGED <<sweep, exps, next>>
    BY <1>3 DEF RecordObservation
  <2> QED  BY <2>1, InRequest DEF Place, Requesting
<1>4. CASE PollSucceeds \/ PollFails
  <2>1. /\ pc = "polling" /\ pc' = "settle" /\ call'.kind = call.kind
        /\ UNCHANGED <<sweep, exps, next>>
    BY <1>1, <1>4 DEF PollSucceeds, PollFails, ghosts
  <2> QED  BY <2>1, InRequest DEF Place, Requesting
<1> QED  BY <1>2, <1>3, <1>4 DEF Request

\* An experiment takes up one fixture more, sends its trial, or is swept.
LEMMA ExperimentAdvances ==
  ASSUME IInv, Experiment
  PROVE  Closer
<1>1. /\ exps \in Nat /\ next \in Nat
      /\ call \in [id : Id \cup {NoId}, op : Op \cup {NoOp},
                   kind : {"none", "fixture", "trial", "cleanup"},
                   of : Id \cup {NoId}, out : Outcome]
  BY DEF IInv, RunInv, TypeOK, CallTypes, BookTypes, BoundsAssumption
<1>2. ASSUME NEW op \in Op, BeginExperiment(op) PROVE Closer
  <2>1. pc = "ready" /\ pc' = "resolve" /\ exps' = exps + 1
    BY <1>2 DEF BeginExperiment
  <2>2. Era' = Era /\ exps < exps'
    BY <1>1, <2>1 DEF Era, Sweeping, Requesting
  <2> QED  BY <2>2 DEF Closer
<1>3. CASE (\E p \in Op : SendFixture(p)) \/ SendTrial
  <2>1. /\ pc = "resolve" /\ pc' \in {"dispatch", "settle"}
        /\ call'.kind # "cleanup" /\ UNCHANGED <<sweep, exps>>
        /\ \/ next' = next + 1
           \/ next' = next /\ pc' = "settle" /\ call'.id = NoId
    BY <1>3 DEF SendFixture, SendTrial, Announce, Refuse
  <2>2. Era' = Era /\ Part' = Part
    BY <2>1 DEF Era, Part, Sweeping, Requesting
  <2>3. next' = next => Place < Place'
    BY <1>1, <2>1 DEF Place
  <2> QED  BY <1>1, <2>1, <2>2, <2>3 DEF Closer
<1>4. ASSUME pc = "resolve" \/ (pc = "settle" /\ call.kind # "cleanup"),
             UNCHANGED exps, pc' = "sweep",
             sweep' = Sweep(exp.start + 1, "experiment")
      PROVE  Closer
  <2>1. Era' = Era /\ Part < Part'
    BY <1>4 DEF Era, Part, Sweeping, Requesting, Sweep
  <2> QED  BY <1>4, <2>1 DEF Closer
<1>5. CASE ResolveFails
  BY <1>4, <1>5 DEF ResolveFails, EndExperiment
<1>6. CASE FixtureSettled
  <2>1. /\ pc = "settle" /\ call.kind = "fixture" /\ UNCHANGED <<exps, next>>
        /\ \/ /\ call.out \in {"accepted", "input-rejected"}
              /\ pc' = "resolve" /\ UNCHANGED sweep
           \/ EndExperiment("error")
    BY <1>6 DEF FixtureSettled
  <2>2. CASE EndExperiment("error")
    BY <1>4, <2>1, <2>2 DEF EndExperiment
  <2>3. CASE /\ call.out \in {"accepted", "input-rejected"}
             /\ pc' = "resolve" /\ UNCHANGED sweep
    <3>1. call.id # NoId
      BY <2>1, <2>3 DEF IInv, RunInv, CallHeld, HasAnswer
    <3>2. Era' = Era /\ Part' = Part /\ Place < Place'
      BY <2>1, <2>3, <3>1 DEF Era, Part, Place, Sweeping, Requesting
    <3> QED  BY <2>1, <2>3, <3>2 DEF Closer
  <2> QED  BY <2>1, <2>2, <2>3
<1>7. CASE TrialSettled
  <2>1. /\ pc = "settle" /\ call.kind = "trial" /\ UNCHANGED exps
        /\ \E err \in {"nil", "error"} : EndExperiment(err)
    BY <1>7 DEF TrialSettled
  <2> QED  BY <1>4, <2>1 DEF EndExperiment
<1>8. ASSUME NEW id \in Id, SettleDeleted(id) PROVE Closer
  <2>1. /\ UNCHANGED <<pc, call, exp, sweep, exps, next>>
        /\ id \in Settling /\ mem' = [mem EXCEPT ![id].state = "deleted"]
    BY <1>8 DEF SettleDeleted
  <2>2. Era' = Era /\ Part' = Part /\ Place' = Place
    BY <2>1 DEF Era, Part, Place, Sweeping, Requesting
  <2>3. mem \in [Id -> Resource]
    BY DEF IInv, RunInv, TypeOK, MemoryTypes
  <2>4. mem'[id].state = "deleted" /\ \A x \in Id \ {id} : mem'[x] = mem[x]
    BY <2>1, <2>3 DEF Resource
  <2>5. \A x \in Id : x \in Fixtures' <=> x \in Fixtures
    BY <2>1 DEF Fixtures
  <2>6. id \notin Settling'
    BY <2>4 DEF Settling, Standing
  <2>7. Settling \subseteq Id
    BY DEF Settling, Fixtures
  <2>8. Settling' \subseteq Id
    BY DEF Settling, Fixtures, Id
  <2>9. ASSUME NEW x \in Id, x \in Settling', x # id PROVE x \in Settling
    BY <2>1, <2>4, <2>5, <2>9 DEF Settling, Standing
  <2>10. Settling' \subseteq Settling /\ Settling' # Settling
    BY <2>1, <2>6, <2>8, <2>9
  <2> QED  BY <2>1, <2>2, <2>10 DEF Closer
<1> QED  BY <1>2, <1>3, <1>5, <1>6, <1>7, <1>8 DEF Experiment

\* A sweep goes on to an earlier resource, or to the next attempt at this one.
LEMMA CleanupAdvances ==
  ASSUME IInv, Cleanup
  PROVE  Closer
<1>1. /\ sweep \in [from : Nat, i : Nat, attempt : Nat, failures : SUBSET Id,
                    after : {"none", "experiment", "final", "resume",
                             "cleanup"}]
      /\ next \in Nat /\ Attempts \in Nat
  BY BoundsAssumption DEF IInv, RunInv, TypeOK, SweepTypes, BookTypes
\* The sweep before and after the step.
<1>2. ASSUME Sweeping, Sweeping', UNCHANGED exps, sweep'.after = sweep.after,
             \/ sweep'.i < sweep.i
             \/ /\ sweep'.i = sweep.i
                /\ \/ sweep.attempt < sweep'.attempt
                   \/ /\ sweep'.attempt = sweep.attempt /\ next' = next
                      /\ Place < Place'
      PROVE  Closer
  <2>1. Era' = Era /\ Part' = Part
    BY <1>2 DEF Era, Part, Sweeping, Requesting
  <2> QED  BY <1>2, <2>1 DEF Closer
<1>3. ASSUME NEW failures, Onward(failures)
      PROVE  sweep'.i < sweep.i /\ sweep'.after = sweep.after
  BY <1>1, <1>3 DEF Onward
<1>4. CASE SkipDeleted \/ AlreadyTried \/ SkipAmbiguous \/ LeaveOver
  <2>1. /\ pc = "sweep" /\ UNCHANGED <<pc, exps>>
        /\ \E failures \in SUBSET {cur} : Onward(failures)
    BY <1>4 DEF SkipDeleted, AlreadyTried, SkipAmbiguous, LeaveOver, Fresh,
                AtResource
  <2> QED  BY <1>2, <1>3, <2>1 DEF Sweeping
<1>5. CASE SendDelete
  <2>1. /\ pc = "sweep" /\ pc' \in {"dispatch", "settle"}
        /\ call'.kind = "cleanup" /\ UNCHANGED exps
        /\ sweep' = [sweep EXCEPT !.attempt = @ + 1]
    BY <1>5 DEF SendDelete, Deletable, Fresh, AtResource, Announce, Refuse
  <2>2. /\ sweep'.after = sweep.after /\ sweep'.i = sweep.i
        /\ sweep.attempt < sweep'.attempt
    BY <1>1, <2>1
  <2> QED  BY <1>2, <2>1, <2>2 DEF Sweeping, Requesting
<1>6. CASE SweepTimesOut
  <2>1. /\ pc = "sweep" /\ UNCHANGED <<pc, exps>> /\ Deletable
        /\ sweep' = [sweep EXCEPT !.i = sweep.from - 1, !.attempt = 0,
                                  !.failures = @ \cup {cur}]
    BY <1>6 DEF SweepTimesOut, Deletable, Fresh, AtResource
  <2>2. sweep.i >= sweep.from
    BY <1>1, <2>1 DEF Deletable, Fresh, AtResource, IInv, RunInv, SweepHeld,
                      Sweeping
  <2>3. sweep'.i < sweep.i /\ sweep'.after = sweep.after
    BY <1>1, <2>1, <2>2
  <2> QED  BY <1>2, <2>1, <2>3 DEF Sweeping
<1>7. CASE DeleteSettled
  <2>1. /\ pc = "settle" /\ call.kind = "cleanup" /\ pc' = "sweep"
        /\ UNCHANGED <<exps, next>>
        /\ \/ \E failures \in SUBSET {cur} : Onward(failures)
           \/ UNCHANGED sweep
    BY <1>7 DEF DeleteSettled
  <2>2. Place < Place'
    BY <2>1 DEF Place
  <2> QED  BY <1>2, <1>3, <2>1, <2>2 DEF Sweeping, Requesting
<1> QED  BY <1>4, <1>5, <1>6, <1>7 DEF Cleanup

\* What follows a sweep is later in the experiment or in the process's life.
LEMMA ConcludeAdvances ==
  ASSUME IInv, Conclude
  PROVE  Closer
<1>1. CASE ExperimentEnds \/ ExperimentErrorDropped
  <2>1. /\ pc = "sweep" /\ sweep.after = "experiment" /\ UNCHANGED exps
        /\ \/ pc' = "ready"
           \/ pc' = "sweep" /\ sweep' = Sweep(1, "final")
    BY <1>1 DEF ExperimentEnds, ExperimentErrorDropped, SweepOver
  <2>2. (Era' = Era /\ Part < Part') \/ Era < Era'
    BY <2>1 DEF Era, Part, Sweeping, Requesting, Sweep
  <2> QED  BY <2>1, <2>2 DEF Closer
<1>2. CASE FinalCleanup
  <2>1. pc = "ready" /\ pc' = "sweep" /\ sweep' = Sweep(1, "final")
    BY <1>2 DEF FinalCleanup
  <2>2. Era < Era'
    BY <2>1 DEF Era, Sweeping, Requesting, Sweep
  <2> QED  BY <2>2 DEF Closer
<1>3. CASE Finish \/ ReconcileStops
  <2>1. pc = "sweep" /\ pc' = "down"
    BY <1>3 DEF Finish, ReconcileStops, SweepOver, Forget
  <2>2. Era < Era'
    BY <2>1 DEF Era, Sweeping, Requesting
  <2> QED  BY <2>2 DEF Closer
<1>4. CASE ReconcileSucceeds
  <2>1. pc = "sweep" /\ sweep.after = "resume" /\ pc' = "ready"
    BY <1>4 DEF ReconcileSucceeds, SweepOver
  <2>2. Era < Era'
    BY <2>1 DEF Era, Sweeping, Requesting
  <2> QED  BY <2>2 DEF Closer
<1> QED  BY <1>1, <1>2, <1>3, <1>4 DEF Conclude

\* Every step of a process brings its end nearer, whatever the server answers
\* and wherever it resumed.
THEOREM EveryProcessAdvances == Spec => ProcessAdvances
<1>1. IInv /\ Step => Closer
  BY RequestAdvances, ExperimentAdvances, CleanupAdvances, ConcludeAdvances
  DEF Step
<1>2. IInv /\ [Next]_vars => [Step => Closer]_vars
  BY <1>1
<1> QED  BY <1>2, Invariance, PTL DEF Spec, ProcessAdvances
==============================================================================
