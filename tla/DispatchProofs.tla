--------------------------- MODULE DispatchProofs ----------------------------
(***************************************************************************)
(* IInv of module Dispatch is an inductive invariant for every set of      *)
(* processes, every budget, every wait, buffer and lifetime and every      *)
(* bound; the properties of Dispatch follow from it.                       *)
(***************************************************************************)
EXTENDS Dispatch, TLAPS

(* Facts about the definitions *)

\* Every phase belongs to one of the two classes.
LEMMA Classes ==
  /\ \A phase : ClassOf(phase) \in Class
  /\ Zero \in Counts /\ Zero["charged"] = 0 /\ Zero["cleanup"] = 0
  /\ NoCall \in Call /\ NoCall.token = FALSE
BY DEF Class, ClassOf, Zero, Counts, Call, NoCall, Aim, Phase

\* Counting one more keeps counts counts, and raises one class only.
LEMMA Counted ==
  ASSUME NEW f \in Counts, NEW c \in Class
  PROVE  /\ [f EXCEPT ![c] = @ + 1] \in Counts
         /\ \A d \in Class :
              [f EXCEPT ![c] = @ + 1][d] = IF d = c THEN f[d] + 1 ELSE f[d]
BY DEF Counts

\* The pause after an answer covers the wait and the Retry-After.
LEMMA Slots ==
  ASSUME NEW retry \in 0 .. MaxRetry
  PROVE  /\ NextSlot(retry) \in Nat
         /\ NextSlot(retry) >= Wait /\ NextSlot(retry) >= retry
BY TimeAssumption DEF NextSlot

------------------------------------------------------------------------------
(* The inductive invariant *)

\* It holds when the run has just been begun.
LEMMA InvInit == Init => IInv
<1> SUFFICES ASSUME Init PROVE IInv
  OBVIOUS
<1> USE ProcAssumption, TimeAssumption DEF Init
<1>1. TypeOK
  <2>1. quiet \in Nat /\ owed \in 0 .. MaxRetry
    BY DEF NeverSince, Longest
  <2>2. saved \in [Proc -> Counts \cup {NoCounts}]
    OBVIOUS
  <2>3. spurned \in Spurned /\ barred \in BOOLEAN
    BY DEF Spurned
  <2>4. QED
    BY <2>1, <2>2, <2>3, Classes DEF TypeOK, Places
<1>2. Behind
  BY Classes DEF Behind, Zero
<1>3. InStep
  BY DEF InStep
<1>4. Within
  BY DEF Within
<1>5. OwnAllowance
  BY DEF OwnAllowance
<1>6. Authentic
  BY DEF Authentic
<1>7. Rested
  BY DEF Rested, NeverSince, Longest
<1>8. QED
  BY <1>1, <1>2, <1>3, <1>4, <1>5, <1>6, <1>7 DEF IInv

\* A call begins.
LEMMA BeginKeeps ==
  ASSUME IInv, NEW aim \in Aim, Begin(aim)
  PROVE  IInv'
<1> USE DEF IInv, processes, client, server, watch
<1>1. TypeOK'
  BY DEF TypeOK, Begin, Authenticate, Places, Call, Phase
<1>2. Behind'
  BY DEF Behind, Begin, Authenticate, TypeOK, SentUnder
<1>3. InStep'
  BY DEF InStep, Begin, Authenticate, TypeOK, SentUnder
<1>4. Within'
  BY DEF Within, Begin, Authenticate, TypeOK, SentUnder
<1>5. OwnAllowance'
  BY DEF OwnAllowance, Begin, Authenticate, TypeOK, SentUnder
<1>6. Authentic'
  <2>1. call'.token = ~Usable(cred)
    BY DEF Begin, Authenticate
  <2>2. ~call'.token => cred # NoCred /\ cred > Buffer
    BY <2>1 DEF Usable
  <2>3. QED
    BY <2>2, TimeAssumption DEF Authentic, Begin, Authenticate, TypeOK
<1>7. Rested'
  BY DEF Rested, Begin, Authenticate, TypeOK, SentUnder
<1>8. QED
  BY <1>1, <1>2, <1>3, <1>4, <1>5, <1>6, <1>7 DEF IInv

\* A poll is a request of its own.
LEMMA PollKeeps ==
  ASSUME IInv, Poll
  PROVE  IInv'
<1> USE DEF IInv, processes, client, server, watch
<1>1. TypeOK'
  BY DEF TypeOK, Poll, Authenticate, Places, Call, Phase
<1>2. Behind'
  BY DEF Behind, Poll, Authenticate, TypeOK, SentUnder
<1>3. InStep'
  BY DEF InStep, Poll, Authenticate, TypeOK, SentUnder
<1>4. Within'
  BY DEF Within, Poll, Authenticate, TypeOK, SentUnder
<1>5. OwnAllowance'
  BY DEF OwnAllowance, Poll, Authenticate, TypeOK, SentUnder
<1>6. Authentic'
  <2>1. call'.token = ~Usable(cred)
    BY DEF Poll, Authenticate
  <2>2. ~call'.token => cred # NoCred /\ cred > Buffer
    BY <2>1 DEF Usable
  <2>3. QED
    BY <2>2, TimeAssumption DEF Authentic, Poll, Authenticate, TypeOK
<1>7. Rested'
  BY DEF Rested, Poll, Authenticate, TypeOK, SentUnder
<1>8. QED
  BY <1>1, <1>2, <1>3, <1>4, <1>5, <1>6, <1>7 DEF IInv

\* Polling ends.
LEMMA StopPollingKeeps ==
  ASSUME IInv, StopPolling
  PROVE  IInv'
<1> USE DEF IInv, processes, client, server, watch
<1>1. TypeOK'
  BY DEF TypeOK, StopPolling, Places
<1>2. Behind'
  BY DEF Behind, StopPolling, TypeOK, SentUnder
<1>3. InStep'
  BY DEF InStep, StopPolling, TypeOK, SentUnder
<1>4. Within'
  BY DEF Within, StopPolling, TypeOK, SentUnder
<1>5. OwnAllowance'
  BY DEF OwnAllowance, StopPolling, TypeOK, SentUnder
<1>6. Authentic'
  BY DEF Authentic, StopPolling, TypeOK, SentUnder
<1>7. Rested'
  BY DEF Rested, StopPolling, TypeOK, SentUnder
<1>8. QED
  BY <1>1, <1>2, <1>3, <1>4, <1>5, <1>6, <1>7 DEF IInv

\* The budget refuses.
LEMMA RefuseKeeps ==
  ASSUME IInv, Refuse
  PROVE  IInv'
<1> USE DEF IInv, processes, client, server, watch
<1>1. TypeOK'
  BY DEF TypeOK, Refuse, Places
<1>2. Behind'
  BY DEF Behind, Refuse, TypeOK, SentUnder
<1>3. InStep'
  BY DEF InStep, Refuse, TypeOK, SentUnder
<1>4. Within'
  BY DEF Within, Refuse, TypeOK, SentUnder
<1>5. OwnAllowance'
  BY DEF OwnAllowance, Refuse, Exhausted, TypeOK, SentUnder, AuthPhase
<1>6. Authentic'
  BY DEF Authentic, Refuse, TypeOK, SentUnder
<1>7. Rested'
  BY DEF Rested, Refuse, TypeOK, SentUnder
<1>8. QED
  BY <1>1, <1>2, <1>3, <1>4, <1>5, <1>6, <1>7 DEF IInv

\* The budget admits.
LEMMA AdmitKeeps ==
  ASSUME IInv, Admit
  PROVE  IInv'
<1> USE DEF IInv, processes, client, server, watch
<1>1. TypeOK'
  BY DEF TypeOK, Admit, Exhausted, Places
<1>2. Behind'
  BY DEF Behind, Admit, Exhausted, TypeOK, SentUnder
<1>3. InStep'
  BY DEF InStep, Admit, Exhausted, TypeOK, SentUnder
<1>4. Within'
  BY ProcAssumption DEF Within, Admit, Exhausted, TypeOK, SentUnder, ClassOf, Counts, Class
<1>5. OwnAllowance'
  BY DEF OwnAllowance, Admit, Exhausted, TypeOK, SentUnder
<1>6. Authentic'
  BY DEF Authentic, Admit, Exhausted, TypeOK, SentUnder
<1>7. Rested'
  BY DEF Rested, Admit, Exhausted, TypeOK, SentUnder
<1>8. QED
  BY <1>1, <1>2, <1>3, <1>4, <1>5, <1>6, <1>7 DEF IInv

\* The wait is cut short.
LEMMA CancelKeeps ==
  ASSUME IInv, Cancel
  PROVE  IInv'
<1> USE DEF IInv, processes, client, server, watch
<1>1. TypeOK'
  BY DEF TypeOK, Cancel, Places
<1>2. Behind'
  BY DEF Behind, Cancel, TypeOK, SentUnder
<1>3. InStep'
  BY DEF InStep, Cancel, TypeOK, SentUnder
<1>4. Within'
  BY DEF Within, Cancel, TypeOK, SentUnder
<1>5. OwnAllowance'
  BY DEF OwnAllowance, Cancel, TypeOK, SentUnder
<1>6. Authentic'
  BY DEF Authentic, Cancel, TypeOK, SentUnder
<1>7. Rested'
  BY DEF Rested, Cancel, TypeOK, SentUnder
<1>8. QED
  BY <1>1, <1>2, <1>3, <1>4, <1>5, <1>6, <1>7 DEF IInv

\* A request is counted.
LEMMA CountKeeps ==
  ASSUME IInv, Count
  PROVE  IInv'
<1> USE DEF IInv, processes, client, server, watch
<1>1. TypeOK'
  BY Classes, Counted DEF TypeOK, Count, Places
<1>2. Behind'
  BY Classes, Counted DEF Behind, Count, TypeOK, SentUnder, Counts
<1>3. InStep'
  BY DEF InStep, Count, TypeOK
<1>4. Within'
  BY ProcAssumption, Classes, Counted DEF Within, Count, TypeOK, SentUnder, Counts, Class
<1>5. OwnAllowance'
  BY Classes, Counted DEF OwnAllowance, Count, TypeOK, SentUnder
<1>6. Authentic'
  BY Classes, Counted DEF Authentic, Count, TypeOK, SentUnder
<1>7. Rested'
  BY Classes, Counted DEF Rested, Count, TypeOK, SentUnder
<1>8. QED
  BY <1>1, <1>2, <1>3, <1>4, <1>5, <1>6, <1>7 DEF IInv

\* A request leaves.
LEMMA LeaveKeeps ==
  ASSUME IInv, Leave
  PROVE  IInv'
<1> USE DEF IInv, processes, client, server, watch
<1>1. TypeOK'
  BY Classes, Counted DEF TypeOK, Leave, Places
<1>2. Behind'
  BY Classes, Counted DEF Behind, Leave, TypeOK, SentUnder, Counts
<1>3. InStep'
  BY Classes, Counted DEF InStep, Leave, TypeOK, SentUnder
<1>4. Within'
  BY DEF Within, Leave, TypeOK, SentUnder
<1>5. OwnAllowance'
  BY Classes, Counted DEF OwnAllowance, Leave, TypeOK, SentUnder
<1>6. Authentic'
  BY Classes, Counted DEF Authentic, Leave, TypeOK, SentUnder
<1>7. Rested'
  BY Classes, Counted DEF Rested, Leave, TypeOK, SentUnder
<1>8. QED
  BY <1>1, <1>2, <1>3, <1>4, <1>5, <1>6, <1>7 DEF IInv

\* No answer comes.
LEMMA LostKeeps ==
  ASSUME IInv, Lost
  PROVE  IInv'
<1> USE DEF IInv, processes, client, server, watch
<1>1. TypeOK'
  BY Slots, TimeAssumption DEF TypeOK, Lost, Answered, Places
<1>2. Behind'
  BY Slots, TimeAssumption DEF Behind, Lost, Answered, TypeOK, SentUnder
<1>3. InStep'
  BY Slots, TimeAssumption DEF InStep, Lost, Answered, TypeOK, SentUnder
<1>4. Within'
  BY Slots, TimeAssumption DEF Within, Lost, Answered, TypeOK, SentUnder
<1>5. OwnAllowance'
  BY Slots, TimeAssumption DEF OwnAllowance, Lost, Answered, TypeOK, SentUnder
<1>6. Authentic'
  BY Slots, TimeAssumption DEF Authentic, Lost, Answered, TypeOK, SentUnder
<1>7. Rested'
  BY Slots, TimeAssumption DEF Rested, Lost, Answered, TypeOK, SentUnder
<1>8. QED
  BY <1>1, <1>2, <1>3, <1>4, <1>5, <1>6, <1>7 DEF IInv

\* An answer comes that cannot be read.
LEMMA UnreadKeeps ==
  ASSUME IInv, NEW retry \in 0 .. MaxRetry, Unread(retry)
  PROVE  IInv'
<1> USE DEF IInv, processes, client, server, watch
<1>1. TypeOK'
  BY Slots, TimeAssumption DEF TypeOK, Unread, Answered, Places, Spurned
<1>2. Behind'
  BY Slots, TimeAssumption DEF Behind, Unread, Answered, TypeOK, SentUnder
<1>3. InStep'
  BY Slots, TimeAssumption DEF InStep, Unread, Answered, TypeOK, SentUnder
<1>4. Within'
  BY Slots, TimeAssumption DEF Within, Unread, Answered, TypeOK, SentUnder
<1>5. OwnAllowance'
  BY Slots, TimeAssumption DEF OwnAllowance, Unread, Answered, TypeOK, SentUnder
<1>6. Authentic'
  BY Slots, TimeAssumption DEF Authentic, Unread, Answered, TypeOK, SentUnder
<1>7. Rested'
  BY Slots, TimeAssumption DEF Rested, Unread, Answered, TypeOK, SentUnder
<1>8. QED
  BY <1>1, <1>2, <1>3, <1>4, <1>5, <1>6, <1>7 DEF IInv

\* A token is granted.
LEMMA GrantKeeps ==
  ASSUME IInv, NEW retry \in 0 .. MaxRetry, Grant(retry)
  PROVE  IInv'
<1> USE DEF IInv, processes, client, server, watch
<1>1. TypeOK'
  <2>1. call' \in Call
    BY DEF Grant, TypeOK, Call
  <2>2. pause' \in Nat /\ quiet' \in Nat /\ since' \in Nat
    BY Slots DEF Grant, Answered
  <2>3. cred' \in 0 .. Lifetime /\ owed' \in 0 .. MaxRetry
    BY TimeAssumption DEF Grant, Answered
  <2>4. spurned' \in Spurned /\ barred' \in BOOLEAN
    BY DEF Grant, TypeOK, Spurned
  <2>5. QED
    BY <2>1, <2>2, <2>3, <2>4 DEF TypeOK, Grant, Answered, Places
<1>2. Behind'
  BY Slots, TimeAssumption DEF Behind, Grant, Answered, TypeOK, SentUnder
<1>3. InStep'
  BY Slots, TimeAssumption DEF InStep, Grant, Answered, TypeOK, SentUnder
<1>4. Within'
  BY Slots, TimeAssumption DEF Within, Grant, Answered, TypeOK, SentUnder
<1>5. OwnAllowance'
  BY Slots, TimeAssumption DEF OwnAllowance, Grant, Answered, TypeOK, SentUnder
<1>6. Authentic'
  BY TimeAssumption, NoCredAssumption DEF Authentic, Grant, Answered, TypeOK
<1>7. Rested'
  BY Slots, TimeAssumption DEF Rested, Grant, Answered, TypeOK, SentUnder
<1>8. QED
  BY <1>1, <1>2, <1>3, <1>4, <1>5, <1>6, <1>7 DEF IInv

\* A token is withheld.
LEMMA WithholdKeeps ==
  ASSUME IInv, NEW retry \in 0 .. MaxRetry, Withhold(retry)
  PROVE  IInv'
<1> USE DEF IInv, processes, client, server, watch
<1>1. TypeOK'
  BY Slots, TimeAssumption DEF TypeOK, Withhold, Answered, Places
<1>2. Behind'
  BY Slots, TimeAssumption DEF Behind, Withhold, Answered, TypeOK, SentUnder
<1>3. InStep'
  BY Slots, TimeAssumption DEF InStep, Withhold, Answered, TypeOK, SentUnder
<1>4. Within'
  BY Slots, TimeAssumption DEF Within, Withhold, Answered, TypeOK, SentUnder
<1>5. OwnAllowance'
  BY Slots, TimeAssumption DEF OwnAllowance, Withhold, Answered, TypeOK, SentUnder
<1>6. Authentic'
  BY Slots, TimeAssumption DEF Authentic, Withhold, Answered, TypeOK, SentUnder
<1>7. Rested'
  BY Slots, TimeAssumption DEF Rested, Withhold, Answered, TypeOK, SentUnder
<1>8. QED
  BY <1>1, <1>2, <1>3, <1>4, <1>5, <1>6, <1>7 DEF IInv

\* A call is settled.
LEMMA SettleKeeps ==
  ASSUME IInv, NEW retry \in 0 .. MaxRetry, Settle(retry)
  PROVE  IInv'
<1> USE DEF IInv, processes, client, server, watch
<1>1. TypeOK'
  BY Slots, TimeAssumption DEF TypeOK, Settle, Answered, Places
<1>2. Behind'
  BY Slots, TimeAssumption DEF Behind, Settle, Answered, TypeOK, SentUnder
<1>3. InStep'
  BY Slots, TimeAssumption DEF InStep, Settle, Answered, TypeOK, SentUnder
<1>4. Within'
  BY Slots, TimeAssumption DEF Within, Settle, Answered, TypeOK, SentUnder
<1>5. OwnAllowance'
  BY Slots, TimeAssumption DEF OwnAllowance, Settle, Answered, TypeOK, SentUnder
<1>6. Authentic'
  BY Slots, TimeAssumption DEF Authentic, Settle, Answered, TypeOK, SentUnder
<1>7. Rested'
  BY Slots, TimeAssumption DEF Rested, Settle, Answered, TypeOK, SentUnder
<1>8. QED
  BY <1>1, <1>2, <1>3, <1>4, <1>5, <1>6, <1>7 DEF IInv

\* A job goes on.
LEMMA PendingKeeps ==
  ASSUME IInv, NEW retry \in 0 .. MaxRetry, Pending(retry)
  PROVE  IInv'
<1> USE DEF IInv, processes, client, server, watch
<1>1. TypeOK'
  BY Slots, TimeAssumption DEF TypeOK, Pending, Answered, Places
<1>2. Behind'
  BY Slots, TimeAssumption DEF Behind, Pending, Answered, TypeOK, SentUnder
<1>3. InStep'
  BY Slots, TimeAssumption DEF InStep, Pending, Answered, TypeOK, SentUnder
<1>4. Within'
  BY Slots, TimeAssumption DEF Within, Pending, Answered, TypeOK, SentUnder
<1>5. OwnAllowance'
  BY Slots, TimeAssumption DEF OwnAllowance, Pending, Answered, TypeOK, SentUnder
<1>6. Authentic'
  BY Slots, TimeAssumption DEF Authentic, Pending, Answered, TypeOK, SentUnder
<1>7. Rested'
  BY Slots, TimeAssumption DEF Rested, Pending, Answered, TypeOK, SentUnder
<1>8. QED
  BY <1>1, <1>2, <1>3, <1>4, <1>5, <1>6, <1>7 DEF IInv

\* A token is refused.
LEMMA DenyKeeps ==
  ASSUME IInv, NEW retry \in 0 .. MaxRetry, Deny(retry)
  PROVE  IInv'
<1> USE DEF IInv, processes, client, server, watch
<1>1. TypeOK'
  BY Slots, TimeAssumption DEF TypeOK, Deny, Answered, Invalidate, Places, Spurned
<1>2. Behind'
  BY Slots, TimeAssumption DEF Behind, Deny, Answered, Invalidate, TypeOK, SentUnder
<1>3. InStep'
  BY Slots, TimeAssumption DEF InStep, Deny, Answered, Invalidate, TypeOK, SentUnder
<1>4. Within'
  BY Slots, TimeAssumption DEF Within, Deny, Answered, Invalidate, TypeOK, SentUnder
<1>5. OwnAllowance'
  BY Slots, TimeAssumption DEF OwnAllowance, Deny, Answered, Invalidate, TypeOK, SentUnder
<1>6. Authentic'
  BY Slots, TimeAssumption DEF Authentic, Deny, Answered, Invalidate, TypeOK, SentUnder
<1>7. Rested'
  BY Slots, TimeAssumption DEF Rested, Deny, Answered, Invalidate, TypeOK, SentUnder
<1>8. QED
  BY <1>1, <1>2, <1>3, <1>4, <1>5, <1>6, <1>7 DEF IInv

\* Time passes.
LEMMA TickKeeps ==
  ASSUME IInv, Tick
  PROVE  IInv'
<1> USE DEF IInv, processes, client, server, watch
<1>1. TypeOK'
  BY TimeAssumption, NoCredAssumption DEF TypeOK, Tick, Places
<1>2. Behind'
  BY TimeAssumption, NoCredAssumption DEF Behind, Tick, TypeOK, SentUnder
<1>3. InStep'
  BY TimeAssumption, NoCredAssumption DEF InStep, Tick, TypeOK, SentUnder
<1>4. Within'
  BY TimeAssumption, NoCredAssumption DEF Within, Tick, TypeOK, SentUnder
<1>5. OwnAllowance'
  BY TimeAssumption, NoCredAssumption DEF OwnAllowance, Tick, TypeOK, SentUnder
<1>6. Authentic'
  BY TimeAssumption, NoCredAssumption DEF Authentic, Tick, TypeOK, SentUnder
<1>7. Rested'
  BY TimeAssumption DEF Rested, Tick, TypeOK, Longest
<1>8. QED
  BY <1>1, <1>2, <1>3, <1>4, <1>5, <1>6, <1>7 DEF IInv

\* A process reads the journal.
LEMMA LoadKeeps ==
  ASSUME IInv, NEW p \in Proc, Load(p)
  PROVE  IInv'
<1> USE DEF IInv, processes, client, server, watch
<1>1. TypeOK'
  BY NoCountsAssumption DEF TypeOK, Load, Places
<1>2. Behind'
  BY NoCountsAssumption DEF Behind, Load, TypeOK, SentUnder
<1>3. InStep'
  BY NoCountsAssumption DEF InStep, Load, TypeOK, SentUnder
<1>4. Within'
  BY NoCountsAssumption DEF Within, Load, TypeOK, SentUnder
<1>5. OwnAllowance'
  BY NoCountsAssumption DEF OwnAllowance, Load, TypeOK, SentUnder
<1>6. Authentic'
  BY NoCountsAssumption DEF Authentic, Load, TypeOK, SentUnder
<1>7. Rested'
  BY NoCountsAssumption DEF Rested, Load, TypeOK, SentUnder
<1>8. QED
  BY <1>1, <1>2, <1>3, <1>4, <1>5, <1>6, <1>7 DEF IInv

\* A process takes the lock.
LEMMA OpenKeeps ==
  ASSUME IInv, NEW p \in Proc, Open(p)
  PROVE  IInv'
<1> USE DEF IInv, processes, client, server, watch
<1>1. TypeOK'
  <2>1. saved' \in [Proc -> Counts \cup {NoCounts}] /\ counts' \in Counts
    BY DEF Open, RestoreCounts, TypeOK
  <2>2. quiet' \in Nat /\ owed' \in 0 .. MaxRetry /\ pause' \in Nat
    BY TimeAssumption DEF Open, NeverSince, Longest
  <2>3. spurned' \in Spurned /\ barred' \in BOOLEAN
    BY DEF Open, TypeOK, Spurned
  <2>4. holder' \in Proc /\ starts' \in Nat
    BY DEF Open, TypeOK
  <2>5. holder' # NoProc
    BY ProcAssumption DEF Open
  <2>6. QED
    BY <2>1, <2>2, <2>3, <2>4, <2>5 DEF TypeOK, Open
<1>2. Behind'
  BY ProcAssumption, NoCountsAssumption, TimeAssumption DEF Behind, Open, TypeOK, SentUnder
<1>3. InStep'
  BY NoCountsAssumption, ProcAssumption DEF InStep, Open, RestoreCounts, TypeOK
<1>4. Within'
  BY ProcAssumption, NoCountsAssumption, TimeAssumption DEF Within, Open, TypeOK, SentUnder
<1>5. OwnAllowance'
  BY ProcAssumption, NoCountsAssumption, TimeAssumption DEF OwnAllowance, Open, TypeOK, SentUnder
<1>6. Authentic'
  BY ProcAssumption, NoCountsAssumption, TimeAssumption DEF Authentic, Open, TypeOK, SentUnder
<1>7. Rested'
  BY TimeAssumption DEF Rested, Open, TypeOK, NeverSince, Longest
<1>8. QED
  BY <1>1, <1>2, <1>3, <1>4, <1>5, <1>6, <1>7 DEF IInv

\* A process gives up before it has the lock.
LEMMA GiveUpKeeps ==
  ASSUME IInv, NEW p \in Proc, GiveUp(p)
  PROVE  IInv'
<1> USE DEF IInv, processes, client, server, watch
<1>1. TypeOK'
  BY NoCountsAssumption DEF TypeOK, GiveUp, Places
<1>2. Behind'
  BY NoCountsAssumption DEF Behind, GiveUp, TypeOK, SentUnder
<1>3. InStep'
  BY NoCountsAssumption DEF InStep, GiveUp, TypeOK, SentUnder
<1>4. Within'
  BY NoCountsAssumption DEF Within, GiveUp, TypeOK, SentUnder
<1>5. OwnAllowance'
  BY NoCountsAssumption DEF OwnAllowance, GiveUp, TypeOK, SentUnder
<1>6. Authentic'
  BY NoCountsAssumption DEF Authentic, GiveUp, TypeOK, SentUnder
<1>7. Rested'
  BY NoCountsAssumption DEF Rested, GiveUp, TypeOK, SentUnder
<1>8. QED
  BY <1>1, <1>2, <1>3, <1>4, <1>5, <1>6, <1>7 DEF IInv

\* A process ends.
LEMMA EndKeeps ==
  ASSUME IInv, End
  PROVE  IInv'
<1> USE DEF IInv, processes, client, server, watch
<1>1. TypeOK'
  BY Classes, ProcAssumption DEF TypeOK, End, Places
<1>2. Behind'
  BY DEF Behind, End, TypeOK, Counts
<1>3. InStep'
  BY Classes, ProcAssumption DEF InStep, End, TypeOK, SentUnder
<1>4. Within'
  BY Classes, ProcAssumption DEF Within, End, TypeOK, SentUnder
<1>5. OwnAllowance'
  BY Classes, ProcAssumption DEF OwnAllowance, End, TypeOK, SentUnder
<1>6. Authentic'
  BY Classes, ProcAssumption DEF Authentic, End, TypeOK, SentUnder
<1>7. Rested'
  BY Classes, ProcAssumption DEF Rested, End, TypeOK, SentUnder
<1>8. QED
  BY <1>1, <1>2, <1>3, <1>4, <1>5, <1>6, <1>7 DEF IInv

\* Every step keeps it.
LEMMA InvNext == IInv /\ [Next]_vars => IInv'
<1> SUFFICES ASSUME IInv, [Next]_vars PROVE IInv'
  OBVIOUS
<1>1. CASE UNCHANGED vars
  BY <1>1 DEF IInv, vars, TypeOK, Behind, InStep, Within, OwnAllowance,
             Authentic, Rested, SentUnder
<1>2. CASE Next
  BY <1>2, BeginKeeps, PollKeeps, StopPollingKeeps, RefuseKeeps, AdmitKeeps,
     CancelKeeps, CountKeeps, LeaveKeeps, LostKeeps, UnreadKeeps, GrantKeeps,
     WithholdKeeps, SettleKeeps, PendingKeeps, DenyKeeps, TickKeeps,
     LoadKeeps, OpenKeeps, GiveUpKeeps, EndKeeps DEF Next
<1>3. QED
  BY <1>1, <1>2

------------------------------------------------------------------------------
(* The theorems *)

\* In every reachable state memory, journal and network agree as IInv says.
THEOREM Invariance == Spec => []IInv
<1>1. QED
  BY InvInit, InvNext, PTL DEF Spec

\* The variables keep their types, and nothing is under way without a holder.
THEOREM TypeCorrect == Spec => []TypeOK
<1>1. IInv => TypeOK
  BY DEF IInv
<1>2. QED
  BY <1>1, Invariance, PTL

\* Requests are in the journal before they leave, over deaths and overlaps.
THEOREM CountedBeforeSent == Spec => []CountedFirst
<1>1. IInv => CountedFirst
  BY Classes DEF IInv, TypeOK, Behind, CountedFirst, Counts
<1>2. QED
  BY <1>1, Invariance, PTL

\* Where no DELETE is polled, the budget never stands in the way of cleanup.
THEOREM CleanupAllowed == ~PolledCleanup => (Spec => []CleanupUnimpeded)
<1> SUFFICES ASSUME ~PolledCleanup PROVE Spec => []CleanupUnimpeded
  OBVIOUS
<1>1. IInv => CleanupUnimpeded
  BY DEF IInv, OwnAllowance, CleanupUnimpeded
<1>2. QED
  BY <1>1, Invariance, PTL

\* Only Leave sends, and only one request, counted before.
LEMMA OnlyLeaveSends ==
  ASSUME IInv, [Next]_vars
  PROVE  (sent' # sent \/ Carries) => Leave
BY DEF Next, vars, Carries, processes, client, server, watch, Begin, Poll,
       Authenticate, StopPolling, Refuse, Admit, Cancel, Count, Lost, Unread,
       Answered, Grant, Withhold, Settle, Pending, Deny, Tick, Load, Open, GiveUp, End

\* Unless Load overlaps with a holder of the lock, the request budget is kept
\* by all the processes of a run together.
THEOREM BudgetHolds == ~Overlap => (Spec => BudgetKept)
<1> SUFFICES ASSUME ~Overlap PROVE Spec => BudgetKept
  OBVIOUS
<1> DEFINE Room == sent'["charged"] > sent["charged"] =>
                     \/ MaxRequests[holder] = 0
                     \/ sent["charged"] < MaxRequests[holder]
<1>1. IInv /\ [Next]_vars => Room
  <2> SUFFICES ASSUME IInv, [Next]_vars, sent'["charged"] > sent["charged"]
               PROVE  \/ MaxRequests[holder] = 0
                      \/ sent["charged"] < MaxRequests[holder]
    OBVIOUS
  <2>1. sent \in Counts /\ recorded \in Counts /\ "charged" \in Class
    BY DEF IInv, TypeOK, Class
  <2>2. sent["charged"] \in Nat /\ recorded["charged"] \in Nat
    BY <2>1 DEF Counts
  <2>3. sent' # sent
    BY <2>2
  <2>4. Leave
    BY <2>3, OnlyLeaveSends
  <2>5. ClassOf(SentUnder) = "charged"
    BY <2>1, <2>2, <2>4, Classes, Counted DEF Leave
  <2>6. holder # NoProc /\ counts = recorded
    BY <2>4 DEF Leave, IInv, TypeOK, InStep
  <2>7. \/ MaxRequests[holder] = 0
        \/ recorded["charged"] <= MaxRequests[holder]
    BY <2>4, <2>5, <2>6 DEF Leave, IInv, Within
  <2>8. sent["charged"] + 1 <= recorded["charged"]
    BY <2>1, <2>4, <2>5 DEF Leave, IInv, Behind
  <2>9. MaxRequests[holder] \in Nat
    BY <2>6, ProcAssumption DEF IInv, TypeOK
  <2>10. QED
    BY <2>2, <2>7, <2>8, <2>9
<1>2. QED
  BY <1>1, Invariance, PTL DEF Spec, BudgetKept

\* No request leaves before its slot.
THEOREM PacingHolds == Spec => Paced
<1>1. IInv /\ [Next]_vars => (sent' # sent => quiet >= Wait /\ quiet >= owed)
  <2> SUFFICES ASSUME IInv, [Next]_vars, sent' # sent
               PROVE  quiet >= Wait /\ quiet >= owed
    OBVIOUS
  <2>1. Leave
    BY OnlyLeaveSends
  <2>2. QED
    BY <2>1, TimeAssumption DEF Leave, IInv, TypeOK, Rested
<1>2. QED
  BY <1>1, Invariance, PTL DEF Spec, Paced

\* The refresh buffer covers waits up to its length.
THEOREM BufferHolds == Spec => BufferSuffices
<1>1. IInv /\ [Next]_vars =>
        (Carries /\ since <= Buffer /\ Lifetime > Buffer => cred > 0)
  <2> SUFFICES ASSUME IInv, [Next]_vars,
                      Carries, since <= Buffer, Lifetime > Buffer
               PROVE  cred > 0
    OBVIOUS
  <2>1. cred # NoCred /\ cred + since > Buffer
    BY DEF Carries, IInv, Authentic
  <2>2. cred \in 0 .. Lifetime /\ since \in Nat
    BY <2>1 DEF IInv, TypeOK
  <2>3. QED
    BY <2>1, <2>2, TimeAssumption
<1>2. QED
  BY <1>1, Invariance, PTL DEF Spec, BufferSuffices

\* A token that was refused, in an answer that could be read, is not presented
\* again.
THEOREM RefusalsRemembered == Spec => RefusedTokenDropped
<1>1. IInv => (Carries => spurned # "read")
  BY DEF IInv, Authentic, Carries
<1>2. QED
  BY <1>1, Invariance, PTL DEF Spec, RefusedTokenDropped
==============================================================================
