------------------------------ MODULE Dispatch -------------------------------
(***************************************************************************)
(* How requests leave: internal/httpclient/client.go, with the counts that *)
(* engine/resume.go restores from the journal.  A call is authenticated,   *)
(* passes the request budget, waits for its slot, is counted and journaled,*)
(* leaves and is answered; a call that needs a token sends a request of its*)
(* own for it first.  Processes take turns at one run directory, and a     *)
(* process reads the journal (Load) before it takes the lock (Open).       *)
(*                                                                         *)
(* Time is a countdown: pause is what is left of Client.next, cred what    *)
(* is left of ExpiresAt.  Only an OAuth profile is modelled; the others    *)
(* send no request.                                                        *)
(***************************************************************************)
EXTENDS Naturals

CONSTANTS
  Proc,          \* processes that resume the run, or began it
  NoProc, NoCred, NoCounts,
  MaxRequests,   \* [Proc -> Config.MaxRequests], 0 for unlimited
  Wait,          \* Config.Wait
  Buffer,        \* Auth.TokenRefreshBuffer, or 30 s where it is zero
  Lifetime,      \* expires_in of the tokens
  MaxRetry,      \* bound: the longest Retry-After
  MaxDispatches, \* bound: requests counted
  MaxStarts,     \* bound: times a process takes the lock
  PolledCleanup, \* whether DELETE operations have a poll hint
  Overlap        \* whether a process may read the journal while another holds
                 \* or is about to take the lock

ASSUME ProcAssumption ==
  /\ NoProc \notin Proc
  /\ MaxRequests \in [Proc -> Nat]
ASSUME TimeAssumption ==
  /\ Wait \in Nat /\ Buffer \in Nat /\ Lifetime \in Nat /\ MaxRetry \in Nat
ASSUME BoundsAssumption ==
  /\ MaxDispatches \in Nat /\ MaxStarts \in Nat
  /\ PolledCleanup \in BOOLEAN /\ Overlap \in BOOLEAN

\* What a request is made for, and the phases it is sent under; "probe" stands
\* for every phase of an experiment's own requests.
Aim == {"experiment", "cleanup"}
Phase == {"probe", "poll", "auth", "cleanup"}

\* The budget tells only cleanup from the rest.
Class == {"charged", "cleanup"}
ClassOf(phase) == IF phase = "cleanup" THEN "cleanup" ELSE "charged"
Counts == [Class -> Nat]
Zero == [c \in Class |-> 0]
ASSUME NoCountsAssumption == NoCounts \notin Counts

ASSUME NoCredAssumption == NoCred \notin 0 .. Lifetime

VARIABLES
  holder,    \* the process that holds the lock and runs, if any
  saved,     \* [Proc -> the counts it has loaded, before it has the lock]
  starts,    \* bound
  counts,    \* Client.counts
  pause,     \* Client.next, as the time until then
  cred,      \* Client.credentials: the time to ExpiresAt, if there is a token
  at,        \* where the call is
  call,      \* the call under way
  recorded,  \* "request" events in the journal, by class
  sent,      \* observation: requests that left, by class
  quiet,     \* observation: time since this process's last answer, and the
  owed,      \*   Retry-After of that answer
  since,     \* observation: time since the call was authenticated
  spurned,   \* observation: the API answered 401 to the token, and the body
             \*   of that answer was read, or could not be
  barred     \* observation: the budget refused a request made for cleanup

server == <<recorded, sent>>
processes == <<holder, saved, starts>>
client == <<counts, pause, cred>>
watch == <<quiet, owed, since, spurned, barred>>
vars == <<holder, saved, starts, counts, pause, cred, at, call, recorded,
          sent, quiet, owed, since, spurned, barred>>

\* The observed times are cut off where they no longer matter.
Longest == Wait + MaxRetry

\* token: the request at hand is the one for the call's token.
Call == [aim : Aim, phase : Phase, token : BOOLEAN]
NoCall == [aim |-> "experiment", phase |-> "probe", token |-> FALSE]

\* "gate" in dispatch, "pause" in its Sleep, "counted" journaled and not yet
\* sent, "out" on its way, "polling" between two polls.
Places == {"idle", "gate", "pause", "counted", "out", "polling"}

\* What the API has made of the token: nothing to its discredit, or a 401
\* whose body could not be read, or one that was read.
Spurned == {"no", "unread", "read"}

\* Nothing is measured yet, so nothing is owed.
NeverSince == Longest + 1

Init ==
  /\ holder \in Proc
  /\ saved = [p \in Proc |-> NoCounts]
  /\ starts = 1
  /\ counts = Zero /\ pause = 0 /\ cred = NoCred
  /\ at = "idle" /\ call = NoCall
  /\ recorded = Zero /\ sent = Zero
  /\ quiet = NeverSince /\ owed = 0 /\ since = 0
  /\ spurned = "no" /\ barred = FALSE

------------------------------------------------------------------------------
(* A call: Do and, after a 202, the polls of send *)

\* Deviation: a token request made for cleanup is charged like any other.
AuthPhaseCharged(phase) == "auth"
AuthPhase(phase) == IF phase = "cleanup" THEN "cleanup" ELSE "auth"

\* The phase the request at hand is counted under.
SentUnder == IF call.token THEN AuthPhase(call.phase) ELSE call.phase

\* Deviation: the token is used to its last moment.
UsableToTheEnd(c) == c # NoCred /\ c > 0
Usable(c) == c # NoCred /\ c > Buffer

\* applyAuth: the cached token, or a request for one.
Authenticate(aim, phase) ==
  /\ call' = [aim |-> aim, phase |-> phase, token |-> ~Usable(cred)]
  /\ at' = "gate"
  /\ since' = 0

Begin(aim) ==
  /\ holder # NoProc /\ at = "idle"
  /\ recorded["charged"] + recorded["cleanup"] + 2 <= MaxDispatches
  /\ Authenticate(aim, IF aim = "cleanup" THEN "cleanup" ELSE "probe")
  /\ UNCHANGED <<processes, client, server, quiet, owed, spurned, barred>>

Poll ==
  /\ at = "polling"
  /\ recorded["charged"] + recorded["cleanup"] + 2 <= MaxDispatches
  /\ Authenticate(call.aim, "poll")
  /\ UNCHANGED <<processes, client, server, quiet, owed, spurned, barred>>

\* The polling timeout, or an answer that ends the polling.
StopPolling ==
  /\ at = "polling"
  /\ at' = "idle"
  /\ UNCHANGED <<processes, client, call, server, watch>>

\* dispatch refuses with ErrBudget.  Deviation: it lets one more pass.
ExhaustedLate(phase) ==
  /\ phase # "cleanup"
  /\ MaxRequests[holder] > 0
  /\ counts["charged"] > MaxRequests[holder]
Exhausted(phase) ==
  /\ phase # "cleanup"
  /\ MaxRequests[holder] > 0
  /\ counts["charged"] >= MaxRequests[holder]

Refuse ==
  /\ at = "gate" /\ Exhausted(SentUnder)
  /\ at' = "idle"
  /\ barred' = (barred \/ call.aim = "cleanup")
  /\ UNCHANGED <<processes, client, call, server, quiet, owed, since, spurned>>

Admit ==
  /\ at = "gate" /\ ~Exhausted(SentUnder)
  /\ at' = "pause"
  /\ UNCHANGED <<processes, client, call, server, watch>>

\* Sleep returns the context's error: a deadline, or an interrupt.
Cancel ==
  /\ at = "pause"
  /\ at' = "idle"
  /\ UNCHANGED <<processes, client, call, server, watch>>

\* The request is counted and its event synced.
Count ==
  /\ at = "pause" /\ pause = 0
  /\ counts' = [counts EXCEPT ![ClassOf(SentUnder)] = @ + 1]
  /\ recorded' = [recorded EXCEPT ![ClassOf(SentUnder)] = @ + 1]
  /\ at' = "counted"
  /\ UNCHANGED <<processes, pause, cred, call, sent, watch>>

Leave ==
  /\ at = "counted"
  /\ at' = "out"
  /\ sent' = [sent EXCEPT ![ClassOf(SentUnder)] = @ + 1]
  /\ UNCHANGED <<processes, client, call, recorded, watch>>

------------------------------------------------------------------------------
(* The answer *)

\* The next slot, counted from the end of the body.  Deviation: a Retry-After
\* replaces the wait, however short it is.
NextSlotShort(retry) == IF retry > 0 THEN retry ELSE Wait
NextSlot(retry) == IF retry > Wait THEN retry ELSE Wait

Answered(retry) ==
  /\ at = "out"
  /\ pause' = NextSlot(retry)
  /\ quiet' = 0 /\ owed' = retry
  /\ UNCHANGED <<processes, counts, server>>

\* No answer: an error, for a token request too.
Lost ==
  /\ Answered(0)
  /\ at' = "idle"
  /\ UNCHANGED <<cred, call, since, spurned, barred>>

\* An answer whose body cannot be read is an error as well, but its Retry-After
\* counts.  Do leaves with it before it looks at the status: a 401 to the
\* call's own request drops no credential.
Unread(retry) ==
  /\ Answered(retry)
  /\ at' = "idle"
  /\ \/ UNCHANGED spurned
     \/ ~call.token /\ spurned' = "unread"
  /\ UNCHANGED <<cred, call, since, barred>>

\* The token endpoint grants a token: the call goes on to its own dispatch.
Grant(retry) ==
  /\ call.token
  /\ Answered(retry)
  /\ cred' = Lifetime
  /\ call' = [call EXCEPT !.token = FALSE]
  /\ at' = "gate"
  /\ since' = 0 /\ spurned' = "no"
  /\ UNCHANGED barred

\* It does not: Do ends with an authentication error.
Withhold(retry) ==
  /\ call.token
  /\ Answered(retry)
  /\ at' = "idle"
  /\ UNCHANGED <<cred, call, since, spurned, barred>>

\* Any answer but 202 to the call's own request, or a last one to a poll.
Settle(retry) ==
  /\ ~call.token
  /\ Answered(retry)
  /\ at' = "idle"
  /\ UNCHANGED <<cred, call, since, spurned, barred>>

\* 202, or the job goes on, and the operation has a poll hint.
Pending(retry) ==
  /\ ~call.token
  /\ call.aim = "cleanup" => PolledCleanup
  /\ Answered(retry)
  /\ at' = "polling"
  /\ UNCHANGED <<cred, call, since, spurned, barred>>

\* 401 drops every cached credential.  Deviation: they stay.
InvalidateNothing(c) == c
Invalidate(c) == NoCred

Deny(retry) ==
  /\ ~call.token
  /\ Answered(retry)
  /\ cred' = Invalidate(cred)
  /\ spurned' = "read"
  /\ at' = "idle"
  /\ UNCHANGED <<call, since, barred>>

------------------------------------------------------------------------------
(* Time, and processes *)

\* Time passes while the process sleeps or waits for an answer, and between
\* calls; authentication, budget and count follow each other at once.
Tick ==
  /\ at \in {"idle", "pause", "out", "polling"}
  /\ pause' = IF pause = 0 THEN 0 ELSE pause - 1
  /\ cred' = IF cred \in {NoCred, 0} THEN cred ELSE cred - 1
  /\ quiet' = IF quiet > Longest THEN quiet ELSE quiet + 1
  /\ since' = IF since > Buffer THEN since ELSE since + 1
  /\ UNCHANGED <<processes, counts, at, call, server, owed, spurned, barred>>

\* Load reads the journal, without the lock.
Load(p) ==
  /\ saved[p] = NoCounts /\ holder # p
  /\ Overlap \/ (holder = NoProc /\ \A q \in Proc : saved[q] = NoCounts)
  /\ starts < MaxStarts
  /\ saved' = [saved EXCEPT ![p] = recorded]
  /\ UNCHANGED <<holder, starts, client, at, call, server, watch>>

\* Resume opens the journal, with a client of its own, and restores what Load
\* counted.  Deviation: the client starts from nothing.
RestoreNothing(c) == Zero
RestoreCounts(c) == c

Open(p) ==
  /\ holder = NoProc /\ saved[p] # NoCounts
  /\ starts < MaxStarts
  /\ holder' = p
  /\ starts' = starts + 1
  /\ counts' = RestoreCounts(saved[p])
  /\ saved' = [saved EXCEPT ![p] = NoCounts]
  /\ pause' = 0 /\ cred' = NoCred
  /\ quiet' = NeverSince /\ owed' = 0 /\ spurned' = "no"
  /\ UNCHANGED <<at, call, server, since, barred>>

\* The journal is locked, the configuration is refused, or the process dies.
GiveUp(p) ==
  /\ saved[p] # NoCounts
  /\ saved' = [saved EXCEPT ![p] = NoCounts]
  /\ UNCHANGED <<holder, starts, client, at, call, server, watch>>

\* The process ends, or dies at any point of a call.
End ==
  /\ holder # NoProc
  /\ holder' = NoProc
  /\ at' = "idle" /\ call' = NoCall
  /\ UNCHANGED <<saved, starts, client, server, watch>>

Next ==
  \/ \E aim \in Aim : Begin(aim)
  \/ Poll \/ StopPolling
  \/ Refuse \/ Admit \/ Cancel \/ Count \/ Leave
  \/ Lost
  \/ \E retry \in 0 .. MaxRetry :
       \/ Unread(retry) \/ Grant(retry) \/ Withhold(retry)
       \/ Settle(retry) \/ Pending(retry) \/ Deny(retry)
  \/ Tick
  \/ \E p \in Proc : Load(p) \/ Open(p) \/ GiveUp(p)
  \/ End

Spec == Init /\ [][Next]_vars

------------------------------------------------------------------------------
(* Properties *)

TypeOK ==
  /\ holder \in Proc \cup {NoProc}
  /\ saved \in [Proc -> Counts \cup {NoCounts}]
  /\ starts \in Nat
  /\ counts \in Counts /\ recorded \in Counts /\ sent \in Counts
  /\ pause \in Nat /\ cred \in 0 .. Lifetime \cup {NoCred}
  /\ at \in Places /\ call \in Call
  /\ quiet \in Nat /\ owed \in 0 .. MaxRetry /\ since \in Nat
  /\ spurned \in Spurned /\ barred \in BOOLEAN
  /\ holder = NoProc => at = "idle"

\* The request budget holds for the run, over every process that took part in
\* it: no request but a cleanup request leaves once as many have left as the
\* process that sends it allows (dispatch, RestoreCounts, Load).
BudgetKept ==
  [][sent'["charged"] > sent["charged"] =>
       \/ MaxRequests[holder] = 0
       \/ sent["charged"] < MaxRequests[holder]]_vars

\* A request that left is in the journal, whenever the process died: the next
\* process counts at least what was sent.
CountedFirst == \A c \in Class : sent[c] <= recorded[c]

\* Cleanup has its own allowance: the budget never refuses a request made on its
\* behalf, its token requests and its polls included.
CleanupUnimpeded == ~barred

\* A process sends nothing before its slot: the wait after its last answer and
\* that answer's Retry-After are over, whichever request the answer was to.
Paced ==
  [][sent' # sent => quiet >= Wait /\ quiet >= owed]_vars

\* The request at hand leaves with a token.
Carries == ~call.token /\ at = "counted" /\ at' = "out"

\* A call that waited no longer than the refresh buffer between authentication
\* and departure leaves with a token that has not expired.
BufferSuffices ==
  [][Carries /\ since <= Buffer /\ Lifetime > Buffer => cred > 0]_vars

\* A token the API answered 401 to is not presented again by that process, but
\* where the body of that answer could not be read: then the error hides the
\* status, the token stays cached and the next call leaves with it.
RefusedTokenDropped == [][Carries => spurned # "read"]_vars

------------------------------------------------------------------------------
(* What these rest on *)

\* The journal is ahead of the network, by one where a request is counted.
Behind ==
  \A c \in Class :
    sent[c] + (IF at = "counted" /\ ClassOf(SentUnder) = c THEN 1 ELSE 0)
      <= recorded[c]

\* Unless Load overlaps with a holder, memory and journal agree.
InStep ==
  ~Overlap =>
    /\ holder # NoProc => counts = recorded
    /\ \A p \in Proc :
         saved[p] # NoCounts => holder = NoProc /\ saved[p] = recorded
    /\ \A p, q \in Proc :
         saved[p] # NoCounts /\ saved[q] # NoCounts => p = q

\* A request past the budget check has room, until it is counted.
Within ==
  ClassOf(SentUnder) = "charged" /\ holder # NoProc =>
    \/ MaxRequests[holder] = 0
    \/ /\ at = "pause" => counts["charged"] < MaxRequests[holder]
       /\ at = "counted" => counts["charged"] <= MaxRequests[holder]

\* Without polls, a call made for cleanup is counted as one.
OwnAllowance ==
  ~PolledCleanup =>
    /\ ~barred
    /\ at # "idle" /\ call.aim = "cleanup" =>
         call.phase = "cleanup" /\ at # "polling"

\* A call on its way out has the token it was authenticated with, and a token
\* that was refused in an answer that was read is gone.
Authentic ==
  /\ spurned = "read" => cred = NoCred
  /\ at \in {"gate", "pause", "counted"} /\ ~call.token =>
       /\ cred # NoCred
       /\ since <= Buffer /\ Lifetime > Buffer => cred + since > Buffer

\* What is left of the pause makes up for what is missing of the rest.
Rested ==
  /\ pause + quiet >= Wait /\ pause + quiet >= owed
  /\ at = "counted" => pause = 0

\* The inductive invariant of module DispatchProofs.
IInv ==
  TypeOK /\ Behind /\ InStep /\ Within /\ OwnAllowance /\ Authentic /\ Rested
==============================================================================
