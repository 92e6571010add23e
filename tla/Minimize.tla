------------------------------ MODULE Minimize ------------------------------
(***************************************************************************)
(* Delta debugging of a rejected request (generate.Minimize): which of the *)
(* fields that differ from the accepted baseline are needed for the        *)
(* rejection.  A request is the set of fields that keep their failing      *)
(* value; the others have the baseline's.                                  *)
(*                                                                         *)
(* The API answers each request once and for all, in any way at all.  A    *)
(* request may also end the minimisation: it is refused, fails, or stays   *)
(* unclassified.                                                           *)
(***************************************************************************)
EXTENDS Integers, FiniteSets, Sequences, SequencesExt

CONSTANT Changed   \* the fields that differ, in order

(* The fields are listed once; instances assume it. *)
Assumption == Changed \in Seq(ToSet(Changed)) /\ IsInjective(Changed)

VARIABLES
    changed,       \* fields of the current failure, in order
    granularity,
    start,         \* first field of the chunk to be removed next
    rejects,       \* requests classified so far: [request -> rejected?]
    state          \* "running", "done" or "error"

vars == <<changed, granularity, start, rejects, state>>

Fields == ToSet(Changed)
Smaller(n, m) == IF n < m THEN n ELSE m

Init ==
    /\ changed = Changed /\ granularity = 2 /\ start = 1
    /\ rejects = [x \in {Fields, {}} |-> x = Fields]
    /\ state = "running"

(* Fields are removed in chunks of equal size. *)
Capped == Smaller(granularity, Len(changed))
size == (Len(changed) + Capped - 1) \div Capped
ChunkEnd == Smaller(start + size - 1, Len(changed))
Without == SubSeq(changed, 1, start - 1) \o SubSeq(changed, ChunkEnd + 1, Len(changed))

(* The answers rejects may give for a request: one it gave, it gives again. *)
Answers(x) == IF x \in DOMAIN rejects THEN {rejects[x]} ELSE BOOLEAN
Answered(x, r) ==
    [y \in DOMAIN rejects \cup {x} |-> IF y = x THEN r ELSE rejects[y]]

Trying == state = "running" /\ start <= Len(changed)

(* Still rejected without the chunk: it is dropped, and a new round begins. *)
Reduce ==
    /\ Trying
    /\ \E r \in {r \in Answers(ToSet(Without)) : r} :
          rejects' = Answered(ToSet(Without), r)
    /\ changed' = Without
    /\ granularity' = IF Capped > 2 THEN Capped - 1 ELSE Capped
    /\ start' = 1
    /\ UNCHANGED state

(* Accepted without it: the next chunk is tried. *)
Keep ==
    /\ Trying
    /\ \E r \in {r \in Answers(ToSet(Without)) : ~r} :
          rejects' = Answered(ToSet(Without), r)
    /\ granularity' = Capped
    /\ start' = start + size
    /\ UNCHANGED <<changed, state>>

(* Deviation: a round of pairs is taken for a round of single fields. *)
RefineEarly ==
    /\ state = "running" /\ start > Len(changed)
    /\ IF 2 * granularity >= Len(changed)
       THEN state' = "done" /\ UNCHANGED <<granularity, start>>
       ELSE granularity' = 2 * granularity /\ start' = 1 /\ UNCHANGED state
    /\ UNCHANGED <<changed, rejects>>

(* No chunk of the round could go: smaller chunks, down to single fields. *)
Refine ==
    /\ state = "running" /\ start > Len(changed)
    /\ IF granularity >= Len(changed)
       THEN state' = "done" /\ UNCHANGED <<granularity, start>>
       ELSE granularity' = 2 * granularity /\ start' = 1 /\ UNCHANGED state
    /\ UNCHANGED <<changed, rejects>>

Fail ==
    /\ Trying
    /\ state' = "error"
    /\ UNCHANGED <<changed, granularity, start, rejects>>

Step == Reduce \/ Keep \/ Refine
Next == Step \/ Fail
Spec == Init /\ [][Next]_vars /\ WF_vars(Step)

-----------------------------------------------------------------------------
(* What is reported was seen to be rejected, also when an error ends the   *)
(* search early.                                                           *)
StillRejected ==
    ToSet(changed) \in DOMAIN rejects /\ rejects[ToSet(changed)]

NotSpared(f) ==
    LET x == ToSet(changed) \ {f}
    IN  x \in DOMAIN rejects /\ ~rejects[x]

(* A finished result is 1-minimal: each single field was put back to its   *)
(* baseline value and the request was seen to be accepted.                 *)
OneMinimal ==
    state = "done" =>
        \A f \in ToSet(changed) : NotSpared(f)

(* Rejected all the same, and with nothing to spare. *)
RejectionIsMinimal == StillRejected /\ OneMinimal

(* What makes them inductive: in a round of single fields, those before the *)
(* next were tried, and cannot be spared.                                   *)
Shape ==
    /\ changed \in Seq(Fields) /\ IsInjective(changed)
    /\ granularity \in Nat \ {0} /\ start \in Nat \ {0}
    /\ rejects \in [DOMAIN rejects -> BOOLEAN]

SinglesTried ==
    /\ granularity >= Len(changed) =>
          \A i \in 1 .. Len(changed) : i < start => NotSpared(changed[i])
    /\ state = "done" => granularity >= Len(changed) /\ start > Len(changed)

MInv == Shape /\ StillRejected /\ SinglesTried

(* Every answer brings the end nearer: fewer fields; or the same fields in *)
(* smaller chunks, down to single ones; or the next chunk of the round.    *)
Advances ==
    \/ state' # "running"
    \/ Len(changed') < Len(changed)
    \/ /\ changed' = changed
       /\ \/ Capped < Capped'
          \/ Capped' = Capped /\ start <= Len(changed) /\ start < start'

(* Minimisation ends after finitely many requests. *)
Ends == <>(state # "running")
=============================================================================
