------------------------------- MODULE EventLog -------------------------------
(***************************************************************************)
(* What a durable, single-writer, append-only log promises.  "log" is what *)
(* a reader finds; its first "acked" events were acknowledged to the       *)
(* writer.  Events are added one at a time at the end, and only events     *)
(* that were never acknowledged may be lost, from the end backwards.       *)
(***************************************************************************)
EXTENDS Naturals, Sequences

CONSTANT Event

VARIABLES log, acked

vars == <<log, acked>>

Init == log = << >> /\ acked = 0

Add(e) ==
  /\ log' = Append(log, e)
  /\ UNCHANGED acked

Acknowledge ==
  /\ acked' = Len(log)
  /\ UNCHANGED log

Lose ==
  /\ \E n \in acked .. Len(log) : log' = SubSeq(log, 1, n)
  /\ UNCHANGED acked

Next == (\E e \in Event : Add(e)) \/ Acknowledge \/ Lose

Spec == Init /\ [][Next]_vars
==============================================================================
