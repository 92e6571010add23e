------------------------------ MODULE JournalInv ------------------------------
(***************************************************************************)
(* The inductive invariant of Journal: what the file holds while no I/O    *)
(* error has happened, and what it goes on holding of the events that were *)
(* acknowledged until then.                                                *)
(***************************************************************************)
EXTENDS Journal

\* The complete lines of a file that only its last chunk may leave incomplete.
Lines(f) ==
  IF f = << >> \/ f[Len(f)].cut = "line" THEN Len(f) ELSE Len(f) - 1

\* The first n chunks of f are lines, numbered and chained.
Chained(f, n) ==
  /\ n <= Len(f)
  /\ \A i \in 1 .. n :
       /\ f[i].cut = "line" /\ f[i].seq = i
       /\ f[i].prev = IF i = 1 THEN Genesis ELSE f[i - 1].ev

\* Only the holder of the lock has the journal open.
Exclusive == \A p \in Proc : mode[p] # "closed" => owner = p

\* Chunks and numbers come from writes.
Counted ==
  /\ Len(file) <= count
  /\ \A p \in Proc :
       /\ seq[p] <= count
       /\ mode[p] = "written" => seq[p] < count /\ file # << >>

\* Before the first I/O error the file is one chain with at most a cut tail,
\* and none under a writer, who stands at its end.
ErrorFree ==
  faults = 0 =>
    /\ Chained(file, Lines(file)) /\ acked = clean
    /\ \A p \in Proc :
         /\ mode[p] # "closed" => Lines(file) = Len(file)
         /\ mode[p] = "open" =>
              /\ seq[p] = Len(file)
              /\ last[p] = IF file = << >> THEN Genesis
                           ELSE file[Len(file)].ev
         /\ mode[p] = "written" => seq[p] = Len(file) - 1

\* What was acknowledged until then is synced, on an unbroken chain.
CleanHeld ==
  \A a \in clean :
    a[1] <= synced /\ Chained(file, a[1]) /\ file[a[1]].ev = a[2]

Kept == Exclusive /\ Counted /\ ErrorFree /\ CleanHeld

JInv == Inv /\ Kept
==============================================================================
