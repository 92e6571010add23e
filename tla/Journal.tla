------------------------------- MODULE Journal -------------------------------
(***************************************************************************)
(* The run journal of internal/journal/journal.go: a file of JSON lines,   *)
(* hash-chained and numbered, written by whoever holds the lock of the     *)
(* file, synced line by line and read, locked or not, up to its last       *)
(* newline.  Processes end at any point, writes and syncs fail, and the    *)
(* machine may lose what was not synced.                                   *)
(*                                                                         *)
(* An event is identified by the number of the write that produced it,     *)
(* which stands for its hash: hashes cover the time of the event, so no    *)
(* two are alike.                                                          *)
(***************************************************************************)
EXTENDS Naturals, FiniteSetsExt, SequencesExt

CONSTANTS
  Proc,       \* processes that open the run directory
  NoProc,
  MaxEvents,  \* bound: writes
  MaxFaults,  \* bound: failed writes and syncs
  MaxLosses   \* bound: power losses

ASSUME NoProcAssumption == NoProc \notin Proc
ASSUME BoundsAssumption ==
  MaxEvents \in Nat /\ MaxFaults \in Nat /\ MaxLosses \in Nat

Event == 1 .. MaxEvents
Genesis == 0    \* the hash before the first event, ""

\* What one write left in the file: all of its line, the line without the
\* newline, or less.
Cut == {"line", "whole", "torn"}
Chunk == [ev : Event, seq : Event, prev : Event \cup {Genesis}, cut : Cut]

VARIABLES
  file,     \* what the file holds, as the chunks written
  synced,   \* chunks that survive a loss of power
  owner,    \* holder of the lock
  mode,     \* [Proc -> "closed", "open", or "written" between write and sync]
  seq,      \* [Proc -> Journal.seq]
  last,     \* [Proc -> Journal.last]
  acked,    \* <<seq, ev>> of the events Append returned nil for
  clean,    \* those of them before the first I/O error
  count, faults, losses

vars == <<file, synced, owner, mode, seq, last, acked, clean, count, faults,
          losses>>

Init ==
  /\ file = << >> /\ synced = 0
  /\ owner = NoProc
  /\ mode = [p \in Proc |-> "closed"]
  /\ seq = [p \in Proc |-> 0] /\ last = [p \in Proc |-> Genesis]
  /\ acked = {} /\ clean = {}
  /\ count = 0 /\ faults = 0 /\ losses = 0

------------------------------------------------------------------------------
(* read: split at newlines, decode the first JSON value of every line *)

Ends(f) == {i \in DOMAIN f : f[i].cut = "line"}

\* Chunks that begin a line.  What follows the last newline is not read.
Begins(f) ==
  {i \in DOMAIN f : /\ \E e \in Ends(f) : i <= e
                    /\ i = 1 \/ i - 1 \in Ends(f)}

\* The lines of f as decoded: a chunk without its newline hides the chunks up
\* to the next newline, and a torn one makes its line undecodable.
Decoded(f) ==
  LET b == Begins(f)
      nth(n) == CHOOSE i \in b : Cardinality({j \in b : j <= i}) = n
  IN [n \in 1 .. Cardinality(b) |-> f[nth(n)]]

Intact(d) ==
  \A n \in DOMAIN d :
    /\ d[n].cut # "torn"
    /\ d[n].seq = n
    /\ d[n].prev = IF n = 1 THEN Genesis ELSE d[n - 1].ev

Events(d) == [n \in DOMAIN d |-> d[n].ev]
Numbered(d) == {<<n, d[n].ev>> : n \in DOMAIN d}

\* Read, with or without the lock: all events, or an error.
Readable == Intact(Decoded(file))
ReadBack == IF Readable THEN Numbered(Decoded(file)) ELSE {}

------------------------------------------------------------------------------
(* Open takes the lock, reads, and truncates what follows the last newline *)

\* Deviation: the lock is not exclusive.
LockableAlways == TRUE
Lockable == owner = NoProc

\* Deviation: the last complete line goes with the tail.
LastNewlineBefore(f) == Max({0} \cup (Ends(f) \ {Max({0} \cup Ends(f))}))
LastNewline(f) == Max({0} \cup Ends(f))

Open(p) ==
  /\ mode[p] = "closed" /\ Lockable
  /\ Readable
  /\ LET d == Decoded(file)
         end == LastNewline(file)
     IN /\ file' = SubSeq(file, 1, end)
        /\ synced' = Min({synced, end})
        /\ seq' = [seq EXCEPT ![p] = Len(d)]
        /\ last' = [last EXCEPT ![p] = IF d = << >> THEN Genesis
                                       ELSE d[Len(d)].ev]
  /\ owner' = p
  /\ mode' = [mode EXCEPT ![p] = "open"]
  /\ UNCHANGED <<acked, clean, count, faults, losses>>

\* Close, or the end of the process: the lock goes with the file.
Leave(p) ==
  /\ mode[p] # "closed"
  /\ mode' = [mode EXCEPT ![p] = "closed"]
  /\ owner' = IF owner = p THEN NoProc ELSE owner
  /\ UNCHANGED <<file, synced, seq, last, acked, clean, count, faults, losses>>

------------------------------------------------------------------------------
(* Append: write the line, sync, and only then advance *)

Line(p, cut) == [ev |-> count + 1, seq |-> seq[p] + 1, prev |-> last[p],
                 cut |-> cut]

Write(p) ==
  /\ mode[p] = "open" /\ count < MaxEvents
  /\ file' = Append(file, Line(p, "line"))
  /\ count' = count + 1
  /\ mode' = [mode EXCEPT ![p] = "written"]
  /\ UNCHANGED <<synced, owner, seq, last, acked, clean, faults, losses>>

\* Append returns the error; the file keeps what was written of the line.
WriteFails(p) ==
  /\ mode[p] = "open" /\ count < MaxEvents /\ faults < MaxFaults
  /\ \E cut \in {"none", "torn", "whole"} :
       file' = IF cut = "none" THEN file ELSE Append(file, Line(p, cut))
  /\ count' = count + 1
  /\ faults' = faults + 1
  /\ UNCHANGED <<synced, owner, mode, seq, last, acked, clean, losses>>

\* Deviation: Append acknowledges without a sync.
SyncOmitted(p) ==
  /\ mode[p] = "written"
  /\ seq' = [seq EXCEPT ![p] = @ + 1]
  /\ last' = [last EXCEPT ![p] = file[Len(file)].ev]
  /\ acked' = acked \cup {<<seq[p] + 1, file[Len(file)].ev>>}
  /\ clean' = IF faults = 0 THEN acked' ELSE clean
  /\ mode' = [mode EXCEPT ![p] = "open"]
  /\ UNCHANGED <<file, synced, owner, count, faults, losses>>

Sync(p) ==
  /\ mode[p] = "written"
  /\ synced' = Len(file)
  /\ seq' = [seq EXCEPT ![p] = @ + 1]
  /\ last' = [last EXCEPT ![p] = file[Len(file)].ev]
  /\ acked' = acked \cup {<<seq[p] + 1, file[Len(file)].ev>>}
  /\ clean' = IF faults = 0 THEN acked' ELSE clean
  /\ mode' = [mode EXCEPT ![p] = "open"]
  /\ UNCHANGED <<file, owner, count, faults, losses>>

SyncFails(p) ==
  /\ mode[p] = "written" /\ faults < MaxFaults
  /\ faults' = faults + 1
  /\ mode' = [mode EXCEPT ![p] = "open"]
  /\ UNCHANGED <<file, synced, owner, seq, last, acked, clean, count, losses>>

\* The machine stops: a beginning of the file survives, cut anywhere after
\* what was synced.
PowerLoss ==
  /\ losses < MaxLosses
  /\ losses' = losses + 1
  /\ \E n \in synced .. Len(file) :
       \/ file' = SubSeq(file, 1, n)
       \/ /\ n > synced
          /\ \E cut \in {"torn", "whole"} :
               /\ file[n].cut = "torn" => cut = "torn"
               /\ file' = [SubSeq(file, 1, n) EXCEPT ![n].cut = cut]
  /\ synced' = Len(file')
  /\ owner' = NoProc
  /\ mode' = [p \in Proc |-> "closed"]
  /\ UNCHANGED <<seq, last, acked, clean, count, faults>>

Next ==
  \/ \E p \in Proc : \/ Open(p) \/ Leave(p) \/ Write(p) \/ WriteFails(p)
                     \/ Sync(p) \/ SyncFails(p)
  \/ PowerLoss

Spec == Init /\ [][Next]_vars

------------------------------------------------------------------------------
(* Properties *)

\* The shape of the state.
TypeOK ==
  /\ file \in Seq(Chunk) /\ synced \in 0 .. Len(file)
  /\ owner \in Proc \cup {NoProc}
  /\ mode \in [Proc -> {"closed", "open", "written"}]
  /\ seq \in [Proc -> Nat] /\ last \in [Proc -> Event \cup {Genesis}]
  /\ acked \subseteq Event \X Event /\ clean \subseteq acked
  /\ count \in 0 .. MaxEvents
  /\ faults \in 0 .. MaxFaults /\ losses \in 0 .. MaxLosses

\* However processes and the machine end, and whoever reads while another
\* writes, an event Append acknowledged is read back, at its place.
Durable == acked \subseteq ReadBack

\* A journal that has met no I/O error can be read at every moment, by readers
\* that do not take the lock too.
AlwaysReadable == faults = 0 => Readable

\* Events acknowledged before the first I/O error stay where they are, whatever
\* is written over the error: the beginning of the file that holds them reads.
CleanKept ==
  LET d == Decoded(file)
      n == Max({0} \cup {a[1] : a \in clean})
  IN clean \subseteq Numbered(d) /\ Intact(SubSeq(d, 1, n))

\* The writer continues the chain it can read: its number and hash are those of
\* the last event in the file.
WriterAtEnd ==
  \A p \in Proc : mode[p] = "open" /\ faults = 0 =>
    LET d == Decoded(file)
    IN /\ seq[p] = Len(d)
       /\ last[p] = IF d = << >> THEN Genesis ELSE d[Len(d)].ev

\* Both, of a state of its shape.
Inv == TypeOK /\ AlwaysReadable /\ WriterAtEnd

\* Up to the first I/O error the file is the log of module EventLog: what
\* processes, power losses and readers see of it is that log.
L == INSTANCE EventLog WITH log <- Events(Decoded(file)),
                            acked <- Max({0} \cup {a[1] : a \in acked})
ImplementsEventLog == L!Init /\ [][faults' = 0 => [L!Next]_(L!vars)]_vars
==============================================================================
