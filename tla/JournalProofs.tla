----------------------------- MODULE JournalProofs -----------------------------
(***************************************************************************)
(* JInv of module JournalInv is an inductive invariant of Journal, for any *)
(* processes, writes, I/O errors and power losses; from it follow that what*)
(* was acknowledged before the first I/O error stays readable, and that    *)
(* the file is the log of module EventLog until then.                      *)
(***************************************************************************)
EXTENDS JournalInv, FiniteSetTheorems, WellFoundedInduction, TLAPS

(* Greatest elements *)

\* Every set of naturals that is not empty has a least element.
LEMMA Least ==
  ASSUME NEW S \in SUBSET Nat, S # {}
  PROVE  \E x \in S : \A y \in S : x <= y
<1> DEFINE R == OpToRel(<, Nat)
<1>1. IsWellFoundedOn(R, Nat)
  BY NatLessThanWellFounded
<1>2. \A x, y \in Nat : x < y => <<x, y>> \in R
  BY DEF OpToRel
<1> HIDE DEF R
<1>3. PICK x \in S : \A y \in S : ~(<<y, x>> \in R)
  BY <1>1, WFMin
<1>4. ASSUME NEW y \in S PROVE x <= y
  <2>1. x \in Nat /\ y \in Nat
    OBVIOUS
  <2>2. ~(y < x)
    BY <1>2, <1>3, <2>1
  <2> QED  BY <2>1, <2>2
<1> QED  BY <1>4

\* Every bounded one has a greatest, which is what Max chooses.
LEMMA Greatest ==
  ASSUME NEW n \in Nat, NEW S \in SUBSET (0 .. n), S # {}
  PROVE  Max(S) \in S /\ \A y \in S : y <= Max(S)
<1> DEFINE T == {m \in Nat : \E x \in S : m + x = n}
<1>1. PICK s \in S : TRUE
  OBVIOUS
<1>2. T \in SUBSET Nat /\ n - s \in T
  BY <1>1
<1>3. PICK m \in T : \A y \in T : m <= y
  BY <1>2, Least
<1>4. PICK x \in S : m + x = n
  BY <1>3
<1>5. ASSUME NEW y \in S PROVE x >= y
  <2>1. n - y \in T
    OBVIOUS
  <2> QED  BY <1>3, <1>4, <2>1
<1>6. Max(S) \in S /\ \A y \in S : Max(S) >= y
  BY <1>5 DEF Max
<1> QED  BY <1>6

\* The smaller of two numbers.
LEMMA Smaller ==
  ASSUME NEW a \in Nat, NEW b \in Nat
  PROVE  Min({a, b}) = IF a <= b THEN a ELSE b
<1> DEFINE m == IF a <= b THEN a ELSE b
<1>1. m \in {a, b} /\ \A y \in {a, b} : m <= y
  OBVIOUS
<1>2. \A x \in {a, b} : (\A y \in {a, b} : x <= y) => x = m
  OBVIOUS
<1> QED  BY <1>1, <1>2 DEF Min

------------------------------------------------------------------------------
(* What a reader makes of a file *)

\* The numbers up to n are n.
LEMMA Counting ==
  ASSUME NEW n \in Nat
  PROVE  IsFiniteSet(1 .. n) /\ Cardinality(1 .. n) = n
<1>1. /\ IsFiniteSet(1 .. n)
      /\ Cardinality(1 .. n) = IF 1 > n THEN 0 ELSE n - 1 + 1
  BY FS_Interval
<1> QED  BY <1>1

\* The lines of a file are finitely many.
LEMMA BeginsFinite ==
  ASSUME NEW f \in Seq(Chunk)
  PROVE  /\ Begins(f) \subseteq 1 .. Len(f) /\ IsFiniteSet(Begins(f))
         /\ Cardinality(Begins(f)) \in 0 .. Len(f)
<1>1. Begins(f) \subseteq 1 .. Len(f)
  BY DEF Begins
<1>2. IsFiniteSet(1 .. Len(f)) /\ Cardinality(1 .. Len(f)) = Len(f)
  BY Counting
<1>3. /\ IsFiniteSet(Begins(f))
      /\ Cardinality(Begins(f)) <= Cardinality(1 .. Len(f))
  BY <1>1, <1>2, FS_Subset
<1> QED  BY <1>1, <1>2, <1>3, FS_CardinalityType

\* The chunks at the beginning of a file that are lines are read as they are.
LEMMA DecodedPrefix ==
  ASSUME NEW f \in Seq(Chunk), NEW m \in 0 .. Len(f),
         \A i \in 1 .. m : f[i].cut = "line"
  PROVE  /\ m <= Cardinality(Begins(f)) /\ m <= Len(Decoded(f))
         /\ Len(Decoded(f)) = Cardinality(Begins(f))
         /\ DOMAIN Decoded(f) = 1 .. Cardinality(Begins(f))
         /\ \A n \in 1 .. m : Decoded(f)[n] = f[n]
<1> DEFINE b == Begins(f)
<1> DEFINE upto(i) == {j \in b : j <= i}
<1> DEFINE nth(n) == CHOOSE i \in b : Cardinality(upto(i)) = n
<1>1. 1 .. m \subseteq b
  <2> SUFFICES ASSUME NEW i \in 1 .. m PROVE i \in b
    OBVIOUS
  <2>1. i \in Ends(f)
    BY DEF Ends
  <2>2. i = 1 \/ i - 1 \in Ends(f)
    BY DEF Ends
  <2> QED  BY <2>1, <2>2 DEF Begins
<1>2. /\ b \subseteq 1 .. Len(f) /\ IsFiniteSet(b)
      /\ Cardinality(b) \in Nat
  BY BeginsFinite
<1>3. IsFiniteSet(1 .. m) /\ Cardinality(1 .. m) = m
  BY Counting
<1>4. m <= Cardinality(b)
  BY <1>1, <1>2, <1>3, FS_Subset
<1> HIDE DEF b
<1>5. ASSUME NEW i \in 1 .. m PROVE Cardinality(upto(i)) = i
  <2>1. i \in Nat /\ 1 .. i \subseteq 1 .. m
    OBVIOUS
  <2>2. 1 .. i \subseteq upto(i)
    BY <1>1, <2>1
  <2>3. upto(i) \subseteq 1 .. i
    <3>1. ASSUME NEW j \in b, j <= i PROVE j \in 1 .. i
      <4>1. j \in Nat /\ j >= 1
        BY <1>2
      <4> QED  BY <2>1, <3>1, <4>1
    <3> QED  BY <3>1
  <2>4. upto(i) = 1 .. i
    BY <2>2, <2>3
  <2> QED  BY <2>1, <2>4, Counting
<1>6. ASSUME NEW i \in b, i > m PROVE Cardinality(upto(i)) > m
  <2> DEFINE S == (1 .. m) \cup {i}
  <2>1. IsFiniteSet(S) /\ Cardinality(S) = m + 1
    <3>1. i \notin 1 .. m
      BY <1>2, <1>6
    <3> QED  BY <1>3, <3>1, FS_AddElement
  <2>2. S \subseteq upto(i)
    BY <1>1, <1>2, <1>6
  <2>3. IsFiniteSet(upto(i))
    BY <1>2, FS_Subset
  <2>4. Cardinality(S) <= Cardinality(upto(i)) /\ Cardinality(upto(i)) \in Nat
    BY <2>2, <2>3, FS_Subset, FS_CardinalityType
  <2> QED  BY <2>1, <2>4
<1>7. ASSUME NEW n \in 1 .. m PROVE nth(n) = n
  <2>1. n \in b /\ Cardinality(upto(n)) = n
    BY <1>1, <1>5
  <2>2. ASSUME NEW i \in b, Cardinality(upto(i)) = n PROVE i = n
    BY <1>2, <1>5, <1>6, <2>2
  <2> QED  BY <2>1, <2>2
<1>8. Decoded(f) = [n \in 1 .. Cardinality(b) |-> f[nth(n)]]
  BY DEF Decoded, b
<1> HIDE DEF nth
<1>9. \A n \in 1 .. m : Decoded(f)[n] = f[n]
  BY <1>2, <1>4, <1>7, <1>8
<1>10. Len(Decoded(f)) = Cardinality(b)
  BY <1>2, <1>8
<1> QED  BY <1>2, <1>4, <1>8, <1>9, <1>10 DEF b

\* The last line a reader finds is a chunk of the file.
LEMMA DecodedLast ==
  ASSUME NEW f \in Seq(Chunk)
  PROVE  /\ Len(Decoded(f)) = Cardinality(Begins(f))
         /\ Decoded(f) = << >> <=> Len(Decoded(f)) = 0
         /\ Decoded(f) # << >> => Decoded(f)[Len(Decoded(f))] \in Chunk
<1> DEFINE b == Begins(f)
<1> DEFINE nth(n) == CHOOSE i \in b : Cardinality({j \in b : j <= i}) = n
<1>1. /\ b \subseteq 1 .. Len(f) /\ IsFiniteSet(b) /\ Cardinality(b) \in Nat
      /\ b \in SUBSET (0 .. Len(f)) /\ Len(f) \in Nat
  BY BeginsFinite
<1>2. Decoded(f) = [n \in 1 .. Cardinality(b) |-> f[nth(n)]]
  BY DEF Decoded
<1> HIDE DEF b
<1>3. ASSUME Cardinality(b) # 0 PROVE f[nth(Cardinality(b))] \in Chunk
  <2>1. b # {}
    BY <1>3, FS_EmptySet
  <2>2. Max(b) \in b /\ \A y \in b : y <= Max(b)
    BY <1>1, <2>1, Greatest
  <2>3. {j \in b : j <= Max(b)} = b
    BY <2>2
  <2>4. \E i \in b : i = nth(Cardinality(b))
    BY <2>2, <2>3
  <2> HIDE DEF nth
  <2> QED  BY <1>1, <2>4
<1> HIDE DEF nth
<1> QED  BY <1>1, <1>2, <1>3 DEF b

\* A chained file is read as it is, up to a cut tail.
LEMMA DecodedChain ==
  ASSUME NEW f \in Seq(Chunk), Chained(f, Lines(f))
  PROVE  /\ Lines(f) \in Nat /\ Lines(f) <= Len(f)
         /\ Decoded(f) = [n \in 1 .. Lines(f) |-> f[n]]
         /\ Len(Decoded(f)) = Lines(f)
         /\ Events(Decoded(f)) = [n \in 1 .. Lines(f) |-> f[n].ev]
         /\ Intact(Decoded(f))
<1> DEFINE k == Lines(f)
<1>1. k \in 0 .. Len(f) /\ \A i \in 1 .. k : f[i].cut = "line"
  BY DEF Lines, Chained
<1>2. k < Len(f) => k = Len(f) - 1 /\ f[Len(f)].cut # "line"
  BY DEF Lines
<1> HIDE DEF k
<1>3. Ends(f) = 1 .. k
  BY <1>1, <1>2 DEF Ends
<1>4. Begins(f) = 1 .. k
  BY <1>1, <1>3 DEF Begins
<1>5. Cardinality(Begins(f)) = k
  BY <1>1, <1>4, FS_Interval
<1>6. /\ Len(Decoded(f)) = k /\ DOMAIN Decoded(f) = 1 .. k
      /\ \A n \in 1 .. k : Decoded(f)[n] = f[n]
  BY <1>1, <1>5, DecodedPrefix
<1>7. Decoded(f) = [n \in 1 .. k |-> f[n]]
  BY <1>6 DEF Decoded
<1>8. Events(Decoded(f)) = [n \in 1 .. k |-> f[n].ev]
  BY <1>7 DEF Events
<1>9. Intact(Decoded(f))
  BY <1>1, <1>6 DEF Intact, Chained, k
<1> QED  BY <1>1, <1>6, <1>7, <1>8, <1>9 DEF k

\* The last newline of a file.
LEMMA LastNewlineIs ==
  ASSUME NEW f \in Seq(Chunk)
  PROVE  /\ LastNewline(f) \in 0 .. Len(f)
         /\ LastNewline(f) # 0 => f[LastNewline(f)].cut = "line"
         /\ \A i \in 1 .. Len(f) : f[i].cut = "line" => i <= LastNewline(f)
<1> DEFINE S == {0} \cup Ends(f)
<1>1. S \in SUBSET (0 .. Len(f)) /\ S # {} /\ Len(f) \in Nat
  BY DEF Ends
<1>2. LastNewline(f) = Max(S)
  BY DEF LastNewline
<1>3. Max(S) \in S /\ \A y \in S : y <= Max(S)
  BY <1>1, Greatest
<1> QED  BY <1>1, <1>2, <1>3 DEF Ends

\* The end of a chain is its last newline.
LEMMA LastNewlineOfChain ==
  ASSUME NEW f \in Seq(Chunk), Chained(f, Lines(f))
  PROVE  LastNewline(f) = Lines(f)
BY LastNewlineIs DEF Chained, Lines
------------------------------------------------------------------------------
(* The operations *)

\* The parts of the invariant make the file readable and place the writer.
LEMMA KeptReads ==
  ASSUME TypeOK, Kept
  PROVE  AlwaysReadable /\ WriterAtEnd
<1>1. ASSUME faults = 0 PROVE Readable
  BY <1>1, DecodedChain DEF TypeOK, Kept, ErrorFree, Readable
<1>2. ASSUME faults = 0, NEW p \in Proc, mode[p] = "open"
      PROVE  /\ seq[p] = Len(Decoded(file))
             /\ last[p] = IF Decoded(file) = << >> THEN Genesis
                          ELSE Decoded(file)[Len(Decoded(file))].ev
  <2>1. /\ Len(Decoded(file)) = Lines(file) /\ Lines(file) = Len(file)
        /\ Decoded(file) = [n \in 1 .. Len(file) |-> file[n]]
    BY <1>2, DecodedChain DEF TypeOK, Kept, ErrorFree
  <2>2. Decoded(file) = << >> <=> file = << >>
    BY <2>1, DecodedLast DEF TypeOK
  <2>3. file # << >> => Decoded(file)[Len(file)] = file[Len(file)]
    BY <2>1 DEF TypeOK
  <2> QED  BY <1>2, <2>1, <2>2, <2>3 DEF Kept, ErrorFree
<1> QED  BY <1>1, <1>2 DEF AlwaysReadable, WriterAtEnd

\* A beginning of a file that is no longer than a chain is one.
LEMMA ChainedStart ==
  ASSUME NEW f \in Seq(Chunk), NEW n \in 0 .. Len(f), NEW m \in 0 .. n,
         Chained(f, m)
  PROVE  Chained(SubSeq(f, 1, n), m)
BY DEF Chained

\* A file that grows keeps the chains it has.
LEMMA ChainedAppend ==
  ASSUME NEW f \in Seq(Chunk), NEW c \in Chunk, NEW m \in 0 .. Len(f),
         Chained(f, m)
  PROVE  Chained(Append(f, c), m)
BY DEF Chained

\* The first state.
LEMMA InitJ == Init => TypeOK /\ Kept
<1> SUFFICES ASSUME Init PROVE TypeOK /\ Kept
  OBVIOUS
<1>1. TypeOK
  BY BoundsAssumption DEF Init, TypeOK, Event, Genesis
<1>2. Kept
  BY DEF Init, Kept, Exclusive, Counted, ErrorFree, CleanHeld, Chained, Lines
<1> QED  BY <1>1, <1>2

\* The journal is opened: a cut tail goes, and the writer stands at the end.
LEMMA OpenKeeps ==
  ASSUME TypeOK, Kept, NEW p \in Proc, Open(p)
  PROVE  TypeOK' /\ Kept'
<1> DEFINE d == Decoded(file)
<1> DEFINE end == LastNewline(file)
<1>1. /\ file \in Seq(Chunk) /\ synced \in 0 .. Len(file)
      /\ Len(file) <= count /\ count \in 0 .. MaxEvents
  BY DEF TypeOK, Kept, Counted
<1>2. /\ end \in 0 .. Len(file)
      /\ end # 0 => file[end].cut = "line"
      /\ \A i \in 1 .. Len(file) : file[i].cut = "line" => i <= end
  BY <1>1, LastNewlineIs
<1>3. /\ Len(d) \in 0 .. Len(file)
      /\ d = << >> <=> Len(d) = 0
      /\ d # << >> => d[Len(d)] \in Chunk
  BY <1>1, BeginsFinite, DecodedLast
<1> HIDE DEF d, end
<1>4. /\ file' = SubSeq(file, 1, end) /\ file' \in Seq(Chunk)
      /\ Len(file') = end /\ \A i \in 1 .. end : file'[i] = file[i]
  BY <1>1, <1>2 DEF Open, d, end
<1>5. /\ synced' = IF synced <= end THEN synced ELSE end
      /\ synced' \in 0 .. end
  BY <1>1, <1>2, Smaller DEF Open, d, end
<1>6. /\ seq' = [seq EXCEPT ![p] = Len(d)]
      /\ last' = [last EXCEPT ![p] = IF d = << >> THEN Genesis
                                     ELSE d[Len(d)].ev]
      /\ mode' = [mode EXCEPT ![p] = "open"] /\ owner' = p /\ owner = NoProc
      /\ UNCHANGED <<acked, clean, count, faults, losses>>
  BY DEF Open, Lockable, d, end
<1>7. TypeOK'
  BY <1>3, <1>4, <1>5, <1>6 DEF TypeOK, Chunk
<1>8. \A q \in Proc : mode[q] = "closed"
  BY <1>6, NoProcAssumption DEF Kept, Exclusive
<1>9. Exclusive' /\ Counted'
  <2>1. ASSUME NEW q \in Proc, q # p PROVE mode'[q] = "closed" /\ seq'[q] = seq[q]
    <3>1. /\ mode' = [mode EXCEPT ![p] = "open"]
          /\ seq' = [seq EXCEPT ![p] = Len(d)]
      BY <1>6
    <3>2. mode[q] = "closed"
      BY <1>8
    <3>3. DOMAIN mode = Proc /\ DOMAIN seq = Proc
      BY DEF TypeOK
    <3> QED  BY <2>1, <3>1, <3>2, <3>3
  <2>2. mode'[p] = "open" /\ seq'[p] = Len(d)
    BY <1>6 DEF TypeOK
  <2>3. Exclusive'
    BY <1>6, <2>1 DEF Exclusive
  <2>4. Len(d) <= count
    <3>1. Len(file) \in Nat
      BY <1>1
    <3>2. count \in Nat /\ Len(file) <= count
      BY <1>1, BoundsAssumption
    <3>3. Len(d) \in Nat /\ Len(d) <= Len(file)
      BY <1>3, <3>1
    <3> QED  BY <3>1, <3>2, <3>3
  <2>5. Counted'
    BY <1>1, <1>2, <1>4, <1>6, <2>1, <2>2, <2>4 DEF Kept, Counted
  <2> QED  BY <2>3, <2>5
<1>10. ErrorFree'
  <2> SUFFICES ASSUME faults = 0
               PROVE  /\ Chained(file', Lines(file')) /\ acked' = clean'
                      /\ Lines(file') = Len(file')
                      /\ Len(d) = Len(file')
                      /\ last'[p] = IF file' = << >> THEN Genesis
                                    ELSE file'[Len(file')].ev
    BY <1>6, <1>8 DEF ErrorFree, TypeOK
  <2>1. Chained(file, Lines(file)) /\ acked = clean
    BY DEF Kept, ErrorFree
  <2>2. /\ end = Lines(file) /\ Len(d) = end
        /\ d = [n \in 1 .. end |-> file[n]]
    BY <1>1, <2>1, LastNewlineOfChain, DecodedChain DEF d, end
  <2>3. Lines(file') = Len(file')
    BY <1>2, <1>4 DEF Lines
  <2>4. Chained(file', end)
    BY <1>1, <1>2, <1>4, <2>1, <2>2, ChainedStart
  <2>5. last'[p] = IF file' = << >> THEN Genesis ELSE file'[Len(file')].ev
    BY <1>2, <1>3, <1>4, <1>6, <2>2 DEF TypeOK
  <2> QED  BY <1>4, <1>6, <2>1, <2>2, <2>3, <2>4, <2>5
<1>11. CleanHeld'
  <2> SUFFICES ASSUME NEW a \in clean
               PROVE  /\ a[1] <= synced' /\ Chained(file', a[1])
                      /\ file'[a[1]].ev = a[2]
    BY <1>6 DEF CleanHeld
  <2>1. /\ a[1] \in Nat \ {0} /\ a[1] <= synced /\ Chained(file, a[1])
        /\ file[a[1]].ev = a[2]
    BY DEF TypeOK, Kept, CleanHeld, Event
  <2>2. a[1] <= end
    BY <1>1, <1>2, <2>1 DEF Chained
  <2>3. Chained(file', a[1])
    BY <1>1, <1>2, <1>4, <2>1, <2>2, ChainedStart
  <2> QED  BY <1>4, <1>5, <2>1, <2>2, <2>3
<1> QED  BY <1>7, <1>9, <1>10, <1>11 DEF Kept

\* The journal is closed, or its process ends.
LEMMA LeaveKeeps ==
  ASSUME TypeOK, Kept, NEW p \in Proc, Leave(p)
  PROVE  TypeOK' /\ Kept'
<1>1. /\ mode' = [mode EXCEPT ![p] = "closed"]
      /\ owner' = IF owner = p THEN NoProc ELSE owner
      /\ UNCHANGED <<file, synced, seq, last, acked, clean, count, faults,
                     losses>>
  BY DEF Leave
<1>2. TypeOK'
  BY <1>1 DEF TypeOK
<1>3. Exclusive' /\ Counted'
  <2>1. ASSUME NEW q \in Proc, mode'[q] # "closed"
        PROVE  q # p /\ mode[q] # "closed"
    BY <1>1, <2>1 DEF TypeOK
  <2>2. Exclusive'
    BY <1>1, <2>1 DEF Kept, Exclusive
  <2>3. ASSUME NEW q \in Proc, mode'[q] = "written"
        PROVE  mode[q] = "written"
    BY <1>1, <2>3 DEF TypeOK
  <2>4. Counted'
    BY <1>1, <2>3 DEF Kept, Counted
  <2> QED  BY <2>2, <2>4
<1>4. ErrorFree' /\ CleanHeld'
  BY <1>1 DEF TypeOK, Kept, ErrorFree, CleanHeld
<1> QED  BY <1>2, <1>3, <1>4 DEF Kept

\* The line a process would write.
LEMMA LineTyped ==
  ASSUME TypeOK, Kept, NEW p \in Proc, mode[p] = "open", count < MaxEvents,
         NEW cut \in Cut
  PROVE  Line(p, cut) \in Chunk /\ Line(p, cut).cut = cut
<1>1. count + 1 \in Event /\ seq[p] + 1 \in Event
  BY BoundsAssumption DEF TypeOK, Kept, Counted, Event
<1> QED  BY <1>1 DEF Line, Chunk, TypeOK

\* A line is written.
LEMMA WriteKeeps ==
  ASSUME TypeOK, Kept, NEW p \in Proc, Write(p)
  PROVE  TypeOK' /\ Kept'
<1> DEFINE c == Line(p, "line")
<1>1. /\ mode[p] = "open" /\ count < MaxEvents
      /\ file' = Append(file, c) /\ count' = count + 1
      /\ mode' = [mode EXCEPT ![p] = "written"]
      /\ UNCHANGED <<synced, owner, seq, last, acked, clean, faults, losses>>
  BY DEF Write
<1>2. c \in Chunk /\ c.cut = "line" /\ c.seq = seq[p] + 1 /\ c.prev = last[p]
  BY <1>1, LineTyped DEF Cut, Line
<1> HIDE DEF c
<1>3. /\ file' \in Seq(Chunk) /\ Len(file') = Len(file) + 1
      /\ file'[Len(file')] = c
      /\ \A i \in 1 .. Len(file) : file'[i] = file[i]
      /\ file \in Seq(Chunk) /\ Len(file) \in Nat
  BY <1>1, <1>2 DEF TypeOK
<1>4. TypeOK'
  BY <1>1, <1>3, BoundsAssumption DEF TypeOK
<1>5. Exclusive' /\ Counted'
  BY <1>1, <1>3 DEF TypeOK, Kept, Exclusive, Counted
<1>6. ErrorFree'
  <2> SUFFICES ASSUME faults = 0
               PROVE  /\ Lines(file') = Len(file')
                      /\ Chained(file', Len(file'))
                      /\ seq[p] = Len(file') - 1
                      /\ acked = clean
                      /\ \A q \in Proc \ {p} : mode[q] = "closed"
    BY <1>1 DEF ErrorFree, TypeOK
  <2>1. Lines(file') = Len(file')
    BY <1>2, <1>3 DEF Lines
  <2>2. /\ Chained(file, Len(file)) /\ seq[p] = Len(file)
        /\ last[p] = IF file = << >> THEN Genesis ELSE file[Len(file)].ev
        /\ acked = clean
    BY <1>1 DEF Kept, ErrorFree
  <2>3. Chained(file', Len(file'))
    <3> SUFFICES ASSUME NEW i \in 1 .. Len(file')
                 PROVE  /\ file'[i].cut = "line" /\ file'[i].seq = i
                        /\ file'[i].prev = IF i = 1 THEN Genesis
                                           ELSE file'[i - 1].ev
      BY <1>3 DEF Chained
    <3>1. CASE i = Len(file')
      BY <1>2, <1>3, <2>2, <3>1
    <3>2. CASE i # Len(file')
      <4>1. i \in 1 .. Len(file) /\ (i # 1 => i - 1 \in 1 .. Len(file))
        BY <1>3, <3>2
      <4> QED  BY <1>3, <2>2, <4>1 DEF Chained
    <3> QED  BY <3>1, <3>2
  <2>4. \A q \in Proc \ {p} : mode[q] = "closed"
    BY <1>1 DEF Kept, Exclusive
  <2> QED  BY <1>3, <2>1, <2>2, <2>3, <2>4
<1>7. CleanHeld'
  <2> SUFFICES ASSUME NEW a \in clean
               PROVE  Chained(file', a[1]) /\ file'[a[1]].ev = a[2]
    BY <1>1 DEF CleanHeld, Kept
  <2>1. a[1] \in 1 .. Len(file) /\ Chained(file, a[1]) /\ file[a[1]].ev = a[2]
    BY <1>3 DEF TypeOK, Kept, CleanHeld, Event, Chained
  <2> QED  BY <1>1, <1>2, <1>3, <2>1, ChainedAppend
<1> QED  BY <1>4, <1>5, <1>6, <1>7 DEF Kept

\* A write fails: the error is counted, and what it left is not acknowledged.
LEMMA WriteFailsKeeps ==
  ASSUME TypeOK, Kept, NEW p \in Proc, WriteFails(p)
  PROVE  TypeOK' /\ Kept'
<1>1. /\ mode[p] = "open" /\ count < MaxEvents /\ faults < MaxFaults
      /\ count' = count + 1 /\ faults' = faults + 1
      /\ UNCHANGED <<synced, owner, mode, seq, last, acked, clean, losses>>
  BY DEF WriteFails
<1>2. file' = file \/ \E c \in Chunk : file' = Append(file, c)
  <2>1. PICK cut \in {"none", "torn", "whole"} :
          file' = IF cut = "none" THEN file ELSE Append(file, Line(p, cut))
    BY DEF WriteFails
  <2>2. cut # "none" => Line(p, cut) \in Chunk
    BY <1>1, LineTyped DEF Cut
  <2> QED  BY <2>1, <2>2
<1>3. /\ file' \in Seq(Chunk) /\ Len(file) \in Nat /\ file \in Seq(Chunk)
      /\ Len(file') \in {Len(file), Len(file) + 1}
      /\ \A i \in 1 .. Len(file) : file'[i] = file[i]
      /\ \A m \in 0 .. Len(file) : Chained(file, m) => Chained(file', m)
  <2>1. file \in Seq(Chunk) /\ Len(file) \in Nat
    BY DEF TypeOK
  <2>2. CASE file' = file
    BY <2>1, <2>2
  <2>3. ASSUME NEW c \in Chunk, file' = Append(file, c)
        PROVE  /\ file' \in Seq(Chunk) /\ Len(file') = Len(file) + 1
               /\ \A i \in 1 .. Len(file) : file'[i] = file[i]
    BY <2>1, <2>3
  <2>4. ASSUME NEW c \in Chunk, file' = Append(file, c),
               NEW m \in 0 .. Len(file), Chained(file, m)
        PROVE  Chained(file', m)
    BY <2>1, <2>4, ChainedAppend
  <2> QED  BY <1>2, <2>1, <2>2, <2>3, <2>4
<1>4. faults' # 0 /\ faults' \in 0 .. MaxFaults
  BY <1>1, BoundsAssumption DEF TypeOK
<1>5. TypeOK'
  BY <1>1, <1>3, <1>4, BoundsAssumption DEF TypeOK
<1>6. Exclusive' /\ Counted'
  BY <1>1, <1>3 DEF TypeOK, Kept, Exclusive, Counted
<1>7. ErrorFree'
  BY <1>4 DEF ErrorFree
<1>8. CleanHeld'
  <2> SUFFICES ASSUME NEW a \in clean
               PROVE  Chained(file', a[1]) /\ file'[a[1]].ev = a[2]
    BY <1>1 DEF CleanHeld, Kept
  <2>1. a[1] \in 1 .. Len(file) /\ Chained(file, a[1]) /\ file[a[1]].ev = a[2]
    BY <1>3 DEF TypeOK, Kept, CleanHeld, Event, Chained
  <2> QED  BY <1>3, <2>1
<1> QED  BY <1>5, <1>6, <1>7, <1>8 DEF Kept

\* A line is synced, and acknowledged at its place.
LEMMA SyncKeeps ==
  ASSUME TypeOK, Kept, NEW p \in Proc, Sync(p)
  PROVE  TypeOK' /\ Kept'
<1> DEFINE ev == file[Len(file)].ev
<1>1. /\ mode[p] = "written" /\ synced' = Len(file)
      /\ seq' = [seq EXCEPT ![p] = seq[p] + 1]
      /\ last' = [last EXCEPT ![p] = ev]
      /\ acked' = acked \cup {<<seq[p] + 1, ev>>}
      /\ clean' = IF faults = 0 THEN acked' ELSE clean
      /\ mode' = [mode EXCEPT ![p] = "open"]
      /\ UNCHANGED <<file, owner, count, faults, losses>>
  BY DEF Sync
<1>2. /\ file \in Seq(Chunk) /\ Len(file) \in Nat \ {0} /\ ev \in Event
      /\ seq[p] + 1 \in Event /\ seq[p] \in Nat /\ seq[p] < count
  <2>1. /\ file \in Seq(Chunk) /\ file # << >> /\ seq[p] < count
        /\ seq[p] \in Nat /\ count \in 0 .. MaxEvents
    BY <1>1 DEF TypeOK, Kept, Counted
  <2>2. Len(file) \in Nat \ {0} /\ file[Len(file)] \in Chunk
    BY <2>1
  <2>3. seq[p] + 1 \in Event
    BY <2>1, BoundsAssumption DEF Event
  <2> QED  BY <2>1, <2>2, <2>3 DEF Chunk
<1> HIDE DEF ev
<1>3. TypeOK'
  <2>1. acked' \subseteq Event \X Event /\ clean' \subseteq acked'
    BY <1>1, <1>2 DEF TypeOK
  <2>2. seq' \in [Proc -> Nat] /\ last' \in [Proc -> Event \cup {Genesis}]
        /\ mode' \in [Proc -> {"closed", "open", "written"}]
    BY <1>1, <1>2 DEF TypeOK
  <2> QED  BY <1>1, <1>2, <2>1, <2>2 DEF TypeOK
<1>4. \A q \in Proc : q # p => mode'[q] = mode[q] /\ seq'[q] = seq[q]
  BY <1>1 DEF TypeOK
<1>5. mode'[p] = "open" /\ seq'[p] = seq[p] + 1 /\ last'[p] = ev
  BY <1>1 DEF TypeOK
<1>6. Exclusive' /\ Counted'
  <2>1. Exclusive'
    BY <1>1, <1>4 DEF Kept, Exclusive
  <2>2. Counted'
    BY <1>1, <1>2, <1>4, <1>5 DEF TypeOK, Kept, Counted
  <2> QED  BY <2>1, <2>2
<1>7. faults = 0 =>
        /\ Chained(file, Len(file)) /\ Lines(file) = Len(file)
        /\ acked = clean /\ seq[p] = Len(file) - 1
        /\ \A q \in Proc \ {p} : mode[q] = "closed"
  BY <1>1 DEF Kept, ErrorFree, Exclusive
<1>8. ErrorFree'
  BY <1>1, <1>2, <1>4, <1>5, <1>7 DEF ErrorFree, ev
<1>9. CleanHeld'
  <2>1. ASSUME NEW a \in clean
        PROVE  a[1] <= synced' /\ Chained(file, a[1]) /\ file[a[1]].ev = a[2]
    BY <1>1, <1>2 DEF TypeOK, Kept, CleanHeld, Event
  <2>2. CASE faults # 0
    BY <1>1, <2>1, <2>2 DEF CleanHeld
  <2>3. CASE faults = 0
    <3> DEFINE new == <<seq[p] + 1, ev>>
    <3>1. new[1] = Len(file) /\ new[2] = ev
      BY <1>2, <1>7, <2>3
    <3>2. clean' = clean \cup {new}
      BY <1>1, <1>7, <2>3
    <3> QED  BY <1>1, <1>2, <1>7, <2>1, <2>3, <3>1, <3>2 DEF CleanHeld, ev
  <2> QED  BY <2>2, <2>3
<1> QED  BY <1>3, <1>6, <1>8, <1>9 DEF Kept

\* A sync fails: the line stays, unacknowledged.
LEMMA SyncFailsKeeps ==
  ASSUME TypeOK, Kept, NEW p \in Proc, SyncFails(p)
  PROVE  TypeOK' /\ Kept'
<1>1. /\ mode[p] = "written" /\ faults' = faults + 1 /\ faults < MaxFaults
      /\ mode' = [mode EXCEPT ![p] = "open"]
      /\ UNCHANGED <<file, synced, owner, seq, last, acked, clean, count,
                     losses>>
  BY DEF SyncFails
<1>2. faults' # 0 /\ faults' \in 0 .. MaxFaults
  BY <1>1, BoundsAssumption DEF TypeOK
<1>3. TypeOK'
  BY <1>1, <1>2 DEF TypeOK
<1>4. \A q \in Proc : mode'[q] # "closed" => mode[q] # "closed"
  BY <1>1 DEF TypeOK
<1>5. \A q \in Proc : mode'[q] = "written" => mode[q] = "written"
  BY <1>1 DEF TypeOK
<1>6. Exclusive' /\ Counted'
  BY <1>1, <1>4, <1>5 DEF Kept, Exclusive, Counted
<1>7. ErrorFree' /\ CleanHeld'
  BY <1>1, <1>2 DEF ErrorFree, Kept, CleanHeld
<1> QED  BY <1>3, <1>6, <1>7 DEF Kept

\* What a loss of power leaves of the file: its first n chunks, of the last
\* perhaps a part.
LEMMA LossLeaves ==
  ASSUME TypeOK, Kept, PowerLoss
  PROVE  /\ file' \in Seq(Chunk) /\ Len(file') \in synced .. Len(file)
         /\ \A i \in 1 .. Len(file') :
              /\ file'[i].ev = file[i].ev
              /\ i < Len(file') \/ i <= synced => file'[i] = file[i]
         /\ \/ Len(file') = 0
            \/ file'[Len(file')] = file[Len(file')]
            \/ file'[Len(file')].cut # "line"
<1> USE DEF TypeOK
<1>1. PICK n \in synced .. Len(file) :
        \/ file' = SubSeq(file, 1, n)
        \/ /\ n > synced
           /\ \E cut \in {"torn", "whole"} :
                /\ file[n].cut = "torn" => cut = "torn"
                /\ file' = [SubSeq(file, 1, n) EXCEPT ![n].cut = cut]
  BY DEF PowerLoss
<1> DEFINE s == SubSeq(file, 1, n)
<1>2. s \in Seq(Chunk) /\ Len(s) = n /\ \A i \in 1 .. n : s[i] = file[i]
  OBVIOUS
<1> HIDE DEF s
<1>3. CASE file' = s
  BY <1>2, <1>3
<1>4. ASSUME n > synced, NEW cut \in {"torn", "whole"},
             file' = [s EXCEPT ![n].cut = cut]
      PROVE  /\ file' \in Seq(Chunk) /\ Len(file') = n
             /\ \A i \in 1 .. n : file'[i].ev = file[i].ev
             /\ \A i \in 1 .. n - 1 : file'[i] = file[i]
             /\ file'[n].cut # "line"
  <2>1. s[n] \in Chunk /\ n \in 1 .. Len(s)
    BY <1>2, <1>4
  <2>2. PICK c : c = [s[n] EXCEPT !.cut = cut]
    OBVIOUS
  <2>3. c \in Chunk /\ c.ev = s[n].ev /\ c.cut = cut
    BY <2>1, <2>2 DEF Chunk, Cut
  <2>4. file' = [s EXCEPT ![n] = c]
    BY <1>4, <2>2
  <2>5. /\ file' \in Seq(Chunk) /\ Len(file') = n /\ file'[n] = c
        /\ \A i \in 1 .. n : i # n => file'[i] = s[i]
    BY <1>2, <2>1, <2>3, <2>4
  <2>6. \A i \in 1 .. n : i # n => file'[i] = file[i]
    BY <1>2, <2>5
  <2>7. \A i \in 1 .. n : file'[i].ev = file[i].ev
    BY <1>2, <2>1, <2>3, <2>5, <2>6
  <2>8. \A i \in 1 .. n - 1 : i \in 1 .. n /\ i # n
    BY <1>2
  <2> QED  BY <2>3, <2>5, <2>6, <2>7, <2>8
<1> QED  BY <1>1, <1>2, <1>3, <1>4 DEF s

\* The machine stops.
LEMMA PowerLossKeeps ==
  ASSUME TypeOK, Kept, PowerLoss
  PROVE  TypeOK' /\ Kept'
<1>1. /\ synced' = Len(file') /\ owner' = NoProc
      /\ mode' = [p \in Proc |-> "closed"]
      /\ losses' = losses + 1 /\ losses < MaxLosses
      /\ UNCHANGED <<seq, last, acked, clean, count, faults>>
  BY DEF PowerLoss
<1>2. /\ file' \in Seq(Chunk) /\ Len(file') \in synced .. Len(file)
      /\ \A i \in 1 .. Len(file') :
           /\ file'[i].ev = file[i].ev
           /\ i < Len(file') \/ i <= synced => file'[i] = file[i]
  BY LossLeaves
<1>3. /\ file \in Seq(Chunk) /\ Len(file) \in Nat /\ synced \in 0 .. Len(file)
  BY DEF TypeOK
<1>4. TypeOK'
  BY <1>1, <1>2, <1>3, BoundsAssumption DEF TypeOK
<1>5. Exclusive' /\ Counted'
  BY <1>1, <1>2, <1>3 DEF TypeOK, Kept, Exclusive, Counted
<1>6. ErrorFree'
  <2> SUFFICES ASSUME faults = 0
               PROVE  Chained(file', Lines(file')) /\ acked = clean
    BY <1>1 DEF ErrorFree
  <2>1. Chained(file, Lines(file)) /\ acked = clean
    BY DEF Kept, ErrorFree
  <2>2. Lines(file') \in 0 .. Len(file')
    BY <1>2, <1>3 DEF Lines
  <2>3. ASSUME NEW i \in 1 .. Lines(file')
        PROVE  i \in 1 .. Lines(file) /\ file'[i] = file[i]
    <3>1. i \in 1 .. Len(file') /\ i \in 1 .. Len(file)
      BY <1>2, <1>3, <2>2
    <3>2. i = Len(file') => file'[i].cut = "line"
      BY <1>2, <1>3, <3>1 DEF Lines
    <3>3. file'[i] = file[i]
      BY <1>2, <3>1, <3>2, LossLeaves
    <3>4. i = Len(file) => file[i].cut = "line"
      BY <1>2, <1>3, <3>1, <3>2, <3>3
    <3> QED  BY <1>3, <3>1, <3>3, <3>4 DEF Lines
  <2>4. \A i \in 1 .. Lines(file') : i # 1 => i - 1 \in 1 .. Lines(file')
    BY <1>2, <2>2
  <2> QED  BY <2>1, <2>2, <2>3, <2>4 DEF Chained
<1>7. CleanHeld'
  <2> SUFFICES ASSUME NEW a \in clean
               PROVE  /\ a[1] <= Len(file') /\ Chained(file', a[1])
                      /\ file'[a[1]].ev = a[2]
    BY <1>1 DEF CleanHeld
  <2>1. /\ a[1] \in 1 .. synced /\ Chained(file, a[1])
        /\ file[a[1]].ev = a[2]
    BY <1>3 DEF TypeOK, Kept, CleanHeld, Event
  <2>2. \A i \in 1 .. a[1] : i \in 1 .. Len(file') /\ file'[i] = file[i]
    BY <1>2, <1>3, <2>1
  <2> QED  BY <1>2, <1>3, <2>1, <2>2 DEF Chained
<1> QED  BY <1>4, <1>5, <1>6, <1>7 DEF Kept

------------------------------------------------------------------------------
(* The invariant *)

\* The readers' part of the invariant follows in every state, the next included.
LEMMA KeptReadsNext ==
  (TypeOK /\ Kept)' => (AlwaysReadable /\ WriterAtEnd)'
<1>1. TypeOK /\ Kept => AlwaysReadable /\ WriterAtEnd
  BY KeptReads
<1> QED  BY <1>1, PTL

\* Every step preserves what the file holds and who may write it.
LEMMA KeptNext ==
  ASSUME TypeOK, Kept, [Next]_vars
  PROVE  TypeOK' /\ Kept'
<1>1. ASSUME NEW p \in Proc, Open(p) PROVE TypeOK' /\ Kept'
  BY <1>1, OpenKeeps
<1>2. ASSUME NEW p \in Proc, Leave(p) PROVE TypeOK' /\ Kept'
  BY <1>2, LeaveKeeps
<1>3. ASSUME NEW p \in Proc, Write(p) PROVE TypeOK' /\ Kept'
  BY <1>3, WriteKeeps
<1>4. ASSUME NEW p \in Proc, WriteFails(p) PROVE TypeOK' /\ Kept'
  BY <1>4, WriteFailsKeeps
<1>5. ASSUME NEW p \in Proc, Sync(p) PROVE TypeOK' /\ Kept'
  BY <1>5, SyncKeeps
<1>6. ASSUME NEW p \in Proc, SyncFails(p) PROVE TypeOK' /\ Kept'
  BY <1>6, SyncFailsKeeps
<1>7. CASE PowerLoss
  BY <1>7, PowerLossKeeps
<1>8. CASE UNCHANGED vars
  <2>1. TypeOK'
    BY <1>8 DEF TypeOK, vars
  <2>2. Kept'
    BY <1>8 DEF vars, Kept, Exclusive, Counted, ErrorFree, CleanHeld
  <2> QED  BY <2>1, <2>2
<1> QED  BY <1>1, <1>2, <1>3, <1>4, <1>5, <1>6, <1>7, <1>8 DEF Next

\* Whatever processes, I/O errors and power losses do, up to the first I/O
\* error the file is one chain that every reader can read and whose end the
\* writer continues, and what was acknowledged until then stays on it.
THEOREM JournalHolds == Spec => []JInv
<1>1. Init => JInv
  BY InitJ, KeptReads DEF JInv, Inv
<1>2. JInv /\ [Next]_vars => JInv'
  BY KeptNext, KeptReadsNext DEF JInv, Inv
<1> QED  BY <1>1, <1>2, PTL DEF Spec

\* Events acknowledged before the first I/O error stay where they are: the
\* beginning of the file that holds them can be read.
THEOREM AcknowledgedStay == Spec => []CleanKept
<1>1. JInv => CleanKept
  <2> SUFFICES ASSUME JInv PROVE CleanKept
    OBVIOUS
  <2> DEFINE d == Decoded(file)
  <2> DEFINE S == {0} \cup {a[1] : a \in clean}
  <2> DEFINE n == Max(S)
  <2>1. /\ file \in Seq(Chunk) /\ Len(file) \in Nat
        /\ synced \in 0 .. Len(file)
        /\ \A a \in clean : a \in Event \X Event
    BY DEF JInv, Inv, TypeOK
  <2>2. \A a \in clean :
          /\ a[1] \in 1 .. Len(file) /\ Chained(file, a[1])
          /\ file[a[1]].ev = a[2] /\ a = <<a[1], a[2]>>
    BY <2>1 DEF JInv, Kept, CleanHeld, Event
  <2>3. S \in SUBSET (0 .. Len(file)) /\ S # {}
    BY <2>1, <2>2
  <2>4. n \in S /\ \A a \in clean : a[1] <= n
    BY <2>1, <2>3, Greatest
  <2> HIDE DEF n
  <2>5. n = 0 \/ \E a \in clean : n = a[1]
    BY <2>4
  <2> HIDE DEF S
  <2>6. n \in 0 .. Len(file) /\ Chained(file, n)
    <3>1. CASE n = 0
      BY <2>1, <3>1 DEF Chained
    <3>2. ASSUME NEW a \in clean, n = a[1]
          PROVE  n \in 0 .. Len(file) /\ Chained(file, n)
      BY <2>2, <3>2
    <3> QED  BY <2>5, <3>1, <3>2
  <2>7. /\ n <= Len(d) /\ DOMAIN d = 1 .. Len(d) /\ Len(d) \in Nat
        /\ \A i \in 1 .. n : d[i] = file[i]
    BY <2>1, <2>6, DecodedPrefix, BeginsFinite DEF Chained
  <2> HIDE DEF d
  <2>8. clean \subseteq Numbered(d)
    <3> SUFFICES ASSUME NEW a \in clean PROVE a \in Numbered(d)
      OBVIOUS
    <3>1. a[1] \in 1 .. n /\ a[1] \in DOMAIN d
      BY <2>2, <2>4, <2>6, <2>7
    <3>2. a = <<a[1], d[a[1]].ev>>
      BY <2>2, <2>7, <3>1
    <3> QED  BY <3>1, <3>2 DEF Numbered
  <2>9. Intact(SubSeq(d, 1, n))
    <3>1. /\ DOMAIN SubSeq(d, 1, n) = 1 .. n
          /\ \A i \in 1 .. n : SubSeq(d, 1, n)[i] = file[i]
      BY <2>6, <2>7
    <3> QED  BY <2>6, <3>1 DEF Intact, Chained
  <2> QED  BY <2>8, <2>9 DEF CleanKept, n, S, d
<1> QED  BY <1>1, JournalHolds, PTL
------------------------------------------------------------------------------
(* The file as an event log *)

\* What a reader finds in a chained file, as events, and the log of module
\* EventLog are the same; acknowledged numbers are on it.
LEMMA LogOfChain ==
  ASSUME NEW f \in Seq(Chunk), Chained(f, Lines(f))
  PROVE  /\ Lines(f) \in 0 .. Len(f)
         /\ Events(Decoded(f)) \in Seq(Event)
         /\ Len(Events(Decoded(f))) = Lines(f)
         /\ \A i \in 1 .. Lines(f) : Events(Decoded(f))[i] = f[i].ev
         /\ \A m \in 1 .. Len(f) : Chained(f, m) => m <= Lines(f)
<1>1. Lines(f) \in 0 .. Len(f)
  BY DecodedChain
<1>2. Events(Decoded(f)) = [n \in 1 .. Lines(f) |-> f[n].ev]
  BY DecodedChain
<1>3. ASSUME NEW n \in 1 .. Lines(f) PROVE f[n].ev \in Event
  <2>1. n \in 1 .. Len(f)
    BY <1>1
  <2>2. f[n] \in Chunk
    BY <2>1
  <2> QED  BY <2>2 DEF Chunk
<1>4. \A m \in 1 .. Len(f) : Chained(f, m) => m <= Lines(f)
  BY DEF Chained, Lines
<1> QED  BY <1>1, <1>2, <1>3, <1>4

\* Two logs with the same events are one log.
LEMMA SameLog ==
  ASSUME NEW s \in Seq(Event), NEW t \in Seq(Event), Len(s) = Len(t),
         \A i \in 1 .. Len(s) : s[i] = t[i]
  PROVE  s = t
OBVIOUS

\* The beginning of a log is a log.
LEMMA LogStart ==
  ASSUME NEW s \in Seq(Event), NEW n \in 0 .. Len(s)
  PROVE  /\ SubSeq(s, 1, n) \in Seq(Event) /\ Len(SubSeq(s, 1, n)) = n
         /\ \A i \in 1 .. n : SubSeq(s, 1, n)[i] = s[i]
<1>1. Len(s) \in Nat /\ n \in Nat
  OBVIOUS
<1>2. Len(SubSeq(s, 1, n)) = n /\ \A i \in 1 .. n : SubSeq(s, 1, n)[i] = s[i]
  BY <1>1
<1>3. \A i \in 1 .. n : s[i] \in Event
  BY <1>1
<1>4. SubSeq(s, 1, n) \in Seq(Event)
  BY <1>1, <1>3
<1> QED  BY <1>2, <1>4

\* The highest of a set of acknowledged numbers.
LEMMA HighestAcked ==
  ASSUME NEW A \in SUBSET (Event \X Event), NEW k \in Nat,
         \A a \in A : a[1] <= k
  PROVE  /\ Max({0} \cup {b[1] : b \in A}) \in 0 .. k
         /\ \A a \in A : a[1] <= Max({0} \cup {b[1] : b \in A})
<1> DEFINE S == {0} \cup {b[1] : b \in A}
<1>1. S \in SUBSET (0 .. k) /\ S # {}
  BY DEF Event
<1>2. Max(S) \in S /\ \A y \in S : y <= Max(S)
  BY <1>1, Greatest
<1> QED  BY <1>1, <1>2

\* Up to the first I/O error, what was acknowledged is within the log.
LEMMA AckedWithinLog ==
  ASSUME TypeOK, Kept, faults = 0
  PROVE  /\ file \in Seq(Chunk) /\ Chained(file, Lines(file))
         /\ acked \in SUBSET (Event \X Event)
         /\ \A a \in acked : a[1] <= Lines(file) /\ a[1] <= synced
<1>1. /\ file \in Seq(Chunk) /\ synced \in 0 .. Len(file)
      /\ acked \in SUBSET (Event \X Event)
      /\ acked = clean /\ Chained(file, Lines(file))
  BY DEF TypeOK, Kept, ErrorFree
<1>2. ASSUME NEW a \in acked PROVE a[1] <= Lines(file) /\ a[1] <= synced
  <2>1. a[1] <= synced /\ Chained(file, a[1]) /\ a[1] \in 1 .. Len(file)
    BY <1>1 DEF Kept, CleanHeld, Event
  <2> QED  BY <1>1, <2>1, LogOfChain
<1> QED  BY <1>1, <1>2

\* The same of the next state.
LEMMA AckedWithinLogNext ==
  (TypeOK /\ Kept /\ faults = 0)' =>
    (/\ file \in Seq(Chunk) /\ Chained(file, Lines(file))
     /\ acked \in SUBSET (Event \X Event)
     /\ \A a \in acked : a[1] <= Lines(file) /\ a[1] <= synced)'
<1>1. TypeOK /\ Kept /\ faults = 0 =>
        (/\ file \in Seq(Chunk) /\ Chained(file, Lines(file))
         /\ acked \in SUBSET (Event \X Event)
         /\ \A a \in acked : a[1] <= Lines(file) /\ a[1] <= synced)
  BY AckedWithinLog
<1> QED  BY <1>1, PTL

\* Every step of the journal, up to the first I/O error, is a step of the log:
\* a write adds the event it wrote, a sync acknowledges all there is, a loss of
\* power takes events that were not acknowledged, and the rest leaves the log.
LEMMA StepOfLog ==
  ASSUME TypeOK, Kept, Next, faults' = 0
  PROVE  L!Next \/ UNCHANGED L!vars
<1> DEFINE log == Events(Decoded(file))
<1> DEFINE high == Max({0} \cup {a[1] : a \in acked})
<1> DEFINE k == Lines(file)
<1>1. faults = 0
  BY DEF Next, Open, Leave, Write, WriteFails, Sync, SyncFails, PowerLoss,
         TypeOK
<1>2. TypeOK' /\ Kept'
  BY KeptNext
<1>3. /\ file \in Seq(Chunk) /\ Chained(file, k)
      /\ acked \in SUBSET (Event \X Event)
      /\ \A a \in acked : a[1] <= k /\ a[1] <= synced
  BY <1>1, AckedWithinLog
<1>4. /\ file' \in Seq(Chunk) /\ Chained(file', k')
      /\ acked' \in SUBSET (Event \X Event)
      /\ \A a \in acked' : a[1] <= k' /\ a[1] <= synced'
  BY <1>2, AckedWithinLogNext
<1>5. /\ k \in 0 .. Len(file) /\ log \in Seq(Event) /\ Len(log) = k
      /\ \A i \in 1 .. k : log[i] = file[i].ev
  BY <1>3, LogOfChain
<1>6. /\ k' \in 0 .. Len(file') /\ log' \in Seq(Event) /\ Len(log') = k'
      /\ \A i \in 1 .. k' : log'[i] = file'[i].ev
  BY <1>4, LogOfChain
<1>7. Len(file) \in Nat /\ Len(file') \in Nat /\ k \in Nat /\ k' \in Nat
  BY <1>3, <1>4, <1>5, <1>6
<1>8. high \in 0 .. k /\ \A a \in acked : a[1] <= high
  BY <1>3, <1>7, HighestAcked
<1>9. acked' = acked => high' = high
  OBVIOUS
<1>10. L!vars = <<log, high>> /\ L!vars' = <<log', high'>>
  BY DEF L!vars
<1>11. \A p \in Proc : mode[p] # "closed" => k = Len(file)
  BY <1>1 DEF Kept, ErrorFree
<1>12. \/ k = Len(file)
       \/ k = Len(file) - 1 /\ file[Len(file)].cut # "line"
  BY <1>3 DEF Lines
<1>13. \/ /\ k' = Len(file')
          /\ Len(file') # 0 => file'[Len(file')].cut = "line"
       \/ k' = Len(file') - 1 /\ file'[Len(file')].cut # "line"
  BY <1>4, <1>6 DEF Lines
<1>14. LastNewline(file) = k
  BY <1>3, LastNewlineOfChain
<1> HIDE DEF log, high, k
<1>15. ASSUME NEW p \in Proc, Open(p) PROVE UNCHANGED L!vars
  <2>1. file' = SubSeq(file, 1, k) /\ acked' = acked
    BY <1>14, <1>15 DEF Open
  <2>2. Len(file') = k /\ \A i \in 1 .. k : file'[i] = file[i]
    BY <1>3, <1>5, <1>7, <2>1
  <2>3. k # 0 => file'[k].cut = "line"
    BY <1>3, <1>5, <2>2 DEF Chained
  <2>4. k' = k
    BY <1>5, <1>6, <1>13, <2>2, <2>3
  <2>5. \A i \in 1 .. k : log'[i] = log[i]
    BY <1>5, <1>6, <2>2, <2>4
  <2>6. log' = log
    BY <1>5, <1>6, <2>4, <2>5, SameLog
  <2> QED  BY <1>9, <1>10, <2>1, <2>6
<1>16. ASSUME NEW p \in Proc, Leave(p) PROVE UNCHANGED L!vars
  <2>1. file' = file /\ acked' = acked
    BY <1>16 DEF Leave
  <2>2. log' = log
    BY <2>1 DEF log
  <2> QED  BY <1>9, <1>10, <2>1, <2>2
<1>17. ASSUME NEW p \in Proc, Write(p) PROVE L!Next
  <2>1. /\ file' = Append(file, Line(p, "line")) /\ acked' = acked
        /\ mode[p] = "open" /\ count' = count + 1 /\ count < MaxEvents
    BY <1>17 DEF Write
  <2>2. k = Len(file)
    BY <1>11, <2>1
  <2>3. Line(p, "line").cut = "line" /\ Line(p, "line").ev = count + 1
    BY DEF Line
  <2>4. count + 1 \in Event
    BY <2>1, BoundsAssumption DEF TypeOK, Event
  <2>5. /\ Len(file') = k + 1 /\ file'[k + 1] = Line(p, "line")
        /\ \A i \in 1 .. k : file'[i] = file[i]
    BY <1>3, <1>7, <2>1, <2>2
  <2>6. k' = k + 1
    BY <1>5, <1>6, <1>13, <2>3, <2>5
  <2>7. /\ Append(log, count + 1) \in Seq(Event)
        /\ Len(Append(log, count + 1)) = k + 1
        /\ Append(log, count + 1)[k + 1] = count + 1
        /\ \A i \in 1 .. k : Append(log, count + 1)[i] = log[i]
    BY <1>5, <2>4
  <2>8. \A i \in 1 .. k + 1 : i \in 1 .. k \/ i = k + 1
    BY <1>5
  <2>9. log'[k + 1] = count + 1 /\ \A i \in 1 .. k : log'[i] = log[i]
    BY <1>5, <1>6, <2>3, <2>5, <2>6
  <2>10. \A i \in 1 .. k + 1 : log'[i] = Append(log, count + 1)[i]
    BY <2>7, <2>8, <2>9
  <2>11. log' = Append(log, count + 1)
    BY <1>6, <2>6, <2>7, <2>10, SameLog
  <2>12. L!Add(count + 1)
    BY <1>9, <2>1, <2>11 DEF L!Add, log, high
  <2> QED  BY <2>4, <2>12 DEF L!Next
<1>18. ASSUME NEW p \in Proc, Sync(p) PROVE L!Next
  <2>1. /\ mode[p] = "written" /\ file' = file
        /\ acked' = acked \cup {<<seq[p] + 1, file[Len(file)].ev>>}
    BY <1>18 DEF Sync
  <2>2. k = Len(file) /\ seq[p] + 1 = Len(file)
    BY <1>1, <1>7, <1>11, <2>1 DEF Kept, ErrorFree
  <2>3. k' = k /\ log' = log
    BY <2>1 DEF k, log
  <2>4. high' \in 0 .. k /\ \A a \in acked' : a[1] <= high'
    BY <1>4, <1>7, <2>3, HighestAcked DEF high
  <2>5. <<k, file[Len(file)].ev>> \in acked'
    BY <2>1, <2>2
  <2>6. k <= high'
    BY <2>4, <2>5
  <2>7. high' = Len(log)
    BY <1>5, <2>4, <2>6
  <2> QED  BY <2>3, <2>7 DEF L!Next, L!Acknowledge, log, high
<1>19. CASE PowerLoss
  <2>1. acked' = acked
    BY <1>19 DEF PowerLoss
  <2>2. /\ Len(file') \in synced .. Len(file)
        /\ \A i \in 1 .. Len(file') : file'[i].ev = file[i].ev
        /\ \/ Len(file') = 0
           \/ file'[Len(file')] = file[Len(file')]
           \/ file'[Len(file')].cut # "line"
    BY <1>19, LossLeaves
  <2>3. k' <= k
    <3>1. CASE Len(file') < Len(file)
      BY <1>6, <1>7, <1>12, <3>1
    <3>2. CASE Len(file') = Len(file)
      BY <1>6, <1>7, <1>12, <1>13, <2>2, <3>2
    <3> QED  BY <1>7, <2>2, <3>1, <3>2 DEF TypeOK
  <2>4. high' = high /\ high <= k'
    <3>1. high' \in 0 .. k'
      BY <1>4, <1>7, HighestAcked DEF high
    <3> QED  BY <1>9, <2>1, <3>1
  <2>5. k' \in high .. Len(log)
    BY <1>5, <1>6, <1>8, <2>3, <2>4
  <2>6. /\ SubSeq(log, 1, k') \in Seq(Event) /\ Len(SubSeq(log, 1, k')) = k'
        /\ \A i \in 1 .. k' : SubSeq(log, 1, k')[i] = log[i]
    <3>1. k' \in 0 .. Len(log) /\ log \in Seq(Event)
      BY <1>5, <1>7, <2>3
    <3> QED  BY <3>1, LogStart
  <2>7. \A i \in 1 .. k' : log'[i] = log[i]
    BY <1>5, <1>6, <1>7, <2>2, <2>3
  <2>8. log' = SubSeq(log, 1, k')
    BY <1>6, <2>6, <2>7, SameLog
  <2> QED  BY <2>4, <2>5, <2>8 DEF L!Next, L!Lose, log, high
<1>20. ASSUME NEW p \in Proc PROVE ~WriteFails(p) /\ ~SyncFails(p)
  BY <1>1 DEF WriteFails, SyncFails
<1> QED  BY <1>15, <1>16, <1>17, <1>18, <1>19, <1>20 DEF Next

\* Until the first I/O error, the file, opened, written, synced, read and cut
\* short by processes and power losses, is the append-only log of EventLog.
THEOREM JournalIsLog == Spec => ImplementsEventLog
<1>1. Init => L!Init
  <2> SUFFICES ASSUME Init PROVE L!Init
    OBVIOUS
  <2>1. /\ file \in Seq(Chunk) /\ Chained(file, Lines(file)) /\ Lines(file) = 0
    BY DEF Init, Chained, Lines
  <2>2. Events(Decoded(file)) \in Seq(Event) /\ Len(Events(Decoded(file))) = 0
    BY <2>1, LogOfChain
  <2>3. Events(Decoded(file)) = << >>
    BY <2>2
  <2>4. acked \in SUBSET (Event \X Event) /\ \A a \in acked : a[1] <= 0
    BY DEF Init
  <2>5. Max({0} \cup {a[1] : a \in acked}) \in 0 .. 0
    BY <2>4, HighestAcked
  <2> QED  BY <2>3, <2>5 DEF L!Init
<1>2. TypeOK /\ Kept /\ [Next]_vars =>
        [faults' = 0 => [L!Next]_(L!vars)]_vars
  BY StepOfLog
<1>3. Spec => [](TypeOK /\ Kept)
  <2>1. JInv => TypeOK /\ Kept
    BY DEF JInv, Inv
  <2> QED  BY <2>1, JournalHolds, PTL
<1> QED  BY <1>1, <1>2, <1>3, PTL DEF Spec, ImplementsEventLog
==============================================================================
