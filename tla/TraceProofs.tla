------------------------------ MODULE TraceProofs ------------------------------
(***************************************************************************)
(* EventLog's promise for any number of appends and kills: LogInv is       *)
(* inductive.  The reader's sequence numbers stay below what the writer    *)
(* counts with, and every Event lost is paid for by a kill, a file whose   *)
(* last line has no newline owing one more.                                *)
(***************************************************************************)
EXTENDS EventLog, FiniteSetTheorems, NaturalBounds

LineShape == [seq : Nat, event : Nat]

LogTypeOK ==
  /\ lines \in Seq(LineShape)
  /\ ended \in BOOLEAN /\ open \in BOOLEAN
  /\ seq \in Nat /\ appends \in Nat /\ killed \in Nat
  /\ written \in SUBSET (1..appends)

(* An unended line exists, and its append never returned.                   *)
UnendedInv == ~ended => lines # << >> /\ lines[Len(lines)].event \notin written

Owed == IF ended THEN 0 ELSE 1

(* The writer counts on from the last line a reader can read.               *)
CountInv == open => \A i \in Readable : lines[i].seq <= seq

LogInv ==
  /\ LogTypeOK /\ UnendedInv /\ CountInv /\ Increasing
  /\ Cardinality(Lost) + Owed <= killed

LEMMA LineFields ==
  ASSUME LogTypeOK
  PROVE  /\ Len(lines) \in Nat
         /\ \A i \in 1..Len(lines) : lines[i].seq \in Nat
         /\ \A i \in Readable : i \in 1..Len(lines) /\ lines[i].seq \in Nat
<1>1. Len(lines) \in Nat /\ \A i \in 1..Len(lines) : lines[i] \in LineShape
  BY DEF LogTypeOK
<1>2. \A line \in LineShape : line.seq \in Nat
  BY DEF LineShape
<1>3. QED BY <1>1, <1>2 DEF Readable

(* A file that has a readable line has a last one.                          *)
LEMMA LastReadable ==
  ASSUME LogTypeOK, Readable # {} PROVE \E i \in Readable : \A j \in Readable : j <= i
<1>1. Len(lines) \in Nat /\ Readable \in SUBSET (1..Len(lines))
  BY LineFields
<1>2. QED BY <1>1, BoundedGreatest

(* Lost is finite, so that one more line lost is one more Event.            *)
LEMMA LostFinite ==
  ASSUME LogTypeOK PROVE IsFiniteSet(Lost) /\ Cardinality(Lost) \in Nat
<1>1. IsFiniteSet(1..appends)
  BY FS_Interval DEF LogTypeOK
<1>2. Lost \subseteq 1..appends
  BY DEF Lost, LogTypeOK
<1>3. QED BY <1>1, <1>2, FS_Subset, FS_CardinalityType

(* What the file looks like after one more write: the new number is beyond  *)
(* all others, and only a line without its newline is damaged.              *)
LEMMA ExtendedLines ==
  ASSUME LogInv, open, NEW line \in LineShape, line.seq \in {Unreadable, seq + 1},
         lines' = Extended(line)
  PROVE  /\ lines' \in Seq(LineShape) /\ lines' # << >>
         /\ Increasing'
         /\ \A i \in Readable' : lines'[i].seq <= seq + 1
         /\ ended => /\ Len(lines') = Len(lines) + 1
                     /\ lines'[Len(lines')] = line
                     /\ \A i \in Readable : i \in Readable' /\ lines'[i] = lines[i]
         /\ ~ended => /\ Len(lines') = Len(lines)
                      /\ lines'[Len(lines')] = Garbled
                      /\ \A i \in Readable : i # Len(lines) => i \in Readable' /\ lines'[i] = lines[i]
<1>1. CASE ended
  <2>1. lines' = Append(lines, line)
    BY <1>1 DEF Extended
  <2>2. /\ lines' \in Seq(LineShape) /\ Len(lines') = Len(lines) + 1
        /\ lines'[Len(lines) + 1] = line
        /\ \A i \in 1..Len(lines) : lines'[i] = lines[i]
    BY <2>1 DEF LogInv, LogTypeOK
  <2>3. Readable \subseteq Readable' /\ Readable' \subseteq Readable \cup {Len(lines) + 1}
    BY <2>2 DEF Readable, LogInv, LogTypeOK
  <2>4. \A i \in Readable' : i \in Readable \/ (i = Len(lines) + 1 /\ lines'[i].seq = seq + 1)
    BY <2>2, <2>3 DEF Readable, LogInv, LogTypeOK
  <2>5. \A i \in Readable : i \in 1..Len(lines) /\ lines[i].seq \in Nat /\ lines[i].seq <= seq
    BY LineFields DEF LogInv, CountInv
  <2>6. Increasing' /\ \A i \in Readable' : lines'[i].seq <= seq + 1
    BY <2>2, <2>4, <2>5 DEF Increasing, LogInv, LogTypeOK
  <2>7. QED BY <1>1, <2>2, <2>3, <2>6 DEF Readable, LogInv, LogTypeOK
<1>2. CASE ~ended
  <2>1. lines' = [lines EXCEPT ![Len(lines)] = Garbled] /\ lines # << >>
    BY <1>2 DEF Extended, LogInv, UnendedInv
  <2>2. /\ lines' \in Seq(LineShape) /\ Len(lines') = Len(lines)
        /\ lines'[Len(lines)] = Garbled
        /\ \A i \in 1..Len(lines) : i # Len(lines) => lines'[i] = lines[i]
        /\ Len(lines) \in Nat \ {0}
    BY <2>1 DEF LogInv, LogTypeOK, Garbled, Line, Unreadable, LineShape
  <2>3. Readable' = Readable \ {Len(lines)}
    BY <2>2 DEF Readable, Garbled, Line
  <2>4. \A i \in Readable' : lines'[i] = lines[i]
    BY <2>2, <2>3 DEF Readable
  <2>5. \A i \in Readable : lines[i].seq \in Nat /\ lines[i].seq <= seq
    BY LineFields DEF LogInv, CountInv
  <2>6. Increasing' /\ \A i \in Readable' : lines'[i].seq <= seq + 1
    BY <2>3, <2>4, <2>5 DEF Increasing, LogInv, LogTypeOK
  <2>7. QED BY <1>2, <2>2, <2>3, <2>4, <2>6 DEF LogInv, LogTypeOK
<1>3. QED BY <1>1, <1>2

(* An append that returns costs the file an Event, its own, only where it   *)
(* meets a torn line.                                                       *)
LEMMA AppendInv ==
  ASSUME LogInv, AppendRecord PROVE LogInv'
<1> DEFINE new == Line(seq + 1, appends + 1)
<1>1. /\ open /\ new \in LineShape /\ new.seq = seq + 1 /\ new.event = appends + 1
      /\ lines' = Extended(new)
      /\ ended' = TRUE /\ seq' = seq + 1 /\ appends' = appends + 1
      /\ written' = written \cup {appends + 1} /\ open' = open /\ killed' = killed
  BY DEF AppendRecord, Line, LineShape, LogInv, LogTypeOK
<1> HIDE DEF new
<1>2. /\ lines' \in Seq(LineShape) /\ Increasing'
      /\ \A i \in Readable' : lines'[i].seq <= seq'
  BY <1>1, ExtendedLines
<1>3. LogTypeOK'
  BY <1>1, <1>2 DEF LogInv, LogTypeOK
<1>4. UnendedInv' /\ CountInv' /\ Owed' = 0
  BY <1>1, <1>2 DEF UnendedInv, CountInv, Owed
<1>5. Cardinality(Lost') <= killed' /\ Cardinality(Lost') \in Nat
  <2>1. CASE ended
    <3>1. /\ Len(lines') = Len(lines) + 1 /\ lines'[Len(lines')] = new
          /\ \A i \in Readable : i \in Readable' /\ lines'[i] = lines[i]
      BY <1>1, <2>1, ExtendedLines
    <3>2. Len(lines') \in Readable'
      BY <1>1, <1>2, <3>1 DEF Readable, Unreadable, LogInv, LogTypeOK
    <3>3. Lost' \subseteq Lost
      BY <1>1, <3>1, <3>2 DEF Lost
    <3>4. Cardinality(Lost') <= Cardinality(Lost)
      BY <3>3, LostFinite, FS_Subset DEF LogInv
    <3>5. Cardinality(Lost) \in Nat /\ Cardinality(Lost') \in Nat
      BY <3>3, LostFinite, FS_Subset, FS_CardinalityType DEF LogInv
    <3>6. QED BY <1>1, <2>1, <3>4, <3>5 DEF LogInv, LogTypeOK, Owed
  <2>2. CASE ~ended
    <3>1. \A i \in Readable : i # Len(lines) => i \in Readable' /\ lines'[i] = lines[i]
      BY <1>1, <2>2, ExtendedLines
    <3>2. lines[Len(lines)].event \notin written
      BY <2>2 DEF LogInv, UnendedInv
    <3>3. Lost' \subseteq Lost \cup {appends + 1}
      BY <1>1, <3>1, <3>2 DEF Lost
    <3>4. IsFiniteSet(Lost) /\ Cardinality(Lost) \in Nat
      BY LostFinite DEF LogInv
    <3>5. /\ IsFiniteSet(Lost \cup {appends + 1})
          /\ Cardinality(Lost \cup {appends + 1}) <= Cardinality(Lost) + 1
      BY <3>4, FS_AddElement
    <3>6. Cardinality(Lost') <= Cardinality(Lost \cup {appends + 1})
      BY <3>3, <3>5, FS_Subset
    <3>7. Cardinality(Lost \cup {appends + 1}) \in Nat /\ Cardinality(Lost') \in Nat
      BY <1>3, <3>5, FS_CardinalityType, LostFinite, FS_Subset, <3>3
    <3>8. QED BY <1>1, <2>2, <3>4, <3>5, <3>6, <3>7 DEF LogInv, LogTypeOK, Owed
  <2>3. QED BY <2>1, <2>2
<1>6. QED BY <1>2, <1>3, <1>4, <1>5 DEF LogInv

(* A kill inside append() pays for the Event of the line it tears, now or   *)
(* at the next append; one that is torn already had never returned.         *)
LEMMA TornInv ==
  ASSUME LogInv, Torn PROVE LogInv'
<1>1. PICK line \in {Garbled, Line(seq + 1, appends + 1)} : lines' = Extended(line)
  BY DEF Torn
<1>2. /\ line \in LineShape /\ line.seq \in {Unreadable, seq + 1}
      /\ line.event \in {0, appends + 1}
  BY <1>1 DEF Garbled, Line, LineShape, Unreadable, LogInv, LogTypeOK
<1>3. /\ open /\ ended' = FALSE /\ open' = FALSE /\ seq' = 0
      /\ appends' = appends + 1 /\ written' = written /\ killed' = killed + 1
  BY DEF Torn, Kill
<1>4. lines' \in Seq(LineShape) /\ lines' # << >> /\ Increasing'
  BY <1>1, <1>2, <1>3, ExtendedLines
<1>5. LogTypeOK' /\ CountInv' /\ Owed' = 1
  <2>1. written' \in SUBSET (1..appends')
    BY <1>3 DEF LogInv, LogTypeOK
  <2>2. ended' \in BOOLEAN /\ open' \in BOOLEAN
    BY <1>3
  <2>3. seq' \in Nat /\ appends' \in Nat /\ killed' \in Nat
    BY <1>3 DEF LogInv, LogTypeOK
  <2>4. LogTypeOK'
    BY <1>4, <2>1, <2>2, <2>3 DEF LogTypeOK
  <2>5. CountInv' /\ Owed' = 1
    BY <1>3 DEF CountInv, Owed
  <2>6. QED BY <2>4, <2>5
<1>6. lines'[Len(lines')].event \notin written'
  <2>1. lines'[Len(lines')].event \in {0, appends + 1}
    BY <1>1, <1>2, <1>3, ExtendedLines DEF Garbled, Line
  <2>2. QED BY <1>3, <2>1 DEF LogInv, LogTypeOK
<1>7. Lost' \subseteq Lost
  <2>1. \A i \in Readable : lines[i].event \in written => i \in Readable' /\ lines'[i] = lines[i]
    BY <1>1, <1>2, <1>3, ExtendedLines DEF LogInv, UnendedInv
  <2>2. QED BY <1>3, <2>1 DEF Lost
<1>8. Cardinality(Lost') <= Cardinality(Lost) /\ Cardinality(Lost) \in Nat /\ Cardinality(Lost') \in Nat
  <2>1. IsFiniteSet(Lost) /\ Cardinality(Lost) \in Nat
    BY LostFinite DEF LogInv
  <2>2. QED BY <1>7, <2>1, FS_Subset, FS_CardinalityType
<1>9. Cardinality(Lost') + Owed' <= killed'
  BY <1>3, <1>5, <1>8 DEF LogInv, LogTypeOK, Owed
<1>10. QED BY <1>4, <1>5, <1>6, <1>9 DEF LogInv, UnendedInv

(* Reopening finds the number to go on from.                                *)
LEMMA ReopenInv ==
  ASSUME LogInv, Reopen PROVE LogInv'
<1>1. \A i \in Readable : i \in 1..Len(lines) /\ lines[i].seq \in Nat
  BY LineFields DEF LogInv
<1>2. Readable # {} => \E i \in Readable : \A j \in Readable : j <= i
  BY LastReadable DEF LogInv
<1>3. seq' \in Nat /\ \A i \in Readable : lines[i].seq <= seq'
  BY <1>1, <1>2 DEF Reopen, LastSeq, LogInv, Increasing
<1>4. Readable' = Readable /\ Lost' = Lost /\ Owed' = Owed /\ killed' = killed
  BY DEF Reopen, Readable, Lost, Owed
<1>5. LogTypeOK' /\ UnendedInv' /\ CountInv' /\ Increasing'
  BY <1>3, <1>4 DEF Reopen, LogInv, LogTypeOK, UnendedInv, CountInv, Increasing
<1>6. QED BY <1>4, <1>5 DEF LogInv

(* A process that ends takes nothing with it, and neither does a stutter.   *)
LEMMA FileStays ==
  ASSUME LogInv, UNCHANGED <<lines, ended, appends, written, killed>>,
         open' \in BOOLEAN, seq' \in Nat, open' => open /\ seq' = seq
  PROVE  LogInv'
<1>1. Readable' = Readable /\ Lost' = Lost /\ Owed' = Owed
  BY DEF Readable, Lost, Owed
<1>2. LogTypeOK' /\ UnendedInv' /\ CountInv' /\ Increasing'
  BY <1>1 DEF LogInv, LogTypeOK, UnendedInv, CountInv, Increasing
<1>3. QED BY <1>1, <1>2 DEF LogInv

(* LogInv holds in every state of the file and of its writers.              *)
THEOREM LogInvHolds == LogSpec => []LogInv
<1>1. LogInit => LogInv
  <2> SUFFICES ASSUME LogInit PROVE LogInv
    OBVIOUS
  <2>2. Lost = {} /\ Readable = {}
    <3>1. Len(lines) = 0
      BY DEF LogInit
    <3>2. QED BY <3>1 DEF LogInit, Lost, Readable
  <2>3. LogTypeOK /\ UnendedInv /\ CountInv /\ Increasing
    <3>1. lines \in Seq(LineShape) /\ written \in SUBSET (1..appends)
      BY DEF LogInit
    <3>2. ended \in BOOLEAN /\ open \in BOOLEAN /\ seq \in Nat /\ appends \in Nat /\ killed \in Nat
      BY DEF LogInit
    <3>3. UnendedInv /\ CountInv /\ Increasing
      BY <2>2 DEF LogInit, UnendedInv, CountInv, Increasing
    <3>4. QED BY <3>1, <3>2, <3>3 DEF LogTypeOK
  <2>4. Cardinality(Lost) = 0 /\ Owed = 0 /\ killed = 0
    BY <2>2, FS_EmptySet DEF LogInit, Owed
  <2>5. QED BY <2>3, <2>4 DEF LogInv
<1>2. LogInv /\ [LogNext]_logVars => LogInv'
  <2> SUFFICES ASSUME LogInv, [LogNext]_logVars PROVE LogInv'
    OBVIOUS
  <2>2. CASE Close
    BY <2>2, FileStays DEF Close, LogInv, LogTypeOK
  <2>3. CASE UNCHANGED logVars
    BY <2>3, FileStays DEF logVars, LogInv, LogTypeOK
  <2>4. QED BY <2>2, <2>3, AppendInv, TornInv, ReopenInv DEF LogNext
<1>3. QED BY <1>1, <1>2, PTL DEF LogSpec

(* The trace's numbers increase strictly through any number of kills and    *)
(* resumes, and a kill costs at most one Event that had been written.       *)
THEOREM TraceRecoversHolds == LogSpec => []TraceRecovers
<1>1. LogInv => TraceRecovers
  <2>1. LogInv => Cardinality(Lost) \in Nat
    BY LostFinite DEF LogInv
  <2>2. QED BY <2>1 DEF LogInv, TraceRecovers, Owed, LogTypeOK
<1>2. QED BY <1>1, LogInvHolds, PTL
=============================================================================
