------------------------------ MODULE EventLog ------------------------------
(***************************************************************************)
(* The file behind the Event trace (src/caw/events.py): events.jsonl,      *)
(* appended to by the one process that executes or resumes the Run, which  *)
(* may be killed in the middle of a line, and reopened by the next one.    *)
(* EventTrace has what the Events say; here an Event is its number.        *)
(*                                                                         *)
(* Simplifications.  A line is its `seq`, or Unreadable when it does not   *)
(* parse.  `event` and `written` are history: which append a line belongs  *)
(* to, and the appends that returned to the executor.                      *)
(***************************************************************************)
EXTENDS Integers, Sequences, FiniteSets

CONSTANTS
  MaxAppends,  \* bounds the appends begun
  MaxKills     \* bounds the kills

VARIABLES
  lines,    \* the file, one entry a line
  ended,    \* whether the last line has its newline
  open,     \* whether a process has the log open
  seq,      \* EventLog._seq of that process
  appends,  \* appends begun so far
  written,  \* the appends that returned
  killed    \* kills so far

logVars == <<lines, ended, open, seq, appends, written, killed>>

ASSUME LogAssumption == MaxAppends \in Nat /\ MaxKills \in Nat

Unreadable == 0
Line(number, event) == [seq |-> number, event |-> event]
Garbled == Line(Unreadable, 0)
Readable == {i \in 1..Len(lines) : lines[i].seq # Unreadable}

LogInit ==
  /\ lines = << >> /\ ended = TRUE
  /\ open = FALSE /\ seq = 0
  /\ appends = 0 /\ written = {} /\ killed = 0

BugLastSeq == IF lines = << >> THEN 0 ELSE lines[Len(lines)].seq

(* _last_seq: the number of the last line that parses.                      *)
LastSeq ==
  IF Readable = {} THEN 0
  ELSE lines[CHOOSE i \in Readable : \A j \in Readable : j <= i].seq

(* EventLog.__init__, for a fresh Run and for a resume alike.               *)
Reopen ==
  /\ ~open
  /\ open' = TRUE /\ seq' = LastSeq
  /\ UNCHANGED <<lines, ended, appends, written, killed>>

(* What a write of `line` makes of the file: a line of its own, or, when    *)
(* the last line was never ended, more text on that line, which no longer   *)
(* parses even if it did before.                                            *)
Extended(line) ==
  IF ended THEN Append(lines, line) ELSE [lines EXCEPT ![Len(lines)] = Garbled]

(* append(): count, open the file in append mode, write record and newline. *)
AppendRecord ==
  /\ open /\ appends < MaxAppends
  /\ lines' = Extended(Line(seq + 1, appends + 1))
  /\ ended' = TRUE
  /\ seq' = seq + 1
  /\ appends' = appends + 1 /\ written' = written \cup {appends + 1}
  /\ UNCHANGED <<open, killed>>

Kill ==
  /\ open /\ killed < MaxKills
  /\ killed' = killed + 1
  /\ open' = FALSE /\ seq' = 0

(* The process ends, or is killed between two appends.                      *)
Close ==
  /\ open /\ open' = FALSE /\ seq' = 0
  /\ UNCHANGED <<lines, ended, appends, written, killed>>

(* The process is killed inside append(): what reached the file is some of  *)
(* the record, or all of it but the newline.                                *)
Torn ==
  /\ Kill /\ appends < MaxAppends
  /\ \E line \in {Garbled, Line(seq + 1, appends + 1)} : lines' = Extended(line)
  /\ ended' = FALSE
  /\ appends' = appends + 1
  /\ UNCHANGED written

LogNext == Reopen \/ AppendRecord \/ Close \/ Torn
LogSpec == LogInit /\ [][LogNext]_logVars

-----------------------------------------------------------------------------
(* "The sequence numbers are strictly increasing within the file" (class    *)
(* EventLog) for whoever reads it, however often a writer was killed inside *)
(* a line and the log reopened; and each such kill costs the trace at most  *)
(* one Event whose append had returned.                                     *)
Increasing == \A i, j \in Readable : i < j => lines[i].seq < lines[j].seq
Lost == written \ {lines[i].event : i \in Readable}

TraceRecovers == Increasing /\ Cardinality(Lost) <= killed
=============================================================================
