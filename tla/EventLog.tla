------------------------------ MODULE EventLog ------------------------------
(***************************************************************************)
(* One NDJSON file (state/src/ndjson.ts) and the events a journal writes   *)
(* to it (core/src/journal.ts).  A log is its complete lines and whether   *)
(* the file ends in the middle of one: the bytes of that partial line are  *)
(* never parsed, so they are left out.  Payloads are left out but for the  *)
(* fields that replaying a log reads.                                      *)
(***************************************************************************)
EXTENDS Naturals, Sequences, SequencesExt

EmptyLog == [lines |-> <<>>, torn |-> FALSE]

NoStage == "NONE"

(* kind: the event's; d: the dispatch it is about, 0 for none; from and to:
   its stages, where it has them; n: a value, where it has one.              *)
Event(kind, d, from, to, n) ==
  [kind |-> kind, d |-> d, from |-> from, to |-> to, n |-> n, seq |-> 0]

Numbered(event, seq) == [event EXCEPT !.seq = seq]

(* Mutant: the tail is not looked at.                                        *)
AssumeNewline(log) == TRUE

(* What append asks first: of any other log it refuses, and throws.          *)
EndsWithNewline(log) == ~log.torn

(* The bytes go to the end of the file, whatever is there.                   *)
Appended(log, event) ==
  [lines |-> Append(log.lines, IF log.torn THEN Event("corrupt", 0, NoStage, NoStage, 0)
                               ELSE event),
   torn  |-> FALSE]

(* What a crash in the middle of writeSync leaves.                           *)
Tear(log) == [log EXCEPT !.torn = TRUE]

LastSeq(log) == Max({0} \cup {log.lines[i].seq : i \in DOMAIN log.lines})

(* Mutant: the last complete line is dropped with the partial one.           *)
CutOneTooMany(log) == [lines |-> Front(log.lines), torn |-> FALSE]

(* truncatePartialLine, of a log that is torn.                               *)
Truncated(log) == [log EXCEPT !.torn = FALSE]
=============================================================================
