--------------------------- MODULE AppendOnlyLog ---------------------------
(***************************************************************************)
(* What state/src/ndjson.ts promises of a log to whoever replays it: the   *)
(* lines a reader can parse only grow, one at a time, and none is changed  *)
(* or lost by a crash or a repair.                                         *)
(***************************************************************************)
EXTENDS Naturals, Sequences

VARIABLE lines

Init == lines = <<>>

Next ==
  /\ Len(lines') = Len(lines) + 1
  /\ SubSeq(lines', 1, Len(lines)) = lines

Spec == Init /\ [][Next]_lines
=============================================================================
