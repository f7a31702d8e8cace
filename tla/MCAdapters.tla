----------------------------- MODULE MCAdapters -----------------------------
(***************************************************************************)
(* Two calls in flight, two dispatches or runs.  The requests: a pull      *)
(* request opened, which is external and is re-read; the same refused, and *)
(* the same replayed; a push undone by its reversal, whose key is its      *)
(* dispatch's; a file read, and read again as a replay.                    *)
(***************************************************************************)
EXTENDS Adapters, TLC

Inside ==
  [text |-> TRUE, ambiguous |-> "", entry |-> "exists", lexical |-> TRUE, real |-> TRUE,
   excluded |-> FALSE, included |-> TRUE, deny |-> {}]
Open ==
  [op |-> "open", mutating |-> TRUE, keyed |-> TRUE, external |-> TRUE, reversible |-> FALSE,
   locatable |-> TRUE, named |-> TRUE, described |-> TRUE, gated |-> TRUE, identified |-> TRUE,
   safe |-> FALSE, verifiable |-> TRUE,
   valid |-> TRUE, path |-> Inside, enabled |-> TRUE, stageMutating |-> TRUE, granted |-> TRUE,
   canEmit |-> TRUE, dispatched |-> TRUE, replay |-> FALSE]
Push == [Open EXCEPT !.op = "push", !.external = FALSE, !.reversible = TRUE]
Read == [Push EXCEPT !.op = "read", !.mutating = FALSE, !.keyed = FALSE, !.safe = TRUE]

MCRequests ==
  {Open, [Open EXCEPT !.replay = TRUE], [Open EXCEPT !.replay = TRUE, !.safe = TRUE], Read, [Read EXCEPT !.replay = TRUE],
   [Read EXCEPT !.path.entry = "broken_link"], [Open EXCEPT !.granted = FALSE]}
MCSymmetry == Permutations(Calls)
=============================================================================
