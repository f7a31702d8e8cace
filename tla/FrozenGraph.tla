----------------------------- MODULE FrozenGraph -----------------------------
(***************************************************************************)
(* The stages of an admitted workflow graph.  The graph is frozen when the *)
(* run is admitted, so everything that reads it takes it as a constant.    *)
(***************************************************************************)
EXTENDS Naturals, Sequences

CONSTANTS
  GraphStages,  (* the frozen graph's stages, in declared order              *)
  NoStage       (* TypeScript null, where a stage was looked for             *)

Stages  == {GraphStages[i] : i \in DOMAIN GraphStages}

(* Where an edge may lead that is no stage (templates declare the first; the *)
(* second only from PRODUCTION_VALIDATION; none declares the third).         *)
Control == {"COMPLETE", "BLOCKED", "CANCELLED"}

ASSUME FrozenGraphAssumption ==
  /\ GraphStages \in Seq(Stages)
  /\ NoStage \notin Stages \cup Control
  /\ Stages \cap Control = {}

(* The first of a set of positions, as a set: empty when the set is.         *)
First(S) == {i \in S : \A j \in S : i <= j}
=============================================================================
