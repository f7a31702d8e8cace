------------------------------ MODULE EntryStage ------------------------------
(***************************************************************************)
(* Where a run starts: core/src/entry-stage.ts.  Each stage of the frozen  *)
(* graph, in declared order, is classified by its own reality predicate;   *)
(* the run enters behind the last stage observed done, and blocks instead  *)
(* of repeating or dropping a mutation nobody can account for.             *)
(*                                                                         *)
(* A classification is [stage, value, status].                             *)
(***************************************************************************)
EXTENDS WorkflowGraph, Predicates

(* Mutant: an unread mutating stage is run again.                            *)
SaferBranchTakes(value, mutating, discoverable) == "TAKE"

(* What an INDETERMINATE predicate means for a stage.                        *)
SaferBranch(value, mutating, discoverable) ==
  CASE value # "INDETERMINATE" \/ ~mutating -> "TAKE"
    [] value = "INDETERMINATE" /\ mutating /\ discoverable -> "DISCOVER"
    [] OTHER -> "BLOCK_AMBIGUOUS_STATE"

(* A stage with no predicate can never be shown done.                        *)
StageValue(stage, in, reprobed) ==
  IF SatisfiedBy[stage] = NoPredicate
    THEN "FALSE"
    ELSE EvaluateFresh(SatisfiedBy[stage], [in EXCEPT !.stage = stage], reprobed)

NeedsDiscovery(stage, value) ==
  SaferBranch(value, stage \in Mutating, TRUE) = "DISCOVER"

(* `value' is the predicate's, after the targeted probe where one was made.  *)
Classify(stage, value, discovered) ==
  [stage  |-> stage,
   value  |-> value,
   status |-> CASE value = "TRUE"  -> "DONE"
                [] value = "FALSE" -> "NOT_DONE"
                [] OTHER -> IF discovered THEN "AMBIGUOUS" ELSE "NOT_DONE"]

LastPrior(classified) ==
  LET done == {i \in DOMAIN classified : classified[i].status = "DONE"}
  IN  IF done = {} THEN 0 ELSE CHOOSE i \in done : \A j \in done : j <= i

(* Mutant: a mutation observably absent before a later one is passed over.   *)
ContradictionsIgnored(classified) == {}

(* Mutations observably absent although a later stage is observably done.    *)
Contradictions(classified) ==
  {i \in 1..(LastPrior(classified) - 1) :
     /\ classified[i].status # "DONE"
     /\ classified[i].stage \in Mutating
     /\ SatisfiedBy[classified[i].stage] # NoPredicate
     /\ classified[i].value = "FALSE"}

(* Mutant: the first stage not done, whatever is done behind it.             *)
EntryIndexFirst(classified) ==
  CHOOSE i \in DOMAIN classified :
    /\ classified[i].status = "NOT_DONE"
    /\ \A j \in 1..(i - 1) : classified[j].status # "NOT_DONE"

EntryIndex(classified) ==
  LET ahead == {i \in (LastPrior(classified) + 1)..Len(classified) :
                  classified[i].status = "NOT_DONE"}
  IN  IF ahead = {} THEN Len(classified) ELSE CHOOSE i \in ahead : \A j \in ahead : i <= j

(* Mutations between there and the entry that may or may not have happened.  *)
Ambiguities(classified) ==
  {i \in (LastPrior(classified) + 1)..(EntryIndex(classified) - 1) :
     classified[i].status = "AMBIGUOUS"}

ComputeEntryStage(classified) ==
  IF Contradictions(classified) # {} \/ Ambiguities(classified) # {}
    THEN [outcome |-> "BLOCKED", entry |-> NoStageAsked, prior |-> {}]
    ELSE [outcome |-> "ENTRY",
          entry   |-> classified[EntryIndex(classified)].stage,
          prior   |-> {c.stage : c \in {d \in ToSet(classified) : d.status = "DONE"}}]
=============================================================================
