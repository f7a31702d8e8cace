------------------------- MODULE VerdictCollection -------------------------
(***************************************************************************)
(* The accepted envelopes of one run, seen from its Definition of Done.    *)
(* Every envelope a stage returns carries verdicts on criteria that stage  *)
(* owes (core/src/crossfield.ts refuses the others), and each supersedes   *)
(* what was said before.  The state is what collectVerdicts would return   *)
(* now; the properties relate it to the verdict computeDod would give.     *)
(***************************************************************************)
EXTENDS DefinitionOfDone, FiniteSets

VARIABLE collected

InitVerdicts ==
  \E supplied \in SuppliedOn(PrologueCriteria) :
    collected = Supersede([c \in Criteria |-> NoVerdict], supplied)

ReceiveEnvelope(stage) ==
  \E supplied \in SuppliedOn(OwedBy[stage]) :
    collected' = Supersede(collected, supplied)

NextVerdicts == \E stage \in DOMAIN OwedBy : ReceiveEnvelope(stage)

CollectionSpec == InitVerdicts /\ [][NextVerdicts]_collected

-----------------------------------------------------------------------------
(* Every criterion has one collected verdict, or none.                       *)
CollectedTyped == collected \in Collected

Done(col) == CompletionVerdict(col) \in {"COMPLETE", "COMPLETE_WITH_GAPS"}

(* A run is only sent back to a stage of its own graph that owes a critical  *)
(* criterion still unmet, so that a lap there can change the answer          *)
(* (dod.ts computeDod, kernel.ts complete).                                  *)
RouteBackCanHelp ==
  RouteBackTo(collected) # NoStage =>
    /\ RouteBackTo(collected) \in Stages
    /\ \E c \in UnmetCritical(collected) : c \in OwedBy[RouteBackTo(collected)]

(* INCOMPLETE leaves a run with nowhere to go back to only when what is      *)
(* unmet is owned by no stage of the graph and something was found NOT_MET:  *)
(* a criterion of the prologue.  Otherwise it names a stage.                 *)
IncompleteNamesAStage ==
  /\ CompletionVerdict(collected) = "INCOMPLETE"
  /\ RouteBackTo(collected) = NoStage
  => /\ \A c \in UnmetCritical(collected) : StageOwning(c) = NoStage
     /\ UnmetCritical(collected) \cap NotMet(collected) # {}

(* Improving a verdict never undoes completion: no computation in which      *)
(* fewer criteria are unmet is less complete (rework laps can only help).    *)
ImprovingNeverUndoes ==
  [][ /\ Done(collected)
      /\ NotMet(collected)' \subseteq NotMet(collected)
      /\ NotValidated(collected)' \subseteq NotValidated(collected)
      => Done(collected)' ]_collected
=============================================================================
