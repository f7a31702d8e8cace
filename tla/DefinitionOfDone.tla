-------------------------- MODULE DefinitionOfDone --------------------------
(***************************************************************************)
(* The completion verdict of one run: core/src/dod.ts.                     *)
(*                                                                         *)
(* At COMPLETION the kernel turns the verdicts that the accepted envelopes *)
(* supplied into one of four answers.  This module is that computation and *)
(* nothing else: it has no state, and RunLoop and VerdictCollection are    *)
(* the modules whose actions call it.                                      *)
(***************************************************************************)
EXTENDS FrozenGraph

CONSTANTS
  OwedBy,               (* stage descriptor -> criteria it owes (dod_criteria) *)
  Profile,              (* the DoD profile's criteria, in profile order       *)
  PrologueCriteria,     (* owed by the CONTEXT_DISCOVERY dispatch, no stage   *)
  Critical,             (* the profile's critical_criteria                    *)
  NotApplicableDefault, (* criteria the profile sets aside by default         *)
  NoVerdict             (* no accepted envelope carries the criterion         *)

Criteria == {Profile[i] : i \in DOMAIN Profile}

Verdicts == {"MET", "NOT_MET", "NOT_VALIDATED", "NOT_APPLICABLE"}

(* What collectVerdicts returns: the last verdict supplied per criterion.    *)
Collected == [Criteria -> Verdicts \cup {NoVerdict}]

ASSUME DodAssumption ==
  /\ Profile \in Seq(Criteria)
  /\ DOMAIN OwedBy \subseteq Stages
  /\ PrologueCriteria \subseteq Criteria
  /\ Critical \subseteq Criteria
  /\ NotApplicableDefault \subseteq Criteria
  /\ NoVerdict \notin Verdicts

-----------------------------------------------------------------------------
(* An accepted envelope's dod_verdicts: any verdicts, on criteria its stage   *)
(* owes (crossfield.ts refuses the others).                                  *)
SuppliedOn(owed) == UNION {[S -> Verdicts] : S \in SUBSET (owed \cap Criteria)}

(* Mutant: only what the last envelope said is kept.                         *)
SupersedeForgets(collected, supplied) == [c \in DOMAIN supplied |-> supplied[c]]

(* An envelope's verdicts supersede what earlier envelopes said: the last    *)
(* word on a criterion is the one that counts.                               *)
Supersede(collected, supplied) ==
  [c \in Criteria |-> IF c \in DOMAIN supplied THEN supplied[c]
                                               ELSE collected[c]]

(* The stages of the graph whose descriptor owes a criterion, and the first  *)
(* of them.                                                                  *)
OwningPositions(c) ==
  {i \in DOMAIN GraphStages :
     /\ GraphStages[i] \in DOMAIN OwedBy
     /\ c \in OwedBy[GraphStages[i]]}

StageOwning(c) ==
  IF OwningPositions(c) = {}
    THEN NoStage
    ELSE GraphStages[CHOOSE i \in First(OwningPositions(c)) : TRUE]

(* Mutant: a criterion nobody answered for is not held against the run.      *)
VerdictOfLenient(collected, c) ==
  IF collected[c] # NoVerdict THEN collected[c] ELSE "NOT_APPLICABLE"

(* The verdict the report carries: supplied, else set aside by the profile,  *)
(* else NOT_VALIDATED.  COMPLETED_PRIOR changes the wording of the reason    *)
(* and not the verdict.                                                      *)
VerdictOf(collected, c) ==
  CASE collected[c] # NoVerdict      -> collected[c]
    [] /\ collected[c] = NoVerdict
       /\ c \in NotApplicableDefault -> "NOT_APPLICABLE"
    [] OTHER                         -> "NOT_VALIDATED"

NotMet(collected) ==
  {c \in Criteria : VerdictOf(collected, c) = "NOT_MET"}

NotValidated(collected) ==
  {c \in Criteria : VerdictOf(collected, c) = "NOT_VALIDATED"}

UnmetCritical(collected) ==
  (NotMet(collected) \cup NotValidated(collected)) \cap Critical

(* Mutant: a failed criterion without a stage is called unobtainable.        *)
UnobtainableFailed(collected) ==
  {c \in NotMet(collected) : StageOwning(c) = NoStage}

(* A criterion nobody validated and no stage of this graph can.              *)
Unobtainable(collected) ==
  {c \in NotValidated(collected) : StageOwning(c) = NoStage}

(* Mutant: INDETERMINATE is decided over every criterion, critical or not.   *)
CompletionVerdictStrict(collected) ==
  CASE NotMet(collected) \cup NotValidated(collected) = {} -> "COMPLETE"
    [] NotMet(collected) = {} /\ NotValidated(collected) # {} -> "INDETERMINATE"
    [] NotMet(collected) # {} /\ UnmetCritical(collected) # {} -> "INCOMPLETE"
    [] OTHER -> "COMPLETE_WITH_GAPS"

CompletionVerdict(collected) ==
  CASE NotMet(collected) \cup NotValidated(collected) = {} -> "COMPLETE"
    [] /\ UnmetCritical(collected) # {}
       /\ UnmetCritical(collected) \subseteq Unobtainable(collected)
         -> "INDETERMINATE"
    [] /\ UnmetCritical(collected) # {}
       /\ ~(UnmetCritical(collected) \subseteq Unobtainable(collected))
         -> "INCOMPLETE"
    [] OTHER -> "COMPLETE_WITH_GAPS"

(* Mutant: a run is routed back for criteria that hold nothing up.           *)
OwedPositionsOfAny(unmet) ==
  {i \in DOMAIN Profile : /\ Profile[i] \in unmet
                          /\ StageOwning(Profile[i]) # NoStage}

(* Where an INCOMPLETE run goes back to: the first unmet critical criterion  *)
(* some stage owns, the NOT_MET ones before the NOT_VALIDATED ones.          *)
OwedPositions(unmet) ==
  {i \in DOMAIN Profile : /\ Profile[i] \in unmet \cap Critical
                          /\ StageOwning(Profile[i]) # NoStage}

RouteBackTo(collected) ==
  LET notMet       == OwedPositions(NotMet(collected))
      notValidated == OwedPositions(NotValidated(collected))
      pick(S)      == StageOwning(Profile[CHOOSE i \in First(S) : TRUE])
  IN  CASE CompletionVerdict(collected) # "INCOMPLETE" -> NoStage
        [] /\ CompletionVerdict(collected) = "INCOMPLETE"
           /\ notMet # {} -> pick(notMet)
        [] /\ CompletionVerdict(collected) = "INCOMPLETE"
           /\ notMet = {} /\ notValidated # {} -> pick(notValidated)
        [] OTHER -> NoStage
=============================================================================
