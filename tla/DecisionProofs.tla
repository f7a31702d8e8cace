---------------------------- MODULE DecisionProofs ---------------------------
(***************************************************************************)
(* What every run of the kernel may rely on in a decision, for every graph *)
(* and every cap, and what the completion verdict means, for every profile *)
(* and every graph: the lemmas the other proofs cite.                      *)
(***************************************************************************)
EXTENDS StateMachine, VerdictCollection, WellFoundedInduction, TLAPS

(* A decision: a transition names an edge, and nothing else does.            *)
Decisions ==
  [kind : KernelActions, edge : Nat, escalate : BOOLEAN]

(* An edge of the graph has the fields of one.                               *)
LEMMA EdgeTyped ==
  ASSUME NEW i \in DOMAIN Edges
  PROVE  Edges[i] \in EdgeType /\ i \in Nat
  BY StateMachineAssumption

(* Follow takes one of the edges it was given, and never one whose loop is   *)
(* exhausted (state-machine.ts advance, decideAction REJECTED).              *)
LEMMA FollowLegal ==
  ASSUME NEW runLoops, NEW workItemLoops, NEW S \in SUBSET DOMAIN Edges
  PROVE  LET a == Follow(S, runLoops, workItemLoops)
         IN  /\ a \in Decisions
             /\ a.kind \in {"TRANSITION", "BLOCK"}
             /\ a.kind = "TRANSITION" =>
                  a.edge \in S /\ ~LoopExhausted(a.edge, runLoops, workItemLoops)
<1> DEFINE Open == {i \in S : ~LoopExhausted(i, runLoops, workItemLoops)}
           chosen == CHOOSE i \in S : ~LoopExhausted(i, runLoops, workItemLoops)
<1>1. CASE \E i \in S : ~LoopExhausted(i, runLoops, workItemLoops)
  <2>1. chosen \in S /\ ~LoopExhausted(chosen, runLoops, workItemLoops)
    BY <1>1
  <2>2. chosen \in Nat
    BY <2>1, EdgeTyped
  <2>3. Follow(S, runLoops, workItemLoops) = Transition(chosen)
    BY <1>1 DEF Follow
  <2> HIDE DEF chosen
  <2> QED
    BY <2>1, <2>2, <2>3 DEF Transition, Decisions, KernelActions
<1>2. CASE ~ \E i \in S : ~LoopExhausted(i, runLoops, workItemLoops)
  BY <1>2 DEF Follow, Block, Decisions, KernelActions
<1> QED
  BY <1>1, <1>2

(* The first of a set of positions is one of them.                           *)
LEMMA FirstSubset ==
  ASSUME NEW S
  PROVE  First(S) \subseteq S
  BY DEF First

(* A COMPLETE envelope follows an edge out of its own stage.                 *)
LEMMA AdvanceLegal ==
  ASSUME NEW s, NEW val, NEW runLoops, NEW workItemLoops
  PROVE  LET a == Advance(s, val, runLoops, workItemLoops)
         IN  /\ a \in Decisions
             /\ a.kind = "TRANSITION" =>
                  /\ a.edge \in EdgesFrom(s)
                  /\ ~LoopExhausted(a.edge, runLoops, workItemLoops)
<1>1. EdgesFrom(s) \in SUBSET DOMAIN Edges
  BY DEF EdgesFrom
<1>2. Chosen(s, val) \subseteq EdgesFrom(s)
  BY FirstSubset DEF Chosen, EdgesWorth, Unconditional, ConditionEdges
<1>3. Block \in Decisions /\ Block.kind # "TRANSITION"
  BY DEF Block, Decisions, KernelActions
<1>4. Redispatch(FALSE) \in Decisions /\ Redispatch(FALSE).kind # "TRANSITION"
  BY DEF Redispatch, Decisions, KernelActions
<1>5. Advance(s, val, runLoops, workItemLoops) \in
        {Block, Redispatch(FALSE), Follow(Chosen(s, val), runLoops, workItemLoops)}
  BY DEF Advance
<1>6. Chosen(s, val) \in SUBSET DOMAIN Edges
  BY <1>1, <1>2
<1> DEFINE Legal(a) == /\ a \in Decisions
                       /\ a.kind = "TRANSITION" =>
                            /\ a.edge \in EdgesFrom(s)
                            /\ ~LoopExhausted(a.edge, runLoops, workItemLoops)
<1>7. Legal(Follow(Chosen(s, val), runLoops, workItemLoops))
  BY <1>2, <1>6, FollowLegal
<1>8. Legal(Block) /\ Legal(Redispatch(FALSE))
  BY <1>3, <1>4
<1>9. Legal(Advance(s, val, runLoops, workItemLoops))
  <2> HIDE DEF Legal
  <2> QED
    BY <1>5, <1>7, <1>8
<1> QED
  BY <1>9

(* Whatever the envelope, the kernel takes exactly one of its four actions;  *)
(* a transition it takes is an edge of the graph whose loop is not           *)
(* exhausted, and leaves from the stage the run is at, or is the loop from   *)
(* IMPLEMENTATION back to ARCHITECTURE (state-machine.ts decideAction).      *)
THEOREM DecideActionLegal ==
  ASSUME NEW s, NEW env \in EnvelopeView, NEW val, NEW attempt \in Nat,
         NEW escalated \in BOOLEAN, NEW runLoops, NEW workItemLoops
  PROVE  LET a == DecideAction(s, env, val, attempt, escalated, runLoops,
                               workItemLoops)
         IN  /\ a \in Decisions
             /\ a.kind = "TRANSITION" =>
                  /\ a.edge \in DOMAIN Edges
                  /\ ~LoopExhausted(a.edge, runLoops, workItemLoops)
                  /\ \/ Edges[a.edge].from = s
                     \/ /\ Edges[a.edge].from = "IMPLEMENTATION"
                        /\ Edges[a.edge].to = "ARCHITECTURE"
<1> DEFINE a == DecideAction(s, env, val, attempt, escalated, runLoops,
                             workItemLoops)
           Legal(act) == /\ act \in Decisions
                         /\ act.kind = "TRANSITION" =>
                              /\ act.edge \in DOMAIN Edges
                              /\ ~LoopExhausted(act.edge, runLoops, workItemLoops)
                              /\ \/ Edges[act.edge].from = s
                                 \/ /\ Edges[act.edge].from = "IMPLEMENTATION"
                                    /\ Edges[act.edge].to = "ARCHITECTURE"
<1>1. Legal(Block) /\ Legal(Reresolution)
  BY DEF Block, Reresolution, Decisions, KernelActions
<1>2. \A up \in BOOLEAN : Legal(Redispatch(up))
  BY DEF Redispatch, Decisions, KernelActions
<1>3. Legal(Advance(s, val, runLoops, workItemLoops))
  BY AdvanceLegal DEF EdgesFrom
<1>4. Legal(Follow(First(StatusEdges(s, "envelope.REJECTED")), runLoops,
                   workItemLoops))
  <2>1. First(StatusEdges(s, "envelope.REJECTED")) \in SUBSET EdgesFrom(s)
    BY FirstSubset DEF StatusEdges
  <2> QED
    BY <2>1, FollowLegal DEF EdgesFrom
<1>5. Legal(ArchitectureAction(runLoops, workItemLoops))
  <2>1. /\ ArchitectureLoop \in SUBSET DOMAIN Edges
        /\ \A i \in ArchitectureLoop :
             Edges[i].from = "IMPLEMENTATION" /\ Edges[i].to = "ARCHITECTURE"
    BY FirstSubset DEF ArchitectureLoop
  <2>2. Legal(Follow(ArchitectureLoop, runLoops, workItemLoops))
    BY <2>1, FollowLegal
  <2> QED
    BY <1>1, <2>2 DEF ArchitectureAction
<1>6. Legal(PartialAction(s, env.missing, val, attempt, runLoops, workItemLoops))
  <2>1. PartialAction(s, env.missing, val, attempt, runLoops, workItemLoops) \in
          {Advance(s, val, runLoops, workItemLoops), Redispatch(FALSE), Block}
    BY DEF PartialAction, EnvelopeView
  <2> HIDE DEF Legal
  <2> QED
    BY <1>1, <1>2, <1>3, <2>1
<1>7. Legal(FailedAction(attempt, escalated))
  <2>1. FailedAction(attempt, escalated) \in
          {Redispatch(TRUE), Redispatch(FALSE), Block}
    BY StateMachineAssumption DEF FailedAction
  <2> HIDE DEF Legal
  <2> QED
    BY <1>1, <1>2, <2>1
<1>8. env.status \in EnvelopeStatuses
  BY DEF EnvelopeView
<1>9. Legal(a)
  <2>1. CASE env.status = "COMPLETE"
    <3>1. a = Advance(s, val, runLoops, workItemLoops)
      BY <2>1 DEF DecideAction
    <3> QED
      BY <1>3, <3>1
  <2>2. CASE env.status = "PARTIAL"
    <3>1. a = PartialAction(s, env.missing, val, attempt, runLoops, workItemLoops)
      BY <2>2 DEF DecideAction
    <3> QED
      BY <1>6, <3>1
  <2>3. CASE env.status = "BLOCKED"
    <3>1. a \in {Reresolution, Block}
      BY <2>3 DEF DecideAction
    <3> HIDE DEF Legal, a
    <3> QED
      BY <1>1, <3>1
  <2>4. CASE env.status = "BLOCKED_BY_ARCHITECTURE"
    <3>1. a = ArchitectureAction(runLoops, workItemLoops)
      BY <2>4 DEF DecideAction
    <3> QED
      BY <1>5, <3>1
  <2>5. CASE env.status = "FAILED"
    <3>1. a = FailedAction(attempt, escalated)
      BY <2>5 DEF DecideAction
    <3> QED
      BY <1>7, <3>1
  <2>6. CASE env.status = "REJECTED"
    <3>1. a = Follow(First(StatusEdges(s, "envelope.REJECTED")), runLoops,
                     workItemLoops)
      BY <2>6 DEF DecideAction
    <3> QED
      BY <1>4, <3>1
  <2> QED
    BY <1>8, <2>1, <2>2, <2>3, <2>4, <2>5, <2>6 DEF EnvelopeStatuses
<1> QED
  BY <1>9

-----------------------------------------------------------------------------
(* The run is done exactly when no critical criterion is unmet: gaps in the  *)
(* others do not hold it back (dod.ts computeDod).                           *)
THEOREM DoneMeansNothingCritical ==
  ASSUME NEW col
  PROVE  CompletionVerdict(col) \in {"COMPLETE", "COMPLETE_WITH_GAPS"}
           <=> UnmetCritical(col) = {}
<1>1. CASE NotMet(col) \cup NotValidated(col) = {}
  <2>1. UnmetCritical(col) = {}
    BY <1>1 DEF UnmetCritical
  <2>2. CompletionVerdict(col) = "COMPLETE"
    BY <1>1, <2>1 DEF CompletionVerdict
  <2> QED
    BY <2>1, <2>2
<1>2. CASE /\ NotMet(col) \cup NotValidated(col) # {}
           /\ UnmetCritical(col) = {}
  <2>1. CompletionVerdict(col) = "COMPLETE_WITH_GAPS"
    BY <1>2 DEF CompletionVerdict
  <2> QED
    BY <1>2, <2>1
<1>3. CASE UnmetCritical(col) # {}
  <2>1. NotMet(col) \cup NotValidated(col) # {}
    BY <1>3 DEF UnmetCritical
  <2>2. CompletionVerdict(col) \in {"INDETERMINATE", "INCOMPLETE"}
    BY <1>3, <2>1 DEF CompletionVerdict
  <2> QED
    BY <1>3, <2>2
<1> QED
  BY <1>1, <1>2, <1>3

(* A set of positions that is not empty has a first.                         *)
LEMMA LeastPosition ==
  ASSUME NEW S \in SUBSET Nat, S # {}
  PROVE  \E i \in S : \A j \in S : i <= j
<1> DEFINE Below == OpToRel(<, Nat)
<1>1. IsWellFoundedOn(Below, Nat)
  BY NatLessThanWellFounded
<1>2. PICK i \in S : \A j \in S : <<j, i>> \notin Below
  <2> HIDE DEF Below
  <2> QED
    BY <1>1, WFMin
<1>3. \A j \in S : ~(j < i)
  BY <1>2 DEF OpToRel
<1> QED
  BY <1>3

(* A stage that owns a criterion is in the graph and owes it.                *)
LEMMA StageOwningOwes ==
  ASSUME NEW c, StageOwning(c) # NoStage
  PROVE  /\ StageOwning(c) \in DOMAIN OwedBy
         /\ StageOwning(c) \in Stages
         /\ c \in OwedBy[StageOwning(c)]
<1> DEFINE S == OwningPositions(c)
<1>1. S # {} /\ StageOwning(c) = GraphStages[CHOOSE i \in First(S) : TRUE]
  BY DEF StageOwning
<1>2. S \subseteq DOMAIN GraphStages /\ DOMAIN GraphStages \subseteq Nat
  BY FrozenGraphAssumption DEF OwningPositions
<1>3. First(S) # {}
  <2>1. \E i \in S : \A j \in S : i <= j
    BY <1>1, <1>2, LeastPosition
  <2> QED
    BY <2>1 DEF First
<1>4. PICK i \in First(S) : StageOwning(c) = GraphStages[i]
  BY <1>1, <1>3
<1>5. i \in S
  BY <1>4 DEF First
<1> QED
  BY <1>4, <1>5 DEF OwningPositions, Stages

(* Superseding col verdicts yields col verdicts.                 *)
LEMMA SupersedeType ==
  ASSUME NEW col \in Collected, NEW owed, NEW supplied \in SuppliedOn(owed)
  PROVE  Supersede(col, supplied) \in Collected
<1>1. PICK S \in SUBSET (owed \cap Criteria) : supplied \in [S -> Verdicts]
  BY DEF SuppliedOn
<1> QED
  BY <1>1 DEF Supersede, Collected

-----------------------------------------------------------------------------
(* A position at which the profile has a criterion a stage is routed to for. *)
LEMMA OwedPositionOwes ==
  ASSUME NEW unmet, NEW i \in OwedPositions(unmet)
  PROVE  /\ Profile[i] \in unmet \cap Critical
         /\ StageOwning(Profile[i]) \in Stages
         /\ Profile[i] \in OwedBy[StageOwning(Profile[i])]
  BY StageOwningOwes DEF OwedPositions

(* If any criterion routes a run back, the one the code picks does.          *)
LEMMA FirstOwedPosition ==
  ASSUME NEW unmet, OwedPositions(unmet) # {}
  PROVE  (CHOOSE i \in First(OwedPositions(unmet)) : TRUE) \in OwedPositions(unmet)
<1>1. OwedPositions(unmet) \in SUBSET Nat
  BY DodAssumption DEF OwedPositions
<1>2. First(OwedPositions(unmet)) # {}
  <2>1. \E i \in OwedPositions(unmet) : \A j \in OwedPositions(unmet) : i <= j
    BY <1>1, LeastPosition
  <2> QED
    BY <2>1 DEF First
<1> QED
  BY <1>2 DEF First

(* A criterion of the profile that is unmet, critical and owned by a stage   *)
(* has an owed position.                                                     *)
LEMMA OwedPositionExists ==
  ASSUME NEW unmet, NEW c \in unmet \cap Critical,
         StageOwning(c) # NoStage, c \in Criteria
  PROVE  OwedPositions(unmet) # {}
  BY DEF OwedPositions, Criteria

(* COMPLETION routes back to a stage of the graph that owes a critical       *)
(* criterion still unmet, or nowhere.                                        *)
LEMMA RouteBackOwes ==
  ASSUME NEW col, RouteBackTo(col) # NoStage
  PROVE  /\ RouteBackTo(col) \in Stages
         /\ \E c \in UnmetCritical(col) :
              c \in OwedBy[RouteBackTo(col)]
<1> DEFINE failed == OwedPositions(NotMet(col))
           missing == OwedPositions(NotValidated(col))
           pick(S) == CHOOSE i \in First(S) : TRUE
<1>1. CompletionVerdict(col) = "INCOMPLETE"
  BY DEF RouteBackTo
<1>2. CASE failed # {}
  <2>1. RouteBackTo(col) = StageOwning(Profile[pick(failed)])
    BY <1>1, <1>2 DEF RouteBackTo
  <2>2. PICK i \in failed : RouteBackTo(col) = StageOwning(Profile[i])
    BY <1>2, <2>1, FirstOwedPosition
  <2>3. /\ Profile[i] \in NotMet(col) \cap Critical
        /\ RouteBackTo(col) \in Stages
        /\ Profile[i] \in OwedBy[RouteBackTo(col)]
    BY <2>2, OwedPositionOwes
  <2> QED
    BY <2>3 DEF UnmetCritical
<1>3. CASE failed = {} /\ missing # {}
  <2>1. RouteBackTo(col) = StageOwning(Profile[pick(missing)])
    BY <1>1, <1>3 DEF RouteBackTo
  <2>2. PICK i \in missing : RouteBackTo(col) = StageOwning(Profile[i])
    BY <1>3, <2>1, FirstOwedPosition
  <2>3. /\ Profile[i] \in NotValidated(col) \cap Critical
        /\ RouteBackTo(col) \in Stages
        /\ Profile[i] \in OwedBy[RouteBackTo(col)]
    BY <2>2, OwedPositionOwes
  <2> QED
    BY <2>3 DEF UnmetCritical
<1>4. CASE failed = {} /\ missing = {}
  BY <1>1, <1>4 DEF RouteBackTo
<1> QED
  BY <1>2, <1>3, <1>4

-----------------------------------------------------------------------------
(* The properties of VerdictCollection.  Three of them hold in every state   *)
(* whatever was collected; CollectedTyped is the one that needs the steps.   *)

(* Every criterion has one collected verdict, or none, after any number of   *)
(* envelopes (dod.ts collectVerdicts).                                       *)
THEOREM CollectionTyped == CollectionSpec => []CollectedTyped
<1>1. InitVerdicts => CollectedTyped
  BY SupersedeType DEF InitVerdicts, CollectedTyped, Collected
<1>2. CollectedTyped /\ [NextVerdicts]_collected => CollectedTyped'
  BY SupersedeType DEF CollectedTyped, NextVerdicts, ReceiveEnvelope
<1> QED
  BY <1>1, <1>2, PTL DEF CollectionSpec

(* Fewer unmet criteria are fewer unmet critical ones, and done is when      *)
(* there are none of those.                                                  *)
THEOREM ImprovementKept == CollectionSpec => ImprovingNeverUndoes
<1>1. ASSUME /\ Done(collected)
             /\ NotMet(collected)' \subseteq NotMet(collected)
             /\ NotValidated(collected)' \subseteq NotValidated(collected)
      PROVE  Done(collected)'
  <2>1. UnmetCritical(collected) = {}
    BY <1>1, DoneMeansNothingCritical DEF Done
  <2>2. UnmetCritical(collected') = {}
    BY <1>1, <2>1 DEF UnmetCritical
  <2>3. CompletionVerdict(collected') \in {"COMPLETE", "COMPLETE_WITH_GAPS"}
    BY <2>2, DoneMeansNothingCritical
  <2> QED
    BY <2>3 DEF Done
<1> QED
  BY <1>1, PTL DEF ImprovingNeverUndoes

-----------------------------------------------------------------------------
(* A run is only sent back to a stage of its graph that owes an unmet        *)
(* critical criterion (dod.ts computeDod, kernel.ts complete).               *)
THEOREM RoutingBackHelps == CollectionSpec => []RouteBackCanHelp
<1>1. RouteBackCanHelp
  BY RouteBackOwes DEF RouteBackCanHelp
<1> QED
  BY <1>1, PTL

(* INCOMPLETE with nowhere to go back to is a failed criterion no stage of   *)
(* the graph owns: one of the prologue's (dod.ts computeDod).                *)
THEOREM DeadEndsAreFailures == CollectionSpec => []IncompleteNamesAStage
<1>1. IncompleteNamesAStage
  <2> SUFFICES ASSUME CompletionVerdict(collected) = "INCOMPLETE",
                      RouteBackTo(collected) = NoStage
               PROVE  /\ \A c \in UnmetCritical(collected) :
                           StageOwning(c) = NoStage
                      /\ UnmetCritical(collected) \cap NotMet(collected) # {}
    BY DEF IncompleteNamesAStage
  <2> DEFINE failed == OwedPositions(NotMet(collected))
             missing == OwedPositions(NotValidated(collected))
             pick(S) == CHOOSE i \in First(S) : TRUE
  <2>1. failed = {}
    <3> SUFFICES ASSUME failed # {} PROVE FALSE
      OBVIOUS
    <3>1. RouteBackTo(collected) = StageOwning(Profile[pick(failed)])
      BY DEF RouteBackTo
    <3>2. pick(failed) \in failed
      BY FirstOwedPosition
    <3> QED
      BY <3>1, <3>2, OwedPositionOwes, FrozenGraphAssumption
  <2>2. missing = {}
    <3> SUFFICES ASSUME missing # {} PROVE FALSE
      OBVIOUS
    <3>1. RouteBackTo(collected) = StageOwning(Profile[pick(missing)])
      BY <2>1 DEF RouteBackTo
    <3>2. pick(missing) \in missing
      BY FirstOwedPosition
    <3> QED
      BY <3>1, <3>2, OwedPositionOwes, FrozenGraphAssumption
  <2>3. ASSUME NEW c \in UnmetCritical(collected)
        PROVE  StageOwning(c) = NoStage
    <3>1. c \in Criteria
      BY <2>3 DEF UnmetCritical, NotMet, NotValidated
    <3> QED
      BY <2>1, <2>2, <2>3, <3>1, OwedPositionExists DEF UnmetCritical
  <2>4. UnmetCritical(collected) \cap NotMet(collected) # {}
    <3> SUFFICES ASSUME UnmetCritical(collected) \cap NotMet(collected) = {}
                 PROVE  FALSE
      OBVIOUS
    <3>1. UnmetCritical(collected) \subseteq Unobtainable(collected)
      BY <2>3 DEF UnmetCritical, Unobtainable
    <3>2. UnmetCritical(collected) # {}
      BY DoneMeansNothingCritical
    <3>3. NotMet(collected) \cup NotValidated(collected) # {}
      BY <3>2 DEF UnmetCritical
    <3>4. CompletionVerdict(collected) = "INDETERMINATE"
      BY <3>1, <3>2, <3>3 DEF CompletionVerdict
    <3> QED
      BY <3>4
  <2> QED
    BY <2>3, <2>4
<1> QED
  BY <1>1, PTL
=============================================================================
