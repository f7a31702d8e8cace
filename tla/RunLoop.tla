------------------------------- MODULE RunLoop -------------------------------
(***************************************************************************)
(* The workflow run: core/src/kernel.ts, from the moment a run holds its   *)
(* Work Item (continueWithWorkItem) to the RunResult, with the budgets of  *)
(* core/src/budgets.ts and the re-resolution that starts a second run.     *)
(*                                                                         *)
(* One kernel process is modelled: the lease that excludes a second one is *)
(* a module of its own.  A dispatch is two steps, the intent on disk and   *)
(* the result acted on, so that a crash may fall between them; everything  *)
(* the kernel does between two awaits of that kind is one step.            *)
(***************************************************************************)
EXTENDS StateMachine, DefinitionOfDone, FiniteSets

CONSTANTS
  WorkItems,             (* work item ids                                     *)
  Nobody,                (* no work item: for the refinement mapping          *)
  MayReturn,             (* stage -> statuses its role may return             *)
  Costs,                 (* usd one dispatch may cost, or declare             *)
  DispatchesPerRun,      (* dispatches.per_run                                *)
  DispatchesPerWorkItem, (* dispatches.per_work_item                          *)
  RunUsd,                (* cost.run_usd                                      *)
  WorkItemUsd,           (* cost.work_item_usd                                *)
  ReresolutionCap,       (* reresolution                                      *)
  SafePrefixes,          (* prefixes the ladder may admit; {} is none         *)
  MaxRuns                (* bound of the model: runs started                  *)

Described   == DOMAIN OwedBy
Lifecycles  == {"ABSENT", "RESOLVED", "UNDERSTOOD", "BLOCKED", "ACHIEVED"}
RunOutcomes == {"COMPLETE", "BLOCKED", "FAILED", "RERESOLVED"}

ASSUME RunLoopAssumption ==
  /\ Nobody \notin WorkItems
  /\ MayReturn \in [Described -> SUBSET EnvelopeStatuses]
  /\ Costs \subseteq Nat
  /\ {DispatchesPerRun, DispatchesPerWorkItem} \subseteq Nat \ {0}
  /\ {RunUsd, WorkItemUsd, ReresolutionCap, MaxRuns} \subseteq Nat
  /\ SafePrefixes \subseteq SUBSET Stages

(* A ping-pong graph still terminates: one bound on iterations.              *)
MaxIterations == DispatchesPerRun + Len(GraphStages) + 4

VARIABLES
  disk,        (* work-item.json: what survives the process                   *)
  phase,       (* idle, prologue, loop (its top), dispatched, reresolving     *)
  item,        (* the work item this run works on                             *)
  workItem,    (* its record in memory, as the run started with it            *)
  stage,       (* state.currentStage                                          *)
  iteration,   (* of the loop                                                 *)
  attempt,     (* attemptInStage                                              *)
  escalated,   (* escalatedThisStage                                          *)
  routedBack,  (* stages COMPLETION has routed back to once                   *)
  verdicts,    (* what collectVerdicts makes of the accepted envelopes        *)
  budget,      (* consumed by this run, and by the work item across runs      *)
  safePrefix,  (* the admitted common prefix, {} when not armed               *)
  outcome,     (* of the last run that ended, "none" before and during one    *)
  runs,        (* runs started                                                *)
  logStage,    (* the stage project() computes from this run's log            *)
  history      (* what no variable of the code holds: see HistoryType         *)

loopVars == <<item, workItem, routedBack, verdicts, budget, safePrefix>>
vars == <<disk, phase, item, workItem, stage, iteration, attempt, escalated,
          routedBack, verdicts, budget, safePrefix, outcome, runs, logStage,
          history>>

-----------------------------------------------------------------------------
(* Budgets: core/src/budgets.ts.                                             *)
Budget == [dispatches : Nat, usd : Nat, loops : [Counters -> Nat]]

ZeroBudget == [dispatches |-> 0, usd |-> 0, loops |-> [c \in Counters |-> 0]]

AddCost(b, usd) ==
  [dispatches |-> b.dispatches + 1, usd |-> b.usd + usd, loops |-> b.loops]

IncrementLoop(b, c) == [b EXCEPT !.loops[c] = @ + 1]

(* Mutant: the caps are tested after they are passed.                        *)
WithinBudgetLate(run, total) ==
  /\ run.dispatches <= DispatchesPerRun
  /\ total.dispatches <= DispatchesPerWorkItem
  /\ run.usd <= RunUsd
  /\ total.usd <= WorkItemUsd

(* Mutant: dispatches are counted, what they cost is not looked at.          *)
WithinBudgetUnpriced(run, total) ==
  /\ run.dispatches + 1 <= DispatchesPerRun
  /\ total.dispatches + 1 <= DispatchesPerWorkItem

(* checkDispatchBudget, the wall clock apart.                                *)
WithinBudget(run, total) ==
  /\ run.dispatches + 1 <= DispatchesPerRun
  /\ total.dispatches + 1 <= DispatchesPerWorkItem
  /\ run.usd < RunUsd
  /\ total.usd < WorkItemUsd

(* Mutant: off by one.                                                       *)
ReresolutionAllowedOnceMore == workItem.reresolutions <= ReresolutionCap

ReresolutionAllowed == workItem.reresolutions < ReresolutionCap

WorkItemRecord ==
  [life : Lifecycles, consumed : Budget, reresolutions : Nat]

AbsentWorkItem ==
  [life |-> "ABSENT", consumed |-> ZeroBudget, reresolutions |-> 0]

(* For the properties only: usd the run's dispatches really cost (the        *)
(* dispatch_result events), the stages that returned an accepted envelope in *)
(* this run, and those that did since IMPLEMENTATION last did, itself        *)
(* included.                                                                 *)
HistoryType ==
  [spent : Nat, answered : SUBSET Stages, since : SUBSET Stages]

-----------------------------------------------------------------------------
(* What an accepted envelope may be, by stage: the statuses its role may     *)
(* return (policies/data/agents.json), BLOCKED_BY_ARCHITECTURE from          *)
(* IMPLEMENTATION in a graph that has ARCHITECTURE (crossfield.ts            *)
(* checkStatus), and verdicts on the criteria the stage owes.                *)
LegalEnvelopes(s) ==
  {env \in EnvelopeView :
     /\ env.status \in MayReturn[s]
     /\ env.status = "BLOCKED_BY_ARCHITECTURE" =>
          s = "IMPLEMENTATION" /\ "ARCHITECTURE" \in Stages
     /\ env.misclassified => env.status = "BLOCKED"
     /\ env.missing => env.status = "PARTIAL"}

FailedEnvelope ==
  [status |-> "FAILED", missing |-> TRUE, misclassified |-> FALSE]

(* The stages at which a run's shape changes: children are linked to the     *)
(* work item, and an Epic that cannot move, or decomposes too far, blocks.   *)
LinkingStages  == {"DECOMPOSITION", "REVIEW_TRIAGE"}
BlockingStages == {"DECOMPOSITION", "CHILD_COORDINATION"}

-----------------------------------------------------------------------------
Init ==
  /\ disk = [w \in WorkItems |-> AbsentWorkItem]
  /\ phase = "idle"
  /\ item \in WorkItems
  /\ workItem = AbsentWorkItem
  /\ stage = NoStage
  /\ iteration = 0
  /\ attempt = 0
  /\ escalated = FALSE
  /\ routedBack = {}
  /\ verdicts = [c \in Criteria |-> NoVerdict]
  /\ budget = [run |-> ZeroBudget, workItem |-> ZeroBudget]
  /\ safePrefix = {}
  /\ outcome = "none"
  /\ runs = 0
  /\ logStage = NoStage
  /\ history = [spent |-> 0, answered |-> {}, since |-> {}]

(* Mutant: the record is written without its new lifecycle.                  *)
EndKeepingLife(record, life, result) ==
  /\ disk' = [disk EXCEPT ![item] = record]
  /\ outcome' = result
  /\ phase' = IF result = "RERESOLVED" THEN "reresolving" ELSE "idle"

(* end: run_ended is journalled and the projection written with the          *)
(* lifecycle given.  `record' is the work item as the caller holds it.       *)
End(record, life, result) ==
  /\ disk' = [disk EXCEPT ![item] = [record EXCEPT !.life = life]]
  /\ outcome' = result
  /\ phase' = IF result = "RERESOLVED" THEN "reresolving" ELSE "idle"

(* Mutant: a budget that resets on every attempt.                            *)
BudgetAtStartReset(record) == [run |-> ZeroBudget, workItem |-> ZeroBudget]

(* Everything is counted twice: a run starts with nothing consumed, and its  *)
(* work item with what earlier runs left on disk.                            *)
BudgetAtStart(record) == [run |-> ZeroBudget, workItem |-> record.consumed]

(* continueWithWorkItem: the lease held, an existing record keeps its        *)
(* history, a new one starts empty, and either is RESOLVED.  A run starts    *)
(* from a call of kernel.run, or out of a re-resolution, whose admission     *)
(* derives the work item id from the corrected proposal.                     *)
StartRun(w) ==
  /\ phase \in {"idle", "reresolving"}
  /\ runs < MaxRuns
  /\ runs' = runs + 1
  /\ item' = w
  /\ workItem' = [disk[w] EXCEPT !.life = "RESOLVED"]
  /\ disk' = [disk EXCEPT ![w] = workItem']
  /\ phase' = "prologue"
  /\ outcome' = "none"
  /\ stage' = NoStage
  /\ iteration' = 0
  /\ attempt' = 0
  /\ escalated' = FALSE
  /\ routedBack' = {}
  /\ verdicts' = [c \in Criteria |-> NoVerdict]
  /\ budget' = BudgetAtStart(disk[w])
  /\ safePrefix' = {}
  /\ logStage' = NoStage
  /\ history' = [spent |-> 0, answered |-> {}, since |-> {}]

(* The prologue stops the run: the context dispatch failed, was refused or   *)
(* found the budget spent, or the uncertainty ladder ended in BLOCK.         *)
PrologueBlocked ==
  /\ phase = "prologue"
  /\ End(workItem, "BLOCKED", "BLOCKED")
  /\ logStage' = "BLOCKED"
  /\ UNCHANGED <<loopVars, stage, iteration, attempt, escalated, runs, history>>

(* The resume sweep found an ambiguous mutating stage: the lifecycle stays   *)
(* UNDERSTOOD.                                                               *)
EntryBlocked ==
  /\ phase = "prologue"
  /\ WithinBudget(ZeroBudget, workItem.consumed)
  /\ End(workItem, "UNDERSTOOD", "BLOCKED")
  /\ logStage' = "BLOCKED"
  /\ UNCHANGED <<loopVars, stage, iteration, attempt, escalated, runs, history>>

(* The context dispatch is accepted with its verdicts, the orchestrator's    *)
(* is accepted or not, the graph is admitted, and the sweep over Current     *)
(* Reality picks the entry stage, which is any stage.  The orchestrator's    *)
(* budget check counts the context dispatch for the run and not for the      *)
(* work item, as the kernel passes it.                                       *)
EnterGraph(entry) ==
  /\ phase = "prologue"
  /\ WithinBudget(ZeroBudget, workItem.consumed)
  /\ \E supplied \in SuppliedOn(PrologueCriteria) :
       verdicts' = Supersede(verdicts, supplied)
  /\ \E usd \in Costs :
       LET start   == BudgetAtStart(workItem)
           context == AddCost(start.run, usd)
           total   == AddCost(start.workItem, usd)
       IN  \/ /\ budget' = [run |-> context, workItem |-> total]
              /\ history' = [history EXCEPT !.spent = usd]
           \/ /\ WithinBudget(context, workItem.consumed)
              /\ \E more \in Costs :
                   /\ budget' = [run |-> AddCost(context, more),
                                 workItem |-> AddCost(total, more)]
                   /\ history' = [history EXCEPT !.spent = usd + more]
  /\ \E prefix \in SafePrefixes :
       safePrefix' = IF entry \in prefix THEN prefix ELSE {}
  /\ workItem' = [workItem EXCEPT !.life = "UNDERSTOOD"]
  /\ stage' = entry
  /\ logStage' = entry
  /\ phase' = "loop"
  /\ UNCHANGED <<disk, item, iteration, attempt, escalated, routedBack, outcome,
                 runs>>

-----------------------------------------------------------------------------
(* The top of the loop.                                                      *)
AtTop == phase = "loop" /\ iteration < MaxIterations

(* A terminal edge, or an escalate edge to BLOCKED, was taken.               *)
EndTerminal ==
  /\ AtTop
  /\ \/ stage \in {"COMPLETE", "CANCELLED"} /\ End(workItem, workItem.life, "COMPLETE")
     \/ stage = "BLOCKED" /\ End(workItem, workItem.life, "BLOCKED")
  /\ UNCHANGED <<loopVars, stage, iteration, attempt, escalated, runs, logStage,
                 history>>

(* complete: INCOMPLETE, and the stage that owes a verdict has not been      *)
(* routed back to in this run.                                               *)
RouteBack ==
  /\ AtTop
  /\ stage = "COMPLETION"
  /\ RouteBackTo(verdicts) \in Stages \ routedBack
  /\ stage' = RouteBackTo(verdicts)
  /\ logStage' = RouteBackTo(verdicts)
  /\ routedBack' = routedBack \cup {RouteBackTo(verdicts)}
  /\ attempt' = 0
  /\ escalated' = FALSE
  /\ iteration' = iteration + 1
  /\ UNCHANGED <<disk, phase, item, workItem, verdicts, budget, safePrefix,
                 outcome, runs, history>>

(* complete, otherwise: the run ends, and only here is what it consumed      *)
(* written to the work item.  The route-back is on the log all the same.     *)
Complete ==
  /\ AtTop
  /\ stage = "COMPLETION"
  /\ RouteBackTo(verdicts) \notin Stages \ routedBack
  /\ LET done == CompletionVerdict(verdicts) \in
                   {"COMPLETE", "COMPLETE_WITH_GAPS"}
     IN  End([workItem EXCEPT !.consumed = budget.workItem],
             IF done THEN "ACHIEVED" ELSE workItem.life,
             IF done THEN "COMPLETE" ELSE "BLOCKED")
  /\ logStage' = IF RouteBackTo(verdicts) # NoStage THEN RouteBackTo(verdicts)
                                                    ELSE logStage
  /\ UNCHANGED <<loopVars, stage, iteration, attempt, escalated, runs, history>>

NoDescriptor ==
  /\ AtTop
  /\ stage \in Stages \ (Described \cup {"COMPLETION"})
  /\ End(workItem, workItem.life, "FAILED")
  /\ UNCHANGED <<loopVars, stage, iteration, attempt, escalated, runs, logStage,
                 history>>

Dispatchable == AtTop /\ stage \in Described \ {"COMPLETION"}

(* The check is on the wall clock too, which may pass at any moment: a run   *)
(* inside its other budgets may still be stopped here.                       *)
BudgetExceeded ==
  /\ Dispatchable
  /\ End(workItem, workItem.life, "BLOCKED")
  /\ UNCHANGED <<loopVars, stage, iteration, attempt, escalated, runs, logStage,
                 history>>

(* dispatch_intent is on disk and flushed; the agent is running.             *)
Dispatch ==
  /\ Dispatchable
  /\ WithinBudget(budget.run, budget.workItem)
  /\ attempt' = attempt + 1
  /\ phase' = "dispatched"
  /\ UNCHANGED <<disk, loopVars, stage, iteration, escalated, outcome, runs,
                 logStage, history>>

(* Mutant: one iteration more, which nothing at the top of the loop allows.  *)
IterationsExhaustedLate ==
  /\ phase = "loop"
  /\ iteration > MaxIterations
  /\ End(workItem, workItem.life, "BLOCKED")
  /\ UNCHANGED <<loopVars, stage, iteration, attempt, escalated, runs, logStage,
                 history>>

IterationsExhausted ==
  /\ phase = "loop"
  /\ iteration >= MaxIterations
  /\ End(workItem, workItem.life, "BLOCKED")
  /\ UNCHANGED <<loopVars, stage, iteration, attempt, escalated, runs, logStage,
                 history>>

-----------------------------------------------------------------------------
(* A dispatch that returned no envelope.  It is decided as FAILED, and       *)
(* nothing is added to a budget.                                             *)
DispatchFailed ==
  /\ phase = "dispatched"
  /\ \E usd \in Costs \cup {0} : history' = [history EXCEPT !.spent = @ + usd]
  /\ LET action == DecideAction(stage, FailedEnvelope, <<>>, attempt, escalated,
                                budget.run.loops, budget.workItem.loops)
     IN  \/ /\ action.kind = "REDISPATCH"
            /\ escalated' = (escalated \/ action.escalate)
            /\ iteration' = iteration + 1
            /\ phase' = "loop"
            /\ UNCHANGED <<disk, logStage, outcome>>
         \/ /\ action.kind = "BLOCK"
            /\ End(workItem, "BLOCKED", "BLOCKED")
            /\ logStage' = "BLOCKED"
            /\ UNCHANGED <<escalated, iteration>>
  /\ UNCHANGED <<loopVars, stage, attempt, runs>>

(* The tool surface did not conform, or the envelope broke the contract:     *)
(* BLOCKED at once, whatever the attempt.                                    *)
DispatchRefused ==
  /\ phase = "dispatched"
  /\ \E usd \in Costs : history' = [history EXCEPT !.spent = @ + usd]
  /\ End(workItem, "BLOCKED", "BLOCKED")
  /\ logStage' = "BLOCKED"
  /\ UNCHANGED <<loopVars, stage, iteration, attempt, escalated, runs>>

(* What every accepted envelope changes: its cost is charged as it declares  *)
(* it, its verdicts supersede.                                               *)
Charged(usd) == [run      |-> AddCost(budget.run, usd),
                 workItem |-> AddCost(budget.workItem, usd)]

Receive(declared) ==
  /\ \E usd \in Costs :
       history' = [spent    |-> history.spent + usd,
                   answered |-> history.answered \cup {stage},
                   since    |-> IF stage = "IMPLEMENTATION"
                                  THEN {stage} ELSE history.since \cup {stage}]
  /\ \E supplied \in SuppliedOn(OwedBy[stage]) :
       verdicts' = Supersede(verdicts, supplied)

(* reresolve: allowed, it persists what was consumed and ends the run;       *)
(* refused, it ends BLOCKED and persists neither.                            *)
Reresolve(charged) ==
  /\ budget' = charged
  /\ IF ReresolutionAllowed
       THEN /\ workItem' = [life          |-> workItem.life,
                             consumed      |-> charged.workItem,
                             reresolutions |-> workItem.reresolutions + 1]
            /\ End(workItem', workItem.life, "RERESOLVED")
       ELSE /\ workItem' = workItem
            /\ End(workItem, "BLOCKED", "BLOCKED")

(* The counter of a loop edge, incremented in both scopes.                   *)
Lapped(b, edge) ==
  IF edge.kind = "loop" /\ edge.counter # NoCounter
    THEN [run      |-> IncrementLoop(b.run, edge.counter),
          workItem |-> IncrementLoop(b.workItem, edge.counter)]
    ELSE b

LeavesSafePrefix(to) ==
  /\ stage \in safePrefix
  /\ to \notin safePrefix \cup {"COMPLETE", "CANCELLED"}

(* structural: linking a child writes the work item as the run holds it.     *)
Linked(linked) == disk' = IF linked THEN [disk EXCEPT ![item] = workItem]
                                    ELSE disk

(* Mutant: a stage that answered in an earlier lap is passed over.           *)
TargetNotYetAnswered(edge) ==
  IF edge.to = "VALIDATION" /\ edge.to \in history.answered THEN "COMPLETION"
                                                            ELSE edge.to

(* Where an edge leads.                                                      *)
Target(edge) == edge.to

(* A transition along an edge of the graph.                                  *)
TakeEdge(edge, declared, linked) ==
  /\ stage' = Target(edge)
  /\ logStage' = Target(edge)
  /\ IF LeavesSafePrefix(Target(edge))
       THEN /\ Reresolve(Lapped(Charged(declared), edge))
            /\ UNCHANGED <<iteration, attempt, escalated>>
       ELSE /\ budget' = Lapped(Charged(declared), edge)
            /\ attempt' = 0
            /\ escalated' = FALSE
            /\ iteration' = iteration + 1
            /\ phase' = "loop"
            /\ Linked(linked)
            /\ UNCHANGED <<workItem, outcome>>

Again(action, declared, linked) ==
  /\ budget' = Charged(declared)
  /\ escalated' = (escalated \/ action.escalate)
  /\ iteration' = iteration + 1
  /\ phase' = "loop"
  /\ Linked(linked)
  /\ UNCHANGED <<workItem, stage, attempt, outcome, logStage>>

BlockRun(declared) ==
  /\ budget' = Charged(declared)
  /\ End(workItem, "BLOCKED", "BLOCKED")
  /\ logStage' = "BLOCKED"
  /\ UNCHANGED <<workItem, stage, iteration, attempt, escalated>>

(* The envelope of a dispatch is accepted and its decided action taken.      *)
EnvelopeAccepted(env, val, declared, linked) ==
  /\ phase = "dispatched"
  /\ LET action == DecideAction(stage, env, val, attempt, escalated,
                                budget.run.loops, budget.workItem.loops)
     IN  \/ /\ action.kind = "TRANSITION"
            /\ TakeEdge(Edges[action.edge], declared, linked)
         \/ action.kind = "REDISPATCH" /\ Again(action, declared, linked)
         \/ action.kind = "BLOCK" /\ BlockRun(declared)
         \/ /\ action.kind = "RERESOLVE"
            /\ Reresolve(Charged(declared))
            /\ UNCHANGED <<stage, iteration, attempt, escalated, logStage>>
  /\ Receive(declared)
  /\ UNCHANGED <<item, routedBack, safePrefix, runs>>

(* structural: whatever the envelope's own status asked for, the run blocks  *)
(* because the decomposition exceeds its bounds or no child can progress.    *)
StructurallyBlocked(declared) ==
  /\ phase = "dispatched"
  /\ stage \in BlockingStages
  /\ Receive(declared)
  /\ BlockRun(declared)
  /\ UNCHANGED <<item, routedBack, safePrefix, runs>>

Accept ==
  /\ phase = "dispatched"
  /\ \E declared \in Costs :
       \/ StructurallyBlocked(declared)
       \/ \E env \in LegalEnvelopes(stage), val \in Valuations(stage),
             linked \in {b \in BOOLEAN : b => stage \in LinkingStages} :
            EnvelopeAccepted(env, val, declared, linked)

-----------------------------------------------------------------------------
(* performReresolution ended without a second run.                           *)
ReadmissionRefused ==
  /\ phase = "reresolving"
  /\ phase' = "idle"
  /\ outcome' = "BLOCKED"
  /\ UNCHANGED <<disk, loopVars, stage, iteration, attempt, escalated, runs,
                 logStage, history>>

(* The process dies: only the disk survives.  What memory held is left as it *)
(* was, since the next StartRun overwrites it.                               *)
Crash ==
  /\ phase # "idle"
  /\ phase' = "idle"
  /\ outcome' = "none"
  /\ UNCHANGED <<disk, loopVars, stage, iteration, attempt, escalated, runs,
                 logStage, history>>

Kernel ==
  \/ PrologueBlocked \/ EntryBlocked
  \/ \E entry \in Stages : EnterGraph(entry)
  \/ EndTerminal \/ RouteBack \/ Complete \/ NoDescriptor
  \/ BudgetExceeded \/ Dispatch \/ IterationsExhausted
  \/ DispatchFailed \/ DispatchRefused \/ Accept
  \/ ReadmissionRefused

Next ==
  \/ \E w \in WorkItems : StartRun(w)
  \/ Kernel
  \/ Crash

Spec == Init /\ [][Next]_vars

(* A started process runs: the event loop schedules it, and a dispatch ends, *)
(* by its wall-clock limit if not before.  Nothing obliges anyone to start a *)
(* run, and nothing obliges a crash.                                         *)
FairSpec == Spec /\ WF_vars(Kernel)
-----------------------------------------------------------------------------
TypeOK ==
  /\ disk \in [WorkItems -> WorkItemRecord]
  /\ phase \in {"idle", "prologue", "loop", "dispatched", "reresolving"}
  /\ item \in WorkItems
  /\ workItem \in WorkItemRecord
  /\ stage \in Stages \cup Control \cup {NoStage}
  /\ iteration \in 0 .. MaxIterations
  /\ attempt \in Nat
  /\ escalated \in BOOLEAN
  /\ routedBack \subseteq Stages
  /\ verdicts \in Collected
  /\ budget \in [run : Budget, workItem : Budget]
  /\ safePrefix \subseteq Stages
  /\ outcome \in RunOutcomes \cup {"none"}
  /\ runs \in 0 .. MaxRuns
  /\ logStage \in Stages \cup Control \cup {NoStage}
  /\ history \in HistoryType

(* No run takes a loop more often than its cap, and no work item does over   *)
(* all its runs (state-machine.ts loopExhausted, checked when the edge is    *)
(* chosen; kernel.ts increments after it is taken).                          *)
LoopCapsHold ==
  \A c \in Counters :
    /\ budget.run.loops[c] <= RunLoopCap[c]
    /\ budget.workItem.loops[c] <= WorkItemLoopCap[c]

(* A run's charged dispatches stay within its cap, and the work item's       *)
(* within one of theirs: the check is made before each dispatch, and the     *)
(* orchestrator's does not see the context dispatch just made.               *)
DispatchCapsHold ==
  /\ budget.run.dispatches <= DispatchesPerRun
  /\ budget.workItem.dispatches <= DispatchesPerWorkItem + 1

(* A run is never charged more over its cost ceiling than the one dispatch   *)
(* that crossed it (budgets.ts checkDispatchBudget tests the ceiling before  *)
(* the cost is known), and a work item no more than two: the orchestrator's  *)
(* check does not see what the context dispatch before it was charged.       *)
CostOvershootIsOneDispatch ==
  /\ budget.run.usd > 0 =>
       \E usd \in Costs : budget.run.usd < RunUsd + usd
  /\ budget.workItem.usd > 0 =>
       \E usd, more \in Costs : budget.workItem.usd < WorkItemUsd + usd + more

(* COMPLETE means the work was shown to be done: no critical criterion is    *)
(* unmet, every one of them that a stage owns was answered for by a stage of *)
(* this very run, unless the profile sets it aside or the prologue owes it,  *)
(* and the work item is ACHIEVED.  Resumption has no say in completion.      *)
CompleteIsEarned ==
  outcome = "COMPLETE" =>
    /\ UnmetCritical(verdicts) = {}
    /\ disk[item].life = "ACHIEVED"
    /\ \A c \in Critical \ (NotApplicableDefault \cup PrologueCriteria) :
         StageOwning(c) # NoStage =>
           \E s \in history.answered : c \in OwedBy[s]

(* A run that completes after an accepted IMPLEMENTATION has had VALIDATION  *)
(* answer since, whatever laps and route-backs came between: the graph's     *)
(* post-dominance and the loop's bookkeeping together.                       *)
ValidatedSinceLastChange ==
  /\ outcome = "COMPLETE"
  /\ "IMPLEMENTATION" \in history.since
  => "VALIDATION" \in history.since

(* No work item is re-resolved past the cap of policies/data/budgets.json.   *)
ReresolutionCapHolds ==
  \A w \in WorkItems : disk[w].reresolutions <= ReresolutionCap

AtMost(a, b) ==
  /\ a.dispatches <= b.dispatches
  /\ a.usd <= b.usd
  /\ \A c \in Counters : a.loops[c] <= b.loops[c]

(* What the disk says a work item consumed is never lowered, whatever ends,  *)
(* crashes and restarts happen (kernel.ts end, complete, reresolve).         *)
ConsumptionNeverRefunded ==
  [][\A w \in WorkItems : AtMost(disk[w].consumed, disk[w].consumed')]_vars

(* A started run ends, or its process died: graphs may cycle through edges   *)
(* without a counter, failed dispatches are charged to nobody, and the loop  *)
(* still stops.                                                              *)
RunEnds ==
  phase \in {"prologue", "loop", "dispatched"} ~> phase \in {"idle", "reresolving"}

-----------------------------------------------------------------------------
(* The run loop implements RunLifecycle, whatever the graph, as long as no   *)
(* edge ends a run but COMPLETION's (CompletionIsTheOnlyWayOut).             *)
Abstract == INSTANCE RunLifecycle WITH
  running  <- IF phase \in {"idle", "reresolving"} THEN Nobody ELSE item,
  achieved <- {w \in WorkItems : disk[w].life = "ACHIEVED"},
  result   <- outcome,
  fuel     <- MaxIterations - iteration,
  Fuel     <- MaxIterations

(* Its safety: every step of the kernel, and every crash, is a step of the   *)
(* run it promises, or none (kernel.ts loop, complete, end).                 *)
ImplementsRunLifecycle == Abstract!LifecycleSpec

-----------------------------------------------------------------------------
(* What a comment of the code says and the code does not do.                 *)

(* budgets.ts:10-12, "everything is counted twice, per Workflow Run and per  *)
(* Work Item": the end of a run leaves on disk what the work item consumed.  *)
ConsumptionIsCumulative ==
  phase = "idle" /\ outcome # "none" => disk[item].consumed = budget.workItem

(* Every edge out of the graph leaves from COMPLETION, as in every shipped   *)
(* template (policies/src/graph.ts checks it of COMPLETE).                   *)
CompletionIsTheOnlyWayOut ==
  \A i \in DOMAIN Edges :
    Edges[i].to \in {"COMPLETE", "CANCELLED"} => Edges[i].from = "COMPLETION"

(* VALIDATION post-dominates IMPLEMENTATION: what IMPLEMENTATION reaches     *)
(* without passing VALIDATION has neither COMPLETION nor an end of the graph *)
(* in it.  The workflow floor asks it along forward edges (policies/src/     *)
(* graph.ts postDominates); here it is along every edge, loops included, as  *)
(* in every shipped template.                                                *)
ValidationPostDominates ==
  \E region \in SUBSET (Stages \cup Control) :
    /\ "IMPLEMENTATION" \in region
    /\ region \cap {"COMPLETION", "COMPLETE", "CANCELLED"} = {}
    /\ \A i \in DOMAIN Edges :
         Edges[i].from \in region \ {"VALIDATION"} => Edges[i].to \in region
=============================================================================
