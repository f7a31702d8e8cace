--------------------------- MODULE RunLoopProofs ---------------------------
(***************************************************************************)
(* The run loop, for every graph, profile, budget and set of work items.   *)
(*                                                                         *)
(* IInv is the inductive invariant, in parts.  Typing goes with the shape  *)
(* of a run and its loop counters, since a decision is only legal for a    *)
(* typed one; the other parts rest on that one and not on each other.      *)
(***************************************************************************)
EXTENDS RunLoop, DecisionProofs

Working == {"prologue", "loop", "dispatched"}

(* What a run that is under way looks like, and one that is not.             *)
Shape ==
  /\ phase \in Working => outcome = "none"
  /\ phase = "reresolving" => outcome = "RERESOLVED"
  /\ phase = "dispatched" =>
       iteration < MaxIterations /\ stage \in Described \ {"COMPLETION"}

(* The caps bound what is on disk and what a run started with too: that is   *)
(* what makes the second run of a work item begin inside them.               *)
LoopsWithinCaps ==
  /\ LoopCapsHold
  /\ \A c \in Counters :
       /\ workItem.consumed.loops[c] <= WorkItemLoopCap[c]
       /\ \A w \in WorkItems : disk[w].consumed.loops[c] <= WorkItemLoopCap[c]

Base == TypeOK /\ Shape /\ LoopsWithinCaps

-----------------------------------------------------------------------------
(* The arithmetic of core/src/budgets.ts.                                    *)
LEMMA ZeroBudgetType ==
  /\ ZeroBudget \in Budget
  /\ ZeroBudget.dispatches = 0
  /\ ZeroBudget.usd = 0
  /\ \A c \in Counters : ZeroBudget.loops[c] = 0
<1> DEFINE none == [c \in Counters |-> 0]
<1>1. none \in [Counters -> Nat] /\ \A c \in Counters : none[c] = 0
  OBVIOUS
<1>2. ZeroBudget = [dispatches |-> 0, usd |-> 0, loops |-> none]
  BY DEF ZeroBudget
<1> HIDE DEF none
<1>3. /\ ZeroBudget.dispatches = 0
      /\ ZeroBudget.usd = 0
      /\ ZeroBudget.loops = none
  BY <1>2
<1>4. ZeroBudget \in Budget
  BY <1>1, <1>2 DEF Budget
<1> QED
  BY <1>1, <1>3, <1>4

(* Charging a dispatch counts one and adds its cost (addCost).               *)
LEMMA AddCostType ==
  ASSUME NEW b \in Budget, NEW usd \in Nat
  PROVE  /\ AddCost(b, usd) \in Budget
         /\ AddCost(b, usd).dispatches = b.dispatches + 1
         /\ AddCost(b, usd).usd = b.usd + usd
         /\ AddCost(b, usd).loops = b.loops
<1>1. /\ b.dispatches + 1 \in Nat /\ b.usd + usd \in Nat
      /\ b.loops \in [Counters -> Nat]
  BY DEF Budget
<1> QED
  BY <1>1 DEF AddCost, Budget

(* Counting a lap changes that counter alone (incrementLoop).                *)
LEMMA IncrementLoopType ==
  ASSUME NEW b \in Budget, NEW c \in Counters
  PROVE  /\ IncrementLoop(b, c) \in Budget
         /\ IncrementLoop(b, c).dispatches = b.dispatches
         /\ IncrementLoop(b, c).usd = b.usd
         /\ IncrementLoop(b, c).loops = [b.loops EXCEPT ![c] = @ + 1]
  BY DEF IncrementLoop, Budget

(* The bound on iterations is a number.                                      *)
LEMMA MaxIterationsType == MaxIterations \in Nat
<1>1. Len(GraphStages) \in Nat
  BY FrozenGraphAssumption
<1> QED
  BY <1>1, RunLoopAssumption DEF MaxIterations

(* A record of a work item, written with another lifecycle.                  *)
LEMMA RelifedType ==
  ASSUME NEW record \in WorkItemRecord, NEW life \in Lifecycles
  PROVE  /\ [record EXCEPT !.life = life] \in WorkItemRecord
         /\ [record EXCEPT !.life = life].life = life
         /\ [record EXCEPT !.life = life].consumed = record.consumed
         /\ [record EXCEPT !.life = life].reresolutions = record.reresolutions
  BY DEF WorkItemRecord

-----------------------------------------------------------------------------
(* What ends a run: one record written, one outcome (kernel.ts end).         *)
LEMMA EndEffects ==
  ASSUME TypeOK, NEW record \in WorkItemRecord, NEW life \in Lifecycles,
         NEW result \in RunOutcomes, End(record, life, result)
  PROVE  /\ disk' \in [WorkItems -> WorkItemRecord]
         /\ disk'[item].life = life
         /\ disk'[item].consumed = record.consumed
         /\ disk'[item].reresolutions = record.reresolutions
         /\ \A w \in WorkItems \ {item} : disk'[w] = disk[w]
         /\ outcome' = result
         /\ phase' = IF result = "RERESOLVED" THEN "reresolving" ELSE "idle"
  BY RelifedType DEF End, TypeOK

(* What an accepted envelope adds to the budgets, whatever is decided on it. *)
Grown(declared) ==
  /\ budget' \in [run : Budget, workItem : Budget]
  /\ budget'.run.dispatches = budget.run.dispatches + 1
  /\ budget'.workItem.dispatches = budget.workItem.dispatches + 1
  /\ budget'.run.usd = budget.run.usd + declared
  /\ budget'.workItem.usd = budget.workItem.usd + declared
  /\ \A c \in Counters :
       budget.workItem.loops[c] <= budget'.workItem.loops[c]
  /\ LoopCapsHold'

(* Then the run goes on, or it stops.                                        *)
Continues ==
  /\ phase' = "loop"
  /\ iteration' = iteration + 1
  /\ UNCHANGED <<workItem, outcome>>
  /\ disk' \in {disk, [disk EXCEPT ![item] = workItem]}

Stops ==
  /\ UNCHANGED iteration
  /\ outcome' \in {"BLOCKED", "RERESOLVED"}
  /\ phase' = IF outcome' = "RERESOLVED" THEN "reresolving" ELSE "idle"
  /\ workItem' \in WorkItemRecord
  /\ workItem'.life = workItem.life
  /\ workItem'.consumed \in {workItem.consumed, budget'.workItem}
  /\ \/ workItem'.reresolutions = workItem.reresolutions
     \/ /\ workItem'.reresolutions = workItem.reresolutions + 1
        /\ workItem.reresolutions < ReresolutionCap
  /\ disk' \in [WorkItems -> WorkItemRecord]
  /\ disk'[item].life \in {workItem.life, "BLOCKED"}
  /\ disk'[item].consumed = workItem'.consumed
  /\ disk'[item].reresolutions = workItem'.reresolutions
  /\ \A w \in WorkItems \ {item} : disk'[w] = disk[w]

(* What accepting an envelope charges, in both scopes.                       *)
LEMMA ChargedType ==
  ASSUME TypeOK, LoopCapsHold, NEW declared \in Costs, budget' = Charged(declared)
  PROVE  Grown(declared)
<1>1. declared \in Nat /\ budget.run \in Budget /\ budget.workItem \in Budget
  BY RunLoopAssumption DEF TypeOK
<1>2. /\ AddCost(budget.run, declared) \in Budget
      /\ AddCost(budget.workItem, declared) \in Budget
  BY <1>1, AddCostType
<1>3. /\ budget'.run = AddCost(budget.run, declared)
      /\ budget'.workItem = AddCost(budget.workItem, declared)
      /\ budget' \in [run : Budget, workItem : Budget]
  BY <1>2 DEF Charged
<1>4. /\ budget'.run.loops = budget.run.loops
      /\ budget'.workItem.loops = budget.workItem.loops
      /\ budget'.run.dispatches = budget.run.dispatches + 1
      /\ budget'.workItem.dispatches = budget.workItem.dispatches + 1
      /\ budget'.run.usd = budget.run.usd + declared
      /\ budget'.workItem.usd = budget.workItem.usd + declared
  BY <1>1, <1>3, AddCostType
<1>5. \A c \in Counters : budget.workItem.loops[c] <= budget'.workItem.loops[c]
  BY <1>1, <1>4 DEF Budget
<1>6. LoopCapsHold'
  BY <1>4 DEF LoopCapsHold
<1> QED
  BY <1>3, <1>4, <1>5, <1>6 DEF Grown

(* A loop edge that is not exhausted leaves both counters within their caps: *)
(* the check and the increment are apart in the code, and agree.             *)
LEMMA LappedType ==
  ASSUME TypeOK, LoopCapsHold, NEW declared \in Costs, NEW i \in DOMAIN Edges,
         ~LoopExhausted(i, budget.run.loops, budget.workItem.loops),
         budget' = Lapped(Charged(declared), Edges[i])
  PROVE  Grown(declared)
<1> DEFINE c == Edges[i].counter
           charged == Charged(declared)
<1>1. CASE ~(Edges[i].kind = "loop" /\ c # NoCounter)
  BY <1>1, ChargedType DEF Lapped
<1>2. CASE Edges[i].kind = "loop" /\ c # NoCounter
  <2>1. declared \in Nat /\ budget.run \in Budget /\ budget.workItem \in Budget
    BY RunLoopAssumption DEF TypeOK
  <2>2. c \in Counters
    BY <1>2, EdgeTyped DEF EdgeType
  <2>3. /\ charged.run = AddCost(budget.run, declared)
        /\ charged.workItem = AddCost(budget.workItem, declared)
    BY DEF Charged
  <2>4. /\ charged.run \in Budget /\ charged.workItem \in Budget
        /\ charged.run.loops = budget.run.loops
        /\ charged.workItem.loops = budget.workItem.loops
        /\ charged.run.dispatches = budget.run.dispatches + 1
        /\ charged.workItem.dispatches = budget.workItem.dispatches + 1
        /\ charged.run.usd = budget.run.usd + declared
        /\ charged.workItem.usd = budget.workItem.usd + declared
    BY <2>1, <2>3, AddCostType
  <2>5. /\ budget'.run = IncrementLoop(charged.run, c)
        /\ budget'.workItem = IncrementLoop(charged.workItem, c)
        /\ budget' = [run |-> budget'.run, workItem |-> budget'.workItem]
    BY <1>2 DEF Lapped
  <2> HIDE DEF charged, c
  <2>6. /\ budget'.run \in Budget /\ budget'.workItem \in Budget
        /\ budget'.run.loops = [budget.run.loops EXCEPT ![c] = @ + 1]
        /\ budget'.workItem.loops = [budget.workItem.loops EXCEPT ![c] = @ + 1]
        /\ budget'.run.dispatches = budget.run.dispatches + 1
        /\ budget'.workItem.dispatches = budget.workItem.dispatches + 1
        /\ budget'.run.usd = budget.run.usd + declared
        /\ budget'.workItem.usd = budget.workItem.usd + declared
    <3> DEFINE Laps(b) == IncrementLoop(b, c)
    <3>1. \A b \in Budget : /\ Laps(b) \in Budget
                            /\ Laps(b).dispatches = b.dispatches
                            /\ Laps(b).usd = b.usd
                            /\ Laps(b).loops = [b.loops EXCEPT ![c] = @ + 1]
      BY <2>2, IncrementLoopType
    <3>2. budget'.run = Laps(charged.run) /\ budget'.workItem = Laps(charged.workItem)
      BY <2>5
    <3> HIDE DEF Laps
    <3> QED
      BY <2>4, <3>1, <3>2
  <2>7. /\ budget.run.loops \in [Counters -> Nat]
        /\ budget.workItem.loops \in [Counters -> Nat]
    BY <2>1 DEF Budget
  <2>8. /\ budget.run.loops[c] + 1 <= RunLoopCap[c]
        /\ budget.workItem.loops[c] + 1 <= WorkItemLoopCap[c]
    <3>1. /\ ~(budget.run.loops[c] + 1 > RunLoopCap[c])
          /\ ~(budget.workItem.loops[c] + 1 > WorkItemLoopCap[c])
      BY <1>2 DEF LoopExhausted, c
    <3> QED
      BY <2>2, <2>7, <3>1, StateMachineAssumption
  <2>9. \A d \in Counters :
          /\ budget'.run.loops[d] <= RunLoopCap[d]
          /\ budget'.workItem.loops[d] <= WorkItemLoopCap[d]
          /\ budget.workItem.loops[d] <= budget'.workItem.loops[d]
    BY <2>2, <2>6, <2>7, <2>8 DEF LoopCapsHold
  <2>10. budget' \in [run : Budget, workItem : Budget]
    BY <2>5, <2>6
  <2> QED
    BY <2>6, <2>9, <2>10 DEF Grown, LoopCapsHold
<1> QED
  BY <1>1, <1>2

(* An allowed re-resolution counts itself and what was consumed; a refused   *)
(* one blocks the run and writes neither.                                    *)
LEMMA ReresolveEffects ==
  ASSUME TypeOK, NEW charged, Reresolve(charged), UNCHANGED iteration,
         charged \in [run : Budget, workItem : Budget]
  PROVE  Stops
<1>1. workItem \in WorkItemRecord /\ workItem.life \in Lifecycles /\ item \in WorkItems
  BY DEF TypeOK, WorkItemRecord
<1>2. budget' = charged /\ charged.workItem \in Budget
  BY DEF Reresolve
<1>3. CASE ReresolutionAllowed
  <2>1. /\ workItem' = [life          |-> workItem.life,
                         consumed      |-> charged.workItem,
                         reresolutions |-> workItem.reresolutions + 1]
        /\ End(workItem', workItem.life, "RERESOLVED")
    BY <1>3 DEF Reresolve
  <2>2. /\ workItem' \in WorkItemRecord
        /\ workItem'.life = workItem.life
        /\ workItem'.consumed = charged.workItem
        /\ workItem'.reresolutions = workItem.reresolutions + 1
    BY <1>1, <1>2, <2>1 DEF WorkItemRecord
  <2>3. workItem.reresolutions < ReresolutionCap
    BY <1>3 DEF ReresolutionAllowed
  <2> QED
    BY <1>1, <1>2, <2>1, <2>2, <2>3, EndEffects DEF Stops, RunOutcomes
<1>4. CASE ~ReresolutionAllowed
  <2>1. workItem' = workItem /\ End(workItem, "BLOCKED", "BLOCKED")
    BY <1>4 DEF Reresolve
  <2> QED
    BY <1>1, <2>1, EndEffects DEF Stops, RunOutcomes, Lifecycles
<1> QED
  BY <1>3, <1>4

(* Blocking on an accepted envelope: the work item is written back as the    *)
(* run holds it, BLOCKED.                                                    *)
LEMMA BlockRunEffects ==
  ASSUME Base, NEW declared \in Costs, BlockRun(declared)
  PROVE  Grown(declared) /\ Stops
<1>1. Grown(declared)
  BY ChargedType DEF BlockRun, Base, LoopsWithinCaps
<1>2. /\ workItem \in WorkItemRecord
      /\ workItem' = workItem /\ iteration' = iteration
      /\ End(workItem, "BLOCKED", "BLOCKED")
  BY DEF BlockRun, Base, TypeOK
<1> QED
  BY <1>1, <1>2, EndEffects DEF Stops, Base, RunOutcomes, Lifecycles

(* What holds after an envelope was accepted, whatever it said.              *)
Accepted(declared) ==
  /\ Receive(declared)
  /\ Grown(declared)
  /\ Continues \/ Stops
  /\ UNCHANGED <<item, routedBack, safePrefix, runs>>
  /\ attempt' \in Nat
  /\ escalated' \in BOOLEAN
  /\ stage' \in Stages \cup Control
  /\ CompletionIsTheOnlyWayOut => stage' \notin {"COMPLETE", "CANCELLED"}
  /\ logStage' \in Stages \cup Control \cup {NoStage}

(* Only a described stage of the graph is dispatched.                        *)
LEMMA DispatchedStage ==
  ASSUME Base, phase = "dispatched"
  PROVE  /\ stage \in Stages /\ stage # "COMPLETION" /\ stage \in Described
         /\ stage \notin {"COMPLETE", "CANCELLED"}
  BY DodAssumption, FrozenGraphAssumption DEF Base, Shape, Described, Control

(* Taking an edge goes on, ends the run for re-resolution, or blocks it.     *)
LEMMA TakeEdgeEffects ==
  ASSUME Base, phase = "dispatched", NEW declared \in Costs,
         NEW linked \in BOOLEAN, NEW i \in DOMAIN Edges,
         ~LoopExhausted(i, budget.run.loops, budget.workItem.loops),
         Edges[i].from = stage \/ Edges[i].to = "ARCHITECTURE",
         TakeEdge(Edges[i], declared, linked)
  PROVE  /\ Grown(declared)
         /\ Continues \/ Stops
         /\ attempt' \in Nat
         /\ escalated' \in BOOLEAN
         /\ stage' \in Stages \cup Control
         /\ CompletionIsTheOnlyWayOut => stage' \notin {"COMPLETE", "CANCELLED"}
         /\ logStage' \in Stages \cup Control \cup {NoStage}
<1>1. stage' = Edges[i].to /\ logStage' = Edges[i].to
  BY DEF TakeEdge, Target
<1>2. Edges[i].to \in Stages \cup Control
  BY EdgeTyped DEF EdgeType
<1>3. CompletionIsTheOnlyWayOut => Edges[i].to \notin {"COMPLETE", "CANCELLED"}
  BY DispatchedStage DEF CompletionIsTheOnlyWayOut
<1>4. budget' = Lapped(Charged(declared), Edges[i])
  BY DEF TakeEdge, Reresolve
<1>5. Grown(declared)
  BY <1>4, LappedType DEF Base, LoopsWithinCaps
<1>6. CASE LeavesSafePrefix(Target(Edges[i]))
  <2>1. /\ Reresolve(Lapped(Charged(declared), Edges[i]))
        /\ UNCHANGED <<iteration, attempt, escalated>>
    BY <1>6 DEF TakeEdge
  <2>2. Lapped(Charged(declared), Edges[i]) \in [run : Budget, workItem : Budget]
    BY <1>4, <1>5 DEF Grown
  <2>3. Stops
    BY <2>1, <2>2, ReresolveEffects DEF Base
  <2>4. attempt' \in Nat /\ escalated' \in BOOLEAN
    BY <2>1 DEF Base, TypeOK
  <2> QED
    BY <1>1, <1>2, <1>3, <1>5, <2>3, <2>4
<1>7. CASE ~LeavesSafePrefix(Target(Edges[i]))
  <2>1. Continues
    BY <1>7 DEF TakeEdge, Continues, Linked
  <2>2. attempt' = 0 /\ escalated' = FALSE
    BY <1>7 DEF TakeEdge
  <2> QED
    BY <1>1, <1>2, <1>3, <1>5, <2>1, <2>2
<1> QED
  BY <1>6, <1>7

(* Accepting an envelope is one of few things, whatever the graph            *)
(* (kernel.ts loop).                                                         *)
LEMMA AcceptEffects ==
  ASSUME Base, Accept
  PROVE  \E declared \in Costs : Accepted(declared)
<1>1. phase = "dispatched"
  BY DEF Accept
<1>2. PICK declared \in Costs :
        \/ StructurallyBlocked(declared)
        \/ \E env \in LegalEnvelopes(stage), val \in Valuations(stage),
              linked \in {b \in BOOLEAN : b => stage \in LinkingStages} :
             EnvelopeAccepted(env, val, declared, linked)
  BY DEF Accept
<1>3. /\ stage \in Stages \cup Control
      /\ stage \notin {"COMPLETE", "CANCELLED"}
      /\ attempt \in Nat /\ escalated \in BOOLEAN
      /\ logStage \in Stages \cup Control \cup {NoStage}
  BY <1>1, DispatchedStage DEF Base, TypeOK
<1>4. CASE StructurallyBlocked(declared)
  <2>1. /\ Receive(declared) /\ BlockRun(declared)
        /\ UNCHANGED <<item, routedBack, safePrefix, runs>>
    BY <1>4 DEF StructurallyBlocked
  <2>2. Grown(declared) /\ Stops
    BY <2>1, BlockRunEffects
  <2>3. /\ UNCHANGED <<stage, attempt, escalated>>
        /\ logStage' = "BLOCKED"
    BY <2>1 DEF BlockRun
  <2> QED
    BY <1>3, <2>1, <2>2, <2>3 DEF Accepted, Control
<1>5. ASSUME NEW env \in LegalEnvelopes(stage), NEW val \in Valuations(stage),
             NEW linked \in {b \in BOOLEAN : b => stage \in LinkingStages},
             EnvelopeAccepted(env, val, declared, linked)
      PROVE  Accepted(declared)
  <2> DEFINE action == DecideAction(stage, env, val, attempt, escalated,
                                    budget.run.loops, budget.workItem.loops)
  <2>1. env \in EnvelopeView /\ linked \in BOOLEAN
    BY DEF LegalEnvelopes
  <2>2. /\ action \in Decisions
        /\ action.kind = "TRANSITION" =>
             /\ action.edge \in DOMAIN Edges
             /\ ~LoopExhausted(action.edge, budget.run.loops,
                               budget.workItem.loops)
             /\ \/ Edges[action.edge].from = stage
                \/ Edges[action.edge].to = "ARCHITECTURE"
    BY <1>3, <2>1, DecideActionLegal
  <2>3. /\ Receive(declared)
        /\ UNCHANGED <<item, routedBack, safePrefix, runs>>
        /\ \/ /\ action.kind = "TRANSITION"
              /\ TakeEdge(Edges[action.edge], declared, linked)
           \/ action.kind = "REDISPATCH" /\ Again(action, declared, linked)
           \/ action.kind = "BLOCK" /\ BlockRun(declared)
           \/ /\ action.kind = "RERESOLVE"
              /\ Reresolve(Charged(declared))
              /\ UNCHANGED <<stage, iteration, attempt, escalated, logStage>>
    BY <1>5 DEF EnvelopeAccepted
  <2> HIDE DEF action
  <2>4. CASE /\ action.kind = "TRANSITION"
             /\ TakeEdge(Edges[action.edge], declared, linked)
    BY <1>1, <2>1, <2>2, <2>3, <2>4, TakeEdgeEffects DEF Accepted
  <2>5. CASE action.kind = "REDISPATCH" /\ Again(action, declared, linked)
    <3>1. Grown(declared)
      BY <2>5, ChargedType DEF Again, Base, LoopsWithinCaps
    <3>2. Continues
      BY <2>5 DEF Again, Continues, Linked
    <3>3. /\ UNCHANGED <<stage, attempt, logStage>>
          /\ escalated' = (escalated \/ action.escalate)
      BY <2>5 DEF Again
    <3>4. action.escalate \in BOOLEAN
      BY <2>2 DEF Decisions
    <3>5. escalated' \in BOOLEAN
      BY <1>3, <3>3, <3>4
    <3> QED
      BY <1>3, <2>3, <3>1, <3>2, <3>3, <3>5 DEF Accepted
  <2>6. CASE action.kind = "BLOCK" /\ BlockRun(declared)
    <3>1. Grown(declared) /\ Stops
      BY <2>6, BlockRunEffects
    <3>2. /\ UNCHANGED <<stage, attempt, escalated>>
          /\ logStage' = "BLOCKED"
      BY <2>6 DEF BlockRun
    <3> QED
      BY <1>3, <2>3, <3>1, <3>2 DEF Accepted, Control
  <2>7. CASE /\ action.kind = "RERESOLVE"
             /\ Reresolve(Charged(declared))
             /\ UNCHANGED <<stage, iteration, attempt, escalated, logStage>>
    <3>1. Grown(declared)
      BY <2>7, ChargedType DEF Reresolve, Base, LoopsWithinCaps
    <3>2. Charged(declared) \in [run : Budget, workItem : Budget]
      BY <2>7, <3>1 DEF Grown, Reresolve
    <3>3. Stops
      BY <2>7, <3>2, ReresolveEffects DEF Base
    <3> QED
      BY <1>3, <2>3, <2>7, <3>1, <3>3 DEF Accepted
  <2> QED
    BY <2>3, <2>4, <2>5, <2>6, <2>7
<1> QED
  BY <1>2, <1>4, <1>5
-----------------------------------------------------------------------------
(* The steps that end a run outside an accepted envelope.                    *)
LEMMA BaseEnd ==
  ASSUME Base, NEW record \in WorkItemRecord, NEW life \in Lifecycles,
         NEW result \in RunOutcomes, End(record, life, result),
         \A c \in Counters : record.consumed.loops[c] <= WorkItemLoopCap[c],
         UNCHANGED <<loopVars, stage, iteration, attempt, escalated, runs>>,
         history' \in HistoryType,
         logStage' \in Stages \cup Control \cup {NoStage}
  PROVE  Base'
<1>1. /\ disk' \in [WorkItems -> WorkItemRecord]
      /\ disk'[item].consumed = record.consumed
      /\ \A w \in WorkItems \ {item} : disk'[w] = disk[w]
      /\ outcome' = result
      /\ phase' = IF result = "RERESOLVED" THEN "reresolving" ELSE "idle"
  BY EndEffects DEF Base
<1>2. TypeOK'
  BY <1>1 DEF Base, TypeOK, loopVars
<1>3. Shape'
  BY <1>1 DEF Base, Shape, Working
<1>4. LoopsWithinCaps'
  BY <1>1 DEF Base, LoopsWithinCaps, LoopCapsHold, loopVars, TypeOK
<1> QED
  BY <1>2, <1>3, <1>4 DEF Base

(* What such a step may write, of what the run holds.                        *)
LEMMA Writable ==
  ASSUME Base
  PROVE  /\ workItem \in WorkItemRecord
         /\ workItem.life \in Lifecycles
         /\ \A c \in Counters : workItem.consumed.loops[c] <= WorkItemLoopCap[c]
         /\ history \in HistoryType
         /\ logStage \in Stages \cup Control \cup {NoStage}
         /\ {"BLOCKED", "UNDERSTOOD", "ACHIEVED"} \subseteq Lifecycles
         /\ {"BLOCKED", "COMPLETE", "FAILED"} \subseteq RunOutcomes
         /\ "BLOCKED" \in Control
  BY DEF Base, TypeOK, LoopsWithinCaps, WorkItemRecord, Lifecycles, RunOutcomes,
         Control

(* The base invariant holds before anything runs.                            *)
LEMMA BaseInit == Init => Base
<1> SUFFICES ASSUME Init PROVE Base
  OBVIOUS
<1>1. /\ AbsentWorkItem \in WorkItemRecord
      /\ \A c \in Counters : AbsentWorkItem.consumed.loops[c] = 0
  BY ZeroBudgetType DEF AbsentWorkItem, WorkItemRecord, Lifecycles
<1>2. TypeOK
  <2>1. disk \in [WorkItems -> WorkItemRecord] /\ workItem \in WorkItemRecord
    BY <1>1 DEF Init
  <2>2. budget \in [run : Budget, workItem : Budget]
    BY ZeroBudgetType DEF Init
  <2>3. verdicts \in Collected
    BY DEF Init, Collected
  <2>4. iteration \in 0 .. MaxIterations /\ runs \in 0 .. MaxRuns
    BY MaxIterationsType, RunLoopAssumption DEF Init
  <2>5. history \in HistoryType
    BY DEF Init, HistoryType
  <2> QED
    BY <2>1, <2>2, <2>3, <2>4, <2>5 DEF Init, TypeOK
<1>3. Shape
  BY DEF Init, Shape, Working
<1>4. LoopsWithinCaps
  BY <1>1, ZeroBudgetType, StateMachineAssumption
     DEF Init, LoopsWithinCaps, LoopCapsHold
<1> QED
  BY <1>2, <1>3, <1>4 DEF Base

(* Starting a run keeps the base invariant.                                  *)
LEMMA BaseStart ==
  ASSUME Base, NEW w \in WorkItems, StartRun(w)
  PROVE  Base'
<1>1. disk[w] \in WorkItemRecord /\ "RESOLVED" \in Lifecycles
  BY DEF Base, TypeOK, Lifecycles
<1>2. /\ workItem' \in WorkItemRecord
      /\ workItem'.consumed = disk[w].consumed
  BY <1>1, RelifedType DEF StartRun
<1>3. /\ disk' \in [WorkItems -> WorkItemRecord]
      /\ disk'[w].consumed = disk[w].consumed
      /\ \A v \in WorkItems \ {w} : disk'[v] = disk[v]
  BY <1>2 DEF StartRun, Base, TypeOK
<1>4. /\ budget'.run = ZeroBudget /\ budget'.workItem = disk[w].consumed
      /\ budget' \in [run : Budget, workItem : Budget]
  BY <1>1, ZeroBudgetType DEF StartRun, BudgetAtStart, WorkItemRecord
<1>5. history' \in HistoryType
  BY DEF StartRun, Base, TypeOK, HistoryType
<1>6. verdicts' \in Collected
  BY DEF StartRun, Collected
<1>7. runs' \in 0 .. MaxRuns /\ iteration' \in 0 .. MaxIterations
  BY MaxIterationsType, RunLoopAssumption DEF StartRun, Base, TypeOK
<1>8. TypeOK'
  BY <1>2, <1>3, <1>4, <1>5, <1>6, <1>7 DEF StartRun, TypeOK, RunOutcomes
<1>9. Shape'
  BY DEF StartRun, Shape, Working
<1>10. LoopsWithinCaps'
  <2>1. \A c \in Counters : disk[w].consumed.loops[c] <= WorkItemLoopCap[c]
    BY DEF Base, LoopsWithinCaps
  <2>2. \A c \in Counters : budget'.run.loops[c] <= RunLoopCap[c]
    BY <1>4, ZeroBudgetType, StateMachineAssumption
  <2>3. LoopCapsHold'
    BY <1>4, <2>1, <2>2 DEF LoopCapsHold
  <2>4. \A c \in Counters, v \in WorkItems :
          disk'[v].consumed.loops[c] <= WorkItemLoopCap[c]
    BY <1>3 DEF Base, LoopsWithinCaps
  <2> QED
    BY <1>2, <2>1, <2>3, <2>4 DEF LoopsWithinCaps
<1> QED
  BY <1>8, <1>9, <1>10 DEF Base

(* What the prologue charges: the context dispatch, and the orchestrator's   *)
(* when its envelope is accepted (kernel.ts runGraph).                       *)
LEMMA EnterGraphCharges ==
  ASSUME Base, NEW entry \in Stages, EnterGraph(entry)
  PROVE  \E usd, more \in Costs :
           /\ budget' \in [run : Budget, workItem : Budget]
           /\ \A c \in Counters : /\ budget'.run.loops[c] = 0
                                  /\ budget'.workItem.loops[c] =
                                       workItem.consumed.loops[c]
           /\ \/ /\ budget'.run.dispatches = 1
                 /\ budget'.run.usd = usd
                 /\ budget'.workItem.dispatches = workItem.consumed.dispatches + 1
                 /\ budget'.workItem.usd = workItem.consumed.usd + usd
                 /\ history'.spent = usd
              \/ /\ budget'.run.dispatches = 2
                 /\ budget'.run.usd = usd + more
                 /\ budget'.workItem.dispatches = workItem.consumed.dispatches + 2
                 /\ budget'.workItem.usd = workItem.consumed.usd + usd + more
                 /\ history'.spent = usd + more
                 /\ 2 <= DispatchesPerRun
                 /\ usd < RunUsd
           /\ history' \in HistoryType
           /\ history'.answered = history.answered
<1>1. workItem.consumed \in Budget /\ Costs \subseteq Nat /\ history \in HistoryType
  BY RunLoopAssumption DEF Base, TypeOK, WorkItemRecord
<1> DEFINE context(usd) == AddCost(ZeroBudget, usd)
           total(usd) == AddCost(workItem.consumed, usd)
<1>2. PICK usd \in Costs :
        \/ /\ budget' = [run |-> context(usd), workItem |-> total(usd)]
           /\ history' = [history EXCEPT !.spent = usd]
        \/ /\ WithinBudget(context(usd), workItem.consumed)
           /\ \E more \in Costs :
                /\ budget' = [run |-> AddCost(context(usd), more),
                              workItem |-> AddCost(total(usd), more)]
                /\ history' = [history EXCEPT !.spent = usd + more]
  BY DEF EnterGraph, BudgetAtStart
<1>3. /\ context(usd) \in Budget /\ total(usd) \in Budget
      /\ context(usd).dispatches = 1 /\ context(usd).usd = usd
      /\ context(usd).loops = ZeroBudget.loops
      /\ total(usd).dispatches = workItem.consumed.dispatches + 1
      /\ total(usd).usd = workItem.consumed.usd + usd
      /\ total(usd).loops = workItem.consumed.loops
  <2>1. usd \in Nat
    BY <1>1
  <2>2. /\ context(usd) \in Budget
        /\ context(usd).dispatches = ZeroBudget.dispatches + 1
        /\ context(usd).usd = ZeroBudget.usd + usd
        /\ context(usd).loops = ZeroBudget.loops
    BY <2>1, AddCostType, ZeroBudgetType
  <2>3. /\ total(usd) \in Budget
        /\ total(usd).dispatches = workItem.consumed.dispatches + 1
        /\ total(usd).usd = workItem.consumed.usd + usd
        /\ total(usd).loops = workItem.consumed.loops
    BY <1>1, <2>1, AddCostType
  <2> HIDE DEF context, total
  <2> QED
    BY <2>1, <2>2, <2>3, ZeroBudgetType
<1> HIDE DEF context, total
<1>4. CASE /\ budget' = [run |-> context(usd), workItem |-> total(usd)]
           /\ history' = [history EXCEPT !.spent = usd]
  <2>1. history' \in HistoryType /\ history'.spent = usd
        /\ history'.answered = history.answered
    BY <1>1, <1>4 DEF HistoryType
  <2>2. budget'.run = context(usd) /\ budget'.workItem = total(usd)
        /\ budget' \in [run : Budget, workItem : Budget]
    BY <1>3, <1>4
  <2> QED
    BY <1>3, <2>1, <2>2, ZeroBudgetType
<1>5. ASSUME NEW more \in Costs, WithinBudget(context(usd), workItem.consumed),
             budget' = [run |-> AddCost(context(usd), more),
                        workItem |-> AddCost(total(usd), more)],
             history' = [history EXCEPT !.spent = usd + more]
      PROVE  /\ budget' \in [run : Budget, workItem : Budget]
             /\ budget'.run.loops = ZeroBudget.loops
             /\ budget'.workItem.loops = workItem.consumed.loops
             /\ budget'.run.dispatches = 2
             /\ budget'.run.usd = usd + more
             /\ budget'.workItem.dispatches = workItem.consumed.dispatches + 2
             /\ budget'.workItem.usd = workItem.consumed.usd + usd + more
             /\ history'.spent = usd + more
             /\ 2 <= DispatchesPerRun
             /\ usd < RunUsd
             /\ history' \in HistoryType
             /\ history'.answered = history.answered
  <2>1. /\ history' \in HistoryType /\ history'.spent = usd + more
        /\ history'.answered = history.answered
    BY <1>1, <1>5 DEF HistoryType
  <2>2. /\ AddCost(context(usd), more) \in Budget
        /\ AddCost(context(usd), more).dispatches = 2
        /\ AddCost(context(usd), more).usd = usd + more
        /\ AddCost(context(usd), more).loops = ZeroBudget.loops
    <3>1. /\ AddCost(context(usd), more) \in Budget
          /\ AddCost(context(usd), more).dispatches = context(usd).dispatches + 1
          /\ AddCost(context(usd), more).usd = context(usd).usd + more
          /\ AddCost(context(usd), more).loops = context(usd).loops
      BY <1>1, <1>3, AddCostType
    <3> QED
      BY <1>1, <1>3, <3>1
  <2>3. /\ AddCost(total(usd), more) \in Budget
        /\ AddCost(total(usd), more).dispatches = workItem.consumed.dispatches + 2
        /\ AddCost(total(usd), more).usd = workItem.consumed.usd + usd + more
        /\ AddCost(total(usd), more).loops = workItem.consumed.loops
    <3>1. workItem.consumed.dispatches \in Nat /\ workItem.consumed.usd \in Nat
      BY <1>1 DEF Budget
    <3>2. /\ AddCost(total(usd), more) \in Budget
          /\ AddCost(total(usd), more).dispatches = total(usd).dispatches + 1
          /\ AddCost(total(usd), more).usd = total(usd).usd + more
          /\ AddCost(total(usd), more).loops = total(usd).loops
      BY <1>1, <1>3, AddCostType
    <3> QED
      BY <1>1, <1>3, <3>1, <3>2
  <2>4. /\ budget'.run = AddCost(context(usd), more)
        /\ budget'.workItem = AddCost(total(usd), more)
        /\ budget' \in [run : Budget, workItem : Budget]
    BY <1>5, <2>2, <2>3
  <2>5. 2 <= DispatchesPerRun /\ usd < RunUsd
    BY <1>3, <1>5 DEF WithinBudget
  <2> QED
    BY <2>1, <2>2, <2>3, <2>4, <2>5
<1>6. \A c \in Counters : ZeroBudget.loops[c] = 0
  BY ZeroBudgetType
<1> QED
  BY <1>2, <1>4, <1>5, <1>6

(* Entering the graph keeps the base invariant.                              *)
LEMMA BaseEnter ==
  ASSUME Base, NEW entry \in Stages, EnterGraph(entry)
  PROVE  Base'
<1>1. workItem \in WorkItemRecord /\ "UNDERSTOOD" \in Lifecycles
  BY DEF Base, TypeOK, Lifecycles
<1>2. /\ workItem' \in WorkItemRecord
      /\ workItem'.consumed = workItem.consumed
  BY <1>1, RelifedType DEF EnterGraph
<1>3. /\ budget' \in [run : Budget, workItem : Budget]
      /\ history' \in HistoryType
      /\ \A c \in Counters :
           /\ budget'.run.loops[c] = 0
           /\ budget'.workItem.loops[c] = workItem.consumed.loops[c]
  BY EnterGraphCharges
<1>4. verdicts' \in Collected
  <2>1. PICK supplied \in SuppliedOn(PrologueCriteria) :
          verdicts' = Supersede(verdicts, supplied)
    BY DEF EnterGraph
  <2> QED
    BY <2>1, SupersedeType DEF Base, TypeOK
<1>5. safePrefix' \subseteq Stages
  BY RunLoopAssumption DEF EnterGraph
<1>6. TypeOK'
  BY <1>2, <1>3, <1>4, <1>5 DEF EnterGraph, Base, TypeOK
<1>7. Shape'
  BY DEF EnterGraph, Base, Shape, Working
<1>8. LoopsWithinCaps'
  <2>1. LoopCapsHold'
    <3>1. \A c \in Counters : budget'.run.loops[c] <= RunLoopCap[c]
      BY <1>3, StateMachineAssumption
    <3>2. \A c \in Counters : budget'.workItem.loops[c] <= WorkItemLoopCap[c]
      BY <1>3 DEF Base, LoopsWithinCaps
    <3> QED
      BY <3>1, <3>2 DEF LoopCapsHold
  <2>2. disk' = disk
    BY DEF EnterGraph
  <2> QED
    BY <1>2, <2>1, <2>2 DEF Base, LoopsWithinCaps
<1> QED
  BY <1>6, <1>7, <1>8 DEF Base

(* Accepting an envelope keeps the base invariant.                           *)
LEMMA BaseAccept ==
  ASSUME Base, Accept
  PROVE  Base'
<1>1. PICK declared \in Costs : Accepted(declared)
  BY AcceptEffects
<1>2. phase = "dispatched" /\ iteration < MaxIterations /\ stage \in Stages
  BY DispatchedStage DEF Accept, Base, Shape
<1>3. verdicts' \in Collected /\ history' \in HistoryType
  <2>1. Receive(declared) /\ verdicts \in Collected /\ history \in HistoryType
    BY <1>1 DEF Accepted, Base, TypeOK
  <2>2. PICK supplied \in SuppliedOn(OwedBy[stage]) :
          verdicts' = Supersede(verdicts, supplied)
    BY <2>1 DEF Receive
  <2>3. verdicts' \in Collected
    BY <2>1, <2>2, SupersedeType
  <2>4. PICK usd \in Costs :
          history' = [spent    |-> history.spent + usd,
                      answered |-> history.answered \cup {stage},
                      since    |-> IF stage = "IMPLEMENTATION"
                                     THEN {stage} ELSE history.since \cup {stage}]
    BY <2>1 DEF Receive
  <2>5. usd \in Nat
    BY RunLoopAssumption
  <2>6. history' \in HistoryType
    BY <1>2, <2>1, <2>4, <2>5 DEF HistoryType
  <2> QED
    BY <2>3, <2>6
<1>4. /\ workItem \in WorkItemRecord /\ disk \in [WorkItems -> WorkItemRecord]
      /\ item \in WorkItems /\ iteration \in 0 .. MaxIterations
  BY DEF Base, TypeOK
<1>5. LoopCapsHold' /\ budget' \in [run : Budget, workItem : Budget]
  BY <1>1 DEF Accepted, Grown
<1>6. CASE Continues
  <2>1. disk' \in [WorkItems -> WorkItemRecord]
    BY <1>4, <1>6 DEF Continues
  <2>2. iteration' \in 0 .. MaxIterations
    BY <1>2, <1>4, <1>6, MaxIterationsType DEF Continues
  <2>3. TypeOK'
    BY <1>1, <1>3, <1>5, <1>6, <2>1, <2>2
       DEF Accepted, Continues, Base, TypeOK
  <2>4. Shape'
    BY <1>2, <1>6 DEF Continues, Base, Shape, Working
  <2>5. LoopsWithinCaps'
    BY <1>4, <1>5, <1>6 DEF Continues, Base, LoopsWithinCaps
  <2> QED
    BY <2>3, <2>4, <2>5 DEF Base
<1>7. CASE Stops
  <2>1. TypeOK'
    BY <1>1, <1>3, <1>5, <1>7 DEF Accepted, Stops, Base, TypeOK, RunOutcomes
  <2>2. Shape'
    BY <1>7 DEF Stops, Shape, Working
  <2>3. \A c \in Counters : workItem'.consumed.loops[c] <= WorkItemLoopCap[c]
    BY <1>5, <1>7 DEF Stops, Base, LoopsWithinCaps, LoopCapsHold
  <2>4. LoopsWithinCaps'
    BY <1>4, <1>5, <1>7, <2>3 DEF Stops, Base, LoopsWithinCaps
  <2> QED
    BY <2>1, <2>2, <2>4 DEF Base
<1> QED
  BY <1>1, <1>6, <1>7 DEF Accepted

(* One step per action of Next.                                              *)
LEMMA BaseStep == Base /\ [Next]_vars => Base'
<1> SUFFICES ASSUME Base, [Next]_vars PROVE Base'
  OBVIOUS
<1> USE Writable
<1>1. ASSUME NEW w \in WorkItems, StartRun(w) PROVE Base'
  BY <1>1, BaseStart
<1>2. CASE PrologueBlocked
  BY <1>2, BaseEnd DEF PrologueBlocked
<1>3. CASE EntryBlocked
  BY <1>3, BaseEnd DEF EntryBlocked
<1>4. ASSUME NEW entry \in Stages, EnterGraph(entry) PROVE Base'
  BY <1>4, BaseEnter
<1>5. CASE EndTerminal
  BY <1>5, BaseEnd DEF EndTerminal
<1>6. CASE RouteBack
  <2>1. iteration' \in 0 .. MaxIterations
    BY <1>6, MaxIterationsType DEF RouteBack, AtTop, Base, TypeOK
  <2>2. TypeOK'
    BY <1>6, <2>1 DEF RouteBack, Base, TypeOK
  <2>3. Shape' /\ LoopsWithinCaps'
    BY <1>6 DEF RouteBack, AtTop, Base, Shape, Working, LoopsWithinCaps,
                LoopCapsHold
  <2> QED
    BY <2>2, <2>3 DEF Base
<1>7. CASE Complete
  <2> DEFINE record == [workItem EXCEPT !.consumed = budget.workItem]
  <2>1. /\ record \in WorkItemRecord
        /\ \A c \in Counters : record.consumed.loops[c] <= WorkItemLoopCap[c]
    <3>1. budget.workItem \in Budget
      BY DEF Base, TypeOK
    <3>2. record \in WorkItemRecord /\ record.consumed = budget.workItem
      BY <3>1 DEF WorkItemRecord
    <3> QED
      BY <3>2 DEF Base, LoopsWithinCaps, LoopCapsHold
  <2>2. logStage' \in Stages \cup Control \cup {NoStage}
    BY <1>7, RouteBackOwes DEF Complete
  <2>3. PICK life \in Lifecycles, result \in RunOutcomes : End(record, life, result)
    BY <1>7 DEF Complete
  <2> HIDE DEF record
  <2> QED
    BY <1>7, <2>1, <2>2, <2>3, BaseEnd DEF Complete
<1>8. CASE NoDescriptor
  BY <1>8, BaseEnd DEF NoDescriptor
<1>9. CASE BudgetExceeded
  BY <1>9, BaseEnd DEF BudgetExceeded
<1>10. CASE Dispatch
  <2>1. TypeOK'
    BY <1>10 DEF Dispatch, loopVars, Base, TypeOK
  <2>2. Shape' /\ LoopsWithinCaps'
    BY <1>10 DEF Dispatch, Dispatchable, AtTop, loopVars, Base, Shape, Working,
                 LoopsWithinCaps, LoopCapsHold
  <2> QED
    BY <2>1, <2>2 DEF Base
<1>11. CASE IterationsExhausted
  BY <1>11, BaseEnd DEF IterationsExhausted
<1>12. CASE DispatchFailed
  <2> DEFINE action == DecideAction(stage, FailedEnvelope, <<>>, attempt, escalated,
                                    budget.run.loops, budget.workItem.loops)
  <2>1. history' \in HistoryType
    <3>1. PICK usd \in Costs \cup {0} : history' = [history EXCEPT !.spent = @ + usd]
      BY <1>12 DEF DispatchFailed
    <3>2. usd \in Nat
      BY RunLoopAssumption
    <3> QED
      BY <3>1, <3>2 DEF HistoryType
  <2>2. CASE action.kind = "BLOCK" /\ End(workItem, "BLOCKED", "BLOCKED")
             /\ logStage' = "BLOCKED" /\ UNCHANGED <<escalated, iteration>>
    <3>1. UNCHANGED <<loopVars, stage, attempt, runs>>
      BY <1>12 DEF DispatchFailed
    <3> QED
      BY <2>1, <2>2, <3>1, BaseEnd
  <2>3. CASE /\ escalated' = (escalated \/ action.escalate)
             /\ iteration' = iteration + 1
             /\ phase' = "loop"
             /\ UNCHANGED <<disk, logStage, outcome>>
    <3>1. FailedEnvelope \in EnvelopeView /\ attempt \in Nat /\ escalated \in BOOLEAN
      BY DEF FailedEnvelope, EnvelopeView, EnvelopeStatuses, Base, TypeOK
    <3>2. action.escalate \in BOOLEAN
      BY <3>1, DecideActionLegal DEF Decisions
    <3> HIDE DEF action
    <3>3. escalated' \in BOOLEAN
      BY <2>3, <3>1, <3>2
    <3>4. iteration' \in 0 .. MaxIterations
      BY <1>12, <2>3, MaxIterationsType DEF DispatchFailed, Base, Shape, TypeOK
    <3>5. UNCHANGED <<loopVars, stage, attempt, runs>> /\ phase = "dispatched"
      BY <1>12 DEF DispatchFailed
    <3>6. TypeOK'
      BY <2>1, <2>3, <3>3, <3>4, <3>5 DEF loopVars, Base, TypeOK
    <3>7. Shape' /\ LoopsWithinCaps'
      BY <2>3, <3>5 DEF loopVars, Base, Shape, Working, LoopsWithinCaps,
                        LoopCapsHold
    <3> QED
      BY <3>6, <3>7 DEF Base
  <2> QED
    BY <1>12, <2>2, <2>3 DEF DispatchFailed
<1>13. CASE DispatchRefused
  <2>1. history' \in HistoryType
    <3>1. PICK usd \in Costs : history' = [history EXCEPT !.spent = @ + usd]
      BY <1>13 DEF DispatchRefused
    <3>2. usd \in Nat
      BY RunLoopAssumption
    <3> QED
      BY <3>1, <3>2 DEF HistoryType
  <2> QED
    BY <1>13, <2>1, BaseEnd DEF DispatchRefused
<1>14. CASE Accept
  BY <1>14, BaseAccept
<1>15. CASE ReadmissionRefused \/ Crash
  <2>1. TypeOK'
    BY <1>15 DEF ReadmissionRefused, Crash, loopVars, Base, TypeOK, RunOutcomes
  <2>2. Shape' /\ LoopsWithinCaps'
    BY <1>15 DEF ReadmissionRefused, Crash, loopVars, Base, Shape, Working,
                 LoopsWithinCaps, LoopCapsHold
  <2> QED
    BY <2>1, <2>2 DEF Base
<1>16. CASE UNCHANGED vars
  <2>1. TypeOK'
    BY <1>16 DEF vars, Base, TypeOK
  <2>2. Shape' /\ LoopsWithinCaps'
    BY <1>16 DEF vars, Base, Shape, Working, LoopsWithinCaps, LoopCapsHold
  <2> QED
    BY <2>1, <2>2 DEF Base
<1> QED
  BY <1>1, <1>2, <1>3, <1>4, <1>5, <1>6, <1>7, <1>8, <1>9, <1>10, <1>11, <1>12,
     <1>13, <1>14, <1>15, <1>16 DEF Next, Kernel

(* Types, the shape of the phases and the loop caps hold of every state of   *)
(* every run: the invariant all the others stand on (kernel.ts loop).        *)
THEOREM BaseHolds == Spec => []Base
  BY BaseInit, BaseStep, PTL DEF Spec

(* Every variable keeps its type through every run and crash.                *)
THEOREM RunLoopTyped == Spec => []TypeOK
<1>1. Base => TypeOK
  BY DEF Base
<1> QED
  BY <1>1, BaseHolds, PTL

(* No run takes a loop more often than its cap, and no work item does over   *)
(* all of its runs, crashes included (state-machine.ts loopExhausted).       *)
THEOREM LoopCapsAlwaysHold == Spec => []LoopCapsHold
<1>1. Base => LoopCapsHold
  BY DEF Base, LoopsWithinCaps
<1> QED
  BY <1>1, BaseHolds, PTL

-----------------------------------------------------------------------------
(* The steps of the loop by what they do to the run, for the proofs below.   *)

(* The run ends without an envelope.                                         *)
Ended ==
  /\ phase \in Working /\ phase' = "idle"
  /\ outcome' \in {"COMPLETE", "BLOCKED", "FAILED"}
  /\ UNCHANGED <<item, workItem, verdicts, budget, stage, iteration>>
  /\ history'.answered = history.answered
  /\ \/ disk'[item].consumed = workItem.consumed
     \/ phase = "loop" /\ disk'[item].consumed = budget.workItem
  /\ disk'[item].reresolutions = workItem.reresolutions
  /\ \A w \in WorkItems \ {item} : disk'[w] = disk[w]
  /\ outcome' # "COMPLETE" =>
       disk'[item].life \in {workItem.life, "BLOCKED", "UNDERSTOOD"}
  /\ outcome' = "COMPLETE" =>
       \/ stage \in {"COMPLETE", "CANCELLED"}
       \/ disk'[item].life = "ACHIEVED" /\ UnmetCritical(verdicts) = {}

(* The run goes on without an envelope.                                      *)
Moves ==
  /\ {phase, phase'} \subseteq {"loop", "dispatched"}
  /\ UNCHANGED <<disk, item, workItem, verdicts, budget, outcome>>
  /\ iteration < MaxIterations
  /\ iteration' \in {iteration, iteration + 1}
  /\ stage' \in Stages \cup {stage}
  /\ history'.answered = history.answered
  /\ phase' = "dispatched" => WithinBudget(budget.run, budget.workItem)

(* Nothing runs any more, and nothing was written.                           *)
Idles ==
  /\ phase # "idle" /\ phase' = "idle"
  /\ \/ outcome' = "none"
     \/ phase = "reresolving" /\ outcome' = "BLOCKED"
  /\ UNCHANGED <<disk, item, workItem, verdicts, budget, stage, iteration, history>>

(* However a run ends, it leaves the loop with one outcome.                  *)
LEMMA EndIsEnded ==
  ASSUME Base, phase \in Working, NEW record \in WorkItemRecord,
         NEW life \in {workItem.life, "BLOCKED", "UNDERSTOOD", "ACHIEVED"},
         NEW result \in {"COMPLETE", "BLOCKED", "FAILED"},
         End(record, life, result),
         \/ record = workItem
         \/ phase = "loop" /\ record = [workItem EXCEPT !.consumed = budget.workItem],
         result # "COMPLETE" => life \in {workItem.life, "BLOCKED", "UNDERSTOOD"},
         result = "COMPLETE" => \/ stage \in {"COMPLETE", "CANCELLED"}
                                \/ life = "ACHIEVED" /\ UnmetCritical(verdicts) = {},
         UNCHANGED <<item, workItem, verdicts, budget, stage, iteration>>,
         history'.answered = history.answered
  PROVE  Ended
<1>1. life \in Lifecycles /\ result \in RunOutcomes /\ workItem \in WorkItemRecord
  BY Writable DEF RunOutcomes
<1>2. /\ disk'[item].life = life
      /\ disk'[item].consumed = record.consumed
      /\ disk'[item].reresolutions = record.reresolutions
      /\ \A w \in WorkItems \ {item} : disk'[w] = disk[w]
      /\ outcome' = result
      /\ phase' = "idle"
  BY <1>1, EndEffects DEF Base
<1>3. /\ record.reresolutions = workItem.reresolutions
      /\ \/ record.consumed = workItem.consumed
         \/ phase = "loop" /\ record.consumed = budget.workItem
  BY <1>1 DEF WorkItemRecord
<1> QED
  BY <1>2, <1>3 DEF Ended

(* Every step of Next, by kind.                                              *)
LEMMA StepKinds ==
  ASSUME Base, [Next]_vars
  PROVE  \/ \E w \in WorkItems : StartRun(w)
         \/ \E entry \in Stages : EnterGraph(entry)
         \/ phase = "dispatched" /\ \E declared \in Costs : Accepted(declared)
         \/ Ended \/ Moves \/ Idles
         \/ UNCHANGED vars
<1> USE Writable
<1>1. CASE PrologueBlocked
  BY <1>1, EndIsEnded DEF PrologueBlocked, loopVars, Working
<1>2. CASE EntryBlocked
  BY <1>2, EndIsEnded DEF EntryBlocked, loopVars, Working
<1>3. CASE EndTerminal
  BY <1>3, EndIsEnded DEF EndTerminal, AtTop, loopVars, Working
<1>4. CASE RouteBack
  <2>1. stage' \in Stages
    BY <1>4 DEF RouteBack
  <2> QED
    BY <1>4, <2>1 DEF RouteBack, AtTop, Moves
<1>5. CASE Complete
  <2> DEFINE record == [workItem EXCEPT !.consumed = budget.workItem]
             done == CompletionVerdict(verdicts) \in {"COMPLETE", "COMPLETE_WITH_GAPS"}
  <2>1. record \in WorkItemRecord
    <3>1. budget.workItem \in Budget
      BY DEF Base, TypeOK
    <3> QED
      BY <3>1 DEF WorkItemRecord
  <2>2. CASE done
    <3>1. UnmetCritical(verdicts) = {}
      BY <2>2, DoneMeansNothingCritical
    <3>2. End(record, "ACHIEVED", "COMPLETE") /\ phase = "loop"
      BY <1>5, <2>2 DEF Complete, AtTop
    <3> HIDE DEF record
    <3>3. UNCHANGED <<item, workItem, verdicts, budget, stage, iteration, history>>
      BY <1>5 DEF Complete, loopVars
    <3> QED
      BY <2>1, <3>1, <3>2, <3>3, EndIsEnded DEF Working, record
  <2>3. CASE ~done
    <3>1. End(record, workItem.life, "BLOCKED") /\ phase = "loop"
      BY <1>5, <2>3 DEF Complete, AtTop
    <3> HIDE DEF record
    <3>2. UNCHANGED <<item, workItem, verdicts, budget, stage, iteration, history>>
      BY <1>5 DEF Complete, loopVars
    <3> QED
      BY <2>1, <3>1, <3>2, EndIsEnded DEF Working, record
  <2> QED
    BY <2>2, <2>3
<1>6. CASE NoDescriptor
  BY <1>6, EndIsEnded DEF NoDescriptor, AtTop, loopVars, Working
<1>7. CASE BudgetExceeded
  BY <1>7, EndIsEnded DEF BudgetExceeded, Dispatchable, AtTop, loopVars, Working
<1>8. CASE Dispatch
  BY <1>8 DEF Dispatch, Dispatchable, AtTop, loopVars, Moves
<1>9. CASE IterationsExhausted
  BY <1>9, EndIsEnded DEF IterationsExhausted, loopVars, Working
<1>10. CASE DispatchFailed
  <2>1. history'.answered = history.answered
    BY <1>10 DEF DispatchFailed, HistoryType
  <2>2. /\ UNCHANGED <<item, workItem, verdicts, budget, stage>>
        /\ phase = "dispatched" /\ iteration < MaxIterations
    BY <1>10 DEF DispatchFailed, loopVars, Base, Shape
  <2>3. CASE End(workItem, "BLOCKED", "BLOCKED") /\ UNCHANGED iteration
    BY <2>1, <2>2, <2>3, EndIsEnded DEF Working
  <2>4. CASE /\ iteration' = iteration + 1 /\ phase' = "loop"
             /\ UNCHANGED <<disk, outcome>>
    BY <2>1, <2>2, <2>4 DEF Moves
  <2> QED
    BY <1>10, <2>3, <2>4 DEF DispatchFailed
<1>11. CASE DispatchRefused
  <2>1. history'.answered = history.answered
    BY <1>11 DEF DispatchRefused, HistoryType
  <2> QED
    BY <1>11, <2>1, EndIsEnded DEF DispatchRefused, loopVars, Working
<1>12. CASE Accept
  BY <1>12, AcceptEffects DEF Accept
<1>13. CASE ReadmissionRefused
  BY <1>13 DEF ReadmissionRefused, loopVars, Idles
<1>14. CASE Crash
  BY <1>14 DEF Crash, loopVars, Idles
<1> QED
  BY <1>1, <1>2, <1>3, <1>4, <1>5, <1>6, <1>7, <1>8, <1>9, <1>10, <1>11, <1>12,
     <1>13, <1>14 DEF Next, Kernel

-----------------------------------------------------------------------------
(* Spending: what bounds a run bounds a work item's record too, with the     *)
(* slack of the dispatch the orchestrator's check does not see.              *)
WithinSlack(b) ==
  /\ b.dispatches <= DispatchesPerWorkItem + 1
  /\ b.usd > 0 => \E usd, more \in Costs : b.usd < WorkItemUsd + usd + more

SpendingInv ==
  /\ budget.run.dispatches <= DispatchesPerRun
  /\ budget.run.usd > 0 => \E usd \in Costs : budget.run.usd < RunUsd + usd
  /\ WithinSlack(budget.workItem)
  /\ WithinSlack(workItem.consumed)
  /\ \A w \in WorkItems : WithinSlack(disk[w].consumed)
  /\ phase = "dispatched" => WithinBudget(budget.run, budget.workItem)

(* Every step keeps the bounds on what was charged.                          *)
LEMMA SpendingStep ==
  ASSUME Base, SpendingInv, [Next]_vars
  PROVE  SpendingInv'
<1> USE RunLoopAssumption
<1>1. ASSUME NEW w \in WorkItems, StartRun(w) PROVE SpendingInv'
  <2>1. disk[w] \in WorkItemRecord /\ "RESOLVED" \in Lifecycles
        /\ disk \in [WorkItems -> WorkItemRecord]
    BY DEF Base, TypeOK, Lifecycles
  <2>2. workItem'.consumed = disk[w].consumed
    BY <1>1, <2>1, RelifedType DEF StartRun
  <2>3. /\ disk'[w].consumed = disk[w].consumed
        /\ \A v \in WorkItems \ {w} : disk'[v] = disk[v]
    BY <1>1, <2>1, <2>2 DEF StartRun
  <2>4. budget'.run = ZeroBudget /\ budget'.workItem = disk[w].consumed
    BY <1>1 DEF StartRun, BudgetAtStart
  <2>5. phase' = "prologue"
    BY <1>1 DEF StartRun
  <2>6. budget'.run.dispatches = 0 /\ budget'.run.usd = 0
    BY <2>4, ZeroBudgetType
  <2> QED
    BY <2>2, <2>3, <2>4, <2>5, <2>6 DEF SpendingInv, WithinSlack
<1>2. ASSUME NEW entry \in Stages, EnterGraph(entry) PROVE SpendingInv'
  <2>1. /\ WithinBudget(ZeroBudget, workItem.consumed)
        /\ phase' = "loop" /\ disk' = disk
    BY <1>2 DEF EnterGraph
  <2>2. workItem'.consumed = workItem.consumed
    BY <1>2 DEF EnterGraph, Base, TypeOK, WorkItemRecord
  <2>3. workItem.consumed.dispatches \in Nat /\ workItem.consumed.usd \in Nat
    BY DEF Base, TypeOK, WorkItemRecord, Budget
  <2>4. /\ workItem.consumed.dispatches + 1 <= DispatchesPerWorkItem
        /\ workItem.consumed.usd < WorkItemUsd
        /\ 0 < RunUsd /\ 1 <= DispatchesPerRun
    BY <2>1, ZeroBudgetType DEF WithinBudget
  <2>5. PICK usd \in Costs, more \in Costs :
          \/ /\ budget'.run.dispatches = 1
             /\ budget'.run.usd = usd
             /\ budget'.workItem.dispatches = workItem.consumed.dispatches + 1
             /\ budget'.workItem.usd = workItem.consumed.usd + usd
          \/ /\ budget'.run.dispatches = 2
             /\ budget'.run.usd = usd + more
             /\ budget'.workItem.dispatches = workItem.consumed.dispatches + 2
             /\ budget'.workItem.usd = workItem.consumed.usd + usd + more
             /\ 2 <= DispatchesPerRun
             /\ usd < RunUsd
    BY <1>2, EnterGraphCharges
  <2>6. usd \in Nat /\ more \in Nat
    OBVIOUS
  <2>7. /\ budget'.run.dispatches <= DispatchesPerRun
        /\ budget'.run.usd < RunUsd + usd \/ budget'.run.usd < RunUsd + more
        /\ budget'.workItem.dispatches <= DispatchesPerWorkItem + 1
        /\ budget'.workItem.usd < WorkItemUsd + usd + more
    BY <2>3, <2>4, <2>5, <2>6
  <2> QED
    BY <2>1, <2>2, <2>7 DEF SpendingInv, WithinSlack
<1>3. ASSUME phase = "dispatched", NEW declared \in Costs, Accepted(declared)
      PROVE  SpendingInv'
  <2>1. /\ budget'.run.dispatches = budget.run.dispatches + 1
        /\ budget'.workItem.dispatches = budget.workItem.dispatches + 1
        /\ budget'.run.usd = budget.run.usd + declared
        /\ budget'.workItem.usd = budget.workItem.usd + declared
    BY <1>3 DEF Accepted, Grown
  <2>2. /\ {budget.run.dispatches, budget.workItem.dispatches, budget.run.usd,
           budget.workItem.usd} \subseteq Nat
        /\ declared \in Nat
    BY DEF Base, TypeOK, Budget
  <2>3. WithinBudget(budget.run, budget.workItem)
    BY <1>3 DEF SpendingInv
  <2>4. /\ budget'.run.dispatches <= DispatchesPerRun
        /\ budget'.run.usd < RunUsd + declared
        /\ budget'.workItem.dispatches <= DispatchesPerWorkItem + 1
        /\ budget'.workItem.usd < WorkItemUsd + declared + declared
    BY <2>1, <2>2, <2>3 DEF WithinBudget
  <2>5. WithinSlack(budget'.workItem)
    BY <2>4 DEF WithinSlack
  <2>6. CASE Continues
    <3>1. /\ workItem' = workItem /\ phase' = "loop"
          /\ disk' \in {disk, [disk EXCEPT ![item] = workItem]}
      BY <2>6 DEF Continues
    <3>2. \A w \in WorkItems : disk'[w] \in {disk[w], workItem}
      BY <3>1 DEF Base, TypeOK
    <3> QED
      BY <2>4, <2>5, <3>1, <3>2 DEF SpendingInv
  <2>7. CASE Stops
    <3>1. /\ workItem'.consumed \in {workItem.consumed, budget'.workItem}
          /\ disk'[item].consumed = workItem'.consumed
          /\ \A w \in WorkItems \ {item} : disk'[w] = disk[w]
          /\ phase' # "dispatched"
      BY <2>7 DEF Stops
    <3> QED
      BY <2>4, <2>5, <3>1 DEF SpendingInv
  <2> QED
    BY <1>3, <2>6, <2>7 DEF Accepted
<1>4. CASE Ended
  BY <1>4 DEF Ended, SpendingInv
<1>5. CASE Moves
  BY <1>5 DEF Moves, SpendingInv
<1>6. CASE Idles
  BY <1>6 DEF Idles, SpendingInv
<1>7. CASE UNCHANGED vars
  BY <1>7 DEF vars, SpendingInv
<1> QED
  BY <1>1, <1>2, <1>3, <1>4, <1>5, <1>6, <1>7, StepKinds

(* What a run and its work item were charged stays within one dispatch,      *)
(* respectively two, of the limit checked before it (budgets.ts).            *)
LEMMA SpendingHolds == Spec => []SpendingInv
<1>1. Init => SpendingInv
  <2> SUFFICES ASSUME Init PROVE SpendingInv
    OBVIOUS
  <2>1. /\ budget.run = ZeroBudget /\ budget.workItem = ZeroBudget
        /\ workItem = AbsentWorkItem /\ phase = "idle"
        /\ \A w \in WorkItems : disk[w] = AbsentWorkItem
    BY DEF Init
  <2>2. AbsentWorkItem.consumed = ZeroBudget
    BY DEF AbsentWorkItem
  <2> QED
    BY <2>1, <2>2, ZeroBudgetType, RunLoopAssumption DEF SpendingInv, WithinSlack
<1> QED
  BY <1>1, SpendingStep, BaseHolds, PTL DEF Spec

(* Charged dispatches stay within the run's cap, and within one of the work  *)
(* item's (budgets.ts checkDispatchBudget, kernel.ts dispatchOrchestrator).  *)
THEOREM DispatchCapsAlwaysHold == Spec => []DispatchCapsHold
<1>1. SpendingInv => DispatchCapsHold
  BY DEF SpendingInv, WithinSlack, DispatchCapsHold
<1> QED
  BY <1>1, SpendingHolds, PTL

(* No run is charged past its cost ceiling by more than one dispatch, no     *)
(* work item by more than two (budgets.ts checkDispatchBudget).              *)
THEOREM CostOvershootBounded == Spec => []CostOvershootIsOneDispatch
<1>1. SpendingInv => CostOvershootIsOneDispatch
  BY DEF SpendingInv, WithinSlack, CostOvershootIsOneDispatch
<1> QED
  BY <1>1, SpendingHolds, PTL

-----------------------------------------------------------------------------
(* Re-resolutions: the count a run holds is capped as the one on disk is.    *)
ReresolutionInv ==
  /\ ReresolutionCapHolds
  /\ workItem.reresolutions <= ReresolutionCap

(* Every step keeps the count of re-resolutions within its cap.              *)
LEMMA ReresolutionStep ==
  ASSUME Base, ReresolutionInv, [Next]_vars
  PROVE  ReresolutionInv'
<1> USE DEF ReresolutionInv, ReresolutionCapHolds
<1>1. ASSUME NEW w \in WorkItems, StartRun(w) PROVE ReresolutionInv'
  <2>1. disk[w] \in WorkItemRecord /\ "RESOLVED" \in Lifecycles
        /\ disk \in [WorkItems -> WorkItemRecord]
    BY DEF Base, TypeOK, Lifecycles
  <2>2. workItem'.reresolutions = disk[w].reresolutions
    BY <1>1, <2>1, RelifedType DEF StartRun
  <2>3. /\ disk'[w].reresolutions = disk[w].reresolutions
        /\ \A v \in WorkItems \ {w} : disk'[v] = disk[v]
    BY <1>1, <2>1, <2>2 DEF StartRun
  <2> QED
    BY <2>2, <2>3
<1>2. ASSUME NEW entry \in Stages, EnterGraph(entry) PROVE ReresolutionInv'
  BY <1>2 DEF EnterGraph, Base, TypeOK, WorkItemRecord
<1>3. ASSUME phase = "dispatched", NEW declared \in Costs, Accepted(declared)
      PROVE  ReresolutionInv'
  <2>1. workItem.reresolutions \in Nat /\ ReresolutionCap \in Nat
    BY RunLoopAssumption DEF Base, TypeOK, WorkItemRecord
  <2>2. CASE Continues
    <3>1. \A w \in WorkItems : disk'[w] \in {disk[w], workItem}
      BY <2>2 DEF Continues, Base, TypeOK
    <3> QED
      BY <2>2, <3>1 DEF Continues
  <2>3. CASE Stops
    <3>1. workItem'.reresolutions <= ReresolutionCap
      BY <2>1, <2>3 DEF Stops
    <3> QED
      BY <2>3, <3>1 DEF Stops
  <2> QED
    BY <1>3, <2>2, <2>3 DEF Accepted
<1>4. CASE Ended
  BY <1>4 DEF Ended
<1>5. CASE Moves
  BY <1>5 DEF Moves
<1>6. CASE Idles
  BY <1>6 DEF Idles
<1>7. CASE UNCHANGED vars
  BY <1>7 DEF vars
<1> QED
  BY <1>1, <1>2, <1>3, <1>4, <1>5, <1>6, <1>7, StepKinds

(* No work item is re-resolved past the cap (budgets.ts reresolutionAllowed, *)
(* kernel.ts reresolve).                                                     *)
THEOREM ReresolutionCapAlwaysHolds == Spec => []ReresolutionCapHolds
<1>1. Init => ReresolutionInv
  BY RunLoopAssumption
     DEF Init, ReresolutionInv, ReresolutionCapHolds, AbsentWorkItem
<1>2. ReresolutionInv => ReresolutionCapHolds
  BY DEF ReresolutionInv
<1> QED
  BY <1>1, <1>2, ReresolutionStep, BaseHolds, PTL DEF Spec

-----------------------------------------------------------------------------
(* Consumption: a run holds what its work item's record says, and has spent  *)
(* at least that.                                                            *)
ConsumptionInv ==
  /\ phase \in Working => disk[item].consumed = workItem.consumed
  /\ phase \in {"loop", "dispatched"} =>
       AtMost(workItem.consumed, budget.workItem)

(* Having consumed at most as much is reflexive and transitive.              *)
LEMMA AtMostOrder ==
  ASSUME NEW a \in Budget
  PROVE  /\ AtMost(a, a)
         /\ \A b, c \in Budget : AtMost(a, b) /\ AtMost(b, c) => AtMost(a, c)
  BY DEF AtMost, Budget

(* No step lowers what the disk says a work item consumed, nor lets a run    *)
(* hold less than the disk.                                                  *)
LEMMA ConsumptionStep ==
  ASSUME Base, ConsumptionInv, [Next]_vars
  PROVE  /\ ConsumptionInv'
         /\ \A w \in WorkItems : AtMost(disk[w].consumed, disk'[w].consumed)
<1> DEFINE Kept == \A w \in WorkItems : AtMost(disk[w].consumed, disk'[w].consumed)
<1>1. /\ disk \in [WorkItems -> WorkItemRecord]
      /\ item \in WorkItems
      /\ workItem \in WorkItemRecord
      /\ workItem.consumed \in Budget /\ budget.workItem \in Budget
      /\ \A w \in WorkItems : disk[w].consumed \in Budget
      /\ \A w \in WorkItems : AtMost(disk[w].consumed, disk[w].consumed)
      /\ AtMost(workItem.consumed, workItem.consumed)
  BY AtMostOrder DEF Base, TypeOK, WorkItemRecord
<1>2. ASSUME NEW w \in WorkItems, StartRun(w) PROVE ConsumptionInv' /\ Kept
  <2>1. disk[w] \in WorkItemRecord /\ "RESOLVED" \in Lifecycles
    BY <1>1 DEF Lifecycles
  <2>2. workItem'.consumed = disk[w].consumed
    BY <1>2, <2>1, RelifedType DEF StartRun
  <2>3. /\ disk'[w].consumed = disk[w].consumed
        /\ disk'[w] = workItem'
        /\ \A v \in WorkItems \ {w} : disk'[v] = disk[v]
        /\ phase' = "prologue" /\ item' = w
    BY <1>1, <1>2, <2>2 DEF StartRun
  <2>4. ConsumptionInv'
    BY <2>3 DEF ConsumptionInv
  <2>5. Kept
    BY <1>1, <2>3
  <2> QED
    BY <2>4, <2>5
<1>3. ASSUME NEW entry \in Stages, EnterGraph(entry) PROVE ConsumptionInv' /\ Kept
  <2>1. /\ phase = "prologue" /\ phase' = "loop"
        /\ UNCHANGED <<disk, item>>
        /\ workItem'.consumed = workItem.consumed
    BY <1>1, <1>3 DEF EnterGraph, WorkItemRecord
  <2>2. PICK usd \in Costs, more \in Costs :
          /\ budget' \in [run : Budget, workItem : Budget]
          /\ \A c \in Counters :
               budget'.workItem.loops[c] = workItem.consumed.loops[c]
          /\ \/ /\ budget'.workItem.dispatches = workItem.consumed.dispatches + 1
                /\ budget'.workItem.usd = workItem.consumed.usd + usd
             \/ /\ budget'.workItem.dispatches = workItem.consumed.dispatches + 2
                /\ budget'.workItem.usd = workItem.consumed.usd + usd + more
    BY <1>3, EnterGraphCharges
  <2>3. usd \in Nat /\ more \in Nat
    BY RunLoopAssumption
  <2>4. AtMost(workItem.consumed, budget'.workItem)
    BY <1>1, <2>2, <2>3 DEF AtMost, Budget
  <2>5. ConsumptionInv'
    BY <2>1, <2>4 DEF ConsumptionInv, Working
  <2> QED
    BY <1>1, <2>1, <2>5
<1>4. ASSUME phase = "dispatched", NEW declared \in Costs, Accepted(declared)
      PROVE  ConsumptionInv' /\ Kept
  <2>1. /\ disk[item].consumed = workItem.consumed
        /\ AtMost(workItem.consumed, budget.workItem)
    BY <1>4 DEF ConsumptionInv, Working
  <2>2. /\ item' = item /\ budget'.workItem \in Budget
        /\ AtMost(budget.workItem, budget'.workItem)
    <3>1. declared \in Nat
      BY RunLoopAssumption
    <3> QED
      BY <1>1, <1>4, <3>1 DEF Accepted, Grown, AtMost, Budget
  <2>3. AtMost(workItem.consumed, budget'.workItem)
    BY <1>1, <2>1, <2>2, AtMostOrder
  <2>4. CASE Continues
    <3>1. \A w \in WorkItems : disk'[w].consumed = disk[w].consumed
      BY <1>1, <2>1, <2>4 DEF Continues
    <3> QED
      BY <1>1, <2>1, <2>2, <2>3, <2>4, <3>1 DEF Continues, ConsumptionInv
  <2>5. CASE Stops
    <3>1. phase' \notin Working
      BY <2>5 DEF Stops, Working
    <3>2. /\ disk'[item].consumed \in {workItem.consumed, budget'.workItem}
          /\ \A w \in WorkItems \ {item} : disk'[w] = disk[w]
      BY <2>5 DEF Stops
    <3>3. AtMost(disk[item].consumed, disk'[item].consumed)
      BY <1>1, <2>1, <2>3, <3>2
    <3> QED
      BY <1>1, <3>1, <3>2, <3>3 DEF ConsumptionInv, Working
  <2> QED
    BY <1>4, <2>4, <2>5 DEF Accepted
<1>5. CASE Ended
  <2>1. AtMost(disk[item].consumed, disk'[item].consumed)
    BY <1>1, <1>5 DEF Ended, ConsumptionInv
  <2> QED
    BY <1>1, <1>5, <2>1 DEF Ended, ConsumptionInv, Working
<1>6. CASE Moves
  BY <1>1, <1>6 DEF Moves, ConsumptionInv, Working
<1>7. CASE Idles
  BY <1>1, <1>7 DEF Idles, ConsumptionInv, Working
<1>8. CASE UNCHANGED vars
  BY <1>1, <1>8 DEF vars, ConsumptionInv
<1> QED
  BY <1>2, <1>3, <1>4, <1>5, <1>6, <1>7, <1>8, StepKinds

(* No end, crash or restart lowers what the disk says a work item consumed   *)
(* (kernel.ts end, complete, reresolve).                                     *)
THEOREM ConsumptionIsKept == Spec => ConsumptionNeverRefunded
<1>1. Init => ConsumptionInv
  BY DEF Init, ConsumptionInv, Working
<1>2. Base /\ ConsumptionInv /\ [Next]_vars => ConsumptionInv'
  BY ConsumptionStep
<1>3. Base /\ ConsumptionInv /\ [Next]_vars
        => [\A w \in WorkItems : AtMost(disk[w].consumed, disk[w].consumed')]_vars
  BY ConsumptionStep
<1> QED
  BY <1>1, <1>2, <1>3, BaseHolds, PTL DEF Spec, ConsumptionNeverRefunded

-----------------------------------------------------------------------------
(* Completion, in a graph that is left through COMPLETION alone.  Who        *)
(* answered for a criterion is remembered as long as the answer is.          *)
EarnedInv ==
  /\ stage \notin {"COMPLETE", "CANCELLED"}
  /\ \A c \in Criteria \ PrologueCriteria :
       verdicts[c] # NoVerdict => \E s \in history.answered : c \in OwedBy[s]
  /\ CompleteIsEarned

(* A critical criterion that is not unmet, and that the profile does not     *)
(* set aside, was answered by an envelope.                                   *)
LEMMA VerdictIsCollected ==
  ASSUME NEW c \in Critical \ NotApplicableDefault,
         UnmetCritical(verdicts) = {}
  PROVE  c \in Criteria /\ verdicts[c] # NoVerdict
<1>1. c \in Criteria
  BY DodAssumption
<1>2. ASSUME verdicts[c] = NoVerdict PROVE FALSE
  <2>1. VerdictOf(verdicts, c) = "NOT_VALIDATED"
    BY <1>2 DEF VerdictOf
  <2> QED
    BY <1>1, <2>1 DEF UnmetCritical, NotValidated
<1> QED
  BY <1>1, <1>2

(* Every step keeps a collected verdict attributable to a stage that         *)
(* answered in this run, and COMPLETE to such verdicts.                      *)
LEMMA EarnedStep ==
  ASSUME CompletionIsTheOnlyWayOut, Base, Base', EarnedInv, [Next]_vars
  PROVE  EarnedInv'
<1> USE DEF CompleteIsEarned
<1>1. ASSUME NEW w \in WorkItems, StartRun(w) PROVE EarnedInv'
  <2>1. /\ stage' = NoStage /\ outcome' = "none"
        /\ verdicts' = [c \in Criteria |-> NoVerdict]
    BY <1>1 DEF StartRun
  <2>2. NoStage \notin {"COMPLETE", "CANCELLED"}
    BY FrozenGraphAssumption DEF Control
  <2> QED
    BY <2>1, <2>2 DEF EarnedInv
<1>2. ASSUME NEW entry \in Stages, EnterGraph(entry) PROVE EarnedInv'
  <2>1. /\ stage' \in Stages /\ outcome' = outcome /\ phase = "prologue"
    BY <1>2 DEF EnterGraph
  <2>2. outcome' = "none" /\ stage' \notin {"COMPLETE", "CANCELLED"}
    BY <2>1, FrozenGraphAssumption DEF Base, Shape, Working, Control
  <2>3. history'.answered = history.answered
    BY <1>2, EnterGraphCharges
  <2>4. PICK supplied \in SuppliedOn(PrologueCriteria) :
          verdicts' = Supersede(verdicts, supplied)
    BY <1>2 DEF EnterGraph
  <2>5. DOMAIN supplied \subseteq PrologueCriteria
    BY DEF SuppliedOn
  <2>6. \A c \in Criteria \ PrologueCriteria : verdicts'[c] = verdicts[c]
    BY <2>4, <2>5 DEF Supersede
  <2> QED
    BY <2>2, <2>3, <2>6 DEF EarnedInv
<1>3. ASSUME phase = "dispatched", NEW declared \in Costs, Accepted(declared)
      PROVE  EarnedInv'
  <2>1. stage' \notin {"COMPLETE", "CANCELLED"} /\ Receive(declared)
    BY <1>3 DEF Accepted
  <2>2. outcome' # "COMPLETE"
    BY <1>3 DEF Accepted, Continues, Stops, Base, Shape, Working
  <2>3. PICK supplied \in SuppliedOn(OwedBy[stage]) :
          verdicts' = Supersede(verdicts, supplied)
    BY <2>1 DEF Receive
  <2>4. history'.answered = history.answered \cup {stage}
    BY <2>1 DEF Receive
  <2>5. DOMAIN supplied \subseteq OwedBy[stage]
    BY DEF SuppliedOn
  <2>6. \A c \in Criteria : c \in OwedBy[stage] \/ verdicts'[c] = verdicts[c]
    BY <2>3, <2>5 DEF Supersede
  <2> QED
    BY <2>1, <2>2, <2>4, <2>6 DEF EarnedInv
<1>4. CASE Ended
  <2>1. /\ UNCHANGED <<item, verdicts, stage>>
        /\ history'.answered = history.answered
    BY <1>4 DEF Ended
  <2>2. ASSUME outcome' = "COMPLETE"
        PROVE  /\ UnmetCritical(verdicts) = {}
               /\ disk'[item].life = "ACHIEVED"
    BY <1>4, <2>2 DEF Ended, EarnedInv
  <2>3. ASSUME outcome' = "COMPLETE",
               NEW c \in Critical \ (NotApplicableDefault \cup PrologueCriteria)
        PROVE  \E s \in history.answered : c \in OwedBy[s]
    BY <2>2, <2>3, VerdictIsCollected DEF EarnedInv
  <2> QED
    BY <2>1, <2>2, <2>3 DEF EarnedInv
<1>5. CASE Moves
  <2>1. /\ UNCHANGED <<disk, item, verdicts, outcome>>
        /\ stage' \in Stages \cup {stage}
        /\ history'.answered = history.answered
    BY <1>5 DEF Moves
  <2> QED
    BY <2>1, FrozenGraphAssumption DEF EarnedInv, Control
<1>6. CASE Idles
  BY <1>6 DEF Idles, EarnedInv
<1>7. CASE UNCHANGED vars
  BY <1>7 DEF vars, EarnedInv
<1> QED
  BY <1>1, <1>2, <1>3, <1>4, <1>5, <1>6, <1>7, StepKinds

(* COMPLETE is only ever said of work shown to be done, whatever the graph,  *)
(* the profile, the laps and the crashes: every critical criterion that is   *)
(* not set aside was answered for by a stage of the very run that says so    *)
(* (kernel.ts complete, dod.ts computeDod).                                  *)
THEOREM CompletionEarned ==
  ASSUME CompletionIsTheOnlyWayOut
  PROVE  Spec => []CompleteIsEarned
<1>1. Init => EarnedInv
  BY FrozenGraphAssumption DEF Init, EarnedInv, CompleteIsEarned, Control
<1>2. EarnedInv => CompleteIsEarned
  BY DEF EarnedInv
<1> QED
  BY <1>1, <1>2, EarnedStep, BaseHolds, PTL DEF Spec

-----------------------------------------------------------------------------
(* Validation since the last change, in a graph where VALIDATION             *)
(* post-dominates IMPLEMENTATION.  A run with a change no VALIDATION has     *)
(* seen is in the part of the graph IMPLEMENTATION reaches without one.      *)
Unvalidated ==
  "IMPLEMENTATION" \in history.since /\ "VALIDATION" \notin history.since

Region(region) ==
  /\ "IMPLEMENTATION" \in region
  /\ region \cap {"COMPLETION", "COMPLETE", "CANCELLED"} = {}
  /\ \A i \in DOMAIN Edges :
       Edges[i].from \in region \ {"VALIDATION"} => Edges[i].to \in region

ValidInv(region) ==
  /\ phase = "prologue" => history.since = {}
  /\ phase \in {"loop", "dispatched"} /\ Unvalidated => stage \in region
  /\ outcome = "COMPLETE" => ~Unvalidated

(* Accepting an envelope leaves the run at its stage, or moves it along an   *)
(* edge out of that stage or out of IMPLEMENTATION (decideAction).           *)
LEMMA AcceptMoves ==
  ASSUME Base, Accept
  PROVE  \/ stage' = stage
         \/ \E i \in DOMAIN Edges :
              Edges[i].to = stage' /\ Edges[i].from \in {stage, "IMPLEMENTATION"}
<1>1. PICK declared \in Costs :
        \/ StructurallyBlocked(declared)
        \/ \E env \in LegalEnvelopes(stage), val \in Valuations(stage),
              linked \in {b \in BOOLEAN : b => stage \in LinkingStages} :
             EnvelopeAccepted(env, val, declared, linked)
  BY DEF Accept
<1>2. CASE StructurallyBlocked(declared)
  BY <1>2 DEF StructurallyBlocked, BlockRun
<1>3. ASSUME NEW env \in LegalEnvelopes(stage), NEW val \in Valuations(stage),
             NEW linked \in {b \in BOOLEAN : b => stage \in LinkingStages},
             EnvelopeAccepted(env, val, declared, linked)
      PROVE  \/ stage' = stage
             \/ \E i \in DOMAIN Edges :
                  Edges[i].to = stage' /\ Edges[i].from \in {stage, "IMPLEMENTATION"}
  <2> DEFINE action == DecideAction(stage, env, val, attempt, escalated,
                                    budget.run.loops, budget.workItem.loops)
  <2>1. env \in EnvelopeView /\ attempt \in Nat /\ escalated \in BOOLEAN
    BY DEF LegalEnvelopes, Base, TypeOK
  <2>2. action.kind = "TRANSITION" =>
          /\ action.edge \in DOMAIN Edges
          /\ Edges[action.edge].from \in {stage, "IMPLEMENTATION"}
    BY <2>1, DecideActionLegal
  <2>3. \/ /\ action.kind = "TRANSITION"
           /\ TakeEdge(Edges[action.edge], declared, linked)
        \/ stage' = stage
    BY <1>3 DEF EnvelopeAccepted, Again, BlockRun
  <2> HIDE DEF action
  <2> QED
    BY <2>2, <2>3 DEF TakeEdge, Target
<1> QED
  BY <1>1, <1>2, <1>3

(* What an accepted envelope leaves unvalidated is where it was, or what     *)
(* IMPLEMENTATION has just returned.                                         *)
LEMMA ReceiveSince ==
  ASSUME Base, NEW declared, Receive(declared), Unvalidated'
  PROVE  stage # "VALIDATION" /\ (stage = "IMPLEMENTATION" \/ Unvalidated)
<1>1. history'.since = IF stage = "IMPLEMENTATION" THEN {stage} ELSE history.since \cup {stage}
  BY DEF Receive
<1> QED
  BY <1>1 DEF Unvalidated

LEMMA ValidatedStep ==
  ASSUME NEW region, Region(region), Base, Base', ValidInv(region), [Next]_vars
  PROVE  ValidInv(region)'
<1> USE DEF ValidInv
<1>1. ASSUME NEW w \in WorkItems, StartRun(w) PROVE ValidInv(region)'
  BY <1>1 DEF StartRun
<1>2. ASSUME NEW entry \in Stages, EnterGraph(entry) PROVE ValidInv(region)'
  <2>1. /\ phase = "prologue" /\ phase' = "loop" /\ outcome' = outcome
        /\ history'.since = history.since
    BY <1>2 DEF EnterGraph, Base, TypeOK, HistoryType
  <2> QED
    BY <2>1 DEF Base, Shape, Working, Unvalidated
<1>3. ASSUME \E record, life, result : /\ End(record, life, result)
                                       /\ result \in {"BLOCKED", "FAILED"}
      PROVE  ValidInv(region)'
  BY <1>3 DEF End
<1>4. CASE PrologueBlocked \/ EntryBlocked \/ NoDescriptor \/ BudgetExceeded
             \/ IterationsExhausted \/ DispatchRefused
  BY <1>3, <1>4 DEF PrologueBlocked, EntryBlocked, NoDescriptor, BudgetExceeded,
        IterationsExhausted, DispatchRefused
<1>5. ASSUME phase = "loop", UNCHANGED history, phase' \in {"loop", "idle"},
             stage \in {"COMPLETION", "COMPLETE", "CANCELLED"}
      PROVE  ValidInv(region)'
  <2>1. ~Unvalidated /\ ~Unvalidated'
    BY <1>5 DEF Region, Unvalidated
  <2> QED
    BY <1>5, <2>1
<1>6. CASE EndTerminal
  <2>1. CASE stage \in {"COMPLETE", "CANCELLED"} /\ End(workItem, workItem.life, "COMPLETE")
    BY <1>5, <1>6, <2>1 DEF EndTerminal, AtTop, End
  <2>2. CASE stage = "BLOCKED" /\ End(workItem, workItem.life, "BLOCKED")
    BY <1>3, <2>2
  <2> QED
    BY <1>6, <2>1, <2>2 DEF EndTerminal
<1>7. CASE RouteBack
  BY <1>5, <1>7 DEF RouteBack, AtTop
<1>8. CASE Complete
  <2>1. /\ phase = "loop" /\ stage = "COMPLETION" /\ UNCHANGED history
        /\ phase' \in {"loop", "idle"}
    BY <1>8 DEF Complete, AtTop, End
  <2> QED
    BY <1>5, <2>1
<1>9. CASE Dispatch
  BY <1>9 DEF Dispatch, Dispatchable, AtTop, loopVars, Unvalidated, Base, Shape, Working
<1>10. CASE DispatchFailed
  <2>1. /\ phase = "dispatched" /\ UNCHANGED stage
        /\ history'.since = history.since
        /\ \/ phase' = "loop" /\ UNCHANGED outcome
           \/ End(workItem, "BLOCKED", "BLOCKED")
    BY <1>10 DEF DispatchFailed, Base, TypeOK, HistoryType
  <2>2. CASE phase' = "loop" /\ UNCHANGED outcome
    BY <2>1, <2>2 DEF Unvalidated
  <2>3. CASE End(workItem, "BLOCKED", "BLOCKED")
    BY <1>3, <2>3
  <2> QED
    BY <2>1, <2>2, <2>3
<1>11. CASE Accept
  <2>1. PICK declared \in Costs : Accepted(declared)
    BY <1>11, AcceptEffects
  <2>2. phase = "dispatched" /\ phase' # "prologue" /\ outcome' # "COMPLETE"
    BY <1>11, <2>1 DEF Accept, Accepted, Continues, Stops, Base, Shape, Working
  <2>3. Unvalidated' => stage \in region \ {"VALIDATION"}
    BY <2>1, <2>2, ReceiveSince DEF Accepted, Region
  <2>4. Unvalidated' => stage' \in region
    BY <1>11, <2>3, AcceptMoves DEF Region
  <2> QED
    BY <2>2, <2>4
<1>12. CASE ReadmissionRefused \/ Crash
  BY <1>12 DEF ReadmissionRefused, Crash
<1>13. CASE UNCHANGED vars
  BY <1>13 DEF vars, Unvalidated
<1> QED
  BY <1>1, <1>2, <1>4, <1>6, <1>7, <1>8, <1>9, <1>10, <1>11, <1>12, <1>13 DEF Next, Kernel

(* A run that completes after an accepted IMPLEMENTATION had VALIDATION      *)
(* answer since, whatever laps, route-backs, retries and caps: post-         *)
(* dominance in the graph is enough, no bookkeeping of the loop undoes it    *)
(* (kernel.ts loop, complete; policies/src/graph.ts).                        *)
THEOREM AlwaysValidatedSinceLastChange ==
  ASSUME ValidationPostDominates
  PROVE  Spec => []ValidatedSinceLastChange
<1>1. PICK region \in SUBSET (Stages \cup Control) : Region(region)
  BY DEF ValidationPostDominates, Region
<1>2. Init => ValidInv(region)
  BY DEF Init, ValidInv
<1>3. ValidInv(region) => ValidatedSinceLastChange
  BY DEF ValidInv, ValidatedSinceLastChange, Unvalidated
<1>4. Base /\ Base' /\ ValidInv(region) /\ [Next]_vars => ValidInv(region)'
  BY <1>1, ValidatedStep
<1> QED
  BY <1>2, <1>3, <1>4, BaseHolds, PTL DEF Spec

-----------------------------------------------------------------------------
(* Refinement: a work item being worked on is not ACHIEVED, so a run that    *)
(* ends without completing changes nothing of what was achieved.             *)
LifeInv ==
  phase \in Working => disk[item].life # "ACHIEVED" /\ workItem.life # "ACHIEVED"

AchievedItems == {w \in WorkItems : disk[w].life = "ACHIEVED"}

(* Every step keeps the lifecycle a run holds short of ACHIEVED.             *)
LEMMA LifeStep ==
  ASSUME Base, LifeInv, [Next]_vars
  PROVE  LifeInv'
<1>1. /\ disk \in [WorkItems -> WorkItemRecord]
      /\ item \in WorkItems /\ workItem \in WorkItemRecord
  BY DEF Base, TypeOK
<1>2. ASSUME NEW w \in WorkItems, StartRun(w) PROVE LifeInv'
  <2>1. disk[w] \in WorkItemRecord /\ "RESOLVED" \in Lifecycles
    BY <1>1 DEF Lifecycles
  <2>2. workItem'.life = "RESOLVED" /\ disk'[w] = workItem' /\ item' = w
    BY <1>1, <1>2, <2>1, RelifedType DEF StartRun
  <2> QED
    BY <2>2 DEF LifeInv
<1>3. ASSUME NEW entry \in Stages, EnterGraph(entry) PROVE LifeInv'
  <2>1. workItem'.life = "UNDERSTOOD" /\ phase = "prologue"
        /\ UNCHANGED <<disk, item>>
    BY <1>1, <1>3 DEF EnterGraph, WorkItemRecord
  <2> QED
    BY <2>1 DEF LifeInv, Working
<1>4. ASSUME phase = "dispatched", NEW declared \in Costs, Accepted(declared)
      PROVE  LifeInv'
  <2>1. item' = item
    BY <1>4 DEF Accepted
  <2>2. CASE Continues
    BY <1>1, <1>4, <2>1, <2>2 DEF Continues, LifeInv, Working
  <2>3. CASE Stops
    BY <2>3 DEF Stops, LifeInv, Working
  <2> QED
    BY <1>4, <2>2, <2>3 DEF Accepted
<1>5. CASE Ended
  BY <1>5 DEF Ended, LifeInv, Working
<1>6. CASE Moves
  BY <1>6 DEF Moves, LifeInv, Working
<1>7. CASE Idles
  BY <1>7 DEF Idles, LifeInv, Working
<1>8. CASE UNCHANGED vars
  BY <1>8 DEF vars, LifeInv
<1> QED
  BY <1>2, <1>3, <1>4, <1>5, <1>6, <1>7, <1>8, StepKinds

(* Before anything runs, no work item is achieved.                           *)
LEMMA NothingAchieved ==
  ASSUME item \in WorkItems,
         disk[item].life # "ACHIEVED", disk'[item].life # "ACHIEVED",
         \A w \in WorkItems \ {item} : disk'[w].life = disk[w].life
  PROVE  AchievedItems' = AchievedItems
  BY DEF AchievedItems

(* The outcomes of the abstract run are those of the loop.                   *)
LEMMA FinishStep ==
  ASSUME Base, phase \in Working, phase' \notin Working,
         phase' \in {"idle", "reresolving"}, UNCHANGED iteration,
         NEW result \in {"COMPLETE", "BLOCKED", "FAILED", "RERESOLVED"},
         outcome' = result,
         AchievedItems' = IF result = "COMPLETE" THEN AchievedItems \cup {item}
                                                 ELSE AchievedItems
  PROVE  Abstract!LifecycleNext
<1>1. item \in WorkItems /\ item # Nobody /\ phase \notin {"idle", "reresolving"}
  BY RunLoopAssumption DEF Base, TypeOK, Working
<1>2. Abstract!Finish(result)
  BY <1>1 DEF Abstract!Finish, AchievedItems
<1> QED
  BY <1>2 DEF Abstract!LifecycleNext

(* Every step of the run loop is a step of RunLifecycle or a stutter.        *)
LEMMA RefinementStep ==
  ASSUME Base, Base', LifeInv, [Next]_vars,
         stage \notin {"COMPLETE", "CANCELLED"}
  PROVE  [Abstract!LifecycleNext]_Abstract!lifecycleVars
<1>1. /\ disk \in [WorkItems -> WorkItemRecord]
      /\ item \in WorkItems /\ item # Nobody /\ workItem \in WorkItemRecord
      /\ iteration \in Nat /\ MaxIterations \in Nat
  BY RunLoopAssumption, MaxIterationsType DEF Base, TypeOK
<1>2. ASSUME NEW w \in WorkItems, StartRun(w) PROVE Abstract!Begin(w)
  <2>1. disk[w] \in WorkItemRecord /\ "RESOLVED" \in Lifecycles
    BY <1>1 DEF Lifecycles
  <2>2. /\ disk'[w].life = "RESOLVED"
        /\ \A v \in WorkItems \ {w} : disk'[v] = disk[v]
    BY <1>1, <1>2, <2>1, RelifedType DEF StartRun
  <2>3. AchievedItems' = AchievedItems \ {w}
    BY <2>2 DEF AchievedItems
  <2>4. /\ phase \in {"idle", "reresolving"} /\ phase' = "prologue"
        /\ item' = w /\ outcome' = "none" /\ iteration' = 0
    BY <1>2 DEF StartRun
  <2> QED
    BY <1>1, <2>3, <2>4 DEF Abstract!Begin, AchievedItems
<1>3. ASSUME NEW entry \in Stages, EnterGraph(entry)
      PROVE  UNCHANGED Abstract!lifecycleVars
  BY <1>3 DEF EnterGraph, Abstract!lifecycleVars
<1>4. ASSUME phase = "dispatched", NEW declared \in Costs, Accepted(declared)
      PROVE  Abstract!LifecycleNext
  <2>1. /\ item' = item /\ disk[item].life # "ACHIEVED"
        /\ workItem.life # "ACHIEVED" /\ iteration < MaxIterations
    BY <1>4 DEF Accepted, LifeInv, Working, Base, Shape
  <2>2. CASE Continues
    <3>1. \A w \in WorkItems : w # item => disk'[w] = disk[w]
      BY <1>1, <2>2 DEF Continues
    <3>2. disk'[item].life # "ACHIEVED"
      BY <1>1, <2>1, <2>2 DEF Continues
    <3>3. AchievedItems' = AchievedItems
      BY <1>1, <2>1, <3>1, <3>2, NothingAchieved
    <3>4. Abstract!Lap
      BY <1>1, <1>4, <2>1, <2>2, <3>3 DEF Continues, Abstract!Lap, AchievedItems
    <3> QED
      BY <3>4 DEF Abstract!LifecycleNext
  <2>3. CASE Stops
    <3>1. /\ disk'[item].life # "ACHIEVED"
          /\ \A w \in WorkItems \ {item} : disk'[w].life = disk[w].life
          /\ iteration' = iteration /\ outcome' \in {"BLOCKED", "RERESOLVED"}
          /\ phase' \in {"idle", "reresolving"}
      BY <2>1, <2>3 DEF Stops
    <3>2. AchievedItems' = AchievedItems
      BY <1>1, <2>1, <3>1, NothingAchieved
    <3> QED
      BY <1>4, <3>1, <3>2, FinishStep DEF Working
  <2> QED
    BY <1>4, <2>2, <2>3 DEF Accepted
<1>5. CASE Ended
  <2>1. /\ disk[item].life # "ACHIEVED" /\ workItem.life # "ACHIEVED"
        /\ phase \in Working /\ phase' = "idle" /\ iteration' = iteration
        /\ outcome' \in {"COMPLETE", "BLOCKED", "FAILED"}
        /\ \A w \in WorkItems \ {item} : disk'[w].life = disk[w].life
    BY <1>5 DEF Ended, LifeInv
  <2>2. CASE outcome' = "COMPLETE"
    <3>1. disk'[item].life = "ACHIEVED"
      BY <1>5, <2>2 DEF Ended
    <3>2. AchievedItems' = AchievedItems \cup {item}
      BY <1>1, <2>1, <3>1 DEF AchievedItems
    <3> QED
      BY <2>1, <2>2, <3>2, FinishStep DEF Working
  <2>3. CASE outcome' # "COMPLETE"
    <3>1. disk'[item].life # "ACHIEVED"
      BY <1>5, <2>1, <2>3 DEF Ended
    <3>2. AchievedItems' = AchievedItems
      BY <1>1, <2>1, <3>1, NothingAchieved
    <3> QED
      BY <2>1, <2>3, <3>2, FinishStep DEF Working
  <2> QED
    BY <2>2, <2>3
<1>6. CASE Moves
  <2>1. CASE iteration' = iteration
    BY <1>6, <2>1 DEF Moves, Abstract!lifecycleVars
  <2>2. CASE iteration' = iteration + 1
    <3>1. Abstract!Lap
      BY <1>1, <1>6, <2>2 DEF Moves, Abstract!Lap
    <3> QED
      BY <3>1 DEF Abstract!LifecycleNext
  <2> QED
    BY <1>6, <2>1, <2>2 DEF Moves
<1>7. CASE Idles
  <2>1. CASE phase = "reresolving"
    <3>1. Abstract!Withdraw
      BY <1>7, <2>1 DEF Idles, Base, Shape, Abstract!Withdraw
    <3> QED
      BY <3>1 DEF Abstract!LifecycleNext
  <2>2. CASE phase \in Working
    <3>1. Abstract!Die
      BY <1>1, <1>7, <2>2 DEF Idles, Working, Abstract!Die
    <3> QED
      BY <3>1 DEF Abstract!LifecycleNext
  <2> QED
    BY <1>7, <2>1, <2>2 DEF Idles, Base, TypeOK, Working
<1>8. CASE UNCHANGED vars
  BY <1>8 DEF vars, Abstract!lifecycleVars
<1>9. (\E w \in WorkItems : StartRun(w)) => Abstract!LifecycleNext
  BY <1>2 DEF Abstract!LifecycleNext
<1> QED
  BY <1>3, <1>4, <1>5, <1>6, <1>7, <1>8, <1>9, StepKinds

(* The loop implements the run it promises (RunLifecycle): for every graph   *)
(* left through COMPLETION alone, it has a finite amount of work in it, ends *)
(* with one outcome, and says COMPLETE exactly when its work item becomes    *)
(* ACHIEVED (kernel.ts loop, complete, end).                                 *)
THEOREM RunLoopImplementsLifecycle ==
  ASSUME CompletionIsTheOnlyWayOut
  PROVE  Spec => ImplementsRunLifecycle
<1>1. Init => LifeInv /\ EarnedInv
  BY FrozenGraphAssumption
     DEF Init, LifeInv, Working, EarnedInv, CompleteIsEarned, Control
<1>2. Init => Abstract!LifecycleInit
  <2> SUFFICES ASSUME Init PROVE Abstract!LifecycleInit
    OBVIOUS
  <2>1. \A w \in WorkItems : disk[w].life = "ABSENT"
    BY DEF Init, AbsentWorkItem
  <2>2. MaxIterations - iteration = MaxIterations
    BY MaxIterationsType DEF Init
  <2> QED
    BY <2>1, <2>2 DEF Init, Abstract!LifecycleInit
<1>3. EarnedInv => stage \notin {"COMPLETE", "CANCELLED"}
  BY DEF EarnedInv
<1> QED
  BY <1>1, <1>2, <1>3, LifeStep, EarnedStep, RefinementStep, BaseHolds, PTL
     DEF Spec, ImplementsRunLifecycle, Abstract!LifecycleSpec
=============================================================================
