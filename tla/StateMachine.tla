---------------------------- MODULE StateMachine ----------------------------
(***************************************************************************)
(* The kernel's transition function: core/src/state-machine.ts.            *)
(*                                                                         *)
(* decideAction maps an envelope, or the synthetic FAILED envelope of a    *)
(* dispatch that returned none, to exactly one kernel action over the      *)
(* frozen graph.  It reads the loop counters and the attempt number and    *)
(* changes nothing; RunLoop carries out what it decides.                   *)
(***************************************************************************)
EXTENDS FrozenGraph

CONSTANTS
  Edges,            (* the graph's edges, in declared order                    *)
  Conditions,       (* the predicates the edges name, without their negations  *)
  Counters,         (* the loop counters of policies/data/budgets.json         *)
  NoCounter,        (* an edge without one                                     *)
  RunLoopCap,       (* loops[counter].per_run                                  *)
  WorkItemLoopCap,  (* loops[counter].per_work_item                            *)
  DispatchRetries,  (* dispatch_retries                                        *)
  ModelEscalations  (* model_escalations_per_dispatch                          *)

(* Edge conditions that are an envelope status rather than a predicate.      *)
StatusConditions ==
  {"envelope.REJECTED", "envelope.BLOCKED_BY_ARCHITECTURE"}

(* `negated' is the NOT of a predicate reference (core/src/predicates.ts).   *)
EdgeType ==
  [from    : Stages,
   to      : Stages \cup Control,
   kind    : {"advance", "branch", "loop", "escalate", "terminal"},
   when    : StatusConditions \cup Conditions \cup {"always"},
   negated : BOOLEAN,
   counter : Counters \cup {NoCounter}]

ASSUME StateMachineAssumption ==
  /\ Edges \in Seq(EdgeType)
  /\ NoCounter \notin Counters
  /\ RunLoopCap \in [Counters -> Nat]
  /\ WorkItemLoopCap \in [Counters -> Nat]
  /\ DispatchRetries \in Nat
  /\ ModelEscalations \in Nat

EnvelopeStatuses ==
  {"COMPLETE", "PARTIAL", "BLOCKED", "BLOCKED_BY_ARCHITECTURE", "FAILED",
   "REJECTED"}

(* What decideAction reads of an envelope: its status, whether it leaves     *)
(* required outputs unfilled, and whether its first blocker says the work    *)
(* item was misclassified.                                                   *)
EnvelopeView ==
  [status : EnvelopeStatuses, missing : BOOLEAN, misclassified : BOOLEAN]

PredicateValues == {"TRUE", "FALSE", "INDETERMINATE"}

-----------------------------------------------------------------------------
EdgesFrom(s) == {i \in DOMAIN Edges : Edges[i].from = s}

StatusEdges(s, status) == {i \in EdgesFrom(s) : Edges[i].when = status}

ConditionEdges(s) == {i \in EdgesFrom(s) : Edges[i].when \notin StatusConditions}

Unconditional(s) == {i \in ConditionEdges(s) : Edges[i].when = "always"}

(* What the predicates on the edges from a stage may evaluate to.  One       *)
(* decision probes an element of reality once, so X and NOT X agree in it.   *)
Valuations(s) ==
  [{Edges[i].when : i \in ConditionEdges(s) \ Unconditional(s)}
     -> PredicateValues]

(* A negated reference swaps TRUE and FALSE and leaves INDETERMINATE alone.  *)
Negate(v) ==
  CASE v = "TRUE"  -> "FALSE"
    [] v = "FALSE" -> "TRUE"
    [] OTHER       -> "INDETERMINATE"

Evaluate(e, val) == IF e.negated THEN Negate(val[e.when]) ELSE val[e.when]

EdgesWorth(s, val, v) ==
  {i \in ConditionEdges(s) \ Unconditional(s) : Evaluate(Edges[i], val) = v}

(* The first conditional edge that holds, else the unconditional one.        *)
Chosen(s, val) ==
  IF EdgesWorth(s, val, "TRUE") # {} THEN First(EdgesWorth(s, val, "TRUE"))
                                     ELSE First(Unconditional(s))

(* Mutant: the lap about to be taken is not counted.                         *)
LoopExhaustedLate(i, runLoops, workItemLoops) ==
  LET c == Edges[i].counter
  IN  /\ c # NoCounter
      /\ \/ runLoops[c] > RunLoopCap[c]
         \/ workItemLoops[c] > WorkItemLoopCap[c]

(* Both caps are checked, and an edge without a counter has neither.         *)
LoopExhausted(i, runLoops, workItemLoops) ==
  LET c == Edges[i].counter
  IN  /\ c # NoCounter
      /\ \/ runLoops[c] + 1 > RunLoopCap[c]
         \/ workItemLoops[c] + 1 > WorkItemLoopCap[c]

-----------------------------------------------------------------------------
(* Kernel actions.  `edge' is the edge of a TRANSITION, `escalate' asks a    *)
(* REDISPATCH for a stronger model.                                          *)
KernelActions == {"TRANSITION", "REDISPATCH", "BLOCK", "RERESOLVE"}

Transition(i)  == [kind |-> "TRANSITION", edge |-> i, escalate |-> FALSE]
Redispatch(up) == [kind |-> "REDISPATCH", edge |-> 0, escalate |-> up]
Block          == [kind |-> "BLOCK",      edge |-> 0, escalate |-> FALSE]
Reresolution   == [kind |-> "RERESOLVE",  edge |-> 0, escalate |-> FALSE]

(* Follow one of the edges given, if there is one and its cap allows it.     *)
Follow(edges, runLoops, workItemLoops) ==
  IF \E i \in edges : ~LoopExhausted(i, runLoops, workItemLoops)
    THEN Transition(CHOOSE i \in edges :
                      ~LoopExhausted(i, runLoops, workItemLoops))
    ELSE Block

(* advance: the edge of a COMPLETE envelope, and of a PARTIAL one that left  *)
(* nothing required unfilled.                                                *)
Advance(s, val, runLoops, workItemLoops) ==
  CASE ConditionEdges(s) = {} -> Block
    [] /\ ConditionEdges(s) # {}
       /\ Chosen(s, val) # {} ->
         Follow(Chosen(s, val), runLoops, workItemLoops)
    [] /\ ConditionEdges(s) # {}
       /\ Chosen(s, val) = {}
       /\ EdgesWorth(s, val, "INDETERMINATE") # {} -> Block
    [] OTHER -> Redispatch(FALSE)

(* The loop from IMPLEMENTATION back to the design.                          *)
ArchitectureLoop ==
  First({i \in DOMAIN Edges : /\ Edges[i].from = "IMPLEMENTATION"
                                  /\ Edges[i].to = "ARCHITECTURE"
                                  /\ Edges[i].kind = "loop"})

PartialAction(s, missing, val, attempt, runLoops, workItemLoops) ==
  CASE ~missing -> Advance(s, val, runLoops, workItemLoops)
    [] missing /\ attempt <= 1 -> Redispatch(FALSE)
    [] OTHER -> Block

FailedAction(attempt, escalated) ==
  IF attempt <= DispatchRetries
    THEN Redispatch(~escalated /\ ModelEscalations > 0)
    ELSE Block

ArchitectureAction(runLoops, workItemLoops) ==
  IF "ARCHITECTURE" \in Stages
    THEN Follow(ArchitectureLoop, runLoops, workItemLoops)
    ELSE Block

DecideAction(s, env, val, attempt, escalated, runLoops, workItemLoops) ==
  CASE env.status = "COMPLETE" -> Advance(s, val, runLoops, workItemLoops)
    [] env.status = "PARTIAL"  ->
         PartialAction(s, env.missing, val, attempt, runLoops, workItemLoops)
    [] env.status = "BLOCKED"  ->
         IF env.misclassified THEN Reresolution ELSE Block
    [] env.status = "BLOCKED_BY_ARCHITECTURE" ->
         ArchitectureAction(runLoops, workItemLoops)
    [] env.status = "FAILED"   -> FailedAction(attempt, escalated)
    [] env.status = "REJECTED" ->
         Follow(First(StatusEdges(s, "envelope.REJECTED")),
                runLoops, workItemLoops)
=============================================================================
