----------------------------- MODULE MCRunLoop -----------------------------
(***************************************************************************)
(* The rework and architecture loops of policies/data/workflows, on the    *)
(* smallest graph that has both: defect.standard without the stages that   *)
(* only advance.                                                           *)
(***************************************************************************)
EXTENDS RunLoop

Edge(from, to, kind, when, counter) ==
  [from |-> from, to |-> to, kind |-> kind, when |-> when,
   negated |-> FALSE, counter |-> counter]

MCGraphStages ==
  <<"ARCHITECTURE", "IMPLEMENTATION", "VALIDATION", "REWORK", "COMPLETION">>

MCEdges ==
  << Edge("ARCHITECTURE", "IMPLEMENTATION", "advance", "always", NoCounter),
     Edge("IMPLEMENTATION", "VALIDATION", "advance", "always", NoCounter),
     Edge("IMPLEMENTATION", "ARCHITECTURE", "loop",
          "envelope.BLOCKED_BY_ARCHITECTURE", "architecture"),
     Edge("VALIDATION", "REWORK", "loop", "envelope.REJECTED", "rework"),
     Edge("REWORK", "IMPLEMENTATION", "advance", "always", NoCounter),
     Edge("VALIDATION", "COMPLETION", "advance", "always", NoCounter),
     Edge("COMPLETION", "COMPLETE", "terminal", "always", NoCounter) >>

MCConditions == {}
MCCounters   == {"rework", "architecture"}

Always == {"COMPLETE", "PARTIAL", "BLOCKED", "FAILED"}
MCMayReturn ==
  [s \in Stages |->
     CASE s \in {"IMPLEMENTATION", "REWORK"} ->
            Always \cup {"BLOCKED_BY_ARCHITECTURE"}
       [] s = "VALIDATION" -> Always \cup {"REJECTED"}
       [] OTHER            -> Always]

MCProfile  == <<5>>
MCOwedBy   == [s \in Stages |-> CASE s = "VALIDATION" -> {5}
                                  [] OTHER              -> {}]
MCCritical == {5}
MCNone     == {}
MCNoPrefix == {{}}
MCFree     == {0}
MCOneCap   == [c \in MCCounters |-> 1]

(* What the theorems about completion ask of the graph holds of this one.    *)
ASSUME GraphAssumption == CompletionIsTheOnlyWayOut /\ ValidationPostDominates
=============================================================================
