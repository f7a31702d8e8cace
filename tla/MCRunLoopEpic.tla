--------------------------- MODULE MCRunLoopEpic ---------------------------
(***************************************************************************)
(* policies/data/workflows/epic.coordinate.json, with the two edges its    *)
(* well-formedness would allow and other templates carry: an escalate edge *)
(* to BLOCKED, and a negated branch, here to CANCELLED.  It has the        *)
(* predicates, the structural stages, the safe prefix, and a stage (DEPLOY) *)
(* whose descriptor is missing.                                            *)
(***************************************************************************)
EXTENDS RunLoop

Edge(from, to, kind, when, negated) ==
  [from |-> from, to |-> to, kind |-> kind, when |-> when,
   negated |-> negated, counter |-> NoCounter]

MCGraphStages ==
  <<"DECOMPOSITION", "CHILD_COORDINATION", "VALIDATION", "DEPLOY", "COMPLETION">>

MCEdges ==
  << Edge("DECOMPOSITION", "CHILD_COORDINATION", "advance", "always", FALSE),
     Edge("CHILD_COORDINATION", "VALIDATION", "branch", "all_terminal", FALSE),
     Edge("CHILD_COORDINATION", "CANCELLED", "branch", "still_wanted", TRUE),
     Edge("VALIDATION", "COMPLETION", "advance", "always", FALSE),
     Edge("VALIDATION", "BLOCKED", "escalate", "envelope.REJECTED", FALSE),
     Edge("COMPLETION", "COMPLETE", "terminal", "always", FALSE) >>

MCDescribed  == {"DECOMPOSITION", "CHILD_COORDINATION", "VALIDATION"}
MCConditions == {"all_terminal", "still_wanted"}
MCNone       == {}
MCNoCaps     == [c \in {} |-> 0]
MCMayReturn  ==
  [s \in MCDescribed |->
     {"COMPLETE", "PARTIAL", "BLOCKED", "FAILED"}
       \cup IF s = "VALIDATION" THEN {"REJECTED"} ELSE {}]
MCProfile    == <<5>>
MCOwedBy     == [s \in MCDescribed |->
                   IF s = "VALIDATION" THEN {5} ELSE {}]
MCCritical   == {5}
MCPrefixes   == {{}, {"DECOMPOSITION"}}
MCCosts      == {2}
=============================================================================
