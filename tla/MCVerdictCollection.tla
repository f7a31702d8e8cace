------------------------ MODULE MCVerdictCollection ------------------------
(***************************************************************************)
(* A profile with every kind of criterion: critical and owned by a stage,  *)
(* critical and owned by the prologue alone, non-critical, and set aside   *)
(* by default.  To a run, a criterion whose stage the graph does not have  *)
(* is one of the prologue's that the prologue left out.                    *)
(***************************************************************************)
EXTENDS VerdictCollection

MCGraphStages == <<"ARCHITECTURE", "IMPLEMENTATION", "VALIDATION", "COMPLETION">>
MCProfile     == <<1, 2, 5, 12>>
MCOwedBy      == [s \in Stages |->
                    CASE s = "ARCHITECTURE" -> {2}
                      [] s = "VALIDATION"   -> {5, 12}
                      [] OTHER              -> {}]
MCCritical    == {1, 5}
MCNotApplicableDefault == {12}
MCPrologue    == {1}
=============================================================================
