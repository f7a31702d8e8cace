----------------------------- MODULE MCRecovery -----------------------------
(***************************************************************************)
(* One run over the shortest graph with a loop, a route back and a stage   *)
(* to pass over, in the corners where what it writes, what its agents do   *)
(* and who else writes are at odds: laps and route-backs; parallel calls;  *)
(* a call that outlives its dispatch; a second recovery; a re-resolution.  *)
(* The recoverers are interchangeable.                                     *)
(***************************************************************************)
EXTENDS Recovery, TLC

MCStages == <<"ROOT_CAUSE", "IMPLEMENTATION", "COMPLETION">>

Corner(loops, dispatches, iterations, reresolutions, calling, leaseLines, recoveries) ==
  [loops |-> loops, dispatches |-> dispatches, iterations |-> iterations,
   reresolutions |-> reresolutions, calls |-> calling, leaseLines |-> leaseLines,
   recoveries |-> recoveries]

MCSettings ==
  {Corner(1, 1, 3, 0, 0, 0, 1), Corner(0, 1, 1, 0, 2, 0, 1), Corner(0, 2, 2, 0, 1, 0, 1),
   Corner(0, 1, 1, 0, 1, 0, 2), Corner(0, 1, 1, 1, 0, 2, 1)}

MCSymmetry == Permutations(Recoverers)
=============================================================================
