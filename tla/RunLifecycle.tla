---------------------------- MODULE RunLifecycle ----------------------------
(***************************************************************************)
(* What a workflow run promises whoever started it, with no word on how:   *)
(* it has a finite amount of work in it, it ends with one outcome, and it  *)
(* says COMPLETE exactly when its work item became ACHIEVED.  A process    *)
(* that dies says nothing and takes nothing back.  The run is worth its    *)
(* laps: each takes one unit of fuel, and a run without fuel can only end. *)
(*                                                                         *)
(* RunLoop implements it (see RunLoop!Abstract), as does anything that     *)
(* replaces that loop (WORKFLOW_STATE_MACHINE.md sections 3 and 4.2).      *)
(***************************************************************************)
EXTENDS Naturals

CONSTANTS
  WorkItems,
  Nobody,    (* no work item                                                *)
  Fuel       (* iterations a run has in it                                  *)

VARIABLES
  running,   (* the work item being worked on, or Nobody                     *)
  achieved,  (* work items whose record says ACHIEVED                        *)
  result,    (* of the last run: "none" while one runs or after a crash      *)
  fuel       (* of the run, what is left                                     *)

lifecycleVars == <<running, achieved, result, fuel>>

LifecycleInit ==
  /\ running = Nobody
  /\ achieved = {}
  /\ result = "none"
  /\ fuel = Fuel

Begin(w) ==
  /\ running = Nobody
  /\ running' = w
  /\ achieved' = achieved \ {w}
  /\ result' = "none"
  /\ fuel' = Fuel

Lap ==
  /\ running # Nobody
  /\ fuel > 0
  /\ fuel' = fuel - 1
  /\ UNCHANGED <<running, achieved, result>>

Finish(outcome) ==
  /\ running # Nobody
  /\ running' = Nobody
  /\ result' = outcome
  /\ achieved' = IF outcome = "COMPLETE" THEN achieved \cup {running}
                                         ELSE achieved
  /\ UNCHANGED fuel

(* The second run of a re-resolution was refused.                            *)
Withdraw ==
  /\ running = Nobody
  /\ result = "RERESOLVED"
  /\ result' \in {"BLOCKED", "none"}
  /\ UNCHANGED <<running, achieved, fuel>>

Die ==
  /\ running' = Nobody
  /\ running # Nobody
  /\ result' = "none"
  /\ UNCHANGED <<achieved, fuel>>

LifecycleNext ==
  \/ \E w \in WorkItems : Begin(w)
  \/ Lap
  \/ \E outcome \in {"COMPLETE", "BLOCKED", "FAILED", "RERESOLVED"} : Finish(outcome)
  \/ Withdraw
  \/ Die

LifecycleSpec == LifecycleInit /\ [][LifecycleNext]_lifecycleVars
=============================================================================
