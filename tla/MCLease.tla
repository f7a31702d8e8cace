------------------------------ MODULE MCLease ------------------------------
(***************************************************************************)
(* Three runs of one work item.  With a timeout of one tick and a clock of *)
(* two, a lease is found fresh, found stale, and found stale again after a *)
(* reclamation.  The runs are interchangeable: nothing compares their ids  *)
(* but for equality, and the properties are of states.                     *)
(***************************************************************************)
EXTENDS Lease, TLC

MCSymmetry == Permutations(Runs)
=============================================================================
