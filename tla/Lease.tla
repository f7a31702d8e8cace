------------------------------- MODULE Lease -------------------------------
(***************************************************************************)
(* Several kernel processes run one work item: state/src/store.ts          *)
(* acquireLease and releaseLease, and what core/src/kernel.ts              *)
(* continueWithWorkItem does round them.  One step is one file operation,  *)
(* which is all the machine makes atomic.  A run is one call of            *)
(* continueWithWorkItem: its id is fresh, so it is one process for life.   *)
(*                                                                         *)
(* Left out: the logs, and what the run does to its work item beyond       *)
(* writing the record back, which is RunLoop's.                            *)
(***************************************************************************)
EXTENDS Integers, FiniteSets

CONSTANTS
  Runs,          (* the runs that may be attempted                           *)
  NoFile,        (* lease.json does not exist                                *)
  LeaseTimeout,  (* budgets.lease_timeout_ms                                 *)
  MaxTime        (* bound of the clock: TLC's, not the code's                *)

ASSUME LeaseAssumption ==
  /\ IsFiniteSet(Runs)
  /\ LeaseTimeout \in Nat
  /\ MaxTime \in Nat

(* LeaseInfo, and whether the writer's bytes have reached the file.  The
   file between open 'wx' and write is empty, and `run` only says whose
   open file it is.                                                          *)
LeaseFile == [run : Runs, at : Nat, written : BOOLEAN]
ASSUME NoFileAssumption == NoFile \notin LeaseFile

VARIABLES
  lease,      (* lease.json                                                  *)
  listed,     (* `runs` of work-item.json                                    *)
  now,        (* the clock of the machine                                    *)
  pc,         (* of each run, the file operation it comes to                 *)
  at,         (* of each run, clock.now() when it asked for the lease        *)
  copy,       (* of each run, `runs` of the record in its memory             *)
  reclaimed   (* runs whose rename replaced the lease; read by no action     *)

vars == <<lease, listed, now, pc, at, copy, reclaimed>>

Acquiring == {"creating", "writing", "reading", "claiming", "confirming"}
Active    == {"leased", "active"}
Releasing == {"ending", "releasing", "unlinking"}
Over      == {"turnedAway", "done", "threw", "dead"}

In(states) == {r \in Runs : pc[r] \in states}
ActiveRuns == In(Active)

Readable == lease # NoFile /\ lease.written  (* else readJson throws *)

Goto(r, from, to) == pc[r] = from /\ pc' = [pc EXCEPT ![r] = to]

Init ==
  /\ lease = NoFile
  /\ listed = {}
  /\ now = 0
  /\ pc = [r \in Runs |-> "new"]
  /\ at = [r \in Runs |-> 0]
  /\ copy = [r \in Runs |-> {}]
  /\ reclaimed = {}

(* Mutant: the lease is dated by when it expires, counted back.              *)
StartBackdated(r) ==
  /\ Goto(r, "new", "creating")
  /\ copy' = [copy EXCEPT ![r] = listed]
  /\ at' = [at EXCEPT ![r] = now - LeaseTimeout]
  /\ UNCHANGED <<lease, listed, now, reclaimed>>

(* The record is read, the clock too, and only then the lease is asked for.  *)
Start(r) ==
  /\ Goto(r, "new", "creating")
  /\ copy' = [copy EXCEPT ![r] = listed]
  /\ at' = [at EXCEPT ![r] = now]
  /\ UNCHANGED <<lease, listed, now, reclaimed>>

(* ---- acquireLease ---- *)

(* Mutant: the file is opened 'w', which takes one that exists.              *)
CreateShared(r) ==
  /\ Goto(r, "creating", "writing")
  /\ lease' = [run |-> r, at |-> at[r], written |-> FALSE]
  /\ UNCHANGED <<listed, now, at, copy, reclaimed>>

Create(r) ==  (* openSync(path, 'wx') *)
  /\ \/ /\ lease = NoFile
        /\ Goto(r, "creating", "writing")
        /\ lease' = [run |-> r, at |-> at[r], written |-> FALSE]
     \/ /\ lease # NoFile
        /\ Goto(r, "creating", "reading")
        /\ UNCHANGED lease
  /\ UNCHANGED <<listed, now, at, copy, reclaimed>>

(* Bytes go to the file that was opened, which another may have unlinked or
   renamed over.                                                             *)
Write(r) ==
  /\ Goto(r, "writing", "leased")
  /\ lease' = IF lease # NoFile /\ lease.run = r
                THEN [lease EXCEPT !.written = TRUE] ELSE lease
  /\ UNCHANGED <<listed, now, at, copy, reclaimed>>

Read(r) ==
  /\ \/ ~Readable /\ Goto(r, "reading", "threw")
     \/ /\ Readable
        /\ at[r] - lease.at < LeaseTimeout
        /\ Goto(r, "reading", "refused")
     \/ /\ Readable
        /\ at[r] - lease.at >= LeaseTimeout
        /\ Goto(r, "reading", "claiming")
  /\ UNCHANGED <<lease, listed, now, at, copy, reclaimed>>

Rename(r) ==
  /\ Goto(r, "claiming", "confirming")
  /\ lease' = [run |-> r, at |-> at[r], written |-> TRUE]
  /\ reclaimed' = reclaimed \cup {r}
  /\ UNCHANGED <<listed, now, at, copy>>

Confirm(r) ==
  /\ \/ ~Readable /\ Goto(r, "confirming", "threw")
     \/ Readable /\ lease.run = r /\ Goto(r, "confirming", "leased")
     \/ Readable /\ lease.run # r /\ Goto(r, "confirming", "refused")
  /\ UNCHANGED <<lease, listed, now, at, copy, reclaimed>>

(* ---- continueWithWorkItem ---- *)

PutRecord(r, runs) ==
  /\ listed' = runs
  /\ copy' = [copy EXCEPT ![r] = runs]

(* Mutant: a refused run cleans up as a finished one does, by path.          *)
RefusedCleaningUp(r) ==
  /\ Goto(r, "refused", "turnedAway")
  /\ PutRecord(r, copy[r])
  /\ lease' = NoFile
  /\ UNCHANGED <<now, at, reclaimed>>

(* A refused run, too, writes back the record it read.                       *)
Refused(r) ==
  /\ Goto(r, "refused", "turnedAway")
  /\ PutRecord(r, copy[r])
  /\ UNCHANGED <<lease, now, at, reclaimed>>

Register(r) ==
  /\ Goto(r, "leased", "active")
  /\ PutRecord(r, copy[r] \cup {r})
  /\ UNCHANGED <<lease, now, at, reclaimed>>

(* runGraph ends: its last act is to write the record, unless it threw.      *)
End(r) ==
  /\ Goto(r, "active", "ending")
  /\ PutRecord(r, copy[r]) \/ UNCHANGED <<listed, copy>>
  /\ UNCHANGED <<lease, now, at, reclaimed>>

(* ---- releaseLease, in the finally ---- *)

(* Mutant: no finally.                                                       *)
ExistsSkipped(r) ==
  /\ Goto(r, "ending", "done")
  /\ UNCHANGED <<lease, listed, now, at, copy, reclaimed>>

Exists(r) ==
  /\ \/ lease = NoFile /\ Goto(r, "ending", "done")
     \/ lease # NoFile /\ Goto(r, "ending", "releasing")
  /\ UNCHANGED <<lease, listed, now, at, copy, reclaimed>>

ReadOwn(r) ==
  /\ \/ ~Readable /\ Goto(r, "releasing", "threw")
     \/ Readable /\ lease.run # r /\ Goto(r, "releasing", "done")
     \/ Readable /\ lease.run = r /\ Goto(r, "releasing", "unlinking")
  /\ UNCHANGED <<lease, listed, now, at, copy, reclaimed>>

Unlink(r) ==
  /\ \/ lease = NoFile /\ Goto(r, "unlinking", "threw")
     \/ lease # NoFile /\ Goto(r, "unlinking", "done")
  /\ lease' = NoFile
  /\ UNCHANGED <<listed, now, at, copy, reclaimed>>

(* ---- *)

(* The process dies; or what stands between the lease and the try throws,
   which leaves the files as death does.                                     *)
Crash(r) ==
  /\ pc[r] \notin {"new"} \cup Over
  /\ pc' = [pc EXCEPT ![r] = "dead"]
  /\ UNCHANGED <<lease, listed, now, at, copy, reclaimed>>

Tick ==
  /\ now < MaxTime
  /\ now' = now + 1
  /\ UNCHANGED <<lease, listed, pc, at, copy, reclaimed>>

Operation(r) ==
  \/ Start(r) \/ Create(r) \/ Write(r) \/ Read(r) \/ Rename(r) \/ Confirm(r)
  \/ Refused(r) \/ Register(r) \/ End(r)
  \/ Exists(r) \/ ReadOwn(r) \/ Unlink(r)
  \/ Crash(r)

Next == Tick \/ \E r \in Runs : Operation(r)

Spec == Init /\ [][Next]_vars

-----------------------------------------------------------------------------

(* Type correctness.                                                         *)
TypeOK ==
  /\ lease \in LeaseFile \cup {NoFile}
  /\ listed \subseteq Runs
  /\ now \in Nat
  /\ pc \in [Runs -> {"new", "refused"} \cup Acquiring \cup Active
                       \cup Releasing \cup Over]
  /\ at \in [Runs -> Nat]
  /\ copy \in [Runs -> SUBSET Runs]
  /\ reclaimed \subseteq Runs

(* Exclusion survives every interleaving and crash that has no reclamation
   in it, and each reclamation costs at most one: over the exclusive create,
   the rename and the unlink of whatever is there by then.                   *)
ActiveRunsBounded ==
  Cardinality(ActiveRuns) <= 1 + Cardinality(reclaimed)

(* As long as nothing was reclaimed, a run that works is the one the file
   names, so a run turned away is told who is in its way, and the release of
   one run never removes the lease of another.                               *)
HolderIsNamed ==
  reclaimed = {} =>
    \A r \in In(Active \cup Releasing) :
      lease # NoFile /\ lease.run = r /\ lease.written

(* A run that is over leaves no lease in its name, unless its process died:
   refused, finished, or failed on a file another one removed.  Otherwise the
   work item would be closed until the timeout with nobody working on it.    *)
NoLeaseLeftBehind ==
  lease # NoFile =>
    pc[lease.run] \notin {"new", "creating", "reading", "claiming", "refused"}
                           \cup (Over \ {"dead"})

=============================================================================
