---------------------------- MODULE LeaseProofs ----------------------------
(***************************************************************************)
(* What the lease of a work item excludes, for any number of runs, any     *)
(* timeout and any clock.  The argument counts: a run that holds           *)
(* something (it created the file or renamed over it, and is not over) is  *)
(* paid for by the file that exists or by a reclamation.                   *)
(***************************************************************************)
EXTENDS Lease, FiniteSetTheorems, TLAPS

Holding == {"writing", "confirming"} \cup Active \cup Releasing

(* What a run with a lease in its name is never at. *)
Never   == {"new", "creating", "reading", "claiming", "refused"}
             \cup (Over \ {"dead"})

FileCount == IF lease = NoFile THEN 0 ELSE 1

(* The inductive invariant, in its parts. *)
Paid == Cardinality(In(Holding)) <= Cardinality(reclaimed) + FileCount

Reclaimers ==
  \A r \in Runs :
    /\ pc[r] \in {"new", "creating", "reading", "claiming"} => r \notin reclaimed
    /\ pc[r] = "confirming" => r \in reclaimed

(* An empty file is of a run that is about to write it, or died.             *)
Unwritten ==
  lease # NoFile /\ ~lease.written => pc[lease.run] \in {"writing", "dead"}

Named ==
  reclaimed = {} =>
    \A r \in In(Holding) :
      /\ lease # NoFile
      /\ lease.run = r
      /\ lease.written <=> pc[r] # "writing"

LeaseInv ==
  TypeOK /\ Reclaimers /\ Unwritten /\ Named /\ NoLeaseLeftBehind

(* The file a run makes, of its id and the time it asked.                    *)
LEMMA NewFile ==
  ASSUME NEW r \in Runs, NEW t \in Nat, NEW b \in BOOLEAN
  PROVE  /\ [run |-> r, at |-> t, written |-> b] \in LeaseFile
         /\ [run |-> r, at |-> t, written |-> b].run = r
         /\ [run |-> r, at |-> t, written |-> b].written = b
BY DEF LeaseFile

(* Writing a file changes nothing else of it.                                *)
LEMMA WrittenFile ==
  ASSUME NEW f \in LeaseFile
  PROVE  /\ [f EXCEPT !.written = TRUE] \in LeaseFile
         /\ [f EXCEPT !.written = TRUE].run = f.run
         /\ [f EXCEPT !.written = TRUE].written = TRUE
BY DEF LeaseFile

(* Type correctness of every step.                                           *)
LEMMA TypeStep == TypeOK /\ [Next]_vars => TypeOK'
<1> SUFFICES ASSUME TypeOK, [Next]_vars PROVE TypeOK'
  OBVIOUS
<1> USE DEF TypeOK, LeaseFile, Acquiring, Active, Releasing, Over, Goto
<1>1. CASE Tick
  BY <1>1 DEF Tick
<1>2. ASSUME NEW r \in Runs, Operation(r) PROVE TypeOK'
  <2>1. CASE Start(r)
    BY <2>1 DEF Start
  <2>2. CASE Create(r)
    <3>1. [run |-> r, at |-> at[r], written |-> FALSE] \in LeaseFile
      BY NewFile
    <3>2. lease' \in LeaseFile \cup {NoFile}
      BY <2>2, <3>1 DEF Create
    <3> QED
      BY <2>2, <3>2 DEF Create
  <2>3. CASE Write(r)
    BY <2>3 DEF Write
  <2>4. CASE Read(r)
    BY <2>4 DEF Read
  <2>5. CASE Rename(r)
    BY <2>5 DEF Rename
  <2>6. CASE Confirm(r)
    BY <2>6 DEF Confirm
  <2>7. CASE Refused(r)
    BY <2>7 DEF Refused, PutRecord
  <2>8. CASE Register(r)
    BY <2>8 DEF Register, PutRecord
  <2>9. CASE End(r)
    BY <2>9 DEF End, PutRecord
  <2>10. CASE Exists(r)
    BY <2>10 DEF Exists
  <2>11. CASE ReadOwn(r)
    BY <2>11 DEF ReadOwn
  <2>12. CASE Unlink(r)
    BY <2>12 DEF Unlink
  <2>13. CASE Crash(r)
    BY <2>13 DEF Crash
  <2> QED
    BY <1>2, <2>1, <2>2, <2>3, <2>4, <2>5, <2>6, <2>7, <2>8, <2>9, <2>10,
       <2>11, <2>12, <2>13 DEF Operation
<1>3. CASE UNCHANGED vars
  BY <1>3 DEF vars
<1> QED
  BY <1>1, <1>2, <1>3 DEF Next

(* What a step does to what the argument looks at: where the run stands, the *)
(* file, and the reclamations.                                               *)
Moves(r, from, to) == pc[r] \in from /\ \E p \in to : pc' = [pc EXCEPT ![r] = p]

Claims(r) ==
  /\ Moves(r, {"creating"}, {"writing"})
  /\ lease = NoFile
  /\ lease' \in LeaseFile /\ lease'.run = r /\ ~lease'.written
  /\ UNCHANGED reclaimed

Renames(r) ==
  /\ Moves(r, {"claiming"}, {"confirming"})
  /\ lease' \in LeaseFile /\ lease'.run = r /\ lease'.written
  /\ reclaimed' = reclaimed \cup {r}

Writes(r) ==
  /\ Moves(r, {"writing"}, {"leased"})
  /\ IF lease # NoFile /\ lease.run = r
       THEN lease' = [lease EXCEPT !.written = TRUE] ELSE lease' = lease
  /\ UNCHANGED reclaimed

Removes(r) ==
  /\ Moves(r, {"unlinking"}, {"done", "threw"})
  /\ lease' = NoFile
  /\ UNCHANGED reclaimed

(* The steps that only look. *)
Proceeds(r) ==
  /\ \/ Moves(r, {"new", "creating", "reading"},
                 {"creating", "reading", "claiming", "threw", "refused"})
     \/ Moves(r, {"refused"}, {"turnedAway"})
     \/ Moves(r, {"confirming"}, {"leased"}) /\ Readable /\ lease.run = r
     \/ /\ Moves(r, {"confirming", "releasing"}, {"threw", "refused", "done"})
        /\ Readable => lease.run # r
     \/ /\ Moves(r, {"leased", "active", "ending", "releasing"},
                    Active \cup Releasing)
     \/ Moves(r, {"ending"}, {"done"}) /\ lease = NoFile
     \/ /\ pc[r] \notin {"new"} \cup Over
        /\ pc' = [pc EXCEPT ![r] = "dead"]
  /\ UNCHANGED <<lease, reclaimed>>

Stays == UNCHANGED <<lease, pc, reclaimed>>

(* Every step of the lease is one of the kinds above.                        *)
LEMMA StepKinds ==
  ASSUME TypeOK, [Next]_vars
  PROVE  \/ Stays
         \/ \E r \in Runs :
              Claims(r) \/ Renames(r) \/ Writes(r) \/ Removes(r) \/ Proceeds(r)
<1> USE DEF Goto, Moves
<1>1. CASE Tick \/ UNCHANGED vars
  BY <1>1 DEF Tick, vars, Stays
<1>2. ASSUME NEW r \in Runs, Operation(r)
      PROVE  Claims(r) \/ Renames(r) \/ Writes(r) \/ Removes(r) \/ Proceeds(r)
  <2>1. CASE Create(r)
    <3>1. CASE lease = NoFile
      <4> DEFINE file == [run |-> r, at |-> at[r], written |-> FALSE]
      <4>1. lease' = file
        BY <2>1, <3>1 DEF Create
      <4>2. file \in LeaseFile /\ file.run = r /\ file.written = FALSE
        BY NewFile DEF TypeOK
      <4> HIDE DEF file
      <4> QED
        BY <2>1, <3>1, <4>1, <4>2 DEF Create, Claims
    <3>2. CASE lease # NoFile
      BY <2>1, <3>2 DEF Create, Proceeds
    <3> QED
      BY <3>1, <3>2
  <2>2. CASE Rename(r)
    BY <2>2 DEF Rename, Renames, TypeOK, LeaseFile
  <2>3. CASE Write(r)
    BY <2>3 DEF Write, Writes
  <2>4. CASE Unlink(r)
    BY <2>4 DEF Unlink, Removes
  <2>5. CASE Start(r)
    BY <2>5 DEF Start, Proceeds
  <2>6. CASE Read(r)
    BY <2>6 DEF Read, Proceeds
  <2>7. CASE Confirm(r)
    BY <2>7 DEF Confirm, Proceeds
  <2>8. CASE Refused(r)
    BY <2>8 DEF Refused, Proceeds
  <2>9. CASE Register(r)
    BY <2>9 DEF Register, Proceeds, Active
  <2>10. CASE End(r)
    BY <2>10 DEF End, Proceeds, Releasing
  <2>11. CASE Exists(r)
    BY <2>11 DEF Exists, Proceeds, Releasing
  <2>12. CASE ReadOwn(r)
    BY <2>12 DEF ReadOwn, Proceeds, Releasing
  <2>13. CASE Crash(r)
    BY <2>13 DEF Crash, Proceeds
  <2> QED
    BY <1>2, <2>1, <2>2, <2>3, <2>4, <2>5, <2>6, <2>7, <2>8, <2>9, <2>10,
       <2>11, <2>12, <2>13 DEF Operation
<1> QED
  BY <1>1, <1>2 DEF Next

-----------------------------------------------------------------------------
(* The parts that look at one run at a time.                                 *)
LEMMA InvStep == LeaseInv /\ [Next]_vars => LeaseInv'
<1> SUFFICES ASSUME LeaseInv, [Next]_vars
             PROVE  (Reclaimers /\ Unwritten /\ Named /\ NoLeaseLeftBehind)'
  BY TypeStep DEF LeaseInv
<1>1. TypeOK /\ TypeOK'
  BY TypeStep DEF LeaseInv
<1> USE NoFileAssumption
    DEF LeaseInv, Reclaimers, Unwritten, Named, NoLeaseLeftBehind, In, Holding,
        Active, Releasing, Over, Moves
<1>2. CASE Stays
  BY <1>2 DEF Stays
<1>3. ASSUME NEW r \in Runs, Claims(r)
      PROVE  (Reclaimers /\ Unwritten /\ Named /\ NoLeaseLeftBehind)'
  BY <1>1, <1>3 DEF Claims, TypeOK
<1>4. ASSUME NEW r \in Runs, Renames(r)
      PROVE  (Reclaimers /\ Unwritten /\ Named /\ NoLeaseLeftBehind)'
  BY <1>1, <1>4 DEF Renames, TypeOK
<1>5. ASSUME NEW r \in Runs, Writes(r)
      PROVE  (Reclaimers /\ Unwritten /\ Named /\ NoLeaseLeftBehind)'
  <2>1. CASE lease # NoFile /\ lease.run = r
    <3>1. lease \in LeaseFile /\ lease' = [lease EXCEPT !.written = TRUE]
      BY <1>1, <1>5, <2>1 DEF Writes, TypeOK
    <3>2. lease'.run = r /\ lease'.written = TRUE /\ lease' # NoFile
      BY <2>1, <3>1, WrittenFile
    <3> QED
      BY <1>1, <1>5, <2>1, <3>2 DEF Writes, TypeOK
  <2>2. CASE ~(lease # NoFile /\ lease.run = r)
    BY <1>1, <1>5, <2>2 DEF Writes, TypeOK
  <2> QED
    BY <2>1, <2>2
<1>6. ASSUME NEW r \in Runs, Removes(r)
      PROVE  (Reclaimers /\ Unwritten /\ Named /\ NoLeaseLeftBehind)'
  BY <1>1, <1>6 DEF Removes, TypeOK
<1>7. ASSUME NEW r \in Runs, Proceeds(r)
      PROVE  (Reclaimers /\ Unwritten /\ Named /\ NoLeaseLeftBehind)'
  <2>1. Reclaimers'
    BY <1>1, <1>7 DEF Proceeds, TypeOK
  <2>2. /\ \A s \in Runs : s # r => pc'[s] = pc[s]
        /\ lease' = lease /\ reclaimed' = reclaimed
    BY <1>1, <1>7 DEF Proceeds, TypeOK
  <2>3. pc[r] \in {"writing", "dead"} => pc'[r] = "dead"
    BY <1>1, <1>7 DEF Proceeds, TypeOK
  <2>4. pc'[r] \in Holding =>
          pc[r] \in Holding /\ pc[r] # "writing" /\ pc'[r] # "writing"
    BY <1>1, <1>7 DEF Proceeds, TypeOK
  <2>5. Unwritten'
    <3> SUFFICES ASSUME lease # NoFile, ~lease.written
                 PROVE  pc'[lease.run] \in {"writing", "dead"}
      BY <2>2
    <3>1. lease.run \in Runs /\ pc[lease.run] \in {"writing", "dead"}
      BY <1>1 DEF TypeOK, LeaseFile
    <3> QED
      BY <2>2, <2>3, <3>1
  <2>6. Named'
    <3> SUFFICES ASSUME reclaimed = {}, NEW s \in Runs, pc'[s] \in Holding
                 PROVE  /\ lease # NoFile
                        /\ lease.run = s
                        /\ lease.written <=> pc'[s] # "writing"
      BY <2>2
    <3> QED
      BY <2>2, <2>4
  <2>7. NoLeaseLeftBehind'
    <3> SUFFICES ASSUME lease # NoFile
                 PROVE  (pc[lease.run] \notin Never)'
      BY <2>2 DEF Never
    <3>1. CASE lease.run # r
      BY <1>1, <2>2, <3>1 DEF TypeOK, LeaseFile, Never
    <3>2. CASE lease.run = r
      <4>1. pc[r] \notin Never
        BY <3>2 DEF Never
      <4>2. ~Readable => pc[r] = "writing" \/ pc[r] = "dead"
        BY <3>2 DEF Readable
      <4>3. pc'[r] \notin Never
        BY <1>1, <1>7, <3>2, <4>1, <4>2 DEF Proceeds, TypeOK, Never
      <4> QED
        BY <2>2, <3>2, <4>3
    <3> QED
      BY <3>1, <3>2
  <2> QED
    BY <2>1, <2>5, <2>6, <2>7
<1> QED
  BY <1>1, <1>2, <1>3, <1>4, <1>5, <1>6, <1>7, StepKinds

(* The invariant holds from the start.                                       *)
LEMMA InvInit == Init => LeaseInv
BY DEF Init, LeaseInv, TypeOK, Reclaimers, Unwritten, Named, NoLeaseLeftBehind,
       In, Holding, Active, Releasing, Over

-----------------------------------------------------------------------------
(* Sets of runs are finite.                                                  *)
LEMMA HoldersFinite ==
  ASSUME NEW S \in SUBSET Runs
  PROVE  IsFiniteSet(S) /\ Cardinality(S) \in Nat
BY FS_Subset, FS_CardinalityType, LeaseAssumption

(* One run more is one more at most.                                         *)
LEMMA OneMore ==
  ASSUME NEW S, IsFiniteSet(S), NEW x, NEW T, T \subseteq S \cup {x}
  PROVE  Cardinality(T) \in Nat /\ Cardinality(T) <= Cardinality(S) + 1
<1>1. IsFiniteSet(S \cup {x})
  BY FS_AddElement
<1>2. Cardinality(S \cup {x}) <= Cardinality(S) + 1
  <2>1. Cardinality(S) \in Nat
    BY FS_CardinalityType
  <2>2. Cardinality(S \cup {x}) \in {Cardinality(S), Cardinality(S) + 1}
    BY FS_AddElement
  <2> QED
    BY <2>1, <2>2
<1>3. IsFiniteSet(T) /\ Cardinality(T) <= Cardinality(S \cup {x})
  BY <1>1, FS_Subset
<1> QED
  BY <1>1, <1>2, <1>3, FS_CardinalityType

(* What holds was created or renamed over: paid for by the file or by a      *)
(* reclamation (store.ts acquireLease).                                      *)
LEMMA PaidStep == LeaseInv /\ Paid /\ [Next]_vars => Paid'
<1> SUFFICES ASSUME LeaseInv, Paid, [Next]_vars PROVE Paid'
  OBVIOUS
<1>1. TypeOK /\ TypeOK'
  BY TypeStep DEF LeaseInv
<1> DEFINE H == In(Holding)
           n == Cardinality(H)
           k == Cardinality(reclaimed)
<1>2. IsFiniteSet(H) /\ n \in Nat /\ IsFiniteSet(reclaimed) /\ k \in Nat
  <2>1. H \in SUBSET Runs /\ reclaimed \in SUBSET Runs
    BY <1>1 DEF In, TypeOK
  <2> QED
    BY <2>1, HoldersFinite
<1>3. CASE Stays
  BY <1>3 DEF Stays, Paid, In, FileCount
<1>4. ASSUME NEW r \in Runs, Claims(r) PROVE Paid'
  <2>1. H' \subseteq H \cup {r}
    BY <1>1, <1>4 DEF Claims, Moves, In, TypeOK
  <2>2. Cardinality(H') \in Nat /\ Cardinality(H') <= n + 1
    BY <1>2, <2>1, OneMore
  <2>3. FileCount = 0 /\ FileCount' = 1 /\ reclaimed' = reclaimed
    BY <1>4, NoFileAssumption DEF Claims, FileCount
  <2> QED
    BY <1>2, <2>2, <2>3 DEF Paid
<1>5. ASSUME NEW r \in Runs, Renames(r) PROVE Paid'
  <2>1. H' \subseteq H \cup {r}
    BY <1>1, <1>5 DEF Renames, Moves, In, TypeOK
  <2>2. Cardinality(H') \in Nat /\ Cardinality(H') <= n + 1
    BY <1>2, <2>1, OneMore
  <2>3. r \notin reclaimed
    BY <1>5 DEF Renames, Moves, LeaseInv, Reclaimers
  <2>4. Cardinality(reclaimed') = k + 1
    BY <1>2, <1>5, <2>3, FS_AddElement DEF Renames
  <2>5. FileCount \in {0, 1} /\ FileCount' = 1
    BY <1>5, NoFileAssumption DEF Renames, FileCount
  <2> QED
    BY <1>2, <2>2, <2>4, <2>5 DEF Paid
<1>6. ASSUME NEW r \in Runs, Writes(r) PROVE Paid'
  <2>1. H' = H
    BY <1>1, <1>6 DEF Writes, Moves, In, TypeOK, Holding, Active
  <2>2. FileCount' = FileCount
    BY <1>1, <1>6, NoFileAssumption DEF Writes, FileCount, TypeOK, LeaseFile
  <2> QED
    BY <1>6, <2>1, <2>2 DEF Paid, Writes
<1>7. ASSUME NEW r \in Runs, Removes(r) PROVE Paid'
  <2>1. H' = H \ {r} /\ r \in H
    BY <1>1, <1>7
       DEF Removes, Moves, In, TypeOK, Holding, Active, Releasing, Over
  <2>2. Cardinality(H') = n - 1
    BY <1>2, <2>1, FS_RemoveElement
  <2>3. FileCount \in {0, 1} /\ FileCount' = 0
    BY <1>7 DEF Removes, FileCount
  <2> QED
    BY <1>2, <1>7, <2>2, <2>3 DEF Paid, Removes
<1>8. ASSUME NEW r \in Runs, Proceeds(r) PROVE Paid'
  <2>1. H' \subseteq H
    BY <1>1, <1>8
       DEF Proceeds, Moves, In, TypeOK, Holding, Active, Releasing, Over
  <2>2. Cardinality(H') <= n /\ Cardinality(H') \in Nat
    BY <1>2, <2>1, FS_Subset, FS_CardinalityType
  <2>3. FileCount' = FileCount /\ FileCount \in {0, 1} /\ reclaimed' = reclaimed
    BY <1>8 DEF Proceeds, FileCount
  <2> QED
    BY <1>2, <2>2, <2>3 DEF Paid
<1> QED
  BY <1>1, <1>3, <1>4, <1>5, <1>6, <1>7, <1>8, StepKinds

(* Nothing is held at first.                                                 *)
LEMMA PaidInit == Init => Paid
<1> SUFFICES ASSUME Init PROVE Paid
  OBVIOUS
<1>1. In(Holding) = {} /\ reclaimed = {} /\ FileCount = 0
  BY DEF Init, In, Holding, Active, Releasing, FileCount
<1> QED
  BY <1>1, FS_EmptySet DEF Paid

-----------------------------------------------------------------------------
(* Type correctness of the lease and the record (store.ts, kernel.ts).       *)
THEOREM LeaseTyped == Spec => []TypeOK
BY InvInit, TypeStep, PTL DEF LeaseInv, Spec

(* One run is active, and one more for each reclamation, whatever the number *)
(* of processes, the timeout and the clock (store.ts acquireLease).          *)
THEOREM ActiveRunsAreBounded == Spec => []ActiveRunsBounded
<1>1. ASSUME LeaseInv, Paid PROVE ActiveRunsBounded
  <2>1. ActiveRuns \subseteq In(Holding) /\ In(Holding) \in SUBSET Runs
    BY DEF ActiveRuns, In, Holding
  <2>2. ActiveRuns \in SUBSET Runs /\ reclaimed \in SUBSET Runs
    BY <1>1, <2>1 DEF LeaseInv, TypeOK
  <2>3. /\ Cardinality(ActiveRuns) \in Nat
        /\ Cardinality(reclaimed) \in Nat
        /\ Cardinality(In(Holding)) \in Nat
        /\ Cardinality(ActiveRuns) <= Cardinality(In(Holding))
    BY <2>1, <2>2, HoldersFinite, FS_Subset
  <2> QED
    BY <1>1, <2>3 DEF Paid, FileCount, ActiveRunsBounded
<1> QED
  BY <1>1, InvInit, InvStep, PaidInit, PaidStep, PTL DEF Spec

(* Until something is reclaimed the file names the run that works, so        *)
(* release removes no lease but its own (store.ts releaseLease).             *)
THEOREM HolderAlwaysNamed == Spec => []HolderIsNamed
<1>1. LeaseInv => HolderIsNamed
  BY DEF LeaseInv, Named, HolderIsNamed, In, Holding, Active, Releasing
<1> QED
  BY <1>1, InvInit, InvStep, PTL DEF Spec

(* A refusal, an end or a failure leaves no lease in the name of its run     *)
(* (store.ts releaseLease in the finally of kernel.ts continueWithWorkItem). *)
THEOREM NoLeaseIsLeftBehind == Spec => []NoLeaseLeftBehind
<1>1. LeaseInv => NoLeaseLeftBehind
  BY DEF LeaseInv
<1> QED
  BY <1>1, InvInit, InvStep, PTL DEF Spec
=============================================================================
