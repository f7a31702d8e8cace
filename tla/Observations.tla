---------------------------- MODULE Observations ----------------------------
(***************************************************************************)
(* discovery/src/session.ts, assertions.ts, probe.ts and                   *)
(* probes/observation.ts: a probe session, what one observation of it may  *)
(* come to, and the assertions a probe makes of what it observed.          *)
(*                                                                         *)
(* A value an operation answers with is a list, a record or an atom, each  *)
(* tagged, since what a probe reads depends on the shape it is given.  The *)
(* answers themselves are AdapterOperations'.                              *)
(***************************************************************************)
EXTENDS AdapterOperations

(* Two maps in one; of a key that both have, the first says what is held.    *)
f ++ g == [k \in DOMAIN f \union DOMAIN g |-> IF k \in DOMAIN f THEN f[k] ELSE g[k]]
Only(k, v) == [x \in {k} |-> v]

(* An assertion: what is held of a subject, how firmly, why not when it is   *)
(* not, and the evidence for it.  value is <<>> when there is none.          *)
Assertion(conf, reason, value, ev) ==
  [conf |-> conf, reason |-> reason, value |-> value, ev |-> ev]

Rank == [UNKNOWN |-> 0, INFERENCE |-> 1, FACT |-> 2]

Known(a) == a.conf # "UNKNOWN"
Unknown(reason) == Assertion("UNKNOWN", reason, <<>>, {})

(* Everything noAccess and unreachable record is the reason UNAVAILABLE: the *)
(* state of the source that did not answer is in the text alone.             *)
NoAccess == Unknown("UNAVAILABLE")
Insufficient == Unknown("INSUFFICIENT_EVIDENCE")
NotComputed == Unknown("NOT_COMPUTED")
NotApplicable == Unknown("NOT_APPLICABLE")

(* Most operations are asked without an argument; and a listing of pull      *)
(* requests may be asked of no branch.                                       *)
NoArg == ""
AnyBranch == FALSE

(* Evidence is what was asked, of what, and when; asked again at the same    *)
(* time it is the same evidence.                                             *)
Asked(op, arg, at) == <<op, arg, at>>
Reproducible(e) == e[1] \notin Unrepeatable

(* A fact needs evidence that can be executed again.                         *)
ObservedFact(v, ev) ==
  Assertion(IF \E e \in ev : Reproducible(e) THEN "FACT" ELSE "INFERENCE", "", <<v>>, ev)

Derived(v, ev) == Assertion("INFERENCE", "", <<v>>, ev)

(* Mutant: what a probe says last stands, whatever it rests on.              *)
PromoteAlways(before, next) == next

(* Mutant: what was held firmly stays, whatever a later look finds.          *)
PromoteFirmest(before, next) ==
  IF \/ Rank[next.conf] > Rank[before.conf] /\ next.ev \subseteq before.ev
     \/ Rank[next.conf] < Rank[before.conf]
  THEN before
  ELSE next

(* promote: an assertion may rise in confidence only on evidence the one     *)
(* before it did not have; otherwise that one stands.                        *)
Promote(before, next) ==
  IF Rank[next.conf] > Rank[before.conf] /\ next.ev \subseteq before.ev
  THEN before
  ELSE next

-----------------------------------------------------------------------------
(* A session: the world it looks at, the availability of the adapters as it  *)
(* was when the suite was built, the time, and what has happened in it.      *)
NewSession(w, availability, now) ==
  [world |-> w, availability |-> availability, now |-> now,
   calls |-> 0, refusals |-> {}, abortedBy |-> "",
   seen |-> [ok |-> FALSE]]

Unseen(s) == [s EXCEPT !.seen = [ok |-> FALSE]]

(* ProbeSession.observe calls an operation unless the session was aborted,   *)
(* the adapter is not available, or offers no such operation.                *)
MayAsk(s, op) ==
  /\ s.abortedBy = ""
  /\ s.availability[AdapterOf[op]] = "AVAILABLE"
  /\ op \in Registered

(* asAssertion, asAssertionMap: an answer that is an assertion is unwrapped, *)
(* and an UNKNOWN is no observation at all; a map of assertions keeps the    *)
(* ones that are known.                                                      *)
Unwrapped(a) ==
  CASE a.how = "map" -> Rec([k \in {k \in DOMAIN a.map : a.map[k].how \in Answering}
                              |-> a.map[k].value])
    [] OTHER -> a.value

(* One observation: the session after it, with what was seen.  It is asked   *)
(* of the adapter that registers the operation.                              *)
Answered(s, op, arg, a) ==
  IF ~MayAsk(s, op) THEN Unseen(s)
  ELSE [s EXCEPT !.calls = @ + 1,
                 !.refusals = IF a.how \in {"refused", "violation"} THEN @ \union {op} ELSE @,
                 !.abortedBy = IF a.how = "violation" THEN op ELSE @,
                 !.seen = IF a.how \in Answering \union {"map"}
                          THEN [ok |-> TRUE, value |-> Unwrapped(a),
                                ev |-> Asked(op, arg, s.now)]
                          ELSE [ok |-> FALSE]]

Observe(s, op, arg, answer) == Answered(s, op, arg, OrFault(s.world, op, answer))

ObserveGit(s, op, arg) == Observe(s, op, arg, GitAnswer(s.world, op, arg))
ObservePm(s, op, arg) == Observe(s, op, arg, PmAnswer(s.world, op, arg))
ObserveRuntime(s, op, arg) == Observe(s, op, arg, RuntimeAnswer(s.world, op, arg))
ObserveHost(s, op) == Observe(s, op, NoArg, HostAnswer(s.world, op))
ObserveRepo(s, op, arg) == Observe(s, op, arg, RepoAnswer(s.world, op, arg))

(* ProbeSession.classify: none once aborted; every probe answers fail-closed *)
(* when it cannot establish.                                                 *)
Classify(s, kind, subject) ==
  IF s.abortedBy # "" THEN <<>> ELSE <<Classification(s.world, kind, subject)>>

-----------------------------------------------------------------------------
(* What a probe reads of a value: records of a list and of nothing else,     *)
(* paths of a list or of a listing record, a field of a record.              *)
Records(v) == IF "list" \in DOMAIN v THEN v.list ELSE {}

HasField(v, f) == "rec" \in DOMAIN v /\ f \in DOMAIN v.rec
Field(v, f, otherwise) == IF HasField(v, f) THEN v.rec[f] ELSE otherwise

ListedPaths(v) ==
  IF "list" \in DOMAIN v THEN v.list
  ELSE IF HasField(v, "entries") THEN Records(v.rec.entries)
  ELSE {}
=============================================================================
