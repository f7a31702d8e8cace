---------------------------- MODULE RealityProbes ----------------------------
(***************************************************************************)
(* discovery/src/probes/reality.ts: the probe of each element of Current   *)
(* Reality.  A probe makes its observations one after another in a session *)
(* and answers with one assertion.  Every probe looks the branch and the   *)
(* pull request up for itself.                                             *)
(*                                                                         *)
(* in is what a probe is given: whether there is a work item, whether its  *)
(* scope names paths, whether a tracker knows it.  An admitted item always *)
(* has identity tokens, being named by its own id.                         *)
(***************************************************************************)
EXTENDS Observations

Elements == {"implementation_present", "tests_present", "pr", "ci", "reviews",
             "merge_state", "deployment", "outcome_evidence", "children",
             "agentos_history"}

(* What a probe comes to: the session after it, what it asserts, and whether *)
(* what it looks at was there to be looked at.                               *)
Asserts(s, a) == [s |-> s, a |-> a, available |-> a # NoAccess]
Unavailable(s, a) == [s |-> s, a |-> a, available |-> FALSE]
Value(s) == s.seen.value
Evidence(s) == IF s.seen.ok THEN {s.seen.ev} ELSE {}

-----------------------------------------------------------------------------
(* lookupBranch: the branch an identity token is in, and the default one.    *)
BranchAmong(t, in) ==
  [s |-> t, failed |-> ~t.seen.ok, ev |-> Evidence(t),
   branch |-> t.seen.ok /\ in.item /\ \E b \in Records(Value(t)) : b.name = "work",
   base |-> t.seen.ok /\ \E b \in Records(Value(t)) : b.default]

LookupBranch(s, in) == BranchAmong(ObserveGit(s, "git.list_branches", NoArg), in)

PrRank(p) == CASE p.state = "OPEN" -> 0 [] p.state = "MERGED" -> 1 [] OTHER -> 2

(* What the listing said, under what reading it alone adds.                  *)
Merged(listed, full) ==
  [full EXCEPT !.state = IF @ = "" THEN listed.state ELSE @]

NoPr == [id |-> "", state |-> "", sha |-> "", mergeSha |-> "", head |-> "",
         base |-> FALSE, names |-> FALSE]

(* Mutant: a listing that failed lists nothing.                              *)
LookupPullRequestSilent(s, in) ==
  LET lb == LookupBranch(s, in)
      t  == ObserveGit(lb.s, "git.list_prs", lb.branch)
      candidates == IF ~t.seen.ok THEN {}
                    ELSE {p \in Records(Value(t)) : in.item /\ p.names}
      chosen == CHOOSE p \in candidates : \A q \in candidates : PrRank(p) <= PrRank(q)
  IN IF lb.failed
     THEN [s |-> lb.s, failed |-> TRUE, found |-> FALSE, pr |-> NoPr, ev |-> {}]
     ELSE [s |-> t, failed |-> FALSE, found |-> candidates # {},
           pr |-> IF candidates = {} THEN NoPr ELSE chosen, ev |-> lb.ev \union Evidence(t)]

(* lookupPullRequest: of the pull requests of the branch, or that carry an   *)
(* identity token, the open one first, then the merged one; read one by one  *)
(* for what a listing leaves out, when that answers.                         *)
ReadAlone(lb, t, chosen, u) ==
  IF chosen.id # "" /\ u.seen.ok
  THEN [s |-> u, failed |-> FALSE, found |-> TRUE, pr |-> Merged(chosen, Value(u).rec.pr),
        ev |-> lb.ev \union Evidence(t) \union Evidence(u)]
  ELSE [s |-> IF chosen.id = "" THEN t ELSE u, failed |-> FALSE, found |-> TRUE,
        pr |-> chosen, ev |-> lb.ev \union Evidence(t)]

AmongListed(lb, t, in) ==
  LET candidates == {p \in Records(Value(t)) :
                       (lb.branch /\ p.head = "work") \/ (in.item /\ p.names)}
      chosen == CHOOSE p \in candidates : \A q \in candidates : PrRank(p) <= PrRank(q)
  IN CASE lb.failed ->
            [s |-> lb.s, failed |-> TRUE, found |-> FALSE, pr |-> NoPr, ev |-> {}]
       [] ~lb.failed /\ ~t.seen.ok ->
            [s |-> t, failed |-> TRUE, found |-> FALSE, pr |-> NoPr, ev |-> lb.ev]
       [] ~lb.failed /\ t.seen.ok /\ candidates = {} ->
            [s |-> t, failed |-> FALSE, found |-> FALSE, pr |-> NoPr,
             ev |-> lb.ev \union Evidence(t)]
       [] OTHER -> ReadAlone(lb, t, chosen, ObserveGit(t, "git.read_pr", chosen.id))

WithBranch(lb, in) == AmongListed(lb, ObserveGit(lb.s, "git.list_prs", lb.branch), in)
LookupPullRequest(s, in) == WithBranch(LookupBranch(s, in), in)

-----------------------------------------------------------------------------
(* implementationProbe: commits of the item's branch, or of HEAD.            *)
ImplementationOf(lb, in) ==
  LET t  == ObserveGit(lb.s, "git.log",
                       [ref |-> IF lb.branch THEN "work" ELSE "HEAD",
                        not |-> lb.branch /\ lb.base, paths |-> in.scope, tokens |-> in.item])
  IN CASE lb.failed -> Asserts(lb.s, NoAccess)
       [] ~lb.failed /\ ~lb.branch /\ ~in.scope /\ ~in.item -> Asserts(lb.s, Insufficient)
       [] OTHER -> Asserts(t, IF ~t.seen.ok THEN NoAccess
                              ELSE ObservedFact(Records(Value(t)) # {}, lb.ev \union Evidence(t)))

ImplementationProbe(s, in) == ImplementationOf(LookupBranch(s, in), in)

(* testsProbe: no test files is a fact; that there are any is not one until  *)
(* a run of them at the head was seen to finish.                             *)
TestsSeen(t, lp) ==
  LET u  == ObserveGit(lp.s, "git.ci_status", lp.pr.sha)
      finished == {r \in Records(Field(Value(u), "runs", Value(u))) : r.status = "COMPLETED"}
  IN CASE ~t.seen.ok -> Asserts(t, NoAccess)
       [] t.seen.ok /\ ListedPaths(Value(t)) = {} ->
            Asserts(t, ObservedFact(FALSE, Evidence(t)))
       [] OTHER ->
            IF lp.pr.sha = "" THEN Asserts(lp.s, Insufficient)
            ELSE IF ~u.seen.ok \/ finished = {} THEN Asserts(u, Insufficient)
            ELSE Asserts(u, ObservedFact(TRUE, Evidence(t) \union lp.ev \union Evidence(u)))

TestsOf(t, in) == TestsSeen(t, LookupPullRequest(t, in))
TestsProbe(s, in) == TestsOf(ObserveRepo(s, "repo.list_paths", {"tests"}), in)

(* prProbe: none found is a value of its own, and only of a search.          *)
PrOf(lp) ==
  Asserts(lp.s,
    IF lp.failed THEN NoAccess
    ELSE ObservedFact([exists |-> lp.found, state |-> lp.pr.state, sha |-> lp.pr.sha], lp.ev))

PrProbe(s, in) == PrOf(LookupPullRequest(s, in))

(* What the runs at one head say together.                                   *)
CiResult(runs) ==
  CASE runs = {} -> "NONE"
    [] \E r \in runs : r.status # "COMPLETED" -> "PENDING"
    [] runs # {} /\ \A r \in runs :
         r.status = "COMPLETED" /\ r.conclusion \in {"SUCCESS", "NEUTRAL", "SKIPPED"} -> "GREEN"
    [] \E r \in runs : r.conclusion = "" /\ \A q \in runs : q.status = "COMPLETED"
         -> "INDETERMINATE"
    [] OTHER -> "RED"

(* ciProbe: of the head of the proposed change.  A repository that declares  *)
(* no pipeline has no result to read.                                        *)
CiOf(lp) ==
  LET t  == ObserveGit(lp.s, "git.ci_status", lp.pr.sha)
      u  == ObserveRepo(t, "repo.list_paths", {"ci"})
      runs == Records(Field(Value(t), "runs", Value(t)))
  IN CASE lp.failed -> Asserts(lp.s, NoAccess)
       [] ~lp.failed /\ lp.pr.sha = "" -> Asserts(lp.s, Insufficient)
       [] ~lp.failed /\ lp.pr.sha # "" /\ ~t.seen.ok ->
            Asserts(u, IF u.seen.ok /\ ListedPaths(Value(u)) = {} THEN NotApplicable
                       ELSE NoAccess)
       [] OTHER -> Asserts(t, ObservedFact([result |-> CiResult(runs), sha |-> lp.pr.sha],
                                           lp.ev \union Evidence(t)))

CiProbe(s, in) == CiOf(LookupPullRequest(s, in))

NoReviews == [approved |-> FALSE, unresolved |-> 0, sha |-> ""]
OfHead(sha, head) == sha = "" \/ head = "" \/ sha = head

(* reviewsProbe: an approval counts at the head it was given for, or when it *)
(* does not say which; so does a thread that is unresolved.                  *)
ReviewsOf(lp) ==
  LET t  == ObserveGit(lp.s, "git.list_reviews", lp.pr.id)
      reviews == Records(Field(Value(t), "reviews", Value(t)))
      threads == Records(Field(Value(t), "threads", List({})))
  IN CASE lp.failed -> Asserts(lp.s, NoAccess)
       [] ~lp.failed /\ ~lp.found ->
            Asserts(lp.s, ObservedFact(NoReviews, lp.ev))
       [] lp.found /\ lp.pr.id = "" -> Asserts(lp.s, Insufficient)
       [] OTHER ->
            Asserts(t, IF ~t.seen.ok THEN NoAccess
              ELSE ObservedFact(
                [approved |-> \E r \in reviews : r.state = "APPROVED" /\ OfHead(r.sha, lp.pr.sha),
                 unresolved |-> Cardinality({h \in threads : /\ ~h.resolved
                                                             /\ OfHead(h.sha, lp.pr.sha)}),
                 sha |-> lp.pr.sha],
                lp.ev \union Evidence(t)))

ReviewsProbe(s, in) == ReviewsOf(LookupPullRequest(s, in))

(* mergeStateProbe: the state the host's record or the pull request states.  *)
(* A local inference of reachability names no state, so the pull request's   *)
(* own is taken; it is all there is when the operation does not answer.      *)
MergeStateOf(lp) ==
  LET t  == ObserveGit(lp.s, "git.merge_state", lp.pr)
      askable == lp.pr.head # "" \/ lp.pr.sha # "" \/ lp.pr.base \/ lp.pr.id # ""
      own == IF lp.pr.state = "" THEN Insufficient ELSE Derived(lp.pr.state, lp.ev)
      hosted == Field(Value(t), "state", "")
  IN CASE lp.failed -> Asserts(lp.s, NoAccess)
       [] ~lp.failed /\ ~lp.found -> Asserts(lp.s, ObservedFact("NOT_PROPOSED", lp.ev))
       [] lp.found /\ ~askable -> Asserts(lp.s, own)
       [] OTHER ->
            Asserts(t,
              IF ~t.seen.ok
              THEN IF lp.pr.state = "" THEN NoAccess ELSE own
              ELSE ObservedFact(IF hosted = "" THEN lp.pr.state ELSE hosted,
                                lp.ev \union Evidence(t)))

MergeStateProbe(s, in) == MergeStateOf(LookupPullRequest(s, in))

(* Each of several names asked of the runtime, one after another: the        *)
(* session after the last, and what was seen of each.                        *)
AskEach(s, op, names) ==
  FoldSet(LAMBDA n, acc :
            LET t == ObserveRuntime(acc.s, op, n) IN
            [s |-> t, seen |-> [acc.seen EXCEPT ![n] = t.seen]],
          [s |-> s, seen |-> [n \in names |-> [ok |-> FALSE]]], names)

EvidenceOfEach(seen) == {seen[n].ev : n \in {n \in DOMAIN seen : seen[n].ok}}

(* The environments that run a revision sought, the ones that did not        *)
(* answer, and the evidence of the others.                                   *)
Deployments(s, names, wanted) ==
  LET asked == AskEach(s, "runtime.deployed_version", names)
      sha(n) == Field(asked.seen[n].value, "sha", Atom("")).atom
  IN [s |-> asked.s,
      running |-> {n \in names : asked.seen[n].ok /\ sha(n) \in wanted},
      dark |-> {n \in names : ~asked.seen[n].ok},
      ev |-> EvidenceOfEach(asked.seen)]

(* deploymentProbe: environments that did not answer make it insufficient    *)
(* evidence, unless the change was seen in one that did.                     *)
DeploymentSeen(t, lp) ==
  LET wanted == {lp.pr.sha, lp.pr.mergeSha} \ {""}
      d  == Deployments(lp.s, {e.name : e \in Records(Value(t))}, wanted)
  IN CASE ~t.seen.ok -> Asserts(t, NoAccess)
       [] t.seen.ok /\ wanted = {} -> Asserts(lp.s, Insufficient)
       [] OTHER -> IF d.dark # {} /\ d.running = {} THEN Unavailable(d.s, Insufficient)
                   ELSE Asserts(d.s, ObservedFact(d.running,
                                       Evidence(t) \union lp.ev \union d.ev))

DeploymentOf(t, in) == DeploymentSeen(t, LookupPullRequest(t, in))
DeploymentProbe(s, in) == DeploymentOf(ObserveRuntime(s, "runtime.list_environments", NoArg), in)

OutcomeProbe(s, in) ==
  LET t == ObserveRuntime(s, "runtime.outcome_evidence", NoArg)
      holds == Field(Value(t), "holds", Atom("unstated")).atom IN
  IF ~in.item THEN Asserts(s, NotComputed)
  ELSE Asserts(t, IF ~t.seen.ok THEN NoAccess
                  ELSE IF holds = "unstated" THEN Insufficient
                  ELSE ObservedFact(holds = "yes", Evidence(t)))

(* Mutant: a source that did not answer holds no children.                   *)
ChildrenProbeSure(s, in) ==
  LET t == ObserveHost(s, "host.read_child_work_items")
      u == IF in.external THEN ObservePm(t, "pm.list_children", NoArg) ELSE Unseen(t)
      ev == Evidence(t) \union Evidence(u)
      of(x) == IF x.seen.ok THEN {c.work_item_id : c \in Records(Value(x))} ELSE {}
  IN IF ~in.item THEN Asserts(s, NotComputed)
     ELSE Asserts(u, IF ev = {} THEN NoAccess ELSE ObservedFact(of(t) \union of(u), ev))

(* childrenProbe: the union of the ledger's children and of the tracker's, a *)
(* fact only when every source there is answered.                            *)
ChildrenProbe(s, in) ==
  LET t == ObserveHost(s, "host.read_child_work_items")
      u == IF in.external THEN ObservePm(t, "pm.list_children", NoArg) ELSE Unseen(t)
      ev == Evidence(t) \union Evidence(u)
      of(x) == IF x.seen.ok THEN {c.work_item_id : c \in Records(Value(x))} ELSE {}
      unread == ~t.seen.ok \/ (in.external /\ ~u.seen.ok)
  IN IF ~in.item THEN Asserts(s, NotComputed)
     ELSE Asserts(u, CASE ev = {} -> NoAccess
                       [] ev # {} /\ unread -> Derived(of(t) \union of(u), ev)
                       [] OTHER -> ObservedFact(of(t) \union of(u), ev))

(* historyProbe and stageNames: the prior runs, and the stages each          *)
(* completed.                                                                *)
HistoryProbe(s, in) ==
  LET t == ObserveHost(s, "host.read_run_history") IN
  IF ~in.item THEN Asserts(s, NotComputed)
  ELSE Asserts(t, IF ~t.seen.ok THEN NoAccess
                  ELSE ObservedFact({r.stages : r \in Records(Value(t))}, Evidence(t)))

(* realityProbeFor: the one probe that writes an element.                    *)
RealityProbe(s, element, in) ==
  CASE element = "implementation_present" -> ImplementationProbe(s, in)
    [] element = "tests_present" -> TestsProbe(s, in)
    [] element = "pr" -> PrProbe(s, in)
    [] element = "ci" -> CiProbe(s, in)
    [] element = "reviews" -> ReviewsProbe(s, in)
    [] element = "merge_state" -> MergeStateProbe(s, in)
    [] element = "deployment" -> DeploymentProbe(s, in)
    [] element = "outcome_evidence" -> OutcomeProbe(s, in)
    [] element = "children" -> ChildrenProbe(s, in)
    [] element = "agentos_history" -> HistoryProbe(s, in)
=============================================================================
