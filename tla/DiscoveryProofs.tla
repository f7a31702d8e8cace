--------------------------- MODULE DiscoveryProofs ---------------------------
(***************************************************************************)
(* What a package says is so: proofs over Discovery.                       *)
(***************************************************************************)
EXTENDS Discovery, FiniteSetTheorems, WellFoundedInduction, TLAPS

-----------------------------------------------------------------------------
(* Sessions: what an observation keeps, and what it comes to.                *)
SessionFields == {"world", "availability", "now", "calls", "refusals", "abortedBy", "seen"}

(* A session, what it saw last being of its own time; and t is one after s.  *)
Dated(s) == SessionFields \subseteq DOMAIN s /\ (s.seen.ok => s.seen.ev[3] = s.now)
After(t, s) == Dated(t) /\ t.world = s.world /\ t.now = s.now

(* Evidence some of which is of a time.                                      *)
Fresh(ev, at) == \E x \in ev : x[3] = at

LEMMA SeenIsFresh ==
  \A t, s : After(t, s) /\ t.seen.ok => Fresh(Evidence(t), s.now)
BY DEF After, Dated, Fresh, Evidence

LEMMA FreshOfMore ==
  \A x, y, at : Fresh(x, at) => Fresh(x \union y, at) /\ Fresh(y \union x, at)
BY DEF Fresh

LEMMA NewSessionDated ==
  \A w, availability, at : /\ Dated(NewSession(w, availability, at))
                           /\ NewSession(w, availability, at).world = w
                           /\ NewSession(w, availability, at).now = at
BY DEF NewSession, Dated, SessionFields

LEMMA AnsweredAfter ==
  ASSUME NEW s, Dated(s), NEW op, NEW arg, NEW a
  PROVE  After(Answered(s, op, arg, a), s)
<1>1. CASE ~MayAsk(s, op)
  BY <1>1 DEF Answered, After, Dated, SessionFields, Unseen
<1>2. CASE MayAsk(s, op)
  <2>1. Asked(op, arg, s.now)[3] = s.now
    BY DEF Asked
  <2> QED
    BY <1>2, <2>1 DEF Answered, After, Dated, SessionFields, MayAsk
<1> QED
  BY <1>1, <1>2

(* Whatever is asked, the session after is one, of the same world.           *)
LEMMA ObserveAfter ==
  \A s : Dated(s) =>
    /\ \A op, arg : /\ After(ObserveGit(s, op, arg), s)
                    /\ After(ObservePm(s, op, arg), s)
                    /\ After(ObserveRuntime(s, op, arg), s)
                    /\ After(ObserveRepo(s, op, arg), s)
    /\ \A op : After(ObserveHost(s, op), s)
    /\ After(Unseen(s), s) /\ After(s, s)
<1> SUFFICES ASSUME NEW s, Dated(s)
             PROVE  /\ \A op, arg : /\ After(ObserveGit(s, op, arg), s)
                                    /\ After(ObservePm(s, op, arg), s)
                                    /\ After(ObserveRuntime(s, op, arg), s)
                                    /\ After(ObserveRepo(s, op, arg), s)
                    /\ \A op : After(ObserveHost(s, op), s)
                    /\ After(Unseen(s), s) /\ After(s, s)
  OBVIOUS
<1>1. After(Unseen(s), s) /\ After(s, s)
  BY DEF Unseen, After, Dated, SessionFields
<1>2. ASSUME NEW op, NEW arg
      PROVE  /\ After(ObserveGit(s, op, arg), s)
             /\ After(ObservePm(s, op, arg), s)
             /\ After(ObserveRuntime(s, op, arg), s)
             /\ After(ObserveRepo(s, op, arg), s)
  BY AnsweredAfter DEF ObserveGit, ObservePm, ObserveRuntime, ObserveRepo, Observe
<1>3. ASSUME NEW op
      PROVE  After(ObserveHost(s, op), s)
  BY AnsweredAfter DEF ObserveHost, Observe
<1> QED
  BY <1>1, <1>2, <1>3

(* What was seen is what was answered, unwrapped: not a fault, and neither   *)
(* an unknown nor something thrown.                                          *)
SeenOf(seen, answer) == seen.ok => /\ answer.how \in Answering \union {"map"}
                                   /\ seen.value = Unwrapped(answer)

LEMMA SeenIsAnswered ==
  ASSUME NEW s, Dated(s), NEW op, NEW arg, NEW answer,
         s.world.faults.how \in {"refused", "violation", "threw"}
  PROVE  SeenOf(Observe(s, op, arg, answer).seen, answer)
<1> DEFINE a == OrFault(s.world, op, answer)
<1>1. SeenOf(Answered(s, op, arg, a).seen, a)
  BY DEF Answered, Unseen, Dated, SessionFields, SeenOf
<1>2. Answered(s, op, arg, a).seen.ok => a = answer
  BY <1>1 DEF SeenOf, OrFault, Answering
<1> QED
  BY <1>1, <1>2 DEF Observe, SeenOf

LEMMA ObserveTells ==
  \A s : Dated(s) /\ Consistent(s.world) =>
    /\ \A op, arg : /\ SeenOf(ObserveGit(s, op, arg).seen, GitAnswer(s.world, op, arg))
                    /\ SeenOf(ObservePm(s, op, arg).seen, PmAnswer(s.world, op, arg))
                    /\ SeenOf(ObserveRuntime(s, op, arg).seen, RuntimeAnswer(s.world, op, arg))
                    /\ SeenOf(ObserveRepo(s, op, arg).seen, RepoAnswer(s.world, op, arg))
    /\ \A op : SeenOf(ObserveHost(s, op).seen, HostAnswer(s.world, op))
<1> SUFFICES ASSUME NEW s, Dated(s), Consistent(s.world)
             PROVE  /\ \A op, arg :
                         /\ SeenOf(ObserveGit(s, op, arg).seen, GitAnswer(s.world, op, arg))
                         /\ SeenOf(ObservePm(s, op, arg).seen, PmAnswer(s.world, op, arg))
                         /\ SeenOf(ObserveRuntime(s, op, arg).seen,
                                   RuntimeAnswer(s.world, op, arg))
                         /\ SeenOf(ObserveRepo(s, op, arg).seen, RepoAnswer(s.world, op, arg))
                    /\ \A op : SeenOf(ObserveHost(s, op).seen, HostAnswer(s.world, op))
  OBVIOUS
<1>1. s.world.faults.how \in {"refused", "violation", "threw"}
  BY DEF Consistent
<1> QED
  BY <1>1, SeenIsAnswered DEF ObserveGit, ObservePm, ObserveRuntime, ObserveRepo, ObserveHost

(* What an operation answers with is what there is, or that the resource is  *)
(* absent; anything else is no answer.                                       *)
LEMMA Unwraps ==
  \A v : Unwrapped(Fact(v)) = v /\ Unwrapped(Inference(v)) = v /\ Unwrapped(Plain(v)) = v
BY DEF Unwrapped, Fact, Inference, Plain

LEMMA NoAnswer ==
  /\ \A reason : None(reason).how \notin Answering \union {"map"}
  /\ Threw.how \notin Answering \union {"map"}
BY DEF None, Threw, Answering

LEMMA ReachAnswers ==
  \A w, state, resource, v :
    Reach(w, state, resource, v).how \in Answering \union {"map"} =>
      Unwrapped(Reach(w, state, resource, v))
        = IF resource \in w.absent THEN Not_Present ELSE v
BY Unwraps, NoAnswer DEF Reach

LEMMA ViaHostAnswers ==
  \A w, resource, v :
    ViaHost(w, resource, v).how \in Answering \union {"map"} =>
      Unwrapped(ViaHost(w, resource, v)) = IF resource \in w.absent THEN Not_Present ELSE v
BY Unwraps, NoAnswer DEF ViaHost

LEMMA GitAnswers ==
  \A w, v : Git(w, v).how \in Answering \union {"map"} => Unwrapped(Git(w, v)) = v
BY Unwraps, NoAnswer DEF Git

-----------------------------------------------------------------------------
(* Several names asked one after another.                                    *)
LEMMA LeastNumber ==
  ASSUME NEW S \in SUBSET Nat, S # {}
  PROVE  \E i \in S : \A j \in S : i <= j
<1> DEFINE Below == OpToRel(<, Nat)
<1>1. IsWellFoundedOn(Below, Nat)
  BY NatLessThanWellFounded
<1>2. PICK i \in S : \A j \in S : <<j, i>> \notin Below
  <2> HIDE DEF Below
  <2> QED
    BY <1>1, WFMin
<1>3. \A j \in S : ~(j < i)
  BY <1>2 DEF OpToRel
<1> QED
  BY <1>3

(* The fold of AskEach, by its first and its next name.                      *)
NoneAsked(s, names) == [s |-> s, seen |-> [n \in names |-> [ok |-> FALSE]]]
AskOne(op, n, acc) ==
  LET t == ObserveRuntime(acc.s, op, n) IN [s |-> t, seen |-> [acc.seen EXCEPT ![n] = t.seen]]
NameOf(m) == CHOOSE n \in m : TRUE
Answers(s, op, names, f, m) ==
  IF m = {} THEN NoneAsked(s, names) ELSE AskOne(op, NameOf(m), f[m \ {NameOf(m)}])
Asking1(s, op, names, f) == [m \in SUBSET names |-> Answers(s, op, names, f, m)]

(* What was answered about the names among m, as far as it was asked.        *)
Told(acc, s, op, names, m) ==
  /\ After(acc.s, s)
  /\ DOMAIN acc.seen = names
  /\ \A n \in m : SeenOf(acc.seen[n], RuntimeAnswer(s.world, op, n))

LEMMA Unfold ==
  ASSUME NEW s, NEW op, NEW names
  PROVE  AskEach(s, op, names) = (CHOOSE f : f = Asking1(s, op, names, f))[names]
BY DEF AskEach, FoldSet, MapThenFoldSet, Asking1, Answers, NameOf, NoneAsked, AskOne

(* Less one of its names, a set of them is smaller.                          *)
LEMMA OneLess ==
  ASSUME NEW names, IsFiniteSet(names), NEW m \in SUBSET names, m # {}
  PROVE  /\ NameOf(m) \in m
         /\ m \ {NameOf(m)} \in SUBSET names
         /\ Cardinality(m) \in Nat /\ Cardinality(m) > 0
         /\ Cardinality(m \ {NameOf(m)}) = Cardinality(m) - 1
<1>1. NameOf(m) \in m
  BY DEF NameOf
<1>2. IsFiniteSet(m)
  BY FS_Subset
<1>3. Cardinality(m) \in Nat /\ Cardinality(m) # 0
  BY <1>2, FS_CardinalityType, FS_EmptySet
<1>4. Cardinality(m \ {NameOf(m)}) = Cardinality(m) - 1
  BY <1>1, <1>2, FS_RemoveElement
<1> QED
  BY <1>1, <1>3, <1>4

(* There is a function that the fold is of.                                  *)
LEMMA FoldExists ==
  ASSUME NEW s, NEW op, NEW names, IsFiniteSet(names)
  PROVE  \E f : f = Asking1(s, op, names, f)
<1> DEFINE UpTo(k) == {m \in SUBSET names : Cardinality(m) <= k}
           Works(g, k) == \A m \in UpTo(k) : g[m] = Answers(s, op, names, g, m)
           Beyond == {k \in Nat : ~\E g : Works(g, k)}
<1>1. Beyond = {}
  <2> SUFFICES ASSUME Beyond # {}
               PROVE  FALSE
    OBVIOUS
  <2>1. PICK k \in Beyond : \A j \in Beyond : k <= j
    <3> Beyond \in SUBSET Nat
      OBVIOUS
    <3> HIDE DEF Beyond
    <3> QED
      BY LeastNumber
  <2>2. PICK g : k = 0 \/ Works(g, k - 1)
    <3>1. k # 0 => k - 1 \in Nat /\ ~(k <= k - 1)
      BY <2>1
    <3> QED
      BY <2>1, <3>1
  <2> DEFINE h == [m \in SUBSET names |-> Answers(s, op, names, g, m)]
  <2>3. ASSUME NEW m \in UpTo(k)
        PROVE  h[m] = Answers(s, op, names, h, m)
    <3>1. CASE m = {}
      BY <3>1 DEF Answers
    <3>2. CASE m # {}
      <4> DEFINE less == m \ {NameOf(m)}
      <4>1. /\ less \in SUBSET names /\ Cardinality(less) <= k - 1 /\ k # 0
        BY <3>2, OneLess
      <4>2. g[less] = Answers(s, op, names, g, less)
        BY <4>1, <2>2
      <4>3. h[less] = g[less]
        BY <4>1, <4>2
      <4>4. h[m] = Answers(s, op, names, g, m)
        OBVIOUS
      <4> HIDE DEF h
      <4> QED
        BY <3>2, <4>3, <4>4 DEF Answers
    <3> QED
      BY <3>1, <3>2
  <2>4. Works(h, k)
    BY <2>3
  <2> HIDE DEF h
  <2> QED
    BY <2>1, <2>4
<1>2. PICK g : Works(g, Cardinality(names))
  <2>1. Cardinality(names) \in Nat
    BY FS_CardinalityType
  <2> QED
    BY <1>1, <2>1
<1>3. \A m \in SUBSET names : Cardinality(m) <= Cardinality(names)
  BY FS_Subset
<1>4. \A m \in SUBSET names : g[m] = Answers(s, op, names, g, m)
  BY <1>2, <1>3
<1> DEFINE h == [m \in SUBSET names |-> g[m]]
<1>5. ASSUME NEW m \in SUBSET names
      PROVE  h[m] = Answers(s, op, names, h, m)
  <2>1. m = {} \/ h[m \ {NameOf(m)}] = g[m \ {NameOf(m)}]
    OBVIOUS
  <2>2. h[m] = g[m]
    OBVIOUS
  <2> HIDE DEF h
  <2> QED
    BY <1>4, <2>1, <2>2 DEF Answers
<1>6. h = [m \in SUBSET names |-> h[m]]
  OBVIOUS
<1> HIDE DEF h
<1>7. h = Asking1(s, op, names, h)
  BY <1>5, <1>6 DEF Asking1
<1> QED
  BY <1>7

(* What is asked of several names keeps the session, and what was seen of    *)
(* each is what the world answers about it.                                  *)
LEMMA AskEachTells ==
  ASSUME NEW s, Dated(s), NEW op, NEW names, IsFiniteSet(names),
         Consistent(s.world)
  PROVE  Told(AskEach(s, op, names), s, op, names, names)
<1>1. PICK f : f = Asking1(s, op, names, f) /\ AskEach(s, op, names) = f[names]
  BY Unfold, FoldExists
<1>2. \A m \in SUBSET names : f[m] = Answers(s, op, names, f, m)
  BY <1>1 DEF Asking1
<1> DEFINE Wrong == {m \in SUBSET names : ~Told(f[m], s, op, names, m)}
           Sizes == {Cardinality(m) : m \in Wrong}
<1>3. Wrong = {}
  <2> SUFFICES ASSUME Wrong # {}
               PROVE  FALSE
    OBVIOUS
  <2>1. Sizes \in SUBSET Nat /\ Sizes # {}
    BY FS_Subset, FS_CardinalityType
  <2>2. PICK k \in Sizes : \A j \in Sizes : k <= j
    <3> HIDE DEF Sizes
    <3> QED
      BY <2>1, LeastNumber
  <2>3. PICK m \in Wrong : Cardinality(m) = k
    OBVIOUS
  <2>4. \A o \in SUBSET names : Cardinality(o) < k => Told(f[o], s, op, names, o)
    BY <2>1, <2>2
  <2>5. m # {}
    <3>1. f[{}] = NoneAsked(s, names)
      BY <1>2 DEF Answers
    <3>2. Told(f[{}], s, op, names, {})
      BY <3>1 DEF Told, NoneAsked, After
    <3> QED
      BY <3>2
  <2> DEFINE n == NameOf(m)
             acc == f[m \ {n}]
             t == ObserveRuntime(acc.s, op, n)
  <2>6. n \in m /\ Told(acc, s, op, names, m \ {n})
    BY <2>1, <2>3, <2>4, <2>5, OneLess
  <2>7. f[m] = [s |-> t, seen |-> [acc.seen EXCEPT ![n] = t.seen]]
    BY <1>2, <2>5 DEF Answers, AskOne
  <2>8. After(acc.s, s) /\ Dated(acc.s) /\ acc.s.world = s.world
    BY <2>6 DEF Told, After
  <2>9. After(t, s)
    <3>1. After(t, acc.s)
      BY <2>8, ObserveAfter
    <3> HIDE DEF n, acc, t
    <3> QED
      BY <2>8, <3>1 DEF After
  <2>10. SeenOf(t.seen, RuntimeAnswer(s.world, op, n))
    BY <2>8, ObserveTells
  <2> HIDE DEF n, acc, t
  <2>11. Told(f[m], s, op, names, m)
    BY <2>6, <2>7, <2>9, <2>10 DEF Told
  <2> QED
    BY <2>3, <2>11
<1>4. Told(f[names], s, op, names, names)
  BY <1>3
<1> QED
  BY <1>1, <1>4

-----------------------------------------------------------------------------
(* The probes of sections: what each writes, and of what kind.               *)
IsAssertion(a) == a.conf \in {"FACT", "INFERENCE", "UNKNOWN"}
Assertions(f) == \A k \in DOMAIN f : IsAssertion(f[k])

Writes(name) ==
  CASE name = "repo.identity" -> {"repo_access", "identity", "root", "vcs", "current_branch",
                                  "default_branch", "remotes"}
    [] name = "repo.structure" -> {"structure", "ownership_files", "agent_directory",
                                   "entry_points"}
    [] name = "repo.stack" -> {"frameworks", "build_system", "package_managers", "test_runner",
                               "linters", "containers", "languages", "ecosystems", "manifests"}
    [] name = "repo.commands" -> {"commands", "build_command", "test_command", "lint_command",
                                  "run_command"}
    [] name = "repo.manifests" -> {"manifests", "manifest_paths", "lockfiles",
                                   "known_vulnerabilities"}
    [] name = "repo.configuration" -> {"configuration", "configuration_paths",
                                       "environment_files", "configuration_values"}
    [] name = "repo.conventions" -> {"conventions", "convention_files"}
    [] name = "repo.schema" -> {"stores", "schema_paths", "migration_paths",
                                "applied_migrations"}
    [] name = "repo.domain" -> {"entities", "entity_paths", "canonical_ownership"}
    [] name = "repo.sources" -> {"sources", "integration_paths", "refresh_cadence"}
    [] name = "repo.api" -> {"endpoints", "paths", "specifications", "consumers"}
    [] name = "repo.ui" -> {"surfaces", "routes", "empty_partial_stale_states"}
    [] name = "repo.tests" -> {"suites", "suite_count", "asserts_on", "coverage"}
    [] name = "repo.cicd" -> {"pipelines", "pipeline_definitions", "ci_configured", "gates"}
    [] name = "repo.deployment" -> {"deployment_definitions", "containers",
                                    "declared_environments"}
    [] name = "repo.architecture" -> {"layering", "module_tree", "boundaries_enforced"}
    [] name = "repo.documentation" -> {"documentation", "documentation_paths",
                                       "decision_records", "documentation_freshness", "purpose"}
    [] name = "git.branches" -> {"git_access", "branches", "branch_count", "protected_branches"}
    [] name = "git.commits" -> {"commits", "commit_count", "head_sha", "authors"}
    [] name = "git.worktrees" -> {"worktrees"}
    [] name = "git.tags" -> {"tags", "releases"}
    [] name = "git.churn" -> {"churn"}
    [] name = "git.pull_requests" -> {"pull_requests", "open_pull_requests", "review_patterns"}
    [] name = "pm.access" -> {"pm_access", "pm_reachable"}
    [] name = "pm.work_item" -> {"ticket", "ticket_status", "claims_completion",
                                 "linked_changes"}
    [] name = "pm.issues" -> {"issues", "epics", "milestones", "claimed_capabilities"}
    [] name = "pm.documents" -> {"external_documents", "decisions"}
    [] name = "runtime.environments" -> {"runtime_access", "environments",
                                         "declared_environments", "declared_not_observed"}
    [] name = "runtime.services" -> {"services", "service_health"}
    [] name = "runtime.data" -> {"stores", "empty_stores", "newest_record_at"}
    [] name = "runtime.logs" -> {"error_patterns", "error_count", "throughput"}
    [] name = "runtime.production" -> {"deployed_versions", "drift_from_repository",
                                       "production_environments"}
    [] name = "host.agent_capabilities" -> {"host_access", "skills", "tools", "plugins",
                                            "connectors", "connectors_unavailable",
                                            "connectors_reachable"}
    [] name = "host.model_capabilities" -> {"models", "model_count", "cost_known_for"}
    [] name = "host.authorization" -> {"operations_available", "mutating_operations",
                                       "gated_operations", "non_reversible_operations",
                                       "observation_safe_operations"}

ProbeNames == {Tier1[i] : i \in DOMAIN Tier1} \union {Tier2[i] : i \in DOMAIN Tier2}

(* The environments a section holds are finitely many.                       *)
FewEnvironments(section) ==
  "environments" \in DOMAIN section /\ Known(section["environments"])
    => IsFiniteSet(Records(section["environments"].value[1]))

Wrote(r, keys, s) ==
  /\ After(r.s, s)
  /\ DOMAIN r.asserts \subseteq keys
  /\ \A k \in DOMAIN r.asserts : IsAssertion(r.asserts[k])

LEMMA Assertive ==
  /\ \A v, ev : IsAssertion(ObservedFact(v, ev)) /\ IsAssertion(Derived(v, ev))
  /\ \A reason : IsAssertion(Unknown(reason))
  /\ IsAssertion(NoAccess) /\ IsAssertion(Insufficient) /\ IsAssertion(NotComputed)
  /\ IsAssertion(NotApplicable)
  /\ \A t, v : IsAssertion(Seen(t, v))
  /\ \A t : IsAssertion(Read(t))
  /\ \A s, adapter : IsAssertion(Access(s, adapter))
BY DEF IsAssertion, ObservedFact, Derived, Unknown, Assertion, NoAccess, Insufficient,
       NotComputed, NotApplicable, Seen, Read, Access

LEMMA AfterAfter ==
  \A t, u, s : After(t, s) /\ After(u, t) => After(u, s)
BY DEF After

(* git.ts.                                                                   *)
LEMMA BranchesProbeWrites ==
  ASSUME NEW s, Dated(s), NEW in, NEW ledger
  PROVE  Wrote(BranchesProbe(s, in, ledger),
               {"git_access", "branches", "branch_count", "protected_branches"},
               s)
BY ObserveAfter, Assertive DEF Wrote, BranchesProbe, Probed

LEMMA CommitsProbeWrites ==
  ASSUME NEW s, Dated(s), NEW in, NEW ledger
  PROVE  Wrote(CommitsProbe(s, in, ledger),
               {"commits", "commit_count", "head_sha", "authors"}, s)
BY ObserveAfter, Assertive DEF Wrote, CommitsProbe, Probed

LEMMA WorktreesProbeWrites ==
  ASSUME NEW s, Dated(s), NEW in, NEW ledger
  PROVE  Wrote(WorktreesProbe(s, in, ledger),
               {"worktrees"}, s)
BY ObserveAfter, Assertive DEF Wrote, WorktreesProbe, Probed

LEMMA TagsProbeWrites ==
  ASSUME NEW s, Dated(s), NEW in, NEW ledger
  PROVE  Wrote(TagsProbe(s, in, ledger),
               {"tags", "releases"}, s)
BY ObserveAfter, Assertive DEF Wrote, TagsProbe, Probed

LEMMA ChurnProbeWrites ==
  ASSUME NEW s, Dated(s), NEW in, NEW ledger
  PROVE  Wrote(ChurnProbe(s, in, ledger),
               {"churn"}, s)
BY ObserveAfter, Assertive DEF Wrote, ChurnProbe, Probed

LEMMA PullRequestsProbeWrites ==
  ASSUME NEW s, Dated(s), NEW in, NEW ledger
  PROVE  Wrote(PullRequestsProbe(s, in, ledger),
               {"pull_requests", "open_pull_requests", "review_patterns"}, s)
BY ObserveAfter, Assertive DEF Wrote, PullRequestsProbe, Probed

(* pm.ts.                                                                    *)
LEMMA PmAccessProbeWrites ==
  ASSUME NEW s, Dated(s), NEW in, NEW ledger
  PROVE  Wrote(PmAccessProbe(s, in, ledger),
               {"pm_access", "pm_reachable"}, s)
BY ObserveAfter, Assertive DEF Wrote, PmAccessProbe, Probed

LEMMA WorkItemTicketProbeWrites ==
  ASSUME NEW s, Dated(s), NEW in, NEW ledger
  PROVE  Wrote(WorkItemTicketProbe(s, in, ledger),
               {"ticket", "ticket_status", "claims_completion",
               "linked_changes"}, s)
<1> DEFINE t == ObservePm(s, "pm.read_issue", NoArg)
           u == ObservePm(t, "pm.list_links", NoArg)
<1>1. After(t, s)
  BY ObserveAfter
<1>2. After(u, s)
  <2>1. Dated(t)
    BY <1>1 DEF After
  <2> HIDE DEF t
  <2>2. After(u, t)
    BY <2>1, ObserveAfter
  <2> QED
    BY <1>1, <2>2, AfterAfter
<1> DEFINE status == Value(t).rec.status.atom
           asked == [ticket |-> Seen(t, Value(t)),
                     ticket_status |-> IF status = "" THEN Insufficient ELSE Seen(t, Atom(status)),
                     claims_completion |-> Derived(status \in TerminalClaims, Evidence(t)),
                     linked_changes |-> IF u.seen.ok THEN Seen(u, List(Records(Value(u))))
                                        ELSE NoAccess]
<1>3. WorkItemTicketProbe(s, in, ledger) =
        CASE ~in.external -> Probed(s, [ticket |-> NotComputed], TRUE)
          [] in.external /\ ~t.seen.ok -> Probed(t, [ticket |-> NoAccess], FALSE)
          [] OTHER -> Probed(u, asked, TRUE)
  BY DEF WorkItemTicketProbe
<1> HIDE DEF t, u, status
<1>4. /\ DOMAIN asked = {"ticket", "ticket_status", "claims_completion", "linked_changes"}
      /\ \A k \in DOMAIN asked : IsAssertion(asked[k])
  <2> DEFINE claimed == Derived(status \in TerminalClaims, Evidence(t))
             stated == IF status = "" THEN Insufficient ELSE Seen(t, Atom(status))
             linked == IF u.seen.ok THEN Seen(u, List(Records(Value(u)))) ELSE NoAccess
             read == Seen(t, Value(t))
  <2>1. IsAssertion(claimed)
    BY DEF IsAssertion, Derived, Assertion
  <2>2. IsAssertion(stated)
    BY Assertive
  <2>3. IsAssertion(linked)
    BY Assertive
  <2>4. IsAssertion(read)
    BY Assertive
  <2>5. asked = [ticket |-> read, ticket_status |-> stated, claims_completion |-> claimed,
                 linked_changes |-> linked]
    OBVIOUS
  <2> HIDE DEF claimed, stated, linked, read, asked
  <2> QED
    BY <2>1, <2>2, <2>3, <2>4, <2>5
<1> HIDE DEF asked
<1>5. CASE ~in.external
  BY <1>3, <1>5, ObserveAfter, Assertive DEF Wrote, Probed
<1>6. CASE in.external /\ ~t.seen.ok
  BY <1>1, <1>3, <1>6, Assertive DEF Wrote, Probed
<1>7. CASE in.external /\ t.seen.ok
  BY <1>2, <1>3, <1>4, <1>7 DEF Wrote, Probed
<1> QED
  BY <1>5, <1>6, <1>7

LEMMA IntentProbeWrites ==
  ASSUME NEW s, Dated(s), NEW in, NEW ledger
  PROVE  Wrote(IntentProbe(s, in, ledger),
               {"issues", "epics", "milestones", "claimed_capabilities"}, s)
BY ObserveAfter, Assertive DEF Wrote, IntentProbe, Probed, ++

LEMMA PmDocumentsProbeWrites ==
  ASSUME NEW s, Dated(s), NEW in, NEW ledger
  PROVE  Wrote(PmDocumentsProbe(s, in, ledger),
               {"external_documents", "decisions"}, s)
BY ObserveAfter, Assertive DEF Wrote, PmDocumentsProbe, Probed

(* runtime.ts.                                                               *)
LEMMA EnvironmentsProbeWrites ==
  ASSUME NEW s, Dated(s), NEW in, NEW ledger
  PROVE  Wrote(EnvironmentsProbe(s, in, ledger),
               {"runtime_access", "environments", "declared_environments",
               "declared_not_observed"}, s)
BY ObserveAfter, Assertive DEF Wrote, EnvironmentsProbe, Probed, ++

LEMMA ServicesProbeWrites ==
  ASSUME NEW s, Dated(s), NEW in, NEW ledger,
         Consistent(s.world)
  PROVE  Wrote(ServicesProbe(s, in, ledger),
               {"services", "service_health"}, s)
<1> DEFINE t == ObserveRuntime(s, "runtime.list_services", NoArg)
           h == Asking(t, "runtime.health", Records(Value(t)))
<1>1. After(t, s)
  BY ObserveAfter
<1>2. ASSUME t.seen.ok
      PROVE  IsFiniteSet(Records(Value(t)))
  <2>1. SeenOf(t.seen, RuntimeAnswer(s.world, "runtime.list_services", NoArg))
    BY ObserveTells
  <2> HIDE DEF t
  <2>2. RuntimeAnswer(s.world, "runtime.list_services", NoArg) = ListServices(s.world)
    BY DEF RuntimeAnswer
  <2>3. Value(t) = List(s.world.services) \/ Value(t) = Not_Present
    BY <1>2, <2>1, <2>2, ReachAnswers DEF SeenOf, ListServices, Value
  <2>4. Records(Value(t)) = s.world.services \/ Records(Value(t)) = {}
    BY <2>3 DEF Records, List, Not_Present, Rec
  <2> QED
    BY <2>4, FS_EmptySet DEF Consistent
<1>3. ASSUME t.seen.ok
      PROVE  After(h.s, s)
  <2>1. Dated(t) /\ Consistent(t.world)
    BY <1>1 DEF After
  <2> HIDE DEF t
  <2>2. After(h.s, t)
    BY <1>2, <1>3, <2>1, AskEachTells DEF Asking, Told
  <2> QED
    BY <1>1, <2>2, AfterAfter
<1> HIDE DEF t, h
<1> QED
  BY <1>1, <1>3, Assertive DEF t, h, Wrote, ServicesProbe, Probed

LEMMA DataProbeWrites ==
  ASSUME NEW s, Dated(s), NEW in, NEW ledger
  PROVE  Wrote(DataProbe(s, in, ledger),
               {"stores", "empty_stores", "newest_record_at"}, s)
BY ObserveAfter, Assertive DEF Wrote, DataProbe, Probed

LEMMA LogsProbeWrites ==
  ASSUME NEW s, Dated(s), NEW in, NEW ledger
  PROVE  Wrote(LogsProbe(s, in, ledger),
               {"error_patterns", "error_count", "throughput"}, s)
BY ObserveAfter, Assertive DEF Wrote, LogsProbe, Probed, ++

LEMMA ProductionProbeWrites ==
  ASSUME NEW s, Dated(s), NEW in, NEW ledger,
         FewEnvironments(ledger["runtime_state"]), Consistent(s.world)
  PROVE  Wrote(ProductionProbe(s, in, ledger),
               {"deployed_versions", "drift_from_repository",
               "production_environments"}, s)
<1> DEFINE known == Records(LedgerValue(ledger, "runtime_state", "environments"))
      names == {e.name : e \in {e \in known : e.production}}
      v == Asking(s, "runtime.deployed_version", names)
<1>1. IsFiniteSet(known)
  <2>1. CASE LedgerValue(ledger, "runtime_state", "environments") = Not_Present
    BY <2>1, FS_EmptySet DEF Records, Not_Present, Rec
  <2>2. CASE LedgerValue(ledger, "runtime_state", "environments") # Not_Present
    BY <2>2 DEF LedgerValue, FewEnvironments
  <2> QED
    BY <2>1, <2>2
<1>2. IsFiniteSet(names)
  <2> DEFINE some == {e \in known : e.production}
             name == [e \in some |-> e.name]
  <2>1. IsFiniteSet(some)
    BY <1>1, FS_Subset
  <2>2. name \in Surjection(some, names)
    BY DEF Surjection
  <2> QED
    BY <2>1, <2>2, FS_Surjection
<1>3. After(v.s, s)
  <2> HIDE DEF names
  <2> QED
    BY <1>2, AskEachTells DEF Asking, Told
<1> HIDE DEF v
<1> QED
  BY <1>3, ObserveAfter, Assertive DEF v, Wrote, ProductionProbe, Probed

(* capabilities.ts.                                                          *)
LEMMA AgentCapabilitiesProbeWrites ==
  ASSUME NEW s, Dated(s), NEW in, NEW ledger
  PROVE  Wrote(AgentCapabilitiesProbe(s, in, ledger),
               {"host_access", "skills", "tools", "plugins", "connectors",
               "connectors_unavailable", "connectors_reachable"}, s)
<1> DEFINE t == ObserveHost(s, "host.list_skills")
           u == ObserveHost(t, "host.list_tools")
           v == ObserveHost(u, "host.list_plugins")
           x == ObserveHost(v, "host.list_mcp_servers")
<1>1. After(t, s)
  BY ObserveAfter
<1>2. After(u, s)
  <2>1. Dated(t)
    BY <1>1 DEF After
  <2> HIDE DEF t
  <2>2. After(u, t)
    BY <2>1, ObserveAfter
  <2> QED
    BY <1>1, <2>2, AfterAfter
<1>3. After(v, s)
  <2>1. Dated(u)
    BY <1>2 DEF After
  <2> HIDE DEF u
  <2>2. After(v, u)
    BY <2>1, ObserveAfter
  <2> QED
    BY <1>2, <2>2, AfterAfter
<1>4. After(x, s)
  <2>1. Dated(v)
    BY <1>3 DEF After
  <2> HIDE DEF v
  <2>2. After(x, v)
    BY <2>1, ObserveAfter
  <2> QED
    BY <1>3, <2>2, AfterAfter
<1> DEFINE listed(y) == IF y.seen.ok THEN Seen(y, List(Records(Value(y)))) ELSE NoAccess
           reachable == [k \in {"connectors_reachable" : y \in {y \in {x} : y.seen.ok}}
                           |-> listed(x)]
<1>5. \A y : IsAssertion(listed(y))
  BY Assertive
<1>6. AgentCapabilitiesProbe(s, in, ledger) =
        Probed(x, [host_access |-> Access(s, "host"), skills |-> listed(t), tools |-> listed(u),
                   plugins |-> listed(v), connectors |-> listed(x),
                   connectors_unavailable |-> listed(x)] ++ reachable,
               s.availability["host"] = "AVAILABLE")
  BY DEF AgentCapabilitiesProbe
<1>7. /\ DOMAIN reachable \subseteq {"connectors_reachable"}
      /\ \A k \in DOMAIN reachable : IsAssertion(reachable[k])
  <2> HIDE DEF listed, x
  <2> QED
    BY <1>5
<1> HIDE DEF t, u, v, x, listed, reachable
<1> QED
  BY <1>4, <1>5, <1>6, <1>7, Assertive DEF Wrote, Probed, ++

LEMMA ModelCapabilitiesProbeWrites ==
  ASSUME NEW s, Dated(s), NEW in, NEW ledger
  PROVE  Wrote(ModelCapabilitiesProbe(s, in, ledger),
               {"models", "model_count", "cost_known_for"}, s)
BY ObserveAfter, Assertive DEF Wrote, ModelCapabilitiesProbe, Probed

LEMMA AuthorizationProbeWrites ==
  ASSUME NEW s, Dated(s), NEW in, NEW ledger
  PROVE  Wrote(AuthorizationProbe(s, in, ledger),
               {"operations_available", "mutating_operations",
               "gated_operations", "non_reversible_operations",
               "observation_safe_operations"}, s)
BY ObserveAfter, Assertive DEF Wrote, AuthorizationProbe, Probed

(* repository.ts.                                                            *)
LEMMA CatalogueWrites ==
  ASSUME NEW s, Dated(s), NEW kinds, NEW subject, NEW facts, NEW inferences, NEW unknowns,
         \A k \in DOMAIN unknowns : IsAssertion(unknowns[k]), NEW keys,
         {subject} \union facts \union inferences \union DOMAIN unknowns \subseteq keys
  PROVE  Wrote(Catalogue(Listing(s, kinds), subject, facts, inferences, unknowns), keys, s)
<1> DEFINE l == Listing(s, kinds)
<1>1. After(l.s, s)
  BY ObserveAfter DEF Listing, ListingOf
<1> HIDE DEF l
<1> DEFINE known == [k \in facts |-> ObservedFact(List(l.found), l.ev)]
           inferred == [k \in inferences |-> Derived(List(l.found), l.ev)]
           all == known ++ inferred ++ unknowns
           none == [k \in {subject} |-> NoAccess]
<1>2. /\ DOMAIN all \subseteq keys
      /\ \A k \in DOMAIN all : IsAssertion(all[k])
  <2>1. DOMAIN known = facts /\ \A k \in facts : IsAssertion(known[k])
    BY Assertive
  <2>2. DOMAIN inferred = inferences /\ \A k \in inferences : IsAssertion(inferred[k])
    BY Assertive
  <2> HIDE DEF known, inferred
  <2> QED
    BY <2>1, <2>2 DEF ++
<1>3. /\ DOMAIN none \subseteq keys
      /\ \A k \in DOMAIN none : IsAssertion(none[k])
  BY Assertive
<1>4. Catalogue(l, subject, facts, inferences, unknowns)
        = IF l.failed THEN Probed(l.s, none, FALSE) ELSE Probed(l.s, all, TRUE)
  BY DEF Catalogue
<1> HIDE DEF all, none
<1> QED
  BY <1>1, <1>2, <1>3, <1>4 DEF l, Wrote, Probed

LEMMA StructureProbeWrites ==
  ASSUME NEW s, Dated(s), NEW in, NEW ledger
  PROVE  Wrote(StructureProbe(s, in, ledger),
               {"structure", "ownership_files", "agent_directory",
               "entry_points"}, s)
BY CatalogueWrites, Assertive DEF StructureProbe, Gaps

LEMMA ManifestsProbeWrites ==
  ASSUME NEW s, Dated(s), NEW in, NEW ledger
  PROVE  Wrote(ManifestsProbe(s, in, ledger),
               {"manifests", "manifest_paths", "lockfiles",
               "known_vulnerabilities"}, s)
BY CatalogueWrites, Assertive DEF ManifestsProbe, Gaps

LEMMA ConfigurationProbeWrites ==
  ASSUME NEW s, Dated(s), NEW in, NEW ledger
  PROVE  Wrote(ConfigurationProbe(s, in, ledger),
               {"configuration", "configuration_paths", "environment_files",
               "configuration_values"}, s)
BY CatalogueWrites, Assertive DEF ConfigurationProbe, Gaps

LEMMA ConventionsProbeWrites ==
  ASSUME NEW s, Dated(s), NEW in, NEW ledger
  PROVE  Wrote(ConventionsProbe(s, in, ledger),
               {"conventions", "convention_files"}, s)
BY CatalogueWrites, Assertive DEF ConventionsProbe, Gaps

LEMMA SchemaProbeWrites ==
  ASSUME NEW s, Dated(s), NEW in, NEW ledger
  PROVE  Wrote(SchemaProbe(s, in, ledger),
               {"stores", "schema_paths", "migration_paths",
               "applied_migrations"}, s)
BY CatalogueWrites, Assertive DEF SchemaProbe, Gaps

LEMMA DomainProbeWrites ==
  ASSUME NEW s, Dated(s), NEW in, NEW ledger
  PROVE  Wrote(DomainProbe(s, in, ledger),
               {"entities", "entity_paths", "canonical_ownership"}, s)
BY CatalogueWrites, Assertive DEF DomainProbe, Gaps

LEMMA SourceMapProbeWrites ==
  ASSUME NEW s, Dated(s), NEW in, NEW ledger
  PROVE  Wrote(SourceMapProbe(s, in, ledger),
               {"sources", "integration_paths", "refresh_cadence"}, s)
BY CatalogueWrites, Assertive DEF SourceMapProbe, Gaps

LEMMA ApiProbeWrites ==
  ASSUME NEW s, Dated(s), NEW in, NEW ledger
  PROVE  Wrote(ApiProbe(s, in, ledger),
               {"endpoints", "paths", "specifications", "consumers"}, s)
BY CatalogueWrites, Assertive DEF ApiProbe, Gaps

LEMMA UiProbeWrites ==
  ASSUME NEW s, Dated(s), NEW in, NEW ledger
  PROVE  Wrote(UiProbe(s, in, ledger),
               {"surfaces", "routes", "empty_partial_stale_states"}, s)
BY CatalogueWrites, Assertive DEF UiProbe, Gaps

LEMMA TestFilesProbeWrites ==
  ASSUME NEW s, Dated(s), NEW in, NEW ledger
  PROVE  Wrote(TestFilesProbe(s, in, ledger),
               {"suites", "suite_count", "asserts_on", "coverage"}, s)
BY CatalogueWrites, Assertive DEF TestFilesProbe, Gaps

LEMMA CicdProbeWrites ==
  ASSUME NEW s, Dated(s), NEW in, NEW ledger
  PROVE  Wrote(CicdProbe(s, in, ledger),
               {"pipelines", "pipeline_definitions", "ci_configured", "gates"},
               s)
BY CatalogueWrites, Assertive DEF CicdProbe, Gaps

LEMMA DeploymentFilesProbeWrites ==
  ASSUME NEW s, Dated(s), NEW in, NEW ledger
  PROVE  Wrote(DeploymentFilesProbe(s, in, ledger),
               {"deployment_definitions", "containers",
               "declared_environments"}, s)
BY CatalogueWrites, Assertive DEF DeploymentFilesProbe, Gaps

LEMMA ArchitectureProbeWrites ==
  ASSUME NEW s, Dated(s), NEW in, NEW ledger
  PROVE  Wrote(ArchitectureProbe(s, in, ledger),
               {"layering", "module_tree", "boundaries_enforced"}, s)
BY CatalogueWrites, Assertive DEF ArchitectureProbe, Gaps

LEMMA DocumentationProbeWrites ==
  ASSUME NEW s, Dated(s), NEW in, NEW ledger
  PROVE  Wrote(DocumentationProbe(s, in, ledger),
               {"documentation", "documentation_paths", "decision_records",
               "documentation_freshness", "purpose"}, s)
BY CatalogueWrites, Assertive DEF DocumentationProbe, Gaps

LEMMA IdentityProbeWrites ==
  ASSUME NEW s, Dated(s), NEW in, NEW ledger
  PROVE  Wrote(IdentityProbe(s, in, ledger),
               {"repo_access", "identity", "root", "vcs", "current_branch",
               "default_branch", "remotes"}, s)
<1> DEFINE t == ObserveRepo(s, "repo.identify", NoArg)
           u == ObserveGit(t, "git.default_branch", NoArg)
           v == ObserveGit(u, "git.remotes", NoArg)
<1>1. After(t, s)
  BY ObserveAfter
<1>2. After(u, s)
  <2>1. Dated(t)
    BY <1>1 DEF After
  <2> HIDE DEF t
  <2>2. After(u, t)
    BY <2>1, ObserveAfter
  <2> QED
    BY <1>1, <2>2, AfterAfter
<1>3. After(v, s)
  <2>1. Dated(u)
    BY <1>2 DEF After
  <2> HIDE DEF u
  <2>2. After(v, u)
    BY <2>1, ObserveAfter
  <2> QED
    BY <1>2, <2>2, AfterAfter
<1> QED
  <2> DEFINE stated(field) == IF HasField(Value(t), field) THEN Seen(t, Value(t).rec[field])
                              ELSE Insufficient
             asked(x) == IF x.seen.ok THEN Seen(x, Value(x)) ELSE NoAccess
  <2>1. \A field : IsAssertion(stated(field))
    BY Assertive
  <2>2. \A x : IsAssertion(asked(x))
    BY Assertive
  <2>3. IdentityProbe(s, in, ledger) =
          IF ~t.seen.ok
          THEN Probed(t, [repo_access |-> Access(s, "repo"), identity |-> NoAccess], FALSE)
          ELSE Probed(v, [repo_access |-> Access(s, "repo"), identity |-> Seen(t, Value(t)),
                          root |-> stated("path"), vcs |-> stated("vcs"),
                          current_branch |-> stated("current_branch"),
                          default_branch |-> asked(u), remotes |-> asked(v)], TRUE)
    BY DEF IdentityProbe
  <2> HIDE DEF t, u, v, stated, asked
  <2> QED
    BY <1>1, <1>3, <2>1, <2>2, <2>3, Assertive DEF Wrote, Probed

LEMMA StackProbeWrites ==
  ASSUME NEW s, Dated(s), NEW in, NEW ledger
  PROVE  Wrote(StackProbe(s, in, ledger),
               {"frameworks", "build_system", "package_managers", "test_runner",
               "linters", "containers", "languages", "ecosystems", "manifests"},
               s)
<1> DEFINE t == ObserveRepo(s, "repo.detect_stack", NoArg)
           l == Listing(t, {"manifest"})
           census == LanguageCensus(Listing(t, Kinds))
<1>1. After(t, s) /\ After(l.s, s) /\ After(census.s, s)
  <2>1. After(t, s)
    BY ObserveAfter
  <2>2. l.s = ObserveRepo(t, "repo.list_paths", {"manifest"})
    BY DEF Listing, ListingOf
  <2>3. census.s = ObserveRepo(t, "repo.list_paths", Kinds)
    BY DEF LanguageCensus, Listing, ListingOf
  <2> HIDE DEF t, l, census
  <2>4. Dated(t)
    BY <2>1 DEF After
  <2>5. After(l.s, t) /\ After(census.s, t)
    BY <2>2, <2>3, <2>4, ObserveAfter
  <2> QED
    BY <2>1, <2>5, AfterAfter
<1>2. IsAssertion(census.a)
  BY Assertive DEF LanguageCensus
<1>3. StackProbe(s, in, ledger) = DetectedStack(t, census, l)
  BY DEF StackProbe, StackOf
<1> HIDE DEF t, l, census
<1>4. CASE t.seen.ok
  BY <1>1, <1>3, <1>2, <1>4, Assertive DEF Wrote, DetectedStack, Probed, ++
<1>5. CASE ~t.seen.ok
  BY <1>1, <1>3, <1>5, Assertive DEF Wrote, DetectedStack, Probed
<1> QED
  BY <1>4, <1>5

LEMMA CommandsProbeWrites ==
  ASSUME NEW s, Dated(s), NEW in, NEW ledger
  PROVE  Wrote(CommandsProbe(s, in, ledger),
               {"commands", "build_command", "test_command", "lint_command",
               "run_command"}, s)
BY ObserveAfter, Assertive DEF Wrote, CommandsProbe, Probed

(* The names there are probes of.                                            *)
LEMMA Tier1Names ==
  /\ DOMAIN Tier1 = 1..9
  /\ {Tier1[i] : i \in DOMAIN Tier1} =
       {"repo.identity", "repo.structure", "repo.stack", "git.branches", "git.commits",
        "pm.access", "host.agent_capabilities", "host.model_capabilities", "host.authorization"}
<1>1. DOMAIN Tier1 = 1..9
  BY DEF Tier1
<1>2. 1..9 = {1, 2, 3, 4, 5, 6, 7, 8, 9}
  OBVIOUS
<1> QED
  BY <1>1, <1>2 DEF Tier1

LEMMA Tier2Names ==
  /\ DOMAIN Tier2 = 1..26
  /\ {Tier2[i] : i \in DOMAIN Tier2} =
       {"repo.commands", "repo.manifests", "repo.configuration", "repo.conventions",
        "repo.schema", "repo.domain", "repo.sources", "repo.api", "repo.ui", "repo.tests",
        "repo.cicd", "repo.deployment", "repo.architecture", "repo.documentation",
        "git.worktrees", "git.tags", "git.churn", "git.pull_requests", "pm.work_item",
        "pm.issues", "pm.documents", "runtime.environments", "runtime.services",
        "runtime.data", "runtime.logs", "runtime.production"}
<1>1. DOMAIN Tier2 = 1..26
  BY DEF Tier2
<1>2. 1..26 = {1, 2, 3, 4, 5, 6, 7, 8, 9, 10, 11, 12, 13, 14, 15, 16, 17, 18, 19, 20, 21, 22,
               23, 24, 25, 26}
  OBVIOUS
<1> QED
  BY <1>1, <1>2 DEF Tier2

LEMMA SectionProbeWrites ==
  ASSUME NEW s, Dated(s), Consistent(s.world), NEW in, NEW ledger,
         FewEnvironments(ledger["runtime_state"]), NEW name \in ProbeNames
  PROVE  Wrote(SectionProbe(s, name, in, ledger), Writes(name), s)
<1>1. CASE name = "repo.identity"
  BY <1>1, IdentityProbeWrites DEF SectionProbe, Writes
<1>2. CASE name = "repo.structure"
  BY <1>2, StructureProbeWrites DEF SectionProbe, Writes
<1>3. CASE name = "repo.stack"
  BY <1>3, StackProbeWrites DEF SectionProbe, Writes
<1>4. CASE name = "repo.commands"
  BY <1>4, CommandsProbeWrites DEF SectionProbe, Writes
<1>5. CASE name = "repo.manifests"
  BY <1>5, ManifestsProbeWrites DEF SectionProbe, Writes
<1>6. CASE name = "repo.configuration"
  BY <1>6, ConfigurationProbeWrites DEF SectionProbe, Writes
<1>7. CASE name = "repo.conventions"
  BY <1>7, ConventionsProbeWrites DEF SectionProbe, Writes
<1>8. CASE name = "repo.schema"
  BY <1>8, SchemaProbeWrites DEF SectionProbe, Writes
<1>9. CASE name = "repo.domain"
  BY <1>9, DomainProbeWrites DEF SectionProbe, Writes
<1>10. CASE name = "repo.sources"
  BY <1>10, SourceMapProbeWrites DEF SectionProbe, Writes
<1>11. CASE name = "repo.api"
  BY <1>11, ApiProbeWrites DEF SectionProbe, Writes
<1>12. CASE name = "repo.ui"
  BY <1>12, UiProbeWrites DEF SectionProbe, Writes
<1>13. CASE name = "repo.tests"
  BY <1>13, TestFilesProbeWrites DEF SectionProbe, Writes
<1>14. CASE name = "repo.cicd"
  BY <1>14, CicdProbeWrites DEF SectionProbe, Writes
<1>15. CASE name = "repo.deployment"
  BY <1>15, DeploymentFilesProbeWrites DEF SectionProbe, Writes
<1>16. CASE name = "repo.architecture"
  BY <1>16, ArchitectureProbeWrites DEF SectionProbe, Writes
<1>17. CASE name = "repo.documentation"
  BY <1>17, DocumentationProbeWrites DEF SectionProbe, Writes
<1>18. CASE name = "git.branches"
  BY <1>18, BranchesProbeWrites DEF SectionProbe, Writes
<1>19. CASE name = "git.commits"
  BY <1>19, CommitsProbeWrites DEF SectionProbe, Writes
<1>20. CASE name = "git.worktrees"
  BY <1>20, WorktreesProbeWrites DEF SectionProbe, Writes
<1>21. CASE name = "git.tags"
  BY <1>21, TagsProbeWrites DEF SectionProbe, Writes
<1>22. CASE name = "git.churn"
  BY <1>22, ChurnProbeWrites DEF SectionProbe, Writes
<1>23. CASE name = "git.pull_requests"
  BY <1>23, PullRequestsProbeWrites DEF SectionProbe, Writes
<1>24. CASE name = "pm.access"
  BY <1>24, PmAccessProbeWrites DEF SectionProbe, Writes
<1>25. CASE name = "pm.work_item"
  BY <1>25, WorkItemTicketProbeWrites DEF SectionProbe, Writes
<1>26. CASE name = "pm.issues"
  BY <1>26, IntentProbeWrites DEF SectionProbe, Writes
<1>27. CASE name = "pm.documents"
  BY <1>27, PmDocumentsProbeWrites DEF SectionProbe, Writes
<1>28. CASE name = "runtime.environments"
  BY <1>28, EnvironmentsProbeWrites DEF SectionProbe, Writes
<1>29. CASE name = "runtime.services"
  BY <1>29, ServicesProbeWrites DEF SectionProbe, Writes
<1>30. CASE name = "runtime.data"
  BY <1>30, DataProbeWrites DEF SectionProbe, Writes
<1>31. CASE name = "runtime.logs"
  BY <1>31, LogsProbeWrites DEF SectionProbe, Writes
<1>32. CASE name = "runtime.production"
  BY <1>32, ProductionProbeWrites DEF SectionProbe, Writes
<1>33. CASE name = "host.agent_capabilities"
  BY <1>33, AgentCapabilitiesProbeWrites DEF SectionProbe, Writes
<1>34. CASE name = "host.model_capabilities"
  BY <1>34, ModelCapabilitiesProbeWrites DEF SectionProbe, Writes
<1>35. CASE name = "host.authorization"
  BY <1>35, AuthorizationProbeWrites DEF SectionProbe, Writes
<1> QED
  BY <1>1, <1>2, <1>3, <1>4, <1>5, <1>6, <1>7, <1>8, <1>9, <1>10, <1>11,
     <1>12, <1>13, <1>14, <1>15, <1>16, <1>17, <1>18, <1>19, <1>20, <1>21,
     <1>22, <1>23, <1>24, <1>25, <1>26, <1>27, <1>28, <1>29, <1>30, <1>31,
     <1>32, <1>33, <1>34, <1>35, Tier1Names, Tier2Names DEF ProbeNames

(* Of the sections, only the probe of environments writes environments, and  *)
(* finitely many of them.                                                    *)
LEMMA EnvironmentsAreFew ==
  ASSUME NEW s, Dated(s), Consistent(s.world), NEW in, NEW ledger,
         FewEnvironments(ledger["runtime_state"]), NEW name \in ProbeNames,
         SectionOf(name) = "runtime_state"
  PROVE  FewEnvironments(SectionProbe(s, name, in, ledger).asserts)
<1> DEFINE r == SectionProbe(s, name, in, ledger)
<1>1. name \in {"runtime.environments", "runtime.services", "runtime.data", "runtime.logs"}
  BY Tier1Names, Tier2Names DEF ProbeNames, SectionOf
<1>2. CASE name \in {"runtime.services", "runtime.data", "runtime.logs"}
  <2>1. DOMAIN r.asserts \subseteq Writes(name)
    BY SectionProbeWrites DEF Wrote
  <2>2. "environments" \notin Writes(name)
    BY <1>2 DEF Writes
  <2> QED
    BY <2>1, <2>2 DEF FewEnvironments
<1>3. CASE name = "runtime.environments"
  <2> DEFINE t == ObserveRuntime(s, "runtime.list_environments", NoArg)
             entries == {Environment(t, e) : e \in Records(Value(t))}
  <2>1. r = EnvironmentsProbe(s, in, ledger)
    BY <1>3 DEF SectionProbe
  <2>2. ASSUME t.seen.ok
        PROVE  IsFiniteSet(entries)
    <3>1. SeenOf(t.seen, RuntimeAnswer(s.world, "runtime.list_environments", NoArg))
      BY ObserveTells
    <3>2. RuntimeAnswer(s.world, "runtime.list_environments", NoArg) = ListEnvironments(s.world)
      BY DEF RuntimeAnswer
    <3> HIDE DEF t
    <3>3. Value(t) = List(s.world.environments) \/ Value(t) = Not_Present
      BY <2>2, <3>1, <3>2, ReachAnswers DEF SeenOf, ListEnvironments, Value
    <3>4. Records(Value(t)) = s.world.environments \/ Records(Value(t)) = {}
      BY <3>3 DEF Records, List, Not_Present, Rec
    <3>5. IsFiniteSet(Records(Value(t)))
      BY <3>4, FS_EmptySet DEF Consistent
    <3> DEFINE entry == [e \in Records(Value(t)) |-> Environment(t, e)]
    <3>6. entry \in Surjection(Records(Value(t)), entries)
      BY DEF Surjection
    <3> QED
      BY <3>5, <3>6, FS_Surjection
  <2> DEFINE e == r.asserts["environments"]
             found == Seen(t, List(entries))
             other == Derived(List({Unclassified}), Evidence(t))
  <2>3. e = NoAccess \/ e = other \/ (t.seen.ok /\ e = found)
    <3> HIDE DEF t
    <3>1. CASE ~t.seen.ok
      BY <2>1, <3>1 DEF EnvironmentsProbe, Probed, ++, t
    <3>2. CASE t.seen.ok /\ entries = {}
      BY <2>1, <3>2 DEF EnvironmentsProbe, Probed, t
    <3>3. CASE t.seen.ok /\ entries # {}
      BY <2>1, <3>3 DEF EnvironmentsProbe, Probed, t
    <3> QED
      BY <3>1, <3>2, <3>3
  <2>4. t.seen.ok => Records(found.value[1]) = entries
    BY DEF Seen, ObservedFact, Assertion, Records, List
  <2>5. Records(other.value[1]) = {Unclassified}
    BY DEF Derived, Assertion, Records, List
  <2>6. IsFiniteSet({Unclassified})
    BY FS_Singleton
  <2>7. ~Known(NoAccess)
    BY DEF Known, NoAccess, Unknown, Assertion
  <2> HIDE DEF e, found, other, entries, t
  <2>8. Known(e) => IsFiniteSet(Records(e.value[1]))
    BY <2>2, <2>3, <2>4, <2>5, <2>6, <2>7
  <2> QED
    BY <2>8 DEF FewEnvironments, e
<1> QED
  BY <1>1, <1>2, <1>3

-----------------------------------------------------------------------------
(* The pull request of the work item, as a probe finds it.                   *)
LEMMA BranchIsThere ==
  ASSUME NEW s, Dated(s), Consistent(s.world), NEW in, in.item
  PROVE  /\ After(LookupBranch(s, in).s, s)
         /\ LookupBranch(s, in).failed \in BOOLEAN
         /\ ~LookupBranch(s, in).failed => (LookupBranch(s, in).branch <=> s.world.branch)
         /\ ~LookupBranch(s, in).failed => Fresh(LookupBranch(s, in).ev, s.now)
<1> DEFINE t == ObserveGit(s, "git.list_branches", NoArg)
           entry(b) == [name |-> b, default |-> s.world.remoteHead /\ b = "main",
                        protection |-> Protection(s.world, b)]
           listed == {entry(b) : b \in {"main"} \union (IF s.world.branch THEN {"work"} ELSE {})}
<1>1. After(t, s)
  BY ObserveAfter
<1>2. SeenOf(t.seen, GitAnswer(s.world, "git.list_branches", NoArg))
  BY ObserveTells
<1>3. GitAnswer(s.world, "git.list_branches", NoArg) = Git(s.world, List(listed))
  BY DEF GitAnswer, ListBranches
<1>4. LookupBranch(s, in) = BranchAmong(t, in)
  BY DEF LookupBranch
<1> HIDE DEF t
<1>5. t.seen.ok => Records(Value(t)) = listed
  <2> HIDE DEF listed
  <2> QED
    BY <1>2, <1>3, GitAnswers DEF SeenOf, Value, Records, List
<1>6. \A b : entry(b).name = b
  OBVIOUS
<1>7. (\E b \in listed : b.name = "work") <=> s.world.branch
  <2> HIDE DEF entry
  <2> QED
    BY <1>6
<1> HIDE DEF listed
<1> DEFINE lb == LookupBranch(s, in)
<1>8. /\ lb.s = t /\ lb.failed = ~t.seen.ok /\ lb.ev = Evidence(t)
      /\ lb.branch = (t.seen.ok /\ in.item /\ \E b \in Records(Value(t)) : b.name = "work")
  BY <1>4 DEF BranchAmong
<1> HIDE DEF lb
<1>9. ~lb.failed => Fresh(lb.ev, s.now)
  BY <1>1, <1>8, SeenIsFresh
<1> QED
  BY <1>1, <1>5, <1>7, <1>8, <1>9 DEF lb

(* A pull request is found as it is, but for the revisions a listing leaves  *)
(* out.                                                                      *)
Matches(q, p) ==
  /\ q.state = p.state
  /\ \/ q.sha = p.sha /\ q.mergeSha = p.mergeSha
     \/ q.sha = "" /\ q.mergeSha = ""

(* What a search of a session comes to: none found is only said when none is *)
(* proposed.                                                                 *)
Looked(lp, s) ==
  /\ After(lp.s, s)
  /\ lp.failed \in BOOLEAN /\ lp.found \in BOOLEAN
  /\ lp.failed => ~lp.found
  /\ ~lp.found => lp.pr = NoPr
  /\ ~lp.failed => Fresh(lp.ev, s.now)
  /\ ~lp.failed /\ ~lp.found => Proposed(s.world) = {}
  /\ lp.found => \E p \in Proposed(s.world) : Matches(lp.pr, p)

LEMMA Foremost ==
  ASSUME NEW S, S # {}
  PROVE  \E p \in S : \A q \in S : PrRank(p) <= PrRank(q)
<1>1. CASE \E p \in S : PrRank(p) = 0
  BY <1>1 DEF PrRank
<1>2. CASE (\A p \in S : PrRank(p) # 0) /\ \E p \in S : PrRank(p) = 1
  BY <1>2 DEF PrRank
<1>3. CASE \A p \in S : PrRank(p) = 2
  BY <1>3
<1>4. \A p \in S : PrRank(p) \in {0, 1, 2}
  BY DEF PrRank
<1> QED
  BY <1>1, <1>2, <1>3, <1>4

(* A listing holds the pull requests there are, each under its id.           *)
LEMMA ListedKeeps ==
  ASSUME NEW w, NEW p \in PullRequests
  PROVE  /\ Listed(w, p).id = p.id /\ Listed(w, p).state = p.state
         /\ Listed(w, p).head = p.head /\ Listed(w, p).names = p.names
         /\ Matches(Listed(w, p), p)
         /\ Matches(Merged(Listed(w, p), Detailed(w, p)), p)
<1> DEFINE l == Listed(w, p)
           d == Detailed(w, p)
<1>1. CASE w.sparse
  <2>1. l = [p EXCEPT !.sha = "", !.mergeSha = "", !.base = FALSE]
    BY <1>1 DEF Listed
  <2>2. d = [p EXCEPT !.state = ""]
    BY <1>1 DEF Detailed
  <2>3. /\ l.id = p.id /\ l.state = p.state /\ l.head = p.head /\ l.names = p.names
        /\ l.sha = "" /\ l.mergeSha = ""
    BY <2>1 DEF PullRequests
  <2>4. /\ d.state = "" /\ d.sha = p.sha /\ d.mergeSha = p.mergeSha
        /\ {"state", "sha", "mergeSha"} \subseteq DOMAIN d
    BY <2>2 DEF PullRequests
  <2> HIDE DEF l, d
  <2>5. Merged(l, d) = [d EXCEPT !.state = l.state]
    BY <2>4 DEF Merged
  <2>6. /\ Merged(l, d).state = l.state /\ Merged(l, d).sha = d.sha
        /\ Merged(l, d).mergeSha = d.mergeSha
    BY <2>4, <2>5
  <2> QED
    BY <2>3, <2>4, <2>6 DEF Matches, l, d
<1>2. CASE ~w.sparse
  <2>1. l = p /\ d = p
    BY <1>2 DEF Listed, Detailed
  <2>2. Merged(p, p) = [p EXCEPT !.state = p.state]
    BY DEF Merged
  <2>3. Merged(p, p) = p
    BY <2>2 DEF PullRequests
  <2> HIDE DEF l, d
  <2> QED
    BY <2>1, <2>3 DEF Matches, l, d
<1> QED
  BY <1>1, <1>2

LEMMA ProposalsAreKnown ==
  ASSUME NEW w, Consistent(w)
  PROVE  /\ w.prs \subseteq PullRequests
         /\ "pull_requests" \in w.absent => w.prs = {}
  BY ZenonT(60) DEF Consistent

(* A search that found none: every pull request that is proposed would have  *)
(* been listed; one that found one found one that is proposed.               *)
LEMMA PullRequestLooked ==
  ASSUME NEW s, Dated(s), Consistent(s.world), NEW in, in.item
  PROVE  Looked(LookupPullRequest(s, in), s)
<1> DEFINE w == s.world
           lb == LookupBranch(s, in)
           t == ObserveGit(lb.s, "git.list_prs", lb.branch)
           candidates == {p \in Records(Value(t)) :
                            (lb.branch /\ p.head = "work") \/ (in.item /\ p.names)}
           chosen == CHOOSE p \in candidates : \A q \in candidates : PrRank(p) <= PrRank(q)
           u == ObserveGit(t, "git.read_pr", chosen.id)
           lp == LookupPullRequest(s, in)
<1> SUFFICES Looked(lp, s)
  OBVIOUS
<1>1. /\ After(lb.s, s) /\ lb.failed \in BOOLEAN
      /\ ~lb.failed => (lb.branch <=> w.branch) /\ Fresh(lb.ev, s.now)
  BY BranchIsThere
<1>2. Dated(lb.s) /\ lb.s.world = w
  BY <1>1 DEF After
<1>16. ~lb.failed => \A more : Fresh(lb.ev \union more, s.now)
  BY <1>1, FreshOfMore
<1>3. After(t, s) /\ SeenOf(t.seen, GitAnswer(w, "git.list_prs", lb.branch))
  <2> HIDE DEF lb
  <2>1. After(t, lb.s)
    BY <1>2, ObserveAfter
  <2>2. SeenOf(t.seen, GitAnswer(w, "git.list_prs", lb.branch))
    BY <1>2, ObserveTells
  <2> QED
    BY <1>1, <2>1, <2>2, AfterAfter
<1>4. Dated(t) /\ t.world = w
  BY <1>3 DEF After
<1>5. After(u, s) /\ SeenOf(u.seen, GitAnswer(w, "git.read_pr", chosen.id))
  <2> HIDE DEF t, chosen
  <2>1. After(u, t)
    BY <1>4, ObserveAfter
  <2>2. SeenOf(u.seen, GitAnswer(w, "git.read_pr", chosen.id))
    BY <1>4, ObserveTells
  <2> QED
    BY <1>3, <2>1, <2>2, AfterAfter
<1>6. lp = CASE lb.failed ->
                  [s |-> lb.s, failed |-> TRUE, found |-> FALSE, pr |-> NoPr, ev |-> {}]
             [] ~lb.failed /\ ~t.seen.ok ->
                  [s |-> t, failed |-> TRUE, found |-> FALSE, pr |-> NoPr, ev |-> lb.ev]
             [] ~lb.failed /\ t.seen.ok /\ candidates = {} ->
                  [s |-> t, failed |-> FALSE, found |-> FALSE, pr |-> NoPr,
                   ev |-> lb.ev \union Evidence(t)]
             [] OTHER -> ReadAlone(lb, t, chosen, u)
  BY DEF LookupPullRequest, WithBranch, AmongListed
<1> HIDE DEF lb, t, u, lp
<1>7. ASSUME ~lb.failed, t.seen.ok
      PROVE  candidates = {Listed(w, p) : p \in Proposed(w)}
  <2>1. GitAnswer(w, "git.list_prs", lb.branch)
          = ViaHost(w, "pull_requests", List({Listed(w, p) : p \in w.prs}))
    BY DEF GitAnswer, ListPrs
  <2>2. Value(t) = IF "pull_requests" \in w.absent THEN Not_Present
                   ELSE List({Listed(w, p) : p \in w.prs})
    BY <1>3, <1>7, <2>1, ViaHostAnswers DEF SeenOf, Value
  <2>3. "pull_requests" \in w.absent => w.prs = {}
    BY ProposalsAreKnown
  <2>4. Records(Value(t)) = {Listed(w, p) : p \in w.prs}
    BY <2>2, <2>3 DEF Records, Not_Present, List, Rec
  <2>5. \A p \in w.prs : Listed(w, p).head = p.head /\ Listed(w, p).names = p.names
    <3>1. w.prs \subseteq PullRequests
      BY ProposalsAreKnown
    <3> QED
      BY <3>1, ListedKeeps
  <2> QED
    BY <1>1, <1>7, <2>4, <2>5, SMTT(30) DEF Proposed
<1>14. After(t, s)
  BY <1>3
<1>15. After(u, s)
  BY <1>5
<1> HIDE DEF candidates, chosen
<1>8. ASSUME ~lb.failed, t.seen.ok, candidates # {}
      PROVE  \E p \in Proposed(w) : chosen = Listed(w, p) /\ p \in PullRequests /\ p \in w.prs
  <2>1. chosen \in candidates
    BY <1>8, Foremost DEF chosen
  <2> QED
    BY <1>7, <1>8, <2>1 DEF Consistent, Proposed
<1>9. ASSUME ~lb.failed, t.seen.ok, candidates # {}
      PROVE  \E p \in Proposed(w) : Matches(ReadAlone(lb, t, chosen, u).pr, p)
  <2>1. PICK p \in Proposed(w) : chosen = Listed(w, p) /\ p \in PullRequests /\ p \in w.prs
    BY <1>8, <1>9
  <2>2. chosen.id = p.id /\ Matches(chosen, p) /\ Matches(Merged(chosen, Detailed(w, p)), p)
    BY <2>1, ListedKeeps
  <2>3. CASE chosen.id # "" /\ u.seen.ok
    <3>1. GitAnswer(w, "git.read_pr", chosen.id) = ReadPr(w, chosen.id)
      BY DEF GitAnswer
    <3>2. {q \in w.prs : q.id = chosen.id} = {p}
      BY <2>1, <2>2, <2>3 DEF Consistent
    <3>3. ReadPr(w, chosen.id).how \in Answering \union {"map"}
            => ReadPr(w, chosen.id) = Fact(Rec([pr |-> Detailed(w, p)]))
      BY <3>2, NoAnswer DEF ReadPr
    <3>4. Value(u) = Rec([pr |-> Detailed(w, p)])
      BY <1>5, <2>3, <3>1, <3>3, Unwraps DEF SeenOf, Value
    <3>5. Value(u).rec.pr = Detailed(w, p)
      BY <3>4 DEF Rec
    <3>6. ReadAlone(lb, t, chosen, u).pr = Merged(chosen, Detailed(w, p))
      BY <2>3, <3>5 DEF ReadAlone
    <3> QED
      BY <2>2, <3>6
  <2>4. CASE ~(chosen.id # "" /\ u.seen.ok)
    <3>1. ReadAlone(lb, t, chosen, u).pr = chosen
      BY <2>4 DEF ReadAlone
    <3> QED
      BY <2>2, <3>1
  <2> QED
    BY <2>3, <2>4
<1>10. CASE lb.failed
  <2>1. /\ lp.s = lb.s /\ lp.failed = TRUE /\ lp.found = FALSE /\ lp.pr = NoPr
    BY <1>6, <1>10
  <2> QED
    BY <1>1, <2>1 DEF Looked
<1>11. CASE ~lb.failed /\ ~t.seen.ok
  <2>1. /\ lp.s = t /\ lp.failed = TRUE /\ lp.found = FALSE /\ lp.pr = NoPr
    BY <1>6, <1>11
  <2> QED
    BY <1>14, <2>1 DEF Looked
<1>12. CASE ~lb.failed /\ t.seen.ok /\ candidates = {}
  <2>1. /\ lp.s = t /\ lp.failed = FALSE /\ lp.found = FALSE /\ lp.pr = NoPr
        /\ lp.ev = lb.ev \union Evidence(t)
    BY <1>6, <1>12
  <2>2. Proposed(w) = {}
    BY <1>7, <1>12
  <2>3. Fresh(lp.ev, s.now)
    BY <1>12, <1>16, <2>1
  <2> QED
    BY <1>14, <2>1, <2>2, <2>3 DEF Looked
<1>13. CASE ~lb.failed /\ t.seen.ok /\ candidates # {}
  <2>1. lp = ReadAlone(lb, t, chosen, u)
    BY <1>6, <1>13
  <2>2. (lp.s = t \/ lp.s = u) /\ lp.failed = FALSE /\ lp.found = TRUE
    BY <2>1 DEF ReadAlone
  <2>3. \E p \in Proposed(w) : Matches(lp.pr, p)
    BY <1>9, <1>13, <2>1
  <2>4. \E more : lp.ev = lb.ev \union more
    <3>1. \/ lp.ev = lb.ev \union Evidence(t) \union Evidence(u)
          \/ lp.ev = lb.ev \union Evidence(t)
      BY <2>1 DEF ReadAlone
    <3>2. lb.ev \union Evidence(t) \union Evidence(u) = lb.ev \union (Evidence(t) \union Evidence(u))
      OBVIOUS
    <3> QED
      BY <3>1, <3>2
  <2>5. Fresh(lp.ev, s.now)
    BY <1>13, <1>16, <2>4
  <2> QED
    BY <1>14, <1>15, <2>2, <2>3, <2>5 DEF Looked
<1> QED
  BY <1>1, <1>10, <1>11, <1>12, <1>13

-----------------------------------------------------------------------------
(* The probes of reality: what each asserts as a fact is so in the world it  *)
(* looked at, and what it knows at all it saw now.                           *)
Truthful(r, e, s, in) ==
  /\ After(r.s, s)
  /\ IsAssertion(r.a)
  /\ r.a.conf = "FACT" => HoldsOf(e, r.a.value[1], Saw(s.world, in))
  /\ Known(r.a) => Fresh(r.a.ev, s.now)

LEMMA Confidence ==
  /\ \A v, ev : ObservedFact(v, ev).value[1] = v /\ ObservedFact(v, ev).ev = ev
  /\ \A v, ev : Derived(v, ev).conf # "FACT" /\ Derived(v, ev).ev = ev
  /\ \A a \in {NoAccess, Insufficient, NotComputed, NotApplicable} :
       a.conf # "FACT" /\ ~Known(a)
BY DEF ObservedFact, Derived, NoAccess, Insufficient, NotComputed, NotApplicable, Unknown,
       Assertion, Known

LEMMA HoldsWhen ==
  \A e, v, w, in : TrueOf(e, v, w, in) \/ Misread(e, v, w, in) => HoldsOf(e, v, Saw(w, in))
BY DEF HoldsOf, Saw

(* What is asserted is no fact, or is observed and so.                       *)
LEMMA AssertedAnyhow ==
  ASSUME NEW r, NEW t, NEW s, After(t, s), NEW e, NEW in, NEW a, r.s = t, r.a = a,
         \/ a \in {NoAccess, Insufficient, NotComputed, NotApplicable}
         \/ \E v, ev : a = Derived(v, ev) /\ Fresh(ev, s.now)
         \/ \E v, ev : /\ a = ObservedFact(v, ev) /\ Fresh(ev, s.now)
                        /\ HoldsOf(e, v, Saw(s.world, in))
  PROVE  Truthful(r, e, s, in)
<1>1. IsAssertion(a)
  BY Assertive
<1>2. a.conf = "FACT" => HoldsOf(e, a.value[1], Saw(s.world, in))
  BY Confidence
<1>3. Known(a) => Fresh(a.ev, s.now)
  BY Confidence
<1> QED
  BY <1>1, <1>2, <1>3 DEF Truthful

LEMMA Asserted ==
  ASSUME NEW t, NEW s, After(t, s), NEW e, NEW in, NEW a,
         \/ a \in {NoAccess, Insufficient, NotComputed, NotApplicable}
         \/ \E v, ev : a = Derived(v, ev) /\ Fresh(ev, s.now)
         \/ \E v, ev : /\ a = ObservedFact(v, ev) /\ Fresh(ev, s.now)
                        /\ HoldsOf(e, v, Saw(s.world, in))
  PROVE  Truthful(Asserts(t, a), e, s, in)
<1>1. Asserts(t, a).s = t /\ Asserts(t, a).a = a
  BY DEF Asserts
<1> HIDE DEF Asserts
<1> QED
  BY <1>1, AssertedAnyhow

LEMMA ImplementationIsTrue ==
  ASSUME NEW s, Dated(s), Consistent(s.world), NEW in, in.item
  PROVE  Truthful(ImplementationProbe(s, in), "implementation_present", s, in)
<1> DEFINE w == s.world
           lb == LookupBranch(s, in)
           arg == [ref |-> IF lb.branch THEN "work" ELSE "HEAD",
                   not |-> lb.branch /\ lb.base, paths |-> in.scope, tokens |-> in.item]
           t == ObserveGit(lb.s, "git.log", arg)
           r == ImplementationProbe(s, in)
           seen == ObservedFact(Records(Value(t)) # {}, lb.ev \union Evidence(t))
<1> SUFFICES Truthful(r, "implementation_present", s, in)
  OBVIOUS
<1>1. /\ After(lb.s, s) /\ lb.failed \in BOOLEAN
      /\ ~lb.failed => (lb.branch <=> w.branch) /\ Fresh(lb.ev, s.now)
  BY BranchIsThere
<1>2. After(t, s) /\ SeenOf(t.seen, GitAnswer(w, "git.log", arg))
  <2>1. Dated(lb.s) /\ lb.s.world = w
    BY <1>1 DEF After
  <2> HIDE DEF lb, arg
  <2>2. After(t, lb.s) /\ SeenOf(t.seen, GitAnswer(w, "git.log", arg))
    BY <2>1, ObserveAfter, ObserveTells
  <2> QED
    BY <1>1, <2>2, AfterAfter
<1>3. /\ \/ r = Asserts(lb.s, NoAccess)
         \/ r = Asserts(lb.s, Insufficient)
         \/ r = Asserts(t, NoAccess)
         \/ ~lb.failed /\ t.seen.ok /\ r = Asserts(t, seen)
  <2> HIDE DEF lb, t, seen
  <2> QED
    BY <1>1 DEF ImplementationProbe, ImplementationOf, lb, t, arg, seen
<1>4. /\ arg.tokens = in.item /\ arg.paths = in.scope
      /\ arg.ref = IF lb.branch THEN "work" ELSE "HEAD"
      /\ arg.not = (lb.branch /\ lb.base)
  OBVIOUS
<1> DEFINE listed == {c \in w.commits : /\ (IF arg.ref = "HEAD" THEN "main" ELSE arg.ref) \in c.on
                                        /\ arg.not => "main" \notin c.on
                                        /\ arg.paths => c.inScope
                                        /\ arg.tokens => c.names}
           v == Records(Value(t)) # {}
<1> HIDE DEF lb, arg, t, r
<1>5. t.seen.ok => Records(Value(t)) = listed
  <2>1. GitAnswer(w, "git.log", arg) = Git(w, List(listed))
    BY DEF GitAnswer, Log
  <2> HIDE DEF listed
  <2> QED
    BY <1>2, <2>1, GitAnswers DEF SeenOf, Value, Records, List
<1>6. ASSUME t.seen.ok, ~lb.failed
      PROVE  HoldsOf("implementation_present", v, Saw(w, in))
  <2>1. v = (listed # {})
    BY <1>5, <1>6
  <2> HIDE DEF v
  <2>2. CASE ~w.branch
    <3>1. \A c \in w.commits : c \in listed <=> Implements(c, w, in)
      BY <1>1, <1>4, <1>6, <2>2 DEF Implements
    <3>2. v = \E c \in w.commits : Implements(c, w, in)
      BY <2>1, <3>1
    <3> QED
      BY <3>2, HoldsWhen DEF TrueOf
  <2>3. CASE w.branch
    <3>1. \A c \in listed : Implements(c, w, in)
      BY <1>1, <1>4, <1>6, <2>3 DEF Implements
    <3>2. \A c \in w.commits : Implements(c, w, in) /\ "main" \notin c.on => c \in listed
      BY <1>1, <1>4, <1>6, <2>3 DEF Implements
    <3>3. CASE \E c \in w.commits : Implements(c, w, in) /\ "main" \in c.on
      <4>1. CASE listed = {}
        <5>1. v = FALSE
          BY <2>1, <4>1
        <5> QED
          BY <2>3, <3>3, <5>1, HoldsWhen DEF Misread
      <4>2. CASE listed # {}
        <5>1. v = \E c \in w.commits : Implements(c, w, in)
          BY <2>1, <3>3, <4>2
        <5> QED
          BY <5>1, HoldsWhen DEF TrueOf
      <4> QED
        BY <4>1, <4>2
    <3>4. CASE ~\E c \in w.commits : Implements(c, w, in) /\ "main" \in c.on
      <4>1. v = \E c \in w.commits : Implements(c, w, in)
        BY <2>1, <3>1, <3>2, <3>4
      <4> QED
        BY <4>1, HoldsWhen DEF TrueOf
    <3> QED
      BY <3>3, <3>4
  <2> QED
    BY <2>2, <2>3
<1> HIDE DEF v
<1>7. ~lb.failed => Fresh(lb.ev \union Evidence(t), s.now)
  BY <1>1, FreshOfMore
<1> QED
  BY <1>1, <1>2, <1>3, <1>6, <1>7, Asserted DEF seen, v

LEMMA PrIsTrue ==
  ASSUME NEW s, Dated(s), Consistent(s.world), NEW in, in.item
  PROVE  Truthful(PrProbe(s, in), "pr", s, in)
<1> DEFINE w == s.world
           lp == LookupPullRequest(s, in)
           v == [exists |-> lp.found, state |-> lp.pr.state, sha |-> lp.pr.sha]
<1>1. Looked(lp, s)
  BY PullRequestLooked
<1>2. PrProbe(s, in) = Asserts(lp.s, IF lp.failed THEN NoAccess ELSE ObservedFact(v, lp.ev))
  BY DEF PrProbe, PrOf
<1> HIDE DEF lp
<1>3. v.exists = lp.found /\ v.state = lp.pr.state /\ v.sha = lp.pr.sha
  OBVIOUS
<1> HIDE DEF v
<1>4. ~lp.failed => HoldsOf("pr", v, Saw(w, in))
  BY <1>1, <1>3, HoldsWhen DEF TrueOf, Looked, Matches
<1>5. After(lp.s, s) /\ (~lp.failed => Fresh(lp.ev, s.now))
  BY <1>1 DEF Looked
<1> QED
  BY <1>2, <1>4, <1>5, Asserted

(* A search that found a revision found one of the change.                   *)
LEMMA FoundIsProposed ==
  ASSUME NEW lp, NEW s, Looked(lp, s), lp.pr.sha # ""
  PROVE  /\ lp.found
         /\ lp.pr.sha \in Shas(s.world)
<1>1. NoPr.sha = ""
  BY Zenon DEF NoPr
<1>2. lp.found
  BY <1>1 DEF Looked
<1>3. \E p \in Proposed(s.world) : Matches(lp.pr, p)
  BY <1>2 DEF Looked
<1> QED
  BY <1>2, <1>3 DEF Matches, Shas

(* The runs of a revision, as the host answers about them.                   *)
LEMMA RunsAnswered ==
  ASSUME NEW w, Consistent(w), NEW sha, NEW seen, seen.ok,
         SeenOf(seen, GitAnswer(w, "git.ci_status", sha))
  PROVE  Records(Field(seen.value, "runs", seen.value)) = {r \in w.ci : r.sha = sha}
<1> DEFINE runs == {r \in w.ci : r.sha = sha}
<1>1. GitAnswer(w, "git.ci_status", sha) = ViaHost(w, "ci_state", Rec([runs |-> List(runs)]))
  BY DEF GitAnswer, CiStatus
<1>2. seen.value = IF "ci_state" \in w.absent THEN Not_Present ELSE Rec([runs |-> List(runs)])
  BY <1>1, ViaHostAnswers DEF SeenOf
<1>3. CASE "ci_state" \in w.absent
  <2>1. runs = {}
    BY <1>3 DEF Consistent
  <2>2. Field(Not_Present, "runs", Not_Present) = Not_Present
    BY DEF Field, HasField, Not_Present, Rec
  <2>3. Records(Not_Present) = {}
    BY DEF Records, Not_Present, Rec
  <2> QED
    BY <1>2, <1>3, <2>1, <2>2, <2>3
<1>4. CASE "ci_state" \notin w.absent
  <2> HIDE DEF runs
  <2>1. Field(Rec([runs |-> List(runs)]), "runs", Rec([runs |-> List(runs)])) = List(runs)
    BY DEF Field, HasField, Rec
  <2>2. Records(List(runs)) = runs
    BY DEF Records, List
  <2> QED
    BY <1>2, <1>4, <2>1, <2>2 DEF runs
<1> QED
  BY <1>3, <1>4

LEMMA TestsAreTrue ==
  ASSUME NEW s, Dated(s), Consistent(s.world), NEW in, in.item
  PROVE  Truthful(TestsProbe(s, in), "tests_present", s, in)
<1> DEFINE w == s.world
           t == ObserveRepo(s, "repo.list_paths", {"tests"})
           lp == LookupPullRequest(t, in)
           u == ObserveGit(lp.s, "git.ci_status", lp.pr.sha)
           finished == {r \in Records(Field(Value(u), "runs", Value(u))) : r.status = "COMPLETED"}
           none == ObservedFact(FALSE, Evidence(t))
           some == ObservedFact(TRUE, Evidence(t) \union lp.ev \union Evidence(u))
           r == TestsProbe(s, in)
<1> SUFFICES Truthful(r, "tests_present", s, in)
  OBVIOUS
<1>1. After(t, s) /\ SeenOf(t.seen, RepoAnswer(w, "repo.list_paths", {"tests"}))
  BY ObserveAfter, ObserveTells
<1>2. Dated(t) /\ t.world = w
  BY <1>1 DEF After
<1>3. Looked(lp, t)
  <2> HIDE DEF t
  <2> QED
    BY <1>2, PullRequestLooked
<1>4. After(lp.s, s)
  BY <1>1, <1>3, AfterAfter DEF Looked
<1>5. Dated(lp.s) /\ lp.s.world = w
  BY <1>4 DEF After
<1>6. After(u, s) /\ SeenOf(u.seen, GitAnswer(w, "git.ci_status", lp.pr.sha))
  <2> HIDE DEF lp
  <2>1. After(u, lp.s) /\ SeenOf(u.seen, GitAnswer(w, "git.ci_status", lp.pr.sha))
    BY <1>5, ObserveAfter, ObserveTells
  <2> QED
    BY <1>4, <2>1, AfterAfter
<1>7. \/ r = Asserts(t, NoAccess)
      \/ t.seen.ok /\ ListedPaths(Value(t)) = {} /\ r = Asserts(t, none)
      \/ r = Asserts(lp.s, Insufficient)
      \/ r = Asserts(u, Insufficient)
      \/ /\ t.seen.ok /\ ListedPaths(Value(t)) # {} /\ lp.pr.sha # ""
         /\ u.seen.ok /\ finished # {}
         /\ r = Asserts(u, some)
  <2> HIDE DEF t, lp, u, none, some, finished
  <2> QED
    BY DEF TestsProbe, TestsOf, TestsSeen, t, lp, u, none, some, finished
<1> HIDE DEF t, lp, u, r
<1>8. t.seen.ok => ListedPaths(Value(t)) = IF w.truncated THEN {} ELSE w.files \intersect {"tests"}
  <2> DEFINE found == IF w.truncated THEN {} ELSE w.files \intersect {"tests"}
             record == [entries |-> List(found), truncated |-> Atom(w.truncated)]
  <2>1. RepoAnswer(w, "repo.list_paths", {"tests"}) = Plain(Rec(record))
    BY DEF RepoAnswer, ListPaths
  <2> HIDE DEF record
  <2>2. t.seen.ok => Value(t) = Rec(record)
    BY <1>1, <2>1, Unwraps DEF SeenOf, Value
  <2> HIDE DEF found
  <2>3. ListedPaths(Rec(record)) = found
    BY DEF ListedPaths, HasField, Rec, Records, List, record
  <2> QED
    BY <2>2, <2>3 DEF found
<1>9. ASSUME t.seen.ok, ListedPaths(Value(t)) # {}, lp.pr.sha # "", u.seen.ok, finished # {}
      PROVE  HoldsOf("tests_present", TRUE, Saw(w, in))
  <2>1. lp.pr.sha \in Shas(w)
    BY <1>2, <1>3, <1>9, FoundIsProposed
  <2>2. /\ Records(Field(u.seen.value, "runs", u.seen.value)) = {x \in w.ci : x.sha = lp.pr.sha}
        /\ u.seen.value = Value(u)
    <3> HIDE DEF finished, some, none
    <3>1. u.seen.ok
      BY <1>9
    <3>2. SeenOf(u.seen, GitAnswer(w, "git.ci_status", lp.pr.sha))
      BY <1>6
    <3>3. Records(Field(u.seen.value, "runs", u.seen.value)) = {x \in w.ci : x.sha = lp.pr.sha}
      BY <3>1, <3>2, RunsAnswered
    <3> QED
      BY <3>3 DEF Value
  <2>3. "tests" \in w.files
    BY <1>8, <1>9
  <2>4. \E x \in w.ci : x.status = "COMPLETED" /\ x.sha \in Shas(w)
    BY <1>9, <2>1, <2>2
  <2> QED
    BY <2>3, <2>4, HoldsWhen DEF TrueOf
<1>10. t.seen.ok /\ ListedPaths(Value(t)) = {} => HoldsOf("tests_present", FALSE, Saw(w, in))
  <2>1. t.seen.ok /\ ListedPaths(Value(t)) = {} => w.truncated \/ "tests" \notin w.files
    BY <1>8
  <2> QED
    BY <2>1, HoldsWhen DEF TrueOf, Misread
<1>11. t.seen.ok => Fresh(Evidence(t), s.now)
  BY <1>1, SeenIsFresh
<1>12. t.seen.ok => Fresh(Evidence(t) \union lp.ev \union Evidence(u), s.now)
  BY <1>11, FreshOfMore
<1> QED
  BY <1>1, <1>4, <1>6, <1>7, <1>9, <1>10, <1>11, <1>12, Asserted

(* What is said of runs together is so of them.                              *)
LEMMA CiResults ==
  ASSUME NEW runs
  PROVE  RunsSay(CiResult(runs), runs)
<1>1. CASE runs = {}
  <2>1. CiResult(runs) = "NONE"
    BY <1>1 DEF CiResult
  <2> QED
    BY <1>1, <2>1 DEF RunsSay
<1>2. CASE runs # {} /\ \E r \in runs : r.status # "COMPLETED"
  <2>1. CiResult(runs) = "PENDING"
    BY <1>2 DEF CiResult
  <2> QED
    BY <1>2, <2>1 DEF RunsSay
<1>3. CASE /\ runs # {}
           /\ \A r \in runs : r.status = "COMPLETED"
           /\ \A r \in runs : r.conclusion \in {"SUCCESS", "NEUTRAL", "SKIPPED"}
  <2>1. CiResult(runs) = "GREEN"
    BY <1>3, Zenon DEF CiResult
  <2> QED
    BY <1>3, <2>1 DEF RunsSay, Passed
<1>4. CASE /\ runs # {}
           /\ \A r \in runs : r.status = "COMPLETED"
           /\ ~\A r \in runs : r.conclusion \in {"SUCCESS", "NEUTRAL", "SKIPPED"}
  <2>1. CASE \E r \in runs : r.conclusion = ""
    <3>1. CiResult(runs) = "INDETERMINATE"
      BY <1>4, <2>1 DEF CiResult
    <3> QED
      BY <2>1, <3>1 DEF RunsSay
  <2>2. CASE ~\E r \in runs : r.conclusion = ""
    <3>1. CiResult(runs) = "RED"
      BY <1>4, <2>2 DEF CiResult
    <3>2. \E r \in runs : r.conclusion \notin {""} \union Passed
      BY <1>4, <2>2 DEF Passed
    <3> QED
      BY <3>1, <3>2 DEF RunsSay
  <2> QED
    BY <2>1, <2>2
<1> QED
  BY <1>1, <1>2, <1>3, <1>4

LEMMA CiIsTrue ==
  ASSUME NEW s, Dated(s), Consistent(s.world), NEW in, in.item
  PROVE  Truthful(CiProbe(s, in), "ci", s, in)
<1> DEFINE w == s.world
           lp == LookupPullRequest(s, in)
           t == ObserveGit(lp.s, "git.ci_status", lp.pr.sha)
           u == ObserveRepo(t, "repo.list_paths", {"ci"})
           runs == Records(Field(Value(t), "runs", Value(t)))
           v == [result |-> CiResult(runs), sha |-> lp.pr.sha]
           seen == ObservedFact(v, lp.ev \union Evidence(t))
           r == CiProbe(s, in)
<1> SUFFICES Truthful(r, "ci", s, in)
  OBVIOUS
<1>1. Looked(lp, s)
  BY PullRequestLooked
<1>2. After(lp.s, s) /\ Dated(lp.s) /\ lp.s.world = w
  BY <1>1 DEF After, Looked
<1>3. After(t, s) /\ SeenOf(t.seen, GitAnswer(w, "git.ci_status", lp.pr.sha))
  <2> HIDE DEF lp
  <2>1. After(t, lp.s) /\ SeenOf(t.seen, GitAnswer(w, "git.ci_status", lp.pr.sha))
    BY <1>2, ObserveAfter, ObserveTells
  <2> QED
    BY <1>2, <2>1, AfterAfter
<1>4. After(u, s)
  <2>1. Dated(t)
    BY <1>3 DEF After
  <2> HIDE DEF t
  <2>2. After(u, t)
    BY <2>1, ObserveAfter
  <2> QED
    BY <1>3, <2>2, AfterAfter
<1>5. \/ r = Asserts(lp.s, NoAccess)
      \/ r = Asserts(lp.s, Insufficient)
      \/ r = Asserts(u, NotApplicable)
      \/ r = Asserts(u, NoAccess)
      \/ ~lp.failed /\ lp.pr.sha # "" /\ t.seen.ok /\ r = Asserts(t, seen)
  <2>1. lp.failed \in BOOLEAN
    BY <1>1 DEF Looked
  <2> HIDE DEF lp, t, u, seen
  <2> QED
    BY <2>1 DEF CiProbe, CiOf, lp, t, u, runs, v, seen
<1> HIDE DEF lp, t, u, r
<1>6. ASSUME lp.pr.sha # "", t.seen.ok
      PROVE  HoldsOf("ci", v, Saw(w, in))
  <2>1. lp.pr.sha \in Shas(w)
    BY <1>1, <1>6, FoundIsProposed
  <2>2. /\ Records(Field(t.seen.value, "runs", t.seen.value)) = {x \in w.ci : x.sha = lp.pr.sha}
        /\ t.seen.value = Value(t)
    <3> HIDE DEF runs, v, seen
    <3>1. t.seen.ok
      BY <1>6
    <3>2. SeenOf(t.seen, GitAnswer(w, "git.ci_status", lp.pr.sha))
      BY <1>3
    <3>3. Records(Field(t.seen.value, "runs", t.seen.value)) = {x \in w.ci : x.sha = lp.pr.sha}
      BY <3>1, <3>2, RunsAnswered
    <3> QED
      BY <3>3 DEF Value
  <2> HIDE DEF runs
  <2>3. v.result = CiResult(runs) /\ v.sha = lp.pr.sha
    OBVIOUS
  <2>4. runs = {x \in w.ci : x.sha = v.sha}
    <3> HIDE DEF v
    <3> QED
      BY <2>2, <2>3 DEF runs
  <2>5. RunsSay(v.result, runs)
    <3> HIDE DEF v
    <3> QED
      BY <2>3, CiResults
  <2> HIDE DEF v
  <2>6. v.sha \in Shas(w) /\ RunsSay(v.result, {x \in w.ci : x.sha = v.sha})
    BY <2>1, <2>3, <2>4, <2>5
  <2> QED
    BY <2>6, HoldsWhen DEF TrueOf
<1>7. ~lp.failed => Fresh(lp.ev \union Evidence(t), s.now)
  BY <1>1, FreshOfMore DEF Looked
<1> QED
  BY <1>2, <1>3, <1>4, <1>5, <1>6, <1>7, Asserted DEF seen

(* The reviews and the threads there are, as the host answers about them.    *)
LEMMA ReviewsAnswered ==
  ASSUME NEW w, Consistent(w), NEW id, NEW seen, seen.ok,
         SeenOf(seen, GitAnswer(w, "git.list_reviews", id))
  PROVE  /\ Records(Field(seen.value, "reviews", seen.value)) = w.reviews
         /\ Records(Field(seen.value, "threads", List({}))) = w.threads
<1> DEFINE both == [reviews |-> List(w.reviews), threads |-> List(w.threads)]
<1>1. GitAnswer(w, "git.list_reviews", id) = ViaHost(w, "review_threads", Rec(both))
  BY DEF GitAnswer, ListReviews
<1>2. /\ both.reviews = List(w.reviews) /\ "reviews" \in DOMAIN both
      /\ both.threads = List(w.threads) /\ "threads" \in DOMAIN both
  OBVIOUS
<1> HIDE DEF both
<1>3. seen.value = IF "review_threads" \in w.absent THEN Not_Present ELSE Rec(both)
  BY <1>1, ViaHostAnswers DEF SeenOf
<1>4. CASE "review_threads" \in w.absent
  <2>1. w.reviews = {} /\ w.threads = {}
    BY <1>4 DEF Consistent
  <2>2. /\ Field(Not_Present, "reviews", Not_Present) = Not_Present
        /\ Field(Not_Present, "threads", List({})) = List({})
    BY DEF Field, HasField, Not_Present, Rec
  <2>3. Records(Not_Present) = {} /\ Records(List({})) = {}
    BY DEF Records, Not_Present, Rec, List
  <2> QED
    BY <1>3, <1>4, <2>1, <2>2, <2>3
<1>5. CASE "review_threads" \notin w.absent
  <2>1. /\ Field(Rec(both), "reviews", Rec(both)) = List(w.reviews)
        /\ Field(Rec(both), "threads", List({})) = List(w.threads)
    BY <1>2 DEF Field, HasField, Rec
  <2>2. Records(List(w.reviews)) = w.reviews /\ Records(List(w.threads)) = w.threads
    BY DEF Records, List
  <2> QED
    BY <1>3, <1>5, <2>1, <2>2
<1> QED
  BY <1>4, <1>5

(* The approvals and the threads at the head are those of the change that    *)
(* was found, where each of them says which revision it is of.               *)
LEMMA ReviewsAreOfTheHead ==
  ASSUME NEW w, NEW in, NEW lp, NEW s, s.world = w, Looked(lp, s), lp.found, NEW v,
         v.approved = (\E r \in w.reviews : r.state = "APPROVED" /\ OfHead(r.sha, lp.pr.sha)),
         v.unresolved
           = Cardinality({h \in w.threads : ~h.resolved /\ OfHead(h.sha, lp.pr.sha)}),
         v.sha = lp.pr.sha
  PROVE  HoldsOf("reviews", v, Saw(w, in))
<1>1. PICK p \in Proposed(w) : Matches(lp.pr, p)
  BY DEF Looked
<1>2. v.sha = "" \/ v.sha = p.sha
  BY <1>1 DEF Matches
<1>3. Proposed(w) # {} /\ (v.sha = "" \/ \E q \in Proposed(w) : v.sha = q.sha)
  BY <1>1, <1>2
<1>4. CASE v.sha = "" \/ \E x \in w.reviews \union w.threads : x.sha = ""
  <2>1. UndatedReviews(v, w)
    BY <1>3, <1>4 DEF UndatedReviews
  <2> QED
    BY <2>1, HoldsWhen DEF Misread
<1>5. CASE v.sha # "" /\ \A x \in w.reviews \union w.threads : x.sha # ""
  <2>1. \A x \in w.reviews \union w.threads : OfHead(x.sha, lp.pr.sha) <=> x.sha = v.sha
    BY <1>5 DEF OfHead
  <2>2. v.approved = \E r \in w.reviews : r.state = "APPROVED" /\ r.sha = v.sha
    BY <2>1
  <2>3. {h \in w.threads : ~h.resolved /\ OfHead(h.sha, lp.pr.sha)}
          = {h \in w.threads : ~h.resolved /\ h.sha = v.sha}
    BY <2>1
  <2>4. ReviewsSay(v, w)
    BY <2>2, <2>3 DEF ReviewsSay
  <2>5. TrueOf("reviews", v, w, in)
    BY <1>3, <1>5, <2>4 DEF TrueOf
  <2> QED
    BY <2>5, HoldsWhen
<1> QED
  BY <1>4, <1>5

LEMMA ReviewsIsTrue ==
  ASSUME NEW s, Dated(s), Consistent(s.world), NEW in, in.item
  PROVE  Truthful(ReviewsProbe(s, in), "reviews", s, in)
<1> DEFINE w == s.world
           lp == LookupPullRequest(s, in)
           t == ObserveGit(lp.s, "git.list_reviews", lp.pr.id)
           reviews == Records(Field(Value(t), "reviews", Value(t)))
           threads == Records(Field(Value(t), "threads", List({})))
           approved == \E x \in reviews : x.state = "APPROVED" /\ OfHead(x.sha, lp.pr.sha)
           unresolved == Cardinality({h \in threads : /\ ~h.resolved
                                                      /\ OfHead(h.sha, lp.pr.sha)})
           v == [approved |-> approved, unresolved |-> unresolved, sha |-> lp.pr.sha]
           nothing == ObservedFact(NoReviews, lp.ev)
           seen == ObservedFact(v, lp.ev \union Evidence(t))
           r == ReviewsProbe(s, in)
<1> SUFFICES Truthful(r, "reviews", s, in)
  OBVIOUS
<1>1. Looked(lp, s)
  BY PullRequestLooked
<1>2. After(lp.s, s) /\ Dated(lp.s) /\ lp.s.world = w
  BY <1>1 DEF After, Looked
<1>3. After(t, s) /\ SeenOf(t.seen, GitAnswer(w, "git.list_reviews", lp.pr.id))
  <2> HIDE DEF lp
  <2>1. After(t, lp.s) /\ SeenOf(t.seen, GitAnswer(w, "git.list_reviews", lp.pr.id))
    BY <1>2, ObserveAfter, ObserveTells
  <2> QED
    BY <1>2, <2>1, AfterAfter
<1>4. \/ r = Asserts(lp.s, NoAccess)
      \/ ~lp.failed /\ ~lp.found /\ r = Asserts(lp.s, nothing)
      \/ r = Asserts(lp.s, Insufficient)
      \/ r = Asserts(t, NoAccess)
      \/ ~lp.failed /\ lp.found /\ t.seen.ok /\ r = Asserts(t, seen)
  <2>1. lp.failed \in BOOLEAN /\ lp.found \in BOOLEAN /\ (lp.failed => ~lp.found)
    BY <1>1 DEF Looked
  <2>2. r = CASE lp.failed -> Asserts(lp.s, NoAccess)
              [] ~lp.failed /\ ~lp.found -> Asserts(lp.s, nothing)
              [] lp.found /\ lp.pr.id = "" -> Asserts(lp.s, Insufficient)
              [] OTHER -> Asserts(t, IF ~t.seen.ok THEN NoAccess ELSE seen)
    BY Zenon DEF ReviewsProbe, ReviewsOf
  <2> HIDE DEF lp, t, nothing, seen, r
  <2> QED
    BY <2>1, <2>2
<1> HIDE DEF lp, t, r
<1>5. ~lp.failed /\ ~lp.found => HoldsOf("reviews", NoReviews, Saw(w, in))
  <2>1. ~lp.failed /\ ~lp.found => Proposed(w) = {}
    BY <1>1 DEF Looked
  <2> QED
    BY <2>1, HoldsWhen DEF TrueOf
<1>6. ASSUME lp.found, t.seen.ok
      PROVE  HoldsOf("reviews", v, Saw(w, in))
  <2>1. v.approved = approved /\ v.unresolved = unresolved /\ v.sha = lp.pr.sha
    OBVIOUS
  <2> HIDE DEF v
  <2>2. reviews = w.reviews /\ threads = w.threads
    <3> HIDE DEF reviews, threads
    <3>1. /\ Records(Field(t.seen.value, "reviews", t.seen.value)) = w.reviews
          /\ Records(Field(t.seen.value, "threads", List({}))) = w.threads
      BY <1>3, <1>6, ReviewsAnswered
    <3> QED
      BY <3>1 DEF reviews, threads, Value
  <2> HIDE DEF reviews, threads
  <2>3. v.unresolved = Cardinality({h \in w.threads : ~h.resolved /\ OfHead(h.sha, lp.pr.sha)})
    BY <2>1, <2>2
  <2> HIDE DEF unresolved
  <2>4. v.approved = (\E x \in w.reviews : x.state = "APPROVED" /\ OfHead(x.sha, lp.pr.sha))
    BY <2>1, <2>2
  <2> HIDE DEF approved
  <2> QED
    BY <1>1, <1>6, <2>1, <2>3, <2>4, ReviewsAreOfTheHead
<1>7. ~lp.failed => Fresh(lp.ev, s.now) /\ Fresh(lp.ev \union Evidence(t), s.now)
  BY <1>1, FreshOfMore DEF Looked
<1> HIDE DEF v
<1> QED
  BY <1>2, <1>3, <1>4, <1>5, <1>6, <1>7, Asserted DEF nothing, seen

(* What is answered about a merge names the state the host holds, or none.   *)
LEMMA MergeStateAnswered ==
  ASSUME NEW w, NEW pr, NEW seen, seen.ok, SeenOf(seen, GitAnswer(w, "git.merge_state", pr))
  PROVE  Field(seen.value, "state", "") \in {"", w.hostedMerge}
<1> DEFINE a == MergeState(w, pr)
           stated == [state |-> w.hostedMerge]
           merged == [merged |-> w.ancestor]
<1>1. GitAnswer(w, "git.merge_state", pr) = a
  BY DEF GitAnswer
<1>2. stated.state = w.hostedMerge /\ "state" \in DOMAIN stated /\ "state" \notin DOMAIN merged
  OBVIOUS
<1> HIDE DEF stated, merged
<1>3. \/ seen.value = Not_Present
      \/ seen.value = Rec(stated)
      \/ seen.value = Rec(merged)
  <2>1. \/ a = ViaHost(w, "merge_state", Rec(stated))
        \/ a = Inference(Rec(merged))
        \/ a = None("UNAVAILABLE")
    BY DEF MergeState, stated, merged
  <2> HIDE DEF a
  <2>2. a.how \in Answering \union {"map"} /\ seen.value = Unwrapped(a)
    BY <1>1 DEF SeenOf
  <2> QED
    BY <2>1, <2>2, ViaHostAnswers, Unwraps, NoAnswer
<1>4. Field(Not_Present, "state", "") = ""
  BY DEF Field, HasField, Not_Present, Rec
<1>5. Field(Rec(stated), "state", "") = w.hostedMerge /\ Field(Rec(merged), "state", "") = ""
  BY <1>2 DEF Field, HasField, Rec
<1> QED
  BY <1>3, <1>4, <1>5

LEMMA MergeStateIsTrue ==
  ASSUME NEW s, Dated(s), Consistent(s.world), NEW in, in.item
  PROVE  Truthful(MergeStateProbe(s, in), "merge_state", s, in)
<1> DEFINE w == s.world
           lp == LookupPullRequest(s, in)
           t == ObserveGit(lp.s, "git.merge_state", lp.pr)
           askable == lp.pr.head # "" \/ lp.pr.sha # "" \/ lp.pr.base \/ lp.pr.id # ""
           own == IF lp.pr.state = "" THEN Insufficient ELSE Derived(lp.pr.state, lp.ev)
           hosted == Field(Value(t), "state", "")
           v == IF hosted = "" THEN lp.pr.state ELSE hosted
           none == ObservedFact("NOT_PROPOSED", lp.ev)
           seen == ObservedFact(v, lp.ev \union Evidence(t))
           r == MergeStateProbe(s, in)
<1> SUFFICES Truthful(r, "merge_state", s, in)
  OBVIOUS
<1>1. Looked(lp, s)
  BY PullRequestLooked
<1>2. After(lp.s, s) /\ Dated(lp.s) /\ lp.s.world = w
  BY <1>1 DEF After, Looked
<1>3. After(t, s) /\ SeenOf(t.seen, GitAnswer(w, "git.merge_state", lp.pr))
  <2> HIDE DEF lp
  <2>1. After(t, lp.s) /\ SeenOf(t.seen, GitAnswer(w, "git.merge_state", lp.pr))
    BY <1>2, ObserveAfter, ObserveTells
  <2> QED
    BY <1>2, <2>1, AfterAfter
<1>4. \/ r = Asserts(lp.s, NoAccess)
      \/ ~lp.failed /\ ~lp.found /\ r = Asserts(lp.s, none)
      \/ ~lp.failed /\ r = Asserts(lp.s, own)
      \/ r = Asserts(t, NoAccess)
      \/ ~lp.failed /\ r = Asserts(t, own)
      \/ ~lp.failed /\ lp.found /\ t.seen.ok /\ r = Asserts(t, seen)
  <2>1. lp.failed \in BOOLEAN /\ lp.found \in BOOLEAN /\ (lp.failed => ~lp.found)
    BY <1>1 DEF Looked
  <2>2. r = CASE lp.failed -> Asserts(lp.s, NoAccess)
              [] ~lp.failed /\ ~lp.found -> Asserts(lp.s, none)
              [] lp.found /\ ~askable -> Asserts(lp.s, own)
              [] OTHER -> Asserts(t, IF ~t.seen.ok
                                     THEN IF lp.pr.state = "" THEN NoAccess ELSE own
                                     ELSE seen)
    BY Zenon DEF MergeStateProbe, MergeStateOf
  <2> HIDE DEF lp, t, none, own, seen, r, askable
  <2> QED
    BY <2>1, <2>2
<1> HIDE DEF lp, t, r
<1>5. ~lp.failed /\ ~lp.found => HoldsOf("merge_state", "NOT_PROPOSED", Saw(w, in))
  BY <1>1, HoldsWhen DEF TrueOf, Looked
<1>6. ASSUME lp.found, t.seen.ok
      PROVE  HoldsOf("merge_state", v, Saw(w, in))
  <2>1. PICK p \in Proposed(w) : Matches(lp.pr, p)
    BY <1>1, <1>6 DEF Looked
  <2>2. lp.pr.state = p.state /\ p.state # "NOT_PROPOSED"
    BY <2>1 DEF Matches, Proposed, Consistent, PullRequests
  <2>3. hosted = "" \/ hosted = w.hostedMerge
    BY <1>3, <1>6, MergeStateAnswered DEF Value
  <2>4. w.hostedMerge # "NOT_PROPOSED"
    BY DEF Consistent
  <2>5. v \in {p.state, w.hostedMerge} /\ v # "NOT_PROPOSED"
    BY <2>2, <2>3, <2>4
  <2> HIDE DEF v
  <2> QED
    BY <2>1, <2>5, HoldsWhen DEF TrueOf
<1>7. own = Insufficient \/ own = Derived(lp.pr.state, lp.ev)
  OBVIOUS
<1>8. ~lp.failed => Fresh(lp.ev, s.now) /\ Fresh(lp.ev \union Evidence(t), s.now)
  BY <1>1, FreshOfMore DEF Looked
<1> HIDE DEF v, own
<1> QED
  BY <1>2, <1>3, <1>4, <1>5, <1>6, <1>7, <1>8, Asserted DEF none, seen

(* The environments that are listed are the ones there are.                  *)
LEMMA EnvironmentsAnswered ==
  ASSUME NEW w, Consistent(w), NEW arg, NEW seen, seen.ok,
         SeenOf(seen, RuntimeAnswer(w, "runtime.list_environments", arg))
  PROVE  Records(seen.value) = w.environments
<1>1. RuntimeAnswer(w, "runtime.list_environments", arg)
        = Reach(w, w.runtime, "environments", List(w.environments))
  BY DEF RuntimeAnswer, ListEnvironments
<1>2. seen.value = IF "environments" \in w.absent THEN Not_Present ELSE List(w.environments)
  BY <1>1, ReachAnswers DEF SeenOf
<1>3. "environments" \in w.absent => w.environments = {}
  BY DEF Consistent
<1> QED
  BY <1>2, <1>3 DEF Records, List, Not_Present, Rec

(* What is seen of an environment is the revision that is deployed.          *)
LEMMA VersionAnswered ==
  ASSUME NEW w, Consistent(w), NEW n, NEW seen, seen.ok,
         SeenOf(seen, RuntimeAnswer(w, "runtime.deployed_version", n))
  PROVE  Field(seen.value, "sha", Atom("")).atom = w.deployed
<1> DEFINE version == [sha |-> Atom(w.deployed)]
           a == Reach(w, w.runtime, "deployed_version", Rec(version))
<1>1. version.sha = Atom(w.deployed) /\ "sha" \in DOMAIN version
  OBVIOUS
<1> HIDE DEF version
<1>2. seen.value = IF "deployed_version" \in w.absent THEN Not_Present ELSE Rec(version)
  <2>1. \/ RuntimeAnswer(w, "runtime.deployed_version", n) = a
        \/ RuntimeAnswer(w, "runtime.deployed_version", n) = None("UNAVAILABLE")
    BY DEF RuntimeAnswer, DeployedVersion, version
  <2> QED
    BY <2>1, ReachAnswers, NoAnswer DEF SeenOf
<1>3. "deployed_version" \in w.absent => w.deployed = ""
  BY DEF Consistent
<1>4. Atom(w.deployed).atom = w.deployed /\ Atom("").atom = ""
  BY DEF Atom
<1>5. Field(Not_Present, "sha", Atom("")) = Atom("")
  BY DEF Field, HasField, Not_Present, Rec
<1>6. Field(Rec(version), "sha", Atom("")) = Atom(w.deployed)
  BY <1>1 DEF Field, HasField, Rec
<1> QED
  BY <1>2, <1>3, <1>4, <1>5, <1>6

(* What is running where: of a set of names that were all asked.             *)
LEMMA DeploymentsTell ==
  ASSUME NEW s, Dated(s), Consistent(s.world), NEW names, IsFiniteSet(names), NEW wanted
  PROVE  LET d == Deployments(s, names, wanted) IN
         /\ After(d.s, s)
         /\ d.running \subseteq names
         /\ d.running # {} => s.world.deployed \in wanted
         /\ d.running = {} /\ d.dark = {} /\ names # {} => s.world.deployed \notin wanted
<1> DEFINE asked == AskEach(s, "runtime.deployed_version", names)
           sha(n) == Field(asked.seen[n].value, "sha", Atom("")).atom
           running == {n \in names : asked.seen[n].ok /\ sha(n) \in wanted}
           dark == {n \in names : ~asked.seen[n].ok}
           d == Deployments(s, names, wanted)
<1>1. Told(asked, s, "runtime.deployed_version", names, names)
  BY AskEachTells
<1>2. d.s = asked.s /\ d.running = running /\ d.dark = dark
  <2>1. d = [s |-> asked.s, running |-> running, dark |-> dark,
             ev |-> EvidenceOfEach(asked.seen)]
    BY Zenon DEF Deployments
  <2> HIDE DEF asked, running, dark, d
  <2> QED
    BY <2>1
<1> HIDE DEF asked, d
<1>3. \A n \in names : asked.seen[n].ok => sha(n) = s.world.deployed
  <2> TAKE n \in names
  <2> DEFINE seen == asked.seen[n]
  <2>1. SeenOf(seen, RuntimeAnswer(s.world, "runtime.deployed_version", n))
    BY <1>1 DEF Told
  <2> HIDE DEF seen
  <2>2. seen.ok => Field(seen.value, "sha", Atom("")).atom = s.world.deployed
    BY <2>1, VersionAnswered
  <2> QED
    BY <2>2 DEF seen
<1>4. After(d.s, s)
  BY <1>1, <1>2 DEF Told
<1> HIDE DEF sha
<1>5. /\ running \subseteq names
      /\ running # {} => s.world.deployed \in wanted
      /\ running = {} /\ dark = {} /\ names # {} => s.world.deployed \notin wanted
  BY <1>3
<1> HIDE DEF running, dark
<1> QED
  BY <1>2, <1>4, <1>5 DEF d

LEMMA DeploymentIsTrue ==
  ASSUME NEW s, Dated(s), Consistent(s.world), NEW in, in.item
  PROVE  Truthful(DeploymentProbe(s, in), "deployment", s, in)
<1> DEFINE w == s.world
           t == ObserveRuntime(s, "runtime.list_environments", NoArg)
           lp == LookupPullRequest(t, in)
           wanted == {lp.pr.sha, lp.pr.mergeSha} \ {""}
           names == {e.name : e \in Records(Value(t))}
           d == Deployments(lp.s, names, wanted)
           seen == ObservedFact(d.running, Evidence(t) \union lp.ev \union d.ev)
           dark == Unavailable(d.s, Insufficient)
           r == DeploymentProbe(s, in)
<1> SUFFICES Truthful(r, "deployment", s, in)
  OBVIOUS
<1>1. After(t, s) /\ SeenOf(t.seen, RuntimeAnswer(w, "runtime.list_environments", NoArg))
  BY ObserveAfter, ObserveTells
<1>2. Dated(t) /\ t.world = w
  BY <1>1 DEF After
<1>3. Looked(lp, t)
  <2> HIDE DEF t
  <2> QED
    BY <1>2, PullRequestLooked
<1>4. After(lp.s, s)
  BY <1>1, <1>3, AfterAfter DEF Looked
<1>5. Dated(lp.s) /\ lp.s.world = w
  BY <1>4 DEF After
<1>6. \/ r = Asserts(t, NoAccess)
      \/ r = Asserts(lp.s, Insufficient)
      \/ t.seen.ok /\ r = dark
      \/ /\ t.seen.ok /\ wanted # {} /\ (d.dark = {} \/ d.running # {})
         /\ r = Asserts(d.s, seen)
  <2>1. r = CASE ~t.seen.ok -> Asserts(t, NoAccess)
              [] t.seen.ok /\ wanted = {} -> Asserts(lp.s, Insufficient)
              [] OTHER -> IF d.dark # {} /\ d.running = {} THEN dark ELSE Asserts(d.s, seen)
    BY Zenon DEF DeploymentProbe, DeploymentOf, DeploymentSeen
  <2> HIDE DEF t, lp, wanted, names, d, seen, dark, r
  <2> QED
    BY <2>1
<1> HIDE DEF t, lp, r, names, wanted, d
<1>7. t.seen.ok => names = {e.name : e \in w.environments} /\ IsFiniteSet(names)
  <2> SUFFICES ASSUME t.seen.ok
               PROVE  names = {e.name : e \in w.environments} /\ IsFiniteSet(names)
    OBVIOUS
  <2>1. Records(Value(t)) = w.environments
    BY <1>1, EnvironmentsAnswered DEF Value
  <2>2. names = {e.name : e \in w.environments}
    BY <2>1 DEF names
  <2>3. IsFiniteSet(w.environments)
    BY DEF Consistent
  <2> DEFINE named == [e \in w.environments |-> e.name]
  <2>4. named \in Surjection(w.environments, names)
    BY <2>2 DEF Surjection
  <2> QED
    BY <2>2, <2>3, <2>4, FS_Surjection
<1>8. t.seen.ok =>
        /\ After(d.s, lp.s)
        /\ d.running \subseteq names
        /\ d.running # {} => w.deployed \in wanted
        /\ d.running = {} /\ d.dark = {} /\ names # {} => w.deployed \notin wanted
  BY <1>5, <1>7, DeploymentsTell DEF d
<1>9. t.seen.ok => After(d.s, s)
  BY <1>4, <1>8, AfterAfter
<1>10. ASSUME wanted # {}
       PROVE  \E p \in Proposed(w) : wanted = {p.sha, p.mergeSha} \ {""}
  <2>1. NoPr.sha = "" /\ NoPr.mergeSha = ""
    BY Zenon DEF NoPr
  <2>2. lp.found
    BY <1>3, <1>10, <2>1 DEF Looked, wanted
  <2>3. PICK p \in Proposed(w) : Matches(lp.pr, p)
    BY <1>2, <1>3, <2>2 DEF Looked
  <2> QED
    BY <1>10, <2>3 DEF Matches, wanted
<1>11. ASSUME t.seen.ok, wanted # {}, d.dark = {} \/ d.running # {}
       PROVE  HoldsOf("deployment", d.running, Saw(w, in))
  <2>1. PICK p \in Proposed(w) : wanted = {p.sha, p.mergeSha} \ {""}
    BY <1>10, <1>11
  <2>2. CASE d.running = {}
    <3>1. names = {} \/ w.deployed \notin {p.sha, p.mergeSha} \ {""}
      BY <1>8, <1>11, <2>1, <2>2
    <3> QED
      BY <1>7, <1>11, <2>1, <2>2, <3>1, HoldsWhen DEF TrueOf
  <2>3. CASE d.running # {}
    <3>1. w.deployed \in Shas(w)
      BY <1>8, <1>11, <2>1, <2>3 DEF Shas
    <3>2. d.running \subseteq {e.name : e \in w.environments}
      BY <1>7, <1>8, <1>11
    <3> QED
      BY <2>3, <3>1, <3>2, HoldsWhen DEF TrueOf
  <2> QED
    BY <2>2, <2>3
<1>12. t.seen.ok => Fresh(Evidence(t) \union lp.ev \union d.ev, s.now)
  <2>1. t.seen.ok => Fresh(Evidence(t), s.now)
    BY <1>1, SeenIsFresh
  <2> QED
    BY <2>1, FreshOfMore
<1>13. t.seen.ok => Truthful(dark, "deployment", s, in)
  <2>1. dark.s = d.s /\ dark.a = Insufficient
    BY DEF Unavailable
  <2> HIDE DEF dark
  <2> QED
    BY <1>9, <2>1, AssertedAnyhow
<1> HIDE DEF dark
<1> QED
  BY <1>1, <1>4, <1>6, <1>9, <1>11, <1>12, <1>13, Asserted DEF seen

LEMMA OutcomeAnswered ==
  ASSUME NEW w, NEW arg, NEW seen, seen.ok,
         SeenOf(seen, RuntimeAnswer(w, "runtime.outcome_evidence", arg))
  PROVE  Field(seen.value, "holds", Atom("unstated")).atom = w.holds
<1> DEFINE held == Reach(w, w.runtime, "outcome_evidence", Atom(w.holds))
           verdict == [holds |-> Atom(w.holds)]
<1>1. verdict.holds = Atom(w.holds) /\ "holds" \in DOMAIN verdict
  OBVIOUS
<1> HIDE DEF verdict
<1>2. seen.value = Rec(verdict)
  <2>1. \/ RuntimeAnswer(w, "runtime.outcome_evidence", arg) = held /\ held.how = "unknown"
        \/ RuntimeAnswer(w, "runtime.outcome_evidence", arg) = None("INSUFFICIENT_EVIDENCE")
        \/ RuntimeAnswer(w, "runtime.outcome_evidence", arg) = Fact(Rec(verdict))
    BY DEF RuntimeAnswer, OutcomeEvidence, verdict
  <2>2. "unknown" \notin Answering \union {"map"}
    BY DEF Answering
  <2> HIDE DEF held
  <2> QED
    BY <2>1, <2>2, NoAnswer, Unwraps DEF SeenOf
<1>3. Field(Rec(verdict), "holds", Atom("unstated")) = Atom(w.holds)
  BY <1>1 DEF Field, HasField, Rec
<1>4. Atom(w.holds).atom = w.holds
  BY DEF Atom
<1> QED
  BY <1>2, <1>3, <1>4

LEMMA OutcomeIsTrue ==
  ASSUME NEW s, Dated(s), Consistent(s.world), NEW in, in.item
  PROVE  Truthful(OutcomeProbe(s, in), "outcome_evidence", s, in)
<1> DEFINE w == s.world
           t == ObserveRuntime(s, "runtime.outcome_evidence", NoArg)
           holds == Field(Value(t), "holds", Atom("unstated")).atom
           seen == ObservedFact(holds = "yes", Evidence(t))
           r == OutcomeProbe(s, in)
<1> SUFFICES Truthful(r, "outcome_evidence", s, in)
  OBVIOUS
<1>1. After(t, s) /\ SeenOf(t.seen, RuntimeAnswer(w, "runtime.outcome_evidence", NoArg))
  BY ObserveAfter, ObserveTells
<1>2. \/ r = Asserts(t, NoAccess)
      \/ r = Asserts(t, Insufficient)
      \/ t.seen.ok /\ r = Asserts(t, seen)
  <2>1. r = Asserts(t, IF ~t.seen.ok THEN NoAccess
                       ELSE IF holds = "unstated" THEN Insufficient ELSE seen)
    BY DEF OutcomeProbe
  <2> HIDE DEF t, holds, seen, r
  <2> QED
    BY <2>1
<1> HIDE DEF t, holds, r
<1>3. t.seen.ok => holds = w.holds
  BY <1>1, OutcomeAnswered DEF holds, Value
<1>4. t.seen.ok => HoldsOf("outcome_evidence", holds = "yes", Saw(w, in))
  BY <1>3, HoldsWhen DEF TrueOf
<1>5. t.seen.ok => Fresh(Evidence(t), s.now)
  BY <1>1, SeenIsFresh
<1> QED
  BY <1>1, <1>2, <1>4, <1>5, Asserted

(* The ledger's answer is a record, in which no list is found.               *)
LEMMA LedgerUnread ==
  ASSUME NEW w, NEW op \in {"host.read_run_history", "host.read_child_work_items"},
         NEW seen, seen.ok, SeenOf(seen, HostAnswer(w, op))
  PROVE  Records(seen.value) = {}
<1>1. \E field, v : HostAnswer(w, op) = OfLedger(w, field, v)
  BY DEF HostAnswer, ReadRunHistory, ReadChildWorkItems
<1>2. PICK field, v : HostAnswer(w, op) = OfLedger(w, field, v)
  BY <1>1
<1> DEFINE held == [f \in {field} |-> v]
<1>3. seen.value = Rec(held)
  <2>1. \/ HostAnswer(w, op) = Fact(Rec(held))
        \/ HostAnswer(w, op) = None("UNAVAILABLE")
    BY <1>2 DEF OfLedger
  <2> HIDE DEF held
  <2> QED
    BY <2>1, NoAnswer, Unwraps DEF SeenOf
<1> HIDE DEF held
<1> QED
  BY <1>3 DEF Records, Rec

(* The tracker's children, as it answers about them.                         *)
LEMMA ChildrenAnswered ==
  ASSUME NEW w, Consistent(w), NEW arg, NEW seen, seen.ok,
         SeenOf(seen, PmAnswer(w, "pm.list_children", arg))
  PROVE  {c.work_item_id : c \in Records(seen.value)} = w.pmChildren
<1> DEFINE listed == {[work_item_id |-> c] : c \in w.pmChildren}
<1>1. PmAnswer(w, "pm.list_children", arg) = Reach(w, w.pm, "children", List(listed))
  BY DEF PmAnswer, ListChildren
<1>2. {c.work_item_id : c \in listed} = w.pmChildren
  <2> DEFINE child(c) == [work_item_id |-> c]
  <2>1. \A c : child(c).work_item_id = c
    OBVIOUS
  <2>2. listed = {child(c) : c \in w.pmChildren}
    OBVIOUS
  <2> HIDE DEF child, listed
  <2>3. \A x : x \in {c.work_item_id : c \in listed} <=> x \in w.pmChildren
    BY <2>1, <2>2
  <2> QED
    BY <2>3
<1> HIDE DEF listed
<1>3. seen.value = IF "children" \in w.absent THEN Not_Present ELSE List(listed)
  BY <1>1, ReachAnswers DEF SeenOf
<1>4. CASE "children" \in w.absent
  <2>1. w.pmChildren = {}
    BY <1>4 DEF Consistent
  <2>2. Records(Not_Present) = {}
    BY DEF Records, Not_Present, Rec
  <2> QED
    BY <1>3, <1>4, <2>1, <2>2
<1>5. CASE "children" \notin w.absent
  <2>1. Records(List(listed)) = listed
    BY DEF Records, List
  <2> QED
    BY <1>2, <1>3, <1>5, <2>1
<1> QED
  BY <1>4, <1>5

(* The children are the tracker's: the ledger answered and was not read.     *)
LEMMA ChildrenIsTrue ==
  ASSUME NEW s, Dated(s), Consistent(s.world), NEW in, in.item
  PROVE  Truthful(ChildrenProbe(s, in), "children", s, in)
<1> DEFINE w == s.world
           t == ObserveHost(s, "host.read_child_work_items")
           u == IF in.external THEN ObservePm(t, "pm.list_children", NoArg) ELSE Unseen(t)
           ev == Evidence(t) \union Evidence(u)
           of(x) == IF x.seen.ok THEN {c.work_item_id : c \in Records(Value(x))} ELSE {}
           unread == ~t.seen.ok \/ (in.external /\ ~u.seen.ok)
           v == of(t) \union of(u)
           part == Derived(v, ev)
           seen == ObservedFact(v, ev)
           r == ChildrenProbe(s, in)
<1> SUFFICES Truthful(r, "children", s, in)
  OBVIOUS
<1>1. After(t, s) /\ SeenOf(t.seen, HostAnswer(w, "host.read_child_work_items"))
  BY ObserveAfter, ObserveTells
<1>2. Dated(t) /\ t.world = w
  BY <1>1 DEF After
<1>3. /\ After(u, s)
      /\ in.external => SeenOf(u.seen, PmAnswer(w, "pm.list_children", NoArg))
      /\ ~in.external => ~u.seen.ok
  <2> HIDE DEF t
  <2>1. After(u, t)
    BY <1>2, ObserveAfter
  <2>2. in.external => SeenOf(u.seen, PmAnswer(w, "pm.list_children", NoArg))
    BY <1>2, ObserveTells
  <2>3. ~in.external => ~u.seen.ok
    BY <1>2 DEF Unseen, Dated, SessionFields
  <2> QED
    BY <1>1, <2>1, <2>2, <2>3, AfterAfter
<1>4. \/ r = Asserts(u, NoAccess)
      \/ (t.seen.ok \/ u.seen.ok) /\ r = Asserts(u, part)
      \/ ~unread /\ r = Asserts(u, seen)
  <2>1. r = Asserts(u, CASE ev = {} -> NoAccess
                         [] ev # {} /\ unread -> part
                         [] OTHER -> seen)
    BY Zenon DEF ChildrenProbe
  <2>2. ev # {} => t.seen.ok \/ u.seen.ok
    BY DEF Evidence
  <2> HIDE DEF u, ev, unread, part, seen, r
  <2> QED
    BY <2>1, <2>2
<1> HIDE DEF t, u, r
<1>5. t.seen.ok \/ u.seen.ok => Fresh(ev, s.now)
  <2>1. /\ t.seen.ok => Fresh(Evidence(t), s.now)
        /\ u.seen.ok => Fresh(Evidence(u), s.now)
    BY <1>1, <1>3, SeenIsFresh
  <2> QED
    BY <2>1, FreshOfMore
<1>6. ASSUME ~unread
      PROVE  HoldsOf("children", v, Saw(w, in))
  <2>1. t.seen.ok /\ (in.external => u.seen.ok)
    BY <1>6
  <2>2. of(t) = {}
    <3>1. Records(t.seen.value) = {}
      BY <1>1, <2>1, LedgerUnread
    <3> QED
      BY <3>1 DEF Value
  <2>3. of(u) = TrackersChildren(w, in)
    <3>1. CASE in.external
      <4>1. {c.work_item_id : c \in Records(u.seen.value)} = w.pmChildren
        BY <1>3, <2>1, <3>1, ChildrenAnswered
      <4> QED
        BY <2>1, <3>1, <4>1 DEF Value, TrackersChildren
    <3>2. CASE ~in.external
      BY <1>3, <3>2 DEF TrackersChildren
    <3> QED
      BY <3>1, <3>2
  <2> HIDE DEF of
  <2>4. v = TrackersChildren(w, in)
    BY <2>2, <2>3
  <2> HIDE DEF v
  <2>5. CASE w.children = {}
    <3>1. TrueOf("children", v, w, in)
      BY <2>4, <2>5 DEF TrueOf
    <3> QED
      BY <3>1, HoldsWhen
  <2>6. CASE w.children # {}
    <3>1. Misread("children", v, w, in)
      BY <2>4, <2>6 DEF Misread
    <3> QED
      BY <3>1, HoldsWhen
  <2> QED
    BY <2>5, <2>6
<1>7. ~unread => t.seen.ok
  OBVIOUS
<1> HIDE DEF ev, of, unread, v
<1> QED
  BY <1>3, <1>4, <1>5, <1>6, <1>7, Asserted DEF part, seen

(* The history is empty: the ledger answered and was not read.               *)
LEMMA HistoryIsTrue ==
  ASSUME NEW s, Dated(s), Consistent(s.world), NEW in, in.item
  PROVE  Truthful(HistoryProbe(s, in), "agentos_history", s, in)
<1> DEFINE w == s.world
           t == ObserveHost(s, "host.read_run_history")
           v == {x.stages : x \in Records(Value(t))}
           seen == ObservedFact(v, Evidence(t))
           r == HistoryProbe(s, in)
<1> SUFFICES Truthful(r, "agentos_history", s, in)
  OBVIOUS
<1>1. After(t, s) /\ SeenOf(t.seen, HostAnswer(w, "host.read_run_history"))
  BY ObserveAfter, ObserveTells
<1>2. r = Asserts(t, NoAccess) \/ (t.seen.ok /\ r = Asserts(t, seen))
  <2>1. r = Asserts(t, IF ~t.seen.ok THEN NoAccess ELSE seen)
    BY DEF HistoryProbe
  <2> HIDE DEF t, seen, r
  <2> QED
    BY <2>1
<1> HIDE DEF t, r
<1>3. ASSUME t.seen.ok
      PROVE  HoldsOf("agentos_history", v, Saw(w, in))
  <2>1. Records(t.seen.value) = {}
    BY <1>1, <1>3, LedgerUnread
  <2>2. v = {}
    BY <2>1 DEF Value
  <2> HIDE DEF v
  <2>3. CASE w.runs = {}
    <3>1. TrueOf("agentos_history", v, w, in)
      BY <2>2, <2>3 DEF TrueOf
    <3> QED
      BY <3>1, HoldsWhen
  <2>4. CASE w.runs # {}
    <3>1. Misread("agentos_history", v, w, in)
      BY <2>2, <2>4 DEF Misread
    <3> QED
      BY <3>1, HoldsWhen
  <2> QED
    BY <2>3, <2>4
<1>4. t.seen.ok => Fresh(Evidence(t), s.now)
  BY <1>1, SeenIsFresh
<1> HIDE DEF v
<1> QED
  BY <1>1, <1>2, <1>3, <1>4, Asserted DEF seen

LEMMA RealityProbesTruthful ==
  ASSUME NEW s, Dated(s), Consistent(s.world), NEW in, in.item, NEW e \in Elements
  PROVE  Truthful(RealityProbe(s, e, in), e, s, in)
<1>1. CASE e = "implementation_present"
  BY <1>1, ImplementationIsTrue DEF RealityProbe
<1>2. CASE e = "tests_present"
  BY <1>2, TestsAreTrue DEF RealityProbe
<1>3. CASE e = "pr"
  BY <1>3, PrIsTrue DEF RealityProbe
<1>4. CASE e = "ci"
  BY <1>4, CiIsTrue DEF RealityProbe
<1>5. CASE e = "reviews"
  BY <1>5, ReviewsIsTrue DEF RealityProbe
<1>6. CASE e = "merge_state"
  BY <1>6, MergeStateIsTrue DEF RealityProbe
<1>7. CASE e = "deployment"
  BY <1>7, DeploymentIsTrue DEF RealityProbe
<1>8. CASE e = "outcome_evidence"
  BY <1>8, OutcomeIsTrue DEF RealityProbe
<1>9. CASE e = "children"
  BY <1>9, ChildrenIsTrue DEF RealityProbe
<1>10. CASE e = "agentos_history"
  BY <1>10, HistoryIsTrue DEF RealityProbe
<1> QED
  BY <1>1, <1>2, <1>3, <1>4, <1>5, <1>6, <1>7, <1>8, <1>9, <1>10 DEF Elements

-----------------------------------------------------------------------------
(* What is held of the elements is so of the world it was seen in.           *)
HeldTrue(reality, sawOf) ==
  /\ DOMAIN reality \subseteq Elements
  /\ \A e \in DOMAIN reality :
       /\ IsAssertion(reality[e])
       /\ e \in DOMAIN sawOf
       /\ reality[e].conf = "FACT" => HoldsOf(e, reality[e].value[1], sawOf[e])

(* What assemble writes of itself into a section.                            *)
Notes(section) ==
  CASE section = "authorization" -> {"probe_refusals", "session_aborted_by"}
    [] section = "intent" -> {"source_conflicts"}
    [] OTHER -> {}

Sound(sections) ==
  /\ DOMAIN sections = Sections
  /\ \A section \in Sections : Assertions(sections[section])
  /\ \A section \in Sections : \A k \in Notes(section) \intersect DOMAIN sections[section] :
       sections[section][k].conf = "INFERENCE"
  /\ FewEnvironments(sections["runtime_state"])

(* What is asked for is still to be looked at, or what is known of it was    *)
(* seen in this session.                                                     *)
ToBeSeen(w, e) == \E i \in DOMAIN w.elements : w.elements[i] = e
SeenNow(w, e) == e \in DOMAIN w.reality /\ (Known(w.reality[e]) => Fresh(w.reality[e].ev, w.s.now))
Anew(w) == w.asked \subseteq Elements /\ \A e \in w.asked : ToBeSeen(w, e) \/ SeenNow(w, e)

SeenAnew(p) == \A e \in p.asked : Known(p.reality[e]) => Fresh(p.reality[e].ev, p.at)

(* A package being assembled, and one that was.                              *)
WorkFields == {"version", "tier", "in", "names", "elements", "asked", "s", "sections",
               "reality", "sawOf", "coverage"}

Underway(w) ==
  /\ DOMAIN w = WorkFields
  /\ w.tier \in {1, 2, 3}
  /\ w.tier # 1 => w.in \in Inputs
  /\ w.tier = 1 => w.elements = <<>>
  /\ w.names \in Seq(ProbeNames)
  /\ w.elements \in Seq(Elements)
  /\ Dated(w.s)
  /\ Sound(w.sections)
  /\ HeldTrue(w.reality, w.sawOf)
  /\ Anew(w)

Recorded(p) ==
  /\ p.tier \in {1, 2, 3}
  /\ p.tier # 1 => p.in \in Inputs
  /\ Sound(p.sections)
  /\ DOMAIN p.reality = Elements
  /\ HeldTrue(p.reality, p.sawOf)

AnswerIsTrue(answer) ==
  answer.a.conf = "FACT" => HoldsOf(answer.element, answer.a.value[1], answer.saw)

IInv ==
  /\ world \in Initially \union Worlds
  /\ work # Nothing => Underway(work)
  /\ latest # Nothing => Recorded(latest) /\ SeenAnew(latest)
  /\ answered # <<>> => AnswerIsTrue(answered[1])

LEMMA WorldConsistent == IInv => Consistent(world)
BY DiscoveryAssumption DEF IInv

(* The lists of probes.                                                      *)
LEMMA Listings ==
  /\ Tier1 \in Seq(ProbeNames)
  /\ Tier2 \in Seq(ProbeNames)
  /\ InOrder \in Seq(Elements)
<1>1. Tier1 \in Seq(ProbeNames)
  <2> DEFINE S == {Tier1[i] : i \in DOMAIN Tier1}
  <2>1. Tier1 \in Seq(S)
    BY Tier1Names DEF Tier1
  <2>2. S \subseteq ProbeNames
    BY DEF ProbeNames
  <2> HIDE DEF S
  <2> QED
    BY <2>1, <2>2
<1>2. Tier2 \in Seq(ProbeNames)
  <2> DEFINE S == {Tier2[i] : i \in DOMAIN Tier2}
  <2>1. Tier2 \in Seq(S)
    BY Tier2Names DEF Tier2
  <2>2. S \subseteq ProbeNames
    BY DEF ProbeNames
  <2> HIDE DEF S
  <2> QED
    BY <2>1, <2>2
<1>3. InOrder \in Seq(Elements)
  BY DEF InOrder, Elements
<1> QED
  BY <1>1, <1>2, <1>3

LEMMA SessionLooks ==
  ASSUME NEW s, Dated(s)
  PROVE  Dated(Looking(s)) /\ Looking(s).world = world /\ Looking(s).now = s.now
BY DEF Looking, Dated, SessionFields

(* Beginning a package on what an earlier one held, or on nothing.           *)
LEMMA BeginsUnderway ==
  ASSUME NEW tier \in {1, 2, 3}, NEW in, tier # 1 => in \in Inputs,
         NEW names \in Seq(ProbeNames), NEW elements \in Seq(Elements),
         tier = 1 => elements = <<>>, NEW at,
         NEW previous, previous = Nothing \/ Recorded(previous)
  PROVE  /\ Underway(Begin(tier, in, names, elements, previous, at))
         /\ Begin(tier, in, names, elements, previous, at) # Nothing
<1> DEFINE w == Begin(tier, in, names, elements, previous, at)
<1>1. /\ DOMAIN w = WorkFields
      /\ w.tier = tier /\ w.in = in /\ w.names = names /\ w.elements = elements
      /\ w.s = NewSession(world, suite, at) /\ w.asked = {elements[i] : i \in DOMAIN elements}
      /\ w.sections = IF previous = Nothing THEN EmptySections ELSE previous.sections
      /\ w.reality = IF previous = Nothing THEN <<>> ELSE previous.reality
      /\ w.sawOf = IF previous = Nothing THEN <<>> ELSE previous.sawOf
  BY DEF Begin, WorkFields
<1> HIDE DEF w
<1>2. Dated(w.s)
  BY <1>1, NewSessionDated
<1>3. Sound(w.sections)
  <2>1. Sound(EmptySections)
    BY DEF Sound, EmptySections, Assertions, FewEnvironments, Sections
  <2> QED
    BY <1>1, <2>1 DEF Recorded
<1>4. HeldTrue(w.reality, w.sawOf)
  <2>1. HeldTrue(<<>>, <<>>)
    BY DEF HeldTrue
  <2> QED
    BY <1>1, <2>1 DEF Recorded
<1>5. w # Nothing
  <2>1. "tier" \in DOMAIN w /\ "tier" \notin DOMAIN Nothing
    BY <1>1 DEF WorkFields, Nothing
  <2> QED
    BY <2>1
<1>7. Anew(w)
  <2>1. \A e \in w.asked : e \in Elements /\ ToBeSeen(w, e)
    BY <1>1 DEF ToBeSeen
  <2> QED
    BY <2>1 DEF Anew
<1>6. Underway(w)
  BY <1>1, <1>2, <1>3, <1>4, <1>7 DEF Underway
<1> QED
  BY <1>5, <1>6 DEF w

(* A probe writes into a section of the package, and none of its notes.      *)
LEMMA ProbesWriteSections ==
  ASSUME NEW name \in ProbeNames
  PROVE  /\ SectionOf(name) \in Sections
         /\ Writes(name) \intersect Notes(SectionOf(name)) = {}
<1>1. SectionOf(name) \in Sections
  BY DEF SectionOf, Sections
<1> DEFINE section == SectionOf(name)
<1>2. CASE section \notin {"authorization", "intent"}
  <2>1. Notes(section) = {}
    <3> HIDE DEF section
    <3> QED
      BY <1>2 DEF Notes
  <2> QED
    BY <1>1, <2>1
<1>3. CASE section = "authorization"
  <2>1. name = "host.authorization"
    BY <1>3, Tier1Names, Tier2Names DEF SectionOf, ProbeNames
  <2>2. Notes(section) = {"probe_refusals", "session_aborted_by"}
    <3> HIDE DEF section
    <3> QED
      BY <1>3 DEF Notes
  <2>3. Writes(name) \intersect {"probe_refusals", "session_aborted_by"} = {}
    BY <2>1 DEF Writes
  <2> QED
    BY <1>1, <2>2, <2>3
<1>4. CASE section = "intent"
  <2>1. name \in {"pm.access", "pm.work_item", "pm.issues", "pm.documents"}
    BY <1>4, Tier1Names, Tier2Names DEF SectionOf, ProbeNames
  <2>2. Notes(section) = {"source_conflicts"}
    <3> HIDE DEF section
    <3> QED
      BY <1>4 DEF Notes
  <2>3. "source_conflicts" \notin Writes(name)
    BY <2>1 DEF Writes
  <2> QED
    BY <1>1, <2>2, <2>3
<1> QED
  BY <1>2, <1>3, <1>4

(* Of what is held and what a probe wrote, one or the other is held after.   *)
LEMMA MergeHolds ==
  ASSUME NEW held, NEW asserts
  PROVE  /\ DOMAIN Merge(held, asserts) = DOMAIN held \union DOMAIN asserts
         /\ \A k \in DOMAIN Merge(held, asserts) :
              \/ k \in DOMAIN held /\ Merge(held, asserts)[k] = held[k]
              \/ k \in DOMAIN asserts /\ Merge(held, asserts)[k] = asserts[k]
         /\ \A k \in DOMAIN held \ DOMAIN asserts : Merge(held, asserts)[k] = held[k]
         /\ \A k \in DOMAIN held \intersect DOMAIN asserts :
              Merge(held, asserts)[k] = Promote(held[k], asserts[k])
BY DEF Merge, Promote

LEMMA MergedIsSound ==
  ASSUME NEW sections, Sound(sections), NEW section \in Sections, NEW asserts,
         \A k \in DOMAIN asserts : IsAssertion(asserts[k]),
         DOMAIN asserts \intersect Notes(section) = {},
         section = "runtime_state" => FewEnvironments(asserts)
  PROVE  Sound([sections EXCEPT ![section] = Merge(@, asserts)])
<1> DEFINE held == sections[section]
           now2 == Merge(held, asserts)
           after == [sections EXCEPT ![section] = now2]
<1>1. /\ DOMAIN after = Sections
      /\ after[section] = now2
      /\ \A other \in Sections \ {section} : after[other] = sections[other]
  BY DEF Sound
<1>2. /\ Assertions(held)
      /\ \A k \in Notes(section) \intersect DOMAIN held : held[k].conf = "INFERENCE"
  BY DEF Sound
<1>7. \A k \in DOMAIN now2 : \/ k \in DOMAIN held /\ now2[k] = held[k]
                             \/ k \in DOMAIN asserts /\ now2[k] = asserts[k]
  <2> HIDE DEF held
  <2>1. \A k \in DOMAIN Merge(held, asserts) :
          \/ k \in DOMAIN held /\ Merge(held, asserts)[k] = held[k]
          \/ k \in DOMAIN asserts /\ Merge(held, asserts)[k] = asserts[k]
    BY MergeHolds, Zenon
  <2> QED
    BY <2>1
<1> HIDE DEF held, now2
<1>3. Assertions(now2)
  BY <1>2, <1>7 DEF Assertions
<1>4. \A k \in Notes(section) \intersect DOMAIN now2 : now2[k].conf = "INFERENCE"
  BY <1>2, <1>7
<1>5. FewEnvironments(after["runtime_state"])
  <2>1. FewEnvironments(sections["runtime_state"]) /\ "runtime_state" \in Sections
    BY DEF Sound, Sections
  <2>2. CASE section # "runtime_state"
    BY <1>1, <2>1, <2>2
  <2>3. CASE section = "runtime_state"
    <3>1. FewEnvironments(held) /\ FewEnvironments(asserts)
      BY <2>1, <2>3 DEF held
    <3>2. FewEnvironments(now2)
      BY <3>1, <1>7 DEF FewEnvironments
    <3> QED
      BY <1>1, <2>3, <3>2
  <2> QED
    BY <2>2, <2>3
<1> HIDE DEF after
<1>6. Sound(after)
  BY <1>1, <1>3, <1>4, <1>5 DEF Sound
<1> QED
  BY <1>6 DEF after, now2, held

(* What a probe of a section leaves of the package being assembled.          *)
SectionWritten(name, asserts) ==
  /\ name \in ProbeNames
  /\ DOMAIN asserts \subseteq Writes(name)
  /\ \A k \in DOMAIN asserts : IsAssertion(asserts[k])
  /\ SectionOf(name) = "runtime_state" => FewEnvironments(asserts)
  /\ DOMAIN work' = WorkFields
  /\ work'.tier = work.tier /\ work'.in = work.in /\ work'.elements = work.elements
  /\ work'.reality = work.reality /\ work'.sawOf = work.sawOf
  /\ work'.names = Tail(work.names) /\ work'.asked = work.asked
  /\ Dated(work'.s) /\ work'.s.now = work.s.now
  /\ work'.sections \in {work.sections,
                         [work.sections EXCEPT ![SectionOf(name)] = Merge(@, asserts)]}

LEMMA RunSectionProbeWrites ==
  ASSUME IInv, RunSectionProbe
  PROVE  \E asserts : SectionWritten(Head(work.names), asserts)
<1> DEFINE name == Head(work.names)
           s == Looking(work.s)
           r == SectionProbe(s, name, work.in, work.sections)
           section == SectionOf(name)
<1>1. Underway(work) /\ work.names # <<>> /\ work' = AfterSectionProbe(name, r)
  BY DEF IInv, RunSectionProbe
<1>2. DOMAIN work = WorkFields
  BY <1>1 DEF Underway
<1>3. name \in ProbeNames
  BY <1>1 DEF Underway
<1>4. Dated(s) /\ s.world = world /\ s.now = work.s.now
  BY <1>1, SessionLooks DEF Underway
<1>5. Consistent(s.world) /\ FewEnvironments(work.sections["runtime_state"])
  BY <1>1, <1>4, WorldConsistent DEF Underway, Sound
<1>6. Wrote(r, Writes(name), s)
  <2> HIDE DEF s, name
  <2> QED
    BY <1>3, <1>4, <1>5, SectionProbeWrites
<1>7. section = "runtime_state" => FewEnvironments(r.asserts)
  <2> HIDE DEF s, name
  <2> QED
    BY <1>3, <1>4, <1>5, EnvironmentsAreFew
<1> HIDE DEF name, s, r, section
<1>8. /\ DOMAIN work' = WorkFields
      /\ work'.tier = work.tier /\ work'.in = work.in /\ work'.elements = work.elements
      /\ work'.reality = work.reality /\ work'.sawOf = work.sawOf
      /\ work'.names = Tail(work.names) /\ work'.asked = work.asked
      /\ work'.s \in {work.s, r.s}
      /\ work'.sections \in {work.sections,
                             [work.sections EXCEPT ![section] = Merge(@, r.asserts)]}
  <2>1. CASE work.s.abortedBy # ""
    BY <1>1, <1>2, <2>1 DEF AfterSectionProbe, WorkFields
  <2>2. CASE work.s.abortedBy = ""
    <3>1. work' = [work EXCEPT !.names = Tail(@), !.s = r.s,
                    !.sections = [work.sections EXCEPT ![section] = Merge(@, r.asserts)],
                    !.coverage = Cover(@, name, CoverageOf(r))]
      BY <1>1, <1>2, <2>2 DEF AfterSectionProbe, WorkFields, section
    <3> QED
      BY <1>2, <3>1 DEF WorkFields
  <2> QED
    BY <2>1, <2>2
<1>9. Dated(work'.s) /\ work'.s.now = work.s.now
  BY <1>1, <1>4, <1>6, <1>8 DEF Underway, Wrote, After
<1>10. SectionWritten(name, r.asserts)
  BY <1>3, <1>6, <1>7, <1>8, <1>9 DEF SectionWritten, Wrote, section
<1> QED
  BY <1>10 DEF name

LEMMA RunSectionProbeKeeps ==
  ASSUME IInv, RunSectionProbe
  PROVE  Underway(work')
<1> DEFINE name == Head(work.names)
           section == SectionOf(name)
<1>1. PICK asserts : SectionWritten(name, asserts)
  BY RunSectionProbeWrites
<1>2. Underway(work) /\ work.names # <<>>
  BY DEF IInv, RunSectionProbe
<1>3. Tail(work.names) \in Seq(ProbeNames)
  BY <1>2 DEF Underway
<1>4. section \in Sections /\ Writes(name) \intersect Notes(section) = {}
  BY <1>1, ProbesWriteSections DEF SectionWritten
<1> HIDE DEF name
<1>5. Sound([work.sections EXCEPT ![section] = Merge(@, asserts)])
  <2> HIDE DEF section
  <2> QED
    BY <1>1, <1>2, <1>4, MergedIsSound DEF Underway, SectionWritten, section
<1>6. Anew(work')
  BY <1>1, <1>2 DEF Underway, SectionWritten, Anew, ToBeSeen, SeenNow
<1> QED
  BY <1>1, <1>2, <1>3, <1>5, <1>6 DEF Underway, SectionWritten

(* What is held of one element may be replaced by what was seen of it, and   *)
(* is then of the world it was seen in; or it stands as it was.              *)
LEMMA HeldOfAnother ==
  ASSUME NEW reality, NEW sawOf, HeldTrue(reality, sawOf), NEW e \in Elements, NEW a, NEW w,
         IsAssertion(a), a.conf = "FACT" => HoldsOf(e, a.value[1], w)
  PROVE  HeldTrue(Only(e, a) ++ reality, Only(e, w) ++ sawOf)
<1> DEFINE after == Only(e, a) ++ reality
           saw == Only(e, w) ++ sawOf
<1>1. /\ DOMAIN after = {e} \union DOMAIN reality
      /\ after[e] = a
      /\ \A x \in DOMAIN reality \ {e} : after[x] = reality[x]
  BY DEF ++, Only
<1>2. /\ DOMAIN saw = {e} \union DOMAIN sawOf
      /\ saw[e] = w
      /\ \A x \in DOMAIN sawOf \ {e} : saw[x] = sawOf[x]
  BY DEF ++, Only
<1> HIDE DEF after, saw
<1>3. HeldTrue(after, saw)
  BY <1>1, <1>2 DEF HeldTrue
<1> QED
  BY <1>3 DEF after, saw

LEMMA HeldAsBefore ==
  ASSUME NEW reality, NEW sawOf, HeldTrue(reality, sawOf), NEW e \in DOMAIN reality
  PROVE  HeldTrue(Only(e, reality[e]) ++ reality, sawOf)
<1> DEFINE after == Only(e, reality[e]) ++ reality
<1>1. /\ DOMAIN after = DOMAIN reality
      /\ \A x \in DOMAIN reality : after[x] = reality[x]
  BY DEF ++, Only
<1> HIDE DEF after
<1>2. HeldTrue(after, sawOf)
  BY <1>1 DEF HeldTrue
<1> QED
  BY <1>2 DEF after

(* What a probe of an element leaves of the package being assembled: nothing *)
(* of the element, what was held, or what the probe found in the world.      *)
ElementSeen(e, a) ==
  /\ e \in Elements
  /\ IsAssertion(a)
  /\ \/ a = Unknown("UNAVAILABLE")
     \/ e \in DOMAIN work.reality /\ \E x : IsAssertion(x) /\ a = Promote(work.reality[e], x)
     \/ e \notin DOMAIN work.reality
  /\ DOMAIN work' = WorkFields
  /\ work'.tier = work.tier /\ work'.in = work.in /\ work'.names = work.names
  /\ work'.sections = work.sections
  /\ work'.elements = Tail(work.elements) /\ work'.asked = work.asked
  /\ Dated(work'.s) /\ work'.s.now = work.s.now
  /\ Known(a) => Fresh(a.ev, work.s.now)
  /\ work'.reality = Only(e, a) ++ work.reality
  /\ \/ /\ e \in DOMAIN work.reality /\ a = work.reality[e]
        /\ work'.sawOf = work.sawOf
     \/ /\ a.conf = "FACT" => HoldsOf(e, a.value[1], Saw(world, work.in))
        /\ work'.sawOf = Only(e, Saw(world, work.in)) ++ work.sawOf

LEMMA RunRealityProbeSees ==
  ASSUME IInv, RunRealityProbe
  PROVE  \E a : ElementSeen(Head(work.elements), a)
<1> DEFINE e == Head(work.elements)
           s == Looking(work.s)
           in == work.in
           r == RealityProbe(s, e, in)
           held == e \in DOMAIN work.reality
           a == IF held THEN Promote(work.reality[e], r.a) ELSE r.a
           stands == held /\ a = work.reality[e]
           given == Unknown("UNAVAILABLE")
           here == Saw(world, in)
<1>1. Underway(work) /\ work.elements # <<>> /\ work' = AfterRealityProbe(e, r)
  BY DEF IInv, RunRealityProbe
<1>2. DOMAIN work = WorkFields /\ HeldTrue(work.reality, work.sawOf)
  BY <1>1 DEF Underway
<1>3. e \in Elements /\ work.tier # 1
  BY <1>1 DEF Underway
<1>4. Dated(s) /\ s.world = world /\ s.now = work.s.now
  BY <1>1, SessionLooks DEF Underway
<1>5. Consistent(s.world) /\ in.item
  BY <1>1, <1>3, <1>4, WorldConsistent, DiscoveryAssumption DEF Underway
<1>6. Truthful(r, e, s, in)
  <2> HIDE DEF s, e, in
  <2> QED
    BY <1>3, <1>4, <1>5, RealityProbesTruthful
<1>7. /\ IsAssertion(r.a) /\ Dated(r.s) /\ r.s.now = work.s.now
      /\ r.a.conf = "FACT" => HoldsOf(e, r.a.value[1], here)
      /\ Known(r.a) => Fresh(r.a.ev, work.s.now)
  <2> HIDE DEF s, e, r, in
  <2> QED
    BY <1>4, <1>6 DEF Truthful, After
<1>8. IsAssertion(given) /\ given.conf # "FACT" /\ ~Known(given)
  BY Assertive DEF Unknown, Assertion, Known
<1>9. stands \/ a = r.a
  BY DEF Promote
<1>12. Known(a) => Fresh(a.ev, work.s.now)
  <2> HIDE DEF r, e
  <2>1. CASE held
    <3> DEFINE before == work.reality[e]
               next == r.a
    <3>1. IsAssertion(before) /\ IsAssertion(next)
      BY <1>2, <1>7, <2>1 DEF HeldTrue
    <3>2. a = Promote(before, next)
      BY <2>1
    <3> HIDE DEF before, a
    <3>3. CASE Rank[next.conf] > Rank[before.conf] /\ next.ev \subseteq before.ev
      <4>1. Known(next)
        BY <3>1, <3>3 DEF IsAssertion, Rank, Known
      <4>2. Fresh(next.ev, work.s.now)
        BY <1>7, <4>1
      <4>3. Fresh(before.ev, work.s.now)
        BY <3>3, <4>2 DEF Fresh
      <4> QED
        BY <3>2, <3>3, <4>3 DEF Promote
    <3>4. CASE ~(Rank[next.conf] > Rank[before.conf] /\ next.ev \subseteq before.ev)
      BY <1>7, <3>2, <3>4 DEF Promote
    <3> QED
      BY <3>3, <3>4
  <2>2. CASE ~held
    BY <1>7, <2>2
  <2> QED
    BY <2>1, <2>2
<1> HIDE DEF e, s, r, given, here
<1>10. CASE work.s.abortedBy # ""
  <2>1. /\ DOMAIN work' = WorkFields
        /\ work'.tier = work.tier /\ work'.in = work.in /\ work'.names = work.names
        /\ work'.sections = work.sections
        /\ work'.elements = Tail(work.elements) /\ work'.asked = work.asked
        /\ work'.s = work.s
        /\ work'.reality = Only(e, given) ++ work.reality
        /\ work'.sawOf = Only(e, here) ++ work.sawOf
    BY <1>1, <1>2, <1>10 DEF AfterRealityProbe, WorkFields, given, here
  <2>2. ElementSeen(e, given)
    BY <1>1, <1>3, <1>8, <2>1 DEF ElementSeen, Underway, given, here
  <2> QED
    BY <2>2 DEF e
<1>11. CASE work.s.abortedBy = ""
  <2>1. /\ DOMAIN work' = WorkFields
        /\ work'.tier = work.tier /\ work'.in = work.in /\ work'.names = work.names
        /\ work'.sections = work.sections
        /\ work'.elements = Tail(work.elements) /\ work'.asked = work.asked
        /\ work'.s = r.s
        /\ work'.reality = Only(e, a) ++ work.reality
        /\ work'.sawOf = IF stands THEN work.sawOf ELSE Only(e, here) ++ work.sawOf
    BY <1>1, <1>2, <1>11 DEF AfterRealityProbe, WorkFields, here
  <2>2. IsAssertion(a)
    BY <1>2, <1>7, <1>9 DEF HeldTrue
  <2>3. held => a = Promote(work.reality[e], r.a)
    OBVIOUS
  <2> HIDE DEF a
  <2>4. ElementSeen(e, a)
    BY <1>3, <1>7, <1>9, <1>12, <2>1, <2>2, <2>3 DEF ElementSeen, here
  <2> QED
    BY <2>4 DEF e
<1> QED
  BY <1>10, <1>11

LEMMA RunRealityProbeKeeps ==
  ASSUME IInv, RunRealityProbe
  PROVE  Underway(work')
<1> DEFINE e == Head(work.elements)
<1>1. PICK a : ElementSeen(e, a)
  BY RunRealityProbeSees
<1>2. Underway(work) /\ work.elements # <<>>
  BY DEF IInv, RunRealityProbe
<1>3. Tail(work.elements) \in Seq(Elements) /\ work.tier # 1
  BY <1>2 DEF Underway
<1>4. HeldTrue(work.reality, work.sawOf)
  BY <1>2 DEF Underway
<1> HIDE DEF e
<1>5. HeldTrue(work'.reality, work'.sawOf)
  <2>1. CASE e \in DOMAIN work.reality /\ a = work.reality[e] /\ work'.sawOf = work.sawOf
    <3>1. HeldTrue(Only(e, a) ++ work.reality, work.sawOf)
      BY <1>4, <2>1, HeldAsBefore
    <3> QED
      BY <1>1, <2>1, <3>1 DEF ElementSeen
  <2>2. CASE /\ a.conf = "FACT" => HoldsOf(e, a.value[1], Saw(world, work.in))
             /\ work'.sawOf = Only(e, Saw(world, work.in)) ++ work.sawOf
    <3> DEFINE here == Saw(world, work.in)
    <3>2. a.conf = "FACT" => HoldsOf(e, a.value[1], here)
      BY <2>2
    <3> HIDE DEF here
    <3>3. HeldTrue(Only(e, a) ++ work.reality, Only(e, here) ++ work.sawOf)
      BY <1>1, <1>4, <3>2, HeldOfAnother DEF ElementSeen
    <3>1. HeldTrue(Only(e, a) ++ work.reality, Only(e, Saw(world, work.in)) ++ work.sawOf)
      BY <3>3 DEF here
    <3> QED
      BY <1>1, <2>2, <3>1 DEF ElementSeen
  <2> QED
    BY <1>1, <2>1, <2>2 DEF ElementSeen
<1>6. Anew(work')
  <2>1. /\ work'.asked = work.asked /\ work'.elements = Tail(work.elements)
        /\ work'.s.now = work.s.now
        /\ DOMAIN work'.reality = {e} \union DOMAIN work.reality
        /\ work'.reality[e] = a
        /\ \A x \in DOMAIN work.reality \ {e} : work'.reality[x] = work.reality[x]
    BY <1>1 DEF ElementSeen, ++, Only
  <2> SUFFICES ASSUME NEW x \in work.asked, x # e
               PROVE  ToBeSeen(work', x) \/ SeenNow(work', x)
    <3>1. SeenNow(work', e)
      BY <1>1, <2>1 DEF SeenNow, ElementSeen
    <3> QED
      BY <1>2, <2>1, <3>1 DEF Underway, Anew
  <2>2. CASE SeenNow(work, x)
    BY <2>1, <2>2 DEF SeenNow
  <2>3. CASE ToBeSeen(work, x)
    <3>1. PICK i \in DOMAIN work.elements : work.elements[i] = x
      BY <2>3 DEF ToBeSeen
    <3>2. i # 1
      BY <1>2, <3>1 DEF Underway, e
    <3>3. i - 1 \in DOMAIN Tail(work.elements) /\ Tail(work.elements)[i - 1] = x
      BY <1>2, <3>1, <3>2 DEF Underway
    <3> QED
      BY <2>1, <3>3 DEF ToBeSeen
  <2> QED
    BY <1>2, <2>2, <2>3 DEF Underway, Anew
<1> QED
  BY <1>1, <1>2, <1>3, <1>5, <1>6 DEF Underway, ElementSeen

(* What assemble notes of a session is inferred.                             *)
LEMMA NotedIsSound ==
  ASSUME NEW sections, Sound(sections), NEW s, NEW reconciled
  PROVE  Sound(Noted(sections, s, reconciled))
<1> DEFINE by == Derived(Atom(s.abortedBy), {})
           refused == Derived(List(s.refusals), {})
           conflicts == Derived(List(reconciled.conflicts), {})
           aborted == IF s.abortedBy = "" THEN <<>> ELSE Only("session_aborted_by", by)
           notes == aborted ++ Only("probe_refusals", refused)
           authorization == notes ++ sections["authorization"]
           intent == Only("source_conflicts", conflicts) ++ sections["intent"]
           after == Noted(sections, s, reconciled)
<1>1. \A a \in {by, refused, conflicts} : IsAssertion(a) /\ a.conf = "INFERENCE"
  <2>1. \A v, ev : IsAssertion(Derived(v, ev)) /\ Derived(v, ev).conf = "INFERENCE"
    BY DEF Derived, Assertion, IsAssertion
  <2> QED
    BY <2>1
<1> HIDE DEF by, refused, conflicts
<1>2. /\ DOMAIN after = Sections
      /\ after["authorization"] = authorization
      /\ after["intent"] = intent
      /\ \A other \in Sections \ {"authorization", "intent"} : after[other] = sections[other]
  <2>1. after = [sections EXCEPT !["authorization"] = authorization, !["intent"] = intent]
    BY DEF Noted, by, refused, conflicts
  <2> HIDE DEF after, authorization, intent
  <2> QED
    BY <2>1 DEF Sound, Sections
<1>3. \A k \in DOMAIN notes : IsAssertion(notes[k]) /\ notes[k].conf = "INFERENCE"
  <2>1. DOMAIN aborted \subseteq {"session_aborted_by"}
        /\ \A k \in DOMAIN aborted : aborted[k] = by
    <3>1. CASE s.abortedBy = ""
      <4>1. aborted = <<>>
        BY <3>1, Zenon
      <4>2. \A k \in DOMAIN <<>> : FALSE
        OBVIOUS
      <4> QED
        BY <4>1, <4>2
    <3>2. CASE s.abortedBy # ""
      <4>1. aborted = Only("session_aborted_by", by)
        BY <3>2
      <4> QED
        BY <4>1 DEF Only
    <3> QED
      BY <3>1, <3>2
  <2> HIDE DEF aborted
  <2>2. \A k \in DOMAIN notes : notes[k] \in {by, refused}
    BY <2>1 DEF ++, Only
  <2> QED
    BY <1>1, <2>2
<1> HIDE DEF notes, after
<1>4. \A f : Assertions(f) => Assertions(notes ++ f)
  BY <1>3 DEF ++, Only, Assertions
<1>5. \A f : Assertions(f) => Assertions(Only("source_conflicts", conflicts) ++ f)
  BY <1>1 DEF ++, Only, Assertions
<1>6. Assertions(authorization) /\ Assertions(intent)
  BY <1>4, <1>5 DEF Sound, Sections
<1>7. \A k \in Notes("authorization") \intersect DOMAIN authorization :
        authorization[k].conf = "INFERENCE"
  BY <1>3 DEF ++, Only, Sound, Sections
<1>8. \A k \in Notes("intent") \intersect DOMAIN intent : intent[k].conf = "INFERENCE"
  BY <1>1 DEF ++, Only, Sound, Sections
<1> HIDE DEF authorization, intent
<1>9. Sound(after)
  BY <1>2, <1>6, <1>7, <1>8 DEF Sound, Sections
<1> QED
  BY <1>9 DEF after

LEMMA CompletedIsTrue ==
  ASSUME NEW reality, NEW sawOf, HeldTrue(reality, sawOf), NEW w
  PROVE  /\ DOMAIN Completed(reality) = Elements
         /\ HeldTrue(Completed(reality),
                     [e \in Elements |-> IF e \in DOMAIN sawOf THEN sawOf[e] ELSE w])
<1> DEFINE full == Completed(reality)
           saw == [e \in Elements |-> IF e \in DOMAIN sawOf THEN sawOf[e] ELSE w]
<1>1. /\ DOMAIN full = Elements /\ DOMAIN saw = Elements
      /\ \A e \in DOMAIN reality : e \in Elements => full[e] = reality[e]
      /\ \A e \in Elements \ DOMAIN reality : full[e] = NotComputed
      /\ \A e \in DOMAIN sawOf : e \in Elements => saw[e] = sawOf[e]
  BY DEF Completed
<1>2. IsAssertion(NotComputed) /\ NotComputed.conf # "FACT"
  BY Assertive, Confidence
<1> HIDE DEF full, saw
<1>3. HeldTrue(full, saw)
  BY <1>1, <1>2 DEF HeldTrue
<1> QED
  BY <1>1, <1>3 DEF full, saw

LEMMA PackagesAreRecorded ==
  ASSUME NEW w, Underway(w)
  PROVE  Recorded(Package(w)) /\ (w.elements = <<>> => SeenAnew(Package(w)))
<1> DEFINE reality == Completed(w.reality)
           reconciled == ReconcileWorkItem(reality, w.sections["intent"])
           sections == Noted(w.sections, w.s, reconciled)
           here == Saw(world, w.in)
           saw == [e \in Elements |-> IF e \in DOMAIN w.sawOf THEN w.sawOf[e] ELSE here]
           p == Package(w)
<1>1. /\ p.tier = w.tier /\ p.in = w.in /\ p.sections = sections /\ p.reality = reality
      /\ p.sawOf = saw /\ p.asked = w.asked /\ p.at = w.s.now
  BY DEF Package
<1> HIDE DEF p, here
<1>2. DOMAIN reality = Elements /\ HeldTrue(reality, saw)
  BY CompletedIsTrue DEF Underway
<1>3. Sound(sections)
  <2> HIDE DEF reconciled
  <2> QED
    BY NotedIsSound DEF Underway
<1>4. ASSUME w.elements = <<>>
      PROVE  SeenAnew(p)
  <2>1. w.asked \subseteq Elements /\ \A e \in w.asked : SeenNow(w, e)
    <3>1. \A i \in DOMAIN w.elements : FALSE
      BY <1>4
    <3> QED
      BY <3>1 DEF Underway, Anew, ToBeSeen
  <2>2. \A e \in w.asked : reality[e] = w.reality[e]
    BY <2>1 DEF Completed, SeenNow
  <2> HIDE DEF reality
  <2> QED
    BY <1>1, <2>1, <2>2 DEF SeenAnew, SeenNow
<1> HIDE DEF reality, sections, saw
<1>5. Recorded(p)
  BY <1>1, <1>2, <1>3 DEF Recorded, Underway
<1> QED
  BY <1>4, <1>5 DEF p

LEMMA ReprobeAnswersTruly ==
  ASSUME IInv, ReprobeReality
  PROVE  AnswerIsTrue(answered'[1])
<1>1. PICK e \in Elements : answered' =
        <<[element |-> e, a |-> RealityProbe(NewSession(world, suite, now'), e, latest.in).a,
           saw |-> Saw(world, latest.in)]>>
  BY DEF ReprobeReality
<1> DEFINE s == NewSession(world, suite, now')
           in == latest.in
           r == RealityProbe(s, e, in)
           here == Saw(world, in)
           answer == [element |-> e, a |-> r.a, saw |-> here]
<1>2. Dated(s) /\ s.world = world
  BY NewSessionDated
<1>3. in.item
  <2>1. latest # Nothing /\ latest.tier # 1 /\ Recorded(latest)
    BY DEF ReprobeReality, IInv
  <2> QED
    BY <2>1, DiscoveryAssumption DEF Recorded
<1>4. Truthful(r, e, s, in)
  <2>1. Consistent(s.world)
    BY <1>2, WorldConsistent
  <2> HIDE DEF s, in
  <2> QED
    BY <1>2, <1>3, <2>1, RealityProbesTruthful
<1>5. answer.element = e /\ answer.a = r.a /\ answer.saw = here
  OBVIOUS
<1>6. answered'[1] = answer
  BY <1>1
<1> HIDE DEF s, r, answer, in
<1> QED
  BY <1>2, <1>4, <1>5, <1>6 DEF AnswerIsTrue, Truthful

LEMMA InitHolds == Init => IInv
BY DEF Init, IInv

LEMMA NextKeeps == IInv /\ [Next]_vars => IInv'
<1> SUFFICES ASSUME IInv, [Next]_vars
             PROVE  IInv'
  OBVIOUS
<1>1. CASE Orient
  <2>1. work' = Begin(1, NoItem, Tier1, <<>>, Nothing, now)
    BY <1>1 DEF Orient
  <2>2. <<>> \in Seq(Elements)
    OBVIOUS
  <2>3. Underway(work')
    BY <2>1, <2>2, Listings, BeginsUnderway
  <2> QED
    BY <1>1, <2>3 DEF Orient, IInv
<1>2. CASE Deepen
  <2>1. PICK in \in Inputs : work' = Begin(2, in, Tier2, InOrder, latest, now')
    BY <1>2 DEF Deepen
  <2>2. Underway(work')
    BY <1>2, <2>1, Listings, BeginsUnderway DEF Deepen, IInv
  <2> QED
    BY <1>2, <2>2 DEF Deepen, IInv
<1>3. CASE ProbeByName
  <2>1. PICK name \in Targets :
          work' = IF name \in Elements
                  THEN Begin(3, latest.in, <<>>, <<name>>, latest, now')
                  ELSE Begin(3, latest.in, <<name>>, <<>>, latest, now')
    BY <1>3 DEF ProbeByName
  <2>2. latest # Nothing /\ Recorded(latest) /\ latest.in \in Inputs
    <3>1. latest # Nothing /\ latest.tier > 1
      BY <1>3 DEF ProbeByName
    <3> QED
      BY <3>1 DEF IInv, Recorded
  <2>3. name \in Elements \/ name \in ProbeNames
    BY DiscoveryAssumption DEF ProbeNames
  <2>4. CASE name \in Elements
    <3>1. <<>> \in Seq(ProbeNames) /\ <<name>> \in Seq(Elements)
      BY <2>4
    <3>2. work' = Begin(3, latest.in, <<>>, <<name>>, latest, now')
      BY <2>1, <2>4
    <3>3. Underway(Begin(3, latest.in, <<>>, <<name>>, latest, now'))
      <4> DEFINE elements == <<name>>
      <4>1. elements \in Seq(Elements)
        BY <3>1
      <4> HIDE DEF elements
      <4>2. Underway(Begin(3, latest.in, <<>>, elements, latest, now'))
        <5>1. 3 \in {1, 2, 3} /\ 3 # 1
          OBVIOUS
        <5>2. latest = Nothing \/ Recorded(latest)
          BY <2>2
        <5>3. <<>> \in Seq(ProbeNames)
          OBVIOUS
        <5> QED
          BY <2>2, <4>1, <5>1, <5>2, <5>3, BeginsUnderway
      <4> QED
        BY <4>2 DEF elements
    <3> QED
      BY <1>3, <3>2, <3>3 DEF ProbeByName, IInv
  <2>5. CASE name \notin Elements
    <3>1. <<name>> \in Seq(ProbeNames) /\ <<>> \in Seq(Elements)
      BY <2>3, <2>5
    <3>2. work' = Begin(3, latest.in, <<name>>, <<>>, latest, now')
      BY <2>1, <2>5
    <3>3. Underway(Begin(3, latest.in, <<name>>, <<>>, latest, now'))
      BY <2>2, <3>1, BeginsUnderway
    <3> QED
      BY <1>3, <3>2, <3>3 DEF ProbeByName, IInv
  <2> QED
    BY <2>4, <2>5
<1>4. CASE RunSectionProbe
  BY <1>4, RunSectionProbeKeeps DEF RunSectionProbe, IInv
<1>5. CASE RunRealityProbe
  BY <1>5, RunRealityProbeKeeps DEF RunRealityProbe, IInv
<1>6. CASE Assemble
  BY <1>6, PackagesAreRecorded DEF Assemble, IInv
<1>7. CASE ReprobeReality
  BY <1>7, ReprobeAnswersTruly DEF ReprobeReality, IInv
<1>8. CASE WorldChanges
  BY <1>8 DEF WorldChanges, IInv
<1>9. CASE UNCHANGED vars
  BY <1>9 DEF vars, IInv
<1> QED
  BY <1>1, <1>2, <1>3, <1>4, <1>5, <1>6, <1>7, <1>8, <1>9 DEF Next

(* The facts of the invariant, as one theorem of the specification.          *)
THEOREM WhatIsHeldIsTrue == Spec => []IInv
<1> QED
  BY InitHolds, NextKeeps, PTL DEF Spec

(* A fact of a package, and of an answer, was so in the world it was         *)
(* observed in: assertions.ts:108, reality.ts.                               *)
THEOREM FactsAreAlwaysTrue == Spec => []FactsAreTrue
<1>1. IInv => FactsAreTrue
  <2> SUFFICES ASSUME IInv
               PROVE  FactsAreTrue
    OBVIOUS
  <2>1. ASSUME latest # Nothing, NEW e \in Elements, latest.reality[e].conf = "FACT"
        PROVE  HoldsOf(e, latest.reality[e].value[1], latest.sawOf[e])
    BY <2>1 DEF IInv, Recorded, HeldTrue
  <2>2. answered # <<>> /\ answered[1].a.conf = "FACT" =>
          HoldsOf(answered[1].element, answered[1].a.value[1], answered[1].saw)
    BY DEF IInv, AnswerIsTrue
  <2> QED
    BY <2>1, <2>2 DEF FactsAreTrue
<1> QED
  BY <1>1, WhatIsHeldIsTrue, PTL

(* An element a session was asked to look at again is unknown in the package *)
(* it makes, or rests on something seen in that session: assertions.ts:233   *)
(* and package.ts:229-257.                                                   *)
THEOREM AskedIsAlwaysSeenAnew == Spec => []AskedIsSeenAnew
<1>1. IInv => AskedIsSeenAnew
  BY DEF IInv, SeenAnew, Fresh, AskedIsSeenAnew
<1> QED
  BY <1>1, WhatIsHeldIsTrue, PTL

-----------------------------------------------------------------------------
(* Nothing is held more firmly without evidence: what a package being        *)
(* assembled holds, of what the latest held.  What a probe that is still to  *)
(* run writes is held as it was, and no two of them write the same.          *)
Apart(m, n) == SectionOf(m) # SectionOf(n) \/ Writes(m) \intersect Writes(n) = {}

Distinct(list) == \A i, j \in DOMAIN list : i # j => list[i] # list[j]
AllApart(list) == \A i, j \in DOMAIN list : i # j => Apart(list[i], list[j])

ElementsFirmer(held, w) ==
  \A e \in Elements : /\ e \in DOMAIN w.reality
                      /\ Firmer(held.reality[e], w.reality[e])
ElementsUntouched(held, w) ==
  \A i \in DOMAIN w.elements : w.reality[w.elements[i]] = held.reality[w.elements[i]]

SectionFirmer(before, after) ==
  \A k \in DOMAIN before : k \in DOMAIN after /\ Firmer(before[k], after[k])
SectionUntouched(before, after, keys) ==
  \A k \in keys \intersect DOMAIN before : k \in DOMAIN after /\ after[k] = before[k]

SectionsFirmer(held, w) ==
  \A section \in Sections : SectionFirmer(held.sections[section], w.sections[section])
SectionsUntouched(held, w) ==
  \A i \in DOMAIN w.names :
    SectionUntouched(held.sections[SectionOf(w.names[i])], w.sections[SectionOf(w.names[i])],
                     Writes(w.names[i]))

Follows(held, w) ==
  /\ Distinct(w.elements)
  /\ AllApart(w.names)
  /\ ElementsFirmer(held, w)
  /\ ElementsUntouched(held, w)
  /\ SectionsFirmer(held, w)
  /\ SectionsUntouched(held, w)

FInv == IInv /\ (work # Nothing /\ latest # Nothing => Follows(latest, work))

LEMMA FirmAsBefore == \A a : IsAssertion(a) => Firmer(a, a)
BY DEF Firmer, IsAssertion, Rank

(* promote answers with what was held, or with what rests on new evidence.   *)
LEMMA PromotesFirmly ==
  ASSUME NEW before, IsAssertion(before), NEW next, IsAssertion(next)
  PROVE  Firmer(before, Promote(before, next)) /\ IsAssertion(Promote(before, next))
<1>1. CASE Rank[next.conf] > Rank[before.conf] /\ next.ev \subseteq before.ev
  BY <1>1, FirmAsBefore DEF Promote
<1>2. CASE ~(Rank[next.conf] > Rank[before.conf] /\ next.ev \subseteq before.ev)
  BY <1>2 DEF Promote, Firmer
<1> QED
  BY <1>1, <1>2

(* In a tier the probes of one section write different things.               *)
LEMMA RepositoryApart ==
  ASSUME NEW m \in {"repo.commands", "repo.manifests", "repo.configuration", "repo.conventions"},
         NEW n \in {"repo.commands", "repo.manifests", "repo.configuration", "repo.conventions"},
         m # n
  PROVE  Writes(m) \intersect Writes(n) = {}
<1>1. /\ Writes("repo.commands") = {"commands", "build_command", "test_command", "lint_command",
                                    "run_command"}
      /\ Writes("repo.manifests") = {"manifests", "manifest_paths", "lockfiles",
                                     "known_vulnerabilities"}
      /\ Writes("repo.configuration") = {"configuration", "configuration_paths",
                                         "environment_files", "configuration_values"}
      /\ Writes("repo.conventions") = {"conventions", "convention_files"}
  BY DEF Writes
<1> QED
  BY <1>1

LEMMA GitApart ==
  ASSUME NEW m \in {"git.worktrees", "git.tags", "git.churn", "git.pull_requests"},
         NEW n \in {"git.worktrees", "git.tags", "git.churn", "git.pull_requests"},
         m # n
  PROVE  Writes(m) \intersect Writes(n) = {}
<1>1. /\ Writes("git.worktrees") = {"worktrees"}
      /\ Writes("git.tags") = {"tags", "releases"}
      /\ Writes("git.churn") = {"churn"}
      /\ Writes("git.pull_requests") = {"pull_requests", "open_pull_requests", "review_patterns"}
  BY DEF Writes
<1> QED
  BY <1>1

LEMMA IntentApart ==
  ASSUME NEW m \in {"pm.work_item", "pm.issues", "pm.documents"},
         NEW n \in {"pm.work_item", "pm.issues", "pm.documents"},
         m # n
  PROVE  Writes(m) \intersect Writes(n) = {}
<1>1. /\ Writes("pm.work_item") = {"ticket", "ticket_status", "claims_completion",
                                   "linked_changes"}
      /\ Writes("pm.issues") = {"issues", "epics", "milestones", "claimed_capabilities"}
      /\ Writes("pm.documents") = {"external_documents", "decisions"}
  BY DEF Writes
<1> QED
  BY <1>1

LEMMA RuntimeApart ==
  ASSUME NEW m \in {"runtime.environments", "runtime.services", "runtime.data", "runtime.logs"},
         NEW n \in {"runtime.environments", "runtime.services", "runtime.data", "runtime.logs"},
         m # n
  PROVE  Writes(m) \intersect Writes(n) = {}
<1>1. /\ Writes("runtime.environments") = {"runtime_access", "environments",
                                           "declared_environments", "declared_not_observed"}
      /\ Writes("runtime.services") = {"services", "service_health"}
      /\ Writes("runtime.data") = {"stores", "empty_stores", "newest_record_at"}
      /\ Writes("runtime.logs") = {"error_patterns", "error_count", "throughput"}
  BY DEF Writes
<1> QED
  BY <1>1

LEMMA ArchitectureApart ==
  /\ Writes("repo.deployment") \intersect Writes("repo.architecture") = {}
  /\ Writes("repo.architecture") \intersect Writes("repo.deployment") = {}
<1>1. /\ Writes("repo.deployment") = {"deployment_definitions", "containers",
                                      "declared_environments"}
      /\ Writes("repo.architecture") = {"layering", "module_tree", "boundaries_enforced"}
  BY DEF Writes
<1> QED
  BY <1>1

LEMMA Tier2Apart ==
  ASSUME NEW m \in {Tier2[i] : i \in DOMAIN Tier2}, NEW n \in {Tier2[i] : i \in DOMAIN Tier2},
         m # n
  PROVE  Apart(m, n)
<1> DEFINE Group(x) ==
      \/ x = "repository" /\ {m, n} \subseteq {"repo.commands", "repo.manifests",
                                              "repo.configuration", "repo.conventions"}
      \/ x = "git_state" /\ {m, n} \subseteq {"git.worktrees", "git.tags", "git.churn",
                                             "git.pull_requests"}
      \/ x = "intent" /\ {m, n} \subseteq {"pm.work_item", "pm.issues", "pm.documents"}
      \/ x = "runtime_state" /\ {m, n} \subseteq {"runtime.environments", "runtime.services",
                                                 "runtime.data", "runtime.logs"}
      \/ x = "architecture" /\ {m, n} = {"repo.deployment", "repo.architecture"}
<1>1. SectionOf(m) = SectionOf(n) => Group(SectionOf(m))
  BY Tier2Names DEF SectionOf
<1> QED
  BY <1>1, RepositoryApart, GitApart, IntentApart, RuntimeApart, ArchitectureApart DEF Apart

LEMMA Tier2Distinct == Distinct(Tier2)
<1>1. 1..26 = {1, 2, 3, 4, 5, 6, 7, 8, 9, 10, 11, 12, 13, 14, 15, 16, 17, 18, 19, 20, 21, 22,
               23, 24, 25, 26}
  OBVIOUS
<1>2. DOMAIN Tier2 = 1..26
  BY Tier2Names
<1> QED
  BY <1>1, <1>2 DEF Tier2, Distinct

LEMMA InOrderDistinct == Distinct(InOrder)
<1>1. 1..10 = {1, 2, 3, 4, 5, 6, 7, 8, 9, 10} /\ DOMAIN InOrder = 1..10
  BY DEF InOrder
<1> QED
  BY <1>1 DEF InOrder, Distinct

LEMMA TailOf ==
  ASSUME NEW S, NEW list \in Seq(S), list # <<>>
  PROVE  /\ 1 \in DOMAIN list /\ Head(list) = list[1]
         /\ \A i \in DOMAIN Tail(list) : i + 1 \in DOMAIN list /\ Tail(list)[i] = list[i + 1]
                                         /\ i + 1 # 1 /\ i \in Nat
OBVIOUS

LEMMA TailsKeep ==
  ASSUME NEW S, NEW list \in Seq(S), list # <<>>
  PROVE  /\ Distinct(list) => Distinct(Tail(list))
         /\ AllApart(list) => AllApart(Tail(list))
<1> DEFINE rest == Tail(list)
<1>1. \A i \in DOMAIN rest : i + 1 \in DOMAIN list /\ rest[i] = list[i + 1] /\ i \in Nat
  BY TailOf
<1>2. \A i, j \in DOMAIN rest : i # j => i + 1 # j + 1
  BY <1>1
<1> HIDE DEF rest
<1>3. Distinct(list) => Distinct(rest)
  BY <1>1, <1>2 DEF Distinct
<1>4. AllApart(list) => AllApart(rest)
  BY <1>1, <1>2 DEF AllApart
<1> QED
  BY <1>3, <1>4 DEF rest

LEMMA BeginsFollowing ==
  ASSUME NEW held, held # Nothing, Recorded(held), NEW tier, NEW in, NEW names, NEW at,
         NEW elements \in Seq(Elements), Distinct(elements), AllApart(names)
  PROVE  Follows(held, Begin(tier, in, names, elements, held, at))
<1> DEFINE w == Begin(tier, in, names, elements, held, at)
<1>1. /\ w.names = names /\ w.elements = elements
      /\ w.sections = held.sections /\ w.reality = held.reality
  BY DEF Begin
<1> HIDE DEF w
<1>2. \A e \in Elements : e \in DOMAIN held.reality /\ IsAssertion(held.reality[e])
  BY DEF Recorded, HeldTrue
<1>3. ElementsFirmer(held, w)
  BY <1>1, <1>2, FirmAsBefore DEF ElementsFirmer
<1>4. ElementsUntouched(held, w)
  BY <1>1 DEF ElementsUntouched
<1>5. SectionsFirmer(held, w)
  <2>1. \A section \in Sections : Assertions(held.sections[section])
    BY DEF Recorded, Sound
  <2> QED
    BY <1>1, <2>1, FirmAsBefore DEF SectionsFirmer, SectionFirmer, Assertions
<1>6. SectionsUntouched(held, w)
  BY <1>1 DEF SectionsUntouched, SectionUntouched
<1> QED
  BY <1>1, <1>3, <1>4, <1>5, <1>6 DEF Follows, w

(* What a probe writes is held no more firmly than its evidence allows, and  *)
(* is none of what the probes after it write.                                *)
LEMMA SectionProbeFollows ==
  ASSUME IInv, RunSectionProbe, latest # Nothing, Follows(latest, work)
  PROVE  Follows(latest, work')
<1> DEFINE name == Head(work.names)
           section == SectionOf(name)
           before == latest.sections[section]
           held == work.sections[section]
<1>1. PICK asserts : SectionWritten(name, asserts)
  BY RunSectionProbeWrites
<1> DEFINE now2 == Merge(held, asserts)
<1>2. Underway(work) /\ work.names # <<>> /\ Recorded(latest)
  BY DEF IInv, RunSectionProbe
<1>3. /\ work.names \in Seq(ProbeNames)
      /\ 1 \in DOMAIN work.names /\ name = work.names[1]
      /\ \A i \in DOMAIN Tail(work.names) : /\ i + 1 \in DOMAIN work.names /\ i + 1 # 1
                                            /\ Tail(work.names)[i] = work.names[i + 1]
  BY <1>2, TailOf DEF Underway
<1>4. section \in Sections
  BY <1>1, ProbesWriteSections DEF SectionWritten
<1>5. /\ Assertions(held) /\ Assertions(before)
      /\ DOMAIN work.sections = Sections
  BY <1>2, <1>4 DEF Underway, Recorded, Sound
<1>6. SectionFirmer(before, held) /\ SectionUntouched(before, held, Writes(name))
  BY <1>3, <1>4 DEF Follows, SectionsFirmer, SectionsUntouched
<1>7. /\ DOMAIN now2 = DOMAIN held \union DOMAIN asserts
      /\ \A k \in DOMAIN held \ DOMAIN asserts : now2[k] = held[k]
      /\ \A k \in DOMAIN held \intersect DOMAIN asserts : now2[k] = Promote(held[k], asserts[k])
  <2> HIDE DEF held
  <2> QED
    BY DEF Merge
<1> HIDE DEF now2, held, before, name, section
<1>8. SectionFirmer(before, now2)
  <2> SUFFICES ASSUME NEW k \in DOMAIN before
               PROVE  k \in DOMAIN now2 /\ Firmer(before[k], now2[k])
    BY DEF SectionFirmer
  <2>1. k \in DOMAIN held /\ Firmer(before[k], held[k]) /\ k \in DOMAIN now2
    BY <1>6, <1>7 DEF SectionFirmer
  <2>2. CASE k \notin DOMAIN asserts
    BY <1>7, <2>1, <2>2
  <2>3. CASE k \in DOMAIN asserts
    <3>1. held[k] = before[k]
      BY <1>1, <1>6, <2>3 DEF SectionUntouched, SectionWritten
    <3>2. Firmer(held[k], Promote(held[k], asserts[k]))
      BY <1>1, <1>5, <2>1, <2>3, PromotesFirmly DEF Assertions, SectionWritten
    <3> QED
      BY <1>7, <2>1, <2>3, <3>1, <3>2
  <2> QED
    BY <2>2, <2>3
<1>9. ASSUME NEW n, section = SectionOf(n), Apart(name, n),
             SectionUntouched(before, held, Writes(n))
      PROVE  SectionUntouched(before, now2, Writes(n))
  <2>1. Writes(name) \intersect Writes(n) = {}
    BY <1>9 DEF Apart, section
  <2>2. DOMAIN asserts \intersect Writes(n) = {}
    BY <1>1, <2>1 DEF SectionWritten
  <2> QED
    BY <1>7, <1>9, <2>2 DEF SectionUntouched
<1>10. \/ work'.sections = work.sections
       \/ /\ work'.sections[section] = now2
          /\ \A other \in Sections : other # section =>
               work'.sections[other] = work.sections[other]
  BY <1>1, <1>4, <1>5 DEF SectionWritten, section, now2, held
<1>11. SectionsFirmer(latest, work')
  BY <1>8, <1>10 DEF Follows, SectionsFirmer, before
<1>12. SectionsUntouched(latest, work')
  <2> SUFFICES ASSUME NEW i \in DOMAIN Tail(work.names)
               PROVE  LET n == Tail(work.names)[i] IN
                      SectionUntouched(latest.sections[SectionOf(n)],
                                       work'.sections[SectionOf(n)], Writes(n))
    BY <1>1 DEF SectionsUntouched, SectionWritten
  <2> DEFINE n == Tail(work.names)[i]
  <2>1. /\ SectionUntouched(latest.sections[SectionOf(n)], work.sections[SectionOf(n)], Writes(n))
        /\ Apart(name, n)
    BY <1>3 DEF Follows, SectionsUntouched, AllApart
  <2>2. SectionOf(n) \in Sections
    BY <1>3, ProbesWriteSections
  <2> HIDE DEF n
  <2>3. CASE section = SectionOf(n)
    <3>1. SectionUntouched(before, now2, Writes(n))
      BY <1>9, <2>1, <2>3 DEF before, held
    <3> QED
      BY <1>10, <2>1, <2>3, <3>1 DEF n, before
  <2>4. CASE section # SectionOf(n)
    BY <1>10, <2>1, <2>2, <2>4 DEF n
  <2> QED
    BY <2>3, <2>4
<1>13. AllApart(Tail(work.names))
  BY <1>2, <1>3, TailsKeep DEF Follows
<1>14. ElementsFirmer(latest, work') /\ ElementsUntouched(latest, work') /\ Distinct(work'.elements)
  BY <1>1 DEF Follows, ElementsFirmer, ElementsUntouched, SectionWritten
<1> QED
  BY <1>1, <1>11, <1>12, <1>13, <1>14 DEF Follows, SectionWritten

LEMMA RealityProbeFollows ==
  ASSUME IInv, RunRealityProbe, latest # Nothing, Follows(latest, work)
  PROVE  Follows(latest, work')
<1> DEFINE e == Head(work.elements)
<1>1. PICK a : ElementSeen(e, a)
  BY RunRealityProbeSees
<1>2. Underway(work) /\ work.elements # <<>> /\ Recorded(latest)
  BY DEF IInv, RunRealityProbe
<1>3. /\ work.elements \in Seq(Elements)
      /\ 1 \in DOMAIN work.elements /\ e = work.elements[1]
      /\ \A i \in DOMAIN Tail(work.elements) : /\ i + 1 \in DOMAIN work.elements /\ i + 1 # 1
                                               /\ Tail(work.elements)[i] = work.elements[i + 1]
  BY <1>2, TailOf DEF Underway
<1>4. /\ e \in DOMAIN work.reality /\ work.reality[e] = latest.reality[e]
      /\ IsAssertion(work.reality[e])
  <2>1. e \in Elements
    BY <1>3
  <2> QED
    BY <1>2, <1>3, <2>1 DEF Follows, ElementsFirmer, ElementsUntouched, Underway, HeldTrue
<1> HIDE DEF e
<1>5. Firmer(latest.reality[e], a)
  <2>1. CASE a = Unknown("UNAVAILABLE")
    <3>1. a.conf = "UNKNOWN"
      BY <2>1 DEF Unknown, Assertion
    <3> QED
      BY <1>4, <3>1 DEF Firmer, Rank, IsAssertion
  <2>2. CASE \E x : IsAssertion(x) /\ a = Promote(work.reality[e], x)
    BY <1>4, <2>2, PromotesFirmly
  <2> QED
    BY <1>1, <1>4, <2>1, <2>2 DEF ElementSeen
<1>6. /\ DOMAIN work'.reality = {e} \union DOMAIN work.reality
      /\ work'.reality[e] = a
      /\ \A x \in DOMAIN work.reality \ {e} : work'.reality[x] = work.reality[x]
  <2>1. work'.reality = Only(e, a) ++ work.reality
    BY <1>1 DEF ElementSeen
  <2> QED
    BY <2>1 DEF ++, Only
<1>7. ElementsFirmer(latest, work')
  BY <1>5, <1>6 DEF Follows, ElementsFirmer
<1>8. ElementsUntouched(latest, work')
  <2> SUFFICES ASSUME NEW i \in DOMAIN Tail(work.elements)
               PROVE  work'.reality[Tail(work.elements)[i]]
                        = latest.reality[Tail(work.elements)[i]]
    BY <1>1 DEF ElementsUntouched, ElementSeen
  <2> DEFINE x == Tail(work.elements)[i]
  <2>1. /\ x \in Elements /\ x # e
        /\ work.reality[x] = latest.reality[x]
    BY <1>3 DEF Follows, Distinct, ElementsUntouched
  <2>2. x \in DOMAIN work.reality
    BY <2>1 DEF Follows, ElementsFirmer
  <2> QED
    BY <1>6, <2>1, <2>2
<1>9. Distinct(Tail(work.elements))
  BY <1>2, <1>3, TailsKeep DEF Follows
<1>10. SectionsFirmer(latest, work') /\ SectionsUntouched(latest, work') /\ AllApart(work'.names)
  BY <1>1 DEF Follows, SectionsFirmer, SectionsUntouched, ElementSeen
<1> QED
  BY <1>1, <1>7, <1>8, <1>9, <1>10 DEF Follows, ElementSeen

(* What assemble notes is all it changes of the sections.                    *)
LEMMA NotedKeeps ==
  ASSUME NEW sections, DOMAIN sections = Sections, NEW s, NEW reconciled,
         NEW section \in Sections, NEW k \in DOMAIN sections[section]
  PROVE  /\ k \in DOMAIN Noted(sections, s, reconciled)[section]
         /\ k \notin Notes(section) =>
              Noted(sections, s, reconciled)[section][k] = sections[section][k]
<1> DEFINE by == Derived(Atom(s.abortedBy), {})
           refused == Derived(List(s.refusals), {})
           conflicts == Derived(List(reconciled.conflicts), {})
           aborted == IF s.abortedBy = "" THEN <<>> ELSE Only("session_aborted_by", by)
           notes == aborted ++ Only("probe_refusals", refused)
           authorization == notes ++ sections["authorization"]
           intent == Only("source_conflicts", conflicts) ++ sections["intent"]
           after == Noted(sections, s, reconciled)
<1> SUFFICES /\ k \in DOMAIN after[section]
             /\ k \notin Notes(section) => after[section][k] = sections[section][k]
  OBVIOUS
<1>1. after = [sections EXCEPT !["authorization"] = authorization, !["intent"] = intent]
  BY DEF Noted
<1> HIDE DEF by, refused, conflicts
<1>2. DOMAIN notes \subseteq {"session_aborted_by", "probe_refusals"}
  <2>1. DOMAIN aborted \subseteq {"session_aborted_by"}
    <3>1. CASE s.abortedBy = ""
      <4>1. aborted = <<>>
        BY <3>1, Zenon
      <4>2. \A x \in DOMAIN <<>> : FALSE
        OBVIOUS
      <4> QED
        BY <4>1, <4>2
    <3>2. CASE s.abortedBy # ""
      <4>1. aborted = Only("session_aborted_by", by)
        BY <3>2
      <4> QED
        BY <4>1 DEF Only
    <3> QED
      BY <3>1, <3>2
  <2> HIDE DEF aborted
  <2> QED
    BY <2>1 DEF ++, Only
<1> HIDE DEF notes, after
<1>3. CASE section = "authorization"
  <2>1. after[section] = authorization
    <3> HIDE DEF authorization, intent
    <3> QED
      BY <1>1, <1>3
  <2>2. Notes(section) = {"probe_refusals", "session_aborted_by"}
    BY <1>3 DEF Notes
  <2>3. k \in DOMAIN sections["authorization"]
    BY <1>3
  <2>4. /\ k \in DOMAIN authorization
        /\ k \notin DOMAIN notes => authorization[k] = sections["authorization"][k]
    BY <2>3 DEF ++
  <2> HIDE DEF authorization
  <2> QED
    BY <1>2, <1>3, <2>1, <2>2, <2>4
<1>4. CASE section = "intent"
  <2>1. after[section] = intent
    <3> HIDE DEF authorization, intent
    <3> QED
      BY <1>1, <1>4
  <2>2. Notes(section) = {"source_conflicts"}
    BY <1>4 DEF Notes
  <2>3. k \in DOMAIN sections["intent"]
    BY <1>4
  <2>4. /\ k \in DOMAIN intent
        /\ k # "source_conflicts" => intent[k] = sections["intent"][k]
    BY <2>3 DEF ++, Only
  <2> HIDE DEF intent
  <2> QED
    BY <1>4, <2>1, <2>2, <2>4
<1>5. CASE section \notin {"authorization", "intent"}
  <2> HIDE DEF authorization, intent
  <2>1. after[section] = sections[section]
    BY <1>1, <1>5
  <2> QED
    BY <2>1
<1> QED
  BY <1>3, <1>4, <1>5

(* What one package says of something the one before it said.                *)
FirmerThroughout(before, after) ==
  /\ \A e \in Elements : Firmer(before.reality[e], after.reality[e])
  /\ \A section \in Sections : \A k \in DOMAIN before.sections[section] :
       /\ k \in DOMAIN after.sections[section]
       /\ Firmer(before.sections[section][k], after.sections[section][k])

LEMMA AssembledFollows ==
  ASSUME IInv, work # Nothing, latest # Nothing, Follows(latest, work)
  PROVE  FirmerThroughout(latest, Package(work))
<1> DEFINE reality == Completed(work.reality)
           reconciled == ReconcileWorkItem(reality, work.sections["intent"])
           sections == Noted(work.sections, work.s, reconciled)
           p == Package(work)
<1>1. p.sections = sections /\ p.reality = reality
  BY DEF Package
<1>2. Underway(work) /\ Recorded(latest)
  BY DEF IInv
<1>3. Sound(p.sections)
  BY <1>2, PackagesAreRecorded DEF Recorded
<1> HIDE DEF p
<1>4. ASSUME NEW e \in Elements
      PROVE  Firmer(latest.reality[e], p.reality[e])
  <2>1. e \in DOMAIN work.reality /\ Firmer(latest.reality[e], work.reality[e])
    BY <1>4 DEF Follows, ElementsFirmer
  <2> QED
    BY <1>1, <2>1 DEF Completed
<1> HIDE DEF reconciled
<1>5. ASSUME NEW section \in Sections, NEW k \in DOMAIN latest.sections[section]
      PROVE  /\ k \in DOMAIN p.sections[section]
             /\ Firmer(latest.sections[section][k], p.sections[section][k])
  <2>1. /\ k \in DOMAIN work.sections[section]
        /\ Firmer(latest.sections[section][k], work.sections[section][k])
    BY <1>5 DEF Follows, SectionsFirmer, SectionFirmer
  <2>2. /\ k \in DOMAIN sections[section]
        /\ k \notin Notes(section) => sections[section][k] = work.sections[section][k]
    BY <1>2, <2>1, NotedKeeps DEF Underway, Sound
  <2> HIDE DEF sections
  <2>3. CASE k \notin Notes(section)
    BY <1>1, <2>1, <2>2, <2>3
  <2>4. CASE k \in Notes(section)
    <3>1. /\ latest.sections[section][k].conf = "INFERENCE"
          /\ p.sections[section][k].conf = "INFERENCE"
      BY <1>1, <1>2, <1>3, <1>5, <2>2, <2>4 DEF Recorded, Sound
    <3> QED
      BY <1>1, <2>2, <3>1 DEF Firmer, Rank
  <2> QED
    BY <2>3, <2>4
<1>6. FirmerThroughout(latest, p)
  BY <1>4, <1>5 DEF FirmerThroughout
<1> QED
  BY <1>6 DEF p

LEMMA Tier2AllApart == AllApart(Tier2)
<1> SUFFICES ASSUME NEW i \in DOMAIN Tier2, NEW j \in DOMAIN Tier2, i # j
             PROVE  Apart(Tier2[i], Tier2[j])
  BY DEF AllApart
<1>1. Tier2[i] # Tier2[j]
  BY Tier2Distinct DEF Distinct
<1> QED
  BY <1>1, Tier2Apart

LEMMA FewAreApart ==
  ASSUME NEW x
  PROVE  Distinct(<<x>>) /\ Distinct(<<>>) /\ AllApart(<<x>>) /\ AllApart(<<>>)
<1>1. \A i, j \in DOMAIN <<x>> : i = j
  OBVIOUS
<1>2. \A k \in DOMAIN <<>> : FALSE
  OBVIOUS
<1> QED
  BY <1>1, <1>2 DEF Distinct, AllApart

LEMMA InitFollows == Init => FInv
BY InitHolds DEF Init, FInv

LEMMA NextFollows == FInv /\ [Next]_vars => FInv'
<1> SUFFICES ASSUME IInv, work # Nothing /\ latest # Nothing => Follows(latest, work),
                    [Next]_vars, work' # Nothing, latest' # Nothing
             PROVE  Follows(latest', work')
  BY NextKeeps DEF FInv
<1>1. CASE Orient
  BY <1>1 DEF Orient
<1>2. CASE Deepen
  <2>1. PICK in \in Inputs : work' = Begin(2, in, Tier2, InOrder, latest, now')
    BY <1>2 DEF Deepen
  <2>2. latest # Nothing /\ latest' = latest /\ Recorded(latest)
    BY <1>2 DEF Deepen, IInv
  <2> QED
    BY <2>1, <2>2, Listings, InOrderDistinct, Tier2AllApart, BeginsFollowing
<1>3. CASE ProbeByName
  <2>1. PICK name \in Targets :
          work' = IF name \in Elements
                  THEN Begin(3, latest.in, <<>>, <<name>>, latest, now')
                  ELSE Begin(3, latest.in, <<name>>, <<>>, latest, now')
    BY <1>3 DEF ProbeByName
  <2>2. latest # Nothing /\ latest' = latest /\ Recorded(latest)
    BY <1>3 DEF ProbeByName, IInv
  <2> DEFINE one == <<name>>
             none == <<>>
  <2>3. Distinct(one) /\ Distinct(none) /\ AllApart(one) /\ AllApart(none)
    BY FewAreApart
  <2>4. none \in Seq(Elements) /\ (name \in Elements => one \in Seq(Elements))
    OBVIOUS
  <2>5. \/ name \in Elements /\ work' = Begin(3, latest.in, none, one, latest, now')
        \/ work' = Begin(3, latest.in, one, none, latest, now')
    BY <2>1
  <2> HIDE DEF one, none
  <2>6. ASSUME name \in Elements, work' = Begin(3, latest.in, none, one, latest, now')
        PROVE  Follows(latest, work')
    BY <2>2, <2>3, <2>4, <2>6, BeginsFollowing
  <2>7. ASSUME work' = Begin(3, latest.in, one, none, latest, now')
        PROVE  Follows(latest, work')
    BY <2>2, <2>3, <2>4, <2>7, BeginsFollowing
  <2> QED
    BY <2>2, <2>5, <2>6, <2>7
<1>4. CASE RunSectionProbe
  BY <1>4, SectionProbeFollows DEF RunSectionProbe
<1>5. CASE RunRealityProbe
  BY <1>5, RealityProbeFollows DEF RunRealityProbe
<1>6. CASE Assemble
  BY <1>6 DEF Assemble
<1>7. CASE UNCHANGED <<latest, work>>
  BY <1>7
<1>8. ReprobeReality \/ WorldChanges \/ UNCHANGED vars => UNCHANGED <<latest, work>>
  BY DEF ReprobeReality, WorldChanges, vars
<1> QED
  BY <1>1, <1>2, <1>3, <1>4, <1>5, <1>6, <1>7, <1>8 DEF Next

(* From one package to the next nothing is held more firmly without evidence *)
(* the package before did not have for it: promote in assertions.ts:233, and *)
(* what package.ts:210 and :255 do with what it answers.                     *)
THEOREM PromotionsAlwaysNeedEvidence == Spec => PromotionsNeedEvidence
<1>1. FInv /\ [Next]_vars =>
        [latest # Nothing /\ latest' # latest =>
           /\ \A e \in Elements : Firmer(latest.reality[e], latest'.reality[e])
           /\ \A section \in Sections : \A k \in DOMAIN latest.sections[section] :
                /\ k \in DOMAIN latest'.sections[section]
                /\ Firmer(latest.sections[section][k], latest'.sections[section][k])]_vars
  <2> SUFFICES ASSUME FInv, [Next]_vars, latest # Nothing, latest' # latest
               PROVE  FirmerThroughout(latest, latest')
    BY DEF FirmerThroughout
  <2>1. Assemble
    BY DEF Next, vars, Orient, Deepen, ProbeByName, RunSectionProbe, RunRealityProbe,
           ReprobeReality, WorldChanges
  <2>2. work # Nothing /\ latest' = Package(work)
    BY <2>1 DEF Assemble
  <2> QED
    BY <2>2, AssembledFollows DEF FInv
<1> QED
  BY <1>1, InitFollows, NextFollows, PTL DEF Spec, PromotionsNeedEvidence
=============================================================================
