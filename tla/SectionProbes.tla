---------------------------- MODULE SectionProbes ----------------------------
(***************************************************************************)
(* discovery/src/probes/git.ts, pm.ts, runtime.ts, capabilities.ts and     *)
(* repository.ts: the probe of each part of a section of the context       *)
(* package.  A probe comes to the session after it, the assertions it      *)
(* writes into its section, and whether it got an answer at all.           *)
(*                                                                         *)
(* ledger is what the package held before the probe, as a function of      *)
(* section and key; in is what the probe is given (see RealityProbes).     *)
(***************************************************************************)
EXTENDS RealityProbes

Probed(s, asserts, available) == [s |-> s, asserts |-> asserts, available |-> available]

(* An availability is an inference nobody can check by asking again.         *)
Access(s, adapter) == Derived(Atom(s.availability[adapter]), {})

(* What was seen in t: a fact of it, or that there was no access.            *)
Seen(t, v) == IF t.seen.ok THEN ObservedFact(v, Evidence(t)) ELSE NoAccess
Read(t) == Derived(Value(t), Evidence(t))

LedgerValue(ledger, section, key) ==
  IF key \in DOMAIN ledger[section] /\ Known(ledger[section][key])
  THEN ledger[section][key].value[1]
  ELSE Not_Present

-----------------------------------------------------------------------------
(* git.ts: which branches are protected is a fact only when the host said    *)
(* so of every one of them.                                                  *)
BranchesProbe(s, in, ledger) ==
  LET t == ObserveGit(s, "git.list_branches", NoArg)
      branches == Records(Value(t))
      protected == List({b.name : b \in {b \in branches : b.protection.dangerous}})
  IN IF ~t.seen.ok
     THEN Probed(t, [git_access |-> Access(s, "git"), branches |-> NoAccess], FALSE)
     ELSE Probed(t, [git_access |-> Access(s, "git"),
                     branches |-> Seen(t, Value(t)),
                     branch_count |-> Seen(t, Atom(Cardinality(branches))),
                     protected_branches |->
                       IF \E b \in branches : b.protection.failedClosed
                       THEN Derived(protected, Evidence(t))
                       ELSE Seen(t, protected)], TRUE)

CommitsProbe(s, in, ledger) ==
  LET t == ObserveGit(s, "git.log", [ref |-> "HEAD", not |-> FALSE, paths |-> in.scope,
                                  tokens |-> FALSE])
  IN IF ~t.seen.ok THEN Probed(t, [k \in {"commit_count", "commits"} |-> NoAccess], FALSE)
     ELSE Probed(t, [commits |-> Seen(t, Value(t)),
                     commit_count |-> Seen(t, Atom(Cardinality(Records(Value(t))))),
                     head_sha |-> IF Records(Value(t)) = {} THEN Insufficient
                                  ELSE Seen(t, Atom("head")),
                     authors |-> Seen(t, Value(t))], TRUE)

WorktreesProbe(s, in, ledger) ==
  LET t == ObserveGit(s, "git.list_worktrees", NoArg) IN
  Probed(t, [worktrees |-> IF t.seen.ok THEN Seen(t, Value(t)) ELSE NoAccess], t.seen.ok)

TagsProbe(s, in, ledger) ==
  LET t == ObserveGit(s, "git.list_tags", NoArg) IN
  IF ~t.seen.ok THEN Probed(t, [tags |-> NoAccess], FALSE)
  ELSE Probed(t, [tags |-> Seen(t, Value(t)), releases |-> Read(t)], TRUE)

ChurnProbe(s, in, ledger) ==
  LET t == ObserveGit(s, "git.churn", NoArg) IN
  Probed(t, [churn |-> IF t.seen.ok THEN Seen(t, Value(t)) ELSE NoAccess], t.seen.ok)

PullRequestsProbe(s, in, ledger) ==
  LET t == ObserveGit(s, "git.list_prs", AnyBranch) IN
  IF ~t.seen.ok THEN Probed(t, [pull_requests |-> NoAccess], FALSE)
  ELSE Probed(t, [pull_requests |-> Seen(t, List(Records(Value(t)))),
                  open_pull_requests |->
                    Seen(t, List({p \in Records(Value(t)) : p.state = "OPEN"})),
                  review_patterns |-> Read(t)], TRUE)

-----------------------------------------------------------------------------
(* pm.ts.                                                                    *)
PmAccessProbe(s, in, ledger) ==
  Probed(s, [pm_access |-> Access(s, "pm"),
             pm_reachable |-> Derived(s.availability["pm"] = "AVAILABLE", {})], TRUE)

TerminalClaims == {"done"}

(* A ticket is only looked up by the identity the item carries; that its     *)
(* status says done is an inference about the work.                          *)
WorkItemTicketProbe(s, in, ledger) ==
  LET t == ObservePm(s, "pm.read_issue", NoArg)
      u == ObservePm(t, "pm.list_links", NoArg)
      status == Value(t).rec.status.atom
  IN CASE ~in.external -> Probed(s, [ticket |-> NotComputed], TRUE)
       [] in.external /\ ~t.seen.ok -> Probed(t, [ticket |-> NoAccess], FALSE)
       [] OTHER ->
            Probed(u, [ticket |-> Seen(t, Value(t)),
                       ticket_status |-> IF status = "" THEN Insufficient
                                         ELSE Seen(t, Atom(status)),
                       claims_completion |-> Derived(status \in TerminalClaims, Evidence(t)),
                       linked_changes |-> IF u.seen.ok THEN Seen(u, List(Records(Value(u))))
                                          ELSE NoAccess], TRUE)

IntentProbe(s, in, ledger) ==
  LET t == ObservePm(s, "pm.search_issues", in.scope) IN
  IF ~t.seen.ok THEN Probed(t, [k \in {"issues", "epics"} |-> NoAccess], FALSE)
  ELSE Probed(t, [k \in {"issues", "epics", "milestones"} |-> Seen(t, List(Records(Value(t))))]
                 ++ [claimed_capabilities |-> Read(t)], TRUE)

PmDocumentsProbe(s, in, ledger) ==
  LET t == ObservePm(s, "pm.list_documents", in.scope) IN
  IF ~t.seen.ok THEN Probed(t, [external_documents |-> NoAccess], FALSE)
  ELSE Probed(t, [k \in {"external_documents", "decisions"}
                    |-> Seen(t, List(Records(Value(t))))], TRUE)

-----------------------------------------------------------------------------
(* runtime.ts: an environment whose class was not established, or a runtime  *)
(* that names no environment, is taken for production.                       *)
Environment(s, e) ==
  LET c == Classify(s, "environment", e.name) IN
  [name |-> e.name,
   production |-> c = <<>> \/ c[1].dangerous,
   failedClosed |-> c = <<>> \/ c[1].failedClosed]

Unclassified == [name |-> "unclassified-runtime", production |-> TRUE, failedClosed |-> TRUE]

EnvironmentsProbe(s, in, ledger) ==
  LET t == ObserveRuntime(s, "runtime.list_environments", NoArg)
      declared == Records(LedgerValue(ledger, "architecture", "declared_environments"))
      entries == {Environment(t, e) : e \in Records(Value(t))}
  IN CASE ~t.seen.ok ->
            Probed(t, [runtime_access |-> Access(s, "runtime"), environments |-> NoAccess]
                      ++ [k \in {"declared_environments" : d \in declared}
                            |-> Derived(List(declared), {})], FALSE)
       [] t.seen.ok /\ entries = {} ->
            Probed(t, [runtime_access |-> Access(s, "runtime"),
                       environments |-> Derived(List({Unclassified}), Evidence(t))], TRUE)
       [] OTHER ->
            Probed(t, [runtime_access |-> Access(s, "runtime"),
                       environments |-> Seen(t, List(entries)),
                       declared_not_observed |->
                         Derived(List(declared \ {e.name : e \in entries}), Evidence(t))], TRUE)

(* What each of several names was answered with.                             *)
Asking(s, op, names) ==
  LET asked == AskEach(s, op, names)
  IN [s |-> asked.s, ev |-> EvidenceOfEach(asked.seen),
      said |-> {[name |-> n, reachable |-> asked.seen[n].ok] : n \in names}]

ServicesProbe(s, in, ledger) ==
  LET t == ObserveRuntime(s, "runtime.list_services", NoArg)
      h == Asking(t, "runtime.health", Records(Value(t)))
  IN IF ~t.seen.ok THEN Probed(t, [k \in {"services", "service_health"} |-> NoAccess], FALSE)
     ELSE Probed(h.s, [services |-> Seen(t, List(Records(Value(t)))),
                       service_health |-> ObservedFact(List(h.said), Evidence(t) \union h.ev)],
                 TRUE)

DataProbe(s, in, ledger) ==
  LET t == ObserveRuntime(s, "runtime.query", "data_reality") IN
  IF ~t.seen.ok THEN Probed(t, [stores |-> NoAccess], FALSE)
  ELSE Probed(t, [k \in {"stores", "empty_stores", "newest_record_at"}
                    |-> Seen(t, List(Records(Field(Value(t), "stores", List({})))))], TRUE)

LogsProbe(s, in, ledger) ==
  LET t == ObserveRuntime(s, "runtime.query", "error_patterns") IN
  IF ~t.seen.ok THEN Probed(t, [error_patterns |-> NoAccess], FALSE)
  ELSE Probed(t, [k \in {"error_patterns", "error_count"}
                    |-> Seen(t, List(Records(Field(Value(t), "errors", List({})))))]
                 ++ [throughput |-> IF HasField(Value(t), "throughput")
                                    THEN Seen(t, Field(Value(t), "throughput", Not_Present))
                                    ELSE Insufficient], TRUE)

(* productionProbe reads the topology from the ledger; environments that did *)
(* not answer are part of the fact once one of them did.                     *)
ProductionProbe(s, in, ledger) ==
  LET known == Records(LedgerValue(ledger, "runtime_state", "environments"))
      names == {e.name : e \in {e \in known : e.production}}
      v == Asking(s, "runtime.deployed_version", names)
      head == LedgerValue(ledger, "git_state", "head_sha")
  IN IF known = {} THEN Probed(s, [deployed_versions |-> NotComputed], FALSE)
     ELSE Probed(v.s, [deployed_versions |-> IF v.ev = {} THEN Insufficient
                                             ELSE ObservedFact(List(v.said), v.ev),
                       drift_from_repository |-> IF head = Not_Present THEN Insufficient
                                                 ELSE Derived(List(v.said), v.ev),
                       production_environments |-> Derived(List(names), {})], v.ev # {})

-----------------------------------------------------------------------------
(* capabilities.ts: what the host lists counts when it is a list.            *)
AgentCapabilitiesProbe(s, in, ledger) ==
  LET t == ObserveHost(s, "host.list_skills")
      u == ObserveHost(t, "host.list_tools")
      v == ObserveHost(u, "host.list_plugins")
      x == ObserveHost(v, "host.list_mcp_servers")
      listed(y) == IF y.seen.ok THEN Seen(y, List(Records(Value(y)))) ELSE NoAccess
  IN Probed(x, [host_access |-> Access(s, "host"), skills |-> listed(t), tools |-> listed(u),
                plugins |-> listed(v), connectors |-> listed(x),
                connectors_unavailable |-> listed(x)]
               ++ [k \in {"connectors_reachable" : y \in {y \in {x} : y.seen.ok}}
                     |-> listed(x)],
            s.availability["host"] = "AVAILABLE")

ModelCapabilitiesProbe(s, in, ledger) ==
  LET t == ObserveHost(s, "host.list_models") IN
  IF ~t.seen.ok THEN Probed(t, [models |-> NoAccess], FALSE)
  ELSE Probed(t, [k \in {"models", "model_count", "cost_known_for"}
                    |-> Seen(t, List(Records(Value(t))))], TRUE)

AuthorizationProbe(s, in, ledger) ==
  Probed(s, [k \in {"operations_available", "mutating_operations", "gated_operations",
                    "non_reversible_operations", "observation_safe_operations"}
               |-> Derived(List(Registered), {})], TRUE)

-----------------------------------------------------------------------------
(* repository.ts.                                                            *)
Kinds == {"manifest", "lockfile", "configuration", "schema", "sources", "api", "ui", "tests",
          "ci", "deployment", "documentation", "conventions", "agent"}

(* listing: the paths of the kinds asked for.                                *)
ListingOf(t) ==
  [s |-> t, failed |-> ~t.seen.ok, ev |-> Evidence(t),
   found |-> IF t.seen.ok THEN ListedPaths(Value(t)) ELSE {}]

Listing(s, kinds) == ListingOf(ObserveRepo(s, "repo.list_paths", kinds))

(* catalogueProbe: what is found is the fact, what it is read to mean an     *)
(* inference, what a listing cannot say an unknown of its own.               *)
Catalogue(l, subject, facts, inferences, unknowns) ==
  IF l.failed THEN Probed(l.s, [k \in {subject} |-> NoAccess], FALSE)
  ELSE Probed(l.s, [k \in facts |-> ObservedFact(List(l.found), l.ev)]
                   ++ [k \in inferences |-> Derived(List(l.found), l.ev)]
                   ++ unknowns, TRUE)

Gaps(keys, a) == [k \in keys |-> a]

StructureProbe(s, in, ledger) ==
  Catalogue(Listing(s, Kinds), "structure", {"structure", "ownership_files", "agent_directory"},
            {"entry_points"}, <<>>)

IdentityProbe(s, in, ledger) ==
  LET t == ObserveRepo(s, "repo.identify", NoArg)
      u == ObserveGit(t, "git.default_branch", NoArg)
      v == ObserveGit(u, "git.remotes", NoArg)
      stated(field) == IF HasField(Value(t), field) THEN Seen(t, Value(t).rec[field])
                       ELSE Insufficient
  IN IF ~t.seen.ok
     THEN Probed(t, [repo_access |-> Access(s, "repo"), identity |-> NoAccess], FALSE)
     ELSE Probed(v, [repo_access |-> Access(s, "repo"),
                     identity |-> Seen(t, Value(t)),
                     root |-> stated("path"), vcs |-> stated("vcs"),
                     current_branch |-> stated("current_branch"),
                     default_branch |-> IF u.seen.ok THEN Seen(u, Value(u)) ELSE NoAccess,
                     remotes |-> IF v.seen.ok THEN Seen(v, Value(v)) ELSE NoAccess], TRUE)

(* languageCensus: the languages of the sources a listing holds, if any.     *)
LanguageCensus(l) ==
  [s |-> l.s, a |-> IF l.failed \/ "sources" \notin l.found THEN Insufficient
                    ELSE Derived(List({"language"}), l.ev)]

(* stackProbe: what stack detection returned; the languages, which it does   *)
(* not return, by a census; all of it by the manifests when there is none.   *)
DetectedStack(t, census, l) ==
  LET stated == {"frameworks", "build_system", "package_managers", "test_runner", "linters",
                 "containers"}
  IN IF t.seen.ok
     THEN Probed(census.s,
            [k \in stated |-> IF HasField(Value(t), k) THEN Seen(t, Value(t).rec[k])
                              ELSE Insufficient]
            ++ [languages |-> census.a]
            ++ [k \in {"ecosystems"} \intersect DOMAIN Value(t).rec |-> Seen(t, Value(t).rec[k])],
            TRUE)
     ELSE IF l.failed THEN Probed(l.s, [languages |-> NoAccess], FALSE)
     ELSE Probed(l.s, [manifests |-> ObservedFact(List(l.found), l.ev),
                       package_managers |-> Derived(List(l.found), l.ev),
                       languages |-> Insufficient], TRUE)

StackOf(t) == DetectedStack(t, LanguageCensus(Listing(t, Kinds)), Listing(t, {"manifest"}))
StackProbe(s, in, ledger) == StackOf(ObserveRepo(s, "repo.detect_stack", NoArg))

(* commandsProbe: a command that is declared is an inference that it works.  *)
CommandsProbe(s, in, ledger) ==
  LET t == ObserveRepo(s, "repo.commands", NoArg)
      commands == Field(Value(t), "commands", Value(t))
  IN IF ~t.seen.ok THEN Probed(t, [commands |-> NoAccess], FALSE)
     ELSE Probed(t, [k \in {"build_command", "test_command", "lint_command", "run_command"} |->
                       IF k = "test_command" /\ HasField(commands, "test")
                       THEN Derived(commands.rec.test, Evidence(t)) ELSE Insufficient], TRUE)

ConventionsProbe(s, in, ledger) ==
  Catalogue(Listing(s, {"conventions"}), "conventions", {"convention_files"}, {"conventions"}, <<>>)
ManifestsProbe(s, in, ledger) ==
  Catalogue(Listing(s, {"manifest", "lockfile"}), "manifests", {"manifest_paths", "lockfiles"}, {},
            Gaps({"known_vulnerabilities"}, Insufficient))
ConfigurationProbe(s, in, ledger) ==
  Catalogue(Listing(s, {"configuration"}), "configuration",
            {"configuration_paths", "environment_files"},
            {}, Gaps({"configuration_values"}, NotComputed))
SchemaProbe(s, in, ledger) ==
  Catalogue(Listing(s, {"schema"}), "stores", {"schema_paths", "migration_paths"}, {},
            Gaps({"applied_migrations"}, NotComputed))
DomainProbe(s, in, ledger) ==
  Catalogue(Listing(s, {"schema"}), "entities", {"entity_paths"}, {},
            Gaps({"canonical_ownership"}, Insufficient))
SourceMapProbe(s, in, ledger) ==
  Catalogue(Listing(s, {"sources"}), "sources", {"integration_paths"}, {"sources"},
            Gaps({"refresh_cadence"}, Insufficient))
ApiProbe(s, in, ledger) ==
  Catalogue(Listing(s, {"api"}), "endpoints", {"paths", "specifications"}, {"endpoints"},
            Gaps({"consumers"}, Insufficient))
UiProbe(s, in, ledger) ==
  Catalogue(Listing(s, {"ui"}), "surfaces", {"surfaces"}, {"routes"},
            Gaps({"empty_partial_stale_states"}, Insufficient))
TestFilesProbe(s, in, ledger) ==
  Catalogue(Listing(s, {"tests"}), "suites", {"suites", "suite_count"}, {},
            Gaps({"asserts_on", "coverage"}, Insufficient))
CicdProbe(s, in, ledger) ==
  Catalogue(Listing(s, {"ci"}), "pipelines", {"pipeline_definitions", "ci_configured"}, {},
            Gaps({"gates"}, Insufficient))
DeploymentFilesProbe(s, in, ledger) ==
  Catalogue(Listing(s, {"deployment"}), "deployment_definitions",
            {"deployment_definitions", "containers"}, {"declared_environments"}, <<>>)
ArchitectureProbe(s, in, ledger) ==
  Catalogue(Listing(s, Kinds), "layering", {"module_tree"}, {"layering"},
            Gaps({"boundaries_enforced"}, Insufficient))
DocumentationProbe(s, in, ledger) ==
  Catalogue(Listing(s, {"documentation"}), "documentation",
            {"documentation_paths", "decision_records"}, {}, Gaps({"documentation_freshness", "purpose"}, Insufficient))

-----------------------------------------------------------------------------
(* The probes by name, in the order they run, and the section each writes.   *)
Tier1 == <<"repo.identity", "repo.structure", "repo.stack", "git.branches", "git.commits",
           "pm.access", "host.agent_capabilities", "host.model_capabilities",
           "host.authorization">>
Tier2 == <<"repo.commands", "repo.manifests", "repo.configuration", "repo.conventions",
           "repo.schema", "repo.domain", "repo.sources", "repo.api", "repo.ui", "repo.tests",
           "repo.cicd", "repo.deployment", "repo.architecture", "repo.documentation",
           "git.worktrees", "git.tags", "git.churn", "git.pull_requests",
           "pm.work_item", "pm.issues", "pm.documents",
           "runtime.environments", "runtime.services", "runtime.data", "runtime.logs",
           "runtime.production">>

Sections == {"repository", "git_state", "intent", "runtime_state", "production_state",
             "agent_capabilities", "model_capabilities", "authorization", "data_map",
             "domain_model", "source_map", "api_map", "ui_map", "tests", "constraints",
             "architecture", "product"}

SectionOf(name) ==
  CASE name \in {"git.branches", "git.commits", "git.worktrees", "git.tags", "git.churn",
                 "git.pull_requests"} -> "git_state"
    [] name \in {"pm.access", "pm.work_item", "pm.issues", "pm.documents"} -> "intent"
    [] name = "runtime.production" -> "production_state"
    [] name \in {"runtime.environments", "runtime.services", "runtime.data", "runtime.logs"} ->
         "runtime_state"
    [] name = "host.agent_capabilities" -> "agent_capabilities"
    [] name = "host.model_capabilities" -> "model_capabilities"
    [] name = "host.authorization" -> "authorization"
    [] name = "repo.schema" -> "data_map"
    [] name = "repo.domain" -> "domain_model"
    [] name = "repo.sources" -> "source_map"
    [] name = "repo.api" -> "api_map"
    [] name = "repo.ui" -> "ui_map"
    [] name = "repo.tests" -> "tests"
    [] name = "repo.cicd" -> "constraints"
    [] name \in {"repo.deployment", "repo.architecture"} -> "architecture"
    [] name = "repo.documentation" -> "product"
    [] OTHER -> "repository"

SectionProbe(s, name, in, ledger) ==
  CASE name = "repo.identity" -> IdentityProbe(s, in, ledger)
    [] name = "repo.structure" -> StructureProbe(s, in, ledger)
    [] name = "repo.stack" -> StackProbe(s, in, ledger)
    [] name = "repo.commands" -> CommandsProbe(s, in, ledger)
    [] name = "repo.manifests" -> ManifestsProbe(s, in, ledger)
    [] name = "repo.configuration" -> ConfigurationProbe(s, in, ledger)
    [] name = "repo.conventions" -> ConventionsProbe(s, in, ledger)
    [] name = "repo.schema" -> SchemaProbe(s, in, ledger)
    [] name = "repo.domain" -> DomainProbe(s, in, ledger)
    [] name = "repo.sources" -> SourceMapProbe(s, in, ledger)
    [] name = "repo.api" -> ApiProbe(s, in, ledger)
    [] name = "repo.ui" -> UiProbe(s, in, ledger)
    [] name = "repo.tests" -> TestFilesProbe(s, in, ledger)
    [] name = "repo.cicd" -> CicdProbe(s, in, ledger)
    [] name = "repo.deployment" -> DeploymentFilesProbe(s, in, ledger)
    [] name = "repo.architecture" -> ArchitectureProbe(s, in, ledger)
    [] name = "repo.documentation" -> DocumentationProbe(s, in, ledger)
    [] name = "git.branches" -> BranchesProbe(s, in, ledger)
    [] name = "git.commits" -> CommitsProbe(s, in, ledger)
    [] name = "git.worktrees" -> WorktreesProbe(s, in, ledger)
    [] name = "git.tags" -> TagsProbe(s, in, ledger)
    [] name = "git.churn" -> ChurnProbe(s, in, ledger)
    [] name = "git.pull_requests" -> PullRequestsProbe(s, in, ledger)
    [] name = "pm.access" -> PmAccessProbe(s, in, ledger)
    [] name = "pm.work_item" -> WorkItemTicketProbe(s, in, ledger)
    [] name = "pm.issues" -> IntentProbe(s, in, ledger)
    [] name = "pm.documents" -> PmDocumentsProbe(s, in, ledger)
    [] name = "runtime.environments" -> EnvironmentsProbe(s, in, ledger)
    [] name = "runtime.services" -> ServicesProbe(s, in, ledger)
    [] name = "runtime.data" -> DataProbe(s, in, ledger)
    [] name = "runtime.logs" -> LogsProbe(s, in, ledger)
    [] name = "runtime.production" -> ProductionProbe(s, in, ledger)
    [] name = "host.agent_capabilities" -> AgentCapabilitiesProbe(s, in, ledger)
    [] name = "host.model_capabilities" -> ModelCapabilitiesProbe(s, in, ledger)
    [] name = "host.authorization" -> AuthorizationProbe(s, in, ledger)
=============================================================================
