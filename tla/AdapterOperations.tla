------------------------- MODULE AdapterOperations -------------------------
(***************************************************************************)
(* adapters/src/ops: what each read-only operation answers, given the      *)
(* world it looks at.  An answer is a fact or an inference with a value, a *)
(* plain value, a map of assertions, an UNKNOWN, or something thrown.      *)
(* What the world holds is in a record w: the systems and whether they     *)
(* answer, the resources they say are absent, and their contents.          *)
(*                                                                         *)
(*   checkout, git     a .git directory; git is missing, failing or ok     *)
(*   vcs, pm, runtime  the connectors: none, unconfigured, down, answers   *)
(*   absent            resources a connector answers are not there         *)
(*   commits           each on the branches that reach it                  *)
(*   ledger, inventory AgentOS's own; broken, unwired or wired             *)
(*   faults            operation -> what the framework or the handler does *)
(***************************************************************************)
EXTENDS Integers, FiniteSets, FiniteSetsExt

List(S) == [list |-> S]
Rec(r) == [rec |-> r]
Atom(x) == [atom |-> x]
Not_Present == Rec([present |-> FALSE])

Fact(v) == [how |-> "fact", value |-> v]
Inference(v) == [how |-> "inference", value |-> v]
Plain(v) == [how |-> "raw", value |-> v]
None(reason) == [how |-> "unknown", reason |-> reason]
Threw == [how |-> "threw"]
MapOf(m) == [how |-> "map", map |-> m]

Answering == {"fact", "inference", "raw"}

(* The one operation whose observation cannot be made again.                 *)
Unrepeatable == {"runtime.read_logs"}

Resources == [git |-> {"git.current_branch", "git.list_branches", "git.remotes",
                       "git.default_branch", "git.list_worktrees", "git.list_tags",
                       "git.churn", "git.merge_state", "git.log", "git.read_pr",
                       "git.list_prs", "git.list_reviews", "git.ci_status"},
              pm |-> {"pm.read_issue", "pm.search_issues", "pm.list_children",
                      "pm.list_links", "pm.list_documents"},
              runtime |-> {"runtime.list_environments", "runtime.health", "runtime.query",
                           "runtime.list_services", "runtime.deployed_version",
                           "runtime.outcome_evidence", "runtime.read_logs"},
              host |-> {"host.identity", "host.list_skills", "host.list_models",
                        "host.list_tools", "host.list_plugins", "host.list_mcp_servers",
                        "host.read_run_history", "host.read_child_work_items"},
              repo |-> {"repo.identify", "repo.detect_stack", "repo.commands",
                        "repo.read_file", "repo.list_paths", "repo.boundaries"}]

AdapterNames == DOMAIN Resources
Registered == UNION {Resources[a] : a \in AdapterNames}
AdapterOf == [op \in Registered |-> CHOOSE a \in AdapterNames : op \in Resources[a]]

-----------------------------------------------------------------------------
(* Availability, as the suite that is built finds it.                        *)
GitAvailability(w) ==
  CASE ~w.checkout \/ w.git = "missing" -> "NOT_CONFIGURED"
    [] w.git = "failing" -> "UNAVAILABLE"
    [] OTHER -> "AVAILABLE"

ConnectorAvailability(state) ==
  CASE state \in {"none", "unconfigured"} -> "NOT_CONFIGURED"
    [] state = "down" -> "UNAVAILABLE"
    [] OTHER -> "AVAILABLE"

RepositoryAvailability(w) ==
  CASE w.root = "directory" -> "AVAILABLE"
    [] w.root = "file" -> "NOT_CONFIGURED"
    [] OTHER -> "UNAVAILABLE"

Availability(w) ==
  [git |-> GitAvailability(w), pm |-> ConnectorAvailability(w.pm),
   runtime |-> ConnectorAvailability(w.runtime), host |-> "AVAILABLE",
   repo |-> RepositoryAvailability(w)]

-----------------------------------------------------------------------------
GitRuns(w) == w.checkout /\ w.git = "ok"

(* git and local: what a git command printed, or that it is unavailable.     *)
Git(w, v) == IF GitRuns(w) THEN Fact(v) ELSE None("UNAVAILABLE")

Reaches(state) == state = "answers"

(* Mutant: a host that does not answer has nothing.                          *)
ViaHostSilent(w, resource, v) ==
  IF w.vcs \in {"none", "unconfigured"} THEN None("UNAVAILABLE")
  ELSE IF w.vcs = "down" \/ resource \in w.absent THEN Fact(Not_Present)
  ELSE Fact(v)

(* viaHost: no host and no answer are both UNAVAILABLE; an absence the host  *)
(* states is an answer, of another shape.                                    *)
ViaHost(w, resource, v) ==
  IF ~Reaches(w.vcs) THEN None("UNAVAILABLE")
  ELSE IF resource \in w.absent THEN Fact(Not_Present)
  ELSE Fact(v)

(* reach, of the project-management system and of the runtime: nothing       *)
(* configured is NOT_APPLICABLE, no answer is UNAVAILABLE.                   *)
Reach(w, state, resource, v) ==
  CASE state \in {"none", "unconfigured"} -> None("NOT_APPLICABLE")
    [] state = "down" -> None("UNAVAILABLE")
    [] resource \in w.absent -> Fact(Not_Present)
    [] OTHER -> Fact(v)

(* A pull request as the host lists it and, where the listing leaves details *)
(* out, as it reads it one by one.                                           *)
Listed(w, p) == IF w.sparse THEN [p EXCEPT !.sha = "", !.mergeSha = "", !.base = FALSE] ELSE p
Detailed(w, p) == IF w.sparse THEN [p EXCEPT !.state = ""] ELSE p

(* classify: what could not be established is taken to be dangerous.         *)
Classified(established, dangerous) ==
  [dangerous |-> ~established \/ dangerous, failedClosed |-> ~established]

(* branchProtectionProbe: a record of the host's that says so, and nothing   *)
(* else, establishes protection.                                             *)
Protection(w, branch) ==
  Classified(/\ Reaches(w.vcs)
             /\ "branch_protection" \notin w.absent
             /\ w.protected # "unstated",
             w.protected = "yes")

(* environmentProbe: the runtime's own topology, where it flags the          *)
(* environment.                                                              *)
Production(w, name) ==
  LET flagged == {e \in w.environments : e.name = name /\ e.production # "unstated"} IN
  Classified(/\ Reaches(w.runtime)
             /\ "environments" \notin w.absent
             /\ flagged # {},
             \E e \in flagged : e.production = "yes")

(* spawningProbe: what a skill that is enumerated declares of itself.        *)
Spawning(w, skill) ==
  Classified(\/ skill = "host" /\ w.inventory = "answers"
             \/ skill = "skills" /\ skill \in w.files,
             FALSE)

Classification(w, kind, subject) ==
  CASE kind = "branch_protection" -> Protection(w, subject)
    [] kind = "environment" -> Production(w, subject)
    [] kind = "spawns_agents" -> Spawning(w, subject)

(* list_branches: the names git lists, which one is the default when the     *)
(* remote HEAD names one of them, and whether each is protected.             *)
ListBranches(w) ==
  Git(w, List({[name |-> b, default |-> w.remoteHead /\ b = "main",
                protection |-> Protection(w, b)] :
               b \in {"main"} \union (IF w.branch THEN {"work"} ELSE {})}))

(* merge_state: the host's record; without it, whether the local history     *)
(* reaches the ref from the base, when both were named.                      *)
MergeState(w, pr) ==
  IF Reaches(w.vcs) THEN ViaHost(w, "merge_state", Rec([state |-> w.hostedMerge]))
  ELSE IF (pr.head # "" \/ pr.sha # "") /\ pr.base /\ GitRuns(w)
  THEN Inference(Rec([merged |-> w.ancestor]))
  ELSE None("UNAVAILABLE")

(* log: the commits a ref reaches and, when there is one to leave out, the   *)
(* base does not, of the paths and with the tokens given.                    *)
Log(w, arg) ==
  Git(w, List({c \in w.commits : /\ (IF arg.ref = "HEAD" THEN "main" ELSE arg.ref) \in c.on
                                 /\ arg.not => "main" \notin c.on
                                 /\ arg.paths => c.inScope
                                 /\ arg.tokens => c.names}))

(* read_pr: no host, and one that does not answer, throw; so does a pull     *)
(* request that is gone.                                                     *)
ReadPr(w, id) ==
  LET p == {q \in w.prs : q.id = id} IN
  IF ~Reaches(w.vcs) \/ p = {} \/ "pull_request" \in w.absent THEN Threw
  ELSE Fact(Rec([pr |-> Detailed(w, CHOOSE q \in p : TRUE)]))

ListPrs(w) == ViaHost(w, "pull_requests", List({Listed(w, p) : p \in w.prs}))
ListReviews(w) ==
  ViaHost(w, "review_threads", Rec([reviews |-> List(w.reviews), threads |-> List(w.threads)]))
CiStatus(w, sha) == ViaHost(w, "ci_state", Rec([runs |-> List({r \in w.ci : r.sha = sha})]))

CurrentBranch(w) == Git(w, Atom(IF w.branch THEN "work" ELSE "main"))
Remotes(w) == Git(w, List({"origin"}))
DefaultBranch(w) == IF w.remoteHead THEN Git(w, Atom("main")) ELSE None("UNAVAILABLE")
ListWorktrees(w) == Git(w, List({"root"}))
ListTags(w) == Git(w, List(w.tags))
Churn(w) == Git(w, List({"path"}))

GitAnswer(w, op, arg) ==
  CASE op = "git.list_branches" -> ListBranches(w)
    [] op = "git.default_branch" -> DefaultBranch(w)
    [] op = "git.current_branch" -> CurrentBranch(w)
    [] op = "git.remotes" -> Remotes(w)
    [] op = "git.list_worktrees" -> ListWorktrees(w)
    [] op = "git.churn" -> Churn(w)
    [] op = "git.list_tags" -> ListTags(w)
    [] op = "git.log" -> Log(w, arg)
    [] op = "git.merge_state" -> MergeState(w, arg)
    [] op = "git.read_pr" -> ReadPr(w, arg)
    [] op = "git.list_prs" -> ListPrs(w)
    [] op = "git.list_reviews" -> ListReviews(w)
    [] op = "git.ci_status" -> CiStatus(w, arg)

-----------------------------------------------------------------------------
(* read_issue throws when no project-management system would answer, and     *)
(* when the item is not there.  A search and a listing of documents answer   *)
(* nothing about a question that names nothing.                              *)
ReadIssue(w) ==
  IF ~Reaches(w.pm) \/ "issue" \in w.absent THEN Threw
  ELSE Fact(Rec([status |-> Atom(w.ticketStatus)]))

ListChildren(w) == Reach(w, w.pm, "children", List({[work_item_id |-> c] : c \in w.pmChildren}))
ListLinks(w) == Reach(w, w.pm, "links", List(w.links))
SearchIssues(w, names) ==
  IF ~names THEN None("INSUFFICIENT_EVIDENCE") ELSE Reach(w, w.pm, "search", List(w.issues))
ListDocuments(w, names) ==
  IF ~names THEN None("INSUFFICIENT_EVIDENCE")
  ELSE Reach(w, w.pm, "documents", List(w.documents))

PmAnswer(w, op, arg) ==
  CASE op = "pm.read_issue" -> ReadIssue(w)
    [] op = "pm.search_issues" -> SearchIssues(w, arg)
    [] op = "pm.list_children" -> ListChildren(w)
    [] op = "pm.list_links" -> ListLinks(w)
    [] op = "pm.list_documents" -> ListDocuments(w, arg)

-----------------------------------------------------------------------------
(* outcome_evidence: a verdict on the outcome, or that none can be had.      *)
OutcomeEvidence(w) ==
  LET a == Reach(w, w.runtime, "outcome_evidence", Atom(w.holds)) IN
  IF a.how = "unknown" THEN a
  ELSE IF "outcome_evidence" \in w.absent \/ w.holds = "unstated"
  THEN None("INSUFFICIENT_EVIDENCE")
  ELSE Fact(Rec([holds |-> Atom(w.holds)]))

ListEnvironments(w) == Reach(w, w.runtime, "environments", List(w.environments))
ListServices(w) == Reach(w, w.runtime, "services", List(w.services))
Health(w) == Reach(w, w.runtime, "health", Atom("healthy"))
Query(w) ==
  Reach(w, w.runtime, "query", Rec([stores |-> List(w.services), errors |-> List(w.logs)]))
DeployedVersion(w, name) ==
  IF name \in w.darkEnvironments THEN None("UNAVAILABLE")
  ELSE Reach(w, w.runtime, "deployed_version", Rec([sha |-> Atom(w.deployed)]))
ReadLogs(w) ==
  LET a == Reach(w, w.runtime, "logs", List(w.logs)) IN
  IF a.how = "unknown" THEN a ELSE Plain(a.value)

RuntimeAnswer(w, op, arg) ==
  CASE op = "runtime.list_environments" -> ListEnvironments(w)
    [] op = "runtime.deployed_version" -> DeployedVersion(w, arg)
    [] op = "runtime.outcome_evidence" -> OutcomeEvidence(w)
    [] op = "runtime.list_services" -> ListServices(w)
    [] op = "runtime.health" -> Health(w)
    [] op = "runtime.query" -> Query(w)
    [] op = "runtime.read_logs" -> ReadLogs(w)

-----------------------------------------------------------------------------
(* enumerateSource, list_models, list_tools: an inventory that could not be  *)
(* enumerated answers with an empty record, and so does one that is empty.   *)
Enumerated(w, field) ==
  Plain(Rec([f \in {field} |-> List(IF w.inventory = "answers" THEN {field} ELSE {})]))

(* list_skills adds what the worktree declares.                              *)
ListSkills(w) ==
  Plain(Rec([entries |-> List((IF w.inventory = "answers" THEN {"host"} ELSE {})
                              \union (w.files \intersect {"skills", "manifest"}))]))

(* read_run_history and read_child_work_items: AgentOS's own ledger, whose   *)
(* answer is a record about one work item.                                   *)
OfLedger(w, field, v) ==
  IF w.ledger = "wired" THEN Fact(Rec([f \in {field} |-> v])) ELSE None("UNAVAILABLE")

ListModels(w) == Enumerated(w, "entries")
ListTools(w) == Enumerated(w, "tools")
Identity(w) == Plain(Rec([trustClass |-> Atom(w.trust)]))
ReadRunHistory(w) == OfLedger(w, "runs", List(w.runs))
ReadChildWorkItems(w) == OfLedger(w, "children", List({[work_item_id |-> c] : c \in w.children}))

HostAnswer(w, op) ==
  CASE op = "host.identity" -> Identity(w)
    [] op = "host.list_skills" -> ListSkills(w)
    [] op = "host.list_models" -> ListModels(w)
    [] op = "host.list_tools" -> ListTools(w)
    [] op \in {"host.list_plugins", "host.list_mcp_servers"} -> Enumerated(w, "entries")
    [] op = "host.read_run_history" -> ReadRunHistory(w)
    [] op = "host.read_child_work_items" -> ReadChildWorkItems(w)

-----------------------------------------------------------------------------
(* attach: each output is observed, inferred or left unknown by itself.      *)
Present(w, kind, reason) ==
  IF kind \in w.files THEN Fact(List({kind})) ELSE None(reason)

Attach(w) ==
  [path |-> Fact(Atom("root")),
   vcs |-> IF w.checkout THEN Fact(Atom("git")) ELSE None("UNKNOWN"),
   current_branch |-> IF w.checkout THEN Fact(Atom("main")) ELSE None("UNAVAILABLE"),
   worktree_clean |-> None("NOT_COMPUTED"),
   agent_directory |-> Fact(Atom(IF "agent" \in w.files THEN "yes" ELSE "no")),
   ecosystems |-> IF "manifest" \in w.files THEN Inference(List({"ecosystem"}))
                  ELSE None("INSUFFICIENT_EVIDENCE"),
   package_managers |-> IF "manifest" \in w.files THEN Inference(List({"manager"}))
                        ELSE None("INSUFFICIENT_EVIDENCE"),
   ci |-> Present(w, "ci", "UNKNOWN"),
   containers |-> Present(w, "containers", "NOT_APPLICABLE"),
   source_directories |-> Present(w, "sources", "INSUFFICIENT_EVIDENCE"),
   test_directories |-> Present(w, "tests", "UNKNOWN"),
   documentation |-> Present(w, "documentation", "UNKNOWN"),
   configuration |-> Present(w, "configuration", "UNKNOWN"),
   commands |-> IF "manifest" \in w.files THEN Inference(Rec([test |-> Atom("declared")]))
                ELSE None("INSUFFICIENT_EVIDENCE"),
   protected_branches |-> None("UNAVAILABLE"),
   environments |-> CASE "environments" \in w.files -> Inference(List({"declared"}))
                      [] "broken environments" \in w.files -> None("CONFLICTING")
                      [] OTHER -> None("UNKNOWN")]

Subset(w, keys) == MapOf([k \in keys |-> Attach(w)[k]])

(* list_paths: what is there of the kinds asked for, up to the limit of an   *)
(* enumeration and to the directories that can be read.                      *)
ListPaths(w, kinds) ==
  Plain(Rec([entries |-> List(IF w.truncated THEN {} ELSE w.files \intersect kinds),
             truncated |-> Atom(w.truncated)]))

Identify(w) ==
  Subset(w, {"path", "vcs", "current_branch", "worktree_clean", "agent_directory"})
DetectStack(w) ==
  Subset(w, {"ecosystems", "package_managers", "ci", "containers", "source_directories",
             "test_directories", "documentation", "configuration"})
Commands(w) == Subset(w, {"commands"})
ReadFile(w, kind) == IF kind \in w.files THEN Plain(Atom(kind)) ELSE Threw
Boundaries(w) ==
  Plain(Rec([environments |-> IF "environments" \in w.files THEN List({"declared"}) ELSE List({})]))

RepoAnswer(w, op, arg) ==
  CASE op = "repo.identify" -> Identify(w)
    [] op = "repo.detect_stack" -> DetectStack(w)
    [] op = "repo.commands" -> Commands(w)
    [] op = "repo.read_file" -> ReadFile(w, arg)
    [] op = "repo.list_paths" -> ListPaths(w, arg)
    [] op = "repo.boundaries" -> Boundaries(w)

(* What an operation answers: what a fault makes of it comes before.  A      *)
(* refusal is the framework's, before the handler or by its confinement.     *)
OrFault(w, op, answer) == IF w.faults.op = op THEN [how |-> w.faults.how] ELSE answer

-----------------------------------------------------------------------------
(* What a world is: what the framework or a handler does of a fault is not   *)
(* an answer, a pull request has one id, no host states that a change was    *)
(* not proposed, and of a resource that is absent there is nothing.          *)
PullRequests == [id : STRING, state : {"", "OPEN", "MERGED", "CLOSED"}, sha : STRING,
                 mergeSha : STRING, head : STRING, base : BOOLEAN, names : BOOLEAN]

Consistent(w) ==
  /\ w.faults.how \in {"refused", "violation", "threw"}
  /\ w.prs \subseteq PullRequests
  /\ \A p, q \in w.prs : p.id = q.id /\ p.id # "" => p = q
  /\ w.hostedMerge # "NOT_PROPOSED"
  /\ IsFiniteSet(w.environments)
  /\ IsFiniteSet(w.services)
  /\ "pull_requests" \in w.absent => w.prs = {}
  /\ "ci_state" \in w.absent => w.ci = {}
  /\ "review_threads" \in w.absent => w.reviews = {} /\ w.threads = {}
  /\ "children" \in w.absent => w.pmChildren = {}
  /\ "environments" \in w.absent => w.environments = {}
  /\ "deployed_version" \in w.absent => w.deployed = ""
=============================================================================
