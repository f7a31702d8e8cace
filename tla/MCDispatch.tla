----------------------------- MODULE MCDispatch -----------------------------
(***************************************************************************)
(* Two auditing stages of the read-only graph, one failed dispatch of each *)
(* retried.  The auditor may read the repository and query the runtime;    *)
(* the registry also holds an operation that mutates and one its adapters  *)
(* do not include.                                                         *)
(***************************************************************************)
EXTENDS Dispatch

Edge(from, to, kind) ==
  [from |-> from, to |-> to, kind |-> kind, when |-> "always",
   negated |-> FALSE, counter |-> NoCounter]

MCGraphStages == <<"AUDIT", "STRUCTURAL_REAUDIT">>
MCEdges == << Edge("AUDIT", "STRUCTURAL_REAUDIT", "advance"),
              Edge("STRUCTURAL_REAUDIT", "COMPLETE", "terminal") >>
MCNone == {}
MCNoCaps == [c \in {} |-> 0]

MCTools == {"read", "query", "merge", "spawn"}
MCSpawnNames == {}
MCSpawnFragments == {"spawn"}
MCOperations ==
  {[adapter |-> "repo", tool |-> "read", mutating |-> FALSE, observation_safe |-> TRUE],
   [adapter |-> "runtime", tool |-> "query", mutating |-> FALSE, observation_safe |-> TRUE],
   [adapter |-> "repo", tool |-> "merge", mutating |-> TRUE, observation_safe |-> FALSE],
   [adapter |-> "other", tool |-> "spawn", mutating |-> FALSE, observation_safe |-> FALSE]}
MCTouches == [t \in MCTools \cup {NoTool} |-> IF t = "read" THEN {"file"} ELSE {"service"}]
MCRefusals == [t \in MCTools \cup {NoTool} |->
                 IF t = "query" THEN {"SECURITY"} ELSE {}]
MCWorld == [file |-> 0, service |-> 0]
MCChanges == {1, -2}

Need == [context |-> 3, reasoning |-> 3, coding |-> FALSE, vision |-> FALSE,
         tool_use |-> 2, precise |-> TRUE]
Role(name, pass) ==
  [role |-> "auditor", mandate |-> name, stage |-> name, pass |-> pass,
   required_outputs |-> {"report"}, model |-> Need]
MCRoleSpecs == {Role("AUDIT", {"first"})}
MCRoles ==
  {[role |-> "auditor", adapters |-> {"repo", "runtime"}, read_only |-> TRUE,
    may_propose |-> {"authorization_request"},
    stages |-> [authorization_request |-> {"AUDIT"}]],
   [role |-> "orchestrator", adapters |-> {}, read_only |-> TRUE,
    may_propose |-> {}, stages |-> [x \in {} |-> {}]]}
MCRolePolicy ==
  [auditor |-> [may_return |-> {"COMPLETE", "PARTIAL", "BLOCKED", "FAILED"},
                may_propose |-> {"authorization_request"},
                stages |-> [authorization_request |-> {"AUDIT"}]]]
MCCriteria == {[criterion |-> 3, owner |-> "auditor", pass |-> "first"],
               [criterion |-> 6, owner |-> "auditor", pass |-> "second"]}
MCDescriptors ==
  [s \in {"AUDIT", "STRUCTURAL_REAUDIT"} |->
     [agent |-> "auditor", mutating |-> FALSE, required_outputs |-> {"report"},
      criteria |-> IF s = "AUDIT" THEN {3} ELSE {6}]]

MCContextFloor == <<32, 128, 400>>
MCAdapterDomains == [repo |-> {"repository_analysis"}, git |-> {"git"},
                     runtime |-> {"deployment"}]
MCAdapterTargets == [repo |-> {"filesystem"}, git |-> {"vcs"}, runtime |-> {"network"}]
MCStageDomains == [s \in {"AUDIT", "STRUCTURAL_REAUDIT"} |->
                     IF s = "AUDIT" THEN {} ELSE {"testing"}]

ModelEntry(id, price) ==
  [id |-> id, available |-> TRUE, reasoning |-> 3, coding |-> 2, vision |-> 0,
   tool_use |-> 2, precise |-> TRUE, window |-> 500, price |-> price, latency |-> 600]
MCRegistries == {{ModelEntry(1, 30), ModelEntry(2, 10)}, {}}

Skill(id, spawns, operations) ==
  [id |-> id, spawns |-> spawns, determined |-> TRUE, mutating |-> FALSE,
   available |-> TRUE, domains |-> {"repository_analysis"}, operations |-> operations,
   targets |-> {"filesystem"}, cost |-> 100, reliability |-> 500, external |-> FALSE,
   reversible |-> TRUE, source |-> "host"]
MCSkills == {Skill(1, TRUE, {"read"}), Skill(2, FALSE, {"read", "verify"}),
             Skill(3, FALSE, {"mutate"})}

Surface(tools) == [reported |-> TRUE, tools |-> tools, agents |-> 0]
MCSurfaces == {Surface({Qualify("read"), Qualify("query")}),
               Surface({Qualify("read"), Qualify("query"), OfHost("read")})}

Path(place) == [capability |-> FALSE, places |-> {place}]
Item(id, op, excerpt) ==
  [id |-> id, kind |-> "file", op |-> op, excerpt |-> excerpt, reproducible |-> TRUE,
   predicated |-> FALSE, marked |-> FALSE]
Finding(weighty, ids) == [weighty |-> weighty, fact |-> weighty, evidence |-> ids]
Report(covers, evidence) ==
  [kind |-> "ENVELOPE", valid |-> TRUE, id |-> 0, dispatch |-> 0, stage |-> "",
   agent |-> "auditor", status |-> "COMPLETE", named |-> {"report"},
   filled |-> {"report"}, evidence |-> evidence,
   findings |-> {Finding(TRUE, {e.id}) : e \in evidence}, verdicts |-> {},
   blockers |-> {}, unknowns |-> {}, coverage |-> {Path(c) : c \in covers},
   changed |-> {}, proposals |-> {}, bareHypothesis |-> FALSE]
Both == {Item(1, "read", 0), Item(2, "query", 0)}
MCShapes ==
  {Report({"file"}, Both),
   [Report({"file", "service"}, {Item(1, "read", 1), Item(2, "query", 0)}) EXCEPT
      !.status = "PARTIAL", !.filled = {}, !.unknowns = {{"report"}}],
   [Report({"service"}, {}) EXCEPT !.id = 1],
   [Report({"file"}, {}) EXCEPT !.dispatch = -1],
   [Report({"file"}, {}) EXCEPT !.valid = FALSE]}
=============================================================================
