---------------------------- MODULE ShippedPolicies ----------------------------
(***************************************************************************)
(* The policies the repository ships, policies/data: the stages, the       *)
(* workflow templates, the floor every workflow must hold and what each    *)
(* type of Work Item must show.  Constants of the models that read them.   *)
(***************************************************************************)
EXTENDS Naturals, Sequences

None == "none"

(* stages.json                                                               *)
ShippedMutating ==
  {"CHILD_COORDINATION", "IMPLEMENTATION", "REWORK", "COMMENT_RESOLUTION", "AUTHORIZATION",
   "PR_PREPARATION", "MERGE", "DEPLOY", "PRODUCTION_VALIDATION"}

AllStages ==
  ShippedMutating \cup
  {"AUDIT", "ROOT_CAUSE", "ARCHITECTURE", "PLAN", "DECOMPOSITION", "VALIDATION",
   "STRUCTURAL_REAUDIT", "UX_REVIEW", "PR_REVIEW", "REVIEW_TRIAGE", "COMPLETION"}

ShippedSatisfiedBy ==
  [s \in AllStages |->
     CASE s \in {"AUDIT", "ROOT_CAUSE", "ARCHITECTURE", "PLAN"} ->
            "reality.stage_completed_previously"
       [] s = "DECOMPOSITION"         -> "reality.children_exist"
       [] s = "CHILD_COORDINATION"    -> "reality.children_all_terminal"
       [] s = "IMPLEMENTATION"        -> "reality.implementation_present"
       [] s = "VALIDATION"            -> "reality.tests_present"
       [] s = "PR_PREPARATION"        -> "reality.pr_open"
       [] s = "PR_REVIEW"             -> "reality.pr_reviewed"
       [] s = "MERGE"                 -> "reality.pr_merged"
       [] s = "DEPLOY"                -> "reality.deployed"
       [] s = "PRODUCTION_VALIDATION" -> "reality.outcome_already_satisfied"
       [] OTHER                       -> None]

ShippedApplicability ==
  [s \in AllStages |->
     CASE s = "AUDIT"        -> "audit.applicable"
       [] s = "ARCHITECTURE" -> "architecture.required"
       [] s = "UX_REVIEW"    -> "ux.required"
       [] s \in {"DEPLOY", "PRODUCTION_VALIDATION"} -> "production.applicable"
       [] OTHER              -> None]

-----------------------------------------------------------------------------
(* workflows/*.json                                                          *)
Edge(kind, from, to, when) ==
  {[from |-> from, to |-> to, kind |-> kind, when |-> when, negated |-> FALSE]}

Branch(from, yes, no, when) ==
  Edge("branch", from, yes, when)
    \cup {[from |-> from, to |-> no, kind |-> "branch", when |-> when, negated |-> TRUE]}

Then(path) ==
  UNION {Edge("advance", path[i], path[i + 1], "always") : i \in 1..(Len(path) - 1)}

Ends == Edge("terminal", "COMPLETION", "COMPLETE", "always")

ChangeRequestLandTemplate ==
  [id |-> "change_request.land", types |-> {"CHANGE_REQUEST"},
   entry |-> "PR_REVIEW", optional |-> {},
   stages |-> <<"PR_REVIEW", "REVIEW_TRIAGE", "COMMENT_RESOLUTION",
               "IMPLEMENTATION", "VALIDATION", "STRUCTURAL_REAUDIT",
               "REWORK", "AUTHORIZATION", "MERGE", "COMPLETION">>,
   edges |-> Then(<<"REVIEW_TRIAGE", "COMMENT_RESOLUTION", "IMPLEMENTATION",
                    "VALIDATION", "STRUCTURAL_REAUDIT">>)
             \cup Then(<<"REWORK", "IMPLEMENTATION">>)
             \cup Then(<<"AUTHORIZATION", "MERGE", "COMPLETION">>)
             \cup Branch("STRUCTURAL_REAUDIT", "AUTHORIZATION", "PR_REVIEW", "reality.pr_approved")
             \cup Edge("loop", "PR_REVIEW", "REVIEW_TRIAGE", "reality.pr_has_unresolved_comments")
             \cup Edge("advance", "PR_REVIEW", "VALIDATION", "reality.pr_approved")
             \cup Edge("loop", "VALIDATION", "REWORK", "envelope.REJECTED")
             \cup Ends]

DefectStandardTemplate ==
  [id |-> "defect.standard", types |-> {"DEFECT"},
   entry |-> "AUDIT", optional |-> {"ARCHITECTURE", "UX_REVIEW"},
   stages |-> <<"AUDIT", "ROOT_CAUSE", "ARCHITECTURE", "PLAN",
               "IMPLEMENTATION", "VALIDATION", "STRUCTURAL_REAUDIT",
               "UX_REVIEW", "REWORK", "PR_PREPARATION", "PR_REVIEW",
               "REVIEW_TRIAGE", "COMMENT_RESOLUTION", "AUTHORIZATION",
               "MERGE", "COMPLETION">>,
   edges |-> Then(<<"AUDIT", "ROOT_CAUSE">>)
             \cup Then(<<"ARCHITECTURE", "PLAN", "IMPLEMENTATION",
                         "VALIDATION", "STRUCTURAL_REAUDIT">>)
             \cup Then(<<"UX_REVIEW", "PR_PREPARATION", "PR_REVIEW">>)
             \cup Then(<<"REWORK", "IMPLEMENTATION">>)
             \cup Then(<<"REVIEW_TRIAGE", "COMMENT_RESOLUTION",
                         "IMPLEMENTATION">>)
             \cup Then(<<"AUTHORIZATION", "MERGE", "COMPLETION">>)
             \cup Branch("ROOT_CAUSE", "ARCHITECTURE", "PLAN", "architecture.required")
             \cup Branch("STRUCTURAL_REAUDIT", "UX_REVIEW", "PR_PREPARATION", "ux.required")
             \cup Edge("loop", "IMPLEMENTATION", "ARCHITECTURE", "envelope.BLOCKED_BY_ARCHITECTURE")
             \cup Edge("loop", "VALIDATION", "REWORK", "envelope.REJECTED")
             \cup Edge("loop", "UX_REVIEW", "REWORK", "envelope.REJECTED")
             \cup Edge("loop", "PR_REVIEW", "REVIEW_TRIAGE", "reality.pr_has_unresolved_comments")
             \cup Edge("advance", "PR_REVIEW", "AUTHORIZATION", "reality.pr_approved")
             \cup Ends]

DocumentationDirectTemplate ==
  [id |-> "documentation.direct", types |-> {"TASK"},
   entry |-> "IMPLEMENTATION", optional |-> {},
   stages |-> <<"IMPLEMENTATION", "VALIDATION", "STRUCTURAL_REAUDIT",
               "REWORK", "PR_PREPARATION", "AUTHORIZATION", "MERGE",
               "COMPLETION">>,
   edges |-> Then(<<"REWORK", "IMPLEMENTATION", "VALIDATION",
                    "STRUCTURAL_REAUDIT", "PR_PREPARATION", "AUTHORIZATION",
                    "MERGE", "COMPLETION">>)
             \cup Edge("loop", "VALIDATION", "REWORK", "envelope.REJECTED")
             \cup Ends]

EpicCoordinateTemplate ==
  [id |-> "epic.coordinate", types |-> {"EPIC"},
   entry |-> "DECOMPOSITION", optional |-> {},
   stages |-> <<"DECOMPOSITION", "CHILD_COORDINATION", "VALIDATION",
               "COMPLETION">>,
   edges |-> Then(<<"DECOMPOSITION", "CHILD_COORDINATION">>)
             \cup Then(<<"VALIDATION", "COMPLETION">>)
             \cup Edge("advance", "CHILD_COORDINATION", "VALIDATION", "reality.children_all_terminal")
             \cup Ends]

FeatureStandardTemplate ==
  [id |-> "feature.standard", types |-> {"FEATURE"},
   entry |-> "AUDIT", optional |-> {"UX_REVIEW", "DEPLOY", "PRODUCTION_VALIDATION"},
   stages |-> <<"AUDIT", "ARCHITECTURE", "PLAN", "IMPLEMENTATION",
               "VALIDATION", "STRUCTURAL_REAUDIT", "UX_REVIEW", "REWORK",
               "PR_PREPARATION", "PR_REVIEW", "REVIEW_TRIAGE",
               "COMMENT_RESOLUTION", "AUTHORIZATION", "MERGE", "DEPLOY",
               "PRODUCTION_VALIDATION", "COMPLETION">>,
   edges |-> Then(<<"AUDIT", "ARCHITECTURE", "PLAN", "IMPLEMENTATION",
                    "VALIDATION", "STRUCTURAL_REAUDIT">>)
             \cup Then(<<"UX_REVIEW", "PR_PREPARATION", "PR_REVIEW">>)
             \cup Then(<<"REWORK", "IMPLEMENTATION">>)
             \cup Then(<<"REVIEW_TRIAGE", "COMMENT_RESOLUTION",
                         "IMPLEMENTATION">>)
             \cup Then(<<"AUTHORIZATION", "MERGE">>)
             \cup Then(<<"DEPLOY", "PRODUCTION_VALIDATION", "COMPLETION">>)
             \cup Branch("STRUCTURAL_REAUDIT", "UX_REVIEW", "PR_PREPARATION", "ux.required")
             \cup Branch("MERGE", "DEPLOY", "COMPLETION", "production.applicable")
             \cup Edge("loop", "IMPLEMENTATION", "ARCHITECTURE", "envelope.BLOCKED_BY_ARCHITECTURE")
             \cup Edge("loop", "VALIDATION", "REWORK", "envelope.REJECTED")
             \cup Edge("loop", "UX_REVIEW", "REWORK", "envelope.REJECTED")
             \cup Edge("loop", "PR_REVIEW", "REVIEW_TRIAGE", "reality.pr_has_unresolved_comments")
             \cup Edge("advance", "PR_REVIEW", "AUTHORIZATION", "reality.pr_approved")
             \cup Edge("escalate", "PRODUCTION_VALIDATION", "BLOCKED", "envelope.REJECTED")
             \cup Ends]

IncidentContainTemplate ==
  [id |-> "incident.contain", types |-> {"INCIDENT"},
   entry |-> "ROOT_CAUSE", optional |-> {},
   stages |-> <<"ROOT_CAUSE", "AUTHORIZATION", "IMPLEMENTATION",
               "VALIDATION", "STRUCTURAL_REAUDIT", "REWORK",
               "PR_PREPARATION", "MERGE", "DEPLOY", "PRODUCTION_VALIDATION",
               "COMPLETION">>,
   edges |-> Then(<<"ROOT_CAUSE", "AUTHORIZATION", "IMPLEMENTATION",
                    "VALIDATION", "STRUCTURAL_REAUDIT", "PR_PREPARATION",
                    "MERGE", "DEPLOY", "PRODUCTION_VALIDATION",
                    "COMPLETION">>)
             \cup Then(<<"REWORK", "IMPLEMENTATION">>)
             \cup Edge("loop", "VALIDATION", "REWORK", "envelope.REJECTED")
             \cup Edge("escalate", "PRODUCTION_VALIDATION", "BLOCKED", "envelope.REJECTED")
             \cup Ends]

InvestigationReadonlyTemplate ==
  [id |-> "investigation.readonly", types |-> {"*"},
   entry |-> "AUDIT", optional |-> {"AUDIT", "ROOT_CAUSE"},
   stages |-> <<"AUDIT", "ROOT_CAUSE", "COMPLETION">>,
   edges |-> Then(<<"AUDIT", "ROOT_CAUSE", "COMPLETION">>)
             \cup Ends]

StoryStandardTemplate ==
  [id |-> "story.standard", types |-> {"STORY"},
   entry |-> "AUDIT", optional |-> {"ARCHITECTURE", "UX_REVIEW"},
   stages |-> <<"AUDIT", "ARCHITECTURE", "PLAN", "IMPLEMENTATION",
               "VALIDATION", "STRUCTURAL_REAUDIT", "UX_REVIEW", "REWORK",
               "PR_PREPARATION", "PR_REVIEW", "REVIEW_TRIAGE",
               "COMMENT_RESOLUTION", "AUTHORIZATION", "MERGE", "COMPLETION">>,
   edges |-> Then(<<"ARCHITECTURE", "PLAN", "IMPLEMENTATION", "VALIDATION",
                    "STRUCTURAL_REAUDIT">>)
             \cup Then(<<"UX_REVIEW", "PR_PREPARATION", "PR_REVIEW">>)
             \cup Then(<<"REWORK", "IMPLEMENTATION">>)
             \cup Then(<<"REVIEW_TRIAGE", "COMMENT_RESOLUTION",
                         "IMPLEMENTATION">>)
             \cup Then(<<"AUTHORIZATION", "MERGE", "COMPLETION">>)
             \cup Branch("AUDIT", "ARCHITECTURE", "PLAN", "architecture.required")
             \cup Branch("STRUCTURAL_REAUDIT", "UX_REVIEW", "PR_PREPARATION", "ux.required")
             \cup Edge("loop", "IMPLEMENTATION", "ARCHITECTURE", "envelope.BLOCKED_BY_ARCHITECTURE")
             \cup Edge("loop", "VALIDATION", "REWORK", "envelope.REJECTED")
             \cup Edge("loop", "UX_REVIEW", "REWORK", "envelope.REJECTED")
             \cup Edge("loop", "PR_REVIEW", "REVIEW_TRIAGE", "reality.pr_has_unresolved_comments")
             \cup Edge("advance", "PR_REVIEW", "AUTHORIZATION", "reality.pr_approved")
             \cup Ends]

TaskDirectTemplate ==
  [id |-> "task.direct", types |-> {"TASK"},
   entry |-> "IMPLEMENTATION", optional |-> {},
   stages |-> <<"IMPLEMENTATION", "VALIDATION", "REWORK", "PR_PREPARATION",
               "AUTHORIZATION", "MERGE", "COMPLETION">>,
   edges |-> Then(<<"REWORK", "IMPLEMENTATION", "VALIDATION",
                    "PR_PREPARATION", "AUTHORIZATION", "MERGE",
                    "COMPLETION">>)
             \cup Edge("loop", "VALIDATION", "REWORK", "envelope.REJECTED")
             \cup Ends]

ShippedTemplates ==
  <<ChangeRequestLandTemplate, DefectStandardTemplate, DocumentationDirectTemplate,
    EpicCoordinateTemplate, FeatureStandardTemplate, IncidentContainTemplate,
    InvestigationReadonlyTemplate, StoryStandardTemplate, TaskDirectTemplate>>

-----------------------------------------------------------------------------
(* workflow-floor.json                                                       *)
Requires(stage, position, anchor) == [stage |-> stage, position |-> position, anchor |-> anchor]

Rule(kind, of, requires) ==
  [trigger |-> [kind |-> kind, of |-> of], requires |-> requires, forbids |-> {}]

ShippedFloor ==
  {Rule("contains_stage", "MERGE",
        {Requires("VALIDATION", "before", "MERGE"), Requires("AUTHORIZATION", "before", "MERGE")}),
   Rule("contains_stage", "DEPLOY",
        {Requires("VALIDATION", "before", "DEPLOY"),
         Requires("AUTHORIZATION", "before", "DEPLOY"),
         Requires("PRODUCTION_VALIDATION", "after", "DEPLOY")}),
   Rule("contains_stage", "IMPLEMENTATION", {Requires("VALIDATION", "after", "IMPLEMENTATION")}),
   Rule("work_item_type", "DEFECT", {Requires("ROOT_CAUSE", "before", "IMPLEMENTATION")}),
   [Rule("work_item_type", "EPIC", {}) EXCEPT !.forbids = {"IMPLEMENTATION"}],
   Rule("predicate_true", "architecture.required", {Requires("ARCHITECTURE", "present", None)}),
   Rule("predicate_true", "ux.required", {Requires("UX_REVIEW", "present", None)}),
   Rule("predicate_true", "regression.suspected",
        {Requires("ROOT_CAUSE", "before", "IMPLEMENTATION")}),
   Rule("always", None, {Requires("COMPLETION", "sole_predecessor_of_complete", None)})}

-----------------------------------------------------------------------------
(* work-items.json, and the access dod/*.json asks for                       *)
Shows(requirement, kinds) == [requirement |-> requirement, kinds |-> kinds]

Asks(by, needs, profiles) == [by |-> by, needs |-> needs, profiles |-> profiles]

Capability == {"service-capability", "data-capability", "ui-capability", "internal-capability"}

ShippedTypes ==
  [EPIC           |-> Asks("ANY", {Shows("external_item_of_this_type", {"ticket"}),
                                   Shows("child_items_exist", {"ticket"})},
                           Capability \ {"ui-capability"}),
   FEATURE        |-> Asks("ALL", {Shows("no_capability_record_intersecting_scope",
                                         {"file", "git"})}, Capability),
   STORY          |-> Asks("ANY", {Shows("external_item_of_this_type", {"ticket"}),
                                   Shows("named_path_exists", {"file"})}, Capability),
   DEFECT         |-> Asks("ALL", {Shows("capability_record_intersecting_scope",
                                         {"file", "git", "query", "http"}),
                                   Shows("reproduction_or_incorrect_behaviour_report",
                                         {"ticket", "log", "query", "http", "command"})},
                           {"fix"}),
   TASK           |-> Asks("ALL", {Shows("named_path_exists", {"file"})},
                           {"documentation", "internal-capability"}),
   INCIDENT       |-> Asks("ALL", {Shows("runtime_or_production_observation",
                                         {"log", "metric", "query", "http"})}, {"fix"}),
   INVESTIGATION  |-> Asks("NONE", {Shows("none", {})}, {"audit"}),
   CHANGE_REQUEST |-> Asks("ALL", {Shows("existing_change_proposal", {"git"})}, {"fix"}),
   UNKNOWN        |-> Asks("NONE", {Shows("none", {})}, {"audit"})]

ShippedProfileAccess ==
  [f \in Capability \cup {"audit", "fix", "documentation"} |->
     CASE f = "documentation" -> {"repository"}
       [] f \in {"service-capability", "data-capability", "ui-capability"} ->
            {"repository", "git", "runtime"}
       [] OTHER -> {"repository", "git"}]
=============================================================================
