------------------------------ MODULE MCPrologue ------------------------------
(***************************************************************************)
(* Instances of Prologue over the shipped policies: Work Items small       *)
(* enough to enumerate, and the worlds a repository passes through while   *)
(* one is worked on.                                                       *)
(***************************************************************************)
EXTENDS Prologue, ShippedPolicies

MCUnstated == 0 - 1
NoStage == "no stage"
NoId    == "no identity"
MCObligations == [s \in AllStages |-> {}]
MCAccess      == {"repository", "git"}
EveryRisk == {"READ_ONLY", "LOCAL_MUTATION", "EXTERNAL_MUTATION", "IRREVERSIBLE"}

(* Work Items.  Paths: "mod" is in the repository, "api" a contract          *)
(* boundary in some worlds, "ui" a surface in some.                          *)
Evidence(kind, adapter, path) == {[id |-> kind, kind |-> kind, adapter |-> adapter, path |-> path]}

Item(type, alternatives, scope, evidence) ==
  [names |-> NoId, type |-> type, alternatives |-> alternatives, scope |-> scope,
   capabilities |-> {}, repositories |-> {"r"}, title |-> "t", outcome |-> TRUE, confident |-> TRUE,
   assertions |-> {[confidence |-> "FACT", cites |-> {e.id : e \in evidence}]},
   evidence |-> evidence]

Chore    == Item("TASK", {}, {"mod"}, Evidence("file", "repository", "mod"))
Story    == [Item("STORY", {"TASK"}, {"mod", "ui"}, Evidence("file", "repository", "mod"))
               EXCEPT !.confident = FALSE]
Defect   == Item("DEFECT", {}, {"mod", "api"},
                 Evidence("query", "repository", "mod") \cup Evidence("git", "git", "mod"))
Ticket   == [Item("INVESTIGATION", {"DEFECT"}, {"mod"}, Evidence("query", "repository", "mod"))
               EXCEPT !.names = "T1"]
Outage   == Item("INCIDENT", {"DEFECT"}, {"mod"}, Evidence("log", "runtime", "mod"))
Alarm    == Item("TASK", {"INCIDENT"}, {"mod"}, Evidence("file", "repository", "mod"))
Sprawl   == [Item("TASK", {}, {"all"}, Evidence("file", "repository", "mod"))
               EXCEPT !.alternatives = {"STORY"}]

MCProposals == {Chore, Story, Defect, Ticket, Outage, Alarm, Sprawl}
OnlyDefect == {Defect}
(* Workflows an Orchestrator may propose.                                    *)
Flow(template, exclude) ==
  [template |-> template, include |-> {}, exclude |-> exclude, mandates |-> <<>>]

Narrowed(flow, capabilities) ==
  [flow EXCEPT !.mandates =
     [IMPLEMENTATION |-> [scope |-> {"mod"}, capabilities |-> capabilities,
                          repositories |-> {"r"}]]]

NoFlow == Flow("no proposal", {})

MCWorkflows ==
  {Flow("task.direct", {}),
   Flow("story.standard", {"ARCHITECTURE", "UX_REVIEW"}),
   Narrowed(Flow("defect.standard", {}), {}),
   Flow("defect.standard", {"ARCHITECTURE"}),
   Narrowed(Flow("incident.contain", {}), {"c"}),
   Flow("investigation.readonly", {"AUDIT"})}
DefectFlow == {Flow("defect.standard", {"ARCHITECTURE"})}
-----------------------------------------------------------------------------
(* Worlds.                                                                   *)
Pr(state)  == Read(state # "NONE", [state |-> state, head |-> "h"])
Reviews(n, approved, threads) == Read(n > 0, [count |-> n, approved |-> approved, threads |-> threads])

Untouched ==
  [implementation_present |-> Read(FALSE, "is"), tests_present |-> Read(FALSE, "is"),
   pr |-> Pr("NONE"), merge_state |-> Pr("NONE"), reviews |-> Reviews(0, FALSE, MCUnstated),
   agentos_history |-> Read(FALSE, {}), outcome_evidence |-> Read(FALSE, "is"),
   children |-> Read(FALSE, {}), deployment |-> Read(FALSE, "is")]

Changed(state) ==
  [Untouched EXCEPT !.implementation_present = Read(TRUE, "is"),
                    !.tests_present = Read(TRUE, "is"),
                    !.pr = Pr(state), !.merge_state = Pr(state),
                    !.agentos_history = Read(TRUE, {"AUDIT", "ROOT_CAUSE", "PLAN"})]

Merged == [Changed("MERGED") EXCEPT !.reviews = Reviews(1, TRUE, 0)]

Known ==
  [commit_count |-> Read(TRUE, "is"), canonical_ownership |-> Read(TRUE, "is"),
   ui_map |-> Read(TRUE, "is"), environments |-> Read(TRUE, {"PRODUCTION"})]

Plain(reality) ==
  [reality |-> reality, sections |-> Known, surfaces |-> {}, boundaries |-> {}]

Surfaced(reality) == [Plain(reality) EXCEPT !.surfaces = {"ui"}, !.boundaries = {"api"}]

Unmapped(reality) ==
  [Plain(reality) EXCEPT !.sections = [Known EXCEPT !.canonical_ownership = Unread,
                                                    !.environments = Unread]]

Started  == Unmapped([Changed("NONE") EXCEPT !.tests_present = Read(FALSE, "is")])
Approved == Surfaced([Changed("OPEN") EXCEPT !.reviews = Reviews(1, TRUE, 0)])
Released == Plain([Merged EXCEPT !.outcome_evidence = Read(TRUE, "is")])
Reverted == Plain([Merged EXCEPT !.implementation_present = Read(FALSE, "is")])
MCWorlds == {Surfaced(Untouched), Started, Approved, Released, Reverted}

(* Meanwhile a pull request is opened, merged, or reverted.                  *)
MCMoves == {<<Started, Approved>>, <<Approved, Released>>, <<Released, Reverted>>}

OpenWorld   == Plain(Changed("OPEN"))
MergedWorld == Plain(Merged)
OnlyMerged      == {MergedWorld}
MergedMeanwhile == {OpenWorld, MergedWorld}
MergeMeanwhile  == {<<OpenWorld, MergedWorld>>}
NoMoves == {}
(* At most one source is silent at a time.                                   *)
MCOutages == {{}, {"implementation_present"}, {"pr"}, {"outcome_evidence"}}
NoOutage  == {{}}
HostOutages == {{}, {"pr"}}
(* What of reality is fresh for five minutes, and not for a day.             *)
MCWindows == {Elements \ {"agentos_history", "children"}}
NoWindows == {}

(* A gap a probe can settle, and one whose subject is nothing of reality.    *)
Gap(elements) == [elements |-> elements, blocks |-> {"VALIDATION"}, recoverable |-> TRUE]
MCGapSets  == {<<>>, <<Gap({"pr"}), Gap({})>>}
NoGaps     == {<<>>}
Record == [id |-> "c", paths |-> {"mod"}, status |-> "WORKING"]
MCRegistries == {[available |-> TRUE, records |-> {Record}]}
=============================================================================
