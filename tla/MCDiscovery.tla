----------------------------- MODULE MCDiscovery -----------------------------
(***************************************************************************)
(* A world in which everything answers, and what may be otherwise in it.   *)
(***************************************************************************)
EXTENDS Discovery, TLC

Pr == [id |-> "p1", state |-> "OPEN", sha |-> "s1", mergeSha |-> "", head |-> "work",
       base |-> TRUE, names |-> TRUE]
MergedPr == [Pr EXCEPT !.state = "MERGED", !.mergeSha = "m1"]
Commit == [on |-> {"work"}, inScope |-> TRUE, names |-> TRUE]
GreenRun == [sha |-> "s1", status |-> "COMPLETED", conclusion |-> "SUCCESS"]
None1 == [op |-> "", how |-> "threw"]

Healthy ==
  [checkout |-> TRUE, git |-> "ok", root |-> "directory", vcs |-> "answers", pm |-> "answers",
   runtime |-> "answers", absent |-> {}, ledger |-> "wired", inventory |-> "answers",
   faults |-> None1, remoteHead |-> TRUE, branch |-> TRUE, protected |-> "yes",
   commits |-> {Commit}, tags |-> {"v1"}, prs |-> {Pr}, sparse |-> FALSE,
   reviews |-> {[state |-> "APPROVED", sha |-> "s1"]}, threads |-> {}, ci |-> {GreenRun},
   hostedMerge |-> "OPEN", ancestor |-> FALSE, ticketStatus |-> "open", issues |-> {"c1"},
   pmChildren |-> {}, links |-> {"link"}, documents |-> {"document"},
   environments |-> {[name |-> "prod", production |-> "yes"],
                     [name |-> "test", production |-> "no"]},
   darkEnvironments |-> {}, deployed |-> "s0", holds |-> "no", services |-> {"c1"},
   logs |-> {}, trust |-> "local", runs |-> {}, children |-> {},
   files |-> {"manifest", "sources", "tests", "ci", "documentation", "deployment", "api"},
   truncated |-> FALSE]

Fault(o, h) == [faults |-> [op |-> o, how |-> h]]

(* What may be otherwise from the start.                                     *)
Lasting == <<
  [checkout |-> FALSE], [git |-> "failing"], [root |-> "file"],
  [vcs |-> "none"], [pm |-> "none"], [pm |-> "down"], [runtime |-> "none"],
  [absent |-> {"pull_requests"}, prs |-> {}], [absent |-> {"ci_state"}, ci |-> {}],
  [absent |-> {"review_threads"}, reviews |-> {}],
  [absent |-> {"environments"}, environments |-> {}], [absent |-> {"pull_request", "branch_protection", "issue"}],
  [ledger |-> "unwired"], [inventory |-> "broken"],
  Fault("git.list_prs", "violation"), Fault("git.list_prs", "threw"),
  Fault("git.list_branches", "refused"), Fault("repo.list_paths", "violation"),
  Fault("runtime.deployed_version", "refused"), Fault("repo.detect_stack", "refused"),
  Fault("host.list_tools", "violation"),
  [remoteHead |-> FALSE], [prs |-> {[Pr EXCEPT !.head = "other"]}],
  [prs |-> {[Pr EXCEPT !.id = "p2", !.state = "CLOSED"], MergedPr}],
  [sparse |-> TRUE], [holds |-> "unstated"], [files |-> {}], [files |-> {"sources"}],
  [pmChildren |-> {"k1"}], [faults |-> [op |-> "pm.list_children", how |-> "threw"], pmChildren |-> {"k1"}],
  [truncated |-> TRUE], [sparse |-> TRUE, absent |-> {"pull_request"}],
  [runs |-> {[stages |-> {"IMPLEMENTATION"}]}, children |-> {"k2"}],
  [commits |-> {[Commit EXCEPT !.inScope = FALSE]}] >>

(* What may also become so while a run looks.                                *)
Passing == <<
  [vcs |-> "down"], [runtime |-> "down"], [branch |-> FALSE], [protected |-> "unstated"],
  [protected |-> "yes"], [prs |-> {}],
  [prs |-> {MergedPr}, hostedMerge |-> "MERGED", deployed |-> "m1", ticketStatus |-> "done",
   absent |-> {}],
  [commits |-> {[Commit EXCEPT !.on = {"work", "main"}]}],
  [commits |-> {[Commit EXCEPT !.on = {"main"}]}, branch |-> FALSE],
  [reviews |-> {[state |-> "APPROVED", sha |-> "s0"]}, absent |-> {}],
  [reviews |-> {[state |-> "APPROVED", sha |-> ""]}, absent |-> {}],
  [threads |-> {[resolved |-> FALSE, sha |-> "s1"]}, absent |-> {}],
  [ci |-> {GreenRun, [sha |-> "s1", status |-> "RUNNING", conclusion |-> ""]}, absent |-> {}],
  [ci |-> {[GreenRun EXCEPT !.conclusion = "FAILURE"]}, absent |-> {}], [ci |-> {}],
  [deployed |-> "s1"], [deployed |-> "s1", darkEnvironments |-> {"prod", "test"}],
  [environments |-> {}], [holds |-> "yes"], [ticketStatus |-> "done"] >>

Start == {Lasting[i] : i \in DOMAIN Lasting} \union {Passing[i] : i \in DOMAIN Passing}
MCWorlds == {Healthy} \union {d @@ Healthy : d \in Start}

(* A world becomes one in which one thing more is otherwise.                 *)
MCChanged(w, v) == \E i \in DOMAIN Passing : v = Passing[i] @@ w /\ v # w

MCWorldsAfter == {Passing[i] @@ w : i \in DOMAIN Passing, w \in MCWorlds}

MCInputs == {[item |-> TRUE, scope |-> TRUE, external |-> TRUE]}
MCTargets == {"pr", "deployment", "git.branches"}
MCChangesBefore == {"pr", "merge_state", "deployment"}
MCElsewhere == [c1 |-> [seen |-> {"CODE"}, scoped |-> TRUE, claimed |-> FALSE],
                c2 |-> [seen |-> {}, scoped |-> FALSE, claimed |-> TRUE]]
=============================================================================
