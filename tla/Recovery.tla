------------------------------ MODULE Recovery ------------------------------
(***************************************************************************)
(* A run writes its two logs, crashes, and is recovered from them.         *)
(*                                                                         *)
(* The runner is core/src/kernel.ts from run_started to run_ended and, of  *)
(* a run that is re-resolved, on to the end of the run that takes its      *)
(* place, at the granularity of the lines it appends and of the calls its  *)
(* agents make; a recoverer is recoverRun over core/src/recovery.ts, a     *)
(* process of its own that takes no lease.  A crash may come between any   *)
(* two steps, or in the middle of a line.  An operator recovers a run that *)
(* is gone, one recovery at a time; the code asks for neither.             *)
(*                                                                         *)
(* Left out: what decides the runner's transitions (RunLoop), the events   *)
(* that replay ignores, a run that another process starts on the work item *)
(* once this one is gone, and applyReversals, which nothing in src calls.  *)
(***************************************************************************)
EXTENDS EventLog, FiniteSets

CONSTANTS
  Recoverers,     (* the recoveries that may be run                          *)
  Stages,         (* the graph's stages in order, COMPLETION last            *)
  Settings        (* what may bound a run, one of them each                  *)

(* The policies: the cap of the one counter on the graph's loop edges,
   budgets.dispatches.per_run, the iterations (that, the stages and 4,
   kernel.ts:1616) and the re-resolutions its work item has left.  And bounds
   of TLC's, not the code's: on the calls of its agents, on the lines about its
   lease while it holds it, and on the recoveries of it.                     *)
Bounds ==
  [loops : Nat, dispatches : Nat, iterations : Nat, reresolutions : Nat,
   calls : Nat, leaseLines : Nat, recoveries : Nat]

Graph    == {Stages[i] : i \in DOMAIN Stages}
Selected == "WORKFLOW_SELECTED"

StoppedAt == {"BLOCKED", "CANCELLED"}

(* The stages of a template, the control states and the stages of the
   prologue are three vocabularies with no name in common.                   *)
ASSUME RecoveryAssumption ==
  /\ Recoverers \cap {"runner", "outer", "next"} = {}
  /\ Stages \in Seq(Graph) /\ Len(Stages) > 0
  /\ Graph \cap (StoppedAt \cup {Selected, "INTAKE_RECEIVED", NoStage}) = {}
  /\ Settings \subseteq Bounds

VARIABLES
  runLog, itemLog,  (* events.ndjson of the run and of its work item         *)
  calls,            (* the calls of the run's agents that change the world   *)
  journal,          (* of each journal, the sequence numbers it has reached  *)
  runner,           (* what the run holds in memory                          *)
  crew              (* what each recoverer holds                             *)

vars == <<runLog, itemLog, calls, journal, runner, crew>>

Completion == Stages[Len(Stages)]
Over       == {"idle", "done", "threw", "dead"}

(* The run's journal, performReresolution's, the next run's, a recovery's.   *)
Journals == Recoverers \cup {"runner", "outer", "next"}

(* ---- core/src/recovery.ts: project ---- *)

Blank ==
  [admitted |-> FALSE, ended |-> FALSE, stage |-> "INTAKE_RECEIVED",
   preBlock |-> NoStage, cursor |-> [s \in Graph |-> "NONE"], loops |-> 0,
   dispatches |-> 0, intents |-> {}, results |-> {}, mutations |-> <<>>]

UpsertCursor(cursor, stage, state) ==  (* a prologue stage has no place in it *)
  [s \in Graph |-> IF s = stage THEN state ELSE cursor[s]]

(* Mutant: the stage a run blocked at is one it completed.                   *)
AfterTransitionCompletes(p, e) ==
  LET left == UpsertCursor(p.cursor, e.from, "COMPLETED")
  IN [p EXCEPT !.stage = e.to,
               !.cursor = IF e.to \in StoppedAt THEN left
                          ELSE UpsertCursor(left, e.to, "ACTIVE"),
               !.preBlock = IF e.to = "BLOCKED" THEN e.from
                            ELSE IF p.stage = "BLOCKED" THEN NoStage ELSE @,
               !.loops = @ + e.n]

(* A stage the run stopped at stays ACTIVE; one it left is COMPLETED.  e.n is
   1 on a loop edge of the graph, which is what finds the edge's counter.    *)
AfterTransition(p, e) ==
  [p EXCEPT
    !.stage = e.to,
    !.cursor = IF e.to \in StoppedAt THEN UpsertCursor(@, e.from, "ACTIVE")
               ELSE UpsertCursor(UpsertCursor(@, e.from, "COMPLETED"), e.to, "ACTIVE"),
    !.preBlock = IF e.to = "BLOCKED" THEN e.from
                 ELSE IF p.stage = "BLOCKED" THEN NoStage ELSE @,
    !.loops = @ + e.n]

(* Mutant: a dispatch whose interruption was reported is rolled back.        *)
ReplayForgetting(p, e) ==
  CASE e.kind = "workflow_admitted" -> [p EXCEPT !.admitted = TRUE]
    [] e.kind = "transition"        -> AfterTransition(p, e)
    [] e.kind = "dispatch_intent"   -> [p EXCEPT !.intents = @ \cup {e.d}]
    [] e.kind \in {"dispatch_result", "recovery_found"} ->
         [p EXCEPT !.results = @ \cup {e.d}]
    [] e.kind = "mutation"          -> [p EXCEPT !.mutations = Append(@, e)]
    [] OTHER                        -> p

Replay(p, e) ==
  CASE e.kind = "workflow_admitted"    -> [p EXCEPT !.admitted = TRUE]
    [] e.kind = "entry_stage_computed" -> [p EXCEPT !.stage = IF e.to = NoStage THEN @ ELSE e.to]
    [] e.kind = "stage_marked_completed_prior" ->
         [p EXCEPT !.cursor = UpsertCursor(@, e.from, "COMPLETED_PRIOR")]
    [] e.kind = "transition"           -> AfterTransition(p, e)
    [] e.kind = "budget"               -> [p EXCEPT !.loops = e.n]
    [] e.kind = "dispatch_intent"      -> [p EXCEPT !.intents = @ \cup {e.d}]
    [] e.kind = "dispatch_result"      -> [p EXCEPT !.results = @ \cup {e.d},
                                                    !.dispatches = @ + 1]
    [] e.kind = "mutation"             -> [p EXCEPT !.mutations = Append(@, e)]
    [] e.kind = "run_ended"            -> [p EXCEPT !.ended = TRUE]
    [] OTHER                           -> p

Project(lines) ==
  LET after[n \in 0..Len(lines)] ==
        IF n = 0 THEN Blank ELSE Replay(after[n - 1], lines[n])
  IN after[Len(lines)]

Interrupted(p) == p.intents \ p.results

(* ---- core/src/entry-stage.ts ---- *)

StageFromCursor(cursor) ==  (* PENDING is written by nothing                 *)
  IF \E s \in Graph : cursor[s] = "ACTIVE"
    THEN Stages[CHOOSE i \in DOMAIN Stages : cursor[Stages[i]] = "ACTIVE"]
    ELSE Completion

(* ---- core/src/recovery.ts: decideRetry ---- *)

Of(mutations, d) ==
  LET first[n \in 0..Len(mutations)] ==
        IF n = 0 THEN <<>>
        ELSE IF mutations[n].d = d THEN Append(first[n - 1], mutations[n])
        ELSE first[n - 1]
  IN first[Len(mutations)]

(* Mutant: what was done first is undone first.                              *)
DecideForwards(mutations) ==
  IF mutations = <<>> THEN [decision |-> "RETRY_CLEAN", reversals |-> <<>>]
  ELSE IF \E i \in DOMAIN mutations : mutations[i].n = 0
    THEN [decision |-> "BLOCK_NON_REVERSIBLE", reversals |-> <<>>]
  ELSE [decision |-> "ROLLBACK_AND_RETRY", reversals |-> mutations]

(* n is the call a mutation's reversal undoes; 0, of one that has none.      *)
DecideRetry(mutations) ==
  IF mutations = <<>> THEN [decision |-> "RETRY_CLEAN", reversals |-> <<>>]
  ELSE IF \E i \in DOMAIN mutations : mutations[i].n = 0
    THEN [decision |-> "BLOCK_NON_REVERSIBLE", reversals |-> <<>>]
  ELSE [decision |-> "ROLLBACK_AND_RETRY", reversals |-> Reverse(mutations)]

(* interruptedDispatches[0], the earliest: a run has at most one.            *)
NoVerdict == [decision |-> "NONE", reversals |-> <<>>]
Verdict(p) ==
  IF Interrupted(p) = {} THEN NoVerdict
  ELSE DecideRetry(Of(p.mutations, CHOOSE d \in Interrupted(p) : TRUE))

(* ---- core/src/journal.ts ---- *)

(* Mutant: a journal counts on from nothing, not from the log.               *)
OpenFromZero(j) == journal' = [journal EXCEPT ![j] = [run |-> 0, item |-> 0]]

(* outer has no run, and next another: neither uses the first counter.       *)
Open(j) == journal' = [journal EXCEPT ![j] = [run  |-> LastSeq(runLog),
                                              item |-> LastSeq(itemLog)]]

(* Both count before they write, so a number that failed is not used again.  *)
JournalRun(j, event) ==
  /\ EndsWithNewline(runLog)
  /\ journal' = [journal EXCEPT ![j].run = @ + 1]
  /\ runLog' = Appended(runLog, Numbered(event, journal[j].run + 1))
  /\ UNCHANGED itemLog

JournalItem(j, kind) ==
  /\ EndsWithNewline(itemLog)
  /\ journal' = [journal EXCEPT ![j].item = @ + 1]
  /\ itemLog' = Appended(itemLog, Numbered(Event(kind, 0, NoStage, NoStage, 0),
                                           journal[j].item + 1))
  /\ UNCHANGED runLog

Init ==
  /\ runLog = EmptyLog
  /\ itemLog = EmptyLog
  /\ calls = <<>>
  /\ journal = [j \in Journals |-> [run |-> 0, item |-> 0]]
  /\ \E setting \in Settings :
       runner = [pc |-> "new", setting |-> setting, stage |-> Selected, prior |-> 0,
                 iteration |-> 0, d |-> 0, charged |-> 0, results |-> 0, loops |-> 0,
                 routedBack |-> {}, refused |-> NoStage, again |-> FALSE]
  /\ crew = [v \in Recoverers |-> [pc |-> "idle", saw |-> Blank]]

(* ---- the runner ---- *)

At(pc) == runner.pc = pc
Goto(pc) == runner' = [runner EXCEPT !.pc = pc]
OnlyRunner == UNCHANGED <<calls, crew>>

Begin ==  (* createRun makes the log, then the journal is opened             *)
  /\ At("new") /\ Goto("starting")
  /\ Open("runner")
  /\ UNCHANGED <<runLog, itemLog>> /\ OnlyRunner

(* both(): the work item's log first, then the run's.                        *)
StartedItem ==
  /\ At("starting") /\ Goto("started")
  /\ JournalItem("runner", "run_started") /\ OnlyRunner

StartedRun ==
  /\ At("started") /\ Goto("admitting")
  /\ JournalRun("runner", Event("run_started", 0, NoStage, NoStage, 0)) /\ OnlyRunner

Admit ==
  /\ At("admitting") /\ Goto("computing")
  /\ JournalRun("runner", Event("workflow_admitted", 0, NoStage, NoStage, 0)) /\ OnlyRunner

(* The resume sweep passes over the first `prior` stages.                    *)
ComputeEntry(prior) ==
  /\ At("computing")
  /\ runner' = [runner EXCEPT !.pc = "marking", !.prior = prior]
  /\ JournalRun("runner", Event("entry_stage_computed", 0, NoStage, Stages[prior + 1], 0))
  /\ OnlyRunner

EntryAmbiguous ==
  /\ At("computing") /\ Goto("ambiguous")
  /\ JournalRun("runner", Event("entry_stage_computed", 0, NoStage, NoStage, 0)) /\ OnlyRunner

BlockAtEntry ==
  /\ At("ambiguous")
  /\ runner' = [runner EXCEPT !.pc = "ending", !.stage = "BLOCKED"]
  /\ JournalRun("runner", Event("transition", 0, Selected, "BLOCKED", 0)) /\ OnlyRunner

Marked == Cardinality({i \in DOMAIN runLog.lines :
                         runLog.lines[i].kind = "stage_marked_completed_prior"})

MarkPrior ==
  /\ At("marking") /\ Marked < runner.prior
  /\ JournalRun("runner",
       Event("stage_marked_completed_prior", 0, Stages[Marked + 1], NoStage, 0))
  /\ UNCHANGED runner /\ OnlyRunner

Enter ==
  /\ At("marking") /\ Marked = runner.prior
  /\ runner' = [runner EXCEPT !.pc = "ready", !.stage = Stages[runner.prior + 1]]
  /\ JournalRun("runner", Event("transition", 0, Selected, Stages[runner.prior + 1], 0))
  /\ OnlyRunner

(* The bound on iterations is no policy, and the run ends without a line.    *)
OutOfIterations ==
  /\ At("ready") /\ runner.iteration = runner.setting.iterations
  /\ Goto("ending")
  /\ UNCHANGED <<runLog, itemLog, journal>> /\ OnlyRunner

Iterating   == At("ready") /\ runner.iteration < runner.setting.iterations
Dispatching == Iterating /\ runner.stage # Completion

(* Of the cap on dispatches, or of one that is not here: on the cost, on the
   wall clock, on the work item.                                             *)
BudgetExceeded ==
  /\ Dispatching
  /\ Goto("ending")
  /\ JournalRun("runner", Event("budget_exceeded", 0, runner.stage, NoStage, 0)) /\ OnlyRunner

NoModel ==  (* a result without an intent, and charged to nothing            *)
  /\ Dispatching /\ runner.charged < runner.setting.dispatches
  /\ runner' = [runner EXCEPT !.pc = "decided", !.iteration = @ + 1, !.d = @ + 1,
                             !.results = @ + 1]
  /\ JournalRun("runner", Event("dispatch_result", runner.d + 1, runner.stage, NoStage, 0))
  /\ OnlyRunner

(* Mutant: a stage is dispatched again without the budget being asked.       *)
IntentUnchecked ==
  /\ Dispatching
  /\ runner' = [runner EXCEPT !.pc = "working", !.iteration = @ + 1, !.d = @ + 1]
  /\ JournalRun("runner", Event("dispatch_intent", runner.d + 1, runner.stage, NoStage, 0))
  /\ OnlyRunner

(* Mutant: the intent is left to be written with the result.                 *)
IntentLater ==
  /\ Dispatching /\ runner.charged < runner.setting.dispatches
  /\ runner' = [runner EXCEPT !.pc = "working", !.iteration = @ + 1, !.d = @ + 1]
  /\ UNCHANGED <<runLog, itemLog, journal>> /\ OnlyRunner

Intent ==  (* write before act                                               *)
  /\ Dispatching /\ runner.charged < runner.setting.dispatches
  /\ runner' = [runner EXCEPT !.pc = "working", !.iteration = @ + 1, !.d = @ + 1]
  /\ JournalRun("runner", Event("dispatch_intent", runner.d + 1, runner.stage, NoStage, 0))
  /\ OnlyRunner

(* An envelope, a failure or an abort: replay counts each, the budget the
   first alone.                                                              *)
LogResult(accepted) ==
  /\ At("working")
  /\ runner' = [runner EXCEPT !.pc = "decided", !.results = @ + 1, !.charged = @ + accepted]
  /\ JournalRun("runner", Event("dispatch_result", runner.d, runner.stage, NoStage, 0))
  /\ OnlyRunner

(* ---- the calls of its agents ---- *)

(* The agent does not wait for what it asked before.  A call that was asked
   may have its effect from here on, whatever becomes of the run.            *)
Ask(reversible) ==
  /\ At("working") /\ Len(calls) < runner.setting.calls
  /\ calls' = Append(calls, [d |-> runner.d, reversible |-> reversible, ok |-> FALSE])
  /\ UNCHANGED <<runLog, itemLog, journal, runner, crew>>

(* Where the run waits, answers are let in; once its log is closed they may as
   well come last.                                                           *)
Awaiting == {"ready", "working", "decided", "done"}

Undoes(c) == IF calls[c].reversible = 1 THEN c ELSE 0

(* A call is answered when its effect is there, be its dispatch over or not.
   One that is refused, or answered with an error after its effect, leaves no
   line that replay reads: it is as one that is never answered.              *)
Answer(c) ==
  /\ runner.pc \in Awaiting /\ ~calls[c].ok
  /\ calls' = [calls EXCEPT ![c].ok = TRUE]
  /\ JournalRun("runner", Event("mutation", calls[c].d, NoStage, NoStage, Undoes(c)))
  /\ UNCHANGED <<runner, crew>>

(* ---- what the run makes of a result ---- *)

IndexOf(stage) == CHOOSE i \in DOMAIN Stages : Stages[i] = stage

After(stage) == Stages[1 + IndexOf(stage)]

Advance ==
  /\ At("decided")
  /\ runner' = [runner EXCEPT !.pc = "ready", !.stage = After(runner.stage)]
  /\ JournalRun("runner", Event("transition", 0, runner.stage, After(runner.stage), 0))
  /\ OnlyRunner

LoopBack(stage) ==
  /\ At("decided") /\ runner.loops < runner.setting.loops
  /\ IndexOf(stage) < IndexOf(runner.stage)
  /\ runner' = [runner EXCEPT !.pc = "counting", !.stage = stage, !.loops = @ + 1]
  /\ JournalRun("runner", Event("transition", 0, runner.stage, stage, 1)) /\ OnlyRunner

CountLoop ==
  /\ At("counting") /\ Goto("ready")
  /\ JournalRun("runner", Event("budget", 0, NoStage, NoStage, runner.loops)) /\ OnlyRunner

Redispatch ==
  /\ At("decided") /\ Goto("ready")
  /\ JournalRun("runner", Event("note", 0, runner.stage, NoStage, 0)) /\ OnlyRunner

Block ==
  /\ At("decided")
  /\ runner' = [runner EXCEPT !.pc = "ending", !.stage = "BLOCKED"]
  /\ JournalRun("runner", Event("transition", 0, runner.stage, "BLOCKED", 0)) /\ OnlyRunner

GiveUp ==  (* no action follows: the run fails, without a transition         *)
  /\ At("decided") /\ Goto("ending")
  /\ UNCHANGED <<runLog, itemLog, journal>> /\ OnlyRunner

Completing == Iterating /\ runner.stage = Completion

Complete ==  (* no stage owes anything that could be routed back to          *)
  /\ Completing /\ Goto("ending")
  /\ JournalRun("runner", Event("dod_computed", 0, Completion, NoStage, 0)) /\ OnlyRunner

RouteBack(stage) ==  (* a loop transition that no edge of the graph counts   *)
  /\ Completing /\ stage \notin runner.routedBack
  /\ runner' = [runner EXCEPT !.iteration = @ + 1, !.stage = stage,
                             !.routedBack = @ \cup {stage}]
  /\ JournalRun("runner", Event("transition", 0, Completion, stage, 0)) /\ OnlyRunner

(* The transition is written before it is asked whether the stage had its lap. *)
RouteBackRefused(stage) ==
  /\ Completing /\ stage \in runner.routedBack
  /\ runner' = [runner EXCEPT !.pc = "ending", !.refused = stage]
  /\ JournalRun("runner", Event("transition", 0, Completion, stage, 0)) /\ OnlyRunner

EndedItem ==
  /\ At("ending") /\ Goto("ended")
  /\ JournalItem("runner", "run_ended") /\ OnlyRunner

EndedRun ==
  /\ At("ended") /\ Goto("releasing")
  /\ JournalRun("runner", Event("run_ended", 0, NoStage, NoStage, 0)) /\ OnlyRunner

Released ==
  /\ At("releasing") /\ Goto(IF runner.again THEN "resolving" ELSE "done")
  /\ JournalItem("runner", "lease") /\ OnlyRunner

(* ---- re-resolution ---- *)

(* The edge a run leaves its safe prefix by is taken first.                  *)
LeavePrefix ==
  /\ At("decided")
  /\ runner' = [runner EXCEPT !.pc = "reresolving", !.stage = After(runner.stage)]
  /\ JournalRun("runner", Event("transition", 0, runner.stage, After(runner.stage), 0))
  /\ OnlyRunner

ReresolvedItem ==
  /\ At("decided") \/ At("reresolving")
  /\ Goto("reresolved")
  /\ JournalItem("runner", "reresolved") /\ OnlyRunner

ReresolvedRun ==
  /\ At("reresolved")
  /\ runner' = [runner EXCEPT !.pc = "ending", !.again = runner.setting.reresolutions > 0]
  /\ JournalRun("runner", Event("reresolved", 0, NoStage, NoStage, 0)) /\ OnlyRunner

OpenOuter ==
  /\ At("resolving") /\ Goto("proposing")
  /\ Open("outer") /\ UNCHANGED <<runLog, itemLog>> /\ OnlyRunner

Propose(admitted) ==  (* the resolution's events, and whether it is admitted *)
  /\ At("proposing") /\ Goto(IF admitted THEN "restarting" ELSE "done")
  /\ JournalItem("outer", "resolution") /\ OnlyRunner

OpenNext ==
  /\ At("restarting") /\ Goto("entering")
  /\ Open("next") /\ UNCHANGED <<runLog, itemLog>> /\ OnlyRunner

NextStarted ==
  /\ At("entering") /\ Goto("running")
  /\ JournalItem("next", "run_started") /\ OnlyRunner

NextEnded ==
  /\ At("running") /\ Goto("linking")
  /\ JournalItem("next", "run_ended") /\ OnlyRunner

(* By the journal that was opened before the next run's.                     *)
LinkNext ==
  /\ At("linking") /\ Goto("done")
  /\ JournalItem("outer", "reresolved_into") /\ OnlyRunner

(* ---- its end, and its lease ---- *)

WritesItem == {"starting", "decided", "reresolving", "ending", "releasing", "proposing",
               "entering", "running", "linking"}
WritesRun  == {"started", "admitting", "computing", "ambiguous", "marking", "ready",
               "working", "decided", "counting", "reresolved", "ended"}

(* Or exits, done.                                                           *)
RunnerCrashes ==
  /\ runner.pc \notin {"new", "dead"}
  /\ Goto("dead") /\ UNCHANGED <<calls, journal, crew>>
  /\ \/ UNCHANGED <<runLog, itemLog>>
     \/ runner.pc \in WritesItem /\ itemLog' = Tear(itemLog) /\ UNCHANGED runLog
     \/ runner.pc \in WritesRun \cup Awaiting /\ runLog' = Tear(runLog) /\ UNCHANGED itemLog

Runner ==
  \/ Begin \/ StartedItem \/ StartedRun \/ Admit \/ EntryAmbiguous \/ BlockAtEntry
  \/ \E prior \in 0..(Len(Stages) - 1) : ComputeEntry(prior)
  \/ MarkPrior \/ Enter \/ OutOfIterations \/ BudgetExceeded \/ NoModel \/ Intent
  \/ \E accepted \in {0, 1} : LogResult(accepted)
  \/ Advance \/ Redispatch \/ Block \/ GiveUp \/ CountLoop \/ Complete
  \/ \E stage \in Graph \ {Completion} :
       LoopBack(stage) \/ RouteBack(stage) \/ RouteBackRefused(stage)
  \/ EndedItem \/ EndedRun \/ Released
  \/ RunnerCrashes

Reresolution ==
  \/ LeavePrefix \/ ReresolvedItem \/ ReresolvedRun \/ OpenOuter
  \/ OpenNext \/ NextStarted \/ NextEnded \/ LinkNext
  \/ \E admitted \in BOOLEAN : Propose(admitted)

Agents ==
  \/ \E reversible \in {0, 1} : Ask(reversible)
  \/ \E c \in DOMAIN calls : Answer(c)

(* Another process that wants the work item is refused, and says so with a
   journal of its own in the one log they share.                             *)
RefuseAnother ==
  /\ runner.pc \notin {"new", "resolving", "proposing", "restarting", "linking", "done"}
  /\ Cardinality({i \in DOMAIN itemLog.lines : itemLog.lines[i].kind = "lease"})
       < runner.setting.leaseLines
  /\ EndsWithNewline(itemLog)
  /\ itemLog' = Appended(itemLog, Numbered(Event("lease", 0, NoStage, NoStage, 0),
                                           LastSeq(itemLog) + 1))
  /\ UNCHANGED <<runLog, calls, journal, runner, crew>>

(* ---- recoverRun ---- *)

OnlyCrew == UNCHANGED <<calls, runner>>
Step(v, from, to) == crew[v].pc = from /\ crew' = [crew EXCEPT ![v].pc = to]

OpenJournal(v) ==
  /\ \A w \in Recoverers : crew[w].pc \in Over
  /\ At("dead")
  /\ Cardinality({w \in Recoverers : crew[w].pc # "idle"}) < runner.setting.recoveries
  /\ Step(v, "idle", "reading")
  /\ Open(v)
  /\ UNCHANGED <<runLog, itemLog>> /\ OnlyCrew

(* What is read here is what the verdict is made of, whatever follows.       *)
ReadLog(v) ==
  /\ crew[v].pc = "reading"
  /\ crew' = [crew EXCEPT ![v] =
       [pc |-> IF EndsWithNewline(runLog) THEN "announcing" ELSE "discarding",
        saw |-> Project(runLog.lines)]]
  /\ UNCHANGED <<runLog, itemLog, journal>> /\ OnlyCrew

Discard(v) ==  (* onDiscard, before the repair and to the work item's log    *)
  /\ Step(v, "discarding", "repairing")
  /\ JournalItem(v, "recovery") /\ OnlyCrew

Repair(v) ==
  /\ Step(v, "repairing", "announcing")
  /\ runLog' = IF runLog.torn THEN Truncated(runLog) ELSE runLog
  /\ UNCHANGED <<itemLog, journal>> /\ OnlyCrew

Announce(v) ==
  /\ Step(v, "announcing", IF Interrupted(crew[v].saw) = {} THEN "completing" ELSE "finding")
  /\ JournalRun(v, Event("recovery", 0, NoStage, NoStage, 0)) /\ OnlyCrew

Found(v) ==
  /\ Step(v, "finding", "completing")
  /\ JournalRun(v, Event("recovery_found", CHOOSE d \in Interrupted(crew[v].saw) : TRUE,
                         NoStage, NoStage, 0))
  /\ OnlyCrew

Completed(v) ==
  /\ Step(v, "completing", "done")
  /\ JournalRun(v, Event("recovery", 0, NoStage, NoStage, 0)) /\ OnlyCrew

Announcing == {"announcing", "finding", "completing"}

RecovererThrows(v) ==  (* a torn work item log is repaired by nothing        *)
  /\ ~EndsWithNewline(itemLog)
  /\ Step(v, "discarding", "threw")
  /\ UNCHANGED <<runLog, itemLog, journal>> /\ OnlyCrew

(* A crash in truncatePartialLine leaves the file as it was.                 *)
RecovererCrashes(v) ==
  /\ crew[v].pc \notin Over
  /\ crew' = [crew EXCEPT ![v].pc = "dead"]
  /\ UNCHANGED <<calls, journal, runner>>
  /\ \/ UNCHANGED <<runLog, itemLog>>
     \/ crew[v].pc = "discarding" /\ itemLog' = Tear(itemLog) /\ UNCHANGED runLog
     \/ crew[v].pc \in Announcing /\ runLog' = Tear(runLog) /\ UNCHANGED itemLog

Recoverer(v) ==
  \/ OpenJournal(v) \/ ReadLog(v) \/ Discard(v) \/ Repair(v)
  \/ Announce(v) \/ Found(v) \/ Completed(v)
  \/ RecovererThrows(v) \/ RecovererCrashes(v)

Next ==
  \/ Runner \/ Reresolution \/ Agents \/ RefuseAnother
  \/ \E v \in Recoverers : Recoverer(v)

Spec == Init /\ [][Next]_vars

(* ---- properties ---- *)

(* Every value is of its type, and no more dispatches are charged to a run
   than its budget has: of those that fail, only the iterations are bounded.   *)
TypeOK ==
  /\ runLog.torn \in BOOLEAN /\ itemLog.torn \in BOOLEAN
  /\ Len(calls) <= runner.setting.calls
  /\ runner.charged \in 0..runner.setting.dispatches
  /\ runner.charged <= runner.results /\ runner.results <= runner.d
  /\ runner.d <= runner.iteration /\ runner.iteration <= runner.setting.iterations
  /\ \A j \in Journals : journal[j].run \in Nat /\ journal[j].item \in Nat
  /\ runner.pc \in WritesItem \cup WritesRun \cup {"new", "resolving", "restarting", "done", "dead"}
  /\ \A v \in Recoverers :
       crew[v].pc \in Over \cup Announcing \cup {"reading", "discarding", "repairing"}

(* Lines that are numbered by a journal that was not the last to be opened on
   the work item's log, or that others are numbered beside.                  *)
Aside == {"lease", "reresolved_into"}

InOrder(lines, kinds) ==
  \A i, j \in DOMAIN lines :
    i < j /\ lines[i].kind \notin kinds /\ lines[j].kind \notin kinds =>
      lines[i].seq < lines[j].seq

(* In the run's log the numbers ascend: a process that opens a log counts on
   from the greatest number it finds (journal.ts:23-24).  The work item's log
   is kept by several journals at once and repeats numbers, but never other
   than in a line about a lease or in the one that closes a re-resolution.   *)
SeqsAscend == InOrder(runLog.lines, {}) /\ InOrder(itemLog.lines, Aside)

(* A torn line never ends up in the middle of a log, where recovery does not
   look, whoever appends after the crash that tore it (ndjson.ts:83-112).    *)
NoCorruptLine ==
  \A log \in {runLog, itemLog} :
    \A i \in DOMAIN log.lines : log.lines[i].kind # "corrupt"

RunHistory == INSTANCE AppendOnlyLog WITH lines <- runLog.lines
(* Crashes, repairs and recoveries add lines to the run's log and take none
   away: whatever a reader once parsed, every later reader parses.           *)
ImplementsAppendOnlyLog == RunHistory!Spec

(* No call was asked, and so none has its effect, whose dispatch the log does
   not announce: a crash in the middle of an agent's work is always detectable
   (journal.ts:18-19).                                                       *)
IntentBeforeEffect ==
  \A c \in DOMAIN calls : \E j \in DOMAIN runLog.lines :
    runLog.lines[j].kind = "dispatch_intent" /\ runLog.lines[j].d = calls[c].d

(* At every point of a run, crashed or not, replaying its log gives what the
   run has in memory: its stage, the dispatches that ended, each lap of a loop
   once, and a cursor that names the stage it is at or stopped at.  But for a
   route-back that was written and not taken (kernel.ts:2605-2637): of a run
   that ends at COMPLETION so, the log says it is at the stage refused.      *)
LogTellsTheRun ==
  LET p == Project(runLog.lines)
  IN runner.stage # Selected =>
       /\ p.stage = IF runner.refused # NoStage THEN runner.refused ELSE runner.stage
       /\ p.loops = runner.loops
       /\ p.dispatches = runner.results
       /\ Cardinality({s \in Graph : p.cursor[s] = "ACTIVE"}) <= 1
       /\ p.stage = "BLOCKED" /\ p.preBlock \in Graph => StageFromCursor(p.cursor) = p.preBlock
       /\ p.stage \in Graph => StageFromCursor(p.cursor) = p.stage

(* The calls of a dispatch whose adapter answered that they were done.       *)
DoneBy(d) == {c \in DOMAIN calls : calls[c].d = d /\ calls[c].ok}

(* What recovery decides about a run that is gone is what the calls of its
   interrupted dispatch that were answered ask for, whatever order parallel
   calls were answered in and whatever late calls of earlier dispatches came
   between: nothing to undo if none was, no retry if one cannot be undone, and
   else each of them undone once, in the reverse order of their lines.  Of a
   call that was not answered when the process died, or that was answered with
   a refusal or an error after its effect, recovery knows nothing.           *)
VerdictCoversAnswered ==
  \A v \in Recoverers :
    LET p == crew[v].saw
        verdict == Verdict(p)
        d == CHOOSE x \in Interrupted(p) : TRUE
        undone == [i \in DOMAIN verdict.reversals |-> verdict.reversals[i].n]
    IN crew[v].pc = "done" /\ Interrupted(p) # {} =>
         /\ d = runner.d
         /\ (verdict.decision = "RETRY_CLEAN") = (DoneBy(d) = {})
         /\ (verdict.decision = "BLOCK_NON_REVERSIBLE") =
              (\E c \in DoneBy(d) : calls[c].reversible = 0)
         /\ verdict.decision = "ROLLBACK_AND_RETRY" =>
              /\ {undone[i] : i \in DOMAIN undone} = DoneBy(d)
              /\ \A i, j \in DOMAIN undone : i < j =>
                   /\ undone[i] # undone[j]
                   /\ verdict.reversals[i].seq > verdict.reversals[j].seq

(* Recovering a run again decides what the first recovery decided: the lines
   a recovery writes, whole or torn, change nothing that is replayed.        *)
RecoveryIsRepeatable ==
  \A v, w \in Recoverers :
    (\A x \in {v, w} : crew[x].pc \in Announcing \cup {"done"}) =>
      crew[v].saw = crew[w].saw

=============================================================================
