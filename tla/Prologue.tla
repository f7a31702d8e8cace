------------------------------- MODULE Prologue -------------------------------
(***************************************************************************)
(* From an intake to the stage a run enters at: core/src/kernel.ts, work   *)
(* and runGraph up to the loop, and performReresolution.  Resolution       *)
(* proposes a Work Item, admission judges it, the run takes the lease and  *)
(* deepens the context, the uncertainty ladder settles what is unclear, a  *)
(* workflow is frozen and the stages Current Reality shows done are        *)
(* passed.  Each step between two awaits is an action.                     *)
(*                                                                         *)
(* `world' is what is true, and moves on under the run.  What the run      *)
(* knows of it is `context', read once by deepen and going stale by age,   *)
(* and `answers', what the evaluator's own probes of stale elements got    *)
(* until freshen() forgets them.  `history', `asked' and `looked' are not  *)
(* of the code: they say which moments what was read may be of.            *)
(***************************************************************************)
EXTENDS Understanding, EntryStage, Admission, Integers, TLC

CONSTANTS
  Proposals,          (* the Work Items Context Discovery may propose          *)
  WorkflowProposals,  (* the workflows the Orchestrator may propose            *)
  Worlds,             (* [reality, sections, surfaces, boundaries]             *)
  Outages,            (* sets of elements whose sources may be silent together *)
  Windows,            (* sets of elements that outlive their freshness windows,
                         budgets.freshness_windows_ms, together                *)
  Moves,              (* pairs of worlds: how one may move on under a run      *)
  MaxMoves,           (* bound: how often it does                              *)
  GapSets,            (* the gaps a deepened context may have, as sequences    *)
  Registries,         (* [available, records]: the newest capability registry  *)
  MismatchThreshold   (* evidence.json: this many and the envelope is refused  *)

VARIABLES
  phase,     (* the step that is next                                          *)
  attempt,   (* "first", "second": redispatched, "reresolved"                  *)
  world,
  history,   (* the worlds since deepen began to read, in order                *)
  asked,     (* how many of them there were at the last freshen()              *)
  looked,    (* for each stage of `swept', the moments its value may be of     *)
  registry,
  proposal,  (* what resolution proposed last                                  *)
  identity,  (* what fetching the external item it named came to               *)
  item,      (* the admitted Work Item                                         *)
  store,     (* id -> the Work Item's stored record                            *)
  context,   (* a world as deepen read it: reality maps to assertions          *)
  gaps,      (* the context's gaps                                             *)
  answers,   (* element -> assertion, what was probed since freshen()          *)
  spent,     (* discovery loops: [run, workItem]                               *)
  ladder,    (* [left, probes, settled, handled]: rung 2 of the climb          *)
  answered,  (* a human answered the ladder's question                         *)
  prefix,    (* the safe prefix the ladder settled on                          *)
  satisfied, (* the outcome was seen to hold before a workflow was chosen      *)
  graph,     (* the frozen graph                                               *)
  swept,     (* the stages classified so far                                   *)
  entry,     (* the stage the run entered at                                   *)
  outcome    (* of the last run that ended                                     *)

resolutionVars == <<attempt, proposal, identity, registry>>
readVars       == <<context, gaps, answers, spent, history, asked>>
climbVars      == <<ladder, answered, prefix>>
selectionVars  == <<satisfied, graph, swept, looked, entry>>
itemVars       == <<item, store>>
vars == <<phase, outcome, resolutionVars, readVars, climbVars, selectionVars,
          itemVars, world>>

Nothing   == "nothing"
NoLadder  == [left |-> <<>>, probes |-> 0, settled |-> 0, handled |-> {}]
Elements  == {"implementation_present", "tests_present", "pr", "merge_state", "reviews",
              "agentos_history", "outcome_evidence", "children", "deployment"}

(* What a probe of every element gets when the sources in `down' are silent. *)
Probed(down) ==
  [e \in Elements |-> IF e \in down THEN Unread ELSE world.reality[e]]

Seen(reality, w) ==
  [reality |-> reality, sections |-> w.sections, surfaces |-> w.surfaces,
   boundaries |-> w.boundaries]

ReadingOf(c) ==
  [reality |-> c.reality, sections |-> c.sections, surfaces |-> c.surfaces,
   boundaries |-> c.boundaries, scope |-> item.scope, capabilities |-> registry.records,
   stage |-> NoStageAsked]

Reading == ReadingOf(context)

(* What the evaluator knows once it has evaluated predicates that probe these *)
(* elements: of a stale one what it got before, else what it gets now.       *)
Asking(elements, down) ==
  [e \in DOMAIN answers \cup {x \in elements : IsStale(context.reality[x])} |->
     IF e \in DOMAIN answers THEN answers[e] ELSE Probed(down)[e]]

ProbedBy(predicates) == {RealityElement(p) : p \in predicates} \ {"none"}

(* freshen(): the evaluator forgets what its probes got.                     *)
Freshen == answers' = <<>> /\ asked' = Len(history)

Forget ==
  /\ context' = Nothing /\ answers' = <<>> /\ gaps' = <<>>
  /\ history' = <<>> /\ asked' = 0 /\ looked' = <<>>
  /\ spent' = [run |-> 0, workItem |-> 0]
  /\ ladder' = NoLadder /\ answered' = FALSE /\ prefix' = {}
  /\ satisfied' = FALSE /\ graph' = Nothing /\ swept' = <<>> /\ entry' = NoStageAsked

(* The run is over: how it ended is its outcome, and nothing of it is kept.  *)
Stop(how) ==
  /\ phase' = "done" /\ outcome' = how
  /\ attempt' = "first" /\ proposal' = Nothing /\ identity' = Nothing /\ item' = Nothing
  /\ Forget

Init ==
  /\ phase = "resolve" /\ attempt = "first" /\ outcome = "none"
  /\ world \in Worlds /\ registry \in Registries
  /\ proposal = Nothing /\ identity = Nothing /\ item = Nothing /\ store = <<>>
  /\ context = Nothing /\ answers = <<>> /\ gaps = <<>>
  /\ history = <<>> /\ asked = 0 /\ looked = <<>>
  /\ spent = [run |-> 0, workItem |-> 0]
  /\ ladder = NoLadder /\ answered = FALSE /\ prefix = {}
  /\ satisfied = FALSE /\ graph = Nothing /\ swept = <<>> /\ entry = NoStageAsked

-----------------------------------------------------------------------------
(* Resolution.  Without a proposal a fresh resolution is refused, and one    *)
(* after a run that ended RERESOLVED blocks its item.                        *)
Refusal == IF attempt = "reresolved" THEN "BLOCKED" ELSE "REFUSED"

ResolutionFails ==
  /\ phase = "resolve"
  /\ Stop(Refusal)
  /\ UNCHANGED <<registry, store, world>>

(* The redispatched proposal is judged with the identity of the first.       *)
DispatchResolution ==
  /\ phase = "resolve"
  /\ proposal' \in Proposals
  /\ phase' = IF attempt = "second" THEN "admit" ELSE "identify"
  /\ UNCHANGED <<attempt, identity, registry, outcome, readVars, climbVars, selectionVars,
                 itemVars, world>>

IdentityOf(p, how) ==
  IF p.names = NoIdentity THEN [outcome |-> "NOT_NAMED", identity |-> NoIdentity]
                          ELSE [outcome |-> how, identity |-> p.names]

ResolveIdentity ==
  /\ phase = "identify"
  /\ \E how \in {"RESOLVED", "UNAVAILABLE", "ABSENT"} :
       identity' = IdentityOf(proposal, how)
  /\ phase' = "admit"
  /\ UNCHANGED <<attempt, proposal, registry, outcome, readVars, climbVars, selectionVars,
                 itemVars, world>>

(* Orientation runs before the item exists and reads nothing of reality.     *)
AdmissionInput(mismatched) ==
  [identity |-> identity, registry |-> registry,
   children |-> Unread, pr |-> Unread,
   verified |-> [e \in mismatched |-> "MISMATCH"],
   rejectEnvelope |-> Cardinality(mismatched) >= MismatchThreshold,
   existing |-> {store[id] : id \in DOMAIN store}]

(* Evidence is replayed, and the proposal admitted, refused once and sent    *)
(* back, refused for good, or blocked on the external item.                  *)
Admit ==
  /\ phase = "admit"
  /\ \E mismatched \in SUBSET {e.id : e \in proposal.evidence} :
       LET result == AdmitWorkItem(proposal, AdmissionInput(mismatched))
       IN  \/ /\ result.outcome = "ADMITTED"
              /\ item' = result.item
              /\ phase' = "lease"
              /\ UNCHANGED <<attempt, proposal, identity, outcome, readVars, climbVars,
                             selectionVars>>
           \/ /\ result.outcome = "REJECTED" /\ attempt = "first"
              /\ attempt' = "second" /\ phase' = "resolve"
              /\ UNCHANGED <<proposal, identity, item, outcome, readVars, climbVars,
                             selectionVars>>
           \/ /\ result.outcome = "REJECTED" /\ attempt # "first"
              /\ Stop(Refusal)
           \/ /\ result.outcome = "BLOCKED"
              /\ Stop(IF attempt = "second" THEN "REFUSED" ELSE "BLOCKED")
  /\ UNCHANGED <<registry, store, world>>

(* An item that exists keeps what it has consumed and takes the rest anew.   *)
Durable ==
  [item |-> item,
   discovery |-> IF item.id \in DOMAIN store THEN store[item.id].discovery ELSE 0]

Stored(lifecycle) ==
  [id |-> item.id, external |-> item.external, scope |-> item.scope,
   lifecycle |-> lifecycle, discovery |-> Durable.discovery]

Put(lifecycle) == store' = (item.id :> Stored(lifecycle)) @@ store

LeaseRefused ==
  /\ phase = "lease"
  /\ Put(IF item.id \in DOMAIN store THEN store[item.id].lifecycle ELSE "RESOLVED")
  /\ Stop("REFUSED")
  /\ UNCHANGED <<registry, world>>

AcquireLease ==
  /\ phase = "lease"
  /\ Put("RESOLVED")
  /\ phase' = "deepen"
  /\ UNCHANGED <<outcome, resolutionVars, readVars, climbVars, selectionVars, item,
                 world>>

-----------------------------------------------------------------------------
(* Understanding.                                                            *)
Deepen ==
  /\ phase = "deepen"
  /\ \E down \in Outages : context' = Seen(Probed(down), world)
  /\ gaps' \in GapSets
  /\ spent' = [run |-> 0, workItem |-> Durable.discovery]
  /\ history' = <<world>> /\ asked' = 1
  /\ phase' = "context"
  /\ UNCHANGED <<outcome, answers, resolutionVars, climbVars, selectionVars, itemVars,
                 world>>

(* The run ends BLOCKED; the item is left in the lifecycle given.            *)
EndBlocked(lifecycle) ==
  /\ Put(lifecycle)
  /\ Stop("BLOCKED")
  /\ UNCHANGED <<registry, world>>

(* No mandate, no budget, no model, a failed or refused dispatch, or an      *)
(* envelope that is itself BLOCKED.                                          *)
ContextBlocked == phase = "context" /\ EndBlocked("BLOCKED")

ContextAccepted ==
  /\ phase = "context"
  /\ phase' = "understand"
  /\ UNCHANGED <<outcome, resolutionVars, readVars, climbVars, selectionVars, itemVars,
                 world>>

Confident == proposal.confident

(* The evaluator was just freshened, and is again before it is used next.    *)
UnderstoodNow(down) ==
  Understood(item, Reading, Probed(down), ToSet(gaps), Confident, FALSE, {})

(* Mutant: alternatives are looked at only when the verdict is INSUFFICIENT. *)
GoesUpOnlyIfShort(sufficient) == ~sufficient

GoesUp(sufficient) == ~sufficient \/ proposal.alternatives # {}

(* A determinate decision with one reading proceeds; with several, the       *)
(* ladder's first rung is enough unless one of them is urgent.               *)
ComputeUnderstood ==
  /\ phase = "understand"
  /\ \E down \in Outages :
       LET sufficient == UnderstoodNow(down)
           urgent     == EscalationOverride(item, proposal.alternatives)
       IN  /\ phase' = CASE ~GoesUp(sufficient) \/ (sufficient /\ ~urgent) -> "outcome"
                         [] GoesUp(sufficient) /\ urgent -> "ask"
                         [] OTHER -> "discover"
  /\ ladder' = [NoLadder EXCEPT !.left = SelectSeq(gaps, LAMBDA g : g \in LadderGaps(ToSet(gaps)))]
  /\ UNCHANGED <<outcome, readVars, answered, prefix, resolutionVars, selectionVars,
                 itemVars, world>>

Charge(n) == spent' = [run |-> spent.run + n, workItem |-> spent.workItem + n]

(* Rung 2, one gap: the probe is charged, and settles the gap when the       *)
(* element its subject names comes back known.                               *)
ProbeGap ==
  /\ phase = "discover"
  /\ ladder.left # <<>> /\ ~LadderExhausted(spent, ladder.probes)
  /\ LET gap == Head(ladder.left)
         ran == DiscoveryLoopAllowed(spent)
     IN  \E down \in Outages :
           /\ ladder' = [left    |-> Tail(ladder.left),
                         probes  |-> ladder.probes + 1,
                         settled |-> ladder.settled
                                       + IF ran /\ gap.elements \ down # {} THEN 1 ELSE 0,
                         handled |-> ladder.handled \cup IF ran THEN {gap} ELSE {}]
           /\ Charge(IF ran THEN 1 ELSE 0)
  /\ UNCHANGED <<phase, outcome, context, gaps, answers, history, asked, answered, prefix,
                 resolutionVars, selectionVars, itemVars, world>>

RungTwoDone ==
  /\ phase = "discover"
  /\ ladder.left = <<>> \/ LadderExhausted(spent, ladder.probes)

EveryGapSettled ==
  /\ LadderGaps(ToSet(gaps)) # {}
  /\ ladder.settled = Len(SelectSeq(gaps, LAMBDA g : g \in LadderGaps(ToSet(gaps))))

(* Rungs 2 and 3 as they end; a rung that does not hold leaves the question. *)
SettleOrAsk ==
  /\ RungTwoDone
  /\ LET safe == CommonSafePrefix(LadderTemplates(item, proposal.alternatives))
         settled == EveryGapSettled /\ Confident
     IN  /\ prefix' = IF settled THEN {} ELSE safe
         /\ phase'  = IF settled \/ safe # {} THEN "outcome" ELSE "ask"
  /\ UNCHANGED <<outcome, readVars, ladder, answered, resolutionVars, selectionVars,
                 itemVars, world>>

(* The answer is recorded; the run goes on with the reading admitted.        *)
HumanAnswers ==
  /\ phase = "ask" /\ CanAsk(proposal.alternatives)
  /\ answered' = TRUE
  /\ phase' = "outcome"
  /\ UNCHANGED <<outcome, readVars, ladder, prefix, resolutionVars, selectionVars,
                 itemVars, world>>

(* No alternative to ask about, or no answer in time.                        *)
NobodyAnswers == phase = "ask" /\ EndBlocked("BLOCKED")

-----------------------------------------------------------------------------
(* Selection.  Understanding is computed once more after a climb, and what   *)
(* it says no longer decides anything.                                       *)
SatisfiedPredicate == "reality.outcome_already_satisfied"

EvaluateOutcome ==
  /\ phase = "outcome"
  /\ \E down \in Outages :
       answers' = [e \in {x \in ProbedBy({SatisfiedPredicate}) : IsStale(context.reality[x])} |->
                     Probed(down)[e]]
  /\ asked' = Len(history)
  /\ satisfied' = (EvaluateFresh(SatisfiedPredicate, Reading, answers') = "TRUE")
  /\ phase' = "select"
  /\ UNCHANGED <<outcome, context, gaps, spent, history, graph, swept, looked, entry,
                 climbVars, resolutionVars, itemVars, world>>

SelectionPredicates ==
  {r.trigger.of : r \in {x \in FloorRules : x.trigger.kind = "predicate_true"}}
    \cup {Applicability[s] : s \in {x \in DOMAIN Applicability : Applicability[x] # NoPredicate}}

Valuation(reprobed) ==
  [p \in SelectionPredicates |-> EvaluateFresh(p, Reading, reprobed)]

(* The Orchestrator proposes, or nothing usable comes back; the evaluator is *)
(* not freshened between the outcome and the admission.                      *)
SelectWorkflow ==
  /\ phase = "select"
  /\ \E val \in {Valuation(Asking(ProbedBy(SelectionPredicates), down)) : down \in Outages},
        proposed \in WorkflowProposals \cup {NoProposal} :
       graph' = AdmitWorkflow(proposed, item, satisfied, val)
  /\ Freshen
  /\ phase' = "sweep"
  /\ UNCHANGED <<outcome, context, gaps, spent, history, satisfied, swept, looked, entry,
                 climbVars, resolutionVars, itemVars, world>>

(* The predicates of predicates.json: all but reality.ci_green, whose        *)
(* element no deepening reads.                                               *)
ReadPredicates ==
  {"audit.applicable", "architecture.required", "ux.required", "production.applicable",
   "regression.suspected", "reality.pr_open", "reality.pr_merged", "reality.pr_approved",
   "reality.pr_reviewed", "reality.pr_has_unresolved_comments",
   "reality.stage_completed_previously", "reality.children_exist",
   "reality.children_all_terminal", "reality.deployed", "reality.implementation_present",
   "reality.tests_present", "reality.outcome_already_satisfied"}

(* Those a targeted probe has an element for (kernel.ts PREDICATE_ELEMENT).  *)
RealityPredicates ==
  {p \in ReadPredicates \ {"regression.suspected"} : RealityElement(p) # "none"}

(* The policies: stages and templates as workflow.json and load.ts want them *)
(* (stages unique and described), a stage settled by what is read of reality *)
(* and COMPLETION, last in each template, by nothing, and a fall-back that   *)
(* holds every rule of the floor it could owe.                               *)
(* The world: the host and the history agree on a merge where both are read. *)
ASSUME PrologueAssumption ==
  /\ "UNKNOWN" \in DOMAIN TypePolicy
  /\ \A p \in Proposals : p.type \in DOMAIN TypePolicy /\ IsFiniteSet(p.alternatives)
  /\ \A w \in Worlds :
       LET pr    == w.reality["pr"]
           merge == w.reality["merge_state"]
       IN  pr.known /\ merge.known => (pr.is.state = "MERGED" <=> merge.is.state = "MERGED")
  /\ SelectionPredicates \subseteq ReadPredicates
  /\ {SatisfiedBy[s] : s \in DOMAIN SatisfiedBy} \subseteq RealityPredicates \cup {NoPredicate}
  /\ SatisfiedBy["COMPLETION"] = NoPredicate
  /\ Controls \cap DOMAIN SatisfiedBy = {}
  /\ Templates \in Seq(ToSet(Templates))
  /\ \A t \in ToSet(Templates) :
       /\ t.stages \in Seq(DOMAIN SatisfiedBy \cap DOMAIN Applicability)
       /\ \A i, j \in DOMAIN t.stages : t.stages[i] = t.stages[j] => i = j
       /\ t.stages # <<>> /\ t.stages[Len(t.stages)] = "COMPLETION"
  /\ \A type \in DOMAIN TypePolicy :
       Mutating \cap StageSet(Fallback(type)) # {} =>
         FloorHolds(WithoutStages(GraphOf(Fallback(type)), {}), {type},
                    [p \in SelectionPredicates |-> "TRUE"])

NextStage == graph.graph.stages[Len(swept) + 1]
StageElements(stage) == ProbedBy({SatisfiedBy[stage]} \ {NoPredicate})

(* Whether the evaluator has what it evaluates this stage over.              *)
IsAsked(stage) ==
  \A e \in StageElements(stage) : IsStale(context.reality[e]) => e \in DOMAIN answers

(* The resume sweep comes to a stage whose element is stale, and probes it.  *)
AskStage ==
  /\ phase = "sweep" /\ Len(swept) < Len(graph.graph.stages)
  /\ ~IsAsked(NextStage)
  /\ \E down \in Outages : answers' = Asking(StageElements(NextStage), down)
  /\ UNCHANGED <<phase, outcome, context, gaps, spent, history, asked, climbVars,
                 resolutionVars, selectionVars, itemVars, world>>

(* What a predicate reads of reality: one of them reads an element that the  *)
(* evaluator never probes.                                                   *)
ReadsUnprobed(p) == p = "reality.pr_merged"

ReadBy(p) ==
  ProbedBy({p}) \cup IF ReadsUnprobed(p) THEN {"merge_state"} ELSE {}

(* The moments an evaluation may be of: since deepen while something deepen  *)
(* read is within its window, since freshen() where all of it is stale.      *)
Moments(stage) ==
  [from |-> IF \E e \in ReadBy(SatisfiedBy[stage]) : context.reality[e].fresh
              THEN 1 ELSE asked,
   to   |-> Len(history)]

(* It passes the stages whose predicate settles them, or that may safely run *)
(* again, up to the next that needs a probe.                                 *)
Settles(i) ==
  /\ IsAsked(graph.graph.stages[i])
  /\ ~NeedsDiscovery(graph.graph.stages[i], StageValue(graph.graph.stages[i], Reading, answers))

SweepStages ==
  /\ phase = "sweep"
  /\ \E n \in (Len(swept) + 1)..Len(graph.graph.stages) :
       LET passed == [i \in 1..(n - Len(swept)) |-> graph.graph.stages[Len(swept) + i]]
       IN  /\ \A i \in (Len(swept) + 1)..n : Settles(i)
           /\ n < Len(graph.graph.stages) => ~Settles(n + 1)
           /\ swept' = swept \o [i \in DOMAIN passed |->
                Classify(passed[i], StageValue(passed[i], Reading, answers), FALSE)]
           /\ looked' = looked \o [i \in DOMAIN passed |-> Moments(passed[i])]
  /\ UNCHANGED <<phase, outcome, readVars, climbVars, resolutionVars, satisfied, graph,
                 entry, itemVars, world>>

(* What the stage's predicate says once its element was probed on purpose;  *)
(* a probe that came back unread is made again by the evaluator.             *)
Rediscovered(down, reprobed) ==
  LET e == RealityElement(SatisfiedBy[NextStage])
  IN  StageValue(NextStage, [Reading EXCEPT !.reality[e] = Probed(down)[e]], reprobed)

(* A mutating stage nobody can account for: one targeted probe, if the       *)
(* budget the ladder also spends allows it.  The evaluator is freshened, and *)
(* keeps what it got itself.                                                 *)
TargetedDiscovery ==
  /\ phase = "sweep" /\ Len(swept) < Len(graph.graph.stages)
  /\ IsAsked(NextStage)
  /\ NeedsDiscovery(NextStage, StageValue(NextStage, Reading, answers))
  /\ \/ /\ DiscoveryLoopAllowed(spent)
        /\ Charge(1)
        /\ \E down, again \in Outages :
             LET e   == RealityElement(SatisfiedBy[NextStage])
                 got == Probed(down)[e]
             IN  /\ answers' = [x \in IF IsStale(got) THEN {e} ELSE {} |-> Probed(again)[x]]
                 /\ swept' = Append(swept, Classify(NextStage, Rediscovered(down, answers'), TRUE))
        /\ asked' = Len(history)
        /\ looked' = Append(looked, [from |-> Len(history), to |-> Len(history)])
     \/ /\ ~DiscoveryLoopAllowed(spent)
        /\ swept' = Append(swept, Classify(NextStage, "INDETERMINATE", TRUE))
        /\ looked' = Append(looked, Moments(NextStage))
        /\ UNCHANGED <<spent, answers, asked>>
  /\ UNCHANGED <<phase, outcome, context, gaps, history, climbVars, resolutionVars, satisfied,
                 graph, entry, itemVars, world>>

Swept == phase = "sweep" /\ Len(swept) = Len(graph.graph.stages)

(* A safe prefix the entry lies outside of is dropped.                       *)
Enter ==
  /\ Swept
  /\ LET found == ComputeEntryStage(swept)
     IN  /\ found.outcome = "ENTRY"
         /\ entry' = found.entry
         /\ prefix' = IF found.entry \in prefix THEN prefix ELSE {}
  /\ phase' = "entered"
  /\ UNCHANGED <<outcome, readVars, ladder, answered, resolutionVars, satisfied, graph,
                 swept, looked, itemVars, world>>

AmbiguousState ==
  /\ Swept
  /\ ComputeEntryStage(swept).outcome = "BLOCKED"
  /\ EndBlocked("UNDERSTOOD")

-----------------------------------------------------------------------------
(* While the run dispatches, asks and probes, others work on the repository, *)
(* and what was read of it outlives its freshness window.                    *)
Underway == {"context", "understand", "discover", "ask", "outcome", "select", "sweep"}

WorldMoves ==
  /\ phase \in Underway /\ Len(history) <= MaxMoves
  /\ world' \in {w \in Worlds : <<world, w>> \in Moves}
  /\ history' = Append(history, world')
  /\ UNCHANGED <<phase, outcome, context, gaps, answers, spent, asked, climbVars,
                 resolutionVars, selectionVars, itemVars>>

Aged(a) == [known |-> a.known, fresh |-> FALSE, present |-> a.present, is |-> a.is]

WindowPasses ==
  /\ phase \in Underway
  /\ \E window \in Windows :
       /\ \E e \in window : ~IsStale(context.reality[e])
       /\ context' = Seen([e \in Elements |-> IF e \in window THEN Aged(context.reality[e])
                                                             ELSE context.reality[e]],
                          context)
  /\ UNCHANGED <<phase, outcome, gaps, answers, spent, history, asked, climbVars,
                 resolutionVars, selectionVars, itemVars, world>>

(* The run loop (RunLoop) takes over, and gives the run back ended, or to be *)
(* resolved again with what was learned: once, for the item.  Meanwhile it   *)
(* has changed what is true.                                                 *)
LoopEnds ==
  /\ phase = "entered"
  /\ \E lifecycle \in {"UNDERSTOOD", "ACHIEVED"} : Put(lifecycle)
  /\ Stop("ENDED")
  /\ UNCHANGED <<registry, world>>

LoopReresolves ==
  /\ phase = "entered" /\ attempt # "reresolved"
  /\ attempt' = "reresolved" /\ phase' = "resolve"
  /\ Put("UNDERSTOOD")
  /\ proposal' = Nothing /\ identity' = Nothing /\ item' = Nothing
  /\ world' \in Worlds
  /\ Forget
  /\ UNCHANGED <<outcome, registry>>

Next ==
  \/ ResolutionFails \/ DispatchResolution \/ ResolveIdentity \/ Admit
  \/ LeaseRefused \/ AcquireLease
  \/ Deepen \/ ContextBlocked \/ ContextAccepted \/ ComputeUnderstood
  \/ ProbeGap \/ SettleOrAsk \/ HumanAnswers \/ NobodyAnswers
  \/ EvaluateOutcome \/ SelectWorkflow \/ AskStage \/ SweepStages \/ TargetedDiscovery
  \/ Enter \/ AmbiguousState
  \/ WorldMoves \/ WindowPasses
  \/ LoopEnds \/ LoopReresolves

Spec == Init /\ [][Next]_vars

-----------------------------------------------------------------------------
(* What was true of a predicate at a moment, whatever could be read of it.   *)
TruthOf(p, stage, w) == EvaluatePredicate(p, [ReadingOf(w) EXCEPT !.stage = stage])

PastTheLadder == {"outcome", "select", "sweep", "entered"}

(* A work item that may be an incident and may be something else goes no     *)
(* further until a human has answered, however sure the kernel is of the     *)
(* reading it admitted and whatever the cheaper rungs would settle           *)
(* (kernel.ts climbLadder, ladder.ts escalationOverride).                    *)
UrgentReadingReachesAHuman ==
  (/\ phase \in PastTheLadder
   /\ "INCIDENT" \in {item.type} \cup proposal.alternatives
   /\ {item.type} \cup proposal.alternatives # {"INCIDENT"})
    => answered

EntryPosition == CHOOSE i \in DOMAIN swept : swept[i].stage = entry

(* An element that is never probed may be as old as the context.             *)
WhenLooked(i) ==
  (IF ReadsUnprobed(SatisfiedBy[swept[i].stage]) THEN 1 ELSE looked[i].from)..looked[i].to

SeenDone(i, done) ==
  \E k \in WhenLooked(i) :
    done <=> TruthOf(SatisfiedBy[swept[i].stage], swept[i].stage, history[k]) = "TRUE"

(* Where a run enters, every mutation is accounted for.  One from the entry  *)
(* on had not happened when the run last looked, or could not be read and    *)
(* lies further on; one behind the entry had, or could not be read and a     *)
(* later stage had.  The run last looked when deepen read the context or,    *)
(* where that has outlived its freshness window, at a probe of the sweep;    *)
(* the world may have moved since.  It is a property of the entry, not of    *)
(* the walk from it: a run that enters at REWORK or REVIEW_TRIAGE comes back *)
(* to an IMPLEMENTATION it has seen done, over the edges out of a rework     *)
(* (entry-stage.ts computeEntryStage, predicates.ts isStale).                *)
ResumptionSkipsNoMutation ==
  phase = "entered" =>
    \A i \in {j \in DOMAIN swept : /\ swept[j].stage \in Mutating
                                  /\ SatisfiedBy[swept[j].stage] # NoPredicate} :
      \/ i < EntryPosition /\ SeenDone(i, TRUE)
      \/ i >= EntryPosition /\ SeenDone(i, FALSE)
      \/ /\ swept[i].value = "INDETERMINATE"
         /\ \/ i > EntryPosition
            \/ \E j \in (i + 1)..(EntryPosition - 1) :
                 SatisfiedBy[swept[j].stage] # NoPredicate /\ SeenDone(j, TRUE)

(* WORKFLOW_STATE_MACHINE 4.3: a STALE element is re-probed before the       *)
(* predicate is evaluated, and a stale element is never used to decide a     *)
(* transition.  So what the sweep says of a stage was true at a moment since *)
(* the context was read, or since it was probed where that is stale.         *)
StaleDecidesNothing ==
  \A i \in DOMAIN swept :
    (SatisfiedBy[swept[i].stage] # NoPredicate /\ swept[i].value # "INDETERMINATE") =>
      \E k \in looked[i].from..looked[i].to :
        TruthOf(SatisfiedBy[swept[i].stage], swept[i].stage, history[k]) = swept[i].value

WasFalse(p, stage) == \E k \in DOMAIN history : TruthOf(p, stage, history[k]) = "FALSE"

(* Whatever an Orchestrator proposed and whatever took its place, the graph  *)
(* a run is frozen with, and sweeps next, is a workflow; no stage was left   *)
(* out of it whose predicate was not truly FALSE at a moment since the       *)
(* context was read; and where it mutates anything it holds the floor over   *)
(* what was true all along, not over what could be read                      *)
(* (workflow-admission.ts admitWorkflow, graph.ts, load.ts checkFloor).      *)
FrozenGraphIsSound ==
  phase = "sweep" /\ swept = <<>> =>
    LET g == graph.graph
    IN  /\ WellFormed(g)
        /\ \A s \in g.excluded : WasFalse(Applicability[s], s)
        /\ Mutating \cap StageSet(g) # {} =>
             FloorHolds(g, {item.type},
                        [p \in SelectionPredicates |->
                           IF WasFalse(p, NoStageAsked) THEN "FALSE" ELSE "TRUE"])

(* A merged pull request whose change is not there was reverted: the two     *)
(* observations contradict each other.                                       *)
Contradictory == PrMerged(world.reality) = "TRUE" /\ ~world.reality["implementation_present"].present

(* WORKFLOW_STATE_MACHINE 5.1: a run stops in an AMBIGUOUS_STATE on an       *)
(* unreadable source or on two observations contradicting each other.        *)
ConsistentRealityResumes ==
  (Swept /\ ComputeEntryStage(swept).outcome = "BLOCKED")
    => Contradictory \/ \E e \in Elements : ~context.reality[e].known

=============================================================================
