---------------------------- MODULE WorkflowGraph ----------------------------
(***************************************************************************)
(* Workflow graphs as data: policies/src/graph.ts, and the checks of       *)
(* policies/src/load.ts that refuse a template which is not one.           *)
(*                                                                         *)
(* A graph is [entry, stages, edges]: stages a sequence in declared order, *)
(* edges a set of [from, to, kind, when, negated].  A template is a graph  *)
(* with an id, the types it applies to and its optional stages.            *)
(***************************************************************************)
EXTENDS Naturals, Sequences, FiniteSets, SequencesExt

CONSTANTS
  Mutating,       (* the stages stages.json declares mutating                  *)
  SatisfiedBy,    (* stage -> its reality predicate, or NoPredicate            *)
  Applicability,  (* stage -> its applicability predicate, or NoPredicate      *)
  NoPredicate,    (* TypeScript null, where a predicate was looked for         *)
  FloorRules      (* the rules of workflow-floor.json                          *)

StageSet(g)  == ToSet(g.stages)
ForwardKinds == {"advance", "branch", "terminal"}
Controls     == {"COMPLETE", "BLOCKED", "CANCELLED"}
Walked(g, kinds) == {e \in g.edges : e.kind \in kinds}

(* An edge that is followed on a predicate, not always or on a status.       *)
Named(e) ==
  e.when \notin {"always", "envelope.REJECTED", "envelope.BLOCKED_BY_ARCHITECTURE"}

(* A start, and every node the edges given lead to from it.                  *)
ReachableFrom(edges, start) ==
  LET Grow[seen \in SUBSET {e.to : e \in edges}] ==
        LET next == {e.to : e \in {d \in edges : d.from \in {start} \cup seen}}
        IN  IF next \subseteq seen THEN seen ELSE Grow[next]
  IN  {start} \cup Grow[{}]

Reachable(g) == ReachableFrom(g.edges, g.entry)

(* On every forward route from the entry to the target.                      *)
Dominates(g, stage, target) ==
  LET around == {e \in Walked(g, ForwardKinds) : e.to # stage}
  IN  \/ stage \in {target, g.entry}
      \/ \A e \in around : e.to = target => e.from \notin ReachableFrom(around, g.entry)

(* On every forward route out of `from'; a dead end is a route without it.   *)
PostDominates(g, stage, from) ==
  LET around == {e \in Walked(g, ForwardKinds) : e.to # stage}
  IN  \/ stage = from
      \/ \A n \in ReachableFrom(around, from) \ {from} :
           \E e \in Walked(g, ForwardKinds) : e.from = n

-----------------------------------------------------------------------------
(* checkWellFormed, a conjunct for each of its problems.                     *)
Branches(g, node) == {e \in g.edges : e.from = node /\ e.kind = "branch"}

BranchesArePairs(g) ==
  \A node \in {e.from : e \in Walked(g, {"branch"})} :
    \E p, n \in Branches(g, node) :
      /\ Branches(g, node) = {p, n}
      /\ ~p.negated /\ n.negated
      /\ p.when = n.when

Position(g, stage) == CHOOSE i \in DOMAIN g.stages : g.stages[i] = stage

ForwardEdgesGoForward(g) ==
  LET ahead  == Walked(g, {"advance", "branch"})
      onPath == ReachableFrom(ahead, g.entry)
  IN  \A e \in ahead :
        /\ {e.from, e.to} \subseteq StageSet(g) \cap onPath
        /\ Position(g, e.from) >= Position(g, e.to)
        => e.from \in ReachableFrom(g.edges, e.to)

WellFormed(g) ==
  /\ g.entry \in StageSet(g)
  /\ \A e \in g.edges : e.from \in StageSet(g) /\ e.to \in StageSet(g) \cup Controls
  /\ StageSet(g) \subseteq Reachable(g)
  /\ "COMPLETION" \in StageSet(g)
  /\ {e.from : e \in {d \in g.edges : d.to = "COMPLETE"}} = {"COMPLETION"}
  /\ BranchesArePairs(g)
  /\ g.stages # <<>> => g.stages[1] = g.entry
  /\ ForwardEdgesGoForward(g)

(* The stages that are not excluded, in declared order.                      *)
Kept(stages, excluded) ==
  LET Upto[n \in 0..Len(stages)] ==
        IF n = 0 THEN <<>>
        ELSE IF stages[n] \in excluded THEN Upto[n - 1]
        ELSE Append(Upto[n - 1], stages[n])
  IN  Upto[Len(stages)]

(* The graph without some stages: what is left of a branch whose other arm   *)
(* went is unconditional, and an excluded entry moves to the first survivor. *)
WithoutStages(g, excluded) ==
  LET kept    == Kept(g.stages, excluded)
      left    == {e \in g.edges : {e.from, e.to} \cap excluded = {}}
      Alone(e) == e.kind = "branch" /\ {d \in left : d.from = e.from /\ d.kind = "branch"} = {e}
      Settled(e) == IF Alone(e)
                      THEN [e EXCEPT !.kind = "advance", !.when = "always", !.negated = FALSE]
                      ELSE e
  IN  IF kept = <<>>
        THEN [entry |-> g.entry, stages |-> <<>>, edges |-> {}]
        ELSE [entry  |-> IF g.entry \in excluded THEN kept[1] ELSE g.entry,
              stages |-> kept,
              edges  |-> {Settled(e) : e \in left}]

-----------------------------------------------------------------------------
(* checkFloor.  `type' is the work item's, or NoPredicate when a template is *)
(* loaded; a predicate that was not evaluated triggers nothing, and one that *)
(* is INDETERMINATE triggers as a true one does.                             *)
Triggered(trigger, g, types, val) ==
  \/ trigger.kind = "always"
  \/ trigger.kind = "contains_stage" /\ trigger.of \in StageSet(g)
  \/ trigger.kind = "work_item_type" /\ trigger.of \in types
  \/ /\ trigger.kind = "predicate_true"
     /\ trigger.of \in DOMAIN val
     /\ val[trigger.of] # "FALSE"

RequirementHolds(r, g) ==
  IF r.stage \notin StageSet(g)
    THEN r.anchor # NoPredicate /\ r.anchor \notin StageSet(g)
    ELSE CASE r.position = "before" ->
                r.anchor \in StageSet(g) => Dominates(g, r.stage, r.anchor)
           [] r.position = "after" ->
                r.anchor \in StageSet(g) => PostDominates(g, r.stage, r.anchor)
           [] r.position = "sole_predecessor_of_complete" ->
                \A e \in g.edges : e.to = "COMPLETE" => e.from = r.stage
           [] OTHER -> TRUE

(* Mutant: only a predicate known to be true triggers a rule.                *)
FloorHoldsWhenSure(g, types, val) ==
  \A rule \in FloorRules :
    (/\ Triggered(rule.trigger, g, types, val)
     /\ rule.trigger.kind = "predicate_true" => val[rule.trigger.of] = "TRUE")
      => /\ rule.forbids \cap StageSet(g) = {}
         /\ \A r \in rule.requires : RequirementHolds(r, g)

FloorHolds(g, types, val) ==
  \A rule \in FloorRules :
    Triggered(rule.trigger, g, types, val)
      => /\ rule.forbids \cap StageSet(g) = {}
         /\ \A r \in rule.requires : RequirementHolds(r, g)

-----------------------------------------------------------------------------
(* The optional stages that stand and fall together, by their predicate.     *)
ExclusionGroups(t) ==
  [p \in {Applicability[s] : s \in t.optional} \ {NoPredicate} |->
     {s \in t.optional : Applicability[s] = p}]

ExclusionSubsets(groups) == {UNION S : S \in SUBSET groups}

(* policies/data/stages.json must agree with WORKFLOW_STATE_MACHINE 2.2.     *)
ReadOnlyStages ==
  {"AUDIT", "ROOT_CAUSE", "ARCHITECTURE", "PLAN", "DECOMPOSITION", "VALIDATION",
   "STRUCTURAL_REAUDIT", "UX_REVIEW", "PR_REVIEW", "REVIEW_TRIAGE", "COMPLETION"}

(* What loading a template refuses: a graph that is malformed as declared or *)
(* under an exclusion, an optional stage it lacks, an escalation that does   *)
(* not block, a terminal edge that ends nothing, a floor it cannot hold.     *)
TemplateLoads(t) ==
  LET g == [entry |-> t.entry, stages |-> t.stages, edges |-> t.edges]
      groups == ExclusionGroups(t)
  IN  /\ t.optional \subseteq StageSet(t)
      /\ \A e \in t.edges :
           /\ e.kind = "escalate" => e.to = "BLOCKED"
           /\ e.kind = "terminal" => e.to \in {"COMPLETE", "CANCELLED"}
      /\ \A out \in ExclusionSubsets({groups[p] : p \in DOMAIN groups}) :
           WellFormed(WithoutStages(g, out))
      /\ FloorHolds(g, t.types, <<>>)

AdmissibleTemplates(templates, type) ==
  {t \in ToSet(templates) : t.types \cap {"*", type} # {}}
=============================================================================
