-------------------------- MODULE WorkflowAdmission --------------------------
(***************************************************************************)
(* What the kernel does with the Orchestrator's workflow proposal:         *)
(* core/src/workflow-admission.ts.  A proposal may choose a template,      *)
(* leave optional stages out and narrow mandates; a failed check is not    *)
(* negotiated: the most conservative admissible template takes its place.  *)
(*                                                                         *)
(* `val' is what the predicates evaluate to over the run's context.  A     *)
(* proposal is [template, include, exclude, mandates]; mandates gives some *)
(* stages a [scope, capabilities, repositories] of their own.  NoProposal  *)
(* when no Orchestrator answered.                                          *)
(***************************************************************************)
EXTENDS WorkflowGraph

CONSTANTS
  Templates,               (* policies/data/workflows, in order of their ids   *)
  AdmissibleRiskClasses,   (* execution.json                                   *)
  NoProposal

ASSUME TemplatesLoad ==
  /\ \A i \in DOMAIN Templates : TemplateLoads(Templates[i])
  /\ \E i \in DOMAIN Templates : /\ Templates[i].id = "investigation.readonly"
                                 /\ "*" \in Templates[i].types
  /\ "READ_ONLY" \in AdmissibleRiskClasses
  /\ Mutating \cap ReadOnlyStages = {}

DeriveRiskClass(stages) ==
  IF stages \cap Mutating = {} THEN "READ_ONLY"
  ELSE IF stages \cap {"MERGE", "DEPLOY", "PRODUCTION_VALIDATION"} # {}
    THEN "IRREVERSIBLE"
  ELSE IF stages \cap {"PR_PREPARATION", "CHILD_COORDINATION", "AUTHORIZATION"} # {}
    THEN "EXTERNAL_MUTATION"
  ELSE "LOCAL_MUTATION"

AdmissibleTemplatesFor(type) ==
  {t \in AdmissibleTemplates(Templates, type) :
     DeriveRiskClass(StageSet(t)) \in AdmissibleRiskClasses}

ById(id) == {t \in ToSet(Templates) : t.id = id}

InvestigationReadonly == CHOOSE t \in ById("investigation.readonly") : TRUE

(* The first template whose stages are a superset of every other's.          *)
MostConservative(admissible) ==
  LET supersets == {i \in DOMAIN Templates :
                      /\ Templates[i] \in admissible
                      /\ \A o \in admissible : StageSet(o) \subseteq StageSet(Templates[i])}
      first     == CHOOSE i \in supersets : \A j \in supersets : i <= j
  IN  IF supersets # {} THEN Templates[first] ELSE InvestigationReadonly

ScopeContained(inner, outer) ==
  /\ inner.scope \subseteq outer.scope
  /\ inner.capabilities \subseteq outer.capabilities
  /\ inner.repositories \subseteq outer.repositories

(* A group of optional stages leaves only when its predicate is FALSE.       *)
Excludable(predicate, val) == val[predicate] = "FALSE"

AskedToExclude(t, requested) ==
  {p \in DOMAIN ExclusionGroups(t) : ExclusionGroups(t)[p] \cap requested # {}}

ExcludedStages(t, requested, val) ==
  UNION {ExclusionGroups(t)[p] : p \in {q \in AskedToExclude(t, requested) : Excludable(q, val)}}

ExclusionsGranted(t, requested, val) ==
  \A p \in AskedToExclude(t, requested) : Excludable(p, val)

GraphOf(t) == [entry |-> t.entry, stages |-> t.stages, edges |-> t.edges]

Freeze(t, excluded, mandates) ==
  LET reduced == WithoutStages(GraphOf(t), excluded)
  IN  [template |-> t.id,
       entry    |-> reduced.entry,
       stages   |-> reduced.stages,
       edges    |-> reduced.edges,
       excluded |-> excluded,
       mandates |-> mandates,
       risk     |-> DeriveRiskClass(StageSet(reduced))]

Admitted(graph, overridden) == [graph |-> graph, overridden |-> overridden]

(* The checked graph keeps the template's own entry, excluded or not.        *)
CheckedGraph(t, excluded) ==
  [WithoutStages(GraphOf(t), excluded) EXCEPT !.entry = t.entry]

(* Mutant: the floor is checked on the template and not on what is left.     *)
ProposalHoldsOnTemplate(t, proposal, item, val) ==
  LET out == ExcludedStages(t, proposal.exclude, val)
  IN  /\ t \in AdmissibleTemplatesFor(item.type)
      /\ proposal.include \subseteq StageSet(t)
      /\ ExclusionsGranted(t, proposal.exclude, val)
      /\ WellFormed(CheckedGraph(t, out))
      /\ FloorHolds(GraphOf(t), t.types, <<>>)
      /\ \A s \in DOMAIN proposal.mandates : ScopeContained(proposal.mandates[s], item)

ProposalHolds(t, proposal, item, val) ==
  LET out   == ExcludedStages(t, proposal.exclude, val)
      graph == CheckedGraph(t, out)
  IN  /\ t \in AdmissibleTemplatesFor(item.type)
      /\ proposal.include \subseteq StageSet(t)
      /\ ExclusionsGranted(t, proposal.exclude, val)
      /\ WellFormed(graph)
      /\ FloorHolds(graph, {item.type}, val)
      /\ \A s \in DOMAIN proposal.mandates : ScopeContained(proposal.mandates[s], item)

(* Where the outcome already holds, nothing is left but to report it.        *)
CompletionOnly ==
  [Freeze(InvestigationReadonly, StageSet(InvestigationReadonly) \ {"COMPLETION"}, <<>>)
     EXCEPT !.excluded = {}]

(* The workflow that takes a refused proposal's place.                       *)
Fallback(type) == MostConservative(AdmissibleTemplatesFor(type))

AdmitWorkflow(proposal, item, outcomeSatisfied, val) ==
  LET fallback == Freeze(Fallback(item.type), {}, <<>>)
      named    == IF proposal = NoProposal THEN {}
                  ELSE {t \in ById(proposal.template) : ProposalHolds(t, proposal, item, val)}
  IN  CASE outcomeSatisfied -> Admitted(CompletionOnly, proposal # NoProposal)
        [] ~outcomeSatisfied /\ named # {} ->
             LET t == CHOOSE t \in named : TRUE
             IN  Admitted(Freeze(t, ExcludedStages(t, proposal.exclude, val), proposal.mandates),
                          FALSE)
        [] OTHER -> Admitted(fallback, proposal # NoProposal)
=============================================================================
