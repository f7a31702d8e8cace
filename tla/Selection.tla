----------------------------- MODULE Selection -----------------------------
(***************************************************************************)
(* What the kernel gives a dispatch: its model and the skills it is        *)
(* offered (core/src/selection.ts), from the registries' rankings          *)
(* (registries/src).  A registry ranks and says what it would exclude; the *)
(* kernel applies its own filters to the ranking.                          *)
(*                                                                         *)
(* Classes that are ordered are numbers, 0 the unknown one; scores are the *)
(* source's, in thousandths.                                               *)
(***************************************************************************)
EXTENDS Integers, FiniteSets, SequencesExt

CONSTANTS ContextFloor,   \* the window each declared context size needs
          AdapterDomains, \* ADAPTER_DOMAINS, by adapter family
          AdapterTargets, \* ADAPTER_TARGETS
          StageDomains    \* STAGE_DOMAINS, empty for a stage it does not list

-----------------------------------------------------------------------------
(* ranking.ts: what is not excluded first, then by score, then by name.      *)
Precedes(a, b) ==
  \/ ~a.excluded /\ b.excluded
  \/ a.excluded = b.excluded /\ a.score > b.score
  \/ a.excluded = b.excluded /\ a.score = b.score /\ a.entry.id < b.entry.id

Order(scored) == SetToSortSeq(scored, Precedes)

(* The share of what is wanted that is offered.                              *)
Coverage(wanted, offered) ==
  IF wanted = {} THEN 1000
  ELSE (1000 * Cardinality(wanted \cap offered)) \div Cardinality(wanted)

-----------------------------------------------------------------------------
(* shortfalls: what the registry of models measures an entry against.        *)
Shortfalls(m, need) ==
  {s \in {"availability", "reasoning", "coding", "vision", "tool_use",
          "precision", "context"} :
     CASE s = "availability" -> ~m.available
       [] s = "reasoning" -> m.reasoning < need.reasoning
       [] s = "coding"    -> need.coding /\ m.coding < 2
       [] s = "vision"    -> need.vision /\ m.vision < 1
       [] s = "tool_use"  -> m.tool_use < need.tool_use
       [] s = "precision" -> need.precise /\ ~m.precise
       [] OTHER           -> m.window < ContextFloor[need.context]}

Priced(models) == {m \in models : m.price > 0}
CostScore(m, models) ==
  IF m.price = 0 THEN 0
  ELSE (1000 * (CHOOSE p \in {c.price : c \in Priced(models)} :
                  \A c \in Priced(models) : p <= c.price)) \div m.price

Headroom(m, need) ==
  LET quarters == (250 * m.window) \div ContextFloor[need.context]
  IN  IF quarters > 1000 THEN 1000 ELSE quarters

ModelScore(m, need, models) ==
  LET adequate == IF Shortfalls(m, need) = {} THEN 1000 ELSE 0
  IN  adequate * 100 + CostScore(m, models) * 30 + m.latency * 5
        + Headroom(m, need) * 4

RankModels(models, need) ==
  Order({[entry |-> m, score |-> ModelScore(m, need, models),
          excluded |-> Shortfalls(m, need) # {}] : m \in models})

(* meetsRequirement, the kernel's own filter.  It is not the registry's: of  *)
(* the window it asks only that it be known, and only above the smallest     *)
(* context.                                                                  *)
MeetsRequirement(m, need) ==
  /\ Shortfalls(m, need) \subseteq {"context"}
  /\ ~(m.window = 0 /\ need.context > 1)

NoModel == 0

(* selectModel, with no preference: the first eligible model of the ranking, *)
(* or on an escalation the first that is not the previous one.               *)
SelectModel(models, need, escalate, previous) ==
  LET eligible == SelectSeq(RankModels(models, need),
                            LAMBDA c : MeetsRequirement(c.entry, need))
      others == SelectSeq(eligible, LAMBDA c : c.entry.id # previous)
  IN  CASE eligible = <<>> -> NoModel
        [] /\ escalate
           /\ previous # NoModel
           /\ Len(eligible) > 1 -> others[1].entry.id
        [] OTHER -> eligible[1].entry.id

-----------------------------------------------------------------------------
(* classifyDispatch: nothing of a classification is the agent's to guess.    *)
ClassifyDispatch(spec, stage, stageMutating) ==
  [domains |-> (UNION {AdapterDomains[a] : a \in spec.permitted_adapters})
                 \cup StageDomains[stage],
   targets |-> UNION {AdapterTargets[a] : a \in spec.permitted_adapters},
   operations |-> {"read", "analyse", "verify"}
                    \cup (IF stageMutating THEN {"generate", "mutate"} ELSE {}),
   mutating |-> stageMutating]

MaySpawn(skill) == skill.spawns \/ ~skill.determined

Excluded(skill, task) ==
  \/ MaySpawn(skill)
  \/ skill.mutating /\ ~task.mutating
  \/ ~skill.available
  \/ task.operations # {} /\ Coverage(task.operations, skill.operations) = 0
  \/ task.targets # {} /\ Coverage(task.targets, skill.targets) = 0

Specificity(skill, task) ==
  LET Size(S) == Cardinality(S)
      declared == Size(skill.domains) + Size(skill.operations) + Size(skill.targets)
      overlap == Size(task.domains \cap skill.domains)
                   + Size(task.operations \cap skill.operations)
                   + Size(task.targets \cap skill.targets)
  IN  IF declared = 0 \/ task.domains \cup task.operations \cup task.targets = {} THEN 0
      ELSE (1000 * overlap) \div declared

Safety(skill) ==
  (IF skill.mutating THEN 0 ELSE 500) + (IF skill.external THEN 0 ELSE 300)
    + (IF skill.reversible THEN 200 ELSE 0)

SkillScore(skill, task) ==
  LET capability == (Coverage(task.domains, skill.domains)
                       + Coverage(task.operations, skill.operations)
                       + Coverage(task.targets, skill.targets)) \div 3
      own == IF skill.source = "repository" THEN 1000 ELSE 0
  IN  capability * 100 + (Specificity(skill, task) + own) * 25
        + skill.cost * 10 + skill.reliability * 6 + Safety(skill) * 3

RankSkills(skills, task) ==
  Order({[entry |-> s, score |-> SkillScore(s, task), excluded |-> Excluded(s, task)] :
           s \in skills})

(* selectSkills: the kernel's filters, on the whole ranking.  They do not    *)
(* include the registry's match of operations and targets.                   *)
Selectable(skill, stageMutating) ==
  /\ ~MaySpawn(skill)
  /\ skill.mutating => stageMutating
  /\ skill.available

SelectSkills(skills, task) ==
  SelectSeq(RankSkills(skills, task),
            LAMBDA c : Selectable(c.entry, task.mutating))

-----------------------------------------------------------------------------
(* The specification of a stage no catalogue entry serves.                   *)
FallbackSpec(role, outputs, criteria, stageMutating) ==
  [role |-> role, required_outputs |-> outputs,
   permitted_adapters |-> {"repo", "git"}, read_only |-> ~stageMutating,
   dod_criteria |-> criteria,
   model |-> [context |-> 2, reasoning |-> 2, coding |-> FALSE, vision |-> FALSE,
              tool_use |-> 2, precise |-> FALSE]]

-----------------------------------------------------------------------------
(* agents/src/roles/catalog.ts: the specifications a dispatch is made        *)
(* under, assembled from the roles' own and from policies/data.              *)
CONSTANTS RoleSpecs,   \* MVP_ROLE_SPECS
          Roles,       \* policies/data/agents.json
          Criteria,    \* policies/data/dod
          Descriptors  \* policies/data/stages.json, by stage

RolePolicyOf(role) == {p \in Roles : p.role = role}

(* The criteria a mandate owes; only some mandates own a pass.               *)
OwnedCriteria(spec) ==
  {c.criterion : c \in {d \in Criteria : /\ d.owner = spec.role
                                         /\ d.pass \in spec.pass \cup {"only"}
                                         /\ spec.pass # {}}}

(* A mandate dispatched into a template stage owes what the stage declares.  *)
AgreesWithStage(spec) ==
  spec.stage \in DOMAIN Descriptors =>
    /\ spec.required_outputs = Descriptors[spec.stage].required_outputs
    /\ OwnedCriteria(spec) = Descriptors[spec.stage].criteria

Assemble(spec) ==
  LET policy == CHOOSE p \in RolePolicyOf(spec.role) : TRUE
  IN  [role |-> spec.role, required_outputs |-> spec.required_outputs,
       permitted_adapters |-> policy.adapters, read_only |-> policy.read_only,
       dod_criteria |-> OwnedCriteria(spec), model |-> spec.model]

(* The catalogue is built whole or not at all.                               *)
CatalogRefused ==
  \/ \E s \in RoleSpecs : RolePolicyOf(s.role) = {} \/ ~AgreesWithStage(s)
  \/ \E s, t \in RoleSpecs : s # t /\ s.role = t.role /\ s.mandate = t.mandate

ASSUME CatalogAssumption == ~CatalogRefused

(* The kernel looks a stage's agent up under the stage's name, in lower case *)
(* where this has the stage itself, and falls back to a specification made   *)
(* of the stage's descriptor.                                                *)
EffectiveSpec(stage) ==
  LET role == Descriptors[stage].agent
      found == {s \in RoleSpecs : s.role = role /\ s.mandate = stage}
  IN  IF found = {}
      THEN FallbackSpec(role, Descriptors[stage].required_outputs,
                        Descriptors[stage].criteria, Descriptors[stage].mutating)
      ELSE Assemble(CHOOSE s \in found : TRUE)
=============================================================================
