---------------------------- MODULE Understanding ----------------------------
(***************************************************************************)
(* Whether enough is known to choose a workflow (core/src/understood.ts),  *)
(* and the uncertainty ladder that settles how to go on when it is not     *)
(* (core/src/ladder.ts).  The ladder's probes and its question are steps   *)
(* of Prologue; this module holds what it decides between them.            *)
(*                                                                         *)
(* A gap is [elements, blocks]: the elements of reality its subject names  *)
(* and the obligations it blocks.                                          *)
(***************************************************************************)
EXTENDS WorkflowAdmission, Predicates

CONSTANTS
  Obligations,      (* stage -> its required outputs and DoD criteria          *)
  DiscoveryPerRun, DiscoveryPerWorkItem   (* budgets.loops.discovery           *)

(* Every predicate a choice of this template can turn on, with its stage.    *)
EntryPredicates(t) ==
  {<<e.when, t.entry>> : e \in {d \in t.edges : d.from = t.entry /\ Named(d)}}
  \cup {<<SatisfiedBy[s], s>> : s \in {x \in StageSet(t) : SatisfiedBy[x] # NoPredicate}}
  \cup {<<Applicability[s], s>> : s \in {x \in StageSet(t) : Applicability[x] # NoPredicate}}
  \cup {<<r.trigger.of, NoStageAsked>> :
          r \in {x \in FloorRules : x.trigger.kind = "predicate_true"}}

Candidates(type) == AdmissibleTemplates(Templates, type)

(* Over every template of the type, the inadmissible risk classes included.  *)
Undetermined(type, in, reprobed) ==
  {q[1] : q \in {r \in UNION {EntryPredicates(t) : t \in Candidates(type)} :
                   EvaluateFresh(r[1], [in EXCEPT !.stage = r[2]], reprobed)
                     = "INDETERMINATE"}}

MandatoryObligations(type) ==
  UNION {{s} \cup Obligations[s] : s \in
           UNION {StageSet(t) \ t.optional : t \in Candidates(type)}}

(* A gap is resolved when it names elements of reality and all are known.    *)
GapResolved(gap, reality) ==
  gap.elements # {} /\ \A e \in gap.elements : reality[e].known

Unhandled(type, gaps, reality, handled) ==
  {g \in gaps : /\ g.blocks \cap MandatoryObligations(type) # {}
                /\ ~GapResolved(g, reality)
                /\ g \notin handled}

(* The admitted item binds to a profile and every type has a template, so    *)
(* three of the five conditions can fail.                                    *)
Understood(item, in, reprobed, gaps, confident, laddered, handled) ==
  /\ Undetermined(item.type, in, reprobed) = {}
  /\ Unhandled(item.type, gaps, in.reality, handled) = {}
  /\ confident \/ laddered

-----------------------------------------------------------------------------
Readings(item, alternatives) == {item.type} \cup alternatives

(* Mutant: only the reading that was admitted is looked at.                  *)
EscalationOverrideOfAdmitted(item, alternatives) ==
  item.type = "INCIDENT" /\ alternatives \ {"INCIDENT"} # {}

(* Routine and urgent readings at once: no rung below ASK is tried.          *)
EscalationOverride(item, alternatives) ==
  /\ "INCIDENT" \in Readings(item, alternatives)
  /\ Cardinality(Readings(item, alternatives)) > 1

LadderTemplates(item, alternatives) ==
  UNION {AdmissibleTemplatesFor(type) : type \in Readings(item, alternatives)}

SharedUpTo(templates, n) ==
  \A i \in 1..n : \A t, o \in templates :
    i \in DOMAIN t.stages \cap DOMAIN o.stages /\ t.stages[i] = o.stages[i]

(* The read-only stages every candidate template starts with.                *)
CommonSafePrefix(templates) ==
  LET t == CHOOSE t \in templates : TRUE
      safe == {n \in DOMAIN t.stages :
                 /\ SharedUpTo(templates, n)
                 /\ \A i \in 1..n : t.stages[i] \in ReadOnlyStages \ Mutating}
  IN  {t.stages[i] : i \in safe}

(* discoveryLoopAllowed: `spent' is [run, workItem].                         *)
DiscoveryLoopAllowed(spent) ==
  spent.run + 1 <= DiscoveryPerRun /\ spent.workItem + 1 <= DiscoveryPerWorkItem

(* The ladder's own cap check adds its probes to a count that has them.      *)
LadderExhausted(spent, probes) ==
  \/ spent.run + probes + 1 > DiscoveryPerRun
  \/ spent.workItem + probes + 1 > DiscoveryPerWorkItem

(* Gaps a probe could settle: they block something and say what would.       *)
LadderGaps(gaps) == {g \in gaps : g.blocks # {} /\ g.recoverable}

(* A question discriminates between readings, so it needs an alternative.    *)
CanAsk(alternatives) == alternatives # {}
=============================================================================
