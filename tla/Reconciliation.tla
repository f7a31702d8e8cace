--------------------------- MODULE Reconciliation ---------------------------
(***************************************************************************)
(* discovery/src/reconciliation.ts: what intent, code and runtime say of   *)
(* one work item together, and of each capability.                         *)
(***************************************************************************)
EXTENDS SectionProbes

(* An assertion of a section, or UNKNOWN when there is none: no reading      *)
(* below tells the two apart but where it says so.                           *)
Held(section, key) == IF key \in DOMAIN section THEN section[key] ELSE NotComputed

Reading(a, present) == IF ~Known(a) THEN "UNKNOWN" ELSE IF present THEN "PRESENT" ELSE "ABSENT"

(* reading, of the values that are lists or records.                         *)
ListReading(a) == Reading(a, Known(a) /\ (HasField(a.value[1], "status")
                                          \/ Records(a.value[1]) # {}))
BooleanReading(a) == Reading(a, Known(a) /\ a.value[1])

(* pullRequestExists: a pull request of no state is none.                    *)
PullRequestExists(pr) == Reading(pr, Known(pr) /\ pr.value[1].state # "")

(* mergedReading: either source may say so, and one is enough to deny it.    *)
MergedReading(pr, merge) ==
  IF ~Known(pr) /\ ~Known(merge) THEN "UNKNOWN"
  ELSE IF \/ Known(pr) /\ pr.value[1].state = "MERGED"
          \/ Known(merge) /\ merge.value[1] = "MERGED"
  THEN "PRESENT" ELSE "ABSENT"

DeployedReading(deployment) == Reading(deployment, Known(deployment) /\ deployment.value[1] # {})

(* intentReading: the ticket; what was searched for instead, when there was  *)
(* no ticket to read.                                                        *)
IntentReading(intent) ==
  LET ticket == Held(intent, "ticket")
      issues == Held(intent, "issues")
  IN CASE Known(ticket) -> ListReading(ticket)
       [] ~Known(ticket) /\ ~Known(issues) -> "UNKNOWN"
       [] ~Known(ticket) /\ Known(issues) ->
            IF ticket.reason = "NOT_COMPUTED" \/ ListReading(issues) = "PRESENT"
            THEN ListReading(issues) ELSE "UNKNOWN"

(* An axis of two sources: one that is present is enough, and it is unknown  *)
(* only when both are.                                                       *)
Axis(x, y) ==
  CASE "PRESENT" \in {x, y} -> "PRESENT"
    [] {x, y} = {"UNKNOWN"} -> "UNKNOWN"
    [] OTHER -> "ABSENT"

Axes(reality, intent) ==
  [intent |-> IntentReading(intent),
   code |-> Axis(BooleanReading(reality["implementation_present"]),
                 PullRequestExists(reality["pr"])),
   runtime |-> Axis(BooleanReading(reality["outcome_evidence"]),
                    DeployedReading(reality["deployment"]))]

(* reconcileWorkItem: two disagreements come before everything; an axis      *)
(* that was not read comes before what the others say.                       *)
LedgerOpenedPr(history) == Known(history) /\ \E stages \in history.value[1] : "PR_PREPARATION" \in stages

ReconcileWorkItem(reality, intent) ==
  LET axes == Axes(reality, intent)
      opened == LedgerOpenedPr(reality["agentos_history"])
      claimed == BooleanReading(Held(intent, "claims_completion")) = "PRESENT"
      unmerged == MergedReading(reality["pr"], reality["merge_state"]) = "ABSENT"
      lost == opened /\ PullRequestExists(reality["pr"]) = "ABSENT"
      unproven == claimed /\ unmerged /\ axes.code # "UNKNOWN"
      state ==
        CASE unproven /\ ~opened -> "CLAIMED_DONE_UNPROVEN"
          [] lost \/ (unproven /\ opened) -> "CONFLICTING"
          [] OTHER ->
               IF "UNKNOWN" \in {axes.intent, axes.code, axes.runtime} THEN "INDETERMINATE"
               ELSE IF axes.code = "PRESENT" /\ axes.runtime = "PRESENT"
                       /\ (axes.intent = "PRESENT" \/ claimed) THEN "ALIGNED"
               ELSE IF axes.code = "ABSENT" /\ axes.runtime = "ABSENT"
                       /\ axes.intent = "PRESENT" THEN "INTENT_ONLY"
               ELSE IF axes.code = "ABSENT" /\ axes.runtime = "PRESENT" THEN "RUNTIME_NO_CODE"
               ELSE IF axes.code = "PRESENT" /\ axes.runtime = "ABSENT" THEN "CODE_NO_RUNTIME"
               ELSE IF axes.code = "PRESENT" /\ axes.intent = "ABSENT" THEN "CODE_ONLY"
               ELSE "INDETERMINATE"
  IN [state |-> state, axes |-> axes,
      conflicts |-> {c \in {"pr", "completion"} : \/ c = "pr" /\ lost
                                                  \/ c = "completion" /\ unproven}]

-----------------------------------------------------------------------------
(* The sections a capability is looked for in, and the keys that count as    *)
(* having read one.                                                          *)
IntentKeys == {"claimed_capabilities", "issues", "epics"}
CodeKeys == {"endpoints", "paths", "surfaces", "sources", "schema_paths", "entity_paths"}
RuntimeKeys == {"services", "stores", "service_health"}
CodeSections == {"api_map", "ui_map", "source_map", "data_map", "domain_model"}

AnyKnown(section, keys) == \E k \in keys : Known(Held(section, k))

(* mentions: the capability's id occurs in what is known.  The health of     *)
(* services names the services and no others.                                *)
Mentions(section, keys, id) ==
  \E k \in keys \ {"service_health"} : LET a == Held(section, k) IN Known(a) /\ id \in Records(a.value[1])

(* capabilityState: of a record of the registry, if there is one.            *)
CapabilityState(axes, claimed) ==
  CASE claimed /\ axes.runtime = "ABSENT" -> "CLAIMED_DONE_UNPROVEN"
    [] ~(claimed /\ axes.runtime = "ABSENT") /\ "UNKNOWN" \in {axes.intent, axes.code, axes.runtime}
         -> "INDETERMINATE"
    [] OTHER ->
         IF axes.code = "PRESENT" /\ axes.runtime = "ABSENT"
         THEN IF axes.intent = "ABSENT" THEN "CODE_ONLY" ELSE "CODE_NO_RUNTIME"
         ELSE IF axes.code = "ABSENT" /\ axes.runtime = "PRESENT" THEN "RUNTIME_NO_CODE"
         ELSE IF axes.code = "ABSENT" /\ axes.runtime = "ABSENT"
         THEN IF axes.intent = "PRESENT" THEN "INTENT_ONLY" ELSE "INDETERMINATE"
         ELSE "ALIGNED"

(* buildCapabilityMatrix, for one capability: an axis is unknown when its    *)
(* sections could not be read and the registry has not seen it there either. *)
CapabilityRow(sections, id, record) ==
  LET axis(source, readable, mentioned) ==
        IF ~readable /\ source \notin record.seen THEN "UNKNOWN"
        ELSE IF source \in record.seen \/ mentioned THEN "PRESENT" ELSE "ABSENT"
      axes ==
        [intent |-> axis("INTENT", AnyKnown(sections["intent"], IntentKeys),
                         Mentions(sections["intent"], IntentKeys, id)),
         code |-> axis("CODE", \E c \in CodeSections : AnyKnown(sections[c], CodeKeys),
                       record.scoped \/ \E c \in CodeSections : Mentions(sections[c], CodeKeys, id)),
         runtime |-> axis("RUNTIME", AnyKnown(sections["runtime_state"], RuntimeKeys),
                          Mentions(sections["runtime_state"], RuntimeKeys, id))]
  IN [axes |-> axes, state |-> CapabilityState(axes, record.claimed)]
=============================================================================
