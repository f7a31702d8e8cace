------------------------------ MODULE Predicates ------------------------------
(***************************************************************************)
(* The predicates of core/src/predicates.ts over a context.                *)
(*                                                                         *)
(* An assertion is [known, fresh, present, is]: known unless its           *)
(* confidence is UNKNOWN, fresh while it is read and within its freshness  *)
(* window, present unless its value is empty, zero or false, `is' the      *)
(* value where an evaluator reads it.  A reading `in' is                   *)
(* [reality, sections, surfaces, boundaries, scope, capabilities, stage]:  *)
(* reality and sections map names to assertions, surfaces and boundaries   *)
(* are the path sets the ui_map and the api_map declare.                   *)
(***************************************************************************)
EXTENDS Integers, FiniteSets

CONSTANTS
  NoStageAsked,  (* a predicate evaluated about no stage in particular         *)
  Unstated       (* a review field the adapter did not report, a negative      *)

Unread ==
  [known |-> FALSE, fresh |-> FALSE, present |-> FALSE, is |-> "UNKNOWN"]

Read(present, is) ==
  [known |-> TRUE, fresh |-> TRUE, present |-> present, is |-> is]

Decided(b) == IF b THEN "TRUE" ELSE "FALSE"

AssertionTruth(a) == IF a.known THEN Decided(a.present) ELSE "INDETERMINATE"

(* A value on the strength of assertions that are read.                      *)
Given(known, value) == IF known THEN value ELSE "INDETERMINATE"

(* Mutant: what was read once is never too old.                              *)
IsStaleUnread(a) == ~a.known

(* What was never read is stale, and what has outlived its window.           *)
IsStale(a) == ~a.fresh

(* A field of an object-valued assertion.                                    *)
Field(a, name) == IF a.known THEN a.is[name] ELSE "UNSTATED"

(* The element of current_reality each predicate re-probes when it is stale. *)
RealityElement(p) ==
  CASE p = "reality.implementation_present" -> "implementation_present"
    [] p = "reality.tests_present"          -> "tests_present"
    [] p \in {"reality.pr_open", "reality.pr_merged"} -> "pr"
    [] p \in {"reality.pr_approved", "reality.pr_reviewed",
              "reality.pr_has_unresolved_comments"} -> "reviews"
    [] p = "reality.ci_green"               -> "ci"
    [] p = "reality.stage_completed_previously" -> "agentos_history"
    [] p \in {"reality.children_exist", "reality.children_all_terminal"} -> "children"
    [] p \in {"reality.outcome_already_satisfied", "regression.suspected"} ->
         "outcome_evidence"
    [] p = "reality.deployed"               -> "deployment"
    [] OTHER                                -> "none"

TerminalLifecycles == {"ACHIEVED", "ABANDONED", "SUPERSEDED"}

Meets(paths, others) == paths \cap others # {}

-----------------------------------------------------------------------------
(* Applicability of the optional stages.                                     *)
AuditApplicable(in) ==
  IF \E c \in in.capabilities : Meets(c.paths, in.scope)
    THEN "TRUE" ELSE AssertionTruth(in.sections["commit_count"])

ArchitectureRequired(in) ==
  IF Meets(in.scope, in.boundaries) THEN "TRUE"
  ELSE Given(in.boundaries # {} \/ in.sections["canonical_ownership"].known, "FALSE")

UxRequired(in) ==
  IF in.surfaces = {} THEN Given(in.sections["ui_map"].known, "FALSE")
                      ELSE Decided(Meets(in.scope, in.surfaces))

ProductionApplicable(in) ==
  LET environments == in.sections["environments"]
  IN  Given(environments.known,
         Decided(environments.present /\ "PRODUCTION" \in environments.is))

-----------------------------------------------------------------------------
(* What Current Reality says of the change.                                  *)
PrOpen(r) == Given(r["pr"].known, Decided(Field(r["pr"], "state") = "OPEN"))

PrMerged(r) ==
  Given(r["pr"].known \/ r["merge_state"].known,
     Decided("MERGED" \in {Field(r["pr"], "state"), Field(r["merge_state"], "state")}))

PrApproved(r) ==
  Given(r["reviews"].known,
     Decided(r["reviews"].is.approved /\ r["reviews"].is.threads \in {0, Unstated}))

(* A review count settles it; without one, an approval or a thread does.     *)
PrReviewed(r) ==
  Given(r["reviews"].known,
     LET said == r["reviews"].is
     IN  Decided(IF said.count # Unstated THEN said.count > 0
                                          ELSE said.approved \/ said.threads > 0))

PrHasUnresolvedComments(r) ==
  Given(r["reviews"].known /\ r["reviews"].is.threads # Unstated,
     Decided(r["reviews"].is.threads > 0))

(* Green, and for the head of the pull request where both heads are stated.  *)
CiGreen(r) ==
  LET heads == {Field(r["ci"], "head"), Field(r["pr"], "head")} \ {"UNSTATED"}
  IN  Given(r["ci"].known,
         Decided(Field(r["ci"], "result") = "GREEN" /\ Cardinality(heads) <= 1))

StageCompletedPreviously(in) ==
  Given(in.stage # NoStageAsked /\ in.reality["agentos_history"].known,
     Decided(in.stage \in in.reality["agentos_history"].is))

ChildrenExist(r) == Given(r["children"].known, Decided(r["children"].is # {}))

ChildrenAllTerminal(r) ==
  Given(/\ r["children"].known
     /\ \A c \in r["children"].is : c.lifecycle # "UNKNOWN",
     Decided(/\ r["children"].is # {}
             /\ \A c \in r["children"].is : c.lifecycle \in TerminalLifecycles))

Deployed(r) == Given(r["deployment"].known, Decided(r["deployment"].present))

(* The outcome does not hold where something that worked is in scope.        *)
RegressionSuspected(in) ==
  LET outcome == AssertionTruth(in.reality["outcome_evidence"])
  IN  Given(outcome # "INDETERMINATE",
         Decided(/\ outcome = "FALSE"
                 /\ \E c \in in.capabilities :
                      c.status \in {"WORKING", "PROVEN"} /\ Meets(c.paths, in.scope)))

RealityAssertionTruthy(p, r) == AssertionTruth(r[RealityElement(p)])

EvaluatePredicate(p, in) ==
  CASE p = "audit.applicable"                   -> AuditApplicable(in)
    [] p = "architecture.required"              -> ArchitectureRequired(in)
    [] p = "ux.required"                        -> UxRequired(in)
    [] p = "production.applicable"              -> ProductionApplicable(in)
    [] p = "regression.suspected"               -> RegressionSuspected(in)
    [] p = "reality.pr_open"                    -> PrOpen(in.reality)
    [] p = "reality.pr_merged"                  -> PrMerged(in.reality)
    [] p = "reality.pr_approved"                -> PrApproved(in.reality)
    [] p = "reality.pr_reviewed"                -> PrReviewed(in.reality)
    [] p = "reality.pr_has_unresolved_comments" -> PrHasUnresolvedComments(in.reality)
    [] p = "reality.ci_green"                   -> CiGreen(in.reality)
    [] p = "reality.stage_completed_previously" -> StageCompletedPreviously(in)
    [] p = "reality.children_exist"             -> ChildrenExist(in.reality)
    [] p = "reality.children_all_terminal"      -> ChildrenAllTerminal(in.reality)
    [] p = "reality.deployed"                   -> Deployed(in.reality)
    [] p \in {"reality.implementation_present", "reality.tests_present",
              "reality.outcome_already_satisfied"} -> RealityAssertionTruthy(p, in.reality)

-----------------------------------------------------------------------------
(* The reality one evaluation sees: a stale element is probed again, once    *)
(* until freshen(), and the answer kept by the evaluator, not the context.   *)
Refreshed(p, reality, reprobed) ==
  LET e == RealityElement(p)
  IN  IF e # "none" /\ IsStale(reality[e]) THEN [reality EXCEPT ![e] = reprobed[e]]
                                           ELSE reality

EvaluateFresh(p, in, reprobed) ==
  EvaluatePredicate(p, [in EXCEPT !.reality = Refreshed(p, in.reality, reprobed)])
=============================================================================
