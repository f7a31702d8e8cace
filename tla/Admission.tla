------------------------------ MODULE Admission ------------------------------
(***************************************************************************)
(* Which proposed Work Item is admitted: core/src/admission.ts.            *)
(*                                                                         *)
(* A proposal is [names, type, alternatives, scope, capabilities,          *)
(* repositories, title, outcome, confident, assertions, evidence]; an      *)
(* assertion is [confidence, cites], and evidence a set of                 *)
(* [id, kind, adapter, path].  A path is a member of the finite set the    *)
(* policies' patterns cut paths into, Unbounded one that reaches           *)
(* everything and Escaping one outside.                                    *)
(***************************************************************************)
EXTENDS Naturals, FiniteSets

CONSTANTS
  TypePolicy,       (* type -> [by, needs, profiles]: work-items.json          *)
  ProfileAccess,    (* profile -> the access it needs: dod/*.json              *)
  Access,           (* the access this run has                                 *)
  Unbounded, Escaping,
  NoIdentity        (* no external item named, or none resolved                *)

ScopeBounded(p) ==
  /\ p.scope # {} \/ p.capabilities # {}
  /\ p.scope \cap {Unbounded, Escaping} = {}

-----------------------------------------------------------------------------
(* Evidence that was replayed and did not hold is withdrawn from the pool.   *)
AdmissibleEvidence(p, verified) ==
  {e \in p.evidence : e.id \notin DOMAIN verified
                        \/ verified[e.id] \notin {"MISMATCH", "UNREPLAYABLE"}}

(* What each requirement of a type asks: "YES", "NO", or "UNREAD" where the  *)
(* source that would answer could not be read.                               *)
YesNo(b) == IF b THEN "YES" ELSE "NO"

RecordsIntersecting(p, capabilities) ==
  \E c \in capabilities : c.paths \cap p.scope # {} \/ c.id \in p.capabilities

Structural(requirement, p, evidence, in) ==
  CASE requirement = "external_item_of_this_type" -> YesNo(in.identity.outcome = "RESOLVED")
    [] requirement = "child_items_exist" ->
         IF in.children.known THEN YesNo(in.children.is # {}) ELSE "UNREAD"
    [] requirement = "runtime_or_production_observation" ->
         YesNo(\E e \in evidence : e.kind \in {"log", "metric", "query", "http"}
                                     /\ e.adapter = "runtime")
    [] requirement = "capability_record_intersecting_scope" ->
         IF in.registry.available
           THEN YesNo(RecordsIntersecting(p, in.registry.records)) ELSE "UNREAD"
    [] requirement = "no_capability_record_intersecting_scope" ->
         IF in.registry.available
           THEN YesNo(\A c \in in.registry.records : c.paths \cap p.scope = {})
           ELSE "UNREAD"
    [] requirement = "named_path_exists" ->
         YesNo(\E e \in evidence : e.kind = "file" /\ e.path \in p.scope)
    [] requirement = "existing_change_proposal" ->
         IF in.pr.known THEN YesNo(in.pr.present) ELSE "UNREAD"
    [] requirement = "reproduction_or_incorrect_behaviour_report" ->
         YesNo(evidence # {})
    [] OTHER -> YesNo(requirement = "none")

Answer(r, p, evidence, in) ==
  LET found == Structural(r.requirement, p, evidence, in)
  IN  IF found = "UNREAD" THEN "UNREAD"
      ELSE YesNo(/\ found = "YES"
                 /\ r.kinds = {} \/ r.kinds \cap {e.kind : e \in evidence} # {})

TypeEvidenced(p, evidence, in) ==
  LET policy == TypePolicy[p.type]
      answers == {Answer(r, p, evidence, in) : r \in policy.needs}
  IN  CASE policy.by = "NONE" -> TRUE
        [] policy.by = "ALL"  -> answers \subseteq {"YES"}
        [] OTHER              -> "YES" \in answers

(* A type that is not evidenced is admitted as UNKNOWN, never refused.       *)
AdmittedType(p, evidence, in) == IF TypeEvidenced(p, evidence, in) THEN p.type ELSE "UNKNOWN"

CheckableProfiles(type) == {f \in TypePolicy[type].profiles : ProfileAccess[f] \subseteq Access}

-----------------------------------------------------------------------------
(* A FACT cites evidence, and evidence that is in the envelope's pool.       *)
AssertionsSupported(p) ==
  \A a \in p.assertions :
    a.confidence = "FACT" =>
      a.cites # {} /\ a.cites \subseteq {e.id : e \in p.evidence}

Acceptable(p, type, in) ==
  /\ AssertionsSupported(p)
  /\ ~in.rejectEnvelope
  /\ ScopeBounded(p)
  /\ p.outcome
  /\ CheckableProfiles(type) # {}
  /\ p.title # "" \/ p.outcome

(* The item an external identity names, or else its normalised content.      *)
DeriveIdentity(p, identity) ==
  IF identity.outcome = "RESOLVED"
    THEN [external |-> identity.identity, title |-> "", scope |-> {}]
    ELSE [external |-> NoIdentity, title |-> p.title, scope |-> p.scope]

DuplicateCandidates(p, id, identity, existing) ==
  IF identity.outcome = "RESOLVED" THEN {}
  ELSE {w.id : w \in {x \in existing :
          /\ x.external = NoIdentity
          /\ x.id # id
          /\ x.lifecycle \notin {"ACHIEVED", "ABANDONED", "SUPERSEDED"}
          /\ x.scope \cap p.scope # {}}}

(* `in' is what admission reads besides the proposal: [identity, registry,   *)
(* children, pr, verified, rejectEnvelope, existing].                        *)
AdmitWorkItem(p, in) ==
  LET evidence == AdmissibleEvidence(p, in.verified)
      type     == AdmittedType(p, evidence, in)
      id       == DeriveIdentity(p, in.identity)
  IN  CASE in.identity.outcome \in {"UNAVAILABLE", "ABSENT"} ->
             [outcome |-> "BLOCKED", blocker |-> "EXTERNAL_DEPENDENCY"]
        [] /\ in.identity.outcome \notin {"UNAVAILABLE", "ABSENT"}
           /\ ~Acceptable(p, type, in) -> [outcome |-> "REJECTED"]
        [] OTHER ->
             [outcome  |-> "ADMITTED",
              item     |-> [id         |-> id,
                            external   |-> id.external,
                            type       |-> type,
                            claimed    |-> IF type = p.type THEN "NONE" ELSE p.type,
                            scope        |-> p.scope,
                            capabilities |-> p.capabilities,
                            repositories |-> p.repositories,
                            profiles   |-> CheckableProfiles(type),
                            lifecycle  |-> "RESOLVED",
                            duplicates |->
                              DuplicateCandidates(p, id, in.identity, in.existing)]]
=============================================================================
