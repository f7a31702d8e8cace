-------------------------- MODULE EnvelopeReceipt --------------------------
(***************************************************************************)
(* What the kernel makes of an envelope an agent returned: core/src's      *)
(* crossfield.ts, reconciliation.ts, evidence-verification.ts and          *)
(* receipt.ts.  Everything here is a function of the envelope, of what the *)
(* kernel expected of it, of the journalled calls and mutations of its     *)
(* dispatch, and of what a replay of its evidence returned.                *)
(*                                                                         *)
(* An envelope's evidence is a set of records with an id; where it cites   *)
(* evidence it names ids.  `claims' is the set of observed values an item  *)
(* of evidence agrees with: its excerpt's, or those its predicate accepts. *)
(* An entry of its coverage is the set of places it covers, and whether it *)
(* names a capability rather than a path.                                  *)
(***************************************************************************)
EXTENDS Integers, FiniteSets, ToolSurface

CONSTANTS NoTool,            \* evidence whose locator names no operation
          RolePolicy,        \* policies/agents.json, by role
          SampleShare,       \* one in SampleShare of the rest is sampled (sample_rate)
          SampleMinimum,     \* sample_minimum_per_envelope
          MismatchThreshold, \* mismatch_threshold_per_envelope
          AuthorizationThreshold

ReviewingRoles == {"validator", "product-ux"}
NeedsPredicate == {"log", "metric"}

Ids(envelope) == {e.id : e \in envelope.evidence}
Blocked(envelope) == envelope.status \in {"BLOCKED", "BLOCKED_BY_ARCHITECTURE"}

Cited(envelope) ==
  (UNION {f.evidence : f \in envelope.findings})
    \cup (UNION {v.evidence : v \in envelope.verdicts})
    \cup UNION envelope.blockers

(* checkStatus: what the status an envelope returns may not go with.         *)
StatusIllegal(envelope, expect) ==
  \/ envelope.status \notin RolePolicy[envelope.agent].may_return
  \/ envelope.status = "COMPLETE" /\ envelope.blockers # {}
  \/ envelope.status = "PARTIAL" /\ envelope.unknowns = {}
  \/ Blocked(envelope) /\ envelope.blockers = {}
  \/ envelope.status = "REJECTED" /\ envelope.agent \notin ReviewingRoles
  \/ /\ envelope.status = "BLOCKED_BY_ARCHITECTURE"
     /\ ~(/\ envelope.agent = "implementer"
          /\ envelope.stage = "IMPLEMENTATION"
          /\ "ARCHITECTURE" \in expect.graphStages)

(* checkProposals.                                                           *)
ProposalRefused(envelope) ==
  \E p \in envelope.proposals :
    \/ p.key \notin RolePolicy[envelope.agent].may_propose
    \/ ~{"*", envelope.stage} \cap RolePolicy[envelope.agent].stages[p.key] # {}
    \/ p.key = "cancellation" /\ p.evidence = {}
    \/ p.key = "workflow" /\ p.unclaimed

(* A verdict on a criterion: owned, reasoned where it sets one aside, and    *)
(* never MET on nothing.                                                     *)
VerdictIllegal(v, expect) ==
  \/ v.criterion \notin expect.criteria
  \/ v.verdict \in {"NOT_APPLICABLE", "NOT_VALIDATED"} /\ ~v.reasoned
  \/ v.verdict = "MET" /\ v.evidence = {}

EvidenceIllegal(e) ==
  \/ e.marked
  \/ e.kind \in NeedsPredicate /\ ~e.predicated
  \/ e.reproducible /\ e.op = NoTool

(* checkCrossFields: nothing is missing that the others refer to.            *)
CrossFieldsAgree(envelope, expect) ==
  /\ envelope.dispatch = expect.dispatch
  /\ envelope.stage = expect.stage
  /\ envelope.agent = expect.agent
  /\ ~StatusIllegal(envelope, expect)
  /\ envelope.named \subseteq expect.outputs
  /\ envelope.status = "COMPLETE" => expect.outputs \subseteq envelope.filled
  /\ Cited(envelope) \subseteq Ids(envelope)
  /\ UNION envelope.unknowns \subseteq expect.obligations
  /\ \A e \in envelope.evidence : ~EvidenceIllegal(e)
  /\ \A v \in envelope.verdicts : ~VerdictIllegal(v, expect)
  /\ envelope.coverage # {}
  /\ ~(/\ envelope.agent = "product-ux"
       /\ \E v \in envelope.verdicts : v.criterion \in {8, 14} /\ v.verdict = "MET"
       /\ \A e \in envelope.evidence : e.kind = "screenshot")
  /\ \A f \in envelope.findings : f.evidence # {}
  /\ ~envelope.bareHypothesis
  /\ ~ProposalRefused(envelope)

-----------------------------------------------------------------------------
(* accounts: an operation no kind of artifact lists accounts for any.        *)
Accounts(change, mutation) ==
  /\ change.target = mutation.target
  /\ mutation.kind \in {change.kind, "unlisted"}

ArtifactsAccounted(changes, mutations) ==
  /\ \A m \in mutations : \E c \in changes : Accounts(c, m)
  /\ \A c \in changes : \E m \in mutations : Accounts(c, m)

CallSupports(entry, call) == entry.places \cap (call.paths \cup call.capabilities) # {}

(* What names a capability can be reconciled only with calls that record the *)
(* capabilities they touched.                                                *)
Reconcilable(entry, calls) ==
  entry.capability => \E c \in calls : c.capabilities # {}

CoverageSupported(entry, calls, grants) ==
  \/ \E c \in calls : CallSupports(entry, c)
  \/ grants = {}
  \/ ~Reconcilable(entry, calls)

(* reconcile: both directions of what changed, and what was examined.        *)
Reconciles(envelope, mutations, calls, grants) ==
  /\ ArtifactsAccounted(envelope.changed, mutations)
  /\ \A entry \in envelope.coverage : CoverageSupported(entry, calls, grants)

-----------------------------------------------------------------------------
(* selectForVerification: why an item of evidence is looked at, before the   *)
(* sampling; "" when it is left to the sample.  Nothing contradicts an       *)
(* existing assertion: the kernel passes none.                               *)
AlwaysVerified(envelope, e) ==
  CASE ~e.reproducible \/ e.op = NoTool -> "DECLARED_UNREPRODUCIBLE"
    [] \E f \in envelope.findings : f.weighty /\ e.id \in f.evidence ->
         "ALWAYS_CRITICAL_FINDING"
    [] \E p \in envelope.proposals :
         p.key = "authorization_request" /\ e.id \in p.evidence ->
         "ALWAYS_AUTHORIZATION"
    [] \E v \in envelope.verdicts : v.verdict = "MET" /\ e.id \in v.evidence ->
         "ALWAYS_DOD_MET"
    [] OTHER -> ""

Sampled(envelope) == {e \in envelope.evidence : AlwaysVerified(envelope, e) = ""}

Wanted(n) ==
  LET share == (n + SampleShare - 1) \div SampleShare
  IN  IF n = 0 THEN 0 ELSE IF share > SampleMinimum THEN share ELSE SampleMinimum

(* The samples the random draws can leave picked.                            *)
Samples(envelope) ==
  {S \in SUBSET Sampled(envelope) :
     Cardinality(S) = IF Wanted(Cardinality(Sampled(envelope))) > Cardinality(Sampled(envelope))
                      THEN Cardinality(Sampled(envelope))
                      ELSE Wanted(Cardinality(Sampled(envelope)))}

(* Nothing is read to settle these.                                          *)
Unread(envelope, sample) ==
  {e \in envelope.evidence :
     \/ AlwaysVerified(envelope, e) = "DECLARED_UNREPRODUCIBLE"
     \/ e \in Sampled(envelope) \ sample}

UnreadStatus(envelope, e) ==
  IF e \in Sampled(envelope) THEN "UNVERIFIED" ELSE "UNVERIFIABLE"

(* evaluatePredicate on numbers; -1 is a subject that is not there, which no *)
(* comparison of numbers holds of and which differs from every operand.      *)
EvaluatePredicate(p, value) ==
  CASE p.operator = "eq"  -> value = p.operand
    [] p.operator = "ne"  -> value # p.operand
    [] p.operator = "lt"  -> value >= 0 /\ value < p.operand
    [] p.operator = "lte" -> value >= 0 /\ value <= p.operand
    [] p.operator = "gt"  -> value >= 0 /\ value > p.operand
    [] p.operator = "gte" -> value >= 0 /\ value >= p.operand
    [] OTHER -> FALSE

(* compare: a predicate is evaluated again, anything else compared whole.    *)
Compare(e, value) ==
  IF e.kind \in NeedsPredicate THEN EvaluatePredicate(e.predicate, value)
                               ELSE value = e.excerpt

(* What looking at an item of evidence established: a screenshot by the call *)
(* that made it, anything else by its replay.                                *)
EvidenceStatus(e, calls, replay) ==
  CASE e.kind = "screenshot" ->
         IF \E c \in calls : c.tool = e.op THEN "VERIFIED" ELSE "MISMATCH"
    [] e.kind # "screenshot" /\ replay.outcome # "VALUE" -> "UNREPLAYABLE"
    [] OTHER -> IF Compare(e, replay.value) THEN "VERIFIED" ELSE "MISMATCH"

Refuted(marks) == {e \in DOMAIN marks : marks[e] \in {"MISMATCH", "UNREPLAYABLE"}}

(* One fabrication is a defect; two is an agent nothing it said is kept of,  *)
(* and so is one on what backs an authorization request.                     *)
EnvelopeRejected(envelope, marks) ==
  \/ Cardinality(Refuted(marks)) >= MismatchThreshold
  \/ /\ \E e \in Refuted(marks) : AlwaysVerified(envelope, e) = "ALWAYS_AUTHORIZATION"
     /\ Cardinality(Refuted(marks)) >= AuthorizationThreshold

(* A finding all of whose evidence was refuted.                              *)
DemotedFindings(envelope, marks) ==
  {f \in envelope.findings :
     \A e \in DOMAIN marks : e.id \in f.evidence => e \in Refuted(marks)}

(* A FACT no verified evidence supports: downgraded, and journalled.         *)
UnsupportedFacts(envelope, marks) ==
  {f \in envelope.findings :
     f.fact /\ \A e \in DOMAIN marks : e.id \in f.evidence => marks[e] # "VERIFIED"}
=============================================================================
