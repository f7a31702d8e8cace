---------------------------- MODULE PrologueProofs ----------------------------
(***************************************************************************)
(* Proofs about Prologue, for every policy, proposal, world and way the    *)
(* worlds follow one another.  What a predicate says of a partial reading  *)
(* it says of a world the reading is of (PredicatesAreMonotone), and so    *)
(* what is evaluated fresh was true at a moment since the run began to     *)
(* read (FreshWasTrue); on that rest what is left out of a workflow, what  *)
(* of the floor it owes, and which stages are passed.  The invariant is    *)
(* PInv.                                                                   *)
(***************************************************************************)
EXTENDS Prologue, FiniteSetTheorems, WellFoundedInduction, TLAPS

-----------------------------------------------------------------------------
(* What is read of an element is what was so of it, or nothing.              *)

Values == {"TRUE", "FALSE", "INDETERMINATE"}

Tells(a, b) == a.known => b.known /\ b.present = a.present /\ b.is = a.is

Consistent(r) ==
  r["pr"].known /\ r["merge_state"].known =>
    (r["pr"].is.state = "MERGED" <=> r["merge_state"].is.state = "MERGED")

Merging == "reality.pr_merged"

LEMMA UnreadTells == \A b : Tells(Unread, b)
  BY DEF Tells, Unread

LEMMA AgedTells == \A a, b : Tells(a, b) => Tells(Aged(a), b)
  BY DEF Tells, Aged

LEMMA SelfTells == \A a : Tells(a, a)
  BY DEF Tells

LEMMA ElementsRead ==
  ASSUME NEW p \in ReadPredicates
  PROVE  RealityElement(p) \in Elements \cup {"none"}
  BY DEF ReadPredicates, RealityElement, Elements

(* What is asked of reality is told by the element that is probed for it.    *)
AskedAlike(p, in, truth) ==
  /\ truth.scope = in.scope /\ truth.capabilities = in.capabilities /\ truth.stage = in.stage
  /\ RealityElement(p) = "none" =>
       /\ truth.sections = in.sections /\ truth.surfaces = in.surfaces
       /\ truth.boundaries = in.boundaries
  /\ RealityElement(p) # "none" =>
       Tells(in.reality[RealityElement(p)], truth.reality[RealityElement(p)])

(* A predicate over one element, that says anything of what was read, says
   what was so.                                                              *)
LEMMA PredicatesAreMonotone ==
  ASSUME NEW p \in ReadPredicates, p # Merging, NEW in, NEW truth, AskedAlike(p, in, truth)
  PROVE  /\ EvaluatePredicate(p, in) \in Values
         /\ EvaluatePredicate(p, in) # "INDETERMINATE"
              => EvaluatePredicate(p, truth) = EvaluatePredicate(p, in)
<1> DEFINE r == in.reality
           t == truth.reality
<1> USE DEF Values, Given, Decided, AssertionTruth
<1>3. CASE p = "audit.applicable"
  <2>1. EvaluatePredicate(p, in) = AuditApplicable(in) /\ EvaluatePredicate(p, truth) = AuditApplicable(truth)
    BY <1>3 DEF EvaluatePredicate
  <2>2. RealityElement(p) = "none"
    BY <1>3 DEF RealityElement
  <2> QED
    BY <2>1, <2>2 DEF AuditApplicable, AskedAlike
<1>4. CASE p = "architecture.required"
  <2>1. EvaluatePredicate(p, in) = ArchitectureRequired(in) /\ EvaluatePredicate(p, truth) = ArchitectureRequired(truth)
    BY <1>4 DEF EvaluatePredicate
  <2>2. RealityElement(p) = "none"
    BY <1>4 DEF RealityElement
  <2> QED
    BY <2>1, <2>2 DEF ArchitectureRequired, AskedAlike
<1>5. CASE p = "ux.required"
  <2>1. EvaluatePredicate(p, in) = UxRequired(in) /\ EvaluatePredicate(p, truth) = UxRequired(truth)
    BY <1>5 DEF EvaluatePredicate
  <2>2. RealityElement(p) = "none"
    BY <1>5 DEF RealityElement
  <2> QED
    BY <2>1, <2>2 DEF UxRequired, AskedAlike
<1>6. CASE p = "production.applicable"
  <2>1. EvaluatePredicate(p, in) = ProductionApplicable(in) /\ EvaluatePredicate(p, truth) = ProductionApplicable(truth)
    BY <1>6 DEF EvaluatePredicate
  <2>2. RealityElement(p) = "none"
    BY <1>6 DEF RealityElement
  <2> QED
    BY <2>1, <2>2 DEF ProductionApplicable, AskedAlike
<1>7. CASE p = "regression.suspected"
  <2>1. EvaluatePredicate(p, in) = RegressionSuspected(in) /\ EvaluatePredicate(p, truth) = RegressionSuspected(truth)
    BY <1>7 DEF EvaluatePredicate
  <2>2. Tells(r["outcome_evidence"], t["outcome_evidence"])
    BY <1>7 DEF RealityElement, AskedAlike
  <2> QED
    BY <2>1, <2>2 DEF RegressionSuspected, Tells, AskedAlike
<1>8. CASE p = "reality.pr_open"
  <2>1. EvaluatePredicate(p, in) = PrOpen(r) /\ EvaluatePredicate(p, truth) = PrOpen(t)
    BY <1>8 DEF EvaluatePredicate
  <2>2. Tells(r["pr"], t["pr"])
    BY <1>8 DEF RealityElement, AskedAlike
  <2> QED
    BY <2>1, <2>2 DEF PrOpen, Tells, Field
<1>9. CASE p = "reality.pr_approved"
  <2>1. EvaluatePredicate(p, in) = PrApproved(r) /\ EvaluatePredicate(p, truth) = PrApproved(t)
    BY <1>9 DEF EvaluatePredicate
  <2>2. Tells(r["reviews"], t["reviews"])
    BY <1>9 DEF RealityElement, AskedAlike
  <2> QED
    BY <2>1, <2>2 DEF PrApproved, Tells
<1>10. CASE p = "reality.pr_reviewed"
  <2>1. EvaluatePredicate(p, in) = PrReviewed(r) /\ EvaluatePredicate(p, truth) = PrReviewed(t)
    BY <1>10 DEF EvaluatePredicate
  <2>2. Tells(r["reviews"], t["reviews"])
    BY <1>10 DEF RealityElement, AskedAlike
  <2> QED
    BY <2>1, <2>2 DEF PrReviewed, Tells
<1>11. CASE p = "reality.pr_has_unresolved_comments"
  <2>1. EvaluatePredicate(p, in) = PrHasUnresolvedComments(r) /\ EvaluatePredicate(p, truth) = PrHasUnresolvedComments(t)
    BY <1>11 DEF EvaluatePredicate
  <2>2. Tells(r["reviews"], t["reviews"])
    BY <1>11 DEF RealityElement, AskedAlike
  <2> QED
    BY <2>1, <2>2 DEF PrHasUnresolvedComments, Tells
<1>12. CASE p = "reality.stage_completed_previously"
  <2>1. EvaluatePredicate(p, in) = StageCompletedPreviously(in) /\ EvaluatePredicate(p, truth) = StageCompletedPreviously(truth)
    BY <1>12 DEF EvaluatePredicate
  <2>2. Tells(r["agentos_history"], t["agentos_history"])
    BY <1>12 DEF RealityElement, AskedAlike
  <2> QED
    BY <2>1, <2>2 DEF StageCompletedPreviously, Tells, AskedAlike
<1>13. CASE p = "reality.children_exist"
  <2>1. EvaluatePredicate(p, in) = ChildrenExist(r) /\ EvaluatePredicate(p, truth) = ChildrenExist(t)
    BY <1>13 DEF EvaluatePredicate
  <2>2. Tells(r["children"], t["children"])
    BY <1>13 DEF RealityElement, AskedAlike
  <2> QED
    BY <2>1, <2>2 DEF ChildrenExist, Tells
<1>14. CASE p = "reality.children_all_terminal"
  <2>1. EvaluatePredicate(p, in) = ChildrenAllTerminal(r) /\ EvaluatePredicate(p, truth) = ChildrenAllTerminal(t)
    BY <1>14 DEF EvaluatePredicate
  <2>2. Tells(r["children"], t["children"])
    BY <1>14 DEF RealityElement, AskedAlike
  <2> QED
    BY <2>1, <2>2 DEF ChildrenAllTerminal, Tells
<1>15. CASE p = "reality.deployed"
  <2>1. EvaluatePredicate(p, in) = Deployed(r) /\ EvaluatePredicate(p, truth) = Deployed(t)
    BY <1>15 DEF EvaluatePredicate
  <2>2. Tells(r["deployment"], t["deployment"])
    BY <1>15 DEF RealityElement, AskedAlike
  <2> QED
    BY <2>1, <2>2 DEF Deployed, Tells
<1>16. CASE p \in {"reality.implementation_present", "reality.tests_present",
                   "reality.outcome_already_satisfied"}
  <2>1. /\ EvaluatePredicate(p, in) = AssertionTruth(r[RealityElement(p)])
        /\ EvaluatePredicate(p, truth) = AssertionTruth(t[RealityElement(p)])
    BY <1>16 DEF EvaluatePredicate, RealityAssertionTruthy
  <2>2. Tells(r[RealityElement(p)], t[RealityElement(p)])
    BY <1>16 DEF RealityElement, AskedAlike
  <2> QED
    BY <2>1, <2>2 DEF Tells
<1> QED
  BY <1>3, <1>4, <1>5, <1>6, <1>7, <1>8, <1>9, <1>10, <1>11, <1>12, <1>13, <1>14, <1>15, <1>16 DEF ReadPredicates, Merging

(* A merge is read off two elements, which may be of different moments.      *)
LEMMA MergesAreMonotone ==
  ASSUME NEW in, NEW one, NEW other, Consistent(one.reality), Consistent(other.reality),
         Tells(in.reality["pr"], one.reality["pr"]),
         Tells(in.reality["merge_state"], other.reality["merge_state"])
  PROVE  /\ EvaluatePredicate(Merging, in) \in Values
         /\ EvaluatePredicate(Merging, in) # "INDETERMINATE" =>
              \/ EvaluatePredicate(Merging, one) = EvaluatePredicate(Merging, in)
              \/ EvaluatePredicate(Merging, other) = EvaluatePredicate(Merging, in)
<1> DEFINE r == in.reality
           s == one.reality
           t == other.reality
<1>1. /\ EvaluatePredicate(Merging, in) = PrMerged(r)
      /\ EvaluatePredicate(Merging, one) = PrMerged(s)
      /\ EvaluatePredicate(Merging, other) = PrMerged(t)
  BY DEF EvaluatePredicate, Merging
<1>2. PrMerged(r) \in Values
  BY DEF PrMerged, Given, Decided, Values
<1>3. \A x : /\ PrMerged(x) = "TRUE" <=> \/ x["pr"].known /\ x["pr"].is.state = "MERGED"
                                         \/ x["merge_state"].known /\ x["merge_state"].is.state = "MERGED"
             /\ PrMerged(x) = "FALSE" <=> /\ x["pr"].known \/ x["merge_state"].known
                                          /\ x["pr"].known => x["pr"].is.state # "MERGED"
                                          /\ x["merge_state"].known => x["merge_state"].is.state # "MERGED"
  BY DEF PrMerged, Given, Decided, Field
<1> HIDE DEF r, s, t
<1>4. CASE PrMerged(r) = "TRUE"
  <2>1. \/ r["pr"].known /\ r["pr"].is.state = "MERGED"
        \/ r["merge_state"].known /\ r["merge_state"].is.state = "MERGED"
    BY <1>3, <1>4
  <2>2. \/ s["pr"].known /\ s["pr"].is.state = "MERGED"
        \/ t["merge_state"].known /\ t["merge_state"].is.state = "MERGED"
    BY <2>1 DEF Tells, r, s, t
  <2>3. PrMerged(s) = "TRUE" \/ PrMerged(t) = "TRUE"
    BY <1>3, <2>2
  <2> QED
    BY <1>1, <1>2, <1>4, <2>3
<1>5. CASE PrMerged(r) = "FALSE"
  <2>1. /\ r["pr"].known \/ r["merge_state"].known
        /\ r["pr"].known => r["pr"].is.state # "MERGED"
        /\ r["merge_state"].known => r["merge_state"].is.state # "MERGED"
    BY <1>3, <1>5
  <2>2. \/ s["pr"].known /\ s["pr"].is.state # "MERGED"
        \/ t["merge_state"].known /\ t["merge_state"].is.state # "MERGED"
    BY <2>1 DEF Tells, r, s, t
  <2>3. PrMerged(s) = "FALSE" \/ PrMerged(t) = "FALSE"
    BY <1>3, <2>2 DEF Consistent, s, t
  <2> QED
    BY <1>1, <1>2, <1>5, <2>3
<1> QED
  BY <1>1, <1>2, <1>4, <1>5 DEF Values

(* What a run can be told of a world, by what was read of it.                *)
Told(r, w, scope, records, stage) ==
  [reality |-> r, sections |-> w.sections, surfaces |-> w.surfaces,
   boundaries |-> w.boundaries, scope |-> scope, capabilities |-> records, stage |-> stage]

Truth(p, w, scope, records, stage) ==
  EvaluatePredicate(p, Told(w.reality, w, scope, records, stage))

(* What of an element a predicate is evaluated over, fresh: what was read of
   it at moment n, or, where that is stale, got by a probe since a moment.   *)
LEMMA RefreshedTells ==
  ASSUME NEW p \in ReadPredicates, RealityElement(p) # "none", NEW ws, Len(ws) \in Nat,
         NEW since \in 1..Len(ws), NEW n \in 1..Len(ws), NEW r, NEW again,
         DOMAIN r = Elements,
         Tells(r[RealityElement(p)], ws[n].reality[RealityElement(p)]),
         IsStale(r[RealityElement(p)]) =>
           \E k \in since..Len(ws) :
             Tells(again[RealityElement(p)], ws[k].reality[RealityElement(p)])
  PROVE  \E k \in 1..Len(ws) :
           /\ k >= since \/ (k = n /\ ~IsStale(r[RealityElement(p)]))
           /\ Tells(Refreshed(p, r, again)[RealityElement(p)], ws[k].reality[RealityElement(p)])
<1> DEFINE e == RealityElement(p)
<1>1. e \in Elements /\ e # "none"
  BY ElementsRead
<1>2. Refreshed(p, r, again) = IF IsStale(r[e]) THEN [r EXCEPT ![e] = again[e]] ELSE r
  BY <1>1 DEF Refreshed
<1> HIDE DEF e
<1>3. CASE IsStale(r[e])
  <2>1. PICK k \in since..Len(ws) : Tells(again[e], ws[k].reality[e])
    BY <1>3 DEF e
  <2>2. Refreshed(p, r, again)[e] = again[e]
    BY <1>1, <1>2, <1>3
  <2>3. k \in 1..Len(ws) /\ k >= since
    BY <2>1
  <2> QED
    BY <2>1, <2>2, <2>3 DEF e
<1>4. CASE ~IsStale(r[e])
  <2>1. Refreshed(p, r, again)[e] = r[e]
    BY <1>2, <1>4
  <2> QED
    BY <1>4, <2>1 DEF e
<1> QED
  BY <1>3, <1>4

(* What predicate p, over element e, is evaluated fresh on: of e what was
   read at moment n, or, where that is stale, got by a probe since a moment;
   and all else as deepen read it.                                           *)
Basis(p, e, ws, since, n, c, again) ==
  /\ ws \in Seq(Worlds) /\ since \in 1..Len(ws) /\ n \in 1..Len(ws)
  /\ DOMAIN c.reality = Elements
  /\ c.sections = ws[1].sections /\ c.surfaces = ws[1].surfaces /\ c.boundaries = ws[1].boundaries
  /\ e # "none" => Tells(c.reality[e], ws[n].reality[e])
  /\ e # "none" /\ IsStale(c.reality[e]) =>
       \E k \in since..Len(ws) : Tells(again[e], ws[k].reality[e])
  /\ p = Merging => Tells(c.reality["merge_state"], ws[1].reality["merge_state"])

(* If it says anything, it says what was so at a moment: of the context,
   where what it reads is fresh or it reads what is never probed, or else
   since the evaluator last forgot.                                          *)
LEMMA FreshWasTrue ==
  ASSUME NEW p \in ReadPredicates, NEW e, e = RealityElement(p), NEW ws,
         NEW since, NEW n, NEW c, NEW again,
         Basis(p, e, ws, since, n, c, again), NEW scope, NEW records, NEW stage
  PROVE  LET found == EvaluateFresh(p, Told(c.reality, c, scope, records, stage), again)
         IN  /\ found \in Values
             /\ found # "INDETERMINATE" =>
                  \E k \in 1..Len(ws) :
                    /\ Truth(p, ws[k], scope, records, stage) = found
                    /\ \/ p = Merging \/ e = "none" \/ k >= since
                       \/ k = n /\ ~IsStale(c.reality[e])
<1> DEFINE r == Refreshed(p, c.reality, again)
           seen == Told(r, c, scope, records, stage)
           truth(k) == Told(ws[k].reality, ws[k], scope, records, stage)
<1>1. EvaluateFresh(p, Told(c.reality, c, scope, records, stage), again) = EvaluatePredicate(p, seen)
  BY DEF EvaluateFresh, Told
<1>2. /\ ws \in Seq(Worlds) /\ since \in 1..Len(ws) /\ n \in 1..Len(ws)
      /\ Len(ws) \in Nat /\ 1 \in 1..Len(ws) /\ \A k \in 1..Len(ws) : ws[k] \in Worlds
  <2>1. ws \in Seq(Worlds) /\ since \in 1..Len(ws) /\ n \in 1..Len(ws)
    BY DEF Basis
  <2> QED
    BY <2>1
<1>3. /\ seen.reality = r /\ seen.scope = scope /\ seen.capabilities = records
      /\ seen.stage = stage /\ seen.sections = ws[1].sections /\ seen.surfaces = ws[1].surfaces
      /\ seen.boundaries = ws[1].boundaries
  BY DEF Told, Basis
<1>4. \A k : /\ truth(k).reality = ws[k].reality /\ truth(k).scope = scope
             /\ truth(k).capabilities = records /\ truth(k).stage = stage
             /\ truth(k).sections = ws[k].sections /\ truth(k).surfaces = ws[k].surfaces
             /\ truth(k).boundaries = ws[k].boundaries
  BY DEF Told
<1>5. \A k : Truth(p, ws[k], scope, records, stage) = EvaluatePredicate(p, truth(k))
  BY DEF Truth
<1> HIDE DEF r, seen, truth
<1>6. CASE RealityElement(p) = "none"
  <2>1. p # Merging
    BY <1>6 DEF RealityElement, Merging
  <2>2. AskedAlike(p, seen, truth(1))
    BY <1>3, <1>4, <1>6 DEF AskedAlike
  <2> QED
    BY <1>1, <1>2, <1>5, <1>6, <2>1, <2>2, PredicatesAreMonotone
<1>7. CASE RealityElement(p) # "none"
  <2>1. PICK k \in 1..Len(ws) :
          /\ k >= since \/ (k = n /\ ~IsStale(c.reality[RealityElement(p)]))
          /\ Tells(r[RealityElement(p)], ws[k].reality[RealityElement(p)])
    <3>1. /\ DOMAIN c.reality = Elements
          /\ Tells(c.reality[e], ws[n].reality[e])
          /\ IsStale(c.reality[e]) => \E k \in since..Len(ws) : Tells(again[e], ws[k].reality[e])
      BY <1>7 DEF Basis
    <3> QED
      BY <1>2, <1>7, <3>1, RefreshedTells DEF r
  <2>2. CASE p # Merging
    <3>1. AskedAlike(p, seen, truth(k))
      BY <1>3, <1>4, <1>7, <2>1 DEF AskedAlike
    <3> QED
      BY <1>1, <1>5, <2>1, <2>2, <3>1, PredicatesAreMonotone
  <2>3. CASE p = Merging
    <3>1. RealityElement(p) = "pr"
      BY <2>3 DEF RealityElement, Merging
    <3>2. r["merge_state"] = c.reality["merge_state"]
      BY <3>1 DEF r, Refreshed, Elements, Basis
    <3>3. /\ Tells(seen.reality["pr"], truth(k).reality["pr"])
          /\ Tells(seen.reality["merge_state"], truth(1).reality["merge_state"])
      BY <1>3, <1>4, <2>1, <2>3, <3>1, <3>2 DEF Basis
    <3>4. \A w \in Worlds : Consistent(w.reality)
      BY PrologueAssumption DEF Consistent
    <3>5. Consistent(truth(k).reality) /\ Consistent(truth(1).reality)
      BY <1>2, <1>4, <2>1, <3>4
    <3>6. /\ EvaluatePredicate(Merging, seen) \in Values
          /\ EvaluatePredicate(Merging, seen) # "INDETERMINATE" =>
               \/ EvaluatePredicate(Merging, truth(k)) = EvaluatePredicate(Merging, seen)
               \/ EvaluatePredicate(Merging, truth(1)) = EvaluatePredicate(Merging, seen)
      BY <3>3, <3>5, MergesAreMonotone
    <3> QED
      BY <1>1, <1>2, <1>5, <2>1, <2>3, <3>6
  <2> QED
    BY <2>2, <2>3
<1> QED
  BY <1>6, <1>7

-----------------------------------------------------------------------------
(* The invariant.                                                            *)

Climbing    == {"discover", "ask"}
Deepened    == {"context", "understand"} \cup Climbing \cup PastTheLadder
Frozen      == {"sweep", "entered"}

(* The run works on what was proposed, under a type the policies know.       *)
TypeInv ==
  /\ world \in Worlds
  /\ phase \in {"identify", "admit", "lease", "deepen"} \cup Deepened => proposal \in Proposals
  /\ phase \in {"lease", "deepen"} \cup Deepened => item.type \in DOMAIN TypePolicy

(* What deepen read was so when it read, and what was probed since freshen()
   was so at a moment since.                                                 *)
Remembers(c, got, ws, since) ==
  /\ ws \in Seq(Worlds) /\ since \in 1..Len(ws)
  /\ DOMAIN c.reality = Elements
  /\ c.sections = ws[1].sections /\ c.surfaces = ws[1].surfaces /\ c.boundaries = ws[1].boundaries
  /\ \A e \in Elements : Tells(c.reality[e], ws[1].reality[e])
  /\ \A e \in DOMAIN got : e \in Elements /\ \E k \in since..Len(ws) : Tells(got[e], ws[k].reality[e])

KnowsInv ==
  /\ phase \in Deepened => /\ Remembers(context, answers, history, asked)
                           /\ history[Len(history)] = world
  /\ phase \notin Deepened => answers = <<>>

(* An urgent reading among several leaves the ladder by its question alone.  *)
Urgent == /\ "INCIDENT" \in {item.type} \cup proposal.alternatives
          /\ {item.type} \cup proposal.alternatives # {"INCIDENT"}

UrgentInv ==
  /\ phase = "discover" => ~Urgent
  /\ phase \in PastTheLadder /\ Urgent => answered

LEMMA AdmittedAs ==
  ASSUME NEW p, NEW in, AdmitWorkItem(p, in).outcome = "ADMITTED"
  PROVE  AdmitWorkItem(p, in).item.type \in {p.type, "UNKNOWN"}
  BY DEF AdmitWorkItem, AdmittedType

LEMMA TypedInit == Init => TypeInv
  BY DEF Init, TypeInv, Deepened, Climbing, PastTheLadder

LEMMA TypedStep == TypeInv /\ [Next]_vars => TypeInv'
<1> SUFFICES ASSUME TypeInv, [Next]_vars PROVE TypeInv'
  OBVIOUS
<1> USE DEF TypeInv, Deepened, Climbing, PastTheLadder, resolutionVars, readVars,
            climbVars, selectionVars, itemVars
<1>1. CASE ResolutionFails
  BY <1>1 DEF ResolutionFails, Stop
<1>2. CASE DispatchResolution
  BY <1>2 DEF DispatchResolution
<1>3. CASE ResolveIdentity
  BY <1>3 DEF ResolveIdentity
<1>4. CASE Admit
  <2>1. PICK mismatched \in SUBSET {e.id : e \in proposal.evidence} :
          LET result == AdmitWorkItem(proposal, AdmissionInput(mismatched))
          IN  \/ result.outcome = "ADMITTED" /\ item' = result.item /\ proposal' = proposal
              \/ phase' \in {"resolve", "done"}
    BY <1>4 DEF Admit, Stop
  <2>2. proposal \in Proposals /\ world' = world
    BY <1>4 DEF Admit
  <2>3. CASE phase' \in {"resolve", "done"}
    BY <2>2, <2>3
  <2>4. CASE /\ AdmitWorkItem(proposal, AdmissionInput(mismatched)).outcome = "ADMITTED"
             /\ item' = AdmitWorkItem(proposal, AdmissionInput(mismatched)).item
             /\ proposal' = proposal
    <3>1. item'.type \in {proposal.type, "UNKNOWN"}
      BY <2>4, AdmittedAs
    <3> QED
      BY <2>2, <2>4, <3>1, PrologueAssumption
  <2> QED
    BY <2>1, <2>3, <2>4
<1>5. CASE LeaseRefused
  BY <1>5 DEF LeaseRefused, Stop
<1>6. CASE AcquireLease
  BY <1>6 DEF AcquireLease
<1>7. CASE Deepen
  BY <1>7 DEF Deepen
<1>8. CASE ContextBlocked
  BY <1>8 DEF ContextBlocked, EndBlocked, Stop
<1>9. CASE ContextAccepted
  BY <1>9 DEF ContextAccepted
<1>10. CASE ComputeUnderstood
  BY <1>10 DEF ComputeUnderstood
<1>11. CASE ProbeGap
  BY <1>11 DEF ProbeGap
<1>12. CASE SettleOrAsk
  BY <1>12 DEF SettleOrAsk, RungTwoDone
<1>13. CASE HumanAnswers
  BY <1>13 DEF HumanAnswers
<1>14. CASE NobodyAnswers
  BY <1>14 DEF NobodyAnswers, EndBlocked, Stop
<1>15. CASE EvaluateOutcome
  BY <1>15 DEF EvaluateOutcome
<1>16. CASE SelectWorkflow
  BY <1>16 DEF SelectWorkflow
<1>17. CASE AskStage
  BY <1>17 DEF AskStage
<1>18. CASE SweepStages
  BY <1>18 DEF SweepStages
<1>19. CASE TargetedDiscovery
  BY <1>19 DEF TargetedDiscovery
<1>20. CASE Enter
  BY <1>20 DEF Enter, Swept
<1>21. CASE AmbiguousState
  BY <1>21 DEF AmbiguousState, EndBlocked, Stop
<1>22. CASE WorldMoves
  BY <1>22 DEF WorldMoves, Underway
<1>23. CASE WindowPasses
  BY <1>23 DEF WindowPasses, Underway
<1>24. CASE LoopEnds
  BY <1>24 DEF LoopEnds, Stop
<1>25. CASE LoopReresolves
  BY <1>25 DEF LoopReresolves
<1>26. CASE UNCHANGED vars
  BY <1>26 DEF vars
<1> QED
  BY <1>1, <1>2, <1>3, <1>4, <1>5, <1>6, <1>7, <1>8, <1>9, <1>10, <1>11, <1>12, <1>13,
     <1>14, <1>15, <1>16, <1>17, <1>18, <1>19, <1>20, <1>21, <1>22, <1>23, <1>24, <1>25,
     <1>26 DEF Next

LEMMA ProbedTells ==
  \A down : \A e \in Elements : Tells(Probed(down)[e], world.reality[e])
  BY UnreadTells, SelfTells DEF Probed

LEMMA NothingGot ==
  ASSUME NEW c, NEW got, NEW ws, NEW since, Remembers(c, got, ws, since)
  PROVE  Remembers(c, <<>>, ws, Len(ws))
<1>1. \A e \in DOMAIN <<>> : FALSE
  OBVIOUS
<1>2. ws \in Seq(Worlds) /\ since \in 1..Len(ws)
  BY DEF Remembers
<1>3. Len(ws) \in 1..Len(ws)
  BY <1>2
<1> QED
  BY <1>1, <1>3 DEF Remembers

(* What is probed now replaces what was got, or adds to it.                  *)
LEMMA GotNow ==
  ASSUME NEW c, NEW got, NEW ws, NEW since, Remembers(c, got, ws, since), NEW more,
         \A e \in DOMAIN more : e \in Elements /\ Tells(more[e], ws[Len(ws)].reality[e])
  PROVE  Remembers(c, more, ws, Len(ws))
<1>1. ws \in Seq(Worlds) /\ since \in 1..Len(ws)
  BY DEF Remembers
<1>2. Len(ws) \in 1..Len(ws) /\ Len(ws) \in Len(ws)..Len(ws)
  BY <1>1
<1> QED
  BY <1>2 DEF Remembers

LEMMA GotAlso ==
  ASSUME NEW c, NEW got, NEW ws, NEW since, Remembers(c, got, ws, since), NEW all,
         \A e \in DOMAIN all :
           \/ e \in DOMAIN got /\ all[e] = got[e]
           \/ e \in Elements /\ Tells(all[e], ws[Len(ws)].reality[e])
  PROVE  Remembers(c, all, ws, since)
<1>1. ws \in Seq(Worlds) /\ since \in 1..Len(ws)
  BY DEF Remembers
<1>2. Len(ws) \in since..Len(ws)
  BY <1>1
<1>3. \A e \in DOMAIN all : e \in Elements /\ \E k \in since..Len(ws) : Tells(all[e], ws[k].reality[e])
  <2>1. SUFFICES ASSUME NEW e \in DOMAIN all
                 PROVE  e \in Elements /\ \E k \in since..Len(ws) : Tells(all[e], ws[k].reality[e])
    OBVIOUS
  <2>2. CASE e \in DOMAIN got /\ all[e] = got[e]
    BY <2>2 DEF Remembers
  <2>3. CASE e \in Elements /\ Tells(all[e], ws[Len(ws)].reality[e])
    BY <1>2, <2>3
  <2> QED
    BY <2>1, <2>2, <2>3
<1> QED
  BY <1>3 DEF Remembers

LEMMA MovedOn ==
  ASSUME NEW c, NEW got, NEW ws, NEW since, Remembers(c, got, ws, since), NEW w \in Worlds
  PROVE  /\ Remembers(c, got, Append(ws, w), since)
         /\ Append(ws, w)[Len(Append(ws, w))] = w
<1> DEFINE more == Append(ws, w)
<1>1. ws \in Seq(Worlds) /\ since \in 1..Len(ws)
  BY DEF Remembers
<1>2. /\ more \in Seq(Worlds) /\ Len(more) = Len(ws) + 1 /\ more[Len(ws) + 1] = w
      /\ \A k \in 1..Len(ws) : more[k] = ws[k]
      /\ since \in 1..Len(more) /\ more[1] = ws[1]
  BY <1>1
<1>3. \A k \in since..Len(ws) : k \in since..Len(more) /\ more[k] = ws[k]
  BY <1>1, <1>2
<1> HIDE DEF more
<1>4. \A e \in DOMAIN got : \E k \in since..Len(more) : Tells(got[e], more[k].reality[e])
  <2>1. SUFFICES ASSUME NEW e \in DOMAIN got
                 PROVE  \E k \in since..Len(more) : Tells(got[e], more[k].reality[e])
    OBVIOUS
  <2>2. PICK k \in since..Len(ws) : Tells(got[e], ws[k].reality[e])
    BY <2>1 DEF Remembers
  <2> QED
    BY <1>3, <2>2
<1>5. Remembers(c, got, more, since)
  BY <1>2, <1>4 DEF Remembers
<1> QED
  BY <1>2, <1>5 DEF more

LEMMA GrownStale ==
  ASSUME NEW c, NEW got, NEW ws, NEW since, Remembers(c, got, ws, since), NEW window
  PROVE  Remembers(Seen([e \in Elements |-> IF e \in window THEN Aged(c.reality[e])
                                                            ELSE c.reality[e]], c),
                   got, ws, since)
<1> DEFINE r == [e \in Elements |-> IF e \in window THEN Aged(c.reality[e]) ELSE c.reality[e]]
           d == Seen(r, c)
<1>1. \A e \in Elements : r[e] = c.reality[e] \/ r[e] = Aged(c.reality[e])
  OBVIOUS
<1>2. DOMAIN r = Elements
  OBVIOUS
<1>3. /\ d.reality = r /\ d.sections = c.sections /\ d.surfaces = c.surfaces
      /\ d.boundaries = c.boundaries
  BY DEF Seen
<1> HIDE DEF r, d
<1>4. \A e \in Elements : Tells(r[e], ws[1].reality[e])
  BY <1>1, AgedTells DEF Remembers
<1>5. Remembers(d, got, ws, since)
  BY <1>2, <1>3, <1>4 DEF Remembers
<1> QED
  BY <1>5 DEF d, r

LEMMA ElementsProbed ==
  /\ ProbedBy({SatisfiedPredicate}) \subseteq Elements
  /\ ProbedBy(SelectionPredicates) \subseteq Elements
  /\ \A s \in DOMAIN SatisfiedBy : StageElements(s) \subseteq Elements
<1>1. \A P \in SUBSET ReadPredicates : ProbedBy(P) \subseteq Elements
  BY ElementsRead DEF ProbedBy
<1>2. SatisfiedPredicate \in ReadPredicates
  BY DEF SatisfiedPredicate, ReadPredicates
<1>3. \A s \in DOMAIN SatisfiedBy : {SatisfiedBy[s]} \ {NoPredicate} \subseteq ReadPredicates
  BY PrologueAssumption DEF RealityPredicates
<1> QED
  BY <1>1, <1>2, <1>3, PrologueAssumption DEF StageElements

LEMMA KnowingInit == Init => KnowsInv
  BY DEF Init, KnowsInv, Deepened, Climbing, PastTheLadder

(* Among finitely many readings an urgent one that is not alone overrides.   *)
LEMMA UrgentOverrides ==
  ASSUME TypeInv, phase = "understand", Urgent
  PROVE  EscalationOverride(item, proposal.alternatives) /\ proposal.alternatives # {}
<1> DEFINE R == {item.type} \cup proposal.alternatives
<1>1. IsFiniteSet(R)
  <2>1. IsFiniteSet(proposal.alternatives)
    BY PrologueAssumption DEF TypeInv, Deepened
  <2>2. R = proposal.alternatives \cup {item.type}
    OBVIOUS
  <2> QED
    BY <2>1, <2>2, FS_AddElement
<1>2. PICK other \in R : other # "INCIDENT"
  BY DEF Urgent
<1>3. IsFiniteSet({"INCIDENT", other}) /\ Cardinality({"INCIDENT", other}) = 2
  <2>1. IsFiniteSet({"INCIDENT"}) /\ Cardinality({"INCIDENT"}) = 1
    BY FS_Singleton
  <2>2. {"INCIDENT"} \cup {other} = {"INCIDENT", other}
    OBVIOUS
  <2>3. other \notin {"INCIDENT"}
    BY <1>2
  <2>4. /\ IsFiniteSet({"INCIDENT"} \cup {other})
        /\ Cardinality({"INCIDENT"} \cup {other}) = Cardinality({"INCIDENT"}) + 1
    BY ONLY <2>1, <2>3, FS_AddElement
  <2> QED
    BY <2>1, <2>2, <2>4
<1>4. {"INCIDENT", other} \subseteq R
  BY <1>2 DEF Urgent
<1>5. Cardinality(R) \in Nat /\ Cardinality(R) >= 2
  BY <1>1, <1>3, <1>4, FS_Subset, FS_CardinalityType
<1> QED
  BY <1>2, <1>5 DEF EscalationOverride, Readings, Urgent

LEMMA UrgentInit == Init => UrgentInv
  BY DEF Init, UrgentInv, PastTheLadder

LEMMA UrgentStep == TypeInv /\ UrgentInv /\ [Next]_vars => UrgentInv'
<1> SUFFICES ASSUME TypeInv, UrgentInv, [Next]_vars PROVE UrgentInv'
  OBVIOUS
<1> USE DEF UrgentInv, PastTheLadder, resolutionVars, readVars, climbVars, selectionVars, itemVars
<1>1. CASE phase' \notin {"discover"} \cup PastTheLadder
  BY <1>1
<1>2. CASE ComputeUnderstood
  <2>1. phase = "understand" /\ UNCHANGED <<item, proposal>>
    BY <1>2 DEF ComputeUnderstood
  <2>2. Urgent => phase' = "ask"
    <3>1. ASSUME Urgent
          PROVE  phase' = "ask"
      <4>1. EscalationOverride(item, proposal.alternatives) /\ proposal.alternatives # {}
        BY <2>1, <3>1, UrgentOverrides
      <4> QED
        BY <1>2, <4>1 DEF ComputeUnderstood, GoesUp
    <3> QED
      BY <3>1
  <2>3. Urgent' = Urgent
    BY <2>1 DEF Urgent
  <2> QED
    BY <2>2, <2>3
<1>3. CASE ProbeGap \/ SettleOrAsk
  <2>1. phase = "discover" /\ UNCHANGED <<item, proposal>>
    BY <1>3 DEF ProbeGap, SettleOrAsk, RungTwoDone
  <2> QED
    BY <2>1 DEF Urgent
<1>4. CASE HumanAnswers
  BY <1>4 DEF HumanAnswers
<1>5. CASE \/ EvaluateOutcome \/ SelectWorkflow \/ AskStage \/ SweepStages \/ TargetedDiscovery
           \/ Enter
  <2>1. phase \in PastTheLadder /\ phase' # "discover" /\ UNCHANGED <<item, proposal, answered>>
    BY <1>5 DEF EvaluateOutcome, SelectWorkflow, AskStage, SweepStages, TargetedDiscovery, Enter,
                Swept
  <2> QED
    BY <2>1 DEF Urgent
<1>6. CASE WorldMoves \/ WindowPasses \/ UNCHANGED vars
  <2>1. UNCHANGED <<phase, item, proposal, answered>>
    BY <1>6 DEF WorldMoves, WindowPasses, vars
  <2> QED
    BY <2>1 DEF Urgent
<1>7. CASE \/ ResolutionFails \/ DispatchResolution \/ ResolveIdentity \/ Admit \/ LeaseRefused
           \/ AcquireLease \/ Deepen \/ ContextBlocked \/ ContextAccepted \/ NobodyAnswers
           \/ AmbiguousState \/ LoopEnds \/ LoopReresolves
  <2>1. phase' \in {"done", "resolve", "identify", "admit", "lease", "deepen", "context", "understand"}
    BY <1>7 DEF ResolutionFails, DispatchResolution, ResolveIdentity, Admit, LeaseRefused,
       AcquireLease, Deepen, ContextBlocked, ContextAccepted, NobodyAnswers, AmbiguousState,
       LoopEnds, LoopReresolves, EndBlocked, Stop
  <2> QED
    BY <2>1, <1>1
<1> QED
  BY <1>2, <1>3, <1>4, <1>5, <1>6, <1>7 DEF Next

-----------------------------------------------------------------------------
(* The stages that are left of a workflow.                                   *)

LEMMA Least ==
  ASSUME NEW S \in SUBSET Nat, S # {}
  PROVE  \E n \in S : \A m \in S : n <= m
<1> DEFINE Below == OpToRel(<, Nat)
<1>1. IsWellFoundedOn(Below, Nat)
  BY NatLessThanWellFounded
<1>2. PICK n \in S : \A m \in S : <<m, n>> \notin Below
  <2> HIDE DEF Below
  <2> QED
    BY <1>1, WFMin
<1>3. \A m \in S : ~(m < n)
  BY <1>2 DEF OpToRel
<1> QED
  BY <1>3

Keep(sofar, stage, out) == IF stage \in out THEN sofar ELSE Append(sofar, stage)

Keeping(stages, out, upto, last) ==
  upto = [n \in 0..last |-> IF n = 0 THEN <<>> ELSE Keep(upto[n - 1], stages[n], out)]

LEMMA KeepingExists ==
  ASSUME NEW T, NEW stages \in Seq(T), NEW out
  PROVE  \E upto \in [0..Len(stages) -> Seq(T)] : Keeping(stages, out, upto, Len(stages))
<1> DEFINE Has(n) == \E upto \in [0..n -> Seq(T)] : Keeping(stages, out, upto, n)
           Bad    == {n \in 0..Len(stages) : ~Has(n)}
<1>1. SUFFICES ASSUME Bad # {} PROVE FALSE
  BY DEF Bad
<1>2. PICK n \in Bad : \A m \in Bad : n <= m
  <2>1. Bad \in SUBSET Nat
    OBVIOUS
  <2> HIDE DEF Bad
  <2> QED
    BY <2>1, <1>1, Least
<1>3. n # 0
  <2>1. Keeping(stages, out, [m \in 0..0 |-> <<>>], 0)
    BY DEF Keeping
  <2>2. [m \in 0..0 |-> <<>>] \in [0..0 -> Seq(T)]
    OBVIOUS
  <2>3. Has(0)
    BY <2>1, <2>2
  <2> QED
    BY <2>3, <1>2
<1>4. PICK upto \in [0..(n - 1) -> Seq(T)] : Keeping(stages, out, upto, n - 1)
  <2>1. Has(n - 1)
    <3> HIDE DEF Has
    <3> QED
      BY <1>2, <1>3
  <2> QED
    BY <2>1
<1>5. n \in 1..Len(stages) /\ stages[n] \in T /\ upto[n - 1] \in Seq(T)
  BY <1>2, <1>3, <1>4
<1> DEFINE next   == Keep(upto[n - 1], stages[n], out)
           longer == [m \in 0..n |-> IF m < n THEN upto[m] ELSE next]
<1>6. next \in Seq(T)
  BY <1>5 DEF Keep
<1>7. longer \in [0..n -> Seq(T)]
  <2> HIDE DEF next
  <2> QED
    BY <1>4, <1>5, <1>6
<1>8. \A m \in 0..n : longer[m] = IF m = 0 THEN <<>> ELSE Keep(longer[m - 1], stages[m], out)
  BY <1>4, <1>5 DEF Keeping
<1>9. Keeping(stages, out, longer, n)
  <2> HIDE DEF longer
  <2> QED
    BY <1>7, <1>8 DEF Keeping
<1> QED
  BY <1>2, <1>7, <1>9

Once(s) == \A i, j \in DOMAIN s : s[i] = s[j] => i = j

(* What is left of the first n stages: those not excluded, each once.        *)
Left(some, stages, out, n) ==
  /\ \A i \in DOMAIN some : some[i] \notin out /\ \E j \in 1..n : some[i] = stages[j]
  /\ \A j \in 1..n : stages[j] \notin out => \E i \in DOMAIN some : some[i] = stages[j]
  /\ Once(stages) => Once(some)

LEMMA LeftOfNone ==
  ASSUME NEW stages, NEW out
  PROVE  Left(<<>>, stages, out, 0)
  BY DEF Left, Once

LEMMA LeftOfMore ==
  ASSUME NEW T, NEW stages \in Seq(T), NEW out, NEW n \in 1..Len(stages),
         NEW some \in Seq(T), Left(some, stages, out, n - 1)
  PROVE  /\ Keep(some, stages[n], out) \in Seq(T)
         /\ Left(Keep(some, stages[n], out), stages, out, n)
<1>1. stages[n] \in T /\ DOMAIN stages = 1..Len(stages) /\ Len(stages) \in Nat
  OBVIOUS
<1>2. CASE stages[n] \in out
  <2>1. Keep(some, stages[n], out) = some
    BY <1>2 DEF Keep
  <2>2. \A j \in 1..n : stages[j] \notin out => j \in 1..(n - 1)
    BY <1>1, <1>2
  <2>3. 1..(n - 1) \subseteq 1..n
    OBVIOUS
  <2> QED
    BY <2>1, <2>2, <2>3 DEF Left
<1>3. CASE stages[n] \notin out
  <2> DEFINE more == Append(some, stages[n])
             m    == Len(some)
  <2>1. Keep(some, stages[n], out) = more
    BY <1>3 DEF Keep
  <2>2. /\ more \in Seq(T) /\ DOMAIN more = 1..(m + 1) /\ m \in Nat /\ DOMAIN some = 1..m
        /\ more[m + 1] = stages[n]
        /\ \A i \in 1..m : more[i] = some[i]
    BY <1>1
  <2> HIDE DEF more, m
  <2>3. \A i \in DOMAIN more : more[i] \notin out /\ \E j \in 1..n : more[i] = stages[j]
    <3>1. SUFFICES ASSUME NEW i \in 1..(m + 1)
                   PROVE  more[i] \notin out /\ \E j \in 1..n : more[i] = stages[j]
      BY <2>2
    <3>2. CASE i = m + 1
      BY <3>2, <2>2, <1>3
    <3>3. CASE i \in 1..m
      <4>1. PICK j \in 1..(n - 1) : some[i] = stages[j] /\ some[i] \notin out
        BY <3>3, <2>2 DEF Left
      <4> QED
        BY <4>1, <3>3, <2>2
    <3> QED
      BY <3>2, <3>3, <2>2
  <2>4. \A j \in 1..n : stages[j] \notin out => \E i \in DOMAIN more : more[i] = stages[j]
    <3>1. SUFFICES ASSUME NEW j \in 1..n, stages[j] \notin out
                   PROVE  \E i \in 1..(m + 1) : more[i] = stages[j]
      BY <2>2
    <3>2. CASE j = n
      <4>1. m + 1 \in 1..(m + 1)
        BY <2>2
      <4> QED
        BY <3>2, <4>1, <2>2
    <3>3. CASE j \in 1..(n - 1)
      <4>1. PICK i \in 1..m : some[i] = stages[j]
        BY <3>1, <3>3, <2>2 DEF Left
      <4> QED
        BY <4>1, <2>2
    <3> QED
      BY <3>2, <3>3
  <2>5. ASSUME Once(stages)
        PROVE  Once(more)
    <3>1. \A i \in 1..m : some[i] # stages[n]
      <4>1. SUFFICES ASSUME NEW i \in 1..m, some[i] = stages[n]
                     PROVE  FALSE
        OBVIOUS
      <4>2. PICK j \in 1..(n - 1) : some[i] = stages[j]
        BY <2>2 DEF Left
      <4>3. j \in DOMAIN stages /\ n \in DOMAIN stages /\ j # n
        BY <1>1
      <4> QED
        BY <4>1, <4>2, <4>3, <2>5 DEF Once
    <3>2. \A i, j \in 1..m : some[i] = some[j] => i = j
      BY <2>2, <2>5 DEF Left, Once
    <3>3. SUFFICES ASSUME NEW i \in 1..(m + 1), NEW j \in 1..(m + 1), more[i] = more[j]
                   PROVE  i = j
      BY <2>2 DEF Once
    <3>4. CASE i \in 1..m /\ j \in 1..m
      BY <3>2, <3>3, <3>4, <2>2
    <3>5. CASE i = m + 1 /\ j \in 1..m
      BY <3>1, <3>3, <3>5, <2>2
    <3>6. CASE i \in 1..m /\ j = m + 1
      BY <3>1, <3>3, <3>6, <2>2
    <3> QED
      BY <3>4, <3>5, <3>6, <2>2
  <2> QED
    BY <2>1, <2>2, <2>3, <2>4, <2>5 DEF Left
<1> QED
  BY <1>2, <1>3

(* They are the stages not excluded; each is there once where it was; and the
   last is the last of the workflow, unless that is excluded.                *)
LEMMA KeptStages ==
  ASSUME NEW T, NEW stages \in Seq(T), NEW out
  PROVE  /\ Kept(stages, out) \in Seq(T)
         /\ ToSet(Kept(stages, out)) = ToSet(stages) \ out
         /\ Once(stages) => Once(Kept(stages, out))
         /\ stages # <<>> /\ stages[Len(stages)] \notin out =>
              /\ Kept(stages, out) # <<>>
              /\ Kept(stages, out)[Len(Kept(stages, out))] = stages[Len(stages)]
<1> DEFINE chosen == CHOOSE upto : Keeping(stages, out, upto, Len(stages))
           k == Len(stages)
<1>1. Kept(stages, out) = chosen[k]
  BY DEF Kept, Keeping, Keep
<1>2. Keeping(stages, out, chosen, k)
  BY KeepingExists
<1>3. \A n \in 0..k : chosen[n] = IF n = 0 THEN <<>> ELSE Keep(chosen[n - 1], stages[n], out)
  <2> HIDE DEF chosen
  <2> QED
    BY <1>2 DEF Keeping
<1> HIDE DEF chosen
<1> DEFINE Good(n) == chosen[n] \in Seq(T) /\ Left(chosen[n], stages, out, n)
           Bad == {n \in 0..k : ~Good(n)}
<1>0. k \in Nat /\ DOMAIN stages = 1..k
  OBVIOUS
<1>4. Bad = {}
  <2>1. SUFFICES ASSUME Bad # {} PROVE FALSE
    OBVIOUS
  <2>2. PICK n \in Bad : \A m \in Bad : n <= m
    <3>1. Bad \in SUBSET Nat
      OBVIOUS
    <3> HIDE DEF Bad
    <3> QED
      BY <2>1, <3>1, Least
  <2>3. n # 0
    <3>1. chosen[0] = <<>>
      <4>1. 0 \in 0..k
        BY <1>0
      <4> HIDE DEF k
      <4> QED
        BY <4>1, <1>3
    <3>2. Good(0)
      BY <3>1, LeftOfNone
    <3> HIDE DEF Good
    <3> QED
      BY <2>2, <3>2
  <2>4. n \in 1..k /\ Good(n - 1)
    <3> HIDE DEF Good
    <3> QED
      BY <1>0, <2>2, <2>3
  <2>5. Good(n)
    <3>1. chosen[n] = Keep(chosen[n - 1], stages[n], out)
      <4> HIDE DEF k
      <4> QED
        BY <1>0, <1>3, <2>4
    <3> QED
      BY <3>1, <2>4, LeftOfMore
  <2> HIDE DEF Good
  <2> QED
    BY <2>2, <2>5
<1>5. \A n \in 0..k : Good(n)
  <2> HIDE DEF Good
  <2> QED
    BY <1>4
<1> DEFINE kept == chosen[k]
<1>6. kept \in Seq(T) /\ Left(kept, stages, out, k)
  BY <1>0, <1>5
<1>7. ASSUME stages # <<>>, stages[k] \notin out
      PROVE  kept # <<>> /\ kept[Len(kept)] = stages[k]
  <2> DEFINE before == chosen[k - 1]
  <2>1. k \in 1..k /\ k - 1 \in 0..k /\ k \in 0..k /\ k # 0
    BY <1>0, <1>7
  <2>2. before \in Seq(T) /\ stages[k] \in T
    BY <2>1, <1>5
  <2>3. kept = Append(before, stages[k])
    <3>1. kept = Keep(before, stages[k], out)
      <4> HIDE DEF k
      <4> QED
        BY <1>3, <2>1
    <3> QED
      BY <3>1, <1>7 DEF Keep
  <2> HIDE DEF kept, before, k
  <2> QED
    BY <2>2, <2>3
<1> HIDE DEF kept
<1>8. ToSet(kept) = ToSet(stages) \ out
  <2> HIDE DEF k
  <2>1. \A x \in ToSet(kept) : x \in ToSet(stages) /\ x \notin out
    BY <1>0, <1>6 DEF Left, ToSet
  <2>2. \A x \in ToSet(stages) : x \notin out => x \in ToSet(kept)
    BY <1>0, <1>6 DEF Left, ToSet
  <2> QED
    BY <2>1, <2>2
<1> QED
  BY <1>1, <1>6, <1>7, <1>8 DEF Left, kept

-----------------------------------------------------------------------------
(* The graph that is frozen.                                                 *)

(* It was false at one of these moments.                                     *)
WasSo(p, ws, scope, records, s) ==
  \E k \in 1..Len(ws) : Truth(p, ws[k], scope, records, s) = "FALSE"

(* What a floor has to assume: all that was true all along.                  *)
Held(ws, scope, records) ==
  [p \in SelectionPredicates |->
     IF WasSo(p, ws, scope, records, NoStageAsked) THEN "FALSE" ELSE "TRUE"]

(* Its stages are described, each there once, and COMPLETION is the last.    *)
Ordered(stages) ==
  /\ stages \in Seq(DOMAIN SatisfiedBy) /\ Once(stages)
  /\ stages # <<>> /\ stages[Len(stages)] = "COMPLETION"

Sound(g, type, ws, scope, records) ==
  /\ WellFormed(g)
  /\ \A s \in g.excluded : WasSo(Applicability[s], ws, scope, records, s)
  /\ Mutating \cap StageSet(g) # {} => FloorHolds(g, {type}, Held(ws, scope, records))
  /\ Ordered(g.stages)

LEMMA TemplateStages ==
  ASSUME NEW t \in ToSet(Templates)
  PROVE  /\ TemplateLoads(t)
         /\ t.stages \in Seq(DOMAIN SatisfiedBy \cap DOMAIN Applicability) /\ Once(t.stages)
         /\ t.stages # <<>> /\ t.stages[Len(t.stages)] = "COMPLETION"
<1>1. PICK i \in DOMAIN Templates : t = Templates[i]
  BY DEF ToSet
<1> QED
  BY <1>1, TemplatesLoad, PrologueAssumption DEF Once

LEMMA InvestigationIsTemplate ==
  /\ InvestigationReadonly \in ToSet(Templates)
<1>1. PICK i \in DOMAIN Templates : Templates[i].id = "investigation.readonly"
  BY TemplatesLoad
<1>2. Templates[i] \in ById("investigation.readonly")
  BY <1>1 DEF ById, ToSet
<1>3. InvestigationReadonly \in ById("investigation.readonly")
  BY <1>2 DEF InvestigationReadonly
<1> QED
  BY <1>3 DEF ById

LEMMA FallbackIsTemplate ==
  ASSUME NEW type
  PROVE  Fallback(type) \in ToSet(Templates)
<1> DEFINE admissible == AdmissibleTemplatesFor(type)
           supersets  == {i \in DOMAIN Templates :
                            /\ Templates[i] \in admissible
                            /\ \A o \in admissible : StageSet(o) \subseteq StageSet(Templates[i])}
           first      == CHOOSE i \in supersets : \A j \in supersets : i <= j
<1>1. Fallback(type) = IF supersets # {} THEN Templates[first] ELSE InvestigationReadonly
  BY DEF Fallback, MostConservative
<1>2. ASSUME supersets # {}
      PROVE  Templates[first] \in ToSet(Templates)
  <2>1. supersets \in SUBSET Nat /\ supersets \subseteq DOMAIN Templates
    BY PrologueAssumption
  <2> HIDE DEF supersets
  <2>2. first \in supersets
    BY <1>2, <2>1, Least
  <2> HIDE DEF first
  <2> QED
    BY <2>1, <2>2 DEF ToSet
<1> QED
  BY <1>1, <1>2, InvestigationIsTemplate

(* What a graph is apart from its entry, stages and edges is never asked.    *)
LEMMA SameGraph ==
  ASSUME NEW g, NEW h, g.entry = h.entry, g.stages = h.stages, g.edges = h.edges
  PROVE  /\ WellFormed(g) => WellFormed(h)
         /\ \A types, val : FloorHolds(g, types, val) => FloorHolds(h, types, val)
<1>1. StageSet(g) = StageSet(h) /\ Reachable(g) = Reachable(h)
  BY DEF StageSet, Reachable
<1>2. \A kinds : Walked(g, kinds) = Walked(h, kinds)
  BY DEF Walked
<1>3. \A node : Branches(g, node) = Branches(h, node)
  BY DEF Branches
<1>4. BranchesArePairs(g) => BranchesArePairs(h)
  BY <1>2, <1>3 DEF BranchesArePairs
<1>5. \A s : Position(g, s) = Position(h, s)
  BY DEF Position
<1>6. ForwardEdgesGoForward(g) => ForwardEdgesGoForward(h)
  BY <1>1, <1>2, <1>5 DEF ForwardEdgesGoForward
<1>7. WellFormed(g) => WellFormed(h)
  BY <1>1, <1>4, <1>6 DEF WellFormed
<1>8. \A s, t : Dominates(g, s, t) <=> Dominates(h, s, t)
  BY <1>2 DEF Dominates
<1>9. \A s, t : PostDominates(g, s, t) <=> PostDominates(h, s, t)
  BY <1>2 DEF PostDominates
<1>10. \A r : RequirementHolds(r, g) <=> RequirementHolds(r, h)
  BY <1>1, <1>8, <1>9 DEF RequirementHolds
<1>11. \A trigger, types, val : Triggered(trigger, g, types, val) <=> Triggered(trigger, h, types, val)
  BY <1>1 DEF Triggered
<1>12. \A types, val : FloorHolds(g, types, val) => FloorHolds(h, types, val)
  BY <1>1, <1>10, <1>11 DEF FloorHolds
<1> QED
  BY <1>7, <1>12

(* The floor over what could be read is the floor over what is true, where
   nothing is read to be false that is not.                                  *)
LEMMA FloorOverTruth ==
  ASSUME NEW g, NEW types, NEW val, NEW truth, FloorHolds(g, types, val),
         DOMAIN truth = DOMAIN val,
         \A p \in DOMAIN val : val[p] = "FALSE" => truth[p] = "FALSE"
  PROVE  FloorHolds(g, types, truth)
<1>1. \A rule \in FloorRules :
        Triggered(rule.trigger, g, types, truth) => Triggered(rule.trigger, g, types, val)
  BY DEF Triggered
<1> QED
  BY <1>1 DEF FloorHolds

LEMMA Reduced ==
  ASSUME NEW t \in ToSet(Templates), NEW out, "COMPLETION" \notin out
  PROVE  LET g == WithoutStages(GraphOf(t), out)
         IN  /\ g.stages = Kept(t.stages, out) /\ Ordered(g.stages)
             /\ StageSet(g) = StageSet(t) \ out
             /\ g.entry = IF t.entry \in out THEN g.stages[1] ELSE t.entry
<1> DEFINE S == DOMAIN SatisfiedBy \cap DOMAIN Applicability
           kept == Kept(t.stages, out)
<1>1. /\ t.stages \in Seq(S) /\ Once(t.stages)
      /\ t.stages # <<>> /\ t.stages[Len(t.stages)] = "COMPLETION"
  BY TemplateStages
<1>2. /\ kept \in Seq(S) /\ ToSet(kept) = ToSet(t.stages) \ out /\ Once(kept)
      /\ kept # <<>> /\ kept[Len(kept)] = "COMPLETION"
  BY <1>1, KeptStages
<1>3. GraphOf(t).stages = t.stages /\ GraphOf(t).entry = t.entry
  BY DEF GraphOf
<1> HIDE DEF kept
<1>4. /\ WithoutStages(GraphOf(t), out).stages = kept
      /\ WithoutStages(GraphOf(t), out).entry = IF t.entry \in out THEN kept[1] ELSE t.entry
  BY <1>2, <1>3 DEF WithoutStages, kept
<1>5. Ordered(kept)
  <2>1. kept \in Seq(DOMAIN SatisfiedBy)
    BY <1>2
  <2> QED
    BY <1>2, <2>1 DEF Ordered
<1> QED
  BY <1>2, <1>4, <1>5 DEF StageSet, kept

LEMMA WholeGraph ==
  ASSUME NEW t \in ToSet(Templates)
  PROVE  LET g == WithoutStages(GraphOf(t), {})
         IN  /\ g.stages = Kept(t.stages, {}) /\ Ordered(g.stages)
             /\ StageSet(g) = StageSet(t) /\ g.entry = t.entry
<1>1. "COMPLETION" \notin {} /\ StageSet(t) \ {} = StageSet(t) /\ t.entry \notin {}
  OBVIOUS
<1> QED
  BY <1>1, Reduced

LEMMA FirstIsOne ==
  ASSUME NEW T, NEW s \in Seq(T), s # <<>>
  PROVE  s[1] \in ToSet(s)
  BY DEF ToSet

LEMMA FrozenAs ==
  ASSUME NEW t, NEW out, NEW mandates
  PROVE  LET g == WithoutStages(GraphOf(t), out)
             f == Freeze(t, out, mandates)
         IN  f.entry = g.entry /\ f.stages = g.stages /\ f.edges = g.edges /\ f.excluded = out
  BY DEF Freeze

LEMMA NothingLeftOut ==
  ASSUME NEW t \in ToSet(Templates)
  PROVE  WellFormed(WithoutStages(GraphOf(t), {}))
<1> DEFINE groups == ExclusionGroups(t)
           sets   == {groups[p] : p \in DOMAIN groups}
<1>1. {} \in ExclusionSubsets(sets)
  <2>1. {} \in SUBSET sets /\ UNION {} = {}
    OBVIOUS
  <2> QED
    BY <2>1 DEF ExclusionSubsets
<1>2. \A out \in ExclusionSubsets(sets) : WellFormed(WithoutStages(GraphOf(t), out))
  BY TemplateStages DEF TemplateLoads, GraphOf
<1> QED
  BY <1>1, <1>2

LEMMA FallbackSound ==
  ASSUME NEW type \in DOMAIN TypePolicy, NEW ws, NEW scope, NEW records
  PROVE  Sound(Freeze(Fallback(type), {}, <<>>), type, ws, scope, records)
<1> DEFINE t == Fallback(type)
           g == WithoutStages(GraphOf(t), {})
           f == Freeze(t, {}, <<>>)
           truth == Held(ws, scope, records)
           owed  == [p \in SelectionPredicates |-> "TRUE"]
<1>1. t \in ToSet(Templates)
  BY FallbackIsTemplate
<1>2. Mutating \cap StageSet(t) # {} => FloorHolds(g, {type}, owed)
  BY PrologueAssumption
<1>3. f.entry = g.entry /\ f.stages = g.stages /\ f.edges = g.edges /\ f.excluded = {}
  BY FrozenAs
<1>4. Ordered(g.stages) /\ StageSet(g) = StageSet(t)
  BY <1>1, Reduced
<1>5. WellFormed(g)
  BY <1>1, NothingLeftOut
<1>6. FloorHolds(g, {type}, owed) => FloorHolds(g, {type}, truth)
  <2>1. DOMAIN truth = DOMAIN owed /\ \A p \in DOMAIN owed : owed[p] = "FALSE" => truth[p] = "FALSE"
    BY DEF Held
  <2> HIDE DEF truth, owed, g
  <2> QED
    BY <2>1, FloorOverTruth
<1> HIDE DEF t, g, f, truth, owed
<1>7. WellFormed(f) /\ (FloorHolds(g, {type}, truth) => FloorHolds(f, {type}, truth))
  BY <1>3, <1>5, SameGraph
<1>8. StageSet(f) = StageSet(t)
  BY <1>3, <1>4 DEF StageSet
<1>9. Sound(f, type, ws, scope, records)
  BY <1>2, <1>3, <1>4, <1>6, <1>7, <1>8 DEF Sound, truth
<1> QED
  BY <1>9 DEF f, t

(* A proposal that holds leaves nothing out that is not truly not asked for. *)
LEMMA ProposalSound ==
  ASSUME NEW proposed, NEW about, NEW ws, NEW records, NEW val,
         NEW t \in ById(proposed.template),
         ProposalHolds(t, proposed, about, val),
         DOMAIN val = SelectionPredicates,
         \A p \in SelectionPredicates : val[p] = "FALSE" =>
            \A s : WasSo(p, ws, about.scope, records, s)
  PROVE  Sound(Freeze(t, ExcludedStages(t, proposed.exclude, val), proposed.mandates),
               about.type, ws, about.scope, records)
<1> DEFINE out == ExcludedStages(t, proposed.exclude, val)
           g == WithoutStages(GraphOf(t), out)
           h == CheckedGraph(t, out)
           f == Freeze(t, out, proposed.mandates)
           truth == Held(ws, about.scope, records)
<1>1. t \in ToSet(Templates)
  BY DEF ById
<1>2. WellFormed(h) /\ FloorHolds(h, {about.type}, val)
  BY DEF ProposalHolds
<1>3. h.entry = t.entry /\ h.stages = g.stages /\ h.edges = g.edges
  BY DEF CheckedGraph, WithoutStages
<1>4. \A s \in out : /\ s \in t.optional /\ Applicability[s] \in SelectionPredicates
                     /\ val[Applicability[s]] = "FALSE"
  <2>1. SUFFICES ASSUME NEW s \in out
                 PROVE  /\ s \in t.optional /\ Applicability[s] \in SelectionPredicates
                        /\ val[Applicability[s]] = "FALSE"
    OBVIOUS
  <2>2. PICK p \in DOMAIN ExclusionGroups(t) : s \in ExclusionGroups(t)[p] /\ val[p] = "FALSE"
    BY <2>1 DEF ExcludedStages, AskedToExclude, Excludable
  <2>3. p # NoPredicate /\ s \in t.optional /\ Applicability[s] = p
    BY <2>2 DEF ExclusionGroups
  <2>4. s \in DOMAIN Applicability
    <3>1. t.optional \subseteq ToSet(t.stages)
      BY <1>1, TemplateStages DEF TemplateLoads, StageSet
    <3>2. ToSet(t.stages) \subseteq DOMAIN Applicability
      BY <1>1, TemplateStages DEF ToSet
    <3> QED
      BY <2>3, <3>1, <3>2
  <2> QED
    BY <2>2, <2>3, <2>4 DEF SelectionPredicates
<1> HIDE DEF out, h
<1>5. "COMPLETION" \notin out
  <2>1. "COMPLETION" \in ToSet(Kept(t.stages, out)) \/ Kept(t.stages, out) = <<>>
    <3>1. "COMPLETION" \in StageSet(h)
      BY <1>2 DEF WellFormed
    <3>2. g.stages = Kept(t.stages, out) \/ g.stages = <<>>
      BY DEF WithoutStages, GraphOf
    <3> QED
      BY <1>3, <3>1, <3>2 DEF StageSet, ToSet
  <2>2. Kept(t.stages, out) # <<>>
    <3>1. "COMPLETION" \in StageSet(h)
      BY <1>2 DEF WellFormed
    <3>2. Kept(t.stages, out) = <<>> => g.stages = <<>>
      BY DEF WithoutStages, GraphOf
    <3> QED
      BY <1>3, <3>1, <3>2 DEF StageSet, ToSet
  <2>3. ToSet(Kept(t.stages, out)) = ToSet(t.stages) \ out
    BY <1>1, TemplateStages, KeptStages
  <2> QED
    BY <2>1, <2>2, <2>3
<1>6. /\ Ordered(g.stages) /\ StageSet(g) = StageSet(t) \ out
      /\ g.entry = IF t.entry \in out THEN g.stages[1] ELSE t.entry
  BY <1>1, <1>5, Reduced
<1>7. f.entry = g.entry /\ f.stages = g.stages /\ f.edges = g.edges /\ f.excluded = out
  BY FrozenAs
<1> HIDE DEF g, f, truth
<1>8. t.entry \notin out
  BY <1>2, <1>3, <1>6 DEF WellFormed, StageSet
<1>9. f.entry = h.entry /\ f.stages = h.stages /\ f.edges = h.edges
  BY <1>3, <1>6, <1>7, <1>8
<1>10. WellFormed(f) /\ FloorHolds(f, {about.type}, val)
  BY <1>2, <1>9, SameGraph
<1>11. FloorHolds(f, {about.type}, truth)
  <2>1. DOMAIN truth = DOMAIN val /\ \A p \in DOMAIN val : val[p] = "FALSE" => truth[p] = "FALSE"
    BY DEF truth, Held
  <2> QED
    BY <1>10, <2>1, FloorOverTruth
<1>12. \A s \in out : WasSo(Applicability[s], ws, about.scope, records, s)
  BY <1>4
<1>13. Sound(f, about.type, ws, about.scope, records)
  BY <1>6, <1>7, <1>10, <1>11, <1>12 DEF Sound, truth
<1> QED
  BY <1>13 DEF f, out

(* What is left of any workflow when only its COMPLETION is, is a workflow.  *)
LEMMA CompletionAlone ==
  ASSUME NEW t \in ToSet(Templates)
  PROVE  LET g == WithoutStages(GraphOf(t), StageSet(t) \ {"COMPLETION"})
         IN  WellFormed(g) /\ Ordered(g.stages) /\ StageSet(g) = {"COMPLETION"}
<1> DEFINE out   == StageSet(t) \ {"COMPLETION"}
           g     == WithoutStages(GraphOf(t), out)
           whole == WithoutStages(GraphOf(t), {})
           left  == {e \in t.edges : {e.from, e.to} \cap out = {}}
           Alone(e) == e.kind = "branch" /\ {d \in left : d.from = e.from /\ d.kind = "branch"} = {e}
           Settled(e) == IF Alone(e)
                           THEN [e EXCEPT !.kind = "advance", !.when = "always", !.negated = FALSE]
                           ELSE e
           Lone(e) == e.kind = "branch" /\ {d \in t.edges : d.from = e.from /\ d.kind = "branch"} = {e}
           Plain(e) == IF Lone(e)
                           THEN [e EXCEPT !.kind = "advance", !.when = "always", !.negated = FALSE]
                           ELSE e
<1>1. WellFormed(whole) /\ "COMPLETION" \in StageSet(t)
  <2>1. WellFormed(whole) /\ StageSet(whole) = StageSet(t)
    BY NothingLeftOut, WholeGraph
  <2> QED
    BY <2>1 DEF WellFormed
<1>2. /\ g.stages = Kept(t.stages, out) /\ Ordered(g.stages) /\ StageSet(g) = {"COMPLETION"}
      /\ g.entry = IF t.entry \in out THEN g.stages[1] ELSE t.entry
  <2>1. "COMPLETION" \notin out /\ StageSet(t) \ out = {"COMPLETION"}
    BY <1>1
  <2> HIDE DEF out
  <2> QED
    BY <2>1, Reduced
<1>3. /\ whole.stages = Kept(t.stages, {}) /\ whole.entry = t.entry
      /\ StageSet(whole) = StageSet(t) /\ Kept(t.stages, {}) # <<>>
  BY WholeGraph DEF Ordered
<1>4. g.edges = {Settled(e) : e \in left}
  <2>1. Kept(t.stages, out) # <<>>
    BY <1>2 DEF Ordered
  <2> HIDE DEF out
  <2> QED
    BY <2>1 DEF WithoutStages, GraphOf
<1>5. whole.edges = {Plain(e) : e \in t.edges}
  <2>1. \A e \in t.edges : {e.from, e.to} \cap {} = {}
    OBVIOUS
  <2>2. t.edges = {e \in t.edges : {e.from, e.to} \cap {} = {}}
    BY <2>1
  <2> QED
    BY ZenonT(40), <1>3, <2>2 DEF WithoutStages, GraphOf
<1>6. /\ \A e : Settled(e).from = e.from /\ Settled(e).to = e.to
      /\ \A e : Plain(e).from = e.from /\ Plain(e).to = e.to
  OBVIOUS
<1> HIDE DEF g, whole, Settled, Plain
<1>7. \A e \in t.edges : e.from \in StageSet(t) /\ e.to \in StageSet(t) \cup Controls
  BY <1>1, <1>3, <1>5, <1>6 DEF WellFormed
<1>8. \A e \in left : e \in t.edges /\ e.from = "COMPLETION" /\ e.to \in {"COMPLETION"} \cup Controls
  BY <1>7
<1>9. g.entry = "COMPLETION" /\ g.stages[1] = "COMPLETION"
  <2>1. g.stages[1] \in StageSet(g)
    BY <1>2, FirstIsOne DEF Ordered, StageSet
  <2>2. t.entry \in StageSet(t)
    BY <1>1, <1>3 DEF WellFormed
  <2> QED
    BY <1>2, <2>1, <2>2
<1>10. \A e \in g.edges : e.from \in StageSet(g) /\ e.to \in StageSet(g) \cup Controls
  BY <1>2, <1>4, <1>6, <1>8
<1>11. StageSet(g) \subseteq Reachable(g)
  BY <1>2, <1>9 DEF Reachable, ReachableFrom
<1>12. {e.from : e \in {d \in g.edges : d.to = "COMPLETE"}} = {"COMPLETION"}
  <2>1. {e.from : e \in {d \in whole.edges : d.to = "COMPLETE"}} = {"COMPLETION"}
    BY <1>1 DEF WellFormed
  <2>2. PICK e \in t.edges : e.to = "COMPLETE" /\ e.from = "COMPLETION"
    BY <2>1, <1>5, <1>6
  <2>3. "COMPLETE" \notin out
    <3>1. \A s \in StageSet(t) : s \in DOMAIN SatisfiedBy
      BY TemplateStages DEF StageSet, ToSet
    <3> QED
      BY <3>1, PrologueAssumption DEF Controls
  <2> QED
    BY <2>2, <2>3, <1>4, <1>6, <1>8
<1>13. BranchesArePairs(g)
  <2>1. SUFFICES ASSUME NEW b \in g.edges, b.kind = "branch"
                 PROVE  \E p, n \in Branches(g, b.from) :
                          /\ Branches(g, b.from) = {p, n}
                          /\ ~p.negated /\ n.negated /\ p.when = n.when
    BY DEF BranchesArePairs, Walked
  <2>2. \A y \in left : Settled(y).kind = "branch" =>
                          y.kind = "branch" /\ ~Alone(y) /\ Settled(y) = y
    BY DEF Settled
  <2>3. PICK e \in left : b = Settled(e)
    BY <1>4
  <2>4. e.kind = "branch" /\ ~Alone(e) /\ b = e /\ e.from = "COMPLETION"
    BY <2>1, <2>2, <2>3, <1>8
  <2>5. PICK d \in left : d.from = e.from /\ d.kind = "branch" /\ d # e
    BY <2>4
  <2>6. \A y \in left : y.kind = "branch" => ~Alone(y) /\ Settled(y) = y /\ ~Lone(y) /\ Plain(y) = y
    <3>1. SUFFICES ASSUME NEW y \in left, y.kind = "branch"
                   PROVE  ~Alone(y) /\ ~Lone(y)
      BY DEF Settled, Plain
    <3>2. y.from = "COMPLETION" /\ d.from = "COMPLETION"
      BY <2>4, <2>5, <1>8
    <3>3. PICK z \in {e, d} : z # y
      BY <2>5
    <3>4. z \in left /\ z \in t.edges /\ z.from = y.from /\ z.kind = "branch"
      BY <2>4, <2>5, <3>2, <3>3
    <3> QED
      BY <3>3, <3>4
  <2>7. e \in Branches(whole, b.from) /\ d \in Branches(whole, b.from)
    <3>1. e = Plain(e) /\ d = Plain(d) /\ e \in t.edges /\ d \in t.edges
      BY <2>4, <2>5, <2>6
    <3> QED
      BY <3>1, <1>5, <2>4, <2>5 DEF Branches
  <2>8. PICK p \in Branches(whole, b.from), n \in Branches(whole, b.from) :
          /\ Branches(whole, b.from) = {p, n}
          /\ ~p.negated /\ n.negated /\ p.when = n.when
    <3>1. BranchesArePairs(whole)
      BY <1>1 DEF WellFormed
    <3>2. b.from \in {x.from : x \in Walked(whole, {"branch"})}
      BY <2>4, <2>7 DEF Branches, Walked
    <3> QED
      BY <3>1, <3>2 DEF BranchesArePairs
  <2>9. {e, d} = {p, n}
    BY <2>5, <2>7, <2>8
  <2>10. e \in Branches(g, b.from) /\ d \in Branches(g, b.from)
    <3>1. e = Settled(e) /\ d = Settled(d)
      BY <2>4, <2>5, <2>6
    <3> QED
      BY <3>1, <1>4, <2>4, <2>5 DEF Branches
  <2>11. Branches(g, b.from) \subseteq Branches(whole, b.from)
    <3>1. SUFFICES ASSUME NEW x \in g.edges, x.kind = "branch", x.from = b.from
                   PROVE  x \in Branches(whole, b.from)
      BY DEF Branches
    <3>2. PICK y \in left : x = Settled(y)
      BY <1>4
    <3>3. x = y /\ y.kind = "branch" /\ Plain(y) = y
      BY <2>2, <2>6, <3>1, <3>2
    <3> QED
      BY <3>1, <3>3, <1>5 DEF Branches
  <2>12. Branches(g, b.from) = {p, n} /\ p \in Branches(g, b.from) /\ n \in Branches(g, b.from)
    BY <2>8, <2>9, <2>10, <2>11
  <2> QED
    BY <2>8, <2>12
<1>14. ForwardEdgesGoForward(g)
  <2>1. \A e : {e.from, e.to} \subseteq StageSet(g) => e.from \in ReachableFrom(g.edges, e.to)
    BY <1>2 DEF ReachableFrom
  <2> QED
    BY <2>1 DEF ForwardEdgesGoForward
<1>15. WellFormed(g)
  BY <1>2, <1>9, <1>10, <1>11, <1>12, <1>13, <1>14 DEF WellFormed
<1> QED
  BY <1>2, <1>15 DEF g

LEMMA CompletionSound ==
  ASSUME NEW type, NEW ws, NEW scope, NEW records
  PROVE  Sound(CompletionOnly, type, ws, scope, records)
<1> DEFINE t == InvestigationReadonly
           out == StageSet(t) \ {"COMPLETION"}
           g == WithoutStages(GraphOf(t), out)
           f == CompletionOnly
<1>1. WellFormed(g) /\ Ordered(g.stages) /\ StageSet(g) = {"COMPLETION"}
  BY InvestigationIsTemplate, CompletionAlone
<1>2. f.entry = g.entry /\ f.stages = g.stages /\ f.edges = g.edges /\ f.excluded = {}
  BY DEF CompletionOnly, Freeze
<1> HIDE DEF g, f
<1>3. WellFormed(f) /\ StageSet(f) = {"COMPLETION"}
  BY <1>1, <1>2, SameGraph DEF StageSet
<1>4. "COMPLETION" \notin Mutating
  BY TemplatesLoad DEF ReadOnlyStages
<1>5. Sound(f, type, ws, scope, records)
  BY <1>1, <1>2, <1>3, <1>4 DEF Sound
<1> QED
  BY <1>5 DEF f

(* Whatever was proposed, what a run is frozen with is sound.                *)
LEMMA AdmittedSound ==
  ASSUME NEW proposed, NEW about, about.type \in DOMAIN TypePolicy, NEW satisfiedNow,
         NEW ws, NEW records, NEW val, DOMAIN val = SelectionPredicates,
         \A p \in SelectionPredicates : val[p] = "FALSE" =>
            \A s : WasSo(p, ws, about.scope, records, s)
  PROVE  Sound(AdmitWorkflow(proposed, about, satisfiedNow, val).graph,
               about.type, ws, about.scope, records)
<1> DEFINE named == IF proposed = NoProposal THEN {}
                    ELSE {t \in ById(proposed.template) : ProposalHolds(t, proposed, about, val)}
           chosen == CHOOSE t \in named : TRUE
<1>1. CASE satisfiedNow
  BY <1>1, CompletionSound DEF AdmitWorkflow, Admitted
<1>2. CASE ~satisfiedNow /\ named # {}
  <2>1. chosen \in ById(proposed.template) /\ ProposalHolds(chosen, proposed, about, val)
    BY <1>2
  <2>2. AdmitWorkflow(proposed, about, satisfiedNow, val).graph =
          Freeze(chosen, ExcludedStages(chosen, proposed.exclude, val), proposed.mandates)
    BY <1>2 DEF AdmitWorkflow, Admitted
  <2> HIDE DEF chosen
  <2> QED
    BY <2>1, <2>2, ProposalSound
<1>3. CASE ~satisfiedNow /\ named = {}
  <2>1. AdmitWorkflow(proposed, about, satisfiedNow, val).graph =
          Freeze(Fallback(about.type), {}, <<>>)
    BY <1>3 DEF AdmitWorkflow, Admitted
  <2> QED
    BY <2>1, FallbackSound
<1> QED
  BY <1>1, <1>2, <1>3

(* What is false of no stage in particular is false of every stage.          *)
LEMMA FalseOfEvery ==
  ASSUME NEW p \in ReadPredicates, NEW w, NEW scope, NEW records, NEW s,
         Truth(p, w, scope, records, NoStageAsked) = "FALSE"
  PROVE  Truth(p, w, scope, records, s) = "FALSE"
<1> DEFINE all == Told(w.reality, w, scope, records, NoStageAsked)
           one == Told(w.reality, w, scope, records, s)
<1>1. CASE p = "reality.stage_completed_previously"
  <2>1. Truth(p, w, scope, records, NoStageAsked) = StageCompletedPreviously(all)
    BY <1>1 DEF Truth, EvaluatePredicate
  <2>2. StageCompletedPreviously(all) = "INDETERMINATE"
    BY DEF StageCompletedPreviously, Given, Told
  <2> QED
    BY <2>1, <2>2
<1>2. CASE p # "reality.stage_completed_previously"
  <2>1. /\ all.reality = one.reality /\ AuditApplicable(all) = AuditApplicable(one)
        /\ ArchitectureRequired(all) = ArchitectureRequired(one)
        /\ UxRequired(all) = UxRequired(one)
        /\ ProductionApplicable(all) = ProductionApplicable(one)
        /\ RegressionSuspected(all) = RegressionSuspected(one)
    BY DEF Told, AuditApplicable, ArchitectureRequired, UxRequired, ProductionApplicable,
           RegressionSuspected
  <2> HIDE DEF all, one
  <2>2. EvaluatePredicate(p, all) = EvaluatePredicate(p, one)
    BY <1>2, <2>1 DEF EvaluatePredicate, ReadPredicates
  <2> QED
    BY <2>2 DEF Truth, all, one
<1> QED
  BY <1>1, <1>2

LEMMA WasSoOfEvery ==
  ASSUME NEW p \in ReadPredicates, NEW ws, NEW scope, NEW records, NEW s,
         WasSo(p, ws, scope, records, NoStageAsked)
  PROVE  WasSo(p, ws, scope, records, s)
  BY FalseOfEvery DEF WasSo

(* Whatever the world comes to, what was so stays so, and a graph sound.     *)
LEMMA SoundStays ==
  ASSUME NEW g, NEW type, NEW ws \in Seq(Worlds), NEW w, NEW scope, NEW records,
         w \in Worlds, Sound(g, type, ws, scope, records)
  PROVE  Sound(g, type, Append(ws, w), scope, records)
<1> DEFINE more == Append(ws, w)
<1>1. /\ Len(ws) \in Nat /\ Len(more) = Len(ws) + 1
      /\ \A k \in 1..Len(ws) : more[k] = ws[k] /\ k \in 1..Len(more)
  OBVIOUS
<1> HIDE DEF more
<1>2. \A p, s : WasSo(p, ws, scope, records, s) => WasSo(p, more, scope, records, s)
  BY <1>1 DEF WasSo
<1>3. ASSUME FloorHolds(g, {type}, Held(ws, scope, records))
      PROVE  FloorHolds(g, {type}, Held(more, scope, records))
  <2>1. /\ DOMAIN Held(more, scope, records) = DOMAIN Held(ws, scope, records)
        /\ \A p \in DOMAIN Held(ws, scope, records) :
             Held(ws, scope, records)[p] = "FALSE" => Held(more, scope, records)[p] = "FALSE"
    BY <1>2 DEF Held
  <2> QED
    BY <1>3, <2>1, FloorOverTruth
<1>4. Sound(g, type, more, scope, records)
  BY <1>2, <1>3 DEF Sound
<1> QED
  BY <1>4 DEF more

-----------------------------------------------------------------------------
(* The stages that are passed.                                               *)

Rows  == [stage : DOMAIN SatisfiedBy, value : Values, status : {"DONE", "NOT_DONE", "AMBIGUOUS"}]
Spans == [from : Nat, to : Nat]

(* What a row makes of what its stage's predicate said.                      *)
RowOf(c, s) ==
  /\ c \in Rows /\ c.stage = s
  /\ c.status = "DONE" <=> c.value = "TRUE"
  /\ c.value = "FALSE" => c.status = "NOT_DONE"
  /\ c.value = "INDETERMINATE" /\ s \in Mutating => c.status = "AMBIGUOUS"
  /\ SatisfiedBy[s] = NoPredicate => c.value = "FALSE"

When(s, l) == (IF ReadsUnprobed(SatisfiedBy[s]) THEN 1 ELSE l.from)..l.to

(* A predicate that says anything says what was so when it was looked at.    *)
LooksAt(s, value, l, ws, scope, records) ==
  /\ l \in Spans /\ l.from \in 1..Len(ws) /\ l.to \in 1..Len(ws)
  /\ SatisfiedBy[s] # NoPredicate /\ value # "INDETERMINATE" =>
       \E k \in When(s, l) : Truth(SatisfiedBy[s], ws[k], scope, records, s) = value

Classified(c, l, s, ws, scope, records) ==
  RowOf(c, s) /\ LooksAt(s, c.value, l, ws, scope, records)

LEMMA ClassifiedByValue ==
  ASSUME NEW s \in DOMAIN SatisfiedBy, NEW value \in Values, NEW discovered \in BOOLEAN,
         NEW l, NEW ws, NEW scope, NEW records,
         discovered \/ value # "INDETERMINATE" \/ s \notin Mutating,
         SatisfiedBy[s] = NoPredicate => value = "FALSE",
         LooksAt(s, value, l, ws, scope, records)
  PROVE  Classified(Classify(s, value, discovered), l, s, ws, scope, records)
<1> DEFINE c == Classify(s, value, discovered)
<1>1. /\ c.stage = s /\ c.value = value /\ c \in Rows
      /\ value = "TRUE" => c.status = "DONE"
      /\ value = "FALSE" => c.status = "NOT_DONE"
      /\ value = "INDETERMINATE" => c.status = IF discovered THEN "AMBIGUOUS" ELSE "NOT_DONE"
  BY DEF Classify, Rows, Values
<1> HIDE DEF c
<1>2. RowOf(c, s)
  BY <1>1 DEF RowOf, Values
<1> QED
  BY <1>1, <1>2 DEF Classified, c

(* What a stage's predicate says, of what was read of its element at moment
   n, or got by a probe since a moment.                                      *)
LEMMA StageValueWasTrue ==
  ASSUME NEW s \in DOMAIN SatisfiedBy, NEW p, p = SatisfiedBy[s], NEW e, e = RealityElement(p),
         NEW ws, NEW since, NEW n, NEW c, NEW again,
         p # NoPredicate => Basis(p, e, ws, since, n, c, again), NEW scope, NEW records
  PROVE  LET value == StageValue(s, Told(c.reality, c, scope, records, NoStageAsked), again)
         IN  /\ value \in Values
             /\ p = NoPredicate => value = "FALSE"
             /\ p # NoPredicate /\ value # "INDETERMINATE" =>
                  \E k \in 1..Len(ws) :
                    /\ Truth(p, ws[k], scope, records, s) = value
                    /\ p = Merging \/ k >= since \/ (k = n /\ ~IsStale(c.reality[e]))
<1>1. CASE p = NoPredicate
  BY <1>1 DEF StageValue, Values
<1>2. CASE p # NoPredicate
  <2> DEFINE value == StageValue(s, Told(c.reality, c, scope, records, NoStageAsked), again)
             found == EvaluateFresh(p, Told(c.reality, c, scope, records, s), again)
  <2>1. p \in ReadPredicates /\ e # "none"
    BY <1>2, PrologueAssumption DEF RealityPredicates
  <2>2. value = found
    <3>1. [Told(c.reality, c, scope, records, NoStageAsked) EXCEPT !.stage = s]
            = Told(c.reality, c, scope, records, s)
      BY DEF Told
    <3> QED
      BY <1>2, <3>1 DEF StageValue
  <2>3. /\ found \in Values
        /\ found # "INDETERMINATE" =>
             \E k \in 1..Len(ws) :
               /\ Truth(p, ws[k], scope, records, s) = found
               /\ p = Merging \/ e = "none" \/ k >= since \/ (k = n /\ ~IsStale(c.reality[e]))
    BY <1>2, <2>1, FreshWasTrue
  <2> HIDE DEF value, found
  <2> QED
    BY <1>2, <2>1, <2>2, <2>3 DEF value
<1> QED
  BY <1>1, <1>2

Classes(rows, spans, stages, ws, scope, records) ==
  /\ rows \in Seq(Rows) /\ spans \in Seq(Spans)
  /\ Len(spans) = Len(rows) /\ Len(rows) <= Len(stages)
  /\ \A i \in 1..Len(rows) : Classified(rows[i], spans[i], stages[i], ws, scope, records)

FrozenInv ==
  /\ phase \notin Frozen => swept = <<>> /\ looked = <<>>
  /\ phase \in Frozen =>
       /\ Sound(graph.graph, item.type, history, item.scope, registry.records)
       /\ Classes(swept, looked, graph.graph.stages, history, item.scope, registry.records)

EntryInv ==
  phase = "entered" =>
    /\ Len(swept) = Len(graph.graph.stages)
    /\ ComputeEntryStage(swept).outcome = "ENTRY"
    /\ entry = ComputeEntryStage(swept).entry

LEMMA ReadingIsTold ==
  Reading = Told(context.reality, context, item.scope, registry.records, NoStageAsked)
  BY DEF Reading, ReadingOf, Told

LEMMA ClassesStay ==
  ASSUME NEW rows, NEW spans, NEW stages, NEW ws \in Seq(Worlds), NEW w \in Worlds,
         NEW scope, NEW records, Classes(rows, spans, stages, ws, scope, records)
  PROVE  Classes(rows, spans, stages, Append(ws, w), scope, records)
<1> DEFINE more == Append(ws, w)
<1>1. /\ Len(ws) \in Nat /\ Len(more) = Len(ws) + 1
      /\ \A k \in 1..Len(ws) : more[k] = ws[k] /\ k \in 1..Len(more)
  OBVIOUS
<1> HIDE DEF more
<1>2. \A i \in 1..Len(rows) : Classified(rows[i], spans[i], stages[i], more, scope, records)
  <2>1. SUFFICES ASSUME NEW i \in 1..Len(rows)
                 PROVE  Classified(rows[i], spans[i], stages[i], more, scope, records)
    OBVIOUS
  <2> DEFINE s == stages[i]
             l == spans[i]
             value == rows[i].value
  <2>2. RowOf(rows[i], s) /\ LooksAt(s, value, l, ws, scope, records)
    BY <2>1 DEF Classes, Classified
  <2> HIDE DEF s, l, value
  <2>3. l \in Spans /\ l.from \in 1..Len(ws) /\ l.to \in 1..Len(ws)
    BY <2>2 DEF LooksAt
  <2>4. When(s, l) \subseteq 1..Len(ws)
    BY <1>1, <2>3 DEF When
  <2>5. LooksAt(s, value, l, more, scope, records)
    BY <1>1, <2>2, <2>3, <2>4 DEF LooksAt
  <2> QED
    BY <2>2, <2>5 DEF Classified, s, l, value
<1>3. Classes(rows, spans, stages, more, scope, records)
  BY <1>2 DEF Classes
<1> QED
  BY <1>3 DEF more

LEMMA ClassesOne ==
  ASSUME NEW ws, NEW scope, NEW records, NEW stages, NEW rows, NEW spans, NEW c, NEW l,
         Len(stages) \in Nat, Classes(rows, spans, stages, ws, scope, records),
         Len(rows) < Len(stages),
         Classified(c, l, stages[Len(rows) + 1], ws, scope, records)
  PROVE  Classes(Append(rows, c), Append(spans, l), stages, ws, scope, records)
<1> DEFINE more == Append(rows, c)
           wide == Append(spans, l)
           k == Len(rows)
<1>1. /\ c \in Rows /\ rows \in Seq(Rows) /\ l \in Spans /\ spans \in Seq(Spans)
      /\ Len(spans) = Len(rows)
  BY DEF Classified, Classes, RowOf, LooksAt
<1>2. /\ more \in Seq(Rows) /\ Len(more) = k + 1 /\ k \in Nat /\ more[k + 1] = c
      /\ wide \in Seq(Spans) /\ Len(wide) = k + 1 /\ wide[k + 1] = l
      /\ \A i \in 1..k : more[i] = rows[i] /\ wide[i] = spans[i]
  BY <1>1
<1> HIDE DEF more, wide, k
<1>3. SUFFICES ASSUME NEW i \in 1..(k + 1)
               PROVE  Classified(more[i], wide[i], stages[i], ws, scope, records)
  BY <1>2 DEF Classes, more, wide, k
<1>4. CASE i = k + 1
  BY <1>4, <1>2 DEF k
<1>5. CASE i \in 1..k
  BY <1>5, <1>2 DEF Classes, k
<1> QED
  BY <1>2, <1>4, <1>5

LEMMA ClassesMany ==
  ASSUME NEW ws, NEW scope, NEW records, NEW stages, NEW rows, NEW spans, NEW m \in Nat,
         NEW more, NEW wide,
         Len(stages) \in Nat, Classes(rows, spans, stages, ws, scope, records),
         Len(rows) + m <= Len(stages),
         more = [i \in 1..m |-> more[i]], wide = [i \in 1..m |-> wide[i]],
         \A i \in 1..m : Classified(more[i], wide[i], stages[Len(rows) + i], ws, scope, records)
  PROVE  Classes(rows \o more, spans \o wide, stages, ws, scope, records)
<1> DEFINE both == rows \o more
           span == spans \o wide
           k == Len(rows)
<1>1. /\ rows \in Seq(Rows) /\ more \in Seq(Rows) /\ Len(more) = m
      /\ spans \in Seq(Spans) /\ wide \in Seq(Spans) /\ Len(wide) = m /\ Len(spans) = k
  <2>1. \A i \in 1..m : more[i] \in Rows /\ wide[i] \in Spans
    BY DEF Classified, RowOf, LooksAt
  <2>2. \A T, f : f = [i \in 1..m |-> f[i]] /\ (\A i \in 1..m : f[i] \in T)
                    => f \in Seq(T) /\ Len(f) = m
    <3>1. SUFFICES ASSUME NEW T, NEW f, f = [i \in 1..m |-> f[i]], \A i \in 1..m : f[i] \in T
                   PROVE  f \in Seq(T) /\ Len(f) = m
      OBVIOUS
    <3>2. f \in [1..m -> T]
      BY <3>1
    <3> QED
      BY <3>2
  <2>3. more \in Seq(Rows) /\ Len(more) = m /\ wide \in Seq(Spans) /\ Len(wide) = m
    BY <2>1, <2>2
  <2> QED
    BY <2>3 DEF Classes, k
<1>2. /\ both \in Seq(Rows) /\ Len(both) = k + m /\ k \in Nat
      /\ span \in Seq(Spans) /\ Len(span) = k + m
      /\ \A i \in 1..k : both[i] = rows[i] /\ span[i] = spans[i]
      /\ \A i \in 1..(k + m) : i > k => both[i] = more[i - k] /\ span[i] = wide[i - k]
  BY <1>1
<1> HIDE DEF both, span, k
<1>3. SUFFICES ASSUME NEW i \in 1..(k + m)
               PROVE  Classified(both[i], span[i], stages[i], ws, scope, records)
  BY <1>2 DEF Classes, both, span, k
<1>4. CASE i > k
  <2>1. i - k \in 1..m /\ k + (i - k) = i
    BY <1>2, <1>4
  <2>2. both[i] = more[i - k] /\ span[i] = wide[i - k]
    BY <1>2, <1>4
  <2>3. Classified(more[i - k], wide[i - k], stages[k + (i - k)], ws, scope, records)
    BY <2>1 DEF k
  <2> QED
    BY <2>1, <2>2, <2>3
<1>5. CASE i \in 1..k
  BY <1>5, <1>2 DEF Classes, k
<1> QED
  BY <1>2, <1>4, <1>5

(* What the sweep makes of a stage whose element is fresh or asked for.      *)
LEMMA SeenByTheSweep ==
  ASSUME NEW s \in DOMAIN SatisfiedBy, Remembers(context, answers, history, asked), IsAsked(s)
  PROVE  LET value == StageValue(s, Reading, answers)
         IN  /\ value \in Values
             /\ SatisfiedBy[s] = NoPredicate => value = "FALSE"
             /\ LooksAt(s, value, Moments(s), history, item.scope, registry.records)
<1> DEFINE p == SatisfiedBy[s]
           e == RealityElement(p)
           l == Moments(s)
           value == StageValue(s, Told(context.reality, context, item.scope, registry.records,
                                       NoStageAsked), answers)
<1>1. history \in Seq(Worlds) /\ asked \in 1..Len(history) /\ Len(history) \in Nat
      /\ 1 \in 1..Len(history) /\ Len(history) \in 1..Len(history)
  <2>1. history \in Seq(Worlds) /\ asked \in 1..Len(history)
    BY DEF Remembers
  <2> QED
    BY <2>1
<1>2. /\ l.from \in {1, asked} /\ l.to = Len(history) /\ l \in Spans
      /\ l.from \in 1..Len(history) /\ l.to \in 1..Len(history)
  BY <1>1 DEF Moments, Spans
<1>3. p # NoPredicate => /\ p \in ReadPredicates /\ e # "none" /\ e \in Elements
                         /\ StageElements(s) = {e} /\ e \in ReadBy(p)
  <2>1. p # NoPredicate => p \in ReadPredicates /\ e # "none"
    BY PrologueAssumption DEF RealityPredicates
  <2>2. p # NoPredicate => {p} \ {NoPredicate} = {p}
    OBVIOUS
  <2> HIDE DEF e
  <2>3. ProbedBy({p}) = {e} \ {"none"}
    BY DEF ProbedBy, e
  <2> QED
    BY <2>1, <2>2, <2>3, ElementsRead DEF StageElements, ReadBy, e
<1>4. p # NoPredicate /\ ~IsStale(context.reality[e]) => l.from = 1
  BY <1>3 DEF Moments, IsStale
<1>5. p # NoPredicate => Basis(p, e, history, asked, 1, context, answers)
  <2> HIDE DEF p, e
  <2>1. "merge_state" \in Elements
    BY DEF Elements
  <2>2. p # NoPredicate /\ IsStale(context.reality[e]) => e \in DOMAIN answers
    BY <1>3 DEF IsAsked
  <2> QED
    BY <1>1, <1>3, <2>1, <2>2 DEF Remembers, Basis
<1>8. /\ value \in Values
      /\ p = NoPredicate => value = "FALSE"
      /\ p # NoPredicate /\ value # "INDETERMINATE" =>
           \E k \in 1..Len(history) :
             /\ Truth(p, history[k], item.scope, registry.records, s) = value
             /\ p = Merging \/ k >= asked \/ (k = 1 /\ ~IsStale(context.reality[e]))
  <2>1. CASE p = NoPredicate
    BY <2>1 DEF StageValue, Values
  <2>2. CASE p # NoPredicate
    <3> DEFINE first == 1
    <3>1. p = SatisfiedBy[s] /\ e = RealityElement(p)
      OBVIOUS
    <3>2. Basis(p, e, history, asked, first, context, answers)
      BY <1>5, <2>2
    <3> HIDE DEF p, e, first
    <3>3. \A v : v = StageValue(s, Told(context.reality, context, item.scope, registry.records,
                                       NoStageAsked), answers)
                  => /\ v \in Values
                     /\ v # "INDETERMINATE" =>
                          \E k \in 1..Len(history) :
                            /\ Truth(p, history[k], item.scope, registry.records, s) = v
                            /\ \/ p = Merging \/ k >= asked
                               \/ k = first /\ ~IsStale(context.reality[e])
      BY <2>2, <3>1, <3>2, StageValueWasTrue
    <3> QED
      BY <2>2, <3>3 DEF first
  <2> QED
    BY <2>1, <2>2
<1>9. value = StageValue(s, Reading, answers)
  BY ReadingIsTold
<1> HIDE DEF value, l
<1>10. p = Merging => ReadsUnprobed(p)
  BY DEF Merging, ReadsUnprobed
<1>11. ASSUME p # NoPredicate, value # "INDETERMINATE"
       PROVE  \E k \in When(s, l) : Truth(p, history[k], item.scope, registry.records, s) = value
  <2>1. PICK k \in 1..Len(history) :
          /\ Truth(p, history[k], item.scope, registry.records, s) = value
          /\ p = Merging \/ k >= asked \/ (k = 1 /\ ~IsStale(context.reality[e]))
    BY <1>8, <1>11
  <2>2. k \in When(s, l)
    <3>1. ReadsUnprobed(p) \/ k >= l.from
      BY <1>1, <1>2, <1>4, <1>10, <1>11, <2>1
    <3> QED
      BY <1>1, <1>2, <2>1, <3>1 DEF When
  <2> QED
    BY <2>1, <2>2
<1>12. LooksAt(s, value, l, history, item.scope, registry.records)
  BY <1>2, <1>11 DEF LooksAt
<1> QED
  BY <1>8, <1>9, <1>12 DEF l

LEMMA SweptStep ==
  ASSUME KnowsInv, FrozenInv, SweepStages
  PROVE  Classes(swept', looked', graph.graph.stages, history, item.scope, registry.records)
<1> DEFINE stages == graph.graph.stages
           row(i) == Classify(stages[i], StageValue(stages[i], Reading, answers), FALSE)
<1>1. /\ phase = "sweep" /\ Remembers(context, answers, history, asked)
      /\ Classes(swept, looked, stages, history, item.scope, registry.records)
      /\ Ordered(stages)
  BY DEF SweepStages, KnowsInv, FrozenInv, Frozen, Deepened, PastTheLadder, Sound
<1>2. PICK n \in (Len(swept) + 1)..Len(stages) :
        /\ \A i \in (Len(swept) + 1)..n : Settles(i)
        /\ swept' = swept \o [i \in 1..(n - Len(swept)) |-> row(Len(swept) + i)]
        /\ looked' = looked \o [i \in 1..(n - Len(swept)) |-> Moments(stages[Len(swept) + i])]
  <2>1. PICK n \in (Len(swept) + 1)..Len(stages) :
          LET passed == [i \in 1..(n - Len(swept)) |-> stages[Len(swept) + i]]
          IN  /\ \A i \in (Len(swept) + 1)..n : Settles(i)
              /\ swept' = swept \o [i \in DOMAIN passed |->
                   Classify(passed[i], StageValue(passed[i], Reading, answers), FALSE)]
              /\ looked' = looked \o [i \in DOMAIN passed |-> Moments(passed[i])]
    BY DEF SweepStages
  <2> DEFINE passed == [i \in 1..(n - Len(swept)) |-> stages[Len(swept) + i]]
  <2>2. DOMAIN passed = 1..(n - Len(swept)) /\ \A i \in DOMAIN passed : passed[i] = stages[Len(swept) + i]
    OBVIOUS
  <2> HIDE DEF passed, stages
  <2>3. /\ [i \in DOMAIN passed |-> Classify(passed[i], StageValue(passed[i], Reading, answers), FALSE)]
             = [i \in 1..(n - Len(swept)) |-> row(Len(swept) + i)]
        /\ [i \in DOMAIN passed |-> Moments(passed[i])]
             = [i \in 1..(n - Len(swept)) |-> Moments(stages[Len(swept) + i])]
    BY <2>2
  <2> QED
    BY <2>1, <2>3 DEF passed
<1>3. /\ stages \in Seq(DOMAIN SatisfiedBy) /\ Len(stages) \in Nat /\ Len(swept) \in Nat
      /\ \A i \in 1..Len(stages) : stages[i] \in DOMAIN SatisfiedBy
  BY <1>1 DEF Ordered, Classes
<1>4. \A i \in (Len(swept) + 1)..n :
        Classified(row(i), Moments(stages[i]), stages[i], history, item.scope, registry.records)
  <2>1. SUFFICES ASSUME NEW i \in (Len(swept) + 1)..n
                 PROVE  Classified(row(i), Moments(stages[i]), stages[i], history, item.scope,
                                   registry.records)
    OBVIOUS
  <2> DEFINE s == stages[i]
             value == StageValue(s, Reading, answers)
  <2>2. s \in DOMAIN SatisfiedBy
    BY <1>3
  <2>3. IsAsked(s) /\ ~NeedsDiscovery(s, value)
    BY <1>2 DEF Settles
  <2> HIDE DEF s
  <2>4. /\ value \in Values
        /\ SatisfiedBy[s] = NoPredicate => value = "FALSE"
        /\ LooksAt(s, value, Moments(s), history, item.scope, registry.records)
    BY <1>1, <2>2, <2>3, SeenByTheSweep
  <2> HIDE DEF value
  <2>5. value # "INDETERMINATE" \/ s \notin Mutating
    BY <2>3 DEF NeedsDiscovery, SaferBranch
  <2>6. Classified(Classify(s, value, FALSE), Moments(s), s, history, item.scope, registry.records)
    BY <2>2, <2>4, <2>5, ClassifiedByValue
  <2> QED
    BY <2>6 DEF value, s
<1> DEFINE m == n - Len(swept)
           more == [i \in 1..m |-> row(Len(swept) + i)]
           wide == [i \in 1..m |-> Moments(stages[Len(swept) + i])]
<1>5. m \in Nat /\ Len(swept) + m <= Len(stages)
  BY <1>2, <1>3
<1>6. \A i \in 1..m : Classified(more[i], wide[i], stages[Len(swept) + i], history, item.scope,
                                registry.records)
  <2>1. \A i \in 1..m : /\ more[i] = row(Len(swept) + i)
                        /\ wide[i] = Moments(stages[Len(swept) + i])
                        /\ Len(swept) + i \in (Len(swept) + 1)..n
    BY <1>2, <1>3
  <2> HIDE DEF row, more, wide, m
  <2> QED
    BY <2>1, <1>4
<1>7. /\ more = [i \in 1..m |-> more[i]] /\ wide = [i \in 1..m |-> wide[i]]
      /\ swept' = swept \o more /\ looked' = looked \o wide
  BY <1>2
<1> HIDE DEF stages, row, more, wide, m
<1>8. Classes(swept \o more, looked \o wide, stages, history, item.scope, registry.records)
  BY <1>1, <1>3, <1>5, <1>6, <1>7, ClassesMany
<1> QED
  BY <1>7, <1>8 DEF stages

(* What it makes of one it had probed on purpose, now.                       *)
LEMMA SeenByDiscovery ==
  ASSUME NEW s \in DOMAIN SatisfiedBy, SatisfiedBy[s] # NoPredicate,
         Remembers(context, answers, history, asked), history[Len(history)] = world,
         NEW down, NEW again, NEW got, got = Probed(down)[RealityElement(SatisfiedBy[s])]
  PROVE  LET e == RealityElement(SatisfiedBy[s])
             more == [x \in IF IsStale(got) THEN {e} ELSE {} |-> Probed(again)[x]]
             value == StageValue(s, [Reading EXCEPT !.reality[e] = got], more)
             now == [from |-> Len(history), to |-> Len(history)]
         IN  /\ value \in Values
             /\ LooksAt(s, value, now, history, item.scope, registry.records)
             /\ Remembers(context, more, history, Len(history))
<1> DEFINE p == SatisfiedBy[s]
           e == RealityElement(p)
           E == IF IsStale(got) THEN {e} ELSE {}
           more == [x \in E |-> Probed(again)[x]]
           r == [context.reality EXCEPT ![e] = got]
           c == Seen(r, context)
           now == [from |-> Len(history), to |-> Len(history)]
           last == Len(history)
           value == StageValue(s, Told(c.reality, c, item.scope, registry.records, NoStageAsked), more)
<1>1. /\ history \in Seq(Worlds) /\ last \in Nat /\ last \in 1..last /\ 1 \in 1..last
      /\ last \in last..last /\ asked \in 1..last
  <2>1. history \in Seq(Worlds) /\ asked \in 1..Len(history)
    BY DEF Remembers
  <2> QED
    BY <2>1
<1>2. p \in ReadPredicates /\ e # "none" /\ e \in Elements
  <2>1. p \in ReadPredicates /\ e # "none"
    BY PrologueAssumption DEF RealityPredicates
  <2> QED
    BY <2>1, ElementsRead
<1>3. /\ E \subseteq Elements
      /\ \A x \in Elements : Tells(Probed(again)[x], history[last].reality[x])
      /\ Tells(got, history[last].reality[e])
  BY <1>2, ProbedTells
<1>4. /\ c.reality = r /\ c.sections = context.sections /\ c.surfaces = context.surfaces
      /\ c.boundaries = context.boundaries
  BY DEF Seen
<1>5. [Reading EXCEPT !.reality[e] = got]
        = Told(c.reality, c, item.scope, registry.records, NoStageAsked)
  <2> HIDE DEF e, r, c
  <2>1. [Reading EXCEPT !.reality[e] = got] = [Reading EXCEPT !.reality = [context.reality EXCEPT ![e] = got]]
    BY DEF Reading, ReadingOf
  <2> QED
    BY <1>4, <2>1 DEF Reading, ReadingOf, Told, r
<1> HIDE DEF p, e, E
<1>6. /\ DOMAIN r = Elements /\ r[e] = got
      /\ \A x \in Elements : x # e => r[x] = context.reality[x]
  BY <1>2 DEF Remembers
<1>7. Remembers(context, more, history, last)
  <2>1. \A x \in DOMAIN more : x \in Elements /\ Tells(more[x], history[last].reality[x])
    BY <1>3
  <2> HIDE DEF more
  <2> QED
    BY <2>1, GotNow
<1>8. IsStale(got) => more[e] = Probed(again)[e] /\ Tells(more[e], history[last].reality[e])
  BY <1>2, <1>3 DEF E
<1>9. p = Merging => e = "pr"
  BY DEF Merging, RealityElement, e
<1> HIDE DEF r, c, more, last
<1>10. Basis(p, e, history, last, last, c, more)
  <2>1. /\ DOMAIN c.reality = Elements /\ c.reality[e] = got
        /\ c.sections = history[1].sections /\ c.surfaces = history[1].surfaces
        /\ c.boundaries = history[1].boundaries
    BY <1>4, <1>6 DEF Remembers
  <2>2. p = Merging => Tells(c.reality["merge_state"], history[1].reality["merge_state"])
    <3>1. "merge_state" \in Elements
      BY DEF Elements
    <3> QED
      BY <1>4, <1>6, <1>9, <3>1 DEF Remembers
  <2> QED
    BY <1>1, <1>3, <1>8, <2>1, <2>2 DEF Basis, last
<1>11. \A v : v = StageValue(s, Told(c.reality, c, item.scope, registry.records, NoStageAsked), more)
              => /\ v \in Values
                 /\ v # "INDETERMINATE" =>
                      \E k \in 1..Len(history) :
                        /\ Truth(p, history[k], item.scope, registry.records, s) = v
                        /\ p = Merging \/ k >= last \/ (k = last /\ ~IsStale(c.reality[e]))
  <2>1. p = SatisfiedBy[s] /\ e = RealityElement(p) /\ p # NoPredicate
    BY DEF p, e
  <2> QED
    BY <1>10, <2>1, StageValueWasTrue
<1>12. /\ value \in Values
       /\ value # "INDETERMINATE" =>
            \E k \in 1..last :
              /\ Truth(p, history[k], item.scope, registry.records, s) = value
              /\ p = Merging \/ k >= last
  BY <1>1, <1>11 DEF last
<1>13. p = Merging => ReadsUnprobed(p)
  BY DEF Merging, ReadsUnprobed
<1> HIDE DEF value
<1>14. LooksAt(s, value, now, history, item.scope, registry.records)
  <2>1. now \in Spans /\ now.from = last /\ now.to = last
    BY <1>1 DEF Spans, last
  <2> HIDE DEF now
  <2>2. ASSUME value # "INDETERMINATE"
        PROVE  \E k \in When(s, now) : Truth(p, history[k], item.scope, registry.records, s) = value
    <3>1. PICK k \in 1..last : /\ Truth(p, history[k], item.scope, registry.records, s) = value
                               /\ p = Merging \/ k >= last
      BY <1>12, <2>2
    <3>2. k \in When(s, now)
      BY <1>1, <1>13, <2>1, <3>1 DEF When, p
    <3> QED
      BY <3>1, <3>2
  <2> QED
    BY <1>1, <2>1, <2>2 DEF LooksAt, last, p
<1> QED
  BY <1>5, <1>7, <1>12, <1>14 DEF value, more, last, E, e, p

LEMMA DiscoveredStep ==
  ASSUME KnowsInv, FrozenInv, TargetedDiscovery
  PROVE  /\ Classes(swept', looked', graph.graph.stages, history, item.scope, registry.records)
         /\ Remembers(context, answers', history, asked')
<1> DEFINE stages == graph.graph.stages
           s == NextStage
           now == [from |-> Len(history), to |-> Len(history)]
<1>1. /\ phase = "sweep" /\ Remembers(context, answers, history, asked)
      /\ history[Len(history)] = world /\ IsAsked(s)
      /\ Classes(swept, looked, stages, history, item.scope, registry.records)
      /\ Ordered(stages) /\ Len(swept) < Len(stages)
  BY DEF TargetedDiscovery, KnowsInv, FrozenInv, Frozen, Deepened, PastTheLadder, Sound
<1>2. /\ Len(stages) \in Nat /\ Len(swept) \in Nat
      /\ s = stages[Len(swept) + 1] /\ s \in DOMAIN SatisfiedBy
  <2>1. stages \in Seq(DOMAIN SatisfiedBy) /\ Len(swept) \in Nat
    BY <1>1 DEF Ordered, Classes
  <2>2. s = stages[Len(swept) + 1]
    BY DEF NextStage
  <2> QED
    BY <1>1, <2>1, <2>2
<1>3. SatisfiedBy[s] # NoPredicate
  <2>1. NeedsDiscovery(s, StageValue(s, Reading, answers))
    BY DEF TargetedDiscovery
  <2>2. SatisfiedBy[s] = NoPredicate => StageValue(s, Reading, answers) = "FALSE"
    BY DEF StageValue
  <2> QED
    BY <2>1, <2>2 DEF NeedsDiscovery, SaferBranch
<1> HIDE DEF stages, s
<1>4. \A value, l : /\ value \in Values
                    /\ LooksAt(s, value, l, history, item.scope, registry.records)
       => Classes(Append(swept, Classify(s, value, TRUE)), Append(looked, l), stages, history,
                  item.scope, registry.records)
  <2>1. SUFFICES ASSUME NEW value \in Values, NEW l,
                        LooksAt(s, value, l, history, item.scope, registry.records)
                 PROVE  Classes(Append(swept, Classify(s, value, TRUE)), Append(looked, l), stages,
                                history, item.scope, registry.records)
    OBVIOUS
  <2>2. Classified(Classify(s, value, TRUE), l, s, history, item.scope, registry.records)
    BY <1>2, <1>3, <2>1, ClassifiedByValue
  <2> QED
    BY <1>1, <1>2, <2>2, ClassesOne
<1>5. CASE /\ swept' = Append(swept, Classify(s, "INDETERMINATE", TRUE))
           /\ looked' = Append(looked, Moments(s))
           /\ UNCHANGED <<answers, asked>>
  <2>1. LooksAt(s, "INDETERMINATE", Moments(s), history, item.scope, registry.records)
    BY <1>1, <1>2, SeenByTheSweep DEF LooksAt
  <2>2. "INDETERMINATE" \in Values
    BY DEF Values
  <2> QED
    BY <1>1, <1>4, <1>5, <2>1, <2>2 DEF stages
<1>6. CASE \E down, again \in Outages :
             LET e   == RealityElement(SatisfiedBy[s])
                 got == Probed(down)[e]
             IN  /\ answers' = [x \in IF IsStale(got) THEN {e} ELSE {} |-> Probed(again)[x]]
                 /\ swept' = Append(swept, Classify(s, Rediscovered(down, answers'), TRUE))
                 /\ asked' = Len(history) /\ looked' = Append(looked, now)
  <2> DEFINE e == RealityElement(SatisfiedBy[s])
             got(down) == Probed(down)[e]
             value(down) == StageValue(s, [Reading EXCEPT !.reality[e] = got(down)], answers')
  <2>1. PICK down \in Outages, again \in Outages :
          /\ answers' = [x \in IF IsStale(got(down)) THEN {e} ELSE {} |-> Probed(again)[x]]
          /\ swept' = Append(swept, Classify(s, Rediscovered(down, answers'), TRUE))
          /\ asked' = Len(history) /\ looked' = Append(looked, now)
    BY <1>6
  <2>2. Rediscovered(down, answers') = value(down)
    BY DEF Rediscovered, s
  <2>3. /\ value(down) \in Values
        /\ LooksAt(s, value(down), now, history, item.scope, registry.records)
        /\ Remembers(context, answers', history, Len(history))
    BY <1>1, <1>2, <1>3, <2>1, SeenByDiscovery
  <2> HIDE DEF value, now
  <2> QED
    BY <1>4, <2>1, <2>2, <2>3 DEF stages
<1> QED
  BY <1>5, <1>6 DEF TargetedDiscovery, s

LEMMA NextIsDescribed ==
  ASSUME FrozenInv, phase = "sweep", Len(swept) < Len(graph.graph.stages)
  PROVE  NextStage \in DOMAIN SatisfiedBy
<1>1. graph.graph.stages \in Seq(DOMAIN SatisfiedBy) /\ Len(swept) \in Nat
  BY DEF FrozenInv, Frozen, Sound, Ordered, Classes
<1> QED
  BY <1>1 DEF NextStage

LEMMA KnowingStep == KnowsInv /\ FrozenInv /\ TypeInv /\ [Next]_vars => KnowsInv'
<1> SUFFICES ASSUME KnowsInv, FrozenInv, TypeInv, [Next]_vars PROVE KnowsInv'
  OBVIOUS
<1> DEFINE Known  == Remembers(context, answers, history, asked) /\ history[Len(history)] = world
           Known2 == Remembers(context', answers', history', asked') /\ history'[Len(history')] = world'
<1>0. /\ phase \in Deepened => Known
      /\ phase \notin Deepened => answers = <<>>
      /\ phase' \in Deepened /\ Known2 => KnowsInv'
      /\ phase' \notin Deepened /\ answers' = <<>> => KnowsInv'
  BY DEF KnowsInv
<1> HIDE DEF Known2
<1> USE DEF Deepened, Climbing, PastTheLadder, resolutionVars, readVars, climbVars,
            selectionVars, itemVars
<1>b. ASSUME phase' \in Deepened, phase \in Deepened, UNCHANGED <<context, answers, history, asked, world>> PROVE KnowsInv'
  <2>1. Known2
    BY <1>0, <1>b DEF Known2
  <2> QED
    BY <1>0, <1>b, <2>1
<1>a. ASSUME phase' \notin Deepened, phase \notin Deepened, UNCHANGED answers PROVE KnowsInv'
  BY <1>0, <1>a
<1>1. CASE ResolutionFails
  BY <1>0, <1>1 DEF ResolutionFails, Stop, Forget
<1>2. CASE DispatchResolution
  BY <1>a, <1>2 DEF DispatchResolution
<1>3. CASE ResolveIdentity
  BY <1>a, <1>3 DEF ResolveIdentity
<1>4. CASE Admit
  <2>1. phase = "admit" /\ phase' \in {"resolve", "done", "lease"}
    BY <1>4 DEF Admit, Stop
  <2>2. answers' = answers \/ answers' = <<>>
    BY <1>4 DEF Admit, Stop, Forget
  <2> QED
    BY <1>0, <2>1, <2>2
<1>5. CASE LeaseRefused
  BY <1>0, <1>5 DEF LeaseRefused, Stop, Forget
<1>6. CASE AcquireLease
  BY <1>a, <1>6 DEF AcquireLease
<1>7. CASE Deepen
  <2>1. PICK down \in Outages : context' = Seen(Probed(down), world)
    BY <1>7 DEF Deepen
  <2>2. /\ phase = "deepen" /\ phase' = "context" /\ history' = <<world>> /\ asked' = 1
        /\ answers' = answers /\ world' = world
    BY <1>7 DEF Deepen
  <2>3. /\ history' \in Seq(Worlds) /\ Len(history') = 1 /\ history'[1] = world
        /\ asked' \in 1..Len(history')
    BY <2>2 DEF TypeInv
  <2>4. /\ context'.reality = Probed(down) /\ context'.sections = world.sections
        /\ context'.surfaces = world.surfaces /\ context'.boundaries = world.boundaries
    BY <2>1 DEF Seen
  <2>5. DOMAIN Probed(down) = Elements /\ \A e \in Elements : Tells(Probed(down)[e], world.reality[e])
    BY ProbedTells DEF Probed
  <2>6. answers' = <<>> /\ \A e \in DOMAIN <<>> : FALSE
    BY <1>0, <2>2
  <2>7. Remembers(context', answers', history', asked')
    BY <2>3, <2>4, <2>5, <2>6 DEF Remembers
  <2> QED
    BY <1>0, <2>2, <2>3, <2>7 DEF Known2
<1>8. CASE ContextBlocked
  BY <1>0, <1>8 DEF ContextBlocked, EndBlocked, Stop, Forget
<1>9. CASE ContextAccepted
  BY <1>b, <1>9 DEF ContextAccepted
<1>10. CASE ComputeUnderstood
  <2>1. /\ phase = "understand" /\ phase' \in {"outcome", "ask", "discover"}
        /\ UNCHANGED <<readVars, world>>
    BY <1>10 DEF ComputeUnderstood
  <2> QED
    BY <1>b, <2>1
<1>11. CASE ProbeGap
  BY <1>b, <1>11 DEF ProbeGap
<1>12. CASE SettleOrAsk
  BY <1>b, <1>12 DEF SettleOrAsk, RungTwoDone
<1>13. CASE HumanAnswers
  BY <1>b, <1>13 DEF HumanAnswers
<1>14. CASE NobodyAnswers
  BY <1>0, <1>14 DEF NobodyAnswers, EndBlocked, Stop, Forget
<1>15. CASE EvaluateOutcome
  <2>1. PICK down \in Outages :
          answers' = [e \in {x \in ProbedBy({SatisfiedPredicate}) : IsStale(context.reality[x])} |->
                        Probed(down)[e]]
    BY <1>15 DEF EvaluateOutcome
  <2>2. /\ phase = "outcome" /\ phase' = "select" /\ asked' = Len(history)
        /\ UNCHANGED <<context, history, world>>
    BY <1>15 DEF EvaluateOutcome
  <2>3. \A e \in DOMAIN answers' : e \in Elements /\ Tells(answers'[e], history[Len(history)].reality[e])
    BY <1>0, <2>1, <2>2, ElementsProbed, ProbedTells
  <2>4. Remembers(context', answers', history', asked')
    BY <1>0, <2>2, <2>3, GotNow
  <2> QED
    BY <1>0, <2>2, <2>4 DEF Known2
<1>16. CASE SelectWorkflow
  <2>1. /\ phase = "select" /\ phase' = "sweep" /\ answers' = <<>> /\ asked' = Len(history)
        /\ UNCHANGED <<context, history, world>>
    BY <1>16 DEF SelectWorkflow, Freshen
  <2>2. Remembers(context', answers', history', asked')
    BY <1>0, <2>1, NothingGot
  <2> QED
    BY <1>0, <2>1, <2>2 DEF Known2
<1>17. CASE AskStage
  <2>1. PICK down \in Outages : answers' = Asking(StageElements(NextStage), down)
    BY <1>17 DEF AskStage
  <2>2. /\ phase = "sweep" /\ phase' = phase /\ asked' = asked
        /\ UNCHANGED <<context, history, world>>
    BY <1>17 DEF AskStage
  <2>3. StageElements(NextStage) \subseteq Elements
    BY <1>0, <1>17, NextIsDescribed, ElementsProbed DEF AskStage
  <2>4. \A e \in DOMAIN answers' :
          \/ e \in DOMAIN answers /\ answers'[e] = answers[e]
          \/ e \in Elements /\ Tells(answers'[e], history[Len(history)].reality[e])
    BY <1>0, <2>1, <2>2, <2>3, ProbedTells DEF Asking
  <2>5. Remembers(context', answers', history', asked')
    BY <1>0, <2>2, <2>4, GotAlso
  <2> QED
    BY <1>0, <2>2, <2>5 DEF Known2
<1>18. CASE SweepStages
  BY <1>b, <1>18 DEF SweepStages
<1>19. CASE TargetedDiscovery
  <2>1. /\ phase = "sweep" /\ phase' = phase /\ UNCHANGED <<context, history, world>>
    BY <1>19 DEF TargetedDiscovery
  <2>2. Remembers(context, answers', history, asked')
    BY <1>19, DiscoveredStep
  <2> QED
    BY <1>0, <2>1, <2>2 DEF Known2
<1>20. CASE Enter
  BY <1>b, <1>20 DEF Enter, Swept
<1>21. CASE AmbiguousState
  BY <1>0, <1>21 DEF AmbiguousState, EndBlocked, Stop, Forget
<1>22. CASE WorldMoves
  <2>1. /\ phase \in Deepened /\ phase' = phase /\ world' \in Worlds
        /\ history' = Append(history, world')
        /\ UNCHANGED <<context, answers, asked>>
    BY <1>22 DEF WorldMoves, Underway
  <2>2. /\ Remembers(context, answers, Append(history, world'), asked)
        /\ Append(history, world')[Len(Append(history, world'))] = world'
    BY <1>0, <2>1, MovedOn
  <2> QED
    BY <1>0, <2>1, <2>2 DEF Known2
<1>23. CASE WindowPasses
  <2>1. PICK window \in Windows :
          context' = Seen([e \in Elements |-> IF e \in window THEN Aged(context.reality[e])
                                                             ELSE context.reality[e]], context)
    BY <1>23 DEF WindowPasses
  <2>2. /\ phase \in Deepened /\ phase' = phase /\ UNCHANGED <<answers, history, asked, world>>
    BY <1>23 DEF WindowPasses, Underway
  <2>3. Remembers(context', answers, history, asked)
    BY <1>0, <2>1, <2>2, GrownStale
  <2> QED
    BY <1>0, <2>2, <2>3 DEF Known2
<1>24. CASE LoopEnds
  BY <1>0, <1>24 DEF LoopEnds, Stop, Forget
<1>25. CASE LoopReresolves
  BY <1>0, <1>25 DEF LoopReresolves, Forget
<1>26. CASE UNCHANGED vars
  BY <1>a, <1>b, <1>26 DEF vars
<1> QED
  BY <1>1, <1>2, <1>3, <1>4, <1>5, <1>6, <1>7, <1>8, <1>9, <1>10, <1>11, <1>12, <1>13,
     <1>14, <1>15, <1>16, <1>17, <1>18, <1>19, <1>20, <1>21, <1>22, <1>23, <1>24, <1>25,
     <1>26 DEF Next

LEMMA FrozenInit == Init => FrozenInv
  BY DEF Init, FrozenInv, Frozen

LEMMA SelectedStep ==
  ASSUME TypeInv, KnowsInv, SelectWorkflow
  PROVE  Sound(graph'.graph, item.type, history, item.scope, registry.records)
<1>1. /\ phase = "select" /\ item.type \in DOMAIN TypePolicy
      /\ Remembers(context, answers, history, asked) /\ history[Len(history)] = world
  BY DEF SelectWorkflow, TypeInv, KnowsInv, Deepened, PastTheLadder
<1>2. PICK down \in Outages, proposed \in WorkflowProposals \cup {NoProposal} :
        graph' = AdmitWorkflow(proposed, item, satisfied,
                               Valuation(Asking(ProbedBy(SelectionPredicates), down)))
  BY DEF SelectWorkflow
<1> DEFINE got == Asking(ProbedBy(SelectionPredicates), down)
           val == Valuation(got)
<1>3. DOMAIN val = SelectionPredicates
  BY DEF Valuation
<1>4. Remembers(context, got, history, asked)
  <2>1. \A e \in DOMAIN got : \/ e \in DOMAIN answers /\ got[e] = answers[e]
                              \/ e \in Elements /\ Tells(got[e], history[Len(history)].reality[e])
    BY <1>1, ElementsProbed, ProbedTells DEF Asking
  <2> HIDE DEF got
  <2> QED
    BY <1>1, <2>1, GotAlso
<1>5. \A e \in ProbedBy(SelectionPredicates) : IsStale(context.reality[e]) => e \in DOMAIN got
  BY DEF Asking
<1> HIDE DEF got
<1>6. \A p \in SelectionPredicates : val[p] = "FALSE" =>
        \A s : WasSo(p, history, item.scope, registry.records, s)
  <2>1. SUFFICES ASSUME NEW p \in SelectionPredicates, val[p] = "FALSE", NEW s
                 PROVE  WasSo(p, history, item.scope, registry.records, s)
    OBVIOUS
  <2> DEFINE first == 1
             e == RealityElement(p)
  <2>2. p \in ReadPredicates
    BY PrologueAssumption
  <2>3. e # "none" => e \in Elements /\ (IsStale(context.reality[e]) => e \in DOMAIN got)
    BY <1>5, <2>1, <2>2, ElementsRead DEF ProbedBy
  <2>4. Basis(p, e, history, asked, first, context, got)
    <3>1. history \in Seq(Worlds) /\ 1 \in 1..Len(history)
      BY <1>4 DEF Remembers
    <3>2. "merge_state" \in Elements
      BY DEF Elements
    <3> HIDE DEF e
    <3> QED
      BY <1>4, <2>3, <3>1, <3>2 DEF Remembers, Basis
  <2>5. EvaluateFresh(p, Told(context.reality, context, item.scope, registry.records, NoStageAsked), got)
          = "FALSE"
    BY <2>1, ReadingIsTold DEF Valuation
  <2> HIDE DEF e, first
  <2>6. \A v : v = EvaluateFresh(p, Told(context.reality, context, item.scope, registry.records,
                                         NoStageAsked), got) /\ v # "INDETERMINATE"
               => \E k \in 1..Len(history) :
                    Truth(p, history[k], item.scope, registry.records, NoStageAsked) = v
    <3>1. e = RealityElement(p)
      BY DEF e
    <3> QED
      BY <2>2, <2>4, <3>1, FreshWasTrue
  <2>7. WasSo(p, history, item.scope, registry.records, NoStageAsked)
    BY <2>5, <2>6 DEF WasSo
  <2> QED
    BY <2>2, <2>7, WasSoOfEvery
<1> HIDE DEF val
<1>7. graph' = AdmitWorkflow(proposed, item, satisfied, val)
  BY <1>2 DEF val, got
<1> QED
  BY <1>1, <1>3, <1>6, <1>7, AdmittedSound

LEMMA FrozenStep == TypeInv /\ KnowsInv /\ FrozenInv /\ [Next]_vars => FrozenInv'
<1> SUFFICES ASSUME TypeInv, KnowsInv, FrozenInv, [Next]_vars PROVE FrozenInv'
  OBVIOUS
<1> USE DEF Frozen, resolutionVars, readVars, climbVars, selectionVars, itemVars
<1>a. ASSUME phase' \notin Frozen, swept' = <<>>, looked' = <<>> PROVE FrozenInv'
  BY <1>a DEF FrozenInv
<1>b. phase \notin Frozen => swept = <<>> /\ looked = <<>>
  BY DEF FrozenInv
<1>c. ASSUME phase' \in Frozen,
             Sound(graph'.graph, item'.type, history', item'.scope, registry'.records),
             Classes(swept', looked', graph'.graph.stages, history', item'.scope, registry'.records)
      PROVE  FrozenInv'
  BY <1>c DEF FrozenInv
<1>d. phase \in Frozen =>
        /\ Sound(graph.graph, item.type, history, item.scope, registry.records)
        /\ Classes(swept, looked, graph.graph.stages, history, item.scope, registry.records)
  BY DEF FrozenInv
<1>1. CASE ResolutionFails
  BY <1>a, <1>1 DEF ResolutionFails, Stop, Forget
<1>2. CASE DispatchResolution
  BY <1>a, <1>b, <1>2 DEF DispatchResolution
<1>3. CASE ResolveIdentity
  BY <1>a, <1>b, <1>3 DEF ResolveIdentity
<1>4. CASE Admit
  <2>1. phase = "admit" /\ phase' \in {"resolve", "done", "lease"}
    BY <1>4 DEF Admit, Stop
  <2>2. UNCHANGED <<swept, looked>> \/ (swept' = <<>> /\ looked' = <<>>)
    BY <1>4 DEF Admit, Stop, Forget
  <2> QED
    BY <1>a, <1>b, <2>1, <2>2
<1>5. CASE LeaseRefused
  BY <1>a, <1>5 DEF LeaseRefused, Stop, Forget
<1>6. CASE AcquireLease
  BY <1>a, <1>b, <1>6 DEF AcquireLease
<1>7. CASE Deepen
  BY <1>a, <1>b, <1>7 DEF Deepen
<1>8. CASE ContextBlocked
  BY <1>a, <1>8 DEF ContextBlocked, EndBlocked, Stop, Forget
<1>9. CASE ContextAccepted
  BY <1>a, <1>b, <1>9 DEF ContextAccepted
<1>10. CASE ComputeUnderstood
  <2>1. phase = "understand" /\ phase' \in {"outcome", "ask", "discover"} /\ UNCHANGED <<swept, looked>>
    BY <1>10 DEF ComputeUnderstood
  <2> QED
    BY <1>a, <1>b, <2>1
<1>11. CASE ProbeGap
  BY <1>a, <1>b, <1>11 DEF ProbeGap
<1>12. CASE SettleOrAsk
  <2>1. phase = "discover" /\ phase' \in {"outcome", "ask"} /\ UNCHANGED <<swept, looked>>
    BY <1>12 DEF SettleOrAsk, RungTwoDone
  <2> QED
    BY <1>a, <1>b, <2>1
<1>13. CASE HumanAnswers
  BY <1>a, <1>b, <1>13 DEF HumanAnswers
<1>14. CASE NobodyAnswers
  BY <1>a, <1>14 DEF NobodyAnswers, EndBlocked, Stop, Forget
<1>15. CASE EvaluateOutcome
  BY <1>a, <1>b, <1>15 DEF EvaluateOutcome
<1>16. CASE SelectWorkflow
  <2>1. Sound(graph'.graph, item.type, history, item.scope, registry.records)
    BY <1>16, SelectedStep
  <2>2. /\ swept' = <<>> /\ looked' = <<>> /\ phase' = "sweep" /\ UNCHANGED <<history, item, registry>>
    BY <1>b, <1>16 DEF SelectWorkflow
  <2>3. Classes(<<>>, <<>>, graph'.graph.stages, history, item.scope, registry.records)
    <3>1. graph'.graph.stages \in Seq(DOMAIN SatisfiedBy)
      BY <2>1 DEF Sound, Ordered
    <3>2. Len(graph'.graph.stages) \in Nat
      BY <3>1
    <3> QED
      BY <3>2 DEF Classes
  <2> QED
    BY <1>c, <2>1, <2>2, <2>3
<1>17. CASE AskStage
  <2>1. phase = "sweep" /\ UNCHANGED <<phase, swept, looked, graph, history, item, registry>>
    BY <1>17 DEF AskStage
  <2> QED
    BY <1>c, <1>d, <2>1
<1>18. CASE SweepStages
  <2>1. Classes(swept', looked', graph.graph.stages, history, item.scope, registry.records)
    BY <1>18, SweptStep
  <2>2. phase = "sweep" /\ UNCHANGED <<phase, graph, history, item, registry>>
    BY <1>18 DEF SweepStages
  <2> QED
    BY <1>c, <1>d, <2>1, <2>2
<1>19. CASE TargetedDiscovery
  <2>1. Classes(swept', looked', graph.graph.stages, history, item.scope, registry.records)
    BY <1>19, DiscoveredStep
  <2>2. phase = "sweep" /\ UNCHANGED <<phase, graph, history, item, registry>>
    BY <1>19 DEF TargetedDiscovery
  <2> QED
    BY <1>c, <1>d, <2>1, <2>2
<1>20. CASE Enter
  <2>1. /\ phase = "sweep" /\ phase' = "entered"
        /\ UNCHANGED <<swept, looked, graph, history, item, registry>>
    BY <1>20 DEF Enter, Swept
  <2> QED
    BY <1>c, <1>d, <2>1
<1>21. CASE AmbiguousState
  BY <1>a, <1>21 DEF AmbiguousState, EndBlocked, Stop, Forget
<1>22. CASE WorldMoves
  <2>1. /\ phase' = phase /\ history' = Append(history, world') /\ world' \in Worlds
        /\ UNCHANGED <<swept, looked, graph, item, registry>>
    BY <1>22 DEF WorldMoves
  <2>2. CASE phase \notin Frozen
    BY <1>a, <1>b, <2>1, <2>2
  <2>3. CASE phase \in Frozen
    <3>1. history \in Seq(Worlds)
      BY <2>3 DEF KnowsInv, Remembers, Deepened, PastTheLadder
    <3>2. /\ Sound(graph.graph, item.type, history', item.scope, registry.records)
          /\ Classes(swept, looked, graph.graph.stages, history', item.scope, registry.records)
      BY <1>d, <2>1, <2>3, <3>1, SoundStays, ClassesStay
    <3> QED
      BY <1>c, <2>1, <2>3, <3>2
  <2> QED
    BY <2>2, <2>3
<1>23. CASE WindowPasses
  <2>1. UNCHANGED <<phase, swept, looked, graph, history, item, registry>>
    BY <1>23 DEF WindowPasses
  <2> QED
    BY <1>a, <1>b, <1>c, <1>d, <2>1
<1>24. CASE LoopEnds
  BY <1>a, <1>24 DEF LoopEnds, Stop, Forget
<1>25. CASE LoopReresolves
  BY <1>a, <1>25 DEF LoopReresolves, Forget
<1>26. CASE UNCHANGED vars
  BY <1>26 DEF vars, FrozenInv
<1> QED
  BY <1>1, <1>2, <1>3, <1>4, <1>5, <1>6, <1>7, <1>8, <1>9, <1>10, <1>11, <1>12, <1>13,
     <1>14, <1>15, <1>16, <1>17, <1>18, <1>19, <1>20, <1>21, <1>22, <1>23, <1>24, <1>25,
     <1>26 DEF Next

LEMMA EntryInit == Init => EntryInv
  BY DEF Init, EntryInv

LEMMA EntryStep == EntryInv /\ [Next]_vars => EntryInv'
<1> SUFFICES ASSUME EntryInv, [Next]_vars PROVE EntryInv'
  OBVIOUS
<1>1. CASE Enter
  BY <1>1 DEF Enter, Swept, EntryInv, selectionVars
<1>2. CASE UNCHANGED vars
  BY <1>2 DEF EntryInv, vars, selectionVars
<1>3. CASE Next /\ ~Enter
  <2>1. phase' # "entered"
    BY <1>3
       DEF Next, ResolutionFails, DispatchResolution, ResolveIdentity, Admit, LeaseRefused,
           AcquireLease, Deepen, ContextBlocked, ContextAccepted, ComputeUnderstood, ProbeGap,
           SettleOrAsk, RungTwoDone, HumanAnswers, NobodyAnswers, EvaluateOutcome, SelectWorkflow,
           AskStage, SweepStages, TargetedDiscovery, AmbiguousState, WorldMoves, WindowPasses,
           Underway, LoopEnds, LoopReresolves, EndBlocked, Stop
  <2> QED
    BY <2>1 DEF EntryInv
<1> QED
  BY <1>1, <1>2, <1>3

-----------------------------------------------------------------------------
(* Where the run enters.                                                     *)

LEMMA Greatest ==
  ASSUME NEW n \in Nat, NEW S \in SUBSET (1..n), S # {}
  PROVE  \E i \in S : \A j \in S : j <= i
<1> DEFINE from == {n - i : i \in S}
<1>1. from \in SUBSET Nat /\ from # {}
  <2>1. \A i \in S : n - i \in Nat
    OBVIOUS
  <2> QED
    BY <2>1
<1>2. PICK m \in from : \A k \in from : m <= k
  BY <1>1, Least
<1>3. PICK i \in S : m = n - i
  BY <1>2
<1>4. \A j \in S : m <= n - j
  BY <1>2
<1>5. \A j \in S : j <= i
  BY <1>3, <1>4
<1> QED
  BY <1>5

(* The last stage seen done, and the first behind it that is seen not to be. *)
LEMMA EntryBehindThePrior ==
  ASSUME NEW rows \in Seq(Rows), Len(rows) > 0, rows[Len(rows)].status = "NOT_DONE"
  PROVE  LET P == LastPrior(rows)
             E == EntryIndex(rows)
         IN  /\ P \in 0..Len(rows) /\ E \in 1..Len(rows) /\ P < E
             /\ P > 0 => rows[P].status = "DONE"
             /\ \A i \in 1..Len(rows) : rows[i].status = "DONE" => i <= P
             /\ rows[E].status = "NOT_DONE"
             /\ \A i \in 1..Len(rows) : i > P /\ rows[i].status = "NOT_DONE" => E <= i
<1> DEFINE P     == LastPrior(rows)
           E     == EntryIndex(rows)
           n     == Len(rows)
           done  == {i \in DOMAIN rows : rows[i].status = "DONE"}
           ahead == {i \in (P + 1)..n : rows[i].status = "NOT_DONE"}
<1>1. n \in Nat /\ n > 0 /\ DOMAIN rows = 1..n
  OBVIOUS
<1>2. P = IF done = {} THEN 0 ELSE CHOOSE i \in done : \A j \in done : j <= i
  BY DEF LastPrior
<1>3. E = IF ahead = {} THEN n ELSE CHOOSE i \in ahead : \A j \in ahead : i <= j
  BY DEF EntryIndex
<1> HIDE DEF P, E, n
<1>4. done \in SUBSET (1..n)
  BY <1>1
<1>5. done # {} => P \in done /\ \A j \in done : j <= P
  <2>1. done # {} => \E i \in done : \A j \in done : j <= i
    BY <1>1, <1>4, Greatest
  <2> QED
    BY <1>2, <2>1
<1>6. done = {} => P = 0
  BY <1>2
<1>7. /\ P \in 0..n
      /\ P > 0 => rows[P].status = "DONE"
      /\ \A i \in 1..n : rows[i].status = "DONE" => i <= P
  <2>1. \A i \in 1..n : rows[i].status = "DONE" => i \in done
    BY <1>1
  <2>2. CASE done = {}
    BY <1>1, <1>6, <2>1, <2>2
  <2>3. CASE done # {}
    <3>1. P \in done /\ P \in 1..n /\ \A j \in done : j <= P
      BY <1>4, <1>5, <2>3
    <3> QED
      BY <1>1, <2>1, <3>1
  <2> QED
    BY <2>2, <2>3
<1>8. n \in ahead
  <2>1. rows[n].status = "NOT_DONE"
    BY DEF n
  <2>2. P # n
    BY <1>1, <1>7, <2>1
  <2> QED
    BY <1>1, <1>7, <2>1, <2>2
<1>9. E \in ahead /\ \A j \in ahead : E <= j
  <2>1. ahead \in SUBSET Nat /\ ahead # {}
    BY <1>1, <1>7, <1>8
  <2>2. \E i \in ahead : \A j \in ahead : i <= j
    BY <2>1, Least
  <2> QED
    BY <1>3, <2>1, <2>2
<1>10. /\ E \in 1..n /\ P < E /\ rows[E].status = "NOT_DONE"
  BY <1>1, <1>7, <1>9
<1>11. \A i \in 1..n : i > P /\ rows[i].status = "NOT_DONE" => E <= i
  BY <1>1, <1>7, <1>9
<1> QED
  BY <1>7, <1>10, <1>11 DEF P, E, n

(* Of the rows an entry was found in, a mutation from there on was seen not
   to have happened, or could not be read and lies further on; one behind it
   was seen to have, or could not be read and a later stage was.             *)
LEMMA NothingSkipped ==
  ASSUME NEW stages, Ordered(stages), NEW rows \in Seq(Rows), Len(rows) = Len(stages),
         \A j \in 1..Len(rows) : RowOf(rows[j], stages[j]),
         ComputeEntryStage(rows).outcome = "ENTRY",
         NEW E, E = EntryIndex(rows),
         NEW i \in 1..Len(rows), rows[i].stage \in Mutating,
         SatisfiedBy[rows[i].stage] # NoPredicate
  PROVE  /\ E \in 1..Len(rows)
         /\ \/ i < E /\ rows[i].value = "TRUE"
            \/ i >= E /\ rows[i].value = "FALSE"
            \/ /\ rows[i].value = "INDETERMINATE"
               /\ \/ i > E
                  \/ \E j \in (i + 1)..(E - 1) :
                       SatisfiedBy[rows[j].stage] # NoPredicate /\ rows[j].value = "TRUE"
<1> DEFINE P == LastPrior(rows)
           n == Len(rows)
<1>1. n \in Nat /\ n > 0 /\ DOMAIN rows = 1..n /\ stages[n] = "COMPLETION"
  BY DEF Ordered
<1>2. \A j \in 1..n : /\ rows[j] \in Rows /\ rows[j].stage = stages[j]
                      /\ rows[j].status = "DONE" <=> rows[j].value = "TRUE"
                      /\ rows[j].value = "FALSE" => rows[j].status = "NOT_DONE"
                      /\ rows[j].value = "INDETERMINATE" /\ stages[j] \in Mutating
                           => rows[j].status = "AMBIGUOUS"
                      /\ SatisfiedBy[stages[j]] = NoPredicate => rows[j].value = "FALSE"
  BY DEF RowOf
<1>3. rows[n].status = "NOT_DONE"
  BY <1>1, <1>2, PrologueAssumption
<1>4. /\ P \in 0..n /\ E \in 1..n /\ P < E
      /\ P > 0 => rows[P].status = "DONE"
      /\ \A j \in 1..n : rows[j].status = "DONE" => j <= P
      /\ rows[E].status = "NOT_DONE"
      /\ \A j \in 1..n : j > P /\ rows[j].status = "NOT_DONE" => E <= j
  BY <1>1, <1>3, EntryBehindThePrior
<1>5. /\ i \notin Contradictions(rows)
      /\ i \notin Ambiguities(rows)
  BY DEF ComputeEntryStage
<1> HIDE DEF P, n
<1>6. ~(i \in 1..(P - 1) /\ rows[i].status # "DONE" /\ rows[i].value = "FALSE")
  BY <1>5 DEF Contradictions, P
<1>7. ~(i \in (P + 1)..(E - 1) /\ rows[i].status = "AMBIGUOUS")
  BY <1>5 DEF Ambiguities, P
<1>8. i \in 1..n /\ rows[i].value \in Values
  BY <1>2 DEF Rows, n
<1>9. CASE rows[i].value = "TRUE"
  <2>1. rows[i].status = "DONE"
    BY <1>2, <1>8, <1>9
  <2>2. i < E
    BY <1>1, <1>4, <1>8, <2>1
  <2> QED
    BY <1>4, <1>9, <2>2 DEF n
<1>10. CASE rows[i].value = "FALSE"
  <2>1. rows[i].status = "NOT_DONE"
    BY <1>2, <1>8, <1>10
  <2>2. i # P
    BY <1>4, <1>8, <2>1
  <2>3. i > P
    BY <1>1, <1>4, <1>6, <1>8, <1>10, <2>1, <2>2
  <2>4. i >= E
    BY <1>1, <1>4, <1>8, <2>1, <2>3
  <2> QED
    BY <1>4, <1>10, <2>4 DEF n
<1>11. CASE rows[i].value = "INDETERMINATE"
  <2>1. rows[i].status = "AMBIGUOUS"
    BY <1>2, <1>8, <1>11
  <2>2. i # P /\ i # E
    BY <1>4, <1>8, <2>1
  <2>3. CASE i > E
    BY <1>4, <1>11, <2>3 DEF n
  <2>4. CASE i < E
    <3>1. i < P
      BY <1>1, <1>4, <1>7, <1>8, <2>1, <2>2, <2>4
    <3>2. P \in (i + 1)..(E - 1) /\ P \in 1..n
      BY <1>1, <1>4, <1>8, <3>1
    <3>3. rows[P].value = "TRUE" /\ SatisfiedBy[rows[P].stage] # NoPredicate
      <4>1. rows[P].value = "TRUE"
        BY <1>2, <1>4, <3>2
      <4> QED
        BY <1>2, <3>2, <4>1
    <3> QED
      BY <1>4, <1>11, <3>2, <3>3 DEF n
  <2> QED
    BY <1>1, <1>4, <1>8, <2>2, <2>3, <2>4
<1> QED
  BY <1>8, <1>9, <1>10, <1>11 DEF Values

-----------------------------------------------------------------------------
(* What the invariants say together.                                         *)

PInv == TypeInv /\ KnowsInv /\ UrgentInv /\ FrozenInv /\ EntryInv

LEMMA PrologueInvariant == Spec => []PInv
<1>1. Init => PInv
  BY TypedInit, KnowingInit, UrgentInit, FrozenInit, EntryInit DEF PInv
<1>2. PInv /\ [Next]_vars => PInv'
  BY TypedStep, KnowingStep, UrgentStep, FrozenStep, EntryStep DEF PInv
<1> QED
  BY <1>1, <1>2, PTL DEF Spec

LEMMA TruthIsOfAWorld ==
  \A p, s, w : TruthOf(p, s, w) = Truth(p, w, item.scope, registry.records, s)
<1>1. SUFFICES ASSUME NEW p, NEW s, NEW w
               PROVE  TruthOf(p, s, w) = Truth(p, w, item.scope, registry.records, s)
  OBVIOUS
<1>2. [ReadingOf(w) EXCEPT !.stage = s] = Told(w.reality, w, item.scope, registry.records, s)
  BY DEF ReadingOf, Told
<1> QED
  BY <1>2 DEF TruthOf, Truth

(* A work item that may be an incident and may be something else is past the
   ladder only when a human answered, for all policies and proposals, and
   whatever the probes got: kernel.ts climbLadder, ladder.ts
   escalationOverride.                                                       *)
THEOREM UrgencyReachesAHuman == Spec => []UrgentReadingReachesAHuman
<1>1. PInv => UrgentReadingReachesAHuman
  BY DEF PInv, UrgentInv, Urgent, UrgentReadingReachesAHuman
<1> QED
  BY <1>1, PrologueInvariant, PTL

(* The graph a run is frozen with is a workflow, leaves out only what did
   not apply at a moment since the context was read, and holds the floor
   over what was true all along where it mutates anything, however the world
   moves meanwhile: a predicate nobody could read keeps its stage and leaves
   the obligation (workflow-admission.ts admitWorkflow, graph.ts).           *)
THEOREM FrozenGraphsSound == Spec => []FrozenGraphIsSound
<1>1. PInv => FrozenGraphIsSound
  <2>1. SUFFICES ASSUME PInv, phase = "sweep"
                 PROVE  LET g == graph.graph
                        IN  /\ WellFormed(g)
                            /\ \A s \in g.excluded : WasFalse(Applicability[s], s)
                            /\ Mutating \cap StageSet(g) # {} =>
                                 FloorHolds(g, {item.type},
                                   [p \in SelectionPredicates |->
                                      IF WasFalse(p, NoStageAsked) THEN "FALSE" ELSE "TRUE"])
    BY DEF FrozenGraphIsSound
  <2>2. Sound(graph.graph, item.type, history, item.scope, registry.records)
    BY <2>1 DEF PInv, FrozenInv, Frozen
  <2>3. history \in Seq(Worlds)
    BY <2>1 DEF PInv, KnowsInv, Remembers, Deepened, PastTheLadder
  <2>4. \A p, s : WasFalse(p, s) <=> WasSo(p, history, item.scope, registry.records, s)
    <3>1. DOMAIN history = 1..Len(history)
      BY <2>3
    <3> QED
      BY <3>1, TruthIsOfAWorld DEF WasFalse, WasSo
  <2>5. [p \in SelectionPredicates |-> IF WasFalse(p, NoStageAsked) THEN "FALSE" ELSE "TRUE"]
          = Held(history, item.scope, registry.records)
    BY <2>4 DEF Held
  <2> QED
    BY <2>2, <2>4, <2>5 DEF Sound
<1> QED
  BY <1>1, PrologueInvariant, PTL

(* For every workflow and however the world moves under the run: behind the
   stage a run enters at lies only a mutation that had happened when the run
   last looked, or that could not be read and has a stage known done behind
   it; from the entry on only one that had not, or could not be read
   (entry-stage.ts computeEntryStage).                                       *)
THEOREM ResumptionsSkipNothing == Spec => []ResumptionSkipsNoMutation
<1>1. PInv => ResumptionSkipsNoMutation
  <2>1. SUFFICES ASSUME PInv, phase = "entered",
                        NEW i \in DOMAIN swept, swept[i].stage \in Mutating,
                        SatisfiedBy[swept[i].stage] # NoPredicate
                 PROVE  \/ i < EntryPosition /\ SeenDone(i, TRUE)
                        \/ i >= EntryPosition /\ SeenDone(i, FALSE)
                        \/ /\ swept[i].value = "INDETERMINATE"
                           /\ \/ i > EntryPosition
                              \/ \E j \in (i + 1)..(EntryPosition - 1) :
                                   SatisfiedBy[swept[j].stage] # NoPredicate /\ SeenDone(j, TRUE)
    BY DEF ResumptionSkipsNoMutation
  <2> DEFINE stages == graph.graph.stages
             E == EntryIndex(swept)
  <2>2. /\ Ordered(stages)
        /\ Classes(swept, looked, stages, history, item.scope, registry.records)
        /\ Len(swept) = Len(stages) /\ ComputeEntryStage(swept).outcome = "ENTRY"
        /\ entry = ComputeEntryStage(swept).entry
    BY <2>1 DEF PInv, FrozenInv, Frozen, EntryInv, Sound
  <2>3. entry = swept[E].stage
    BY <2>2 DEF ComputeEntryStage
  <2>4. /\ DOMAIN swept = 1..Len(swept) /\ Len(swept) \in Nat /\ swept \in Seq(Rows)
        /\ DOMAIN stages = 1..Len(swept)
        /\ \A j \in 1..Len(swept) :
             /\ RowOf(swept[j], stages[j]) /\ swept[j].stage = stages[j]
             /\ LooksAt(stages[j], swept[j].value, looked[j], history, item.scope, registry.records)
    <3>1. swept \in Seq(Rows) /\ stages \in Seq(DOMAIN SatisfiedBy)
      BY <2>2 DEF Classes, Ordered
    <3>2. \A j \in 1..Len(swept) :
             /\ RowOf(swept[j], stages[j]) /\ swept[j].stage = stages[j]
             /\ LooksAt(stages[j], swept[j].value, looked[j], history, item.scope, registry.records)
      BY <2>2 DEF Classes, Classified, RowOf
    <3> HIDE DEF stages
    <3> QED
      BY <2>2, <3>1, <3>2
  <2> HIDE DEF E, stages
  <2>5. /\ E \in 1..Len(swept)
        /\ \/ i < E /\ swept[i].value = "TRUE"
           \/ i >= E /\ swept[i].value = "FALSE"
           \/ /\ swept[i].value = "INDETERMINATE"
              /\ \/ i > E
                 \/ \E j \in (i + 1)..(E - 1) :
                      SatisfiedBy[swept[j].stage] # NoPredicate /\ swept[j].value = "TRUE"
    <3>1. i \in 1..Len(swept) /\ E = EntryIndex(swept)
      BY <2>1, <2>4 DEF E
    <3>2. /\ swept \in Seq(Rows) /\ Len(swept) = Len(stages)
          /\ \A j \in 1..Len(swept) : RowOf(swept[j], stages[j])
      BY <2>2, <2>4
    <3>3. /\ Ordered(stages) /\ ComputeEntryStage(swept).outcome = "ENTRY"
          /\ swept[i].stage \in Mutating /\ SatisfiedBy[swept[i].stage] # NoPredicate
      BY <2>1, <2>2
    <3> HIDE DEF E, stages
    <3> QED
      BY ONLY <3>1, <3>2, <3>3, NothingSkipped
  <2>6. EntryPosition = E
    <3>1. \A j \in DOMAIN swept : swept[j].stage = entry => j = E
      BY <2>2, <2>3, <2>4, <2>5 DEF Ordered, Once
    <3>2. E \in DOMAIN swept /\ swept[E].stage = entry
      BY <2>3, <2>4, <2>5
    <3> QED
      BY <3>1, <3>2 DEF EntryPosition
  <2>7. \A j \in 1..Len(swept) : SatisfiedBy[swept[j].stage] # NoPredicate =>
          /\ swept[j].value = "TRUE" => SeenDone(j, TRUE)
          /\ swept[j].value = "FALSE" => SeenDone(j, FALSE)
    <3>1. SUFFICES ASSUME NEW j \in 1..Len(swept), SatisfiedBy[swept[j].stage] # NoPredicate
                   PROVE  /\ swept[j].value = "TRUE" => SeenDone(j, TRUE)
                          /\ swept[j].value = "FALSE" => SeenDone(j, FALSE)
      OBVIOUS
    <3>2. swept[j].value # "INDETERMINATE" =>
            \E k \in WhenLooked(j) :
              TruthOf(SatisfiedBy[swept[j].stage], swept[j].stage, history[k]) = swept[j].value
      <4>1. WhenLooked(j) = When(stages[j], looked[j])
        BY <2>4, <3>1 DEF WhenLooked, When
      <4>2. swept[j].stage = stages[j]
        BY <2>4, <3>1
      <4> QED
        BY <2>4, <3>1, <4>1, <4>2, TruthIsOfAWorld DEF LooksAt
    <3> QED
      BY <3>2 DEF SeenDone
  <2>8. \A j \in (i + 1)..(E - 1) : j \in 1..Len(swept)
    BY <2>1, <2>4, <2>5
  <2> QED
    BY <2>1, <2>4, <2>5, <2>6, <2>7, <2>8
<1> QED
  BY <1>1, PrologueInvariant, PTL
=============================================================================
