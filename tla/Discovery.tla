------------------------------ MODULE Discovery ------------------------------
(***************************************************************************)
(* discovery/src/service.ts, package.ts and gaps.ts: the service assembles *)
(* versions of the context package, one probe at a time, in a world that   *)
(* changes meanwhile.                                                      *)
(*                                                                         *)
(*   world    what the adapters look at; suite their availability, found   *)
(*            once when they were created; now the clock                   *)
(*   latest   the last version of the package, or none                     *)
(*   work     the package being assembled, or none                         *)
(*   answered the last answer of reprobeReality, which no package holds    *)
(*   refusals what the service has been refused in its lifetime            *)
(*                                                                         *)
(* An element remembers, besides its assertion, what its probe was asked    *)
(* about and the world it saw.                                             *)
(***************************************************************************)
EXTENDS Reconciliation, Sequences

CONSTANTS
  Initially,     \* the worlds a run may start in
  Changed(_, _), \* whether one world may become another
  Worlds,        \* the worlds there are
  Inputs,        \* what a work item gives the probes
  Targets,       \* the probes asked for by name
  Elsewhere,     \* capability -> what the registry records of it
  ChangesBefore, \* the elements before whose probe the world may change
  MaxVersions,   \* bound on the packages and answers of one run
  MaxChanges     \* bound on the changes of the world

(* A probe of reality is of an admitted item, and what is asked for by name  *)
(* is an element or a probe there is.                                        *)
ASSUME DiscoveryAssumption ==
  /\ \A w \in Initially \union Worlds : Consistent(w)
  /\ \A in \in Inputs : in.item
  /\ Targets \subseteq Elements \union {Tier1[i] : i \in DOMAIN Tier1}
                              \union {Tier2[i] : i \in DOMAIN Tier2}

VARIABLES world, suite, now, latest, work, answered, refusals, changes
vars == <<world, suite, now, latest, work, answered, refusals, changes>>

Nothing == [version |-> 0]
NoItem == [item |-> FALSE, scope |-> FALSE, external |-> FALSE]

RealityNames == [implementation_present |-> "reality.implementation",
                 tests_present |-> "reality.tests", pr |-> "reality.pr",
                 ci |-> "reality.ci", reviews |-> "reality.reviews",
                 merge_state |-> "reality.merge_state",
                 deployment |-> "reality.deployment",
                 outcome_evidence |-> "reality.outcome",
                 children |-> "reality.children",
                 agentos_history |-> "reality.agentos_history"]
InOrder == <<"implementation_present", "tests_present", "pr", "ci", "reviews", "merge_state",
             "deployment", "outcome_evidence", "children", "agentos_history">>

EmptySections == [section \in Sections |-> <<>>]

Init ==
  /\ world \in Initially
  /\ suite = Availability(world)
  /\ now = 0
  /\ latest = Nothing
  /\ work = Nothing
  /\ answered = <<>>
  /\ refusals = {}
  /\ changes = 0

-----------------------------------------------------------------------------
(* assemble, as it starts: what the previous package held is carried over.   *)
Begin(tier, in, names, elements, previous, at) ==
  [version |-> (IF latest = Nothing THEN 0 ELSE latest.version) + 1,
   tier |-> tier, in |-> in, names |-> names, elements |-> elements,
   asked |-> {elements[i] : i \in DOMAIN elements},
   s |-> NewSession(world, suite, at),
   sections |-> IF previous = Nothing THEN EmptySections ELSE previous.sections,
   reality |-> IF previous = Nothing THEN <<>> ELSE previous.reality,
   sawOf |-> IF previous = Nothing THEN <<>> ELSE previous.sawOf,
   coverage |-> IF previous = Nothing THEN <<>> ELSE previous.coverage]

MayStart ==
  /\ work = Nothing
  /\ answered = <<>>
  /\ latest = Nothing \/ latest.version < MaxVersions

Orient ==
  /\ MayStart
  /\ latest = Nothing
  /\ work' = Begin(1, NoItem, Tier1, <<>>, Nothing, now)
  /\ UNCHANGED <<world, suite, now, latest, answered, refusals, changes>>

(* The clock may or may not have moved since the last session.               *)
Deepen ==
  /\ MayStart
  /\ latest # Nothing
  /\ latest.tier = 1
  /\ now' \in {now, now + 1}
  /\ \E in \in Inputs : work' = Begin(2, in, Tier2, InOrder, latest, now')
  /\ UNCHANGED <<world, suite, latest, answered, refusals, changes>>

(* probe: one probe by its name, of a section or of reality.  A name there   *)
(* is no probe of makes no package.                                          *)
ProbeByName ==
  /\ MayStart
  /\ latest # Nothing
  /\ latest.tier > 1
  /\ now' \in {now, now + 1}
  /\ \E name \in Targets :
       work' = IF name \in Elements
               THEN Begin(3, latest.in, <<>>, <<name>>, latest, now')
               ELSE Begin(3, latest.in, <<name>>, <<>>, latest, now')
  /\ UNCHANGED <<world, suite, latest, answered, refusals, changes>>

(* stateFor                                                                  *)
CoverageOf(r) ==
  CASE ~r.available -> "UNAVAILABLE"
    [] r.available /\ \E k \in DOMAIN r.asserts : ~Known(r.asserts[k]) -> "PARTIAL"
    [] OTHER -> "RAN"

CoverageOfElement(r) ==
  CoverageOf([available |-> r.available, asserts |-> Only("of", r.a)])

Cover(coverage, name, state) == Only(name, state) ++ coverage

(* What a probe wrote, merged into its section key by key.                   *)
Merge(held, asserts) ==
  [k \in DOMAIN held \union DOMAIN asserts |->
     IF k \notin DOMAIN asserts THEN held[k]
     ELSE IF k \notin DOMAIN held THEN asserts[k]
     ELSE Promote(held[k], asserts[k])]

Looking(s) == [s EXCEPT !.world = world]

(* A probe of a section; once the session was aborted none is run.           *)
AfterSectionProbe(name, r) ==
  IF work.s.abortedBy # ""
  THEN [work EXCEPT !.names = Tail(@), !.coverage = Cover(@, name, "SKIPPED")]
  ELSE [work EXCEPT !.names = Tail(@), !.s = r.s,
                    !.sections[SectionOf(name)] = Merge(@, r.asserts),
                    !.coverage = Cover(@, name, CoverageOf(r))]

RunSectionProbe ==
  /\ work # Nothing
  /\ work.names # <<>>
  /\ LET name == Head(work.names) IN
     work' = AfterSectionProbe(name,
               SectionProbe(Looking(work.s), name, work.in, work.sections))
  /\ UNCHANGED <<world, suite, now, latest, answered, refusals, changes>>

(* What a probe was shown: a world, and what a work item gives the probes.   *)
Saw(w, in) == [world |-> w, in |-> in]

(* A probe of an element of reality; once the session was aborted what was   *)
(* held of the element is given up.                                          *)
AfterRealityProbe(e, r) ==
  LET held == e \in DOMAIN work.reality
      a == IF held THEN Promote(work.reality[e], r.a) ELSE r.a
      stands == held /\ a = work.reality[e]
  IN IF work.s.abortedBy # ""
     THEN [work EXCEPT !.elements = Tail(@),
                       !.reality = Only(e, Unknown("UNAVAILABLE")) ++ @,
                       !.sawOf = Only(e, Saw(world, work.in)) ++ @,
                       !.coverage = Cover(@, RealityNames[e], "SKIPPED")]
     ELSE [work EXCEPT !.elements = Tail(@), !.s = r.s,
                       !.reality = Only(e, a) ++ @,
                       !.sawOf = IF stands THEN @ ELSE Only(e, Saw(world, work.in)) ++ @,
                       !.coverage = Cover(@, RealityNames[e], CoverageOfElement(r))]

RunRealityProbe ==
  /\ work # Nothing
  /\ work.names = <<>>
  /\ work.elements # <<>>
  /\ LET e == Head(work.elements) IN
     work' = AfterRealityProbe(e, RealityProbe(Looking(work.s), e, work.in))
  /\ UNCHANGED <<world, suite, now, latest, answered, refusals, changes>>

-----------------------------------------------------------------------------
(* collectGaps                                                               *)
CollectGaps(sections, reality, s) ==
  {<<"current_reality", e>> : e \in {e \in Elements : ~Known(reality[e])}}
  \union (UNION {{<<section, k>> : k \in {k \in DOMAIN sections[section] :
                                           ~Known(sections[section][k])}} : section \in Sections})
  \union {<<"refusal", op>> : op \in s.refusals}

(* What no probe wrote is NOT_COMPUTED.                                      *)
Completed(reality) ==
  [e \in Elements |-> IF e \in DOMAIN reality THEN reality[e] ELSE NotComputed]

(* What assemble itself writes: the refusals, the abort, the disagreements.  *)
Noted(sections, s, reconciled) ==
  [sections EXCEPT
     !["authorization"] =
       (IF s.abortedBy = "" THEN <<>> ELSE Only("session_aborted_by", Derived(Atom(s.abortedBy), {})))
       ++ Only("probe_refusals", Derived(List(s.refusals), {})) ++ @,
     !["intent"] = Only("source_conflicts", Derived(List(reconciled.conflicts), {})) ++ @]

Skipped(tier) ==
  IF tier # 1 THEN <<>>
  ELSE [name \in {Tier2[i] : i \in DOMAIN Tier2} \union {RealityNames[e] : e \in Elements}
          |-> "SKIPPED"]

Package(w) ==
  LET reality == Completed(w.reality)
      reconciled == ReconcileWorkItem(reality, w.sections["intent"])
      sections == Noted(w.sections, w.s, reconciled)
  IN [version |-> w.version, tier |-> w.tier, in |-> w.in,
      sections |-> sections, reality |-> reality,
      sawOf |-> [e \in Elements |-> IF e \in DOMAIN w.sawOf THEN w.sawOf[e] ELSE Saw(world, w.in)],
      asked |-> w.asked, at |-> w.s.now,
      coverage |-> w.coverage ++ Skipped(w.tier),
      reconciliation |-> reconciled.state,
      matrix |-> [c \in DOMAIN Elsewhere |-> CapabilityRow(w.sections, c, Elsewhere[c]).state],
      gaps |-> CollectGaps(sections, reality, w.s),
      calls |-> w.s.calls, refused |-> w.s.refusals]

(* assemble, as it ends, and #record.                                        *)
Assemble ==
  /\ work # Nothing
  /\ work.names = <<>>
  /\ work.elements = <<>>
  /\ latest' = Package(work)
  /\ work' = Nothing
  /\ refusals' = refusals \union work.s.refusals
  /\ UNCHANGED <<world, suite, now, answered, changes>>

(* reprobeReality: a session for one element, whose answer is the caller's   *)
(* alone: no package holds it, and only its refusals are kept.               *)
ReprobeReality ==
  /\ MayStart
  /\ latest # Nothing
  /\ latest.tier > 1
  /\ now' \in {now, now + 1}
  /\ \E e \in Elements \intersect Targets :
       LET r == RealityProbe(NewSession(world, suite, now'), e, latest.in)
       IN /\ answered' = <<[element |-> e, a |-> r.a, saw |-> Saw(world, latest.in)]>>
          /\ refusals' = refusals \union r.s.refusals
  /\ UNCHANGED <<world, suite, latest, work, changes>>

(* The world changes between two sessions, or while reality is looked at.    *)
WorldChanges ==
  /\ changes < MaxChanges
  /\ answered = <<>>
  /\ IF work = Nothing THEN latest # Nothing
     ELSE work.names = <<>> /\ work.elements # <<>> /\ Head(work.elements) \in ChangesBefore
  /\ changes' = changes + 1
  /\ \E w \in Worlds : Changed(world, w) /\ world' = w
  /\ UNCHANGED <<suite, now, latest, work, answered, refusals>>

Next == Orient \/ Deepen \/ ProbeByName \/ RunSectionProbe \/ RunRealityProbe \/ Assemble
        \/ ReprobeReality \/ WorldChanges

Spec == Init /\ [][Next]_vars

-----------------------------------------------------------------------------
(* What a value that is held for a fact says of the world it was observed    *)
(* in, told without the probe's way of finding out.  Both what it affirms    *)
(* and what it denies are so.                                                *)
Proposed(w) == {p \in w.prs : p.names \/ (w.branch /\ p.head = "work")}
Shas(w) == {p.sha : p \in Proposed(w)} \union {p.mergeSha : p \in Proposed(w)}

(* A commit of the item's, on its branch or on the default one.              *)
Implements(c, w, in) ==
  /\ c.names
  /\ in.scope => c.inScope
  /\ "main" \in c.on \/ (w.branch /\ "work" \in c.on)

Passed == {"SUCCESS", "NEUTRAL", "SKIPPED"}
RunsSay(result, runs) ==
  CASE result = "NONE" -> runs = {}
    [] result = "PENDING" -> \E r \in runs : r.status # "COMPLETED"
    [] result = "GREEN" -> runs # {} /\ \A r \in runs : /\ r.status = "COMPLETED"
                                                        /\ r.conclusion \in Passed
    [] result = "INDETERMINATE" -> \E r \in runs : r.conclusion = ""
    [] result = "RED" -> \E r \in runs : r.conclusion \notin {""} \union Passed
    [] OTHER -> FALSE

(* The approvals and the threads of one revision, and of no other.           *)
ReviewsSay(v, w) ==
  /\ v.approved = \E r \in w.reviews : r.state = "APPROVED" /\ r.sha = v.sha
  /\ v.unresolved = Cardinality({h \in w.threads : ~h.resolved /\ h.sha = v.sha})

TrackersChildren(w, in) == IF in.external THEN w.pmChildren ELSE {}

TrueOf(e, v, w, in) ==
  CASE e = "implementation_present" -> v = \E c \in w.commits : Implements(c, w, in)
    [] e = "tests_present" ->
         IF v THEN /\ "tests" \in w.files
                   /\ \E r \in w.ci : r.status = "COMPLETED" /\ r.sha \in Shas(w)
         ELSE "tests" \notin w.files
    [] e = "pr" ->
         IF v.exists THEN \E p \in Proposed(w) : p.state = v.state /\ v.sha \in {"", p.sha}
         ELSE Proposed(w) = {}
    [] e = "ci" -> v.sha \in Shas(w) /\ RunsSay(v.result, {r \in w.ci : r.sha = v.sha})
    [] e = "reviews" ->
         IF Proposed(w) = {} THEN v = NoReviews
         ELSE (\E p \in Proposed(w) : v.sha = p.sha) /\ ReviewsSay(v, w)
    [] e = "merge_state" ->
         IF v = "NOT_PROPOSED" THEN Proposed(w) = {}
         ELSE \E p \in Proposed(w) : v \in {p.state, w.hostedMerge}
    [] e = "deployment" ->
         LET run == {x.name : x \in w.environments} IN
         IF v = {}
         THEN run = {} \/ \E p \in Proposed(w) : w.deployed \notin {p.sha, p.mergeSha} \ {""}
         ELSE v \subseteq run /\ w.deployed \in Shas(w)
    [] e = "outcome_evidence" -> v = (w.holds = "yes")
    [] e = "children" -> v = w.children \union TrackersChildren(w, in)
    [] e = "agentos_history" -> v = {r.stages : r \in w.runs}

(* Where a fact is not so, or says more than was seen, whatever the world    *)
(* does meanwhile: each of these is a line of the probes.                    *)
(*   implementation_present  is denied of a change that is on the default    *)
(*     branch when its own branch was kept, whose commits the default one    *)
(*     leaves out (reality.ts:285-289)                                       *)
(*   tests_present           is denied when the listing reached its limit,   *)
(*     whose truncated is not read (reality.ts:375-378, ops/repo.ts:524)     *)
(*   reviews                 an approval, or a head, of no stated revision   *)
(*     is of any (reality.ts:705-713)                                        *)
(*   children, agentos_history  what the ledger holds is never read: its     *)
(*     answer is a record and not a list (reality.ts:1096, 1246)             *)
UndatedReviews(v, w) ==
  LET undated == v.sha = "" \/ \E r \in w.reviews \union w.threads : r.sha = "" IN
  /\ Proposed(w) # {} /\ undated
  /\ v.sha = "" \/ \E p \in Proposed(w) : v.sha = p.sha
  /\ v.approved = \E r \in w.reviews : r.state = "APPROVED" /\ OfHead(r.sha, v.sha)

Misread(e, v, w, in) ==
  \/ /\ e = "implementation_present"
     /\ v = FALSE /\ w.branch
     /\ \E c \in w.commits : Implements(c, w, in) /\ "main" \in c.on
  \/ e = "tests_present" /\ v = FALSE /\ w.truncated
  \/ e = "reviews" /\ UndatedReviews(v, w)
  \/ e = "children" /\ v = TrackersChildren(w, in) /\ w.children # {}
  \/ e = "agentos_history" /\ v = {} /\ w.runs # {}

HoldsOf(e, v, saw) == TrueOf(e, v, saw.world, saw.in) \/ Misread(e, v, saw.world, saw.in)

(* What is recorded as a fact was so when its probe looked, what it denies   *)
(* as what it affirms: a connector that is missing, does not answer or       *)
(* refuses, an aborted session, and a world that changed meanwhile, never    *)
(* make an absence, or a success, of what was not seen.  An absence that a   *)
(* host states is taken at its word; Misread names every other exception.    *)
FactsAreTrue ==
  /\ latest # Nothing =>
       \A e \in Elements :
         latest.reality[e].conf = "FACT" =>
           HoldsOf(e, latest.reality[e].value[1], latest.sawOf[e])
  /\ answered # <<>> /\ answered[1].a.conf = "FACT" =>
       HoldsOf(answered[1].element, answered[1].a.value[1], answered[1].saw)

(* What a session was asked to look at again is unknown after it, or rests   *)
(* on something that was seen in it: neither the package it builds on, a     *)
(* source that has gone away since, nor an abort before its turn leaves an   *)
(* older observation in the place of the one that was asked for.             *)
AskedIsSeenAnew ==
  latest # Nothing =>
    \A e \in latest.asked :
      Known(latest.reality[e]) => \E x \in latest.reality[e].ev : x[3] = latest.at

(* From one package to the next nothing is held more firmly without evidence *)
(* the package before did not have for it, of an element or of a section.    *)
Firmer(before, after) == Rank[after.conf] > Rank[before.conf] => ~(after.ev \subseteq before.ev)

PromotionsNeedEvidence ==
  [][latest # Nothing /\ latest' # latest =>
       /\ \A e \in Elements : Firmer(latest.reality[e], latest'.reality[e])
       /\ \A section \in Sections : \A k \in DOMAIN latest.sections[section] :
            /\ k \in DOMAIN latest'.sections[section]
            /\ Firmer(latest.sections[section][k], latest'.sections[section][k])]_vars
=============================================================================
