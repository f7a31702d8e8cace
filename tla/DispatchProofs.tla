--------------------------- MODULE DispatchProofs ---------------------------
(***************************************************************************)
(* The dispatches of a run, for every graph, registry, set of tools and    *)
(* behaviour of the agents and of the world.                               *)
(*                                                                         *)
(* A dispatch that is over leaves calls behind: what the theorems rest on  *)
(* is what is known of every dispatch there ever was, not of the present   *)
(* one.  An envelope closes its dispatch: nothing is called any more, and  *)
(* nothing that was called is still to be answered.                        *)
(***************************************************************************)
EXTENDS Dispatch, TLAPS

SurfaceVerdicts ==
  {"NONE", "UNVERIFIABLE", "UNEXPECTED_TOOLS", "MISSING_TOOLS", "CONFORMS"}

Sessions(result) ==
  [open : BOOLEAN, listening : BOOLEAN, conforming : BOOLEAN, security : BOOLEAN,
   timedOut : BOOLEAN, surface : SurfaceVerdicts, result : {result}]

TypeInv ==
  /\ kernel \in {"choosing", "session", "verifying", "ended", "thrown"}
  /\ dispatch \in Nat
  /\ session \in Sessions(session.result)
  /\ calls \in [Slots -> [tool : Tools \cup {NoTool}, dispatch : Nat]]
  /\ envelopes \in Seq(Stored)
  /\ \A c \in log : c.dispatch \in Nat /\ c.capabilities = {}
  /\ \A e \in Stored : e.dispatch \in Nat

(* What a session may be asked is what the stage it is for is granted.       *)
Granted ==
  /\ kernel \in {"choosing", "session", "verifying"} => stage \in Stages
  /\ kernel = "session" => package.tools = Grants(stage)
  /\ session.conforming => dispatch \in asserted

(* Nothing is of a dispatch to come, and an envelope is of one that is over. *)
Numbered ==
  /\ \A c \in log : c.dispatch <= dispatch
  /\ \A s \in Slots : calls[s].dispatch <= dispatch
  /\ \A e \in Stored : /\ e.dispatch <= dispatch
                       /\ kernel \in {"session", "verifying"} => e.dispatch < dispatch

Pending(d) == {s \in Slots : calls[s] # Idle /\ calls[s].dispatch = d}

Unviolated(d) == \A c \in log : c.dispatch = d => c.outcome # "SECURITY"

Supported(coverage, d) ==
  \A entry \in coverage : ~entry.capability =>
    \E c \in log : c.dispatch = d /\ c.paths \cap entry.places # {}

(* A dispatch that is over and left an envelope.                             *)
Closed(coverage, d) == Pending(d) = {} /\ Unviolated(d) /\ Supported(coverage, d)

Receiving ==
  /\ session.result.kind = "ENVELOPE" => Pending(dispatch) = {}
  /\ kernel = "session" /\ ~session.security => Unviolated(dispatch)
  /\ kernel = "verifying" => Closed(received.coverage, dispatch)

Kept == \A e \in Stored : Closed(e.coverage, e.dispatch)

DInv == TypeInv /\ Granted /\ CallsAreAsserted /\ Numbered /\ Receiving /\ Kept

(* A sequence has what it had and what was appended to it.                   *)
LEMMA RangeAppend ==
  ASSUME NEW T, NEW s \in Seq(T), NEW x
  PROVE  /\ {Append(s, x)[i] : i \in DOMAIN Append(s, x)} = {s[i] : i \in DOMAIN s} \cup {x}
         /\ Append(s, x) \in Seq({s[i] : i \in DOMAIN s} \cup {x})
<1> DEFINE more == Append(s, x)
<1>1. s \in Seq(T \cup {x})
  OBVIOUS
<1>2. /\ DOMAIN s = 1..Len(s) /\ DOMAIN more = 1..(Len(s) + 1) /\ Len(s) \in Nat
      /\ more[Len(s) + 1] = x /\ \A i \in 1..Len(s) : more[i] = s[i]
  BY <1>1
<1>7. more \in Seq(T \cup {x}) /\ Len(more) = Len(s) + 1
  BY <1>1
<1> HIDE DEF more
<1>3. 1..(Len(s) + 1) = 1..Len(s) \cup {Len(s) + 1}
  BY <1>2
<1>4. {more[i] : i \in DOMAIN more} = {s[i] : i \in DOMAIN s} \cup {x}
  <2>1. ASSUME NEW e, e \in {more[i] : i \in DOMAIN more}
        PROVE  e \in {s[i] : i \in DOMAIN s} \cup {x}
    BY <1>2, <1>3, <2>1
  <2>2. ASSUME NEW e, e \in {s[i] : i \in DOMAIN s} \cup {x}
        PROVE  e \in {more[i] : i \in DOMAIN more}
    BY <1>2, <1>3, <2>2
  <2> QED
    BY <2>1, <2>2
<1>5. \A i \in 1..(Len(s) + 1) : more[i] \in {s[j] : j \in DOMAIN s} \cup {x}
  BY <1>2, <1>3
<1>6. more \in Seq({s[j] : j \in DOMAIN s} \cup {x})
  BY <1>2, <1>5, <1>7
<1> QED
  BY <1>4, <1>6 DEF more

(* What is granted does not mutate, and neither does what has its name.      *)
LEMMA GrantsDoNotMutate ==
  ASSUME NEW s \in Stages, NEW tool \in Grants(s)
  PROVE  tool \in Tools /\ ~\E o \in Operations : o.tool = tool /\ o.mutating
<1>1. PICK o \in Operations : o.tool = tool /\ (Descriptors[s].mutating \/ ~o.mutating)
  BY DEF Grants, GrantTools, GrantToolsForSpec
<1>2. o.mutating = FALSE
  BY <1>1, DispatchAssumption
<1>3. \A p \in Operations : p.tool = tool => p = o
  BY <1>1, DispatchAssumption
<1> QED
  BY <1>1, <1>2, <1>3, DispatchAssumption

(* A session's surface is compared with one of five outcomes.                *)
LEMMA SurfaceType ==
  ASSUME NEW grants, NEW observed
  PROVE  EvaluateSurface(grants, observed) \in SurfaceVerdicts
  BY DEF EvaluateSurface, SurfaceVerdicts

LEMMA SessionType ==
  ASSUME NEW s, s \in Sessions(s.result)
  PROVE  /\ NoSession \in Sessions(NoSession.result) /\ ~NoSession.conforming
         /\ NewSession \in Sessions(NewSession.result) /\ ~NewSession.conforming
         /\ ~NewSession.security
         /\ NoSession.result.kind # "ENVELOPE" /\ NewSession.result.kind # "ENVELOPE"
<1>1. NoSession \in Sessions(NoEnvelope) /\ NoSession.result = NoEnvelope /\ ~NoSession.conforming
  BY DEF NoSession, Sessions, SurfaceVerdicts
<1>2. NewSession \in Sessions(NoEnvelope) /\ NewSession.result = NoEnvelope
      /\ ~NewSession.conforming /\ ~NewSession.security
  BY DEF NewSession, NoSession, Sessions, SurfaceVerdicts
<1>3. NoEnvelope.kind # "ENVELOPE"
  BY DEF NoEnvelope
<1> QED
  BY <1>1, <1>2, <1>3

(* Where the run loop goes next: to a stage of the graph, or to its end.     *)
LEMMA WhereTo ==
  ASSUME NEW action, NEW n, CarryOut(action, n)
  PROVE  /\ kernel' \in {"choosing", "ended"}
         /\ kernel' = "choosing" => stage' \in Stages \/ stage' = stage
  BY DEF CarryOut

LEMMA DInvInit == Init => DInv
<1> SUFFICES ASSUME Init PROVE DInv
  OBVIOUS
<1>1. session \in Sessions(session.result) /\ ~session.conforming
      /\ session.result.kind # "ENVELOPE"
  <2>1. NoSession \in Sessions(NoEnvelope) /\ NoSession.result = NoEnvelope
        /\ ~NoSession.conforming
    BY DEF NoSession, Sessions, SurfaceVerdicts
  <2> QED
    BY <2>1 DEF Init, NoEnvelope
<1>2. Idle \in [tool : Tools \cup {NoTool}, dispatch : Nat] /\ Idle.dispatch = 0
  BY DEF Idle
<1>3. calls \in [Slots -> [tool : Tools \cup {NoTool}, dispatch : Nat]]
      /\ \A s \in Slots : calls[s] = Idle
  BY <1>2 DEF Init
<1>4. Stored = {} /\ envelopes \in Seq({}) /\ log = {} /\ dispatch = 0 /\ kernel = "choosing"
  BY DEF Init, Stored
<1>5. stage \in Stages
  BY FrozenGraphAssumption, DispatchAssumption DEF Init, Stages
<1>6. TypeInv
  BY <1>1, <1>3, <1>4 DEF TypeInv
<1>7. Granted
  BY <1>1, <1>4, <1>5 DEF Granted
<1>8. CallsAreAsserted
  BY <1>3 DEF CallsAreAsserted
<1>9. Numbered
  BY <1>2, <1>3, <1>4 DEF Numbered
<1>10. Receiving
  BY <1>1, <1>4 DEF Receiving, Unviolated
<1>11. Kept
  BY <1>4 DEF Kept
<1> QED
  BY <1>6, <1>7, <1>8, <1>9, <1>10, <1>11 DEF DInv

(* What is known of the dispatches there were stays true while nothing is    *)
(* called, answered or kept.                                                 *)
LEMMA Carried ==
  ASSUME DInv, calls' = calls, log' = log, envelopes' = envelopes, asserted \subseteq asserted',
         dispatch' \in {dispatch, dispatch + 1},
         kernel' \in {"session", "verifying"} =>
           dispatch' = dispatch + 1 \/ kernel \in {"session", "verifying"}
  PROVE  /\ CallsAreAsserted' /\ Numbered' /\ Kept'
         /\ calls' \in [Slots -> [tool : Tools \cup {NoTool}, dispatch : Nat]]
         /\ envelopes' \in Seq(Stored') /\ Stored' = Stored
         /\ \A c \in log' : c.dispatch \in Nat /\ c.capabilities = {}
         /\ \A e \in Stored' : e.dispatch \in Nat
         /\ dispatch' \in Nat
<1>1. Stored' = Stored
  BY DEF Stored
<1>2. CallsAreAsserted'
  BY DEF DInv, CallsAreAsserted
<1>3. dispatch \in Nat
  BY DEF DInv, TypeInv
<1>4. Numbered'
  <2>1. /\ \A c \in log : c.dispatch \in Nat /\ c.dispatch <= dispatch
        /\ \A s \in Slots : calls[s].dispatch \in Nat /\ calls[s].dispatch <= dispatch
        /\ \A e \in Stored : /\ e.dispatch \in Nat /\ e.dispatch <= dispatch
                             /\ kernel \in {"session", "verifying"} => e.dispatch < dispatch
    BY DEF DInv, TypeInv, Numbered
  <2> QED
    BY <1>1, <1>3, <2>1 DEF Numbered
<1>5. Kept'
  BY <1>1 DEF DInv, Kept, Closed, Pending, Unviolated, Supported
<1> QED
  BY <1>1, <1>2, <1>3, <1>4, <1>5 DEF DInv, TypeInv

LEMMA OutcomeEnvelope ==
  ASSUME session \in Sessions(session.result), Outcome = "ENVELOPE"
  PROVE  ~session.security /\ session.result.kind = "ENVELOPE"
  BY DEF Outcome, Sessions

(* A dispatch that fails, however far it came.                               *)
LEMMA FailingStep ==
  ASSUME DInv, kernel' \in {"choosing", "ended"},
         kernel' = "choosing" => stage' \in Stages,
         session' = NoSession, dispatch' \in {dispatch, dispatch + 1},
         UNCHANGED <<envelopes, calls, log, asserted>>
  PROVE  DInv'
<1>1. /\ CallsAreAsserted' /\ Numbered' /\ Kept'
      /\ calls' \in [Slots -> [tool : Tools \cup {NoTool}, dispatch : Nat]]
      /\ envelopes' \in Seq(Stored')
      /\ \A c \in log' : c.dispatch \in Nat /\ c.capabilities = {}
      /\ \A e \in Stored' : e.dispatch \in Nat
      /\ dispatch' \in Nat
  BY Carried
<1>2. session' \in Sessions(session'.result) /\ ~session'.conforming
      /\ session'.result.kind # "ENVELOPE"
  BY SessionType DEF DInv, TypeInv
<1>3. TypeInv'
  BY <1>1, <1>2 DEF TypeInv
<1>4. Granted'
  BY <1>2 DEF Granted
<1>5. Receiving'
  BY <1>2 DEF Receiving
<1> QED
  BY <1>1, <1>3, <1>4, <1>5 DEF DInv

(* A step that leaves the session, the kernel and the dispatches alone.      *)
LEMMA IdleStep ==
  ASSUME DInv,
         UNCHANGED <<stage, dispatch, package, envelopes, session, calls, log, received, asserted>>,
         kernel' = kernel \/ kernel' = "thrown"
  PROVE  DInv'
<1>1. /\ CallsAreAsserted' /\ Numbered' /\ Kept'
      /\ calls' \in [Slots -> [tool : Tools \cup {NoTool}, dispatch : Nat]]
      /\ envelopes' \in Seq(Stored')
      /\ \A c \in log' : c.dispatch \in Nat /\ c.capabilities = {}
      /\ \A e \in Stored' : e.dispatch \in Nat
      /\ dispatch' \in Nat
  BY Carried
<1>2. TypeInv'
  BY <1>1 DEF DInv, TypeInv
<1>3. Granted'
  BY DEF DInv, Granted
<1>4. Receiving'
  BY DEF DInv, Receiving, Closed, Pending, Unviolated, Supported
<1> QED
  BY <1>1, <1>2, <1>3, <1>4 DEF DInv

(* A step of the session's own, which is not its answer to a violation.      *)
LEMMA SessionStep ==
  ASSUME DInv,
         UNCHANGED <<kernel, stage, dispatch, package, envelopes, calls, log, received>>,
         asserted \subseteq asserted',
         session' \in Sessions(session'.result),
         session'.conforming => session.conforming \/ dispatch \in asserted',
         session'.security = session.security,
         session'.result.kind = "ENVELOPE" =>
           session.result.kind = "ENVELOPE" \/ Pending(dispatch) = {}
  PROVE  DInv'
<1>1. /\ CallsAreAsserted' /\ Numbered' /\ Kept'
      /\ calls' \in [Slots -> [tool : Tools \cup {NoTool}, dispatch : Nat]]
      /\ envelopes' \in Seq(Stored')
      /\ \A c \in log' : c.dispatch \in Nat /\ c.capabilities = {}
      /\ \A e \in Stored' : e.dispatch \in Nat
      /\ dispatch' \in Nat
  BY Carried
<1>2. TypeInv'
  BY <1>1 DEF DInv, TypeInv
<1>3. Granted'
  BY DEF DInv, Granted
<1>4. Receiving'
  BY DEF DInv, Receiving, Closed, Pending, Unviolated, Supported
<1> QED
  BY <1>1, <1>2, <1>3, <1>4 DEF DInv

LEMMA DispatchFailsStep ==
  ASSUME DInv, NEW models, DispatchFails(models)
  PROVE  DInv'
<1>1. stage \in Stages
  BY DEF DispatchFails, DInv, Granted
<1>2. kernel' \in {"choosing", "ended"} /\ (kernel' = "choosing" => stage' \in Stages)
  BY <1>1, WhereTo DEF DispatchFails, DecideFailed
<1> QED
  BY <1>2, FailingStep DEF DispatchFails

LEMMA OpenDispatchStep ==
  ASSUME DInv, NEW models, OpenDispatch(models)
  PROVE  DInv'
<1>1. /\ CallsAreAsserted' /\ Numbered' /\ Kept'
      /\ calls' \in [Slots -> [tool : Tools \cup {NoTool}, dispatch : Nat]]
      /\ envelopes' \in Seq(Stored')
      /\ \A c \in log' : c.dispatch \in Nat /\ c.capabilities = {}
      /\ \A e \in Stored' : e.dispatch \in Nat
      /\ dispatch' \in Nat
  BY Carried DEF OpenDispatch
<1>2. session' \in Sessions(session'.result) /\ ~session'.conforming
      /\ session'.result.kind # "ENVELOPE" /\ kernel' = "session"
  BY SessionType DEF DInv, TypeInv, OpenDispatch
<1>3. TypeInv'
  BY <1>1, <1>2 DEF TypeInv
<1>4. Granted'
  BY <1>2 DEF Granted, OpenDispatch, DInv
<1>5. Unviolated(dispatch)'
  BY DEF DInv, TypeInv, Numbered, OpenDispatch, Unviolated
<1>6. Receiving'
  BY <1>2, <1>5 DEF Receiving
<1> QED
  BY <1>1, <1>3, <1>4, <1>6 DEF DInv

LEMMA SessionSteps ==
  ASSUME DInv
  PROVE  /\ \A observed : ReportSurface(observed) => DInv'
         /\ TimerFires => DInv'
         /\ \A result \in Results : StreamEnds(result) => DInv'
<1>0. session \in Sessions(session.result)
  BY DEF DInv, TypeInv
<1>1. ASSUME NEW observed, ReportSurface(observed)
      PROVE  DInv'
  <2> DEFINE verdict == EvaluateSurface(package.tools, observed)
  <2>1. verdict \in SurfaceVerdicts
    BY SurfaceType
  <2>2. /\ session' = [session EXCEPT !.surface = verdict,
                                      !.conforming = @ \/ verdict = "CONFORMS",
                                      !.listening = verdict = "CONFORMS"]
        /\ asserted' = IF verdict = "CONFORMS" THEN asserted \cup {dispatch} ELSE asserted
    BY <1>1 DEF ReportSurface
  <2> HIDE DEF verdict
  <2>3. session' \in Sessions(session'.result) /\ session'.security = session.security
        /\ session'.result = session.result
    BY <1>0, <2>1, <2>2 DEF Sessions
  <2>4. session'.conforming => session.conforming \/ dispatch \in asserted'
    BY <1>0, <2>2 DEF Sessions
  <2> QED
    BY <1>1, <2>2, <2>3, <2>4, SessionStep DEF ReportSurface
<1>2. ASSUME TimerFires
      PROVE  DInv'
  <2>1. session' = [session EXCEPT !.timedOut = TRUE, !.open = FALSE]
    BY <1>2 DEF TimerFires
  <2>2. session' \in Sessions(session'.result) /\ session'.security = session.security
        /\ session'.result = session.result /\ session'.conforming = session.conforming
    BY <1>0, <2>1 DEF Sessions
  <2>3. session'.conforming => session.conforming \/ dispatch \in asserted'
    BY <2>2
  <2> QED
    BY <1>2, <2>2, <2>3, SessionStep DEF TimerFires
<1>3. ASSUME NEW result \in Results, StreamEnds(result)
      PROVE  DInv'
  <2>1. session' = [session EXCEPT !.listening = FALSE, !.open = FALSE, !.result = result]
    BY <1>3 DEF StreamEnds
  <2>2. session' \in Sessions(session'.result) /\ session'.security = session.security
        /\ session'.result = result /\ session'.conforming = session.conforming
    BY <1>0, <2>1 DEF Sessions
  <2>3. result.kind = "ENVELOPE" => Pending(dispatch) = {}
    BY <1>3 DEF Results, Unanswered, Pending, NoEnvelope
  <2>4. session'.conforming => session.conforming \/ dispatch \in asserted'
    BY <2>2
  <2> QED
    BY <1>3, <2>2, <2>3, <2>4, SessionStep DEF StreamEnds
<1> QED
  BY <1>1, <1>2, <1>3

(* A call is of the present dispatch, which no envelope is of yet.           *)
LEMMA CallStep ==
  ASSUME DInv, NEW slot \in Slots, NEW tool \in Tools, CallTool(slot, tool)
  PROVE  DInv'
<1> DEFINE call == [tool |-> tool, dispatch |-> dispatch]
<1>1. /\ kernel = "session" /\ session.result.kind # "ENVELOPE"
      /\ calls' = [calls EXCEPT ![slot] = call]
      /\ UNCHANGED <<kernel, stage, dispatch, package, envelopes, session, log, received, asserted>>
  BY DEF CallTool
<1>2. call \in [tool : Tools \cup {NoTool}, dispatch : Nat] /\ call.dispatch = dispatch
      /\ call.tool = tool
  BY DEF DInv, TypeInv
<1> HIDE DEF call
<1>3. /\ calls \in [Slots -> [tool : Tools \cup {NoTool}, dispatch : Nat]]
      /\ dispatch \in Nat /\ Stored' = Stored /\ envelopes' \in Seq(Stored')
  BY <1>1 DEF DInv, TypeInv, Stored
<1>4. /\ calls' \in [Slots -> [tool : Tools \cup {NoTool}, dispatch : Nat]]
      /\ calls'[slot] = call /\ \A s \in Slots \ {slot} : calls'[s] = calls[s]
  BY <1>1, <1>2, <1>3
<1>5. TypeInv'
  BY <1>1, <1>3, <1>4 DEF DInv, TypeInv
<1>6. Granted'
  BY <1>1 DEF DInv, Granted
<1>7. CallsAreAsserted'
  <2>1. tool \in Grants(stage) /\ stage \in Stages /\ session.conforming
    BY <1>1 DEF CallTool, Invokable, ServesTool, Qualify, DInv, Granted
  <2>2. dispatch \in asserted /\ ~\E o \in Operations : o.tool = tool /\ o.mutating
    BY <2>1, GrantsDoNotMutate DEF DInv, Granted
  <2>3. ASSUME NEW s \in Slots, calls'[s] # Idle
        PROVE  /\ calls'[s].dispatch \in asserted
               /\ ~\E o \in Operations : o.tool = calls'[s].tool /\ o.mutating
    <3>1. CASE s = slot
      BY <1>2, <1>4, <2>2, <3>1
    <3>2. CASE s # slot
      BY <1>4, <2>3, <3>2 DEF DInv, CallsAreAsserted
    <3> QED
      BY <3>1, <3>2
  <2> QED
    BY <1>1, <2>3 DEF CallsAreAsserted
<1>8. Numbered'
  BY <1>1, <1>2, <1>3, <1>4 DEF DInv, Numbered
<1>9. Receiving'
  BY <1>1 DEF DInv, Receiving, Unviolated
<1>10. Kept'
  <2>1. ASSUME NEW e \in Stored
        PROVE  Closed(e.coverage, e.dispatch)'
    <3>1. e.dispatch < dispatch /\ e.dispatch \in Nat
      BY <1>1 DEF DInv, Numbered, TypeInv
    <3>2. e.dispatch # dispatch
      BY <1>3, <3>1
    <3>3. Pending(e.dispatch)' \subseteq Pending(e.dispatch)
      BY <1>2, <1>4, <3>2 DEF Pending
    <3> QED
      BY <1>1, <3>3 DEF DInv, Kept, Closed, Unviolated, Supported
  <2> QED
    BY <1>3, <2>1 DEF Kept
<1> QED
  BY <1>5, <1>6, <1>7, <1>8, <1>9, <1>10 DEF DInv

(* A call that is answered, now or long after its dispatch, was pending.     *)
LEMMA AnswerStep ==
  ASSUME DInv, NEW slot \in Slots, NEW outcome, AnswerCall(slot, outcome)
  PROVE  DInv'
<1> DEFINE record == CallRecord(calls[slot], outcome)
           d == calls[slot].dispatch
<1>0. /\ calls \in [Slots -> [tool : Tools \cup {NoTool}, dispatch : Nat]]
      /\ session \in Sessions(session.result) /\ dispatch \in Nat
  BY DEF DInv, TypeInv
<1>1. /\ calls[slot] # Idle /\ calls' = [calls EXCEPT ![slot] = Idle]
      /\ log' = log \cup {record}
      /\ UNCHANGED <<kernel, stage, dispatch, package, envelopes, received, asserted>>
  BY DEF AnswerCall
<1>2. /\ record.dispatch = d /\ record.capabilities = {} /\ record.outcome = outcome
      /\ d \in Nat /\ d <= dispatch
  BY <1>0 DEF CallRecord, DInv, Numbered
<1>3. /\ session' \in Sessions(session'.result) /\ session'.conforming = session.conforming
      /\ session'.result = session.result
      /\ session.security => session'.security
      /\ outcome = "SECURITY" /\ kernel = "session" /\ d = dispatch => session'.security
  <2>1. session' = session
        \/ session' = [session EXCEPT !.security = TRUE, !.open = FALSE]
    BY DEF AnswerCall
  <2>2. outcome = "SECURITY" /\ kernel = "session" /\ d = dispatch =>
          session' = [session EXCEPT !.security = TRUE, !.open = FALSE]
    BY DEF AnswerCall
  <2> HIDE DEF d
  <2> QED
    BY <1>0, <2>1, <2>2 DEF Sessions
<1>4. Idle \in [tool : Tools \cup {NoTool}, dispatch : Nat] /\ Idle.dispatch = 0
  BY DEF Idle
<1> HIDE DEF record
<1>5. /\ calls' \in [Slots -> [tool : Tools \cup {NoTool}, dispatch : Nat]]
      /\ calls'[slot] = Idle /\ \A s \in Slots \ {slot} : calls'[s] = calls[s]
  BY <1>0, <1>1, <1>4
<1>6. Stored' = Stored /\ envelopes' \in Seq(Stored')
  BY <1>1 DEF Stored, DInv, TypeInv
<1>7. TypeInv'
  BY <1>1, <1>2, <1>3, <1>5, <1>6 DEF DInv, TypeInv
<1>8. Granted'
  BY <1>1, <1>3 DEF DInv, Granted
<1>9. CallsAreAsserted'
  BY <1>1, <1>5 DEF DInv, CallsAreAsserted
<1>10. Numbered'
  <2>1. \A s \in Slots : calls'[s].dispatch <= dispatch
    BY <1>0, <1>4, <1>5 DEF DInv, Numbered
  <2> QED
    BY <1>1, <1>2, <1>6, <2>1 DEF DInv, Numbered
<1>11. ASSUME NEW x
       PROVE  /\ Pending(x)' \subseteq Pending(x)
              /\ Unviolated(x) /\ (d = x => outcome # "SECURITY") => Unviolated(x)'
              /\ Pending(x) = {} => d # x
  <2>1. Pending(x)' \subseteq Pending(x)
    BY <1>5 DEF Pending
  <2>2. Pending(x) = {} => d # x
    BY <1>1 DEF Pending
  <2> HIDE DEF d
  <2>3. Unviolated(x) /\ (d = x => outcome # "SECURITY") => Unviolated(x)'
    BY <1>1, <1>2 DEF Unviolated
  <2> QED
    BY <2>1, <2>2, <2>3
<1> HIDE DEF d
<1> DEFINE Still(coverage, x) ==
             /\ \A s \in Slots : ~(calls'[s] # Idle /\ calls'[s].dispatch = x)
             /\ \A c \in log' : c.dispatch = x => c.outcome # "SECURITY"
             /\ \A entry \in coverage : ~entry.capability =>
                  \E c \in log' : c.dispatch = x /\ c.paths \cap entry.places # {}
<1>12. \A coverage, x : Closed(coverage, x) => Still(coverage, x)
  <2> SUFFICES ASSUME NEW coverage, NEW x, Closed(coverage, x)
               PROVE  Still(coverage, x)
    OBVIOUS
  <2>1. Supported(coverage, x)'
    BY <1>1 DEF Closed, Supported
  <2>2. Pending(x)' = {} /\ Unviolated(x)'
    BY <1>11 DEF Closed
  <2> QED
    BY <2>1, <2>2 DEF Pending, Unviolated, Supported
<1>13. Receiving'
  <2>1. session'.result.kind = "ENVELOPE" => Pending(dispatch)' = {}
    BY <1>1, <1>3, <1>11 DEF DInv, Receiving, Pending, Unviolated
  <2>2. kernel = "session" /\ ~session'.security => Unviolated(dispatch)'
    BY <1>1, <1>3, <1>11 DEF DInv, Receiving, Pending, Unviolated
  <2>3. kernel = "verifying" => Still(received.coverage, dispatch)
    <3> HIDE DEF Still
    <3> QED
      BY <1>12 DEF DInv, Receiving
  <2>4. kernel = "verifying" => Closed(received.coverage, dispatch)'
    BY <1>1, <2>3 DEF Closed, Pending, Unviolated, Supported
  <2> QED
    BY <1>1, <2>1, <2>2, <2>4 DEF Receiving
<1>14. Kept'
  <2>1. ASSUME NEW e \in Stored
        PROVE  Still(e.coverage, e.dispatch)
    <3> HIDE DEF Still
    <3> QED
      BY <1>12 DEF DInv, Kept
  <2> QED
    BY <1>6, <2>1 DEF Kept, Closed, Pending, Unviolated, Supported
<1> QED
  BY <1>7, <1>8, <1>9, <1>10, <1>13, <1>14 DEF DInv

LEMMA FailedSteps ==
  ASSUME DInv
  PROVE  /\ DispatchFailed => DInv'
         /\ Malformed => DInv'
         /\ ContractViolation => DInv'
         /\ RejectOnEvidence => DInv'
<1>1. ASSUME kernel \in {"session", "verifying"}, DecideFailed(attempt), Without
      PROVE  DInv'
  <2>1. stage \in Stages
    BY <1>1 DEF DInv, Granted
  <2>2. kernel' \in {"choosing", "ended"} /\ (kernel' = "choosing" => stage' \in Stages)
    BY <1>1, <2>1, WhereTo DEF DecideFailed
  <2> QED
    BY <1>1, <2>2, FailingStep DEF Without
<1>2. ASSUME ContractViolation
      PROVE  DInv'
  BY <1>2, FailingStep DEF ContractViolation, Without
<1> QED
  BY <1>1, <1>2 DEF DispatchFailed, Malformed, RejectOnEvidence, Settled, Verified

(* An envelope is received of a dispatch that asked what the envelope covers, *)
(* and was refused nothing as a violation.                                    *)
LEMMA BeginStep ==
  ASSUME DInv, BeginVerification
  PROVE  DInv'
<1>1. /\ kernel = "session" /\ kernel' = "verifying" /\ Outcome = "ENVELOPE"
      /\ Consistent(session.result) /\ received' = session.result /\ session' = NoSession
      /\ UNCHANGED <<stage, dispatch, package, envelopes, calls, log, asserted>>
  BY DEF BeginVerification, Settled
<1>2. /\ CallsAreAsserted' /\ Numbered' /\ Kept'
      /\ calls' \in [Slots -> [tool : Tools \cup {NoTool}, dispatch : Nat]]
      /\ envelopes' \in Seq(Stored')
      /\ \A c \in log' : c.dispatch \in Nat /\ c.capabilities = {}
      /\ \A e \in Stored' : e.dispatch \in Nat
      /\ dispatch' \in Nat
  BY <1>1, Carried
<1>3. session' \in Sessions(session'.result) /\ ~session'.conforming
      /\ session'.result.kind # "ENVELOPE"
  BY <1>1, SessionType DEF DInv, TypeInv
<1>4. TypeInv'
  BY <1>1, <1>2, <1>3 DEF TypeInv
<1>5. Granted'
  BY <1>1, <1>3 DEF DInv, Granted
<1>6. ~session.security /\ session.result.kind = "ENVELOPE"
  BY <1>1, OutcomeEnvelope DEF DInv, TypeInv
<1>7. Pending(dispatch) = {} /\ Unviolated(dispatch)
  BY <1>1, <1>6 DEF DInv, Receiving
<1>8. package.tools # {}
  BY <1>1, DispatchAssumption DEF DInv, Granted
<1>9. Supported(session.result.coverage, dispatch)
  <2> SUFFICES ASSUME NEW entry \in session.result.coverage, ~entry.capability
               PROVE  \E c \in log : c.dispatch = dispatch /\ c.paths \cap entry.places # {}
    BY DEF Supported
  <2>1. CoverageSupported(entry, CallsFor(dispatch), package.tools)
    BY <1>1 DEF Consistent, Reconciles
  <2>2. Reconcilable(entry, CallsFor(dispatch))
    BY DEF Reconcilable
  <2>3. PICK c \in CallsFor(dispatch) : CallSupports(entry, c)
    BY <1>8, <2>1, <2>2 DEF CoverageSupported
  <2>4. c \in log /\ c.dispatch = dispatch /\ c.capabilities = {}
    BY <2>3 DEF CallsFor, DInv, TypeInv
  <2> QED
    BY <2>3, <2>4 DEF CallSupports
<1>10. Receiving'
  BY <1>1, <1>3, <1>7, <1>9 DEF Receiving, Closed, Pending, Unviolated, Supported
<1> QED
  BY <1>2, <1>4, <1>5, <1>10 DEF DInv

(* An envelope is kept with the dispatch it is of and what it covers.        *)
LEMMA AcceptStep ==
  ASSUME DInv, NEW val, AcceptEnvelope(val)
  PROVE  DInv'
<1>1. /\ kernel = "verifying"
      /\ UNCHANGED <<dispatch, package, session, calls, log, asserted>>
  BY DEF AcceptEnvelope, Verified
<1>2. PICK kept : /\ envelopes' = Append(envelopes, kept)
                  /\ kept.dispatch = dispatch /\ kept.coverage = received.coverage
  BY DEF AcceptEnvelope
<1>3. /\ stage \in Stages /\ kernel' \in {"choosing", "ended"}
      /\ kernel' = "choosing" => stage' \in Stages
  <2>1. stage \in Stages
    BY <1>1 DEF DInv, Granted
  <2> QED
    BY <2>1, WhereTo DEF AcceptEnvelope
<1>4. Stored' = Stored \cup {kept} /\ envelopes' \in Seq(Stored')
  <2>1. envelopes \in Seq(Stored)
    BY DEF DInv, TypeInv
  <2>2. /\ {Append(envelopes, kept)[i] : i \in DOMAIN Append(envelopes, kept)}
             = {envelopes[i] : i \in DOMAIN envelopes} \cup {kept}
        /\ Append(envelopes, kept) \in Seq({envelopes[i] : i \in DOMAIN envelopes} \cup {kept})
    BY <2>1, RangeAppend
  <2> QED
    BY <1>2, <2>2 DEF Stored
<1>5. dispatch \in Nat /\ session \in Sessions(session.result)
  BY DEF DInv, TypeInv
<1>6. TypeInv'
  BY <1>1, <1>2, <1>3, <1>4, <1>5 DEF DInv, TypeInv
<1>7. Granted'
  BY <1>1, <1>3 DEF DInv, Granted
<1>8. CallsAreAsserted'
  BY <1>1 DEF DInv, CallsAreAsserted
<1>9. Numbered'
  BY <1>1, <1>2, <1>3, <1>4, <1>5 DEF DInv, Numbered
<1>10. Receiving'
  BY <1>1, <1>3 DEF DInv, Receiving, Pending
<1>11. Closed(kept.coverage, kept.dispatch)
  BY <1>1, <1>2 DEF DInv, Receiving
<1>12. \A e \in Stored' : Closed(e.coverage, e.dispatch)
  BY <1>4, <1>11 DEF DInv, Kept
<1>13. Kept'
  BY <1>1, <1>12 DEF Kept, Closed, Pending, Unviolated, Supported
<1> QED
  BY <1>6, <1>7, <1>8, <1>9, <1>10, <1>13 DEF DInv

LEMMA DInvStep == DInv /\ [Next]_vars => DInv'
<1> SUFFICES ASSUME DInv, [Next]_vars PROVE DInv'
  OBVIOUS
<1>1. CASE UNCHANGED vars
  BY <1>1, IdleStep DEF vars
<1>2. CASE Kernel
  <2>1. ASSUME NEW e \in received.evidence, VerifyOne(e)
        PROVE  DInv'
    BY <2>1, IdleStep DEF VerifyOne
  <2>2. CASE StoreThrows
    BY <2>2, IdleStep DEF StoreThrows
  <2> QED
    BY <1>2, <2>1, <2>2, DispatchFailsStep, OpenDispatchStep, FailedSteps, BeginStep, AcceptStep
    DEF Kernel
<1>3. CASE Session
  BY <1>3, SessionSteps DEF Session
<1>4. CASE Agent
  BY <1>4, CallStep, AnswerStep DEF Agent
<1>5. ASSUME NEW place \in DOMAIN World, NEW value \in Changes, WorldChanges(place, value)
      PROVE  DInv'
  BY <1>5, IdleStep DEF WorldChanges
<1> QED
  BY <1>1, <1>2, <1>3, <1>4, <1>5 DEF Next

LEMMA DInvAlways == Spec => []DInv
  BY DInvInit, DInvStep, PTL DEF Spec

(* Whenever a call is unanswered, the session of its own dispatch reported a  *)
(* surface that conforms, and what it calls does not mutate: whatever the     *)
(* sessions of the run reported before, and however late the call is made.    *)
THEOREM CallsAlwaysAsserted == Spec => []CallsAreAsserted
<1>1. DInv => CallsAreAsserted
  BY DEF DInv
<1> QED
  BY <1>1, DInvAlways, PTL

(* Each path an accepted envelope covers was asked for by a call of its own   *)
(* dispatch, wherever that dispatch is granted anything at all.               *)
THEOREM CoverageAlwaysOwn == Spec => []CoverageIsItsOwn
<1>1. DInv => CoverageIsItsOwn
  BY DEF DInv, Kept, Closed, Supported, CoverageIsItsOwn
<1> QED
  BY <1>1, DInvAlways, PTL

(* No dispatch an envelope was accepted from had, or will have, a call that   *)
(* was refused as a security violation.                                       *)
THEOREM EnvelopesUnviolated == Spec => []NoEnvelopeOfViolation
<1>1. DInv => NoEnvelopeOfViolation
  BY DEF DInv, Kept, Closed, Unviolated, NoEnvelopeOfViolation
<1> QED
  BY <1>1, DInvAlways, PTL
=============================================================================
