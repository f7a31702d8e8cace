------------------------------ MODULE Dispatch ------------------------------
(***************************************************************************)
(* The dispatches of a run: what the kernel does from choosing a model to  *)
(* deciding on the envelope (core/src/kernel.ts, dispatchStage and its     *)
(* caller), and the session that runs the agent                            *)
(* (agents/src/substrate/claude-agent-sdk.ts).                             *)
(*                                                                         *)
(* The kernel awaits the substrate; meanwhile the session reports its tool *)
(* surface, the agent calls tools - several at once - a timer runs, and    *)
(* the stream ends with a result or without one.  A session that is closed *)
(* closes for the agent: a call that began goes on, and is answered to     *)
(* nobody and journalled whenever it is done, whatever the kernel is then  *)
(* doing.  Between two replays of evidence the world may change.           *)
(***************************************************************************)
EXTENDS StateMachine, EnvelopeReceipt, Selection

CONSTANTS Slots,       \* tool calls that can be unanswered together
          Operations,  \* the adapter registry's operations
          Registries,  \* the sets of models the registry may answer with
          Skills,      \* the skills it answers with
          Surfaces,    \* tool surfaces a session may report
          Shapes,      \* what an agent may return, of its own dispatch
          Touches,     \* the places an operation reads
          Refusals,    \* how an operation may be refused: "REFUSED", "SECURITY"
          World,       \* the initial value of each place; -2 is out of reach
          Changes,     \* what a place may change to
          MaxChanges   \* bound: changes of the world

VARIABLES kernel,    \* "choosing", "session", "verifying", "ended" or "thrown"
          stage, attempt, escalated,
          dispatch,  \* the number of the last dispatch
          package,   \* what its input package grants: model, tools, skills
          envelopes, \* accepted envelopes, with the marks of their evidence
          session,   \* of that dispatch: its transport and its DispatchGuard
          calls,     \* tool calls not answered yet
          log,       \* the run log's adapter_call events
          received,  \* the envelope whose evidence is being verified
          marks,     \* what that has established
          world,
          changed,   \* how often the world has changed
          asserted   \* history: dispatches whose session reported a conforming surface

vars == <<kernel, stage, attempt, escalated, dispatch, package, envelopes, session, calls,
          log, received, marks, world, changed, asserted>>

Idle == [tool |-> NoTool, dispatch |-> 0]
NoPackage == [model |-> NoModel, tools |-> {}, skills |-> <<>>]
NoEnvelope == [kind |-> "NOTHING", evidence |-> {}]
NoMarks == [e \in {} |-> "NONE"]
NoLoops == [c \in Counters |-> 0]
Unreachable == -2

Grants(s) == GrantTools(Operations, EffectiveSpec(s), Descriptors[s].mutating)
Spawns(s) == Grants(s) \cap SpawningTools

(* Policy admits read-only work alone, and of that each stage's agent but    *)
(* the orchestrator, which is dispatched to none of its stages, has a tool.  *)
(* A tool's name is made of its adapter's and its operation's.               *)
ASSUME DispatchAssumption ==
  /\ GraphStages # <<>>
  /\ \A s \in Stages : Descriptors[s].mutating = FALSE /\ Grants(s) # {}
  /\ \A o \in Operations : /\ o.tool \in Tools
                            /\ o.mutating \in BOOLEAN /\ o.observation_safe \in BOOLEAN
  /\ \A o, p \in Operations : o.tool = p.tool => o = p

(* The names of the skills the input package offers, in order.               *)
SkillsOffered(s) ==
  LET offers == SelectSkills(Skills, ClassifyDispatch(EffectiveSpec(s), s,
                                                      Descriptors[s].mutating))
  IN  [i \in DOMAIN offers |-> offers[i].entry.id]

Expectation ==
  [dispatch |-> dispatch, stage |-> stage, agent |-> Descriptors[stage].agent,
   outputs |-> EffectiveSpec(stage).required_outputs,
   criteria |-> Descriptors[stage].criteria, graphStages |-> Stages,
   obligations |-> Stages \cup {"production"}
                     \cup UNION {Descriptors[s].required_outputs : s \in Stages}]

NoSession ==
  [open |-> FALSE, listening |-> FALSE, conforming |-> FALSE, security |-> FALSE,
   timedOut |-> FALSE, surface |-> "NONE", result |-> NoEnvelope]

(* Mutant: a surface asserted once is asserted for the run.                  *)
SessionWithOldGuard ==
  [NoSession EXCEPT !.open = TRUE, !.listening = TRUE, !.conforming = asserted # {}]

(* open, and a DispatchGuard of its own.                                     *)
NewSession == [NoSession EXCEPT !.open = TRUE, !.listening = TRUE]


-----------------------------------------------------------------------------
Init ==
  /\ kernel = "choosing"
  /\ stage = GraphStages[1]
  /\ attempt = 0 /\ escalated = FALSE
  /\ dispatch = 0 /\ package = NoPackage
  /\ envelopes = <<>>
  /\ session = NoSession
  /\ calls = [s \in Slots |-> Idle]
  /\ log = {}
  /\ received = NoEnvelope /\ marks = NoMarks
  /\ world = World /\ changed = 0
  /\ asserted = {}

(* The run loop carries out what was decided of a stage's n-th attempt.      *)
CarryOut(action, n) ==
  CASE action.kind = "TRANSITION" ->
         /\ stage' = Edges[action.edge].to
         /\ attempt' = 0 /\ escalated' = FALSE
         /\ kernel' = IF Edges[action.edge].to \in Stages THEN "choosing" ELSE "ended"
    [] action.kind = "REDISPATCH" ->
         /\ escalated' = (escalated \/ action.escalate)
         /\ kernel' = "choosing"
         /\ attempt' = n
         /\ UNCHANGED stage
    [] OTHER -> kernel' = "ended" /\ attempt' = n /\ UNCHANGED <<stage, escalated>>

(* decide: a dispatch that returned no envelope is a FAILED one.             *)
DecideFailed(n) == CarryOut(FailedAction(n, escalated), n)

(* The model asked for: escalation passes over that of the last envelope.    *)
ModelFor(models) ==
  SelectModel(models, EffectiveSpec(stage).model, escalated,
              IF envelopes = <<>> THEN NoModel ELSE envelopes[Len(envelopes)].model)

(* dispatchStage, of a dispatch that opens no session.                       *)
DispatchFails(models) ==
  /\ kernel = "choosing"
  /\ ModelFor(models) = NoModel \/ Spawns(stage) # {}
  /\ dispatch' = dispatch + 1
  /\ package' = [NoPackage EXCEPT !.model = ModelFor(models)]
  /\ DecideFailed(attempt + 1)
  /\ session' = NoSession
  /\ UNCHANGED <<envelopes, calls, log, received, marks, world, changed, asserted>>

(* dispatchStage to the substrate's dispatch: the intent is journalled, with *)
(* the tools and skills, before the session opens.                           *)
OpenDispatch(models) ==
  /\ kernel = "choosing"
  /\ ModelFor(models) # NoModel
  /\ Spawns(stage) = {}
  /\ dispatch' = dispatch + 1
  /\ attempt' = attempt + 1
  /\ package' = [model |-> ModelFor(models), tools |-> Grants(stage),
                 skills |-> SkillsOffered(stage)]
  /\ kernel' = "session"
  /\ session' = NewSession
  /\ UNCHANGED <<stage, escalated, envelopes, calls, log, received, marks, world, changed,
                 asserted>>

-----------------------------------------------------------------------------
(* The session reports its surface, and may again: each report is compared,  *)
(* and one that does not conform ends the loop over the session's events.    *)
ReportSurface(observed) ==
  LET verdict == EvaluateSurface(package.tools, observed)
  IN  /\ session.listening
      /\ session' = [session EXCEPT !.surface = verdict,
                                    !.conforming = @ \/ verdict = "CONFORMS",
                                    !.listening = verdict = "CONFORMS"]
      /\ asserted' = IF verdict = "CONFORMS" THEN asserted \cup {dispatch} ELSE asserted
      /\ UNCHANGED <<kernel, stage, attempt, escalated, dispatch, package, envelopes, calls,
                     log, received, marks, world, changed>>

(* The checks of invoke: that the dispatch has run out of time is not one.   *)
Invokable(name) ==
  /\ ServesTool(package.tools, name)
  /\ ~session.security
  /\ session.conforming
  /\ name[2] \in package.tools

(* The agent calls a tool and the invoker takes it to the adapter.  A call   *)
(* that is refused here changes nothing.  An agent that has returned its     *)
(* final text calls nothing more; otherwise the substrate answers calls as   *)
(* long as it is awaited, the session closed or not.                         *)
CallTool(slot, tool) ==
  /\ kernel = "session"
  /\ session.result.kind # "ENVELOPE"
  /\ calls[slot] = Idle
  /\ PermitTool(package.tools, Qualify(tool))
  /\ Invokable(Qualify(tool))
  /\ calls' = [calls EXCEPT ![slot] = [tool |-> tool, dispatch |-> dispatch]]
  /\ UNCHANGED <<kernel, stage, attempt, escalated, dispatch, package, envelopes, session,
                 log, received, marks, world, changed, asserted>>

Reachable(tool) == \A p \in Touches[tool] : world[p] # Unreachable

(* What the adapter answers.  Refused before its paths were accepted, a call *)
(* touched nothing; one that failed has the paths it asked for on record.    *)
Answers(tool) ==
  (IF Reachable(tool) THEN {"OK"} ELSE {"ERROR"}) \cup Refusals[tool]

CallRecord(call, outcome) ==
  [tool |-> call.tool, dispatch |-> call.dispatch, outcome |-> outcome,
   paths |-> IF outcome \in {"OK", "ERROR"} THEN Touches[call.tool] ELSE {},
   capabilities |-> {}]

(* The call is journalled when it returns, under the dispatch it was made    *)
(* in.  A security violation sets the guard of that dispatch, and closes its *)
(* session, which matters while the substrate has not settled.               *)
AnswerCall(slot, outcome) ==
  /\ kernel \notin {"ended", "thrown"}
  /\ calls[slot] # Idle
  /\ outcome \in Answers(calls[slot].tool)
  /\ calls' = [calls EXCEPT ![slot] = Idle]
  /\ log' = log \cup {CallRecord(calls[slot], outcome)}
  /\ session' = IF /\ outcome = "SECURITY"
                   /\ kernel = "session"
                   /\ calls[slot].dispatch = dispatch
                THEN [session EXCEPT !.security = TRUE, !.open = FALSE]
                ELSE session
  /\ UNCHANGED <<kernel, stage, attempt, escalated, dispatch, package, envelopes, received,
                 marks, world, changed, asserted>>

(* Mutant: the time is up, and nobody tells the session.                     *)
TimerFiresUnheard ==
  /\ session.listening
  /\ ~session.timedOut
  /\ session' = [session EXCEPT !.timedOut = TRUE]
  /\ UNCHANGED <<kernel, stage, attempt, escalated, dispatch, package, envelopes, calls, log,
                 received, marks, world, changed, asserted>>

(* The wall-clock budget of a dispatch; the timer is cleared with the loop.  *)
TimerFires ==
  /\ session.listening
  /\ ~session.timedOut
  /\ session' = [session EXCEPT !.timedOut = TRUE, !.open = FALSE]
  /\ UNCHANGED <<kernel, stage, attempt, escalated, dispatch, package, envelopes, calls, log,
                 received, marks, world, changed, asserted>>

Unanswered == {s \in Slots : calls[s] # Idle /\ calls[s].dispatch = dispatch}

(* An agent's final text, of the dispatch and stage it was told.             *)
Returned(shape) ==
  [shape EXCEPT !.dispatch = dispatch + @, !.stage = stage,
                !.id = IF @ = 0 THEN dispatch ELSE @]

Results ==
  {NoEnvelope, [kind |-> "FAILURE"], [kind |-> "MALFORMED"]}
    \cup (IF Unanswered = {} THEN {Returned(s) : s \in Shapes} ELSE {})

(* The stream ends: with a result, which the agent reaches only when every   *)
(* call it made has been answered, or without one.                           *)
StreamEnds(result) ==
  /\ session.listening
  /\ result \in Results
  /\ session' = [session EXCEPT !.listening = FALSE, !.open = FALSE, !.result = result]
  /\ UNCHANGED <<kernel, stage, attempt, escalated, dispatch, package, envelopes, calls, log,
                 received, marks, world, changed, asserted>>

-----------------------------------------------------------------------------
(* Mutant: a dispatch is as good as its result.                              *)
OutcomeOfResult ==
  CASE session.surface # "CONFORMS" -> "TOOL_SURFACE_VIOLATION"
    [] session.surface = "CONFORMS" /\ session.result.kind = "ENVELOPE" -> "ENVELOPE"
    [] OTHER -> "SUBSTRATE_ERROR"

(* What the substrate's dispatch returns, in the order it looks.             *)
Outcome ==
  LET refused == session.surface \notin {"NONE", "CONFORMS"}
      unhindered == ~session.security /\ ~refused /\ ~session.timedOut
  IN  CASE session.security -> "SECURITY_VIOLATION"
        [] ~session.security /\ refused -> "TOOL_SURFACE_VIOLATION"
        [] ~session.security /\ ~refused /\ session.timedOut -> "TIMEOUT"
        [] unhindered /\ session.surface = "NONE" -> "TOOL_SURFACE_VIOLATION"
        [] unhindered /\ session.surface # "NONE" /\ session.result.kind = "ENVELOPE" ->
             "ENVELOPE"
        [] unhindered /\ session.surface # "NONE" /\ session.result.kind = "MALFORMED" ->
             "MALFORMED_ENVELOPE"
        [] OTHER -> "SUBSTRATE_ERROR"

(* The substrate has closed the session and returns.                         *)
Settled == kernel = "session" /\ ~session.listening

Without ==
  /\ session' = NoSession /\ received' = NoEnvelope /\ marks' = NoMarks
  /\ UNCHANGED <<dispatch, package, envelopes, calls, log, world, changed, asserted>>

DispatchFailed == Settled /\ Outcome # "ENVELOPE" /\ DecideFailed(attempt) /\ Without

(* Mutant: the calls of the run, not of the dispatch.                        *)
CallsOfRun(n) == log

(* callsFor: read from the log when the substrate returns.                   *)
CallsFor(n) == {c \in log : c.dispatch = n}

(* No operation a dispatch can be granted mutates: there are no mutations.   *)
Consistent(envelope) ==
  /\ CrossFieldsAgree(envelope, Expectation)
  /\ Reconciles(envelope, {}, CallsFor(dispatch), package.tools)

(* receiveEnvelope up to its first await.                                    *)
Malformed ==
  /\ Settled /\ Outcome = "ENVELOPE"
  /\ ~session.result.valid
  /\ DecideFailed(attempt)
  /\ Without

(* A contract violation ends the run, BLOCKED.                               *)
ContractViolation ==
  /\ Settled /\ Outcome = "ENVELOPE"
  /\ session.result.valid
  /\ ~Consistent(session.result)
  /\ kernel' = "ended"
  /\ UNCHANGED <<stage, attempt, escalated>>
  /\ Without

BeginVerification ==
  /\ Settled /\ Outcome = "ENVELOPE"
  /\ session.result.valid
  /\ Consistent(session.result)
  /\ kernel' = "verifying"
  /\ received' = session.result
  /\ session' = NoSession
  /\ \E sample \in Samples(session.result) :
       marks' = [e \in Unread(session.result, sample) |-> UnreadStatus(session.result, e)]
  /\ UNCHANGED <<stage, attempt, escalated, dispatch, package, envelopes, calls, log, world,
                 changed, asserted>>

(* The replay of an operation: refused when it is not registered, or not as  *)
(* one that is safe to observe with, out of reach, or what it reads now.     *)
ObservationSafe == {o.tool : o \in {o \in Operations : o.observation_safe}}
Replay(e) ==
  CASE e.op \notin ObservationSafe -> [outcome |-> "REFUSED"]
    [] e.op \in ObservationSafe /\ ~Reachable(e.op) -> [outcome |-> "UNREPLAYABLE"]
    [] OTHER -> [outcome |-> "VALUE", value |-> world[CHOOSE p \in Touches[e.op] : TRUE]]

(* verifyEvidence: one replay, then an await.                                *)
VerifyOne(e) ==
  /\ kernel = "verifying"
  /\ e \in received.evidence \ DOMAIN marks
  /\ marks' = [m \in DOMAIN marks \cup {e} |->
                 IF m = e THEN EvidenceStatus(e, CallsFor(dispatch), Replay(e)) ELSE marks[m]]
  /\ UNCHANGED <<kernel, stage, attempt, escalated, dispatch, package, envelopes, session,
                 calls, log, received, world, changed, asserted>>

Verified == kernel = "verifying" /\ DOMAIN marks = received.evidence

RejectOnEvidence ==
  /\ Verified
  /\ EnvelopeRejected(received, marks)
  /\ DecideFailed(attempt)
  /\ Without

Stored == {envelopes[i] : i \in DOMAIN envelopes}

(* putEnvelope throws on an identifier the agent has used before, and takes  *)
(* the run with it.                                                          *)
StoreThrows ==
  /\ Verified
  /\ ~EnvelopeRejected(received, marks)
  /\ \E e \in Stored : e.id = received.id
  /\ kernel' = "thrown"
  /\ UNCHANGED <<stage, attempt, escalated, dispatch, package, envelopes, session, calls, log,
                 received, marks, world, changed, asserted>>

View(envelope) ==
  [status |-> envelope.status, misclassified |-> FALSE,
   missing |-> ~EffectiveSpec(stage).required_outputs \subseteq envelope.filled]

(* The envelope is stored with its marks, its demoted findings among the     *)
(* others, and decided on.                                                   *)
AcceptEnvelope(val) ==
  /\ Verified
  /\ ~EnvelopeRejected(received, marks)
  /\ \A e \in Stored : e.id # received.id
  /\ envelopes' = Append(envelopes,
       [id |-> received.id, dispatch |-> dispatch, model |-> package.model,
        coverage |-> received.coverage,
        marks |-> {<<e.id, marks[e]>> : e \in DOMAIN marks},
        demoted |-> {f.evidence : f \in DemotedFindings(received, marks)},
        unsupported |-> {f.evidence : f \in UnsupportedFacts(received, marks)}])
  /\ CarryOut(DecideAction(stage, View(received), val, attempt, escalated, NoLoops, NoLoops),
              attempt)
  /\ received' = NoEnvelope /\ marks' = NoMarks
  /\ UNCHANGED <<dispatch, package, session, calls, log, world, changed, asserted>>

(* The world the adapters read changes under the run.                        *)
WorldChanges(place, value) ==
  /\ changed < MaxChanges
  /\ value # world[place]
  /\ world' = [world EXCEPT ![place] = value]
  /\ changed' = changed + 1
  /\ UNCHANGED <<kernel, stage, attempt, escalated, dispatch, package, envelopes, session,
                 calls, log, received, marks, asserted>>

-----------------------------------------------------------------------------
Kernel ==
  \/ \E models \in Registries : DispatchFails(models) \/ OpenDispatch(models)
  \/ DispatchFailed
  \/ Malformed
  \/ ContractViolation
  \/ BeginVerification
  \/ \E e \in received.evidence : VerifyOne(e)
  \/ RejectOnEvidence
  \/ StoreThrows
  \/ \E val \in Valuations(stage) : AcceptEnvelope(val)

Session ==
  \/ \E observed \in Surfaces : ReportSurface(observed)
  \/ TimerFires
  \/ \E result \in Results : StreamEnds(result)

Agent ==
  \E slot \in Slots :
    \/ \E tool \in Tools : CallTool(slot, tool)
    \/ \E outcome \in Answers(calls[slot].tool) : AnswerCall(slot, outcome)

Next ==
  \/ Kernel
  \/ Session
  \/ Agent
  \/ \E place \in DOMAIN World, value \in Changes : WorldChanges(place, value)

(* A session that was closed ends its stream.                                *)
ClosedStreamEnds == ~session.open /\ \E result \in Results : StreamEnds(result)

Spec == /\ Init /\ [][Next]_vars
        /\ WF_vars(Kernel) /\ WF_vars(TimerFires) /\ WF_vars(ClosedStreamEnds)

-----------------------------------------------------------------------------
(* A call the kernel took to an adapter belongs to a dispatch whose own      *)
(* session reported exactly what it was granted, and is of an operation that *)
(* does not mutate: whatever earlier sessions reported, and however late the *)
(* call is made (dispatch and its invoke, claude-agent-sdk.ts).              *)
CallsAreAsserted ==
  \A s \in Slots : calls[s] # Idle =>
    /\ calls[s].dispatch \in asserted
    /\ ~\E o \in Operations : o.tool = calls[s].tool /\ o.mutating

(* An accepted envelope covers no path that a call of its own dispatch did   *)
(* not ask for: what another dispatch of the run asked, or asks while this   *)
(* one is running, supports nothing (callsFor and reconcile).                *)
CoverageIsItsOwn ==
  \A e \in Stored : \A entry \in e.coverage : ~entry.capability =>
    \E c \in log : c.dispatch = e.dispatch /\ c.paths \cap entry.places # {}

(* No envelope is accepted from a dispatch one of whose calls was refused as *)
(* a security violation, whichever result it returned (the order of          *)
(* dispatch's return, claude-agent-sdk.ts, and decide).                      *)
NoEnvelopeOfViolation ==
  \A e \in Stored : ~\E c \in log : c.dispatch = e.dispatch /\ c.outcome = "SECURITY"

(* Every run's dispatches come to an end: a session that says nothing is     *)
(* closed by its timer, and retries are bounded.                             *)
DispatchesConclude == <>(kernel \in {"ended", "thrown"})

=============================================================================
