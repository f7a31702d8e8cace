------------------------------ MODULE Adapters ------------------------------
(***************************************************************************)
(* adapters/src/framework.ts: one adapter framework and the calls made of  *)
(* it.  A call runs to its next await: to re-read the resource a ledger    *)
(* record names, to capture the state a mutation is about to change, to    *)
(* run the handler.  Calls interleave there.  What a framework remembers - *)
(* its call log, its mutation events, its dispatch keys - is lost with the *)
(* process; the ledger of a work item is on disk.                          *)
(*                                                                         *)
(* A request is what a caller asks: the operation's descriptor, a path     *)
(* argument, and what holds of the arguments and of the context it is      *)
(* called in.  One work item, one set of identity arguments: a key is an   *)
(* operation, and the dispatch for the dispatch-scoped one.                *)
(***************************************************************************)
EXTENDS Integers, FiniteSets, Functions

CONSTANTS Calls,        \* calls that can be in flight together
          Requests,     \* what is asked for
          MaxCalls,     \* bound: calls finished in one process
          MaxDispatches,\* bound: dispatches, those of later runs included
          MaxLive,      \* bound: live resources of one operation
          MaxCrashes,   \* bound: crashes of the process, and ledger writes that fail
          MaxAggregated \* the policy's log_granularity.max_aggregated

ASSUME BoundsAssumption ==
  /\ {MaxCalls, MaxDispatches, MaxLive, MaxCrashes, MaxAggregated} \subseteq Nat
  /\ MaxAggregated > 0

(* What a descriptor says of its operation holds of every call of it         *)
(* (DescriptorRegistry has one descriptor under a name).                     *)
ASSUME RequestsAssumption ==
  /\ IsFiniteSet(Calls)
  /\ Requests # {}
  /\ \A r, q \in Requests : r.op = q.op =>
       /\ r.mutating <=> q.mutating
       /\ r.keyed <=> q.keyed
       /\ r.external <=> q.external
       /\ r.reversible <=> q.reversible

VARIABLES pc,       \* where each call is: idle, or the await it is at
          request,  \* what each call asked
          dispatch, \* the dispatch calls are made in
          keys,     \* in memory: <<operation, dispatch>> that completed
          ledger,   \* on disk: the operations with a work-item-scoped record
          live,     \* the resources each operation has created and that are still there
          up,       \* whether the system that holds them answers
          log,      \* the last record of the call log, and the calls in the others
          done,     \* calls this process answered
          events,   \* mutation events emitted by this process
          performed,\* effects of this process
          unlogged, \* effects it reported as refused, or as an error
          crashes,  \* crashes, and ledger writes that failed
          answer,   \* what each call's re-read established
          raced,    \* calls whose look at the ledger another call outdated
          excused   \* history: effects that a race, a crash or a failed record excuse

vars == <<pc, request, dispatch, keys, ledger, live, up, log, done, events, performed,
          unlogged, crashes, answer, raced, excused>>

Mutating == {r \in Requests : r.mutating}
Ops == {r.op : r \in Requests}
NoCall == [sig |-> <<>>, count |-> 0, earlier |-> 0]

-----------------------------------------------------------------------------
(* paths.ts: what a path argument is refused for, and in which order.  A     *)
(* path is what the checks find out about it:                                *)
(*   text      it is a non-empty string                                      *)
(*   ambiguous what makes the string and the file disagree, if anything      *)
(*   entry     what lstat and realpath say of it and of its ancestors        *)
(*   lexical, real    it lies in the worktree as written, and resolved       *)
(*   excluded, included   the mandate's out_of_scope and in_scope match it   *)
(*   deny      the deny-list entries it matches: [kind, specificity]         *)
Ambiguities ==
  {"nul", "percent", "device", "unc", "drive_relative", "stream", "short_name",
   "trailing", "reserved"}

(* realPathOf: a missing path is its deepest existing ancestor and the tail. *)
RealPath(entry) ==
  CASE entry \in {"exists", "missing_below_file", "missing"} -> "ok"
    [] entry \in {"loop", "broken_link"} -> "symlink_escape"
    [] OTHER -> "unresolvable"

(* denyMatch: the entry reported is the most specific of those that match,   *)
(* and one of a kind the code does not know matches every path.              *)
DenyMatch(path) ==
  {d \in path.deny : \A e \in path.deny : e.specificity <= d.specificity}

(* The rule a path is refused by, "" for none.                               *)
Confine(path) ==
  CASE ~path.text -> "unresolvable"
    [] path.ambiguous # "" -> "unresolvable"
    [] RealPath(path.entry) # "ok" -> RealPath(path.entry)
    [] ~path.real -> IF path.lexical THEN "symlink_escape" ELSE "worktree_root"
    [] path.excluded -> "mandate_out_of_scope"
    [] ~path.included -> "mandate_in_scope"
    [] DenyMatch(path) # {} -> "deny_list"
    [] OTHER -> ""

(* What failing the dispatch's own mandate is, and every other refusal.      *)
RefusalOf(rule) ==
  IF rule \in {"mandate_in_scope", "mandate_out_of_scope"}
  THEN "scope_violation" ELSE "security_violation"

-----------------------------------------------------------------------------
(* Mutant: a full record is restarted where a new one should be opened.      *)
LoggedLossy(call, sig, near) ==
  IF sig = call.sig /\ near
  THEN [call EXCEPT !.count = IF @ < MaxAggregated THEN @ + 1 ELSE 1]
  ELSE [sig |-> sig, count |-> 1, earlier |-> call.earlier + call.count]

(* CallLog.record: a call identical to the last one, and near enough to it,  *)
(* is counted in its record, up to the policy's limit.                       *)
Logged(call, sig, near) ==
  IF sig = call.sig /\ call.count < MaxAggregated /\ near
  THEN [call EXCEPT !.count = @ + 1]
  ELSE [sig |-> sig, count |-> 1, earlier |-> call.earlier + call.count]

Count(call) == call.earlier + call.count

(* The work-item scope is for what reaches outside the worktree, and for     *)
(* what cannot be undone.                                                    *)
UsesWorkItemScope(r) == r.external \/ ~r.reversible

(* DescriptorRegistry.register, of the rules that matter to what is called.  *)
Registered(r) ==
  /\ r.described
  /\ ~(r.safe /\ r.mutating)
  /\ r.mutating => r.enabled /\ r.gated /\ (r.keyed => r.identified)

(* #checkMutationPreconditions: "" when the mutation may be tried.           *)
MutationRefusal(r) ==
  CASE ~r.enabled -> "security_violation"
    [] ~r.stageMutating -> "security_violation"
    [] ~r.granted -> "grant_missing"
    [] ~r.canEmit -> "security_violation"
    [] ~r.dispatched -> "security_violation"
    [] OTHER -> ""

(* Mutant: every registered operation may be replayed.                       *)
ReplayAnything(r) ==
  CASE ~r.named -> "UNREPLAYABLE"
    [] ~Registered(r) -> "REFUSED"
    [] ~r.verifiable -> "UNREPLAYABLE"
    [] OTHER -> ""

(* replay: what it may not perform, and what there is no point performing.   *)
(* "" when it goes on to perform the operation like any call.                *)
ReplayRefusal(r) ==
  CASE ~r.named -> "UNREPLAYABLE"
    [] ~Registered(r) -> "REFUSED"
    [] ~r.safe -> "REFUSED"
    [] ~r.verifiable -> "UNREPLAYABLE"
    [] OTHER -> ""

(* The answer of #perform before its first await, "" when there is none yet. *)
Answered(r) ==
  CASE ~Registered(r) -> "ERROR"
    [] ~r.valid -> "ERROR"
    [] Confine(r.path) # "" -> RefusalOf(Confine(r.path))
    [] r.mutating /\ MutationRefusal(r) # "" -> MutationRefusal(r)
    [] r.mutating /\ r.keyed /\ <<r.op, dispatch>> \in keys -> "DEDUPLICATED"
    [] OTHER -> ""

(* Mutant: a system that does not answer has nothing to show.                *)
RereadSilenceAbsent(r) ==
  CASE ~r.locatable -> "UNREACHABLE"
    [] up /\ live[r.op] > 0 -> "PRESENT"
    [] OTHER -> "ABSENT"

(* What #reread establishes: only an explicit absence is one.                *)
Reread(r) ==
  CASE ~r.locatable -> "UNREACHABLE"
    [] ~up -> "UNREACHABLE"
    [] live[r.op] > 0 -> "PRESENT"
    [] OTHER -> "ABSENT"

-----------------------------------------------------------------------------
InFlight == {c \in Calls : pc[c] # "idle"}
Others(c) == {d \in InFlight \ {c} : request[d].op = request[c].op}

Init ==
  /\ pc = [c \in Calls |-> "idle"]
  /\ request = [c \in Calls |-> CHOOSE r \in Requests : TRUE]
  /\ dispatch = 1
  /\ keys = {}
  /\ ledger = {}
  /\ live = [o \in Ops |-> 0]
  /\ up = TRUE
  /\ log = NoCall
  /\ done = 0
  /\ events = 0
  /\ performed = 0
  /\ unlogged = 0
  /\ crashes = 0
  /\ answer = [c \in Calls |-> ""]
  /\ raced = {}
  /\ excused = [o \in Ops |-> 0]

(* Where a call that was not answered waits first.                           *)
FirstAwait(r) ==
  IF ~r.mutating THEN "execute"
  ELSE IF r.keyed /\ UsesWorkItemScope(r) /\ r.op \in ledger THEN "reread" ELSE "before"

(* #ok, #refuse and #error: whatever the answer, the call is recorded.       *)
Finish(c, r, outcome) ==
  /\ \E near \in BOOLEAN :
       log' = Logged(log, <<r.op, dispatch, outcome>>, near)
  /\ done' = done + 1
  /\ pc' = [pc EXCEPT ![c] = "idle"]
  /\ answer' = [answer EXCEPT ![c] = ""]
  /\ raced' = (raced \ {c}) \cup (IF pc[c] = "record" THEN Others(c) ELSE {})

Await(c, at) ==
  /\ pc' = [pc EXCEPT ![c] = at]
  /\ UNCHANGED <<log, done, raced, answer>>

(* call, and what replay passes on to #perform: one step to the first await. *)
Call(c) ==
  /\ pc[c] = "idle"
  /\ done + Cardinality(InFlight) < MaxCalls
  /\ \E r \in Requests :
       /\ r.replay => ReplayRefusal(r) = ""
       /\ request' = [request EXCEPT ![c] = r]
       /\ IF Answered(r) # "" THEN Finish(c, r, Answered(r)) ELSE Await(c, FirstAwait(r))
  /\ UNCHANGED <<dispatch, keys, ledger, live, up, events, performed, unlogged, crashes, excused>>

(* The other system answers the re-read of a ledger record's resource.       *)
AnswerReread(c) ==
  /\ pc[c] = "reread"
  /\ answer' = [answer EXCEPT ![c] = Reread(request[c])]
  /\ pc' = [pc EXCEPT ![c] = "resume"]
  /\ UNCHANGED <<request, dispatch, keys, ledger, live, up, log, done, events, performed,
                 unlogged, crashes, raced, excused>>

(* The record stands, or is deleted and the operation goes on, or neither:   *)
(* a deletion takes the record that is there now.                            *)
ResumeReread(c) ==
  /\ pc[c] = "resume"
  /\ \/ /\ answer[c] = "PRESENT"
        /\ Finish(c, request[c], "DEDUPLICATED")
        /\ UNCHANGED <<ledger, excused>>
     \/ /\ answer[c] = "UNREACHABLE"
        /\ Finish(c, request[c], "ambiguous_state")
        /\ UNCHANGED <<ledger, excused>>
     \/ /\ answer[c] = "ABSENT"
        /\ ledger' = ledger \ {request[c].op}
        /\ excused' = [excused EXCEPT ![request[c].op] = IF c \in raced THEN @ + 1 ELSE @]
        /\ Await(c, "before")
  /\ UNCHANGED <<request, dispatch, keys, live, up, events, performed, unlogged, crashes>>

CaptureBefore(c) ==
  /\ pc[c] = "before"
  /\ \/ Await(c, "execute")
     \/ Finish(c, request[c], "security_violation")
  /\ UNCHANGED <<request, dispatch, keys, ledger, live, up, events, performed, unlogged,
                 crashes, excused>>

(* A handler that reads.  It answers, finds a path of its own refused, or    *)
(* throws.                                                                   *)
ExecuteRead(c) ==
  /\ pc[c] = "execute" /\ ~request[c].mutating
  /\ \E outcome \in {"OK", "scope_violation", "ERROR"} : Finish(c, request[c], outcome)
  /\ UNCHANGED <<request, dispatch, keys, ledger, live, up, events, performed, unlogged,
                 crashes, excused>>

Effect(c, excuse) ==
  /\ live[request[c].op] < MaxLive
  /\ live' = [live EXCEPT ![request[c].op] = @ + 1]
  /\ performed' = performed + 1
  /\ excused' = [excused EXCEPT ![request[c].op] = IF excuse THEN @ + 1 ELSE @]

(* A call races if another's effect, or its record, came after it looked.    *)
Races(c) == c \in raced \/ \E d \in Others(c) : pc[d] = "record"

(* A handler that mutates: its effect, or an error before it, or after it.   *)
ExecuteMutation(c) ==
  /\ pc[c] = "execute" /\ request[c].mutating
  /\ \/ /\ Effect(c, Races(c))
        /\ Await(c, "record")
        /\ UNCHANGED unlogged
     \/ /\ Effect(c, TRUE)
        /\ unlogged' = unlogged + 1
        /\ Finish(c, request[c], "ERROR")
     \/ /\ Finish(c, request[c], "ERROR")
        /\ UNCHANGED <<live, performed, unlogged, excused>>
  /\ UNCHANGED <<request, dispatch, keys, ledger, up, events, crashes>>

(* What is recorded once an effect is: its key, and its record.              *)
RecordKeys(c) ==
  LET r == request[c] IN
  /\ keys' = IF r.keyed THEN keys \cup {<<r.op, dispatch>>} ELSE keys
  /\ ledger' = IF r.keyed /\ UsesWorkItemScope(r) THEN ledger \cup {r.op} ELSE ledger

(* Mutant: an event that cannot be emitted is let go.                        *)
RecordAnyway(c) ==
  /\ pc[c] = "record"
  /\ \E emitted \in {0, 1} : events' = events + emitted
  /\ RecordKeys(c)
  /\ Finish(c, request[c], "OK")
  /\ UNCHANGED <<request, dispatch, live, up, performed, unlogged, crashes, excused>>

(* The mutation event first; if there is none to emit, or it cannot be, the  *)
(* call is refused after the fact and no key is recorded.                    *)
Record(c) ==
  /\ pc[c] = "record"
  /\ \/ /\ events' = events + 1
        /\ RecordKeys(c)
        /\ Finish(c, request[c], "OK")
        /\ UNCHANGED <<unlogged, excused>>
     \/ /\ unlogged' = unlogged + 1
        /\ excused' = [excused EXCEPT ![request[c].op] = @ + 1]
        /\ Finish(c, request[c], "security_violation")
        /\ UNCHANGED <<events, keys, ledger>>
  /\ UNCHANGED <<request, dispatch, live, up, performed, crashes>>

(* The ledger cannot be written: ledger.put throws, through #perform, after  *)
(* the event and the dispatch's key, and the call is on no log.              *)
RecordFails(c) ==
  /\ pc[c] = "record"
  /\ request[c].keyed /\ UsesWorkItemScope(request[c])
  /\ crashes < MaxCrashes
  /\ crashes' = crashes + 1
  /\ events' = events + 1
  /\ keys' = keys \cup {<<request[c].op, dispatch>>}
  /\ excused' = [excused EXCEPT ![request[c].op] = @ + 1]
  /\ raced' = (raced \ {c}) \cup Others(c)
  /\ pc' = [pc EXCEPT ![c] = "idle"]
  /\ UNCHANGED <<request, dispatch, ledger, live, up, log, done, performed, unlogged, answer>>

(* Only what is on disk, and in the other system, is left.                   *)
Crash ==
  /\ crashes < MaxCrashes /\ dispatch < MaxDispatches
  /\ crashes' = crashes + 1
  /\ dispatch' = dispatch + 1
  /\ excused' = [o \in Ops |->
       excused[o] + Cardinality({c \in InFlight : pc[c] = "record" /\ request[c].op = o})]
  /\ pc' = [c \in Calls |-> "idle"]
  /\ keys' = {}
  /\ log' = NoCall
  /\ done' = 0 /\ events' = 0 /\ performed' = 0 /\ unlogged' = 0
  /\ answer' = [c \in Calls |-> ""]
  /\ raced' = {}
  /\ UNCHANGED <<request, ledger, live, up>>

(* A dispatch that is retried is another dispatch of the same process.       *)
NextDispatch ==
  /\ InFlight = {} /\ dispatch < MaxDispatches
  /\ dispatch' = dispatch + 1
  /\ UNCHANGED <<pc, request, keys, ledger, live, up, log, done, events, performed,
                 unlogged, crashes, answer, raced, excused>>

(* What others do to the system the resources are in.                        *)
Outside ==
  /\ \/ /\ \E o \in Ops : live[o] > 0 /\ live' = [live EXCEPT ![o] = @ - 1]
        /\ UNCHANGED up
     \/ /\ up' = ~up
        /\ UNCHANGED live
  /\ UNCHANGED <<pc, request, dispatch, keys, ledger, log, done, events, performed,
                 unlogged, crashes, answer, raced, excused>>

Next ==
  \/ \E c \in Calls :
       \/ Call(c) \/ AnswerReread(c) \/ ResumeReread(c) \/ CaptureBefore(c)
       \/ ExecuteRead(c) \/ ExecuteMutation(c) \/ Record(c) \/ RecordFails(c)
  \/ Crash \/ NextDispatch \/ Outside

Spec == Init /\ [][Next]_vars

-----------------------------------------------------------------------------
(* A key of the work item has at most one live effect, over every dispatch   *)
(* and every later run, but for those that two calls of one key in flight    *)
(* together, a crash or a failure between an effect and its record explain   *)
(* (framework.ts steps 7 and 8).                                             *)
OneEffectPerKey ==
  \A r \in Mutating :
    r.keyed /\ UsesWorkItemScope(r) => live[r.op] <= 1 + excused[r.op]

(* An effect has its mutation event, or its call is on record as refused or  *)
(* failed: none is behind an answer that says nothing of it.                 *)
NothingPerformedSilently ==
  performed = events + unlogged + Cardinality({c \in Calls : pc[c] = "record"})

(* Aggregation loses no call (call-log.ts count).                            *)
CallsConserved == Count(log) = done

(* Verification cannot itself mutate: no replay reaches a mutation.          *)
ReplayNeverMutates ==
  \A c \in InFlight : request[c].replay => ~request[c].mutating

=============================================================================
