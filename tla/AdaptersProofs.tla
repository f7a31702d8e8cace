--------------------------- MODULE AdaptersProofs ---------------------------
(***************************************************************************)
(* The adapter framework, for every set of requests, any number of calls   *)
(* in flight together, and any bounds.                                     *)
(*                                                                         *)
(* That a key has one effect rests on what covers an effect: the ledger's  *)
(* record of it, or the call that is about to write one.  A call goes on   *)
(* to its effect only when it saw neither, and whoever changes that under  *)
(* it outdates it (raced).                                                 *)
(***************************************************************************)
EXTENDS Adapters, FiniteSetTheorems, TLAPS

Places == {"idle", "reread", "resume", "before", "execute", "record"}

LogShape(call) == call \in [sig : {call.sig}, count : Nat, earlier : Nat]

TypeInv ==
  /\ pc \in [Calls -> Places]
  /\ request \in [Calls -> Requests]
  /\ live \in [Ops -> Nat]
  /\ excused \in [Ops -> Nat]
  /\ LogShape(log)
  /\ done \in Nat /\ events \in Nat /\ performed \in Nat /\ unlogged \in Nat
  /\ answer \in [Calls -> {"", "PRESENT", "ABSENT", "UNREACHABLE"}]

(* Only a call that mutates gets as far as an effect.                        *)
MutatesAt(places) == \A c \in Calls : pc[c] \in places => request[c].mutating

(* The operations whose keys are the work item's.                            *)
KeyOps == {r.op : r \in {q \in Mutating : q.keyed /\ UsesWorkItemScope(q)}}

Recording(o) == {c \in Calls : pc[c] = "record" /\ request[c].op = o}
Covered(o) == o \in ledger \/ Recording(o) # {}

(* An effect nothing covers is an excused one.                               *)
CoveredOnce ==
  \A o \in KeyOps : live[o] <= excused[o] + (IF Covered(o) THEN 1 ELSE 0)

(* A call on its way to an effect saw no record, and there is none unless    *)
(* it is outdated.                                                           *)
SawNoRecord ==
  \A c \in Calls \ raced :
    pc[c] \in {"before", "execute"} /\ request[c].op \in KeyOps =>
      request[c].op \notin ledger

(* A call that was told its resource is gone may delete the record of it.    *)
ToldItIsGone ==
  \A c \in Calls \ raced :
    pc[c] = "resume" /\ answer[c] = "ABSENT" /\ request[c].op \in KeyOps =>
      LET o == request[c].op IN
      live[o] <= excused[o] + (IF Recording(o) # {} THEN 1 ELSE 0)

KeyInv == CoveredOnce /\ SawNoRecord /\ ToldItIsGone

RecordingCalls == {c \in Calls : pc[c] = "record"}

-----------------------------------------------------------------------------
(* CallLog.record (call-log.ts) keeps the shape of a record and counts one   *)
(* call more, whether it aggregates it or opens a record.                    *)
LEMMA LoggedCounts ==
  ASSUME NEW call, LogShape(call), NEW sig, NEW near \in BOOLEAN
  PROVE  /\ LogShape(Logged(call, sig, near))
         /\ Count(Logged(call, sig, near)) = Count(call) + 1
<1>1. call.count \in Nat /\ call.earlier \in Nat
  BY DEF LogShape
<1>2. CASE sig = call.sig /\ call.count < MaxAggregated /\ near
  <2>1. Logged(call, sig, near) = [call EXCEPT !.count = @ + 1]
    BY <1>2 DEF Logged
  <2> QED
    BY <1>1, <2>1 DEF LogShape, Count
<1>3. CASE ~(sig = call.sig /\ call.count < MaxAggregated /\ near)
  <2>1. Logged(call, sig, near)
          = [sig |-> sig, count |-> 1, earlier |-> call.earlier + call.count]
    BY <1>3 DEF Logged
  <2> QED
    BY <1>1, <2>1 DEF LogShape, Count
<1> QED
  BY <1>2, <1>3

(* Whatever the answer, a call that finishes is in the log, and idle again   *)
(* (#ok, #refuse, #error).                                                   *)
LEMMA FinishLogs ==
  ASSUME TypeInv, NEW c \in Calls, NEW r, NEW outcome, Finish(c, r, outcome)
  PROVE  /\ LogShape(log')
         /\ Count(log') = Count(log) + 1
         /\ done' = done + 1 /\ done' \in Nat
         /\ pc' = [pc EXCEPT ![c] = "idle"] /\ pc' \in [Calls -> Places]
         /\ answer' = [answer EXCEPT ![c] = ""]
         /\ answer' \in [Calls -> {"", "PRESENT", "ABSENT", "UNREACHABLE"}]
<1>1. PICK near \in BOOLEAN : log' = Logged(log, <<r.op, dispatch, outcome>>, near)
  BY DEF Finish
<1>2. LogShape(log') /\ Count(log') = Count(log) + 1
  BY <1>1, LoggedCounts DEF TypeInv
<1>3. pc' = [pc EXCEPT ![c] = "idle"] /\ pc' \in [Calls -> Places]
  BY DEF Finish, TypeInv, Places
<1>4. /\ answer' = [answer EXCEPT ![c] = ""]
      /\ answer' \in [Calls -> {"", "PRESENT", "ABSENT", "UNREACHABLE"}]
  BY DEF Finish, TypeInv
<1>5. done' = done + 1 /\ done' \in Nat
  <2>1. done \in Nat
    BY DEF TypeInv
  <2>2. done' = done + 1
    BY DEF Finish
  <2> QED
    BY <2>1, <2>2
<1> QED
  BY <1>2, <1>3, <1>4, <1>5

(* A call that waits leaves the log alone.                                   *)
LEMMA AwaitKeeps ==
  ASSUME TypeInv, NEW c \in Calls, NEW at \in Places, Await(c, at)
  PROVE  /\ pc' = [pc EXCEPT ![c] = at] /\ pc' \in [Calls -> Places]
         /\ LogShape(log') /\ log' = log
         /\ done' = done /\ done' \in Nat
         /\ answer' \in [Calls -> {"", "PRESENT", "ABSENT", "UNREACHABLE"}]
  BY DEF Await, TypeInv

(* What another call is asked for is an operation.                           *)
LEMMA RequestOps ==
  ASSUME TypeInv, NEW c \in Calls
  PROVE  request[c] \in Requests /\ request[c].op \in Ops
  BY DEF TypeInv, Ops

(* One resource, or one excuse, more or less.                                *)
LEMMA Adjusted ==
  ASSUME NEW f \in [Ops -> Nat], NEW o \in Ops, NEW g,
         \/ g = f
         \/ g = [f EXCEPT ![o] = @ + 1]
         \/ f[o] > 0 /\ g = [f EXCEPT ![o] = @ - 1]
  PROVE  g \in [Ops -> Nat]
<1>1. f[o] \in Nat
  OBVIOUS
<1> QED
  BY <1>1

LEMMA RecordingIsFinite ==
  /\ IsFiniteSet(RecordingCalls) /\ Cardinality(RecordingCalls) \in Nat
  /\ \A o : /\ IsFiniteSet({c \in InFlight : pc[c] = "record" /\ request[c].op = o})
           /\ Cardinality({c \in InFlight : pc[c] = "record" /\ request[c].op = o}) \in Nat
<1>1. /\ RecordingCalls \subseteq Calls
      /\ \A o : {c \in InFlight : pc[c] = "record" /\ request[c].op = o} \subseteq Calls
  BY DEF RecordingCalls, InFlight
<1> QED
  BY <1>1, RequestsAssumption, FS_Subset, FS_CardinalityType

LEMMA InitTyped == Init => TypeInv /\ CallsConserved
<1> SUFFICES ASSUME Init PROVE TypeInv /\ CallsConserved
  OBVIOUS
<1>1. log = [sig |-> <<>>, count |-> 0, earlier |-> 0]
  BY DEF Init, NoCall
<1>2. LogShape(log) /\ Count(log) = 0
  BY <1>1 DEF LogShape, Count
<1>3. (CHOOSE r \in Requests : TRUE) \in Requests
  BY RequestsAssumption
<1> QED
  BY <1>2, <1>3 DEF Init, TypeInv, Places, CallsConserved

LEMMA StepTyped ==
  ASSUME TypeInv, CallsConserved, [Next]_vars
  PROVE  TypeInv' /\ CallsConserved'
<1> USE DEF CallsConserved
<1>1. ASSUME NEW c \in Calls, Call(c) PROVE TypeInv' /\ CallsConserved'
  <2>1. PICK r \in Requests :
          /\ request' = [request EXCEPT ![c] = r]
          /\ IF Answered(r) # "" THEN Finish(c, r, Answered(r)) ELSE Await(c, FirstAwait(r))
    BY <1>1 DEF Call
  <2>2. FirstAwait(r) \in Places
    BY DEF FirstAwait, Places
  <2>3. /\ request' \in [Calls -> Requests]
        /\ UNCHANGED <<live, events, performed, unlogged, excused>>
    BY <1>1, <2>1 DEF Call, TypeInv
  <2>4. CASE Answered(r) # ""
    BY <2>1, <2>3, <2>4, FinishLogs DEF TypeInv
  <2>5. CASE ~(Answered(r) # "")
    BY <2>1, <2>2, <2>3, <2>5, AwaitKeeps DEF TypeInv
  <2> QED
    BY <2>4, <2>5
<1>2. ASSUME NEW c \in Calls, AnswerReread(c) PROVE TypeInv' /\ CallsConserved'
  <2>1. Reread(request[c]) \in {"PRESENT", "ABSENT", "UNREACHABLE"}
    BY DEF Reread
  <2> QED
    BY <1>2, <2>1 DEF AnswerReread, TypeInv, Places
<1>3. ASSUME NEW c \in Calls, ResumeReread(c) PROVE TypeInv' /\ CallsConserved'
  <2>1. UNCHANGED <<request, live, events, performed, unlogged>>
    BY <1>3 DEF ResumeReread
  <2>2. excused' \in [Ops -> Nat]
    <3> DEFINE o == request[c].op
    <3>1. o \in Ops /\ excused \in [Ops -> Nat]
      BY RequestOps DEF TypeInv
    <3>2. excused' = excused \/ excused' = [excused EXCEPT ![o] = @ + 1]
      <4>1. CASE c \in raced
        BY <1>3, <4>1 DEF ResumeReread
      <4>2. CASE c \notin raced
        BY <1>3, <4>2, <3>1 DEF ResumeReread
      <4> QED
        BY <4>1, <4>2
    <3> QED
      BY <3>1, <3>2, Adjusted
  <2>3. CASE \E outcome : Finish(c, request[c], outcome)
    BY <2>1, <2>2, <2>3, FinishLogs DEF TypeInv
  <2>4. CASE Await(c, "before")
    BY <2>1, <2>2, <2>4, AwaitKeeps DEF TypeInv, Places
  <2> QED
    BY <1>3, <2>3, <2>4 DEF ResumeReread
<1>4. ASSUME NEW c \in Calls, CaptureBefore(c) PROVE TypeInv' /\ CallsConserved'
  <2>1. UNCHANGED <<request, live, events, performed, unlogged, excused>>
    BY <1>4 DEF CaptureBefore
  <2>2. CASE Await(c, "execute")
    BY <2>1, <2>2, AwaitKeeps DEF TypeInv, Places
  <2>3. CASE Finish(c, request[c], "security_violation")
    BY <2>1, <2>3, FinishLogs DEF TypeInv
  <2> QED
    BY <1>4, <2>2, <2>3 DEF CaptureBefore
<1>5. ASSUME NEW c \in Calls, ExecuteRead(c) PROVE TypeInv' /\ CallsConserved'
  <2>1. /\ UNCHANGED <<request, live, events, performed, unlogged, excused>>
        /\ \E outcome : Finish(c, request[c], outcome)
    BY <1>5 DEF ExecuteRead
  <2> QED
    BY <2>1, FinishLogs DEF TypeInv
<1>6. ASSUME NEW c \in Calls, ExecuteMutation(c) PROVE TypeInv' /\ CallsConserved'
  <2>1. UNCHANGED <<request, events>>
    BY <1>6 DEF ExecuteMutation
  <2>2. /\ live' \in [Ops -> Nat] /\ excused' \in [Ops -> Nat]
        /\ performed' \in Nat /\ unlogged' \in Nat
    <3> DEFINE o == request[c].op
    <3>1. o \in Ops /\ live \in [Ops -> Nat] /\ excused \in [Ops -> Nat]
      BY RequestOps DEF TypeInv
    <3>2. live' = live \/ live' = [live EXCEPT ![o] = @ + 1]
      BY <1>6 DEF ExecuteMutation, Effect
    <3>3. excused' = excused \/ excused' = [excused EXCEPT ![o] = @ + 1]
      <4>1. CASE Races(c)
        BY <1>6, <4>1 DEF ExecuteMutation, Effect
      <4>2. CASE ~Races(c)
        BY <1>6, <4>2, <3>1 DEF ExecuteMutation, Effect
      <4> QED
        BY <4>1, <4>2
    <3>4. performed \in Nat /\ unlogged \in Nat
      BY DEF TypeInv
    <3>5. performed' \in {performed, performed + 1} /\ unlogged' \in {unlogged, unlogged + 1}
      BY <1>6 DEF ExecuteMutation, Effect
    <3> QED
      BY <3>1, <3>2, <3>3, <3>4, <3>5, Adjusted
  <2>3. CASE Await(c, "record")
    BY <2>1, <2>2, <2>3, AwaitKeeps DEF TypeInv, Places
  <2>4. CASE Finish(c, request[c], "ERROR")
    BY <2>1, <2>2, <2>4, FinishLogs DEF TypeInv
  <2> QED
    BY <1>6, <2>3, <2>4 DEF ExecuteMutation
<1>7. ASSUME NEW c \in Calls, Record(c) PROVE TypeInv' /\ CallsConserved'
  <2>1. /\ UNCHANGED <<request, live, performed>>
        /\ \E outcome : Finish(c, request[c], outcome)
    BY <1>7 DEF Record
  <2>2. excused' \in [Ops -> Nat] /\ events' \in Nat /\ unlogged' \in Nat
    <3> DEFINE o == request[c].op
    <3>1. o \in Ops /\ excused \in [Ops -> Nat]
      BY RequestOps DEF TypeInv
    <3>2. excused' = excused \/ excused' = [excused EXCEPT ![o] = @ + 1]
      BY <1>7 DEF Record
    <3>3. events \in Nat /\ unlogged \in Nat
      BY DEF TypeInv
    <3>4. events' \in {events, events + 1} /\ unlogged' \in {unlogged, unlogged + 1}
      BY <1>7 DEF Record
    <3> QED
      BY <3>1, <3>2, <3>3, <3>4, Adjusted
  <2> QED
    BY <2>1, <2>2, FinishLogs DEF TypeInv
<1>8. ASSUME Crash PROVE TypeInv' /\ CallsConserved'
  <2>1. log' = [sig |-> <<>>, count |-> 0, earlier |-> 0]
    BY <1>8 DEF Crash, NoCall
  <2>2. LogShape(log') /\ Count(log') = 0
    BY <2>1 DEF LogShape, Count
  <2>3. excused' \in [Ops -> Nat]
    <3> DEFINE Lost(o) == {c \in InFlight : pc[c] = "record" /\ request[c].op = o}
    <3>1. \A o \in Ops : Cardinality(Lost(o)) \in Nat
      BY RecordingIsFinite
    <3>2. excused' = [o \in Ops |-> excused[o] + Cardinality(Lost(o))]
      BY <1>8 DEF Crash
    <3>3. excused \in [Ops -> Nat]
      BY DEF TypeInv
    <3> HIDE DEF Lost
    <3> QED
      BY <3>1, <3>2, <3>3
  <2> QED
    BY <1>8, <2>2, <2>3 DEF Crash, TypeInv, Places
<1>9. ASSUME NextDispatch PROVE TypeInv' /\ CallsConserved'
  BY <1>9 DEF NextDispatch, TypeInv
<1>10. ASSUME Outside PROVE TypeInv' /\ CallsConserved'
  <2>1. live' \in [Ops -> Nat]
    <3>1. live \in [Ops -> Nat]
      BY DEF TypeInv
    <3>2. live' = live \/ \E o \in Ops : live[o] > 0 /\ live' = [live EXCEPT ![o] = @ - 1]
      BY <1>10 DEF Outside
    <3> QED
      BY <3>1, <3>2, Adjusted
  <2> QED
    BY <1>10, <2>1 DEF Outside, TypeInv
<1>11. ASSUME UNCHANGED vars PROVE TypeInv' /\ CallsConserved'
  BY <1>11 DEF vars, TypeInv
<1>12. ASSUME NEW c \in Calls, RecordFails(c) PROVE TypeInv' /\ CallsConserved'
  <2>1. /\ UNCHANGED <<request, ledger, live, up, log, done, performed, unlogged, answer>>
        /\ pc' = [pc EXCEPT ![c] = "idle"]
    BY <1>12 DEF RecordFails
  <2>2. excused' \in [Ops -> Nat] /\ events' \in Nat
    <3>1. request[c].op \in Ops /\ excused \in [Ops -> Nat] /\ events \in Nat
      BY RequestOps DEF TypeInv
    <3>2. /\ excused' = [excused EXCEPT ![request[c].op] = @ + 1]
          /\ events' = events + 1
      BY <1>12 DEF RecordFails
    <3> QED
      BY <3>1, <3>2, Adjusted
  <2>3. pc' \in [Calls -> Places]
    BY <2>1 DEF TypeInv, Places
  <2> QED
    BY <1>12, <2>1, <2>2, <2>3 DEF RecordFails, TypeInv
<1> QED
  BY <1>1, <1>2, <1>3, <1>4, <1>5, <1>6, <1>7, <1>8, <1>9, <1>10, <1>11, <1>12 DEF Next

LEMMA SpecTyped == Spec => [](TypeInv /\ CallsConserved)
<1>1. TypeInv /\ CallsConserved /\ [Next]_vars => (TypeInv /\ CallsConserved)'
  BY StepTyped
<1> QED
  BY InitTyped, <1>1, PTL DEF Spec

(* The call log loses no call however it aggregates them, for any limit of   *)
(* aggregation and any number of calls in flight (call-log.ts record).       *)
THEOREM CallsAlwaysConserved == Spec => []CallsConserved
  BY SpecTyped, PTL

-----------------------------------------------------------------------------
(* The calls that have an effect no answer tells of yet.                     *)
LEMMA MoveRecording ==
  ASSUME TypeInv, NEW c \in Calls, NEW at \in Places, pc' = [pc EXCEPT ![c] = at]
  PROVE  RecordingCalls'
           = IF at = "record" THEN RecordingCalls \cup {c} ELSE RecordingCalls \ {c}
<1>1. \A d \in Calls : pc'[d] = IF d = c THEN at ELSE pc[d]
  BY DEF TypeInv
<1> QED
  BY <1>1 DEF RecordingCalls

Silently == performed = events + unlogged + Cardinality(RecordingCalls)

LEMMA StepLoud ==
  ASSUME TypeInv, Silently, [Next]_vars
  PROVE  Silently'
<1>1. /\ performed \in Nat /\ events \in Nat /\ unlogged \in Nat
      /\ Cardinality(RecordingCalls) \in Nat /\ IsFiniteSet(RecordingCalls)
  BY RecordingIsFinite DEF TypeInv
<1>2. ASSUME UNCHANGED <<performed, events, unlogged>>, RecordingCalls' = RecordingCalls
      PROVE  Silently'
  BY <1>2 DEF Silently
<1>3. ASSUME NEW c \in Calls, pc[c] # "record", NEW at \in Places \ {"record"},
             pc' = [pc EXCEPT ![c] = at]
      PROVE  RecordingCalls' = RecordingCalls
  <2>1. RecordingCalls' = RecordingCalls \ {c}
    BY <1>3, MoveRecording
  <2>2. c \notin RecordingCalls
    BY <1>3 DEF RecordingCalls
  <2> QED
    BY <2>1, <2>2
<1>4. /\ \A c \in Calls : \A r, outcome : Finish(c, r, outcome) => pc' = [pc EXCEPT ![c] = "idle"]
      /\ \A c \in Calls : \A at : Await(c, at) => pc' = [pc EXCEPT ![c] = at]
  BY DEF Finish, Await
<1>5. {"idle", "reread", "resume", "before", "execute"} \subseteq Places \ {"record"}
  BY DEF Places
<1>6. ASSUME NEW c \in Calls, Call(c) PROVE Silently'
  <2>1. PICK r \in Requests :
          IF Answered(r) # "" THEN Finish(c, r, Answered(r)) ELSE Await(c, FirstAwait(r))
    BY <1>6 DEF Call
  <2>2. FirstAwait(r) \in Places \ {"record"}
    BY DEF FirstAwait, Places
  <2>3. \E at \in Places \ {"record"} : pc' = [pc EXCEPT ![c] = at]
    BY <2>1, <2>2, <1>4, <1>5
  <2>4. pc[c] # "record" /\ UNCHANGED <<performed, events, unlogged>>
    BY <1>6 DEF Call
  <2> QED
    BY <1>2, <1>3, <2>3, <2>4
<1>7. ASSUME NEW c \in Calls, AnswerReread(c) PROVE Silently'
  <2>1. /\ pc[c] # "record" /\ UNCHANGED <<performed, events, unlogged>>
        /\ pc' = [pc EXCEPT ![c] = "resume"]
    BY <1>7 DEF AnswerReread
  <2> QED
    BY <1>2, <1>3, <1>5, <2>1
<1>8. ASSUME NEW c \in Calls, ResumeReread(c) PROVE Silently'
  <2>1. pc[c] # "record" /\ UNCHANGED <<performed, events, unlogged>>
    BY <1>8 DEF ResumeReread
  <2>2. pc' = [pc EXCEPT ![c] = "idle"] \/ pc' = [pc EXCEPT ![c] = "before"]
    BY <1>8, <1>4 DEF ResumeReread
  <2> QED
    BY <1>2, <1>3, <1>5, <2>1, <2>2
<1>9. ASSUME NEW c \in Calls, CaptureBefore(c) PROVE Silently'
  <2>1. pc[c] # "record" /\ UNCHANGED <<performed, events, unlogged>>
    BY <1>9 DEF CaptureBefore
  <2>2. pc' = [pc EXCEPT ![c] = "idle"] \/ pc' = [pc EXCEPT ![c] = "execute"]
    BY <1>9, <1>4 DEF CaptureBefore
  <2> QED
    BY <1>2, <1>3, <1>5, <2>1, <2>2
<1>10. ASSUME NEW c \in Calls, ExecuteRead(c) PROVE Silently'
  <2>1. pc[c] # "record" /\ UNCHANGED <<performed, events, unlogged>>
    BY <1>10 DEF ExecuteRead
  <2>2. pc' = [pc EXCEPT ![c] = "idle"]
    BY <1>10, <1>4 DEF ExecuteRead
  <2> QED
    BY <1>2, <1>3, <1>5, <2>1, <2>2
<1>11. ASSUME NEW c \in Calls, ExecuteMutation(c) PROVE Silently'
  <2>1. pc[c] = "execute" /\ c \notin RecordingCalls /\ UNCHANGED events
    BY <1>11 DEF ExecuteMutation, RecordingCalls
  <2>2. CASE Await(c, "record") /\ performed' = performed + 1 /\ UNCHANGED unlogged
    <3>1. RecordingCalls' = RecordingCalls \cup {c}
      BY <1>4, <2>2, MoveRecording DEF Places
    <3>2. Cardinality(RecordingCalls') = Cardinality(RecordingCalls) + 1
      BY <1>1, <2>1, <3>1, FS_AddElement
    <3> QED
      BY <1>1, <2>1, <2>2, <3>2 DEF Silently
  <2>3. CASE Finish(c, request[c], "ERROR") /\ performed' = performed + 1
             /\ unlogged' = unlogged + 1
    <3>1. RecordingCalls' = RecordingCalls
      BY <1>3, <1>4, <1>5, <2>1, <2>3
    <3> QED
      BY <1>1, <2>1, <2>3, <3>1 DEF Silently
  <2>4. CASE Finish(c, request[c], "ERROR") /\ UNCHANGED <<performed, unlogged>>
    <3>1. RecordingCalls' = RecordingCalls
      BY <1>3, <1>4, <1>5, <2>1, <2>4
    <3> QED
      BY <1>2, <2>1, <2>4, <3>1
  <2> QED
    BY <1>11, <2>2, <2>3, <2>4 DEF ExecuteMutation, Effect
<1>12. ASSUME NEW c \in Calls, Record(c) PROVE Silently'
  <2>1. pc[c] = "record" /\ c \in RecordingCalls /\ UNCHANGED performed
    BY <1>12 DEF Record, RecordingCalls
  <2>2. \/ events' = events + 1 /\ unlogged' = unlogged
        \/ events' = events /\ unlogged' = unlogged + 1
    BY <1>12 DEF Record
  <2>3. RecordingCalls' = RecordingCalls \ {c}
    BY <1>12, <1>4, MoveRecording DEF Record, Places
  <2>4. Cardinality(RecordingCalls') = Cardinality(RecordingCalls) - 1
    BY <1>1, <2>1, <2>3, FS_RemoveElement
  <2> QED
    BY <1>1, <2>1, <2>2, <2>4 DEF Silently
<1>15. ASSUME NEW c \in Calls, RecordFails(c) PROVE Silently'
  <2>1. /\ pc[c] = "record" /\ c \in RecordingCalls
        /\ performed' = performed /\ unlogged' = unlogged /\ events' = events + 1
    BY <1>15 DEF RecordFails, RecordingCalls
  <2>2. RecordingCalls' = RecordingCalls \ {c}
    BY <1>15, <1>4, MoveRecording DEF RecordFails, Places
  <2>3. Cardinality(RecordingCalls') = Cardinality(RecordingCalls) - 1
    BY <1>1, <2>1, <2>2, FS_RemoveElement
  <2> QED
    BY <1>1, <2>1, <2>3 DEF Silently
<1>13. ASSUME Crash PROVE Silently'
  <2>1. RecordingCalls' = {}
    BY <1>13 DEF Crash, RecordingCalls
  <2>2. Cardinality(RecordingCalls') = 0
    BY <2>1, FS_EmptySet
  <2>3. performed' = 0 /\ events' = 0 /\ unlogged' = 0
    BY <1>13 DEF Crash
  <2> QED
    BY <2>2, <2>3 DEF Silently
<1>14. ASSUME NextDispatch \/ Outside \/ UNCHANGED vars PROVE Silently'
  BY <1>2, <1>14 DEF NextDispatch, Outside, vars, RecordingCalls
<1> QED
  BY <1>6, <1>7, <1>8, <1>9, <1>10, <1>11, <1>12, <1>13, <1>14, <1>15 DEF Next

(* Behind every effect there is its mutation event, or an answer that says   *)
(* the call was refused or failed: the framework's steps 7 to 9 never leave  *)
(* one that nothing tells of.                                                *)
THEOREM NothingSilentlyPerformed == Spec => []NothingPerformedSilently
<1>1. Init => Silently
  <2> SUFFICES ASSUME Init PROVE Silently
    OBVIOUS
  <2>1. RecordingCalls = {}
    BY DEF Init, RecordingCalls
  <2>2. performed = 0 /\ events = 0 /\ unlogged = 0
    BY DEF Init
  <2>3. Cardinality(RecordingCalls) = 0
    BY <2>1, FS_EmptySet
  <2> QED
    BY <2>2, <2>3 DEF Silently
<1>2. TypeInv /\ Silently /\ [Next]_vars => Silently'
  BY StepLoud
<1>3. Silently => NothingPerformedSilently
  BY DEF Silently, NothingPerformedSilently, RecordingCalls
<1> QED
  BY <1>1, <1>2, <1>3, SpecTyped, PTL DEF Spec

-----------------------------------------------------------------------------
(* Who asked what changes only when a call is made, and it was idle.         *)
LEMMA RequestsStay ==
  ASSUME TypeInv, [Next]_vars, NEW d \in Calls, pc[d] # "idle"
  PROVE  request'[d] = request[d]
<1>1. \/ UNCHANGED request
      \/ \E c \in Calls, r \in Requests :
           pc[c] = "idle" /\ request' = [request EXCEPT ![c] = r]
  BY DEF Next, vars, Call, AnswerReread, ResumeReread, CaptureBefore, ExecuteRead,
         ExecuteMutation, Record, RecordFails, Crash, NextDispatch, Outside
<1> QED
  BY <1>1 DEF TypeInv

(* Where a call stands changes with its own steps, and with a crash.         *)
LEMMA PlacesStay ==
  ASSUME TypeInv, [Next]_vars, NEW d \in Calls
  PROVE  \/ pc'[d] = pc[d]
         \/ pc'[d] = "idle"
         \/ /\ pc[d] = "idle" /\ pc'[d] = FirstAwait(request'[d])
            /\ request'[d].replay => ReplayRefusal(request'[d]) = ""
         \/ pc[d] = "reread" /\ pc'[d] = "resume"
         \/ pc[d] = "resume" /\ pc'[d] = "before"
         \/ pc[d] = "before" /\ pc'[d] = "execute"
         \/ pc[d] = "execute" /\ request[d].mutating /\ pc'[d] = "record"
<1> DEFINE Moved ==
         \/ pc'[d] = pc[d]
         \/ pc'[d] = "idle"
         \/ /\ pc[d] = "idle" /\ pc'[d] = FirstAwait(request'[d])
            /\ request'[d].replay => ReplayRefusal(request'[d]) = ""
         \/ pc[d] = "reread" /\ pc'[d] = "resume"
         \/ pc[d] = "resume" /\ pc'[d] = "before"
         \/ pc[d] = "before" /\ pc'[d] = "execute"
         \/ pc[d] = "execute" /\ request[d].mutating /\ pc'[d] = "record"
<1> SUFFICES Moved
  OBVIOUS
<1>1. \A c \in Calls : \A at : pc' = [pc EXCEPT ![c] = at] =>
        pc'[d] = IF d = c THEN at ELSE pc[d]
  BY DEF TypeInv
<1>2. /\ \A c \in Calls : \A r, outcome :
           Finish(c, r, outcome) => pc'[d] = IF d = c THEN "idle" ELSE pc[d]
      /\ \A c \in Calls : \A at : Await(c, at) => pc'[d] = IF d = c THEN at ELSE pc[d]
  BY DEF Finish, Await, TypeInv
<1>3. ASSUME NEW c \in Calls, Call(c) PROVE Moved
  <2>1. PICK r \in Requests :
          /\ r.replay => ReplayRefusal(r) = ""
          /\ request' = [request EXCEPT ![c] = r]
          /\ IF Answered(r) # "" THEN Finish(c, r, Answered(r)) ELSE Await(c, FirstAwait(r))
    BY <1>3 DEF Call
  <2>2. request'[c] = r
    BY <2>1 DEF TypeInv
  <2>3. pc'[d] \in IF d = c THEN {"idle", FirstAwait(r)} ELSE {pc[d]}
    BY <2>1, <1>2
  <2>4. pc[c] = "idle"
    BY <1>3 DEF Call
  <2> QED
    BY <2>1, <2>2, <2>3, <2>4
<1>4. ASSUME NEW c \in Calls, AnswerReread(c) PROVE Moved
  BY <1>1, <1>4 DEF AnswerReread
<1>5. ASSUME NEW c \in Calls, ResumeReread(c) PROVE Moved
  BY <1>2, <1>5 DEF ResumeReread
<1>6. ASSUME NEW c \in Calls, CaptureBefore(c) PROVE Moved
  <2>1. \/ pc'[d] = pc[d]
        \/ pc'[d] = "idle"
        \/ pc[d] = "before" /\ pc'[d] = "execute"
    BY <1>2, <1>6 DEF CaptureBefore
  <2> QED
    BY <2>1
<1>7. ASSUME NEW c \in Calls, ExecuteRead(c) PROVE Moved
  BY <1>2, <1>7 DEF ExecuteRead
<1>8. ASSUME NEW c \in Calls, ExecuteMutation(c) PROVE Moved
  <2>1. /\ pc[c] = "execute" /\ request[c].mutating
        /\ Await(c, "record") \/ Finish(c, request[c], "ERROR")
    BY <1>8 DEF ExecuteMutation
  <2>2. CASE d = c
    BY <1>2, <2>1, <2>2
  <2>3. CASE d # c
    <3>1. pc'[d] = pc[d]
      BY <1>2, <2>1, <2>3
    <3> QED
      BY <3>1
  <2> QED
    BY <2>2, <2>3
<1>9. ASSUME NEW c \in Calls, Record(c) PROVE Moved
  BY <1>2, <1>9 DEF Record
<1>12. ASSUME NEW c \in Calls, RecordFails(c) PROVE Moved
  <2>1. pc' = [pc EXCEPT ![c] = "idle"]
    BY <1>12 DEF RecordFails
  <2>2. pc'[d] = "idle" \/ pc'[d] = pc[d]
    BY <2>1 DEF TypeInv
  <2> QED
    BY <2>2
<1>10. ASSUME Crash PROVE Moved
  BY <1>10 DEF Crash
<1>11. ASSUME NextDispatch \/ Outside \/ UNCHANGED vars PROVE Moved
  BY <1>11 DEF NextDispatch, Outside, vars
<1> QED
  BY <1>3, <1>4, <1>5, <1>6, <1>7, <1>8, <1>9, <1>10, <1>11, <1>12 DEF Next

OnlyMutations == MutatesAt({"reread", "resume", "before", "record"})

LEMMA StepMutates ==
  ASSUME TypeInv, OnlyMutations, [Next]_vars
  PROVE  OnlyMutations'
<1> SUFFICES ASSUME NEW d \in Calls, pc'[d] \in {"reread", "resume", "before", "record"}
             PROVE  request'[d].mutating
  BY DEF OnlyMutations, MutatesAt
<1>1. pc[d] \in {"reread", "resume", "before", "record"} => request[d].mutating
  BY DEF OnlyMutations, MutatesAt
<1>2. pc[d] # "idle" => request'[d] = request[d]
  BY RequestsStay
<1>3. pc'[d] = FirstAwait(request'[d]) => request'[d].mutating
  BY DEF FirstAwait
<1> QED
  BY <1>1, <1>2, <1>3, PlacesStay

(* Verification cannot itself mutate (framework.ts replay): what reaches a   *)
(* handler in a replay is an operation registered as safe, and none that is  *)
(* mutates - whatever is registered and whatever is asked.                   *)
THEOREM ReplaysNeverMutate == Spec => []ReplayNeverMutates
<1>1. Init => ReplayNeverMutates
  BY DEF Init, ReplayNeverMutates, InFlight
<1>2. ASSUME TypeInv, ReplayNeverMutates, [Next]_vars
      PROVE  ReplayNeverMutates'
  <2> SUFFICES ASSUME NEW d \in Calls, pc'[d] # "idle", request'[d].replay
               PROVE  ~request'[d].mutating
    BY DEF ReplayNeverMutates, InFlight
  <2>1. pc[d] # "idle" => ~request'[d].mutating
    BY <1>2, RequestsStay DEF ReplayNeverMutates, InFlight
  <2>2. ReplayRefusal(request'[d]) = "" => ~request'[d].mutating
    BY DEF ReplayRefusal, Registered
  <2> QED
    BY <1>2, <2>1, <2>2, PlacesStay
<1> QED
  BY <1>1, <1>2, SpecTyped, PTL DEF Spec

-----------------------------------------------------------------------------
(* A work item's key: its operation is keyed and scoped whoever calls it.    *)
LEMMA KeyOpsAgree ==
  /\ KeyOps \subseteq Ops
  /\ \A r \in Requests : r.op \in KeyOps => r.mutating /\ r.keyed /\ UsesWorkItemScope(r)
  /\ \A r \in Requests : r.mutating /\ r.keyed /\ UsesWorkItemScope(r) => r.op \in KeyOps
<1>1. KeyOps \subseteq Ops
  BY DEF KeyOps, Ops, Mutating
<1>2. ASSUME NEW r \in Requests, r.op \in KeyOps
      PROVE  r.mutating /\ r.keyed /\ UsesWorkItemScope(r)
  <2>1. PICK q \in Requests : q.mutating /\ q.keyed /\ UsesWorkItemScope(q) /\ r.op = q.op
    BY <1>2 DEF KeyOps, Mutating
  <2>2. /\ r.mutating <=> q.mutating
        /\ r.keyed <=> q.keyed
        /\ r.external <=> q.external
        /\ r.reversible <=> q.reversible
    BY <2>1, RequestsAssumption
  <2> QED
    BY <2>1, <2>2 DEF UsesWorkItemScope
<1>3. ASSUME NEW r \in Requests, r.mutating, r.keyed, UsesWorkItemScope(r)
      PROVE  r.op \in KeyOps
  BY <1>3 DEF KeyOps, Mutating
<1> QED
  BY <1>1, <1>2, <1>3

(* A step that neither begins nor ends an effect: it may move one call, and  *)
(* it may not leave more unexplained resources than there were.              *)
LEMMA QuietStepKeepsKeys ==
  ASSUME TypeInv, TypeInv', KeyInv, NEW c \in Calls,
         pc[c] # "record", pc'[c] # "record",
         \A d \in Calls \ {c} :
           pc'[d] = pc[d] /\ request'[d] = request[d] /\ answer'[d] = answer[d],
         ledger' = ledger,
         \A o \in Ops : live'[o] + excused[o] <= live[o] + excused'[o],
         raced \ {c} \subseteq raced',
         c \notin raced' /\ request'[c].op \in KeyOps =>
           /\ pc'[c] \in {"before", "execute"} => request'[c].op \notin ledger'
           /\ pc'[c] = "resume" /\ answer'[c] = "ABSENT" =>
                live'[request'[c].op] <= excused'[request'[c].op]
  PROVE  KeyInv'
<1>1. \A o : Recording(o)' = Recording(o)
  BY DEF Recording
<1>2. \A o : Covered(o)' <=> Covered(o)
  BY <1>1 DEF Covered
<1>3. \A o \in Ops : /\ live[o] \in Nat /\ excused[o] \in Nat
                    /\ live'[o] \in Nat /\ excused'[o] \in Nat
  BY DEF TypeInv
<1>4. KeyOps \subseteq Ops
  BY KeyOpsAgree
<1>5. CoveredOnce'
  <2> SUFFICES ASSUME NEW o \in KeyOps
               PROVE  live'[o] <= excused'[o] + (IF Covered(o)' THEN 1 ELSE 0)
    BY DEF CoveredOnce
  <2>1. live[o] <= excused[o] + (IF Covered(o) THEN 1 ELSE 0)
    BY DEF KeyInv, CoveredOnce
  <2>2. live'[o] + excused[o] <= live[o] + excused'[o]
    BY <1>4
  <2>3. CASE Covered(o)
    BY <1>2, <1>3, <1>4, <2>1, <2>2, <2>3
  <2>4. CASE ~Covered(o)
    BY <1>2, <1>3, <1>4, <2>1, <2>2, <2>4
  <2> QED
    BY <2>3, <2>4
<1>6. SawNoRecord'
  BY DEF KeyInv, SawNoRecord
<1>7. ToldItIsGone'
  <2> SUFFICES ASSUME NEW d \in Calls \ raced', pc'[d] = "resume", answer'[d] = "ABSENT",
                      NEW o \in KeyOps, o = request'[d].op
               PROVE  live'[o] <= excused'[o] + (IF Recording(o)' # {} THEN 1 ELSE 0)
    BY DEF ToldItIsGone
  <2>1. o \in Ops
    BY <1>4
  <2>2. CASE d = c
    BY <1>3, <2>1, <2>2
  <2>3. CASE d # c
    <3>1. live[o] <= excused[o] + (IF Recording(o) # {} THEN 1 ELSE 0)
      BY <2>3 DEF KeyInv, ToldItIsGone
    <3>2. live'[o] + excused[o] <= live[o] + excused'[o]
      BY <2>1
    <3> QED
      BY <1>1, <1>3, <2>1, <3>1, <3>2
  <2> QED
    BY <2>2, <2>3
<1> QED
  BY <1>5, <1>6, <1>7 DEF KeyInv

LEMMA FinishMoves ==
  ASSUME TypeInv, NEW c \in Calls, NEW r, NEW outcome, Finish(c, r, outcome)
  PROVE  /\ pc'[c] = "idle"
         /\ \A d \in Calls \ {c} : pc'[d] = pc[d] /\ answer'[d] = answer[d]
         /\ raced \ {c} \subseteq raced'
         /\ pc[c] = "record" => Others(c) \subseteq raced'
<1>1. /\ pc' = [pc EXCEPT ![c] = "idle"]
      /\ answer' = [answer EXCEPT ![c] = ""]
      /\ raced' = (raced \ {c}) \cup (IF pc[c] = "record" THEN Others(c) ELSE {})
  BY DEF Finish
<1> QED
  BY <1>1 DEF TypeInv

LEMMA AwaitMoves ==
  ASSUME TypeInv, NEW c \in Calls, NEW at, Await(c, at)
  PROVE  /\ pc'[c] = at
         /\ \A d \in Calls \ {c} : pc'[d] = pc[d]
         /\ answer' = answer /\ raced' = raced
  BY DEF TypeInv, Await

(* What c adds to one operation leaves the others as they were.              *)
LEMMA OneMore ==
  ASSUME NEW f \in [Ops -> Nat], NEW g, NEW o \in Ops, g = [f EXCEPT ![o] = @ + 1]
  PROVE  g[o] = f[o] + 1 /\ \A p \in Ops \ {o} : g[p] = f[p]
  BY DEF Ops

(* A step that leaves resources and excuses as they were.                    *)
LEMMA NoneUnexplained ==
  ASSUME TypeInv, live' = live, excused' = excused
  PROVE  \A o \in Ops : live'[o] + excused[o] <= live[o] + excused'[o]
<1>1. \A o \in Ops : live[o] \in Nat /\ excused[o] \in Nat
  BY DEF TypeInv
<1> QED
  BY <1>1

LEMMA CallKeepsKeys ==
  ASSUME TypeInv, TypeInv', KeyInv, NEW c \in Calls, Call(c)
  PROVE  KeyInv'
<1>1. PICK r \in Requests :
        /\ request' = [request EXCEPT ![c] = r]
        /\ IF Answered(r) # "" THEN Finish(c, r, Answered(r)) ELSE Await(c, FirstAwait(r))
  BY DEF Call
<1>2. /\ pc[c] = "idle"
      /\ ledger' = ledger /\ live' = live /\ excused' = excused
  BY DEF Call
<1>3. /\ request'[c] = r
      /\ \A d \in Calls \ {c} : request'[d] = request[d]
  BY <1>1 DEF TypeInv
<1>4. \A o \in Ops : live'[o] + excused[o] <= live[o] + excused'[o]
  BY <1>2, NoneUnexplained
<1>5. /\ FirstAwait(r) \in {"reread", "before", "execute"}
      /\ r.op \in KeyOps /\ FirstAwait(r) # "reread" => r.op \notin ledger
  <2>1. FirstAwait(r) \in {"reread", "before", "execute"}
    BY DEF FirstAwait
  <2>2. ASSUME r.op \in KeyOps, r.op \in ledger PROVE FirstAwait(r) = "reread"
    <3>1. r.mutating /\ r.keyed /\ UsesWorkItemScope(r)
      BY <2>2, KeyOpsAgree
    <3> QED
      BY <2>2, <3>1 DEF FirstAwait
  <2> QED
    BY <2>1, <2>2
<1>6. /\ pc'[c] \in {"idle", FirstAwait(r)}
      /\ \A d \in Calls \ {c} : pc'[d] = pc[d] /\ answer'[d] = answer[d]
      /\ raced \ {c} \subseteq raced'
  <2>1. CASE Answered(r) # ""
    BY <1>1, <2>1, FinishMoves
  <2>2. CASE ~(Answered(r) # "")
    BY <1>1, <2>2, AwaitMoves
  <2> QED
    BY <2>1, <2>2
<1> QED
  BY <1>2, <1>3, <1>4, <1>5, <1>6, QuietStepKeepsKeys

LEMMA AnswerKeepsKeys ==
  ASSUME TypeInv, TypeInv', KeyInv, NEW c \in Calls, AnswerReread(c)
  PROVE  KeyInv'
<1>1. /\ pc[c] = "reread" /\ pc'[c] = "resume"
      /\ answer'[c] = Reread(request[c])
      /\ \A d \in Calls \ {c} : pc'[d] = pc[d] /\ answer'[d] = answer[d]
      /\ ledger' = ledger /\ live' = live /\ excused' = excused /\ request' = request
      /\ raced' = raced
  BY DEF AnswerReread, TypeInv
<1>2. request[c].op \in Ops
  BY RequestOps
<1>3. \A o \in Ops : live[o] \in Nat /\ excused[o] \in Nat
  BY DEF TypeInv
<1>4. \A o \in Ops : live'[o] + excused[o] <= live[o] + excused'[o]
  BY <1>1, <1>3
<1>5. Reread(request[c]) = "ABSENT" => live[request[c].op] <= excused[request[c].op]
  BY <1>2, <1>3 DEF Reread
<1> QED
  BY <1>1, <1>4, <1>5, QuietStepKeepsKeys

LEMMA CaptureKeepsKeys ==
  ASSUME TypeInv, TypeInv', KeyInv, NEW c \in Calls, CaptureBefore(c)
  PROVE  KeyInv'
<1>1. /\ pc[c] = "before"
      /\ ledger' = ledger /\ live' = live /\ excused' = excused /\ request' = request
  BY DEF CaptureBefore
<1>2. \A o \in Ops : live'[o] + excused[o] <= live[o] + excused'[o]
  BY <1>1, NoneUnexplained
<1>3. /\ \A d \in Calls \ {c} : pc'[d] = pc[d] /\ answer'[d] = answer[d]
      /\ \/ pc'[c] = "idle" /\ raced \ {c} \subseteq raced'
         \/ pc'[c] = "execute" /\ raced' = raced
  BY FinishMoves, AwaitMoves DEF CaptureBefore
<1>4. c \notin raced /\ request[c].op \in KeyOps => request[c].op \notin ledger
  BY <1>1 DEF KeyInv, SawNoRecord
<1> QED
  BY <1>1, <1>2, <1>3, <1>4, QuietStepKeepsKeys

LEMMA ReadKeepsKeys ==
  ASSUME TypeInv, TypeInv', KeyInv, NEW c \in Calls, ExecuteRead(c)
  PROVE  KeyInv'
<1>1. /\ pc[c] = "execute"
      /\ ledger' = ledger /\ live' = live /\ excused' = excused /\ request' = request
  BY DEF ExecuteRead
<1>2. \A o \in Ops : live'[o] + excused[o] <= live[o] + excused'[o]
  BY <1>1, NoneUnexplained
<1>3. /\ \A d \in Calls \ {c} : pc'[d] = pc[d] /\ answer'[d] = answer[d]
      /\ pc'[c] = "idle" /\ raced \ {c} \subseteq raced'
  BY FinishMoves DEF ExecuteRead
<1> QED
  BY <1>1, <1>2, <1>3, QuietStepKeepsKeys

(* The record is deleted by a call that was told its resource is gone.       *)
LEMMA ResumeKeepsKeys ==
  ASSUME TypeInv, TypeInv', KeyInv, NEW c \in Calls, ResumeReread(c)
  PROVE  KeyInv'
<1>1. pc[c] = "resume" /\ live' = live /\ request' = request
  BY DEF ResumeReread
<1>2. CASE /\ \E outcome : Finish(c, request[c], outcome)
           /\ UNCHANGED <<ledger, excused>>
  <2>1. /\ \A d \in Calls \ {c} : pc'[d] = pc[d] /\ answer'[d] = answer[d]
        /\ pc'[c] = "idle" /\ raced \ {c} \subseteq raced'
    BY <1>2, FinishMoves
  <2> QED
    BY <1>1, <1>2, <2>1, NoneUnexplained, QuietStepKeepsKeys
<1>3. CASE /\ answer[c] = "ABSENT"
           /\ ledger' = ledger \ {request[c].op}
           /\ excused' = [excused EXCEPT ![request[c].op] = IF c \in raced THEN @ + 1 ELSE @]
           /\ Await(c, "before")
  <2> DEFINE o == request[c].op
  <2>1. /\ pc'[c] = "before" /\ answer' = answer /\ raced' = raced
        /\ \A d \in Calls \ {c} : pc'[d] = pc[d]
    BY <1>3, AwaitMoves
  <2>2. \A p : Recording(p)' = Recording(p)
    BY <1>1, <2>1 DEF Recording
  <2>3. o \in Ops /\ KeyOps \subseteq Ops
    BY RequestOps, KeyOpsAgree
  <2>4. \A p \in Ops : live[p] \in Nat /\ excused[p] \in Nat
    BY DEF TypeInv
  <2>5. /\ excused'[o] = IF c \in raced THEN excused[o] + 1 ELSE excused[o]
        /\ \A p \in Ops \ {o} : excused'[p] = excused[p]
    BY <1>3, <2>3 DEF TypeInv
  <2> HIDE DEF o
  <2>6. \A p \in KeyOps : live[p] <= excused[p] + (IF Covered(p) THEN 1 ELSE 0)
    BY DEF KeyInv, CoveredOnce
  <2>7. CoveredOnce'
    <3> SUFFICES ASSUME NEW p \in KeyOps
                 PROVE  live'[p] <= excused'[p] + (IF Covered(p)' THEN 1 ELSE 0)
      BY DEF CoveredOnce
    <3>1. CASE p # o
      <4>1. Covered(p)' <=> Covered(p)
        BY <1>3, <2>2, <3>1 DEF Covered, o
      <4> QED
        BY <1>1, <2>3, <2>5, <2>6, <3>1, <4>1
    <3>2. CASE p = o /\ c \in raced
      <4>1. excused'[p] = excused[p] + 1
        BY <2>5, <3>2
      <4> QED
        BY <1>1, <2>3, <2>4, <2>6, <3>2, <4>1
    <3>3. CASE p = o /\ c \notin raced
      <4>1. live[p] <= excused[p] + (IF Recording(p) # {} THEN 1 ELSE 0)
        BY <1>1, <1>3, <3>3 DEF KeyInv, ToldItIsGone, o
      <4>2. Recording(p) # {} => Covered(p)'
        BY <2>2 DEF Covered
      <4>3. excused'[p] = excused[p]
        BY <2>5, <3>3
      <4> QED
        BY <1>1, <2>3, <2>4, <3>3, <4>1, <4>2, <4>3
    <3> QED
      BY <3>1, <3>2, <3>3
  <2>8. SawNoRecord'
    BY <1>1, <1>3, <2>1 DEF KeyInv, SawNoRecord
  <2>9. ToldItIsGone'
    <3> SUFFICES ASSUME NEW d \in Calls \ raced', pc'[d] = "resume", answer'[d] = "ABSENT",
                        NEW p \in KeyOps, p = request'[d].op
                 PROVE  live'[p] <= excused'[p] + (IF Recording(p)' # {} THEN 1 ELSE 0)
      BY DEF ToldItIsGone
    <3>1. live[p] <= excused[p] + (IF Recording(p) # {} THEN 1 ELSE 0)
      BY <1>1, <2>1 DEF KeyInv, ToldItIsGone
    <3>2. p \in Ops /\ excused[p] <= excused'[p] /\ excused'[p] \in Nat
      BY <2>3, <2>4, <2>5
    <3> QED
      BY <1>1, <2>2, <2>4, <3>1, <3>2
  <2> QED
    BY <2>7, <2>8, <2>9 DEF KeyInv
<1> QED
  BY <1>2, <1>3 DEF ResumeReread

(* The effect: a call that is not outdated knows nothing covers one yet.     *)
LEMMA EffectKeepsKeys ==
  ASSUME TypeInv, TypeInv', KeyInv, NEW c \in Calls, ExecuteMutation(c)
  PROVE  KeyInv'
<1> DEFINE o == request[c].op
<1>1. pc[c] = "execute" /\ ledger' = ledger /\ request' = request
  BY DEF ExecuteMutation
<1>2. o \in Ops /\ KeyOps \subseteq Ops
  BY RequestOps, KeyOpsAgree
<1>3. \A p \in Ops : live[p] \in Nat /\ excused[p] \in Nat
  BY DEF TypeInv
<1>4. /\ live \in [Ops -> Nat]
      /\ excused \in [Ops -> Nat]
  BY DEF TypeInv
<1>5. CASE Finish(c, request[c], "ERROR") /\ UNCHANGED <<live, excused>>
  <2>1. /\ \A d \in Calls \ {c} : pc'[d] = pc[d] /\ answer'[d] = answer[d]
        /\ pc'[c] = "idle" /\ raced \ {c} \subseteq raced'
    BY <1>5, FinishMoves
  <2> QED
    BY <1>1, <1>5, <2>1, NoneUnexplained, QuietStepKeepsKeys
<1>6. CASE Finish(c, request[c], "ERROR") /\ Effect(c, TRUE)
  <2>1. /\ \A d \in Calls \ {c} : pc'[d] = pc[d] /\ answer'[d] = answer[d]
        /\ pc'[c] = "idle" /\ raced \ {c} \subseteq raced'
    BY <1>6, FinishMoves
  <2>2. /\ live' = [live EXCEPT ![o] = @ + 1]
        /\ excused' = [excused EXCEPT ![o] = @ + 1]
    BY <1>6 DEF Effect
  <2>3. \A p \in Ops : live'[p] + excused[p] <= live[p] + excused'[p]
    <3> SUFFICES ASSUME NEW p \in Ops
                 PROVE  live'[p] + excused[p] <= live[p] + excused'[p]
      OBVIOUS
    <3>1. \/ p = o /\ live'[p] = live[p] + 1 /\ excused'[p] = excused[p] + 1
          \/ p # o /\ live'[p] = live[p] /\ excused'[p] = excused[p]
      BY <1>2, <1>4, <2>2, OneMore
    <3> QED
      BY <1>3, <3>1
  <2> QED
    BY <1>1, <2>1, <2>3, QuietStepKeepsKeys
<1>7. CASE Await(c, "record") /\ Effect(c, Races(c))
  <2>1. /\ pc'[c] = "record" /\ answer' = answer /\ raced' = raced
        /\ \A d \in Calls \ {c} : pc'[d] = pc[d]
    BY <1>7, AwaitMoves
  <2>2. /\ live' = [live EXCEPT ![o] = @ + 1]
        /\ excused' = [excused EXCEPT ![o] = IF Races(c) THEN @ + 1 ELSE @]
    BY <1>7 DEF Effect
  <2>3. /\ live'[o] = live[o] + 1
        /\ excused'[o] = IF Races(c) THEN excused[o] + 1 ELSE excused[o]
        /\ \A p \in Ops \ {o} : live'[p] = live[p] /\ excused'[p] = excused[p]
    BY <1>2, <1>4, <2>2
  <2>4. /\ \A p : p # o => Recording(p)' = Recording(p)
        /\ Recording(request[c].op)' # {}
    BY <1>1, <2>1 DEF Recording
  <2>5. ~Races(c) => c \notin raced /\ Recording(o) = {}
    BY <1>1 DEF Races, Recording, Others, InFlight
  <2>6. ASSUME o \in KeyOps PROVE live'[o] <= excused'[o] + 1
    <3>1. live[o] <= excused[o] + (IF Covered(o) THEN 1 ELSE 0)
      BY <2>6 DEF KeyInv, CoveredOnce
    <3>2. CASE Races(c)
      BY <1>2, <1>3, <2>3, <3>1, <3>2
    <3>3. CASE ~Races(c)
      <4>1. o \notin ledger
        BY <1>1, <2>5, <2>6, <3>3 DEF KeyInv, SawNoRecord
      <4>2. ~Covered(o)
        BY <2>5, <3>3, <4>1 DEF Covered
      <4> QED
        BY <1>2, <1>3, <2>3, <3>1, <3>3, <4>2
    <3> QED
      BY <3>2, <3>3
  <2>7. CoveredOnce'
    <3> SUFFICES ASSUME NEW p \in KeyOps
                 PROVE  live'[p] <= excused'[p] + (IF Covered(p)' THEN 1 ELSE 0)
      BY DEF CoveredOnce
    <3>1. CASE p = o
      <4>1. Covered(p)'
        BY <1>1, <2>4, <3>1 DEF Covered, Recording
      <4> QED
        BY <2>6, <3>1, <4>1
    <3>2. CASE p # o
      <4>1. live[p] <= excused[p] + (IF Covered(p) THEN 1 ELSE 0)
        BY DEF KeyInv, CoveredOnce
      <4>2. Covered(p)' <=> Covered(p)
        BY <1>1, <2>4, <3>2 DEF Covered
      <4> QED
        BY <1>2, <2>3, <3>2, <4>1, <4>2
    <3> QED
      BY <3>1, <3>2
  <2>8. SawNoRecord'
    BY <1>1, <2>1 DEF KeyInv, SawNoRecord
  <2>9. ToldItIsGone'
    <3> SUFFICES ASSUME NEW d \in Calls \ raced', pc'[d] = "resume", answer'[d] = "ABSENT",
                        NEW p \in KeyOps, p = request'[d].op
                 PROVE  live'[p] <= excused'[p] + (IF Recording(p)' # {} THEN 1 ELSE 0)
      BY DEF ToldItIsGone
    <3>1. CASE p = o
      BY <1>1, <2>4, <2>6, <3>1 DEF Recording
    <3>2. CASE p # o
      <4>1. live[p] <= excused[p] + (IF Recording(p) # {} THEN 1 ELSE 0)
        BY <1>1, <2>1 DEF KeyInv, ToldItIsGone
      <4> QED
        BY <1>2, <2>3, <2>4, <3>2, <4>1
    <3> QED
      BY <3>1, <3>2
  <2> QED
    BY <2>7, <2>8, <2>9 DEF KeyInv
<1> QED
  BY <1>5, <1>6, <1>7 DEF ExecuteMutation

(* What covered the effect, the call, hands over to the ledger's record or,  *)
(* with no record written, to an excuse; whoever looked before is outdated.  *)
LEMMA RecordKeepsKeys ==
  ASSUME TypeInv, TypeInv', OnlyMutations, KeyInv, NEW c \in Calls,
         Record(c) \/ RecordFails(c)
  PROVE  KeyInv'
<1>1. pc[c] = "record" /\ live' = live /\ request' = request
  BY DEF Record, RecordFails
<1>2. /\ pc'[c] = "idle" /\ raced \ {c} \subseteq raced' /\ Others(c) \subseteq raced'
      /\ \A d \in Calls \ {c} : pc'[d] = pc[d] /\ answer'[d] = answer[d]
  <2>1. CASE Record(c)
    <3>1. \E outcome : Finish(c, request[c], outcome)
      BY <2>1 DEF Record
    <3> QED
      BY <1>1, <3>1, FinishMoves
  <2>2. CASE RecordFails(c)
    <3>1. /\ pc' = [pc EXCEPT ![c] = "idle"] /\ answer' = answer
          /\ raced' = (raced \ {c}) \cup Others(c)
      BY <2>2 DEF RecordFails
    <3> QED
      BY <3>1 DEF TypeInv
  <2> QED
    BY <2>1, <2>2
<1>3. request[c] \in Requests /\ request[c].op \in Ops /\ KeyOps \subseteq Ops
  BY RequestOps, KeyOpsAgree
<1>4. \A p \in Ops : live[p] \in Nat /\ excused[p] \in Nat
  BY DEF TypeInv
<1>5. \/ excused' = [excused EXCEPT ![request[c].op] = @ + 1] /\ ledger' = ledger
      \/ excused' = excused /\ RecordKeys(c)
  BY DEF Record, RecordFails
<1>6. /\ \A p \in KeyOps \ {request[c].op} :
           excused'[p] = excused[p] /\ (p \in ledger' <=> p \in ledger)
      /\ request[c].op \in KeyOps =>
           \/ excused'[request[c].op] = excused[request[c].op] + 1
           \/ excused'[request[c].op] = excused[request[c].op] /\ request[c].op \in ledger'
  <2>1. CASE excused' = [excused EXCEPT ![request[c].op] = @ + 1] /\ ledger' = ledger
    BY <1>3, <2>1 DEF TypeInv
  <2>2. CASE excused' = excused /\ RecordKeys(c)
    <3>1. ledger' = ledger \/ ledger' = ledger \cup {request[c].op}
      BY <2>2 DEF RecordKeys
    <3>2. request[c].op \in KeyOps => ledger' = ledger \cup {request[c].op}
      BY <1>3, <2>2, KeyOpsAgree DEF RecordKeys
    <3> QED
      BY <2>2, <3>1, <3>2
  <2> QED
    BY <1>5, <2>1, <2>2
<1>7. \A d \in Calls \ raced' : pc'[d] # "idle" =>
        d \notin raced /\ d # c /\ request[d].op # request[c].op
  BY <1>2 DEF Others, InFlight
<1>8. \A p : p # request[c].op => Recording(p)' = Recording(p)
  BY <1>1, <1>2 DEF Recording
<1>9. CoveredOnce'
  <2> SUFFICES ASSUME NEW p \in KeyOps
               PROVE  live'[p] <= excused'[p] + (IF Covered(p)' THEN 1 ELSE 0)
    BY DEF CoveredOnce
  <2>1. live[p] <= excused[p] + (IF Covered(p) THEN 1 ELSE 0)
    BY DEF KeyInv, CoveredOnce
  <2>2. p \in ledger' => Covered(p)'
    BY DEF Covered
  <2>3. p # request[c].op => (Covered(p)' <=> Covered(p))
    BY <1>6, <1>8 DEF Covered
  <2>4. p \in Ops /\ live' = live
    BY <1>1, <1>3
  <2> QED
    BY <1>4, <1>6, <2>1, <2>2, <2>3, <2>4
<1>10. SawNoRecord'
  <2> SUFFICES ASSUME NEW d \in Calls \ raced', pc'[d] \in {"before", "execute"},
                      request'[d].op \in KeyOps
               PROVE  request'[d].op \notin ledger'
    BY DEF SawNoRecord
  <2>1. d \notin raced /\ d # c /\ request[d].op # request[c].op
    BY <1>7
  <2>2. request[d].op \notin ledger
    BY <1>1, <1>2, <2>1 DEF KeyInv, SawNoRecord
  <2> QED
    BY <1>1, <1>6, <2>1, <2>2
<1>11. ToldItIsGone'
  <2> SUFFICES ASSUME NEW d \in Calls \ raced', pc'[d] = "resume", answer'[d] = "ABSENT",
                      NEW p \in KeyOps, p = request'[d].op
               PROVE  live'[p] <= excused'[p] + (IF Recording(p)' # {} THEN 1 ELSE 0)
    BY DEF ToldItIsGone
  <2>1. d \notin raced /\ d # c /\ p # request[c].op
    BY <1>1, <1>7
  <2>2. live[p] <= excused[p] + (IF Recording(p) # {} THEN 1 ELSE 0)
    BY <1>1, <1>2, <2>1 DEF KeyInv, ToldItIsGone
  <2> QED
    BY <1>1, <1>6, <1>8, <2>1, <2>2
<1> QED
  BY <1>9, <1>10, <1>11 DEF KeyInv

(* A crash takes the calls that were covering an effect, and excuses it.     *)
LEMMA CrashKeepsKeys ==
  ASSUME TypeInv, TypeInv', KeyInv, Crash
  PROVE  KeyInv'
<1>1. /\ \A d \in Calls : pc'[d] = "idle"
      /\ ledger' = ledger /\ live' = live
      /\ excused' = [o \in Ops |->
           excused[o] + Cardinality({c \in InFlight : pc[c] = "record" /\ request[c].op = o})]
  BY DEF Crash
<1>2. \A o : {c \in InFlight : pc[c] = "record" /\ request[c].op = o} = Recording(o)
  BY DEF InFlight, Recording
<1>3. \A p \in Ops : excused'[p] = excused[p] + Cardinality(Recording(p))
  BY <1>1, <1>2
<1>4. \A p \in Ops : Cardinality(Recording(p)) \in Nat /\ IsFiniteSet(Recording(p))
  BY <1>2, RecordingIsFinite
<1>5. \A p \in Ops : Recording(p) # {} => Cardinality(Recording(p)) >= 1
  <2> SUFFICES ASSUME NEW p \in Ops, Recording(p) # {}
               PROVE  Cardinality(Recording(p)) >= 1
    OBVIOUS
  <2>1. Cardinality(Recording(p)) # 0
    BY <1>4, FS_EmptySet
  <2> QED
    BY <1>4, <2>1
<1>6. CoveredOnce'
  <2> SUFFICES ASSUME NEW p \in KeyOps
               PROVE  live'[p] <= excused'[p] + (IF Covered(p)' THEN 1 ELSE 0)
    BY DEF CoveredOnce
  <2>1. p \in Ops
    BY KeyOpsAgree
  <2>2. live[p] \in Nat /\ excused[p] \in Nat
    BY <2>1 DEF TypeInv
  <2>3. live[p] <= excused[p] + (IF Covered(p) THEN 1 ELSE 0)
    BY DEF KeyInv, CoveredOnce
  <2>4. p \in ledger => Covered(p)'
    BY <1>1 DEF Covered
  <2>5. ~Covered(p)' /\ Covered(p) => Recording(p) # {}
    BY <2>4 DEF Covered
  <2> QED
    BY <1>1, <1>3, <1>4, <1>5, <2>1, <2>2, <2>3, <2>5
<1>7. SawNoRecord' /\ ToldItIsGone'
  BY <1>1 DEF SawNoRecord, ToldItIsGone
<1> QED
  BY <1>6, <1>7 DEF KeyInv

(* What others do to the resources leaves no more of them, or changes none   *)
(* of what the keys are about.                                               *)
LEMMA OutsideKeepsKeys ==
  ASSUME TypeInv, TypeInv', KeyInv, NextDispatch \/ Outside \/ UNCHANGED vars
  PROVE  KeyInv'
<1>1. /\ pc' = pc /\ request' = request /\ answer' = answer /\ raced' = raced
      /\ ledger' = ledger /\ excused' = excused
      /\ live' = live \/ \E o \in Ops : live[o] > 0 /\ live' = [live EXCEPT ![o] = @ - 1]
  BY DEF NextDispatch, Outside, vars
<1>2. \A p \in Ops : live[p] \in Nat /\ excused[p] \in Nat /\ live'[p] \in Nat
  BY DEF TypeInv
<1>3. \A p \in Ops : live'[p] <= live[p]
  <2>1. CASE live' = live
    BY <1>2, <2>1
  <2>2. ASSUME NEW o \in Ops, live[o] > 0, live' = [live EXCEPT ![o] = @ - 1]
        PROVE  \A p \in Ops : live'[p] <= live[p]
    <3>1. \A p \in Ops : live'[p] = IF p = o THEN live[p] - 1 ELSE live[p]
      BY <2>2 DEF TypeInv
    <3> QED
      BY <1>2, <3>1
  <2> QED
    BY <1>1, <2>1, <2>2
<1>4. KeyOps \subseteq Ops
  BY KeyOpsAgree
<1>5. \A p : Recording(p)' = Recording(p)
  BY <1>1 DEF Recording
<1>6. CoveredOnce'
  <2> SUFFICES ASSUME NEW p \in KeyOps
               PROVE  live'[p] <= excused'[p] + (IF Covered(p)' THEN 1 ELSE 0)
    BY DEF CoveredOnce
  <2>1. live[p] <= excused[p] + (IF Covered(p) THEN 1 ELSE 0)
    BY DEF KeyInv, CoveredOnce
  <2>2. Covered(p)' <=> Covered(p)
    BY <1>1, <1>5 DEF Covered
  <2>3. live'[p] <= live[p] /\ excused'[p] = excused[p]
    BY <1>1, <1>3, <1>4
  <2> QED
    BY <1>2, <1>4, <2>1, <2>2, <2>3
<1>7. SawNoRecord'
  BY <1>1 DEF KeyInv, SawNoRecord
<1>8. ToldItIsGone'
  <2> SUFFICES ASSUME NEW d \in Calls \ raced', pc'[d] = "resume", answer'[d] = "ABSENT",
                      NEW p \in KeyOps, p = request'[d].op
               PROVE  live'[p] <= excused'[p] + (IF Recording(p)' # {} THEN 1 ELSE 0)
    BY DEF ToldItIsGone
  <2>1. live[p] <= excused[p] + (IF Recording(p) # {} THEN 1 ELSE 0)
    BY <1>1 DEF KeyInv, ToldItIsGone
  <2>2. live'[p] <= live[p] /\ excused'[p] = excused[p]
    BY <1>1, <1>3, <1>4
  <2> QED
    BY <1>2, <1>4, <1>5, <2>1, <2>2
<1> QED
  BY <1>6, <1>7, <1>8 DEF KeyInv

(* One effect per key, over every dispatch, crash and later run: a key of    *)
(* the work item has at most one live resource but for those a race of two   *)
(* calls of the key, a crash or a failure between the effect and its record  *)
(* explains (framework.ts steps 5 to 8) - for any number of calls in flight. *)
THEOREM OneEffectPerKeyAlways == Spec => []OneEffectPerKey
<1> DEFINE IInv == TypeInv /\ OnlyMutations /\ KeyInv
<1>1. Init => IInv
  <2> SUFFICES ASSUME Init PROVE IInv
    OBVIOUS
  <2>1. TypeInv
    BY InitTyped
  <2>2. /\ \A c \in Calls : pc[c] = "idle"
        /\ \A o \in Ops : live[o] = 0 /\ excused[o] = 0
    BY DEF Init
  <2>3. OnlyMutations /\ SawNoRecord /\ ToldItIsGone
    BY <2>2 DEF OnlyMutations, MutatesAt, SawNoRecord, ToldItIsGone
  <2>4. CoveredOnce
    BY <2>2, KeyOpsAgree DEF CoveredOnce
  <2> QED
    BY <2>1, <2>3, <2>4 DEF KeyInv
<1>2. ASSUME IInv, CallsConserved, [Next]_vars
      PROVE  IInv'
  <2>1. TypeInv' /\ OnlyMutations'
    BY <1>2, StepTyped, StepMutates
  <2>2. KeyInv'
    BY <1>2, <2>1, CallKeepsKeys, AnswerKeepsKeys, ResumeKeepsKeys, CaptureKeepsKeys,
       ReadKeepsKeys, EffectKeepsKeys, RecordKeepsKeys, CrashKeepsKeys, OutsideKeepsKeys
       DEF Next
  <2> QED
    BY <2>1, <2>2
<1>3. IInv => OneEffectPerKey
  <2> SUFFICES ASSUME IInv, NEW r \in Mutating, r.keyed, UsesWorkItemScope(r)
               PROVE  live[r.op] <= 1 + excused[r.op]
    BY DEF OneEffectPerKey
  <2>1. r.op \in KeyOps
    BY DEF KeyOps
  <2>2. r.op \in Ops
    BY <2>1, KeyOpsAgree
  <2>3. live[r.op] \in Nat /\ excused[r.op] \in Nat
    BY <2>2 DEF TypeInv
  <2>4. live[r.op] <= excused[r.op] + (IF Covered(r.op) THEN 1 ELSE 0)
    BY <2>1 DEF KeyInv, CoveredOnce
  <2> QED
    BY <2>3, <2>4
<1> HIDE DEF IInv
<1> QED
  BY <1>1, <1>2, <1>3, SpecTyped, PTL DEF Spec
=============================================================================
