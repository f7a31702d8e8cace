--------------------------- MODULE RecoveryProofs ---------------------------
(***************************************************************************)
(* A run, its crashes and its recoveries, for every graph, any number of   *)
(* recoveries, and any bounds.                                             *)
(*                                                                         *)
(* First, what replaying a log computes, one line at a time; then which    *)
(* line each step writes, and what else it does.  Base says who counts:    *)
(* for each log one journal at a time, which has counted as far as the log *)
(* goes but for the lines numbered beside it.  Told relates the replayed   *)
(* log to the place the run is at, Interruption and Covering to the        *)
(* dispatch under way and to the calls that were answered, Ordered and     *)
(* Announced to the lines themselves; what a recovery writes changes none  *)
(* of them, so Remembered holds of all that were made.                     *)
(***************************************************************************)
EXTENDS Recovery, FiniteSetTheorems, WellFoundedInduction, TLAPS

Names == Graph \cup StoppedAt \cup {Selected, "INTAKE_RECEIVED", NoStage}

(* What is written to a log: a line that another was glued to is no such line. *)
Kinds ==
  {"run_started", "workflow_admitted", "entry_stage_computed", "stage_marked_completed_prior",
   "transition", "budget", "budget_exceeded", "dispatch_intent", "dispatch_result",
   "mutation", "note", "dod_computed", "reresolved", "run_ended", "lease", "resolution",
   "reresolved_into", "recovery", "recovery_found"}

Lines == [kind : Kinds, d : Nat, from : Names, to : Names, n : Nat, seq : Nat]

CursorStates == {"NONE", "ACTIVE", "COMPLETED", "COMPLETED_PRIOR"}

Projections ==
  [admitted : BOOLEAN, ended : BOOLEAN, stage : Names, preBlock : Names,
   cursor : [Graph -> CursorStates], loops : Nat, dispatches : Nat,
   intents : SUBSET Nat, results : SUBSET Nat, mutations : Seq(Lines)]

(* ---- what replaying a log computes ---- *)

(* A set of numbers that is not empty has a least.                           *)
LEMMA Least ==
  ASSUME NEW S \in SUBSET Nat, S # {}
  PROVE  \E i \in S : \A j \in S : i <= j
<1> DEFINE Below == OpToRel(<, Nat)
<1>1. IsWellFoundedOn(Below, Nat)
  BY NatLessThanWellFounded
<1>2. PICK i \in S : \A j \in S : <<j, i>> \notin Below
  <2> HIDE DEF Below
  <2> QED
    BY <1>1, WFMin
<1>3. \A j \in S : ~(j < i)
  BY <1>2 DEF OpToRel
<1> QED
  BY <1>3

Replayed == {"workflow_admitted", "entry_stage_computed", "stage_marked_completed_prior",
             "transition", "budget", "dispatch_intent", "dispatch_result", "mutation",
             "run_ended"}

(* What each kind of line does to what was read before it.                   *)
LEMMA ReplayKinds ==
  ASSUME NEW p, NEW e
  PROVE  /\ e.kind = "workflow_admitted" => Replay(p, e) = [p EXCEPT !.admitted = TRUE]
         /\ e.kind = "entry_stage_computed" =>
              Replay(p, e) = [p EXCEPT !.stage = IF e.to = NoStage THEN @ ELSE e.to]
         /\ e.kind = "stage_marked_completed_prior" =>
              Replay(p, e) = [p EXCEPT !.cursor = UpsertCursor(@, e.from, "COMPLETED_PRIOR")]
         /\ e.kind = "transition" => Replay(p, e) = AfterTransition(p, e)
         /\ e.kind = "budget" => Replay(p, e) = [p EXCEPT !.loops = e.n]
         /\ e.kind = "dispatch_intent" =>
              Replay(p, e) = [p EXCEPT !.intents = @ \cup {e.d}]
         /\ e.kind = "dispatch_result" =>
              Replay(p, e) = [p EXCEPT !.results = @ \cup {e.d}, !.dispatches = @ + 1]
         /\ e.kind = "mutation" => Replay(p, e) = [p EXCEPT !.mutations = Append(@, e)]
         /\ e.kind = "run_ended" => Replay(p, e) = [p EXCEPT !.ended = TRUE]
         /\ e.kind \notin Replayed => Replay(p, e) = p
  BY DEF Replay, Replayed

LEMMA ReplayType ==
  ASSUME NEW p \in Projections, NEW e \in Lines
  PROVE  Replay(p, e) \in Projections
<1>1. ASSUME NEW cursor \in [Graph -> CursorStates], NEW stage, NEW state \in CursorStates
      PROVE  UpsertCursor(cursor, stage, state) \in [Graph -> CursorStates]
  BY DEF UpsertCursor
<1>2. AfterTransition(p, e) \in Projections
  <2>1. /\ UpsertCursor(p.cursor, e.from, "ACTIVE") \in [Graph -> CursorStates]
        /\ UpsertCursor(p.cursor, e.from, "COMPLETED") \in [Graph -> CursorStates]
    BY <1>1 DEF Projections, CursorStates
  <2>2. UpsertCursor(UpsertCursor(p.cursor, e.from, "COMPLETED"), e.to, "ACTIVE")
          \in [Graph -> CursorStates]
    BY <1>1, <2>1 DEF CursorStates
  <2>3. p.loops + e.n \in Nat
    BY DEF Projections, Lines
  <2> QED
    BY ZenonT(40), <2>1, <2>2, <2>3 DEF AfterTransition, Projections, Lines, Names
<1>3. UpsertCursor(p.cursor, e.from, "COMPLETED_PRIOR") \in [Graph -> CursorStates]
  BY <1>1 DEF Projections, CursorStates
<1>4. (IF e.to = NoStage THEN p.stage ELSE e.to) \in Names
  BY DEF Projections, Lines
<1>5. p.intents \cup {e.d} \in SUBSET Nat /\ p.results \cup {e.d} \in SUBSET Nat
  BY DEF Projections, Lines
<1>6. Append(p.mutations, e) \in Seq(Lines)
  BY DEF Projections
<1>7. p.dispatches + 1 \in Nat /\ e.n \in Nat
  BY DEF Projections, Lines
<1>8. /\ [p EXCEPT !.admitted = TRUE] \in Projections
      /\ [p EXCEPT !.ended = TRUE] \in Projections
      /\ [p EXCEPT !.stage = IF e.to = NoStage THEN @ ELSE e.to] \in Projections
      /\ [p EXCEPT !.cursor = UpsertCursor(@, e.from, "COMPLETED_PRIOR")] \in Projections
      /\ [p EXCEPT !.loops = e.n] \in Projections
      /\ [p EXCEPT !.intents = @ \cup {e.d}] \in Projections
      /\ [p EXCEPT !.results = @ \cup {e.d}, !.dispatches = @ + 1] \in Projections
      /\ [p EXCEPT !.mutations = Append(@, e)] \in Projections
  BY <1>3, <1>4, <1>5, <1>6, <1>7 DEF Projections
<1> QED
  BY <1>2, <1>8, ReplayKinds DEF Replayed

Recursion(lines, after, last) ==
  after = [n \in 0..last |-> IF n = 0 THEN Blank ELSE Replay(after[n - 1], lines[n])]

LEMMA BlankType == Blank \in Projections
  BY DEF Blank, Projections, Names, CursorStates

LEMMA RecursionExists ==
  ASSUME NEW lines \in Seq(Lines)
  PROVE  \E after \in [0..Len(lines) -> Projections] : Recursion(lines, after, Len(lines))
<1> DEFINE Has(n) == \E after \in [0..n -> Projections] : Recursion(lines, after, n)
           Bad    == {n \in 0..Len(lines) : ~Has(n)}
<1>1. SUFFICES ASSUME Bad # {} PROVE FALSE
  BY DEF Bad
<1>2. PICK n \in Bad : \A m \in Bad : n <= m
  <2>1. Bad \in SUBSET Nat
    OBVIOUS
  <2> HIDE DEF Bad
  <2> QED
    BY <2>1, <1>1, Least
<1>3. n # 0
  <2>1. Has(0)
    <3>1. Recursion(lines, [m \in 0..0 |-> Blank], 0)
      BY DEF Recursion
    <3> QED
      BY <3>1, BlankType
  <2> QED
    BY <2>1, <1>2
<1>4. Has(n - 1)
  BY <1>2, <1>3
<1>5. PICK after \in [0..(n - 1) -> Projections] : Recursion(lines, after, n - 1)
  BY <1>4
<1>6. n \in 1..Len(lines) /\ lines[n] \in Lines
  BY <1>2, <1>3
<1>7. Replay(after[n - 1], lines[n]) \in Projections
  BY <1>6, <1>5, ReplayType
<1> DEFINE longer == [m \in 0..n |-> IF m < n THEN after[m] ELSE Replay(after[n - 1], lines[n])]
<1>8. longer \in [0..n -> Projections]
  BY <1>5, <1>6, <1>7
<1>9. \A m \in 0..n : longer[m] = IF m = 0 THEN Blank ELSE Replay(longer[m - 1], lines[m])
  BY <1>5, <1>6 DEF Recursion
<1>10. Recursion(lines, longer, n)
  <2> HIDE DEF longer
  <2> QED
    BY <1>8, <1>9 DEF Recursion
<1> QED
  BY <1>2, <1>8, <1>10

LEMMA RecursionUnique ==
  ASSUME NEW lines, NEW last \in Nat, NEW f, NEW g,
         Recursion(lines, f, last), Recursion(lines, g, last)
  PROVE  f = g
<1> DEFINE Bad == {n \in 0..last : f[n] # g[n]}
<1>1. Bad = {}
  <2>1. SUFFICES ASSUME Bad # {} PROVE FALSE
    OBVIOUS
  <2>2. PICK n \in Bad : \A m \in Bad : n <= m
    <3>1. Bad \in SUBSET Nat
      OBVIOUS
    <3> HIDE DEF Bad
    <3> QED
      BY <2>1, <3>1, Least
  <2>3. n # 0 => f[n - 1] = g[n - 1]
    BY <2>2
  <2>4. /\ f[n] = IF n = 0 THEN Blank ELSE Replay(f[n - 1], lines[n])
        /\ g[n] = IF n = 0 THEN Blank ELSE Replay(g[n - 1], lines[n])
    BY <2>2 DEF Recursion
  <2> QED
    BY <2>2, <2>3, <2>4
<1> QED
  BY <1>1 DEF Recursion

LEMMA ProjectType ==
  ASSUME NEW lines \in Seq(Lines)
  PROVE  /\ Project(lines) \in Projections
         /\ \E after : Recursion(lines, after, Len(lines)) /\ Project(lines) = after[Len(lines)]
<1> DEFINE chosen == CHOOSE after : Recursion(lines, after, Len(lines))
<1>1. Project(lines) = chosen[Len(lines)]
  BY DEF Project, Recursion
<1>2. PICK after \in [0..Len(lines) -> Projections] : Recursion(lines, after, Len(lines))
  BY RecursionExists
<1>3. Recursion(lines, chosen, Len(lines))
  BY <1>2
<1>4. chosen = after
  <2> HIDE DEF chosen
  <2> QED
    BY <1>2, <1>3, RecursionUnique
<1> HIDE DEF chosen
<1> QED
  BY <1>1, <1>2, <1>3, <1>4

LEMMA ProjectEmpty == Project(<<>>) = Blank
<1>1. PICK after : Recursion(<<>>, after, 0) /\ Project(<<>>) = after[0]
  <2>1. <<>> \in Seq(Lines) /\ Len(<<>>) = 0
    OBVIOUS
  <2> QED
    BY <2>1, ProjectType
<1> QED
  BY <1>1 DEF Recursion

(* Reading one line more of a log replays that line on what was read before. *)
LEMMA ProjectAppend ==
  ASSUME NEW lines \in Seq(Lines), NEW e \in Lines
  PROVE  Project(Append(lines, e)) = Replay(Project(lines), e)
<1> DEFINE more == Append(lines, e)
           k    == Len(lines)
<1>1. /\ more \in Seq(Lines) /\ Len(more) = k + 1 /\ k \in Nat
      /\ more[k + 1] = e /\ \A i \in 1..k : more[i] = lines[i]
  OBVIOUS
<1>2. PICK f : Recursion(lines, f, k) /\ Project(lines) = f[k]
  BY ProjectType
<1>3. PICK g : Recursion(more, g, k + 1) /\ Project(more) = g[k + 1]
  BY <1>1, ProjectType
<1> HIDE DEF more, k
<1> DEFINE h == [n \in 0..k |-> g[n]]
<1>4. \A n \in 0..k : h[n] = IF n = 0 THEN Blank ELSE Replay(h[n - 1], lines[n])
  BY <1>1, <1>3 DEF Recursion
<1>5. Recursion(lines, h, k)
  BY <1>4 DEF Recursion
<1>6. h = f
  <2> HIDE DEF h
  <2> QED
    BY <1>1, <1>2, <1>5, RecursionUnique
<1>7. g[k] = f[k]
  BY <1>1, <1>6
<1>8. g[k + 1] = Replay(g[k], e)
  BY <1>1, <1>3 DEF Recursion
<1> QED
  BY <1>2, <1>3, <1>7, <1>8 DEF more

(* ---- the lines of one dispatch, in order ---- *)

With(sofar, e, d) == IF e.d = d THEN Append(sofar, e) ELSE sofar

Filtering(s, d, first, last) ==
  first = [n \in 0..last |-> IF n = 0 THEN <<>> ELSE With(first[n - 1], s[n], d)]

LEMMA FilteringExists ==
  ASSUME NEW T, NEW s \in Seq(T), NEW d
  PROVE  \E first \in [0..Len(s) -> Seq(T)] : Filtering(s, d, first, Len(s))
<1> DEFINE Has(n) == \E first \in [0..n -> Seq(T)] : Filtering(s, d, first, n)
           Bad    == {n \in 0..Len(s) : ~Has(n)}
<1>1. SUFFICES ASSUME Bad # {} PROVE FALSE
  BY DEF Bad
<1>2. PICK n \in Bad : \A m \in Bad : n <= m
  <2>1. Bad \in SUBSET Nat
    OBVIOUS
  <2> HIDE DEF Bad
  <2> QED
    BY <2>1, <1>1, Least
<1>3. n # 0
  <2>1. Has(0)
    <3>1. Filtering(s, d, [m \in 0..0 |-> <<>>], 0)
      BY DEF Filtering
    <3>2. [m \in 0..0 |-> <<>>] \in [0..0 -> Seq(T)]
      OBVIOUS
    <3> QED
      BY <3>1, <3>2
  <2> QED
    BY <2>1, <1>2
<1>4. PICK first \in [0..(n - 1) -> Seq(T)] : Filtering(s, d, first, n - 1)
  <2>1. Has(n - 1)
    <3> HIDE DEF Has
    <3> QED
      BY <1>2, <1>3
  <2> QED
    BY <2>1
<1>5. n \in 1..Len(s) /\ s[n] \in T /\ first[n - 1] \in Seq(T)
  BY <1>2, <1>3, <1>4
<1> DEFINE next   == With(first[n - 1], s[n], d)
           longer == [m \in 0..n |-> IF m < n THEN first[m] ELSE next]
<1>6. next \in Seq(T)
  BY <1>5 DEF With
<1>7. longer \in [0..n -> Seq(T)]
  <2> HIDE DEF next
  <2> QED
    BY <1>4, <1>5, <1>6
<1>8. \A m \in 0..n : longer[m] = IF m = 0 THEN <<>> ELSE With(longer[m - 1], s[m], d)
  BY <1>4, <1>5 DEF Filtering
<1>9. Filtering(s, d, longer, n)
  <2> HIDE DEF longer
  <2> QED
    BY <1>7, <1>8 DEF Filtering
<1> QED
  BY <1>2, <1>7, <1>9

LEMMA FilteringUnique ==
  ASSUME NEW s, NEW d, NEW last \in Nat, NEW f, NEW g,
         Filtering(s, d, f, last), Filtering(s, d, g, last)
  PROVE  f = g
<1> DEFINE Bad == {n \in 0..last : f[n] # g[n]}
<1>1. Bad = {}
  <2>1. SUFFICES ASSUME Bad # {} PROVE FALSE
    OBVIOUS
  <2>2. PICK n \in Bad : \A m \in Bad : n <= m
    <3>1. Bad \in SUBSET Nat
      OBVIOUS
    <3> HIDE DEF Bad
    <3> QED
      BY <2>1, <3>1, Least
  <2>3. n # 0 => f[n - 1] = g[n - 1]
    BY <2>2
  <2>4. /\ f[n] = IF n = 0 THEN <<>> ELSE With(f[n - 1], s[n], d)
        /\ g[n] = IF n = 0 THEN <<>> ELSE With(g[n - 1], s[n], d)
    BY <2>2 DEF Filtering
  <2> QED
    BY <2>2, <2>3, <2>4
<1> QED
  BY <1>1 DEF Filtering

LEMMA OfType ==
  ASSUME NEW T, NEW s \in Seq(T), NEW d
  PROVE  /\ Of(s, d) \in Seq(T)
         /\ \E first : Filtering(s, d, first, Len(s)) /\ Of(s, d) = first[Len(s)]
<1> DEFINE chosen == CHOOSE first : Filtering(s, d, first, Len(s))
<1>1. Of(s, d) = chosen[Len(s)]
  BY DEF Of, Filtering, With
<1>2. PICK first \in [0..Len(s) -> Seq(T)] : Filtering(s, d, first, Len(s))
  BY FilteringExists
<1>3. Filtering(s, d, chosen, Len(s))
  BY <1>2
<1>4. chosen = first
  <2> HIDE DEF chosen
  <2> QED
    BY <1>2, <1>3, FilteringUnique
<1> HIDE DEF chosen
<1> QED
  BY <1>1, <1>2, <1>3, <1>4

LEMMA OfEmpty ==
  ASSUME NEW d
  PROVE  Of(<<>>, d) = <<>>
<1>1. PICK first : Filtering(<<>>, d, first, 0) /\ Of(<<>>, d) = first[0]
  <2>1. <<>> \in Seq({}) /\ Len(<<>>) = 0
    OBVIOUS
  <2> QED
    BY <2>1, OfType
<1> QED
  BY <1>1 DEF Filtering

(* One line more is one more of its own dispatch, and of no other.           *)
LEMMA OfAppend ==
  ASSUME NEW T, NEW s \in Seq(T), NEW e \in T, NEW d
  PROVE  Of(Append(s, e), d) = IF e.d = d THEN Append(Of(s, d), e) ELSE Of(s, d)
<1> DEFINE more == Append(s, e)
           k    == Len(s)
<1>1. /\ more \in Seq(T) /\ Len(more) = k + 1 /\ k \in Nat
      /\ more[k + 1] = e /\ \A i \in 1..k : more[i] = s[i]
  OBVIOUS
<1>2. PICK f : Filtering(s, d, f, k) /\ Of(s, d) = f[k]
  BY OfType
<1>3. PICK g : Filtering(more, d, g, k + 1) /\ Of(more, d) = g[k + 1]
  BY <1>1, OfType
<1> HIDE DEF more, k
<1> DEFINE h == [n \in 0..k |-> g[n]]
<1>4. \A n \in 0..k : h[n] = IF n = 0 THEN <<>> ELSE With(h[n - 1], s[n], d)
  BY <1>1, <1>3 DEF Filtering
<1>5. Filtering(s, d, h, k)
  BY <1>4 DEF Filtering
<1>6. h = f
  <2> HIDE DEF h
  <2> QED
    BY <1>1, <1>2, <1>5, FilteringUnique
<1>7. g[k] = f[k]
  BY <1>1, <1>6
<1>8. g[k + 1] = With(g[k], e, d)
  BY <1>1, <1>3 DEF Filtering
<1> QED
  BY <1>2, <1>3, <1>7, <1>8 DEF more, With

(* ---- what a step writes ---- *)

Early  == {"new", "starting", "started", "admitting", "computing", "ambiguous", "marking"}
Inside == {"ready", "working", "decided", "counting"}
Ending == {"reresolving", "reresolved", "ending", "ended", "releasing"}
Beyond == {"resolving", "proposing", "restarting", "entering", "running", "linking", "done",
           "dead"}
RunnerPlaces == Early \cup Inside \cup Ending \cup Beyond

Knowing    == {"discarding", "repairing", "announcing", "finding", "completing", "done"}
CrewPlaces == Knowing \cup {"idle", "reading", "threw", "dead"}

Logs    == [lines : Seq(Lines), torn : BOOLEAN]
Numbers == [run : Nat, item : Nat]
Calls   == [d : Nat, reversible : {0, 1}, ok : BOOLEAN]

Holdings ==
  [pc : RunnerPlaces, setting : Bounds, stage : Graph \cup {Selected, "BLOCKED"},
   prior : 0..(Len(Stages) - 1), iteration : Nat, d : Nat, charged : Nat, results : Nat,
   loops : Nat, routedBack : SUBSET Graph, refused : Graph \cup {NoStage}, again : BOOLEAN]

TypeInv ==
  /\ runLog \in Logs /\ itemLog \in Logs
  /\ calls \in Seq(Calls)
  /\ journal \in [Journals -> Numbers]
  /\ runner \in Holdings
  /\ crew \in [Recoverers -> [pc : CrewPlaces, saw : Projections]]

(* Where the run is in its graph, by where it is in its code.                *)
Placed(r) ==
  /\ r.pc \in Early => r.stage = Selected
  /\ r.stage = Selected =>
       /\ r.pc \in Early \cup {"dead"} /\ r.refused = NoStage
       /\ r.d = 0 /\ r.loops = 0 /\ r.results = 0
  /\ r.pc \in Inside => r.stage \in Graph /\ r.refused = NoStage
  /\ r.pc \in {"working", "decided"} => r.stage # Completion

(* What is counted, and against which bound: a dispatch under way has been
   counted, and has not had its result.                                      *)
Within(r, asked) ==
  /\ asked <= r.setting.calls
  /\ r.charged <= r.setting.dispatches /\ r.charged <= r.results
  /\ r.results <= r.d /\ r.d <= r.iteration /\ r.iteration <= r.setting.iterations
  /\ r.pc = "working" => r.results < r.d /\ r.charged < r.setting.dispatches

(* A recovery has something to find when it goes to find it.                 *)
Phases ==
  /\ Placed(runner) /\ Within(runner, Len(calls))
  /\ \A v \in Recoverers : crew[v].pc = "finding" => Interrupted(crew[v].saw) # {}

(* A recovery begins when the run is gone, and alone.                        *)
OneAtATime ==
  /\ runner.pc # "dead" => \A v \in Recoverers : crew[v].pc = "idle"
  /\ \A v, w \in Recoverers : crew[v].pc \notin Over /\ crew[w].pc \notin Over => v = w

RunLine(j, line) ==
  /\ line.seq = journal[j].run + 1
  /\ runLog' = [lines |-> Append(runLog.lines, line), torn |-> FALSE]
  /\ itemLog' = itemLog
  /\ journal' = [journal EXCEPT ![j].run = @ + 1]

ItemLine(j, line) ==
  /\ line.seq = journal[j].item + 1
  /\ itemLog' = [lines |-> Append(itemLog.lines, line), torn |-> FALSE]
  /\ runLog' = runLog
  /\ journal' = [journal EXCEPT ![j].item = @ + 1]

SameLines ==
  /\ runLog' \in Logs /\ runLog'.lines = runLog.lines
  /\ itemLog' \in Logs /\ itemLog'.lines = itemLog.lines

LEMMA TheJournals ==
  /\ "runner" \in Journals /\ "outer" \in Journals /\ "next" \in Journals
  /\ \A v \in Recoverers : v \in Journals /\ v \notin {"runner", "outer", "next"}
  BY RecoveryAssumption DEF Journals

LEMMA EventType ==
  ASSUME NEW kind \in Kinds, NEW d \in Nat, NEW from \in Names, NEW to \in Names,
         NEW n \in Nat, NEW k \in Nat
  PROVE  /\ Numbered(Event(kind, d, from, to, n), k) \in Lines
         /\ Numbered(Event(kind, d, from, to, n), k).kind = kind
         /\ Numbered(Event(kind, d, from, to, n), k).d = d
         /\ Numbered(Event(kind, d, from, to, n), k).from = from
         /\ Numbered(Event(kind, d, from, to, n), k).to = to
         /\ Numbered(Event(kind, d, from, to, n), k).n = n
         /\ Numbered(Event(kind, d, from, to, n), k).seq = k
  BY DEF Numbered, Event, Lines

LEMMA Counted ==
  ASSUME NEW j \in Numbers
  PROVE  /\ [j EXCEPT !.run = @ + 1] \in Numbers
         /\ [j EXCEPT !.item = @ + 1] \in Numbers
<1>1. j.run + 1 \in Nat /\ j.item + 1 \in Nat
  BY DEF Numbers
<1> QED
  BY <1>1 DEF Numbers

LEMMA Longer ==
  ASSUME NEW lines \in Seq(Lines), NEW line \in Lines
  PROVE  /\ [lines |-> Append(lines, line), torn |-> FALSE] \in Logs
         /\ [lines |-> Append(lines, line), torn |-> FALSE].lines = Append(lines, line)
<1>1. Append(lines, line) \in Seq(Lines)
  OBVIOUS
<1> QED
  BY <1>1 DEF Logs

(* A line is written to the run's log, and read back after what was there.   *)
Wrote(j, kind, d, from, to, n) ==
  \E line \in Lines :
    /\ RunLine(j, line)
    /\ line.kind = kind /\ line.d = d /\ line.from = from /\ line.to = to /\ line.n = n
    /\ runLog' \in Logs
    /\ journal' \in [Journals -> Numbers]
    /\ Project(runLog'.lines) = Replay(Project(runLog.lines), line)

LEMMA RunJournalled ==
  ASSUME TypeInv, NEW j \in Journals,
         NEW kind \in Kinds, NEW d \in Nat, NEW from \in Names, NEW to \in Names,
         NEW n \in Nat,
         JournalRun(j, Event(kind, d, from, to, n))
  PROVE  Wrote(j, kind, d, from, to, n)
<1> DEFINE line == Numbered(Event(kind, d, from, to, n), journal[j].run + 1)
<1>1. journal[j].run \in Nat /\ journal[j] \in Numbers
  BY DEF TypeInv, Numbers
<1>2. /\ line \in Lines /\ line.kind = kind /\ line.d = d /\ line.from = from
      /\ line.to = to /\ line.n = n /\ line.seq = journal[j].run + 1
  BY <1>1, EventType DEF Numbered, Event, Lines
<1>3. /\ runLog.torn = FALSE
      /\ runLog' = Appended(runLog, line)
      /\ itemLog' = itemLog
      /\ journal' = [journal EXCEPT ![j].run = @ + 1]
  BY DEF JournalRun, EndsWithNewline, TypeInv, Logs
<1> HIDE DEF line
<1>4. runLog' = [lines |-> Append(runLog.lines, line), torn |-> FALSE]
  BY <1>3 DEF Appended
<1>5. runLog.lines \in Seq(Lines)
  BY DEF TypeInv, Logs
<1>6. runLog' \in Logs /\ runLog'.lines = Append(runLog.lines, line)
  BY <1>2, <1>4, <1>5, Longer
<1>7. journal' \in [Journals -> Numbers]
  BY <1>1, <1>3, Counted DEF TypeInv
<1>8. Project(runLog'.lines) = Replay(Project(runLog.lines), line)
  BY <1>2, <1>5, <1>6, ProjectAppend
<1> QED
  BY <1>2, <1>3, <1>4, <1>6, <1>7, <1>8 DEF RunLine, Wrote

(* A line about the work item has nothing but its kind.                      *)
LEMMA ItemEvent ==
  ASSUME NEW kind \in Kinds, NEW k \in Nat
  PROVE  /\ Numbered(Event(kind, 0, NoStage, NoStage, 0), k) \in Lines
         /\ Numbered(Event(kind, 0, NoStage, NoStage, 0), k).kind = kind
         /\ Numbered(Event(kind, 0, NoStage, NoStage, 0), k).seq = k
<1>1. NoStage \in Names /\ 0 \in Nat
  BY DEF Names
<1>2. Numbered(Event(kind, 0, NoStage, NoStage, 0), k)
        = [kind |-> kind, d |-> 0, from |-> NoStage, to |-> NoStage, n |-> 0, seq |-> k]
  BY DEF Numbered, Event
<1> QED
  BY <1>1, <1>2 DEF Lines

WroteItem(j, kind) ==
  /\ \E line \in Lines : ItemLine(j, line) /\ line.kind = kind
  /\ itemLog' \in Logs
  /\ journal' \in [Journals -> Numbers]

LEMMA ItemJournalled ==
  ASSUME TypeInv, NEW j \in Journals, NEW kind \in Kinds, JournalItem(j, kind)
  PROVE  WroteItem(j, kind)
<1> DEFINE line == Numbered(Event(kind, 0, NoStage, NoStage, 0), journal[j].item + 1)
<1>1. journal[j].item \in Nat /\ journal[j] \in Numbers /\ journal[j].item + 1 \in Nat
  BY DEF TypeInv, Numbers
<1>2. line \in Lines /\ line.kind = kind /\ line.seq = journal[j].item + 1
  BY <1>1, ItemEvent
<1>3. /\ itemLog.torn = FALSE
      /\ itemLog' = Appended(itemLog, line)
      /\ runLog' = runLog
      /\ journal' = [journal EXCEPT ![j].item = @ + 1]
  BY DEF JournalItem, EndsWithNewline, TypeInv, Logs
<1> HIDE DEF line
<1>4. itemLog' = [lines |-> Append(itemLog.lines, line), torn |-> FALSE]
  BY <1>3 DEF Appended
<1>5. itemLog.lines \in Seq(Lines)
  BY DEF TypeInv, Logs
<1>6. itemLog' \in Logs
  BY <1>2, <1>4, <1>5, Longer
<1>7. journal' \in [Journals -> Numbers]
  BY <1>1, <1>3, Counted DEF TypeInv
<1> QED
  BY <1>2, <1>3, <1>4, <1>6, <1>7 DEF ItemLine, WroteItem

LEMMA NamesOfStages ==
  /\ Graph \subseteq Names /\ Selected \in Names /\ NoStage \in Names /\ "BLOCKED" \in Names
  /\ Completion \in Graph
  /\ \A i \in 1..Len(Stages) : Stages[i] \in Graph
  /\ Len(Stages) \in Nat \ {0}
  /\ Selected \notin Graph /\ "BLOCKED" \notin Graph /\ NoStage \notin Graph
  /\ "CANCELLED" \notin Graph /\ "INTAKE_RECEIVED" \notin Graph /\ Selected # "BLOCKED"
<1>1. Len(Stages) \in Nat \ {0} /\ \A i \in 1..Len(Stages) : Stages[i] \in Graph
  BY RecoveryAssumption
<1>2. Completion \in Graph
  BY <1>1 DEF Completion
<1>3. Graph \cap {"BLOCKED", "CANCELLED", Selected, "INTAKE_RECEIVED", NoStage} = {}
  BY RecoveryAssumption DEF StoppedAt
<1>4. /\ Selected \notin Graph /\ "BLOCKED" \notin Graph /\ NoStage \notin Graph
      /\ "CANCELLED" \notin Graph /\ "INTAKE_RECEIVED" \notin Graph
  BY <1>3
<1>5. Selected # "BLOCKED"
  BY DEF Selected
<1>6. Graph \subseteq Names /\ Selected \in Names /\ NoStage \in Names /\ "BLOCKED" \in Names
  BY DEF Names, StoppedAt
<1> QED
  BY <1>1, <1>2, <1>4, <1>5, <1>6

LEMMA AfterStage ==
  ASSUME NEW stage \in Graph, stage # Completion
  PROVE  After(stage) \in Graph
<1>1. \E i \in DOMAIN Stages : Stages[i] = stage
  BY DEF Graph
<1>2. IndexOf(stage) \in DOMAIN Stages /\ Stages[IndexOf(stage)] = stage
  BY <1>1 DEF IndexOf
<1>3. DOMAIN Stages = 1..Len(Stages) /\ Len(Stages) \in Nat
  BY RecoveryAssumption
<1>4. 1 + IndexOf(stage) \in 1..Len(Stages)
  BY <1>2, <1>3 DEF Completion
<1> QED
  BY <1>4, NamesOfStages DEF After

LEMMA MarkedType ==
  ASSUME TypeInv
  PROVE  Marked \in Nat
<1> DEFINE S == {i \in DOMAIN runLog.lines : runLog.lines[i].kind = "stage_marked_completed_prior"}
<1>1. DOMAIN runLog.lines = 1..Len(runLog.lines) /\ Len(runLog.lines) \in Nat
  BY DEF TypeInv, Logs
<1>2. IsFiniteSet(1..Len(runLog.lines))
  BY <1>1, FS_Interval
<1>3. IsFiniteSet(S)
  BY <1>1, <1>2, FS_Subset
<1> QED
  BY <1>3, FS_CardinalityType DEF Marked

LEMMA AnsweredType ==
  ASSUME TypeInv, NEW c \in DOMAIN calls
  PROVE  /\ calls[c] \in Calls /\ calls[c].d \in Nat /\ Undoes(c) \in Nat /\ c \in Nat \ {0}
         /\ DOMAIN calls = 1..Len(calls) /\ Len(calls) \in Nat
<1>1. calls \in Seq(Calls)
  BY DEF TypeInv
<1>2. calls[c] \in Calls /\ DOMAIN calls = 1..Len(calls) /\ Len(calls) \in Nat
  BY <1>1
<1> QED
  BY <1>2 DEF Calls, Undoes

Runs == Runner \/ Reresolution \/ Agents

(* The line each step of the run writes to the run's log.                    *)
LEMMA RunnerLines ==
  ASSUME TypeInv, Phases
  PROVE  /\ StartedRun => Wrote("runner", "run_started", 0, NoStage, NoStage, 0)
         /\ Admit => Wrote("runner", "workflow_admitted", 0, NoStage, NoStage, 0)
         /\ \A prior \in 0..(Len(Stages) - 1) : ComputeEntry(prior) =>
              Wrote("runner", "entry_stage_computed", 0, NoStage, Stages[prior + 1], 0)
         /\ EntryAmbiguous => Wrote("runner", "entry_stage_computed", 0, NoStage, NoStage, 0)
         /\ BlockAtEntry => Wrote("runner", "transition", 0, Selected, "BLOCKED", 0)
         /\ MarkPrior => \E s \in Graph :
              Wrote("runner", "stage_marked_completed_prior", 0, s, NoStage, 0)
         /\ Enter => Wrote("runner", "transition", 0, Selected, Stages[runner.prior + 1], 0)
         /\ BudgetExceeded => Wrote("runner", "budget_exceeded", 0, runner.stage, NoStage, 0)
         /\ NoModel =>
              Wrote("runner", "dispatch_result", runner.d + 1, runner.stage, NoStage, 0)
         /\ Intent =>
              Wrote("runner", "dispatch_intent", runner.d + 1, runner.stage, NoStage, 0)
         /\ \A accepted \in {0, 1} : LogResult(accepted) =>
              Wrote("runner", "dispatch_result", runner.d, runner.stage, NoStage, 0)
         /\ \A c \in DOMAIN calls : Answer(c) =>
              Wrote("runner", "mutation", calls[c].d, NoStage, NoStage, Undoes(c))
         /\ Advance \/ LeavePrefix =>
              Wrote("runner", "transition", 0, runner.stage, After(runner.stage), 0)
         /\ \A s \in Graph \ {Completion} :
              /\ LoopBack(s) => Wrote("runner", "transition", 0, runner.stage, s, 1)
              /\ RouteBack(s) \/ RouteBackRefused(s) =>
                   Wrote("runner", "transition", 0, Completion, s, 0)
         /\ CountLoop => Wrote("runner", "budget", 0, NoStage, NoStage, runner.loops)
         /\ Redispatch => Wrote("runner", "note", 0, runner.stage, NoStage, 0)
         /\ Block => Wrote("runner", "transition", 0, runner.stage, "BLOCKED", 0)
         /\ Complete => Wrote("runner", "dod_computed", 0, Completion, NoStage, 0)
         /\ EndedRun => Wrote("runner", "run_ended", 0, NoStage, NoStage, 0)
         /\ ReresolvedRun => Wrote("runner", "reresolved", 0, NoStage, NoStage, 0)
<1>1. /\ runner.stage \in Names /\ runner.d \in Nat /\ runner.loops \in Nat
      /\ runner.d + 1 \in Nat /\ runner.prior \in 0..(Len(Stages) - 1)
  BY NamesOfStages DEF TypeInv, Holdings
<1>2. /\ Selected \in Names /\ NoStage \in Names /\ "BLOCKED" \in Names
      /\ Completion \in Names /\ Graph \subseteq Names
  BY NamesOfStages
<1>3. \A prior \in 0..(Len(Stages) - 1) : Stages[prior + 1] \in Names
  BY NamesOfStages
<1>4. ASSUME NEW kind \in Kinds, NEW d \in Nat, NEW from \in Names, NEW to \in Names,
             NEW n \in Nat, JournalRun("runner", Event(kind, d, from, to, n))
      PROVE  Wrote("runner", kind, d, from, to, n)
  BY <1>4, TheJournals, RunJournalled
<1>5. /\ StartedRun => Wrote("runner", "run_started", 0, NoStage, NoStage, 0)
      /\ Admit => Wrote("runner", "workflow_admitted", 0, NoStage, NoStage, 0)
      /\ EntryAmbiguous => Wrote("runner", "entry_stage_computed", 0, NoStage, NoStage, 0)
      /\ BlockAtEntry => Wrote("runner", "transition", 0, Selected, "BLOCKED", 0)
      /\ EndedRun => Wrote("runner", "run_ended", 0, NoStage, NoStage, 0)
      /\ ReresolvedRun => Wrote("runner", "reresolved", 0, NoStage, NoStage, 0)
  BY <1>2, <1>4 DEF StartedRun, Admit, EntryAmbiguous, BlockAtEntry, EndedRun, ReresolvedRun,
                    Kinds
<1>6. ASSUME NEW prior \in 0..(Len(Stages) - 1), ComputeEntry(prior)
      PROVE  Wrote("runner", "entry_stage_computed", 0, NoStage, Stages[prior + 1], 0)
  BY <1>2, <1>3, <1>4, <1>6 DEF ComputeEntry, Kinds
<1>7. ASSUME MarkPrior
      PROVE  \E s \in Graph :
               Wrote("runner", "stage_marked_completed_prior", 0, s, NoStage, 0)
  <2>1. Stages[Marked + 1] \in Graph
    BY <1>1, <1>7, MarkedType, NamesOfStages DEF MarkPrior
  <2>2. JournalRun("runner",
          Event("stage_marked_completed_prior", 0, Stages[Marked + 1], NoStage, 0))
    BY <1>7 DEF MarkPrior
  <2>3. Wrote("runner", "stage_marked_completed_prior", 0, Stages[Marked + 1], NoStage, 0)
    BY <1>2, <1>4, <2>1, <2>2 DEF Kinds
  <2> QED
    BY <2>1, <2>3
<1>8. Enter => Wrote("runner", "transition", 0, Selected, Stages[runner.prior + 1], 0)
  BY <1>1, <1>2, <1>3, <1>4 DEF Enter, Kinds
<1>9. /\ BudgetExceeded => Wrote("runner", "budget_exceeded", 0, runner.stage, NoStage, 0)
      /\ NoModel => Wrote("runner", "dispatch_result", runner.d + 1, runner.stage, NoStage, 0)
      /\ Intent => Wrote("runner", "dispatch_intent", runner.d + 1, runner.stage, NoStage, 0)
  BY <1>1, <1>2, <1>4 DEF BudgetExceeded, NoModel, Intent, Kinds
<1>10. ASSUME NEW accepted \in {0, 1}, LogResult(accepted)
       PROVE  Wrote("runner", "dispatch_result", runner.d, runner.stage, NoStage, 0)
  BY <1>1, <1>2, <1>4, <1>10 DEF LogResult, Kinds
<1>11. ASSUME NEW c \in DOMAIN calls, Answer(c)
       PROVE  Wrote("runner", "mutation", calls[c].d, NoStage, NoStage, Undoes(c))
  BY <1>2, <1>4, <1>11, AnsweredType DEF Answer, Kinds
<1>12. ASSUME Advance \/ LeavePrefix
       PROVE  Wrote("runner", "transition", 0, runner.stage, After(runner.stage), 0)
  <2>1. After(runner.stage) \in Names
    BY <1>2, <1>12, AfterStage DEF Advance, LeavePrefix, At, Phases, Placed, Inside
  <2> QED
    BY <1>1, <1>4, <1>12, <2>1 DEF Advance, LeavePrefix, Kinds
<1>13. ASSUME NEW s \in Graph \ {Completion}
       PROVE  /\ LoopBack(s) => Wrote("runner", "transition", 0, runner.stage, s, 1)
              /\ RouteBack(s) \/ RouteBackRefused(s) =>
                   Wrote("runner", "transition", 0, Completion, s, 0)
  BY <1>1, <1>2, <1>4 DEF LoopBack, RouteBack, RouteBackRefused, Kinds
<1>14. /\ CountLoop => Wrote("runner", "budget", 0, NoStage, NoStage, runner.loops)
       /\ Redispatch => Wrote("runner", "note", 0, runner.stage, NoStage, 0)
       /\ Block => Wrote("runner", "transition", 0, runner.stage, "BLOCKED", 0)
       /\ Complete => Wrote("runner", "dod_computed", 0, Completion, NoStage, 0)
  BY <1>1, <1>2, <1>4 DEF CountLoop, Redispatch, Block, Complete, Kinds
<1> QED
  BY <1>5, <1>6, <1>7, <1>8, <1>9, <1>10, <1>11, <1>12, <1>13, <1>14

(* The journals that count for a log: whatever else is open, one at a time.   *)
Keeping == (Early \ {"new"}) \cup Inside \cup Ending

RunKeepers ==
  {j \in Journals : \/ j = "runner" /\ runner.pc \notin {"new", "dead"}
                    \/ j \in Recoverers /\ crew[j].pc \notin Over}

ItemKeepers ==
  {j \in Journals : \/ j = "runner" /\ runner.pc \in Keeping
                    \/ j = "outer" /\ runner.pc = "proposing"
                    \/ j = "next" /\ runner.pc \in {"entering", "running"}
                    \/ j \in Recoverers /\ crew[j].pc \notin Over}

(* The places a journal is opened at, and none is taken up again.            *)
Onwards ==
  /\ runner.pc \notin {"new", "dead"} /\ runner'.pc # "new"
  /\ runner'.pc \in Keeping => runner.pc \in Keeping
  /\ runner'.pc # "proposing"
  /\ runner'.pc \in {"entering", "running"} => runner.pc \in {"entering", "running"}

Opens(j) ==
  \/ j = "runner" /\ runner.pc = "new" /\ runner'.pc = "starting"
  \/ j = "outer" /\ runner.pc = "resolving" /\ runner'.pc = "proposing"
  \/ j = "next" /\ runner.pc = "restarting" /\ runner'.pc = "entering"

WroteRun(j) == \E kind, d, from, to, n : Wrote(j, kind, d, from, to, n)

(* By the journal that counts, or in a line that is numbered beside it.      *)
WroteAbout(j) == \E kind : WroteItem(j, kind) /\ (kind \in Aside \/ j \in ItemKeepers)

(* Of the steps of the run, each writes a line to one log, opens a journal, or *)
(* neither.                                                                    *)
LEMMA RunnerWrites ==
  ASSUME TypeInv, Phases, Runs
  PROVE  /\ crew' = crew
         /\ \/ Onwards /\ WroteRun("runner")
            \/ Onwards /\ \E j \in {"runner", "outer", "next"} : WroteAbout(j)
            \/ Onwards /\ SameLines /\ journal' = journal
            \/ SameLines /\ \E j \in {"runner", "outer", "next"} : Open(j) /\ Opens(j)
<1> USE DEF Keeping, Early, Inside, Ending, Onwards
<1> DEFINE Wrote1 == Onwards /\ crew' = crew /\ WroteRun("runner")
           Wrote2 == Onwards /\ crew' = crew /\ \E j \in {"runner", "outer", "next"} : WroteAbout(j)
<1>0. runner \in Holdings
  BY DEF TypeInv
<1>1. CASE Begin \/ OpenOuter \/ OpenNext
  <2>1. runLog' = runLog /\ itemLog' = itemLog /\ crew' = crew
    BY <1>1 DEF Begin, OpenOuter, OpenNext, OnlyRunner
  <2>2. Begin => Open("runner") /\ Opens("runner")
    BY <1>0 DEF Begin, At, Goto, Opens, Holdings
  <2>3. OpenOuter => Open("outer") /\ Opens("outer")
    BY <1>0 DEF OpenOuter, At, Goto, Opens, Holdings
  <2>4. OpenNext => Open("next") /\ Opens("next")
    BY <1>0 DEF OpenNext, At, Goto, Opens, Holdings
  <2> QED
    BY <1>1, <2>1, <2>2, <2>3, <2>4 DEF SameLines, TypeInv
<1>2. CASE StartedItem \/ EndedItem \/ ReresolvedItem \/ Released
  <2>1. Onwards /\ crew' = crew
    BY <1>0, <1>2 DEF StartedItem, EndedItem, ReresolvedItem, Released, At, Goto, OnlyRunner,
                      Holdings
  <2>2. \E kind \in Kinds : JournalItem("runner", kind)
    BY <1>2 DEF StartedItem, EndedItem, ReresolvedItem, Released, Kinds
  <2>3. "runner" \in ItemKeepers
    BY <1>2, TheJournals DEF StartedItem, EndedItem, ReresolvedItem, Released, At, ItemKeepers
  <2>4. WroteAbout("runner")
    BY <2>2, <2>3, TheJournals, ItemJournalled DEF WroteAbout
  <2> QED
    BY <2>1, <2>4
<1>3. ASSUME NEW admitted \in BOOLEAN, Propose(admitted)
      PROVE  Wrote2
  <2>1. Onwards /\ crew' = crew
    BY <1>0, <1>3 DEF Propose, At, Goto, OnlyRunner, Holdings
  <2>2. WroteItem("outer", "resolution")
    BY <1>3, TheJournals, ItemJournalled DEF Propose, Kinds
  <2>3. "outer" \in ItemKeepers
    BY <1>3, TheJournals DEF Propose, At, ItemKeepers
  <2> QED
    BY <2>1, <2>2, <2>3 DEF WroteAbout
<1>4. CASE NextStarted \/ NextEnded
  <2>1. Onwards /\ crew' = crew
    BY <1>0, <1>4 DEF NextStarted, NextEnded, At, Goto, OnlyRunner, Holdings
  <2>2. \E kind \in Kinds : JournalItem("next", kind)
    BY <1>4 DEF NextStarted, NextEnded, Kinds
  <2>3. "next" \in ItemKeepers
    BY <1>4, TheJournals DEF NextStarted, NextEnded, At, ItemKeepers
  <2>4. WroteAbout("next")
    BY <2>2, <2>3, TheJournals, ItemJournalled DEF WroteAbout
  <2> QED
    BY <2>1, <2>4
<1>5. CASE LinkNext
  <2>1. Onwards /\ crew' = crew
    BY <1>0, <1>5 DEF LinkNext, At, Goto, OnlyRunner, Holdings
  <2>2. WroteItem("outer", "reresolved_into")
    BY <1>5, TheJournals, ItemJournalled DEF LinkNext, Kinds
  <2>3. WroteAbout("outer")
    BY <2>2 DEF WroteAbout, Aside
  <2> QED
    BY <2>1, <2>3
<1>6. CASE StartedRun \/ Admit \/ EntryAmbiguous \/ BlockAtEntry \/ MarkPrior \/ Enter
           \/ EndedRun \/ ReresolvedRun
  <2>1. Onwards /\ crew' = crew
    BY <1>0, <1>6 DEF StartedRun, Admit, EntryAmbiguous, BlockAtEntry, MarkPrior, Enter,
                      EndedRun, ReresolvedRun, At, Goto, OnlyRunner, Holdings
  <2>2. WroteRun("runner")
    BY <1>6, RunnerLines DEF WroteRun
  <2> QED
    BY <2>1, <2>2
<1>7. ASSUME NEW prior \in 0..(Len(Stages) - 1), ComputeEntry(prior)
      PROVE  Wrote1
  <2>1. Onwards /\ crew' = crew
    BY <1>0, <1>7 DEF ComputeEntry, At, OnlyRunner, Holdings
  <2>2. WroteRun("runner")
    BY <1>7, RunnerLines DEF WroteRun
  <2> QED
    BY <2>1, <2>2
<1>8. CASE BudgetExceeded \/ NoModel \/ Intent \/ Complete
  <2>1. Onwards /\ crew' = crew
    BY <1>0, <1>8 DEF BudgetExceeded, NoModel, Intent, Complete, Completing, Dispatching,
                      Iterating, At, Goto, OnlyRunner, Holdings
  <2>2. WroteRun("runner")
    BY <1>8, RunnerLines DEF WroteRun
  <2> QED
    BY <2>1, <2>2
<1>9. ASSUME NEW accepted \in {0, 1}, LogResult(accepted)
      PROVE  Wrote1
  <2>1. Onwards /\ crew' = crew
    BY <1>0, <1>9 DEF LogResult, At, OnlyRunner, Holdings
  <2>2. WroteRun("runner")
    BY <1>9, RunnerLines DEF WroteRun
  <2> QED
    BY <2>1, <2>2
<1>10. CASE Advance \/ LeavePrefix \/ Redispatch \/ Block \/ CountLoop
  <2>1. Onwards /\ crew' = crew
    BY <1>0, <1>10 DEF Advance, LeavePrefix, Redispatch, Block, CountLoop, At, Goto,
                       OnlyRunner, Holdings
  <2>2. WroteRun("runner")
    BY <1>10, RunnerLines DEF WroteRun
  <2> QED
    BY <2>1, <2>2
<1>11. ASSUME NEW s \in Graph \ {Completion}, LoopBack(s) \/ RouteBack(s) \/ RouteBackRefused(s)
       PROVE  Wrote1
  <2>1. Onwards /\ crew' = crew
    BY <1>0, <1>11 DEF LoopBack, RouteBack, RouteBackRefused, Completing, Iterating, At,
                       OnlyRunner, Holdings
  <2>2. WroteRun("runner")
    BY <1>11, RunnerLines DEF WroteRun
  <2> QED
    BY <2>1, <2>2
<1>12. ASSUME NEW c \in DOMAIN calls, Answer(c)
       PROVE  Wrote1
  <2>1. Onwards /\ crew' = crew
    BY <1>0, <1>12 DEF Answer, Awaiting, Holdings
  <2>2. WroteRun("runner")
    BY <1>12, RunnerLines DEF WroteRun
  <2> QED
    BY <2>1, <2>2
<1>13. CASE OutOfIterations \/ GiveUp \/ \E reversible \in {0, 1} : Ask(reversible)
  BY <1>0, <1>13 DEF OutOfIterations, GiveUp, Ask, At, Goto, OnlyRunner, SameLines, TypeInv,
                     Holdings
<1>14. CASE RunnerCrashes
  <2>1. /\ journal' = journal /\ crew' = crew
        /\ runLog' = runLog \/ runLog' = Tear(runLog)
        /\ itemLog' = itemLog \/ itemLog' = Tear(itemLog)
    BY <1>14 DEF RunnerCrashes
  <2>2. Onwards
    BY <1>0, <1>14 DEF RunnerCrashes, Goto, Holdings
  <2>3. ASSUME NEW log \in Logs
        PROVE  Tear(log) \in Logs /\ Tear(log).lines = log.lines
    BY DEF Tear, Logs
  <2> QED
    BY <2>1, <2>2, <2>3 DEF SameLines, TypeInv
<1> HIDE DEF Wrote1, Wrote2
<1> QED
  <2>1. CASE Runner
    BY <1>1, <1>2, <1>6, <1>7, <1>8, <1>9, <1>10, <1>11, <1>13, <1>14, <2>1
       DEF Runner, Wrote1
  <2>2. CASE Reresolution
    BY <1>1, <1>2, <1>3, <1>4, <1>5, <1>6, <1>10, <2>2 DEF Reresolution, Wrote2
  <2>3. CASE Agents
    BY <1>12, <1>13, <2>3 DEF Agents, Wrote1
  <2> QED
    BY <2>1, <2>2, <2>3 DEF Runs

(* What a step of the run makes of what it holds and of its agents' calls.   *)
RunnerOK ==
  /\ calls' \in Seq(Calls)
  /\ runner' \in Holdings /\ Placed(runner') /\ Within(runner', Len(calls'))

LEMMA RunnerPhases ==
  ASSUME TypeInv, Phases, Runs
  PROVE  RunnerOK
<1> USE DEF At, Goto, OnlyRunner, Early, Inside, Ending, Beyond, RunnerPlaces
<1>0. /\ Selected \notin Graph /\ "BLOCKED" \notin Graph /\ Completion \in Graph
      /\ Selected # "BLOCKED" /\ NoStage \notin Graph /\ Len(Stages) \in Nat \ {0}
  BY NamesOfStages
<1>1. /\ runner \in Holdings /\ Placed(runner) /\ Within(runner, Len(calls))
      /\ calls \in Seq(Calls) /\ Len(calls) \in Nat
  BY DEF TypeInv, Phases
<1>2. /\ runner.iteration \in Nat /\ runner.d \in Nat /\ runner.charged \in Nat
      /\ runner.results \in Nat /\ runner.loops \in Nat /\ runner.setting \in Bounds
      /\ runner.setting.calls \in Nat /\ runner.setting.dispatches \in Nat
      /\ runner.setting.iterations \in Nat
  BY <1>1 DEF Holdings, Bounds
<1> DEFINE OK == runner' \in Holdings /\ Placed(runner') /\ Within(runner', Len(calls))
<1>3. ASSUME calls' = calls, OK
      PROVE  RunnerOK
  BY <1>1, <1>3 DEF RunnerOK
<1> DEFINE Holds(pc, stage, iteration, d, charged, results, loops, refused) ==
             /\ runner' \in Holdings
             /\ runner'.pc = pc /\ runner'.stage = stage /\ runner'.iteration = iteration
             /\ runner'.d = d /\ runner'.charged = charged /\ runner'.results = results
             /\ runner'.loops = loops /\ runner'.refused = refused
             /\ runner'.setting = runner.setting
           Goes(pc) == Holds(pc, runner.stage, runner.iteration, runner.d, runner.charged,
                             runner.results, runner.loops, runner.refused)
<1>a. ASSUME NEW pc \in RunnerPlaces, Goto(pc)
      PROVE  Goes(pc)
  BY <1>1, <1>a DEF Holdings
<1>b. ASSUME NEW pc \in Ending \cup Beyond, Goes(pc), runner.stage # Selected
      PROVE  OK
  BY <1>0, <1>1, <1>b DEF Placed, Within
<1>4. CASE Begin \/ StartedItem \/ StartedRun \/ Admit \/ EntryAmbiguous
  <2>1. OK
    BY SMTT(30), <1>0, <1>1, <1>2, <1>4 DEF Begin, StartedItem, StartedRun, Admit, EntryAmbiguous,
                                  Holdings, Placed, Within
  <2> QED
    BY <1>3, <1>4, <2>1 DEF Begin, StartedItem, StartedRun, Admit, EntryAmbiguous
<1>5. ASSUME NEW prior \in 0..(Len(Stages) - 1), ComputeEntry(prior)
      PROVE  RunnerOK
  <2>1. OK
    BY <1>0, <1>1, <1>2, <1>5 DEF ComputeEntry, Holdings, Placed, Within
  <2> QED
    BY <1>3, <1>5, <2>1 DEF ComputeEntry
<1>6. CASE BlockAtEntry \/ MarkPrior
  <2>1. OK
    <3>1. CASE BlockAtEntry
      <4>1. Holds("ending", "BLOCKED", runner.iteration, runner.d, runner.charged,
                  runner.results, runner.loops, runner.refused)
        BY <1>1, <3>1 DEF BlockAtEntry, Holdings
      <4> QED
        BY <1>0, <1>1, <4>1 DEF Placed, Within
    <3>2. CASE MarkPrior
      BY <1>1, <3>2 DEF MarkPrior
    <3> QED
      BY <1>6, <3>1, <3>2
  <2> QED
    BY <1>3, <1>6, <2>1 DEF BlockAtEntry, MarkPrior
<1>21. CASE Redispatch \/ CountLoop
  <2>1. Goes("ready") /\ runner.pc \in {"decided", "counting"}
    BY <1>a, <1>21 DEF Redispatch, CountLoop
  <2>2. OK
    BY <1>0, <1>1, <2>1 DEF Placed, Within
  <2> QED
    BY <1>3, <1>21, <2>2 DEF Redispatch, CountLoop
<1>7. CASE Enter
  <2>1. Stages[runner.prior + 1] \in Graph
    BY <1>1, NamesOfStages DEF Holdings
  <2>2. OK
    BY <1>0, <1>1, <1>2, <1>7, <2>1 DEF Enter, Holdings, Placed, Within
  <2> QED
    BY <1>3, <1>7, <2>2 DEF Enter
<1>8. CASE OutOfIterations \/ BudgetExceeded \/ GiveUp \/ Complete
  <2>1. OK
    BY SMTT(30), <1>0, <1>1, <1>2, <1>8 DEF OutOfIterations, BudgetExceeded, GiveUp, Complete,
              Completing, Dispatching, Iterating, Holdings, Placed, Within
  <2> QED
    BY <1>3, <1>8, <2>1 DEF OutOfIterations, BudgetExceeded, GiveUp, Complete
<1>9. CASE EndedItem \/ EndedRun \/ Released
  <2>1. \E pc \in Ending \cup Beyond : Goes(pc)
    BY <1>a, <1>9 DEF EndedItem, EndedRun, Released
  <2>2. runner.stage # Selected
    BY <1>1, <1>9 DEF EndedItem, EndedRun, Released, Placed
  <2>3. OK
    BY <1>b, <2>1, <2>2
  <2> QED
    BY <1>3, <1>9, <2>3 DEF EndedItem, EndedRun, Released
<1>10. CASE NoModel \/ Intent
  <2>1. /\ runner.iteration + 1 \in Nat /\ runner.d + 1 \in Nat /\ runner.results + 1 \in Nat
        /\ runner.iteration + 1 <= runner.setting.iterations
    BY <1>1, <1>2, <1>10 DEF NoModel, Intent, Dispatching, Iterating, Within
  <2>2. /\ runner.pc = "ready" /\ runner.stage \in Graph /\ runner.stage # Completion
        /\ runner.charged < runner.setting.dispatches
    BY <1>1, <1>10 DEF NoModel, Intent, Dispatching, Iterating, Placed
  <2>3. CASE NoModel
    <3>1. Holds("decided", runner.stage, runner.iteration + 1, runner.d + 1, runner.charged,
                runner.results + 1, runner.loops, runner.refused)
      BY <1>1, <2>1, <2>3 DEF NoModel, Holdings
    <3>2. OK
      BY SMTT(30), <1>0, <1>1, <1>2, <2>1, <2>2, <3>1 DEF Placed, Within
    <3> QED
      BY <1>3, <2>3, <3>2 DEF NoModel
  <2>4. CASE Intent
    <3>1. Holds("working", runner.stage, runner.iteration + 1, runner.d + 1, runner.charged,
                runner.results, runner.loops, runner.refused)
      BY <1>1, <2>1, <2>4 DEF Intent, Holdings
    <3>2. OK
      BY SMTT(30), <1>0, <1>1, <1>2, <2>1, <2>2, <3>1 DEF Placed, Within
    <3> QED
      BY <1>3, <2>4, <3>2 DEF Intent
  <2> QED
    BY <1>10, <2>3, <2>4
<1>11. ASSUME NEW accepted \in {0, 1}, LogResult(accepted)
       PROVE  RunnerOK
  <2>1. /\ runner.charged + accepted \in Nat /\ runner.results + 1 \in Nat
        /\ runner.charged + accepted <= runner.setting.dispatches
        /\ runner.charged + accepted <= runner.results + 1
        /\ runner.results + 1 <= runner.d
    <3>1. /\ runner.charged < runner.setting.dispatches /\ runner.charged <= runner.results
          /\ runner.results < runner.d
      BY <1>1, <1>11 DEF LogResult, Within
    <3> QED
      BY <1>2, <3>1
  <2>2. OK
    <3>1. Holds("decided", runner.stage, runner.iteration, runner.d, runner.charged + accepted,
                runner.results + 1, runner.loops, runner.refused)
      BY <1>1, <1>11, <2>1 DEF LogResult, Holdings
    <3> QED
      BY <1>0, <1>1, <1>11, <2>1, <3>1 DEF LogResult, Placed, Within
  <2> QED
    BY <1>3, <1>11, <2>2 DEF LogResult
<1>12. CASE Advance \/ LeavePrefix
  <2>1. After(runner.stage) \in Graph
    BY <1>1, <1>12, AfterStage DEF Advance, LeavePrefix, Placed
  <2>2. OK
    <3>1. \E pc \in {"ready", "reresolving"} :
            Holds(pc, After(runner.stage), runner.iteration, runner.d, runner.charged,
                  runner.results, runner.loops, runner.refused)
      BY <1>1, <1>12, <2>1 DEF Advance, LeavePrefix, Holdings
    <3> QED
      BY <1>0, <1>1, <1>12, <2>1, <3>1 DEF Advance, LeavePrefix, Placed, Within
  <2> QED
    BY <1>3, <1>12, <2>2 DEF Advance, LeavePrefix
<1>13. CASE Block
  <2>1. OK
    BY <1>0, <1>1, <1>2, <1>13 DEF Block, Holdings, Placed, Within
  <2> QED
    BY <1>3, <1>13, <2>1 DEF Block
<1>14. ASSUME NEW s \in Graph \ {Completion}, LoopBack(s)
       PROVE  RunnerOK
  <2>1. OK
    <3>1. Holds("counting", s, runner.iteration, runner.d, runner.charged,
                runner.results, runner.loops + 1, runner.refused)
      <4>1. runner.loops + 1 \in Nat
        BY <1>2
      <4> QED
        BY <1>1, <1>14, <4>1 DEF LoopBack, Holdings
    <3> QED
      BY <1>0, <1>1, <1>14, <3>1 DEF LoopBack, Placed, Within
  <2> QED
    BY <1>3, <1>14, <2>1 DEF LoopBack
<1>15. ASSUME NEW s \in Graph \ {Completion}, RouteBack(s) \/ RouteBackRefused(s)
       PROVE  RunnerOK
  <2>1. /\ runner.iteration + 1 \in Nat /\ runner.iteration + 1 <= runner.setting.iterations
        /\ runner.stage = Completion
        /\ runner.routedBack \cup {s} \in SUBSET Graph
    BY <1>1, <1>2, <1>15 DEF RouteBack, RouteBackRefused, Completing, Iterating, Within,
                             Holdings
  <2>2. CASE RouteBack(s)
    <3>1. Holds(runner.pc, s, runner.iteration + 1, runner.d, runner.charged,
                runner.results, runner.loops, runner.refused) /\ runner.pc = "ready"
      BY <1>1, <2>1, <2>2 DEF RouteBack, Completing, Iterating, Holdings
    <3>2. OK
      BY <1>0, <1>1, <1>2, <2>1, <3>1 DEF Placed, Within
    <3> QED
      BY <1>3, <2>2, <3>2 DEF RouteBack
  <2>3. CASE RouteBackRefused(s)
    <3>1. Holds("ending", runner.stage, runner.iteration, runner.d, runner.charged,
                runner.results, runner.loops, s)
      BY <1>1, <2>1, <2>3 DEF RouteBackRefused, Completing, Iterating, Holdings
    <3>2. OK
      BY <1>0, <1>1, <1>2, <2>1, <3>1 DEF Placed, Within
    <3> QED
      BY <1>3, <2>3, <3>2 DEF RouteBackRefused
  <2> QED
    BY <1>15, <2>2, <2>3
<1>16. CASE RunnerCrashes
  <2>1. OK
    BY <1>0, <1>1, <1>2, <1>16 DEF RunnerCrashes, Holdings, Placed, Within
  <2> QED
    BY <1>3, <1>16, <2>1 DEF RunnerCrashes
<1>17. CASE ReresolvedItem \/ ReresolvedRun
  <2>1. OK
    <3>1. runner.stage # Selected
      BY <1>1, <1>17 DEF ReresolvedItem, ReresolvedRun, Placed
    <3>2. ReresolvedItem => Goes("reresolved")
      BY <1>a DEF ReresolvedItem
    <3>3. ASSUME ReresolvedRun
          PROVE  Goes("ending")
      <4> DEFINE again == runner.setting.reresolutions > 0
      <4>1. again \in BOOLEAN
        OBVIOUS
      <4>2. runner' = [runner EXCEPT !.pc = "ending", !.again = again]
        BY <3>3 DEF ReresolvedRun
      <4> HIDE DEF again
      <4> QED
        BY <1>1, <4>1, <4>2 DEF Holdings
    <3> QED
      BY <1>b, <1>17, <3>1, <3>2, <3>3
  <2> QED
    BY <1>3, <1>17, <2>1 DEF ReresolvedItem, ReresolvedRun
<1>18. CASE OpenOuter \/ OpenNext \/ NextStarted \/ NextEnded \/ LinkNext
            \/ \E admitted \in BOOLEAN : Propose(admitted)
  <2>1. OK
    <3>1. \E pc \in Beyond : Goes(pc)
      BY <1>a, <1>18 DEF OpenOuter, OpenNext, NextStarted, NextEnded, LinkNext, Propose
    <3>2. runner.stage # Selected
      BY <1>1, <1>18 DEF OpenOuter, OpenNext, NextStarted, NextEnded, LinkNext, Propose, Placed
    <3> QED
      BY <1>b, <3>1, <3>2
  <2> QED
    BY <1>3, <1>18, <2>1 DEF OpenOuter, OpenNext, NextStarted, NextEnded, LinkNext, Propose
<1>19. ASSUME NEW reversible \in {0, 1}, Ask(reversible)
       PROVE  RunnerOK
  <2> DEFINE call == [d |-> runner.d, reversible |-> reversible, ok |-> FALSE]
  <2>1. call \in Calls
    BY <1>2 DEF Calls
  <2>2. calls' = Append(calls, call) /\ runner' = runner /\ Len(calls) < runner.setting.calls
    BY <1>19 DEF Ask
  <2> HIDE DEF call
  <2>3. Append(calls, call) \in Seq(Calls) /\ Len(Append(calls, call)) = Len(calls) + 1
    BY <1>1, <2>1
  <2>4. Within(runner, Len(calls) + 1)
    BY <1>1, <1>2, <2>2 DEF Within
  <2> QED
    BY <1>1, <2>2, <2>3, <2>4 DEF RunnerOK
<1>20. ASSUME NEW c \in DOMAIN calls, Answer(c)
       PROVE  RunnerOK
  <2>1. [calls[c] EXCEPT !.ok = TRUE] \in Calls
    <3>1. calls[c] \in Calls
      BY <1>1
    <3> QED
      BY <3>1 DEF Calls
  <2>2. calls' = [calls EXCEPT ![c] = [calls[c] EXCEPT !.ok = TRUE]] /\ runner' = runner
    BY <1>20 DEF Answer
  <2>3. calls' \in Seq(Calls) /\ Len(calls') = Len(calls)
    BY <1>1, <2>1, <2>2
  <2> QED
    BY <1>1, <2>2, <2>3 DEF RunnerOK
<1> HIDE DEF OK
<1> QED
  <2>1. CASE Runner
    BY <1>4, <1>5, <1>6, <1>7, <1>8, <1>9, <1>10, <1>11, <1>12, <1>13, <1>14, <1>15, <1>16, <1>21, <2>1
       DEF Runner
  <2>2. CASE Reresolution
    BY <1>12, <1>17, <1>18, <2>2 DEF Reresolution
  <2>3. CASE Agents
    BY <1>19, <1>20, <2>3 DEF Agents
  <2> QED
    BY <2>1, <2>2, <2>3 DEF Runs

LEMMA LinesOfRecoverer ==
  ASSUME TypeInv, NEW j \in Journals,
         NEW kind \in Kinds, NEW d \in Nat,
         JournalRun(j, Event(kind, d, NoStage, NoStage, 0))
  PROVE  Wrote(j, kind, d, NoStage, NoStage, 0)
<1>1. NoStage \in Names
  BY NamesOfStages
<1> QED
  BY <1>1, RunJournalled

(* What a step of a recovery writes, and what it makes of the recoveries.    *)
LEMMA RecovererWrites ==
  ASSUME TypeInv, Phases, NEW v \in Recoverers, Recoverer(v)
  PROVE  /\ runner' = runner /\ calls' = calls
         /\ \E c \in [pc : CrewPlaces, saw : Projections] :
              crew' = [crew EXCEPT ![v] = c] /\ (c.pc = "finding" => Interrupted(c.saw) # {})
         /\ \/ crew[v].pc \notin Over /\ WroteRun(v)
            \/ crew[v].pc \notin Over /\ WroteAbout(v)
            \/ crew[v].pc \notin Over /\ SameLines /\ journal' = journal
            \/ /\ \A w \in Recoverers : crew[w].pc \in Over
               /\ runner.pc = "dead" /\ SameLines /\ Open(v)
<1> DEFINE Moves == \E c \in [pc : CrewPlaces, saw : Projections] :
                      /\ crew' = [crew EXCEPT ![v] = c]
                      /\ c.pc = "finding" => Interrupted(c.saw) # {}
           Alone == runner' = runner /\ calls' = calls
<1>0. v \in Journals /\ crew[v] \in [pc : CrewPlaces, saw : Projections]
  BY DEF Journals, TypeInv
<1>1. ASSUME NEW from, NEW to \in CrewPlaces, Step(v, from, to),
             to = "finding" => Interrupted(crew[v].saw) # {}
      PROVE  Moves
  <2>1. [crew[v] EXCEPT !.pc = to] \in [pc : CrewPlaces, saw : Projections]
    BY <1>0
  <2>2. [crew[v] EXCEPT !.pc = to].pc = to /\ [crew[v] EXCEPT !.pc = to].saw = crew[v].saw
    BY <1>0
  <2>3. crew' = [crew EXCEPT ![v] = [crew[v] EXCEPT !.pc = to]]
    BY <1>1 DEF Step
  <2> QED
    BY <1>1, <2>1, <2>2, <2>3
<1>2. CASE OpenJournal(v)
  <2>1. Moves
    BY <1>1, <1>2 DEF OpenJournal, CrewPlaces
  <2> QED
    BY <1>2, <2>1 DEF OpenJournal, At, OnlyCrew, SameLines, TypeInv
<1>3. CASE ReadLog(v)
  <2> DEFINE c == [pc |-> IF EndsWithNewline(runLog) THEN "announcing" ELSE "discarding",
                   saw |-> Project(runLog.lines)]
  <2>1. Project(runLog.lines) \in Projections
    BY ProjectType DEF TypeInv, Logs
  <2>2. c \in [pc : CrewPlaces, saw : Projections] /\ c.pc # "finding"
    BY <2>1 DEF CrewPlaces, Knowing
  <2>3. crew' = [crew EXCEPT ![v] = c]
    BY <1>3 DEF ReadLog
  <2>4. Moves
    BY <2>2, <2>3
  <2> QED
    BY <1>3, <2>4 DEF ReadLog, OnlyCrew, SameLines, TypeInv, Over
<1>4. CASE Discard(v)
  <2>1. Moves
    BY <1>1, <1>4 DEF Discard, CrewPlaces, Knowing
  <2>2. WroteItem(v, "recovery")
    BY <1>0, <1>4, ItemJournalled DEF Discard, Kinds
  <2>3. v \in ItemKeepers
    BY <1>0, <1>4 DEF Discard, Step, ItemKeepers, Over
  <2> QED
    BY <1>4, <2>1, <2>2, <2>3 DEF Discard, Step, OnlyCrew, Over, WroteAbout
<1>5. CASE Repair(v)
  <2>1. Moves
    BY <1>1, <1>5 DEF Repair, CrewPlaces, Knowing
  <2>2. runLog' \in Logs /\ runLog'.lines = runLog.lines /\ itemLog' = itemLog
    BY <1>5 DEF Repair, Truncated, TypeInv, Logs
  <2> QED
    BY <1>5, <2>1, <2>2 DEF Repair, Step, OnlyCrew, SameLines, TypeInv, Over
<1>6. CASE Announce(v)
  <2>1. Moves
    BY <1>1, <1>6 DEF Announce, CrewPlaces, Knowing
  <2>2. WroteRun(v)
    BY <1>0, <1>6, LinesOfRecoverer DEF Announce, Kinds, WroteRun
  <2> QED
    BY <1>6, <2>1, <2>2 DEF Announce, Step, OnlyCrew, Over
<1>7. CASE Found(v)
  <2>1. Moves
    BY <1>1, <1>7 DEF Found, CrewPlaces, Knowing
  <2> DEFINE d == CHOOSE x \in Interrupted(crew[v].saw) : TRUE
  <2>2. d \in Nat
    <3>1. Interrupted(crew[v].saw) # {}
      BY <1>7 DEF Found, Step, Phases
    <3>2. Interrupted(crew[v].saw) \subseteq Nat
      BY <1>0 DEF Interrupted, Projections
    <3> QED
      BY <3>1, <3>2
  <2>3. WroteRun(v)
    <3>1. JournalRun(v, Event("recovery_found", d, NoStage, NoStage, 0))
      BY <1>7 DEF Found
    <3>2. "recovery_found" \in Kinds
      BY DEF Kinds
    <3> HIDE DEF d
    <3> QED
      BY <1>0, <2>2, <3>1, <3>2, LinesOfRecoverer DEF WroteRun
  <2> QED
    BY <1>7, <2>1, <2>3 DEF Found, Step, OnlyCrew, Over
<1>8. CASE Completed(v)
  <2>1. Moves
    BY <1>1, <1>8 DEF Completed, CrewPlaces, Knowing
  <2>2. WroteRun(v)
    BY <1>0, <1>8, LinesOfRecoverer DEF Completed, Kinds, WroteRun
  <2> QED
    BY <1>8, <2>1, <2>2 DEF Completed, Step, OnlyCrew, Over
<1>9. CASE RecovererThrows(v)
  <2>1. Moves
    BY <1>1, <1>9 DEF RecovererThrows, CrewPlaces
  <2> QED
    BY <1>9, <2>1 DEF RecovererThrows, Step, OnlyCrew, SameLines, TypeInv, Over
<1>10. CASE RecovererCrashes(v)
  <2>1. Moves
    <3>1. Step(v, crew[v].pc, "dead")
      BY <1>10 DEF RecovererCrashes, Step
    <3> QED
      BY <1>1, <3>1 DEF CrewPlaces
  <2>2. /\ journal' = journal /\ crew[v].pc \notin Over
        /\ runLog' = runLog \/ runLog' = Tear(runLog)
        /\ itemLog' = itemLog \/ itemLog' = Tear(itemLog)
    BY <1>10 DEF RecovererCrashes
  <2>3. ASSUME NEW log \in Logs
        PROVE  Tear(log) \in Logs /\ Tear(log).lines = log.lines
    BY DEF Tear, Logs
  <2> QED
    BY <1>10, <2>1, <2>2, <2>3 DEF RecovererCrashes, SameLines, TypeInv
<1> QED
  BY <1>2, <1>3, <1>4, <1>5, <1>6, <1>7, <1>8, <1>9, <1>10 DEF Recoverer

(* ---- the numbers in the logs ---- *)

Ascends(s) == InOrder(s, {})

(* No line but of these kinds has a greater number.                          *)
UpTo(s, kinds, k) == \A i \in DOMAIN s : s[i].kind \notin kinds => s[i].seq <= k

(* Whoever counts for a log has counted at least as far as it goes, but for
   the lines that are numbered beside it.                                    *)
Numbering ==
  /\ InOrder(runLog.lines, {}) /\ InOrder(itemLog.lines, Aside)
  /\ \A j \in RunKeepers : UpTo(runLog.lines, {}, journal[j].run)
  /\ \A j \in ItemKeepers : UpTo(itemLog.lines, Aside, journal[j].item)

LEMMA LinesAppend ==
  ASSUME NEW s \in Seq(Lines), NEW e \in Lines
  PROVE  /\ DOMAIN Append(s, e) = 1..(Len(s) + 1) /\ DOMAIN s = 1..Len(s) /\ Len(s) \in Nat
         /\ Append(s, e)[Len(s) + 1] = e /\ \A i \in 1..Len(s) : Append(s, e)[i] = s[i]
         /\ \A i \in 1..Len(s) : s[i] \in Lines /\ s[i].seq \in Nat
         /\ e.seq \in Nat
<1>1. \A i \in 1..Len(s) : s[i] \in Lines
  OBVIOUS
<1>2. \A i \in 1..Len(s) : s[i].seq \in Nat
  BY <1>1 DEF Lines
<1> QED
  BY <1>1, <1>2 DEF Lines

(* A line whose number is above those that were is in order after them.      *)
LEMMA InOrderAppend ==
  ASSUME NEW s \in Seq(Lines), NEW e \in Lines, NEW k \in Nat, NEW kinds,
         InOrder(s, kinds), UpTo(s, kinds, k), e.seq = k + 1
  PROVE  InOrder(Append(s, e), kinds) /\ UpTo(Append(s, e), kinds, k + 1)
<1> DEFINE more == Append(s, e)
<1>1. /\ DOMAIN more = 1..(Len(s) + 1) /\ DOMAIN s = 1..Len(s) /\ Len(s) \in Nat
      /\ more[Len(s) + 1] = e /\ \A i \in 1..Len(s) : more[i] = s[i]
      /\ \A i \in 1..Len(s) : s[i].seq \in Nat
  BY LinesAppend
<1>2. \A i \in 1..Len(s) : s[i].kind \notin kinds => s[i].seq <= k
  BY <1>1 DEF UpTo
<1> HIDE DEF more
<1>3. \A i, j \in DOMAIN more :
        i < j /\ more[i].kind \notin kinds /\ more[j].kind \notin kinds =>
          more[i].seq < more[j].seq
  <2> SUFFICES ASSUME NEW i \in DOMAIN more, NEW j \in DOMAIN more, i < j,
                      more[i].kind \notin kinds, more[j].kind \notin kinds
               PROVE  more[i].seq < more[j].seq
    OBVIOUS
  <2>1. i \in 1..Len(s)
    BY <1>1
  <2>2. CASE j = Len(s) + 1
    BY <1>1, <1>2, <2>1, <2>2
  <2>3. CASE j \in 1..Len(s)
    BY <1>1, <2>1, <2>3 DEF InOrder
  <2> QED
    BY <1>1, <2>2, <2>3
<1>4. \A i \in DOMAIN more : more[i].kind \notin kinds => more[i].seq <= k + 1
  BY <1>1, <1>2
<1> QED
  BY <1>3, <1>4 DEF InOrder, UpTo, more

(* A line that is numbered beside the others changes nothing about them.     *)
LEMMA AsideAppend ==
  ASSUME NEW s \in Seq(Lines), NEW e \in Lines, NEW kinds, e.kind \in kinds
  PROVE  /\ InOrder(s, kinds) => InOrder(Append(s, e), kinds)
         /\ \A k \in Nat, m \in Nat : UpTo(s, kinds, k) /\ k <= m => UpTo(Append(s, e), kinds, m)
<1> DEFINE more == Append(s, e)
<1>1. /\ DOMAIN more = 1..(Len(s) + 1) /\ DOMAIN s = 1..Len(s) /\ Len(s) \in Nat
      /\ more[Len(s) + 1] = e /\ \A i \in 1..Len(s) : more[i] = s[i]
      /\ \A i \in 1..Len(s) : s[i].seq \in Nat
  BY LinesAppend
<1> HIDE DEF more
<1>2. \A i \in DOMAIN more : more[i].kind \notin kinds => i \in DOMAIN s /\ more[i] = s[i]
  BY <1>1
<1>3. InOrder(s, kinds) => InOrder(more, kinds)
  BY <1>1, <1>2 DEF InOrder
<1>4. ASSUME NEW k \in Nat, NEW m \in Nat, UpTo(s, kinds, k), k <= m
      PROVE  UpTo(more, kinds, m)
  <2> SUFFICES ASSUME NEW i \in DOMAIN more, more[i].kind \notin kinds
               PROVE  more[i].seq <= m
    BY DEF UpTo
  <2>1. s[i].seq <= k /\ more[i].seq = s[i].seq /\ s[i].seq \in Nat
    BY <1>1, <1>2, <1>4 DEF UpTo
  <2> QED
    BY <1>4, <2>1
<1> QED
  BY <1>3, <1>4 DEF more

(* The numbers of a log have a bound, and so a greatest.                     *)
LEMMA NumbersBounded ==
  ASSUME NEW s \in Seq(Lines)
  PROVE  \E k \in Nat : \A i \in DOMAIN s : s[i].seq <= k
<1> DEFINE Has(n) == \E k \in Nat : \A i \in 1..n : s[i].seq <= k
           Bad    == {n \in 0..Len(s) : ~Has(n)}
<1>1. Len(s) \in Nat /\ DOMAIN s = 1..Len(s) /\ \A i \in 1..Len(s) : s[i].seq \in Nat
  <2>1. \A i \in 1..Len(s) : s[i] \in Lines
    OBVIOUS
  <2> QED
    BY <2>1 DEF Lines
<1>2. SUFFICES ASSUME Bad # {} PROVE FALSE
  <2>1. Bad = {} => Has(Len(s))
    <3> HIDE DEF Has
    <3> QED
      BY <1>1
  <2> QED
    BY <1>1, <2>1
<1>3. PICK n \in Bad : \A m \in Bad : n <= m
  <2>1. Bad \in SUBSET Nat
    BY <1>1
  <2> HIDE DEF Bad
  <2> QED
    BY <2>1, <1>2, Least
<1>4. n # 0
  <2>1. Has(0)
    <3>1. 0 \in Nat /\ \A i \in 1..0 : s[i].seq <= 0
      OBVIOUS
    <3> QED
      BY <3>1
  <2> QED
    BY <1>3, <2>1
<1>5. Has(n - 1) /\ n \in 1..Len(s)
  <2> HIDE DEF Has
  <2> QED
    BY <1>1, <1>3, <1>4
<1>6. PICK k \in Nat : \A i \in 1..(n - 1) : s[i].seq <= k
  BY <1>5
<1>7. PICK x \in Nat : s[n].seq = x
  BY <1>1, <1>5
<1>8. PICK m \in Nat : k <= m /\ x <= m
  <2>1. k + x \in Nat /\ k <= k + x /\ x <= k + x
    BY <1>6, <1>7
  <2> QED
    BY <2>1
<1>9. \A i \in 1..(n - 1) : s[i].seq <= m
  <2> SUFFICES ASSUME NEW i \in 1..(n - 1) PROVE s[i].seq <= m
    OBVIOUS
  <2>1. s[i].seq <= k /\ s[i].seq \in Nat
    <3>1. i \in 1..Len(s)
      BY <1>1, <1>5
    <3> QED
      BY <1>1, <1>6, <3>1
  <2> QED
    <3>1. PICK y \in Nat : s[i].seq = y /\ y <= k
      BY <2>1
    <3>2. k \in Nat /\ m \in Nat /\ k <= m
      BY <1>6, <1>8
    <3>3. y <= m
      BY <3>1, <3>2
    <3> QED
      BY <3>1, <3>3
<1>10. \A i \in 1..n : i = n \/ i \in 1..(n - 1)
  BY <1>1, <1>5
<1>11. \A i \in 1..n : s[i].seq <= m
  BY <1>7, <1>8, <1>9, <1>10
<1> QED
  BY <1>3, <1>11

LEMMA LastSeqBounds ==
  ASSUME NEW log \in Logs
  PROVE  LastSeq(log) \in Nat /\ UpTo(log.lines, {}, LastSeq(log))
<1> DEFINE s    == log.lines
           seqs == {0} \cup {s[i].seq : i \in DOMAIN s}
           Caps == {k \in Nat : \A y \in seqs : y <= k}
<1>1. s \in Seq(Lines) /\ DOMAIN s = 1..Len(s) /\ Len(s) \in Nat
  BY DEF Logs
<1>2. \A i \in DOMAIN s : s[i].seq \in Nat
  <2>1. \A i \in DOMAIN s : s[i] \in Lines
    BY <1>1
  <2> QED
    BY <2>1 DEF Lines
<1>3. seqs \subseteq Nat /\ 0 \in seqs
  BY <1>2
<1>4. Caps # {}
  <2>1. PICK k \in Nat : \A i \in DOMAIN s : s[i].seq <= k
    BY <1>1, NumbersBounded
  <2>2. k \in Caps
    BY <2>1
  <2> QED
    BY <2>2
<1>5. PICK k \in Caps : \A m \in Caps : k <= m
  <2>1. Caps \in SUBSET Nat
    OBVIOUS
  <2> HIDE DEF Caps
  <2> QED
    BY <1>4, <2>1, Least
<1>6. \A i \in DOMAIN s : s[i].seq \in seqs
  OBVIOUS
<1>7. LastSeq(log) = Max(seqs)
  BY DEF LastSeq
<1>8. k \in Nat /\ \A y \in seqs : y <= k
  BY <1>5
<1> HIDE DEF seqs
<1>9. k \in seqs
  <2> SUFFICES ASSUME k \notin seqs PROVE FALSE
    OBVIOUS
  <2>1. k # 0
    BY <1>3
  <2>2. \A y \in seqs : y \in Nat /\ y <= k /\ y # k
    BY <1>3, <1>8
  <2>3. k - 1 \in Nat /\ \A y \in seqs : y <= k - 1
    BY <1>8, <2>1, <2>2
  <2>4. k <= k - 1
    BY <1>5, <2>3
  <2> QED
    BY <1>8, <2>4
<1>10. \E x \in seqs : \A y \in seqs : x >= y
  BY <1>3, <1>8, <1>9
<1>11. Max(seqs) \in seqs /\ \A y \in seqs : Max(seqs) >= y
  BY <1>10 DEF Max
<1>12. Max(seqs) \in Nat
  BY <1>3, <1>11
<1> HIDE DEF s
<1>13. \A i \in DOMAIN s : s[i].seq <= Max(seqs)
  BY <1>2, <1>6, <1>11, <1>12
<1> QED
  BY <1>7, <1>12, <1>13 DEF UpTo, s

Base == TypeInv /\ Phases /\ OneAtATime /\ Numbering

LEMMA OneKeeper ==
  ASSUME OneAtATime
  PROVE  /\ \A i, j \in RunKeepers : i = j
         /\ \A i, j \in ItemKeepers : i = j
         /\ RunKeepers \subseteq Journals /\ ItemKeepers \subseteq Journals
<1>1. RunKeepers \subseteq Journals /\ ItemKeepers \subseteq Journals
  BY DEF RunKeepers, ItemKeepers
<1>2. runner.pc # "dead" => \A v \in Recoverers : crew[v].pc \in Over
  BY DEF OneAtATime, Over
<1>3. "dead" \notin Keeping /\ "proposing" \notin Keeping /\ "entering" \notin Keeping
      /\ "running" \notin Keeping
  BY DEF Keeping, Early, Inside, Ending
<1>4. \A i, j \in RunKeepers : i = j
  BY <1>2, TheJournals DEF RunKeepers, OneAtATime
<1>5. \A i, j \in ItemKeepers : i = j
  BY <1>2, <1>3, TheJournals DEF ItemKeepers, OneAtATime
<1> QED
  BY <1>1, <1>4, <1>5

NoneWakes == RunKeepers' \subseteq RunKeepers /\ ItemKeepers' \subseteq ItemKeepers

LEMMA NumberTypes ==
  ASSUME TypeInv
  PROVE  /\ runLog.lines \in Seq(Lines) /\ itemLog.lines \in Seq(Lines)
         /\ \A j \in Journals : j \in DOMAIN journal /\ journal[j].run \in Nat /\ journal[j].item \in Nat
  BY DEF TypeInv, Logs, Numbers

(* The journal that counts for the run's log writes a line to it.            *)
LEMMA NumberedRun ==
  ASSUME Base, NEW j \in RunKeepers, WroteRun(j), NoneWakes
  PROVE  Numbering'
<1>1. PICK line \in Lines : RunLine(j, line)
  BY DEF WroteRun, Wrote
<1>2. /\ runLog.lines \in Seq(Lines)
      /\ \A i \in Journals : i \in DOMAIN journal /\ journal[i].run \in Nat
  BY NumberTypes DEF Base
<1>3. /\ \A i \in RunKeepers : i = j
      /\ RunKeepers \subseteq Journals /\ ItemKeepers \subseteq Journals
  BY OneKeeper DEF Base
<1>4. /\ runLog'.lines = Append(runLog.lines, line) /\ itemLog' = itemLog
      /\ line.seq = journal[j].run + 1
      /\ journal'[j].run = journal[j].run + 1
      /\ \A i \in Journals : journal'[i].item = journal[i].item
  BY <1>1, <1>2, <1>3 DEF RunLine
<1>5. InOrder(runLog.lines, {}) /\ UpTo(runLog.lines, {}, journal[j].run)
  BY DEF Base, Numbering
<1>6. InOrder(runLog'.lines, {}) /\ UpTo(runLog'.lines, {}, journal'[j].run)
  BY <1>2, <1>3, <1>4, <1>5, InOrderAppend
<1>7. InOrder(itemLog.lines, Aside)
      /\ \A i \in ItemKeepers : UpTo(itemLog.lines, Aside, journal[i].item)
  BY DEF Base, Numbering
<1>8. \A i \in RunKeepers' : i = j
  BY <1>3 DEF NoneWakes
<1>9. \A i \in ItemKeepers' : i \in ItemKeepers /\ journal'[i].item = journal[i].item
  BY <1>3, <1>4 DEF NoneWakes
<1> QED
  BY <1>4, <1>6, <1>7, <1>8, <1>9 DEF Numbering

(* A line is written to the work item's log, or beside its numbers.          *)
LEMMA NumberedItem ==
  ASSUME Base, NEW j \in Journals, WroteAbout(j), NoneWakes
  PROVE  Numbering'
<1>1. PICK line \in Lines : ItemLine(j, line) /\ (line.kind \in Aside \/ j \in ItemKeepers)
  BY DEF WroteAbout, WroteItem
<1>2. /\ itemLog.lines \in Seq(Lines)
      /\ \A i \in Journals : i \in DOMAIN journal /\ journal[i].item \in Nat
  BY NumberTypes DEF Base
<1>3. /\ \A i, k \in ItemKeepers : i = k
      /\ RunKeepers \subseteq Journals /\ ItemKeepers \subseteq Journals
  BY OneKeeper DEF Base
<1>4. /\ itemLog'.lines = Append(itemLog.lines, line) /\ runLog' = runLog
      /\ line.seq = journal[j].item + 1
      /\ journal'[j].item = journal[j].item + 1
      /\ \A i \in Journals : i # j => journal'[i].item = journal[i].item
      /\ \A i \in Journals : journal'[i].run = journal[i].run
  BY <1>1, <1>2 DEF ItemLine
<1>5. /\ InOrder(itemLog.lines, Aside)
      /\ \A i \in ItemKeepers : UpTo(itemLog.lines, Aside, journal[i].item)
      /\ InOrder(runLog.lines, {}) /\ \A i \in RunKeepers : UpTo(runLog.lines, {}, journal[i].run)
  BY DEF Base, Numbering
<1>6. /\ InOrder(itemLog'.lines, Aside)
      /\ \A i \in ItemKeepers : UpTo(itemLog'.lines, Aside, journal'[i].item)
  <2>1. CASE j \in ItemKeepers
    <3>1. InOrder(itemLog'.lines, Aside) /\ UpTo(itemLog'.lines, Aside, journal'[j].item)
      BY <1>2, <1>4, <1>5, <2>1, InOrderAppend
    <3> QED
      BY <1>3, <2>1, <3>1
  <2>2. CASE line.kind \in Aside
    <3>1. InOrder(itemLog'.lines, Aside)
      BY <1>2, <1>4, <1>5, <2>2, AsideAppend
    <3>2. ASSUME NEW i \in ItemKeepers
          PROVE  UpTo(itemLog'.lines, Aside, journal'[i].item)
      <4>1. /\ journal[i].item \in Nat /\ journal'[i].item \in Nat
            /\ journal[i].item <= journal'[i].item
        BY <1>2, <1>3, <1>4
      <4> QED
        BY <1>2, <1>4, <1>5, <2>2, <4>1, AsideAppend
    <3> QED
      BY <3>1, <3>2
  <2> QED
    BY <1>1, <2>1, <2>2
<1>7. \A i \in RunKeepers' : i \in RunKeepers /\ journal'[i].run = journal[i].run
  BY <1>3, <1>4 DEF NoneWakes
<1>8. \A i \in ItemKeepers' : i \in ItemKeepers
  BY DEF NoneWakes
<1> QED
  BY <1>4, <1>5, <1>6, <1>7, <1>8 DEF Numbering

LEMMA NumberedQuiet ==
  ASSUME Base, SameLines, journal' = journal, NoneWakes
  PROVE  Numbering'
  BY DEF Base, Numbering, SameLines, NoneWakes

(* The numbers a journal that is opened goes on from.                        *)
LEMMA NumberedOpen ==
  ASSUME Base, NEW j \in Journals, Open(j), SameLines,
         RunKeepers' \subseteq RunKeepers \cup {j}, ItemKeepers' \subseteq ItemKeepers \cup {j}
  PROVE  Numbering' /\ journal' \in [Journals -> Numbers]
<1>1. /\ LastSeq(runLog) \in Nat /\ UpTo(runLog.lines, {}, LastSeq(runLog))
      /\ LastSeq(itemLog) \in Nat /\ UpTo(itemLog.lines, {}, LastSeq(itemLog))
  BY LastSeqBounds DEF Base, TypeInv
<1>2. /\ journal' = [journal EXCEPT ![j] = [run |-> LastSeq(runLog), item |-> LastSeq(itemLog)]]
      /\ journal \in [Journals -> Numbers]
  BY DEF Open, Base, TypeInv
<1>3. [run |-> LastSeq(runLog), item |-> LastSeq(itemLog)] \in Numbers
  BY <1>1 DEF Numbers
<1>4. journal' \in [Journals -> Numbers]
  BY <1>2, <1>3
<1>5. /\ journal'[j].run = LastSeq(runLog) /\ journal'[j].item = LastSeq(itemLog)
      /\ \A i \in Journals : i # j => journal'[i] = journal[i]
  BY <1>2
<1>6. runLog'.lines = runLog.lines /\ itemLog'.lines = itemLog.lines
  BY DEF SameLines
<1>7. UpTo(itemLog.lines, Aside, LastSeq(itemLog))
  BY <1>1 DEF UpTo
<1>8. /\ RunKeepers \subseteq Journals /\ ItemKeepers \subseteq Journals
  BY OneKeeper DEF Base
<1>9. /\ InOrder(runLog.lines, {}) /\ InOrder(itemLog.lines, Aside)
      /\ \A i \in RunKeepers : UpTo(runLog.lines, {}, journal[i].run)
      /\ \A i \in ItemKeepers : UpTo(itemLog.lines, Aside, journal[i].item)
  BY DEF Base, Numbering
<1>10. \A i \in RunKeepers' : UpTo(runLog.lines, {}, journal'[i].run)
  BY <1>1, <1>5, <1>8, <1>9
<1>11. \A i \in ItemKeepers' : UpTo(itemLog.lines, Aside, journal'[i].item)
  BY <1>5, <1>7, <1>8, <1>9
<1> QED
  BY <1>4, <1>6, <1>9, <1>10, <1>11 DEF Numbering

LEMMA BaseInit == Init => Base
<1> SUFFICES ASSUME Init PROVE Base
  OBVIOUS
<1>1. <<>> \in Seq(Lines) /\ <<>> \in Seq(Calls) /\ Len(<<>>) = 0
  OBVIOUS
<1>2. EmptyLog \in Logs /\ EmptyLog.lines = <<>>
  BY <1>1 DEF EmptyLog, Logs
<1>3. PICK setting \in Settings :
        runner = [pc |-> "new", setting |-> setting, stage |-> Selected, prior |-> 0,
                  iteration |-> 0, d |-> 0, charged |-> 0, results |-> 0, loops |-> 0,
                  routedBack |-> {}, refused |-> NoStage, again |-> FALSE]
  BY DEF Init
<1>4. setting \in Bounds
  BY RecoveryAssumption
<1>5. /\ runner.pc = "new" /\ runner.stage = Selected /\ runner.refused = NoStage
      /\ runner.d = 0 /\ runner.loops = 0 /\ runner.results = 0 /\ runner.charged = 0
      /\ runner.iteration = 0 /\ runner.setting = setting
  BY <1>3
<1>6. runner \in Holdings
  <2>1. 0 \in 0..(Len(Stages) - 1)
    BY NamesOfStages
  <2> DEFINE no == FALSE
  <2>2. no \in BOOLEAN
    OBVIOUS
  <2>3. runner = [pc |-> "new", setting |-> setting, stage |-> Selected, prior |-> 0,
                  iteration |-> 0, d |-> 0, charged |-> 0, results |-> 0, loops |-> 0,
                  routedBack |-> {}, refused |-> NoStage, again |-> no]
    BY <1>3
  <2> HIDE DEF no
  <2> QED
    BY <1>4, <2>1, <2>2, <2>3 DEF Holdings, RunnerPlaces, Early
<1>7. TypeInv
  <2>1. crew \in [Recoverers -> [pc : CrewPlaces, saw : Projections]]
    BY BlankType DEF Init, CrewPlaces
  <2>2. journal \in [Journals -> Numbers]
    BY DEF Init, Numbers
  <2> QED
    BY <1>1, <1>2, <1>6, <2>1, <2>2 DEF Init, TypeInv
<1>8. Phases
  <2>1. Placed(runner)
    BY <1>5, NamesOfStages DEF Placed, Early, Inside
  <2>2. Within(runner, 0)
    BY <1>4, <1>5 DEF Within, Bounds
  <2> QED
    BY <1>1, <2>1, <2>2 DEF Init, Phases
<1>9. OneAtATime
  BY DEF Init, OneAtATime, Over
<1>10. RunKeepers = {} /\ ItemKeepers = {}
  BY <1>5 DEF Init, RunKeepers, ItemKeepers, Over, Keeping, Early, Inside, Ending
<1>11. Numbering
  BY <1>1, <1>2, <1>10 DEF Init, Numbering, InOrder
<1> QED
  BY <1>7, <1>8, <1>9, <1>11 DEF Base

LEMMA BaseRunner ==
  ASSUME Base, Runs
  PROVE  Base'
<1>1. crew' = crew /\ RunnerOK
  BY RunnerWrites, RunnerPhases DEF Base
<1>2. Phases'
  BY <1>1 DEF RunnerOK, Phases, Base
<1>3. ASSUME Onwards
      PROVE  NoneWakes /\ OneAtATime'
  <2>1. NoneWakes
    BY <1>1, <1>3 DEF NoneWakes, RunKeepers, ItemKeepers, Onwards
  <2> QED
    BY <1>1, <1>3, <2>1 DEF OneAtATime, Onwards, Base
<1>4. CASE Onwards /\ WroteRun("runner")
  <2>1. "runner" \in RunKeepers
    BY <1>4, TheJournals DEF RunKeepers, Onwards
  <2>2. Numbering'
    BY <1>3, <1>4, <2>1, NumberedRun
  <2>3. TypeInv'
    BY <1>1, <1>4 DEF WroteRun, Wrote, RunLine, RunnerOK, TypeInv, Base
  <2> QED
    BY <1>2, <1>3, <1>4, <2>2, <2>3 DEF Base
<1>5. ASSUME Onwards, NEW j \in {"runner", "outer", "next"}, WroteAbout(j)
      PROVE  Base'
  <2>1. Numbering'
    BY <1>3, <1>5, TheJournals, NumberedItem
  <2>2. TypeInv'
    BY <1>1, <1>5 DEF WroteAbout, WroteItem, ItemLine, RunnerOK, TypeInv, Base
  <2> QED
    BY <1>2, <1>3, <1>5, <2>1, <2>2 DEF Base
<1>6. CASE Onwards /\ SameLines /\ journal' = journal
  <2>1. Numbering'
    BY <1>3, <1>6, NumberedQuiet
  <2>2. TypeInv'
    BY <1>1, <1>6 DEF SameLines, RunnerOK, TypeInv, Base
  <2> QED
    BY <1>2, <1>3, <1>6, <2>1, <2>2 DEF Base
<1>7. ASSUME SameLines, NEW j \in {"runner", "outer", "next"}, Open(j), Opens(j)
      PROVE  Base'
  <2>1. runner.pc # "dead" /\ runner'.pc # "dead"
    BY <1>7 DEF Opens
  <2>2. /\ RunKeepers' \subseteq RunKeepers \cup {j}
        /\ ItemKeepers' \subseteq ItemKeepers \cup {j}
    BY <1>1, <1>7 DEF Opens, RunKeepers, ItemKeepers, Keeping, Early, Inside, Ending
  <2>3. OneAtATime'
    BY <1>1, <2>1 DEF OneAtATime, Base
  <2>4. Numbering' /\ journal' \in [Journals -> Numbers]
    BY <1>7, <2>2, TheJournals, NumberedOpen
  <2>5. TypeInv'
    BY <1>1, <1>7, <2>4 DEF SameLines, RunnerOK, TypeInv, Base
  <2> QED
    BY <1>2, <2>3, <2>4, <2>5 DEF Base
<1> QED
  BY <1>4, <1>5, <1>6, <1>7, RunnerWrites DEF Base

LEMMA BaseRecoverer ==
  ASSUME Base, NEW v \in Recoverers, Recoverer(v)
  PROVE  Base'
<1>1. runner' = runner /\ calls' = calls
  BY RecovererWrites DEF Base
<1>2. PICK c \in [pc : CrewPlaces, saw : Projections] :
        crew' = [crew EXCEPT ![v] = c] /\ (c.pc = "finding" => Interrupted(c.saw) # {})
  BY RecovererWrites DEF Base
<1>3. crew' \in [Recoverers -> [pc : CrewPlaces, saw : Projections]]
  BY <1>2 DEF Base, TypeInv
<1>4. Phases'
  <2>1. \A w \in Recoverers : crew'[w].pc = "finding" => Interrupted(crew'[w].saw) # {}
    BY <1>2 DEF Base, TypeInv, Phases
  <2> QED
    BY <1>1, <2>1 DEF Base, Phases
<1>5. v \in Journals
  BY TheJournals
<1>6. \A w \in Recoverers : w # v => crew'[w] = crew[w]
  BY <1>2 DEF Base, TypeInv
<1>7. CASE crew[v].pc \notin Over
           /\ (WroteRun(v) \/ WroteAbout(v) \/ (SameLines /\ journal' = journal))
  <2>1. NoneWakes
    BY <1>1, <1>5, <1>6, <1>7 DEF NoneWakes, RunKeepers, ItemKeepers
  <2>2. Numbering'
    <3>1. v \in RunKeepers
      BY <1>5, <1>7 DEF RunKeepers
    <3> QED
      BY <1>5, <1>7, <2>1, <3>1, NumberedRun, NumberedItem, NumberedQuiet
  <2>3. TypeInv'
    <3>1. CASE WroteRun(v)
      BY <1>1, <1>3, <3>1 DEF WroteRun, Wrote, RunLine, TypeInv, Base
    <3>2. CASE WroteAbout(v)
      BY <1>1, <1>3, <3>2 DEF WroteAbout, WroteItem, ItemLine, TypeInv, Base
    <3>3. CASE SameLines /\ journal' = journal
      BY <1>1, <1>3, <3>3 DEF SameLines, TypeInv, Base
    <3> QED
      BY <1>7, <3>1, <3>2, <3>3
  <2>4. runner.pc = "dead"
    BY <1>7 DEF OneAtATime, Base, Over
  <2>5. OneAtATime'
    BY <1>1, <1>6, <1>7, <2>4 DEF OneAtATime, Base
  <2> QED
    BY <1>4, <2>2, <2>3, <2>5 DEF Base
<1>8. CASE /\ \A w \in Recoverers : crew[w].pc \in Over
           /\ runner.pc = "dead" /\ SameLines /\ Open(v)
  <2>1. /\ RunKeepers' \subseteq RunKeepers \cup {v}
        /\ ItemKeepers' \subseteq ItemKeepers \cup {v}
    BY <1>1, <1>6 DEF RunKeepers, ItemKeepers
  <2>2. Numbering' /\ journal' \in [Journals -> Numbers]
    BY <1>5, <1>8, <2>1, NumberedOpen
  <2>3. TypeInv'
    BY <1>1, <1>3, <1>8, <2>2 DEF SameLines, TypeInv, Base
  <2>4. OneAtATime'
    BY <1>1, <1>6, <1>8 DEF OneAtATime
  <2> QED
    BY <1>4, <2>2, <2>3, <2>4 DEF Base
<1> QED
  BY <1>7, <1>8, RecovererWrites DEF Base

(* A line about the lease is numbered beside the journals that are open.     *)
LEMMA BaseRefused ==
  ASSUME Base, RefuseAnother
  PROVE  Base'
<1> DEFINE line == Numbered(Event("lease", 0, NoStage, NoStage, 0), LastSeq(itemLog) + 1)
<1>1. UNCHANGED <<runLog, calls, journal, runner, crew>>
  BY DEF RefuseAnother
<1>2. itemLog \in Logs /\ itemLog.lines \in Seq(Lines)
  BY DEF Base, TypeInv, Logs
<1>3. line \in Lines /\ line.kind \in Aside
  <2>1. LastSeq(itemLog) + 1 \in Nat
    BY <1>2, LastSeqBounds
  <2> QED
    BY <2>1, ItemEvent DEF Kinds, Aside
<1>4. itemLog.torn = FALSE /\ itemLog' = Appended(itemLog, line)
  BY <1>2 DEF RefuseAnother, EndsWithNewline, Logs
<1> HIDE DEF line
<1>5. itemLog' = [lines |-> Append(itemLog.lines, line), torn |-> FALSE]
  BY <1>4 DEF Appended
<1>6. itemLog' \in Logs /\ itemLog'.lines = Append(itemLog.lines, line)
  BY <1>2, <1>3, <1>5, Longer
<1>7. TypeInv' /\ Phases' /\ OneAtATime'
  BY <1>1, <1>6 DEF Base, TypeInv, Phases, OneAtATime
<1>8. RunKeepers' = RunKeepers /\ ItemKeepers' = ItemKeepers
  BY <1>1 DEF RunKeepers, ItemKeepers
<1>9. /\ InOrder(itemLog.lines, Aside)
      /\ \A j \in ItemKeepers : j \in Journals /\ UpTo(itemLog.lines, Aside, journal[j].item)
  BY OneKeeper DEF Base, Numbering
<1>10. InOrder(itemLog'.lines, Aside)
  BY <1>2, <1>3, <1>6, <1>9, AsideAppend
<1>11. ASSUME NEW j \in ItemKeepers
       PROVE  UpTo(itemLog'.lines, Aside, journal[j].item)
  <2>1. journal[j].item \in Nat /\ journal[j].item <= journal[j].item
    BY <1>9, NumberTypes DEF Base
  <2> QED
    BY <1>2, <1>3, <1>6, <1>9, <2>1, AsideAppend
<1>12. Numbering'
  BY <1>1, <1>8, <1>10, <1>11 DEF Base, Numbering
<1> QED
  BY <1>7, <1>12 DEF Base

LEMMA BaseStep == Base /\ [Next]_vars => Base'
<1>1. CASE UNCHANGED vars
  <2>1. RunKeepers' = RunKeepers /\ ItemKeepers' = ItemKeepers
    BY <1>1 DEF vars, RunKeepers, ItemKeepers
  <2> QED
    BY <1>1, <2>1 DEF vars, Base, TypeInv, Phases, OneAtATime, Numbering
<1> QED
  BY <1>1, BaseRunner, BaseRecoverer, BaseRefused DEF Next, Runs

LEMMA BaseAlways == Spec => []Base
<1>1. Base /\ [Next]_vars => Base'
  BY BaseStep
<1> QED
  BY <1>1, BaseInit, PTL DEF Spec

(* Every value of the run, of its recoveries and of the two logs is of its   *)
(* type: no more dispatches are charged to a run than its budget has, and no *)
(* more are made than it has iterations, however many of them fail.          *)
THEOREM RecoveryTyped == Spec => []TypeOK
<1>1. Base => TypeOK
  <2> SUFFICES ASSUME Base PROVE TypeOK
    OBVIOUS
  <2>1. runLog.torn \in BOOLEAN /\ itemLog.torn \in BOOLEAN
    BY DEF Base, TypeInv, Logs
  <2>2. \A j \in Journals : journal[j].run \in Nat /\ journal[j].item \in Nat
    BY NumberTypes DEF Base
  <2>3. runner.pc \in WritesItem \cup WritesRun
          \cup {"new", "resolving", "restarting", "done", "dead"}
    <3>1. runner.pc \in RunnerPlaces
      BY DEF Base, TypeInv, Holdings
    <3> QED
      BY <3>1 DEF RunnerPlaces, Early, Inside, Ending, Beyond, WritesItem, WritesRun
  <2>4. \A v \in Recoverers :
          crew[v].pc \in Over \cup Announcing \cup {"reading", "discarding", "repairing"}
    <3>1. \A v \in Recoverers : crew[v].pc \in CrewPlaces
      BY DEF Base, TypeInv
    <3> QED
      BY <3>1 DEF CrewPlaces, Knowing, Over, Announcing
  <2>5. /\ Len(calls) <= runner.setting.calls
        /\ runner.charged \in 0..runner.setting.dispatches
        /\ runner.charged <= runner.results /\ runner.results <= runner.d
        /\ runner.d <= runner.iteration /\ runner.iteration <= runner.setting.iterations
    <3>1. runner.charged \in Nat /\ runner.setting.dispatches \in Nat
      BY DEF Base, TypeInv, Holdings, Bounds
    <3> QED
      BY <3>1 DEF Base, Phases, Within
  <2> QED
    BY <2>1, <2>2, <2>3, <2>4, <2>5 DEF TypeOK
<1> QED
  BY <1>1, BaseAlways, PTL

(* In the run's log the numbers ascend, whoever wrote it and however often   *)
(* it was torn and repaired.  In the work item's they do so but for the      *)
(* lines that a process appends beside the journal that counts there: those  *)
(* about a lease, and the one performReresolution writes when the next run,  *)
(* which opened the log after it, is over.                                   *)
THEOREM NumbersAscend == Spec => []SeqsAscend
<1>1. Base => SeqsAscend
  BY DEF Base, Numbering, SeqsAscend
<1> QED
  BY <1>1, BaseAlways, PTL

(* No line of either log is one that was glued to a torn one.                *)
THEOREM NeverCorrupt == Spec => []NoCorruptLine
<1>1. Base => NoCorruptLine
  <2> SUFFICES ASSUME Base, NEW log \in {runLog, itemLog}, NEW i \in DOMAIN log.lines
               PROVE  log.lines[i].kind # "corrupt"
    BY DEF NoCorruptLine
  <2>1. log.lines \in Seq(Lines)
    BY DEF Base, TypeInv, Logs
  <2>2. log.lines[i] \in Lines
    BY <2>1
  <2>3. log.lines[i].kind \in Kinds
    BY <2>2 DEF Lines
  <2> QED
    BY <2>3 DEF Kinds
<1> QED
  BY <1>1, BaseAlways, PTL

(* The lines of the run's log only grow, one at a time: what a reader once   *)
(* parsed is what every later reader parses first.                           *)
THEOREM LogIsAppendOnly == Spec => ImplementsAppendOnlyLog
<1>1. Init => RunHistory!Init
  BY DEF Init, EmptyLog, RunHistory!Init
<1>2. Base /\ [Next]_vars => [RunHistory!Next]_(runLog.lines)
  <2> SUFFICES ASSUME Base, [Next]_vars
               PROVE  RunHistory!Next \/ runLog'.lines = runLog.lines
    OBVIOUS
  <2>1. runLog.lines \in Seq(Lines)
    BY DEF Base, TypeInv, Logs
  <2>2. ASSUME NEW j, WroteRun(j)
        PROVE  RunHistory!Next \/ runLog'.lines = runLog.lines
    <3>1. PICK line \in Lines : runLog'.lines = Append(runLog.lines, line)
      BY <2>2 DEF WroteRun, Wrote, RunLine
    <3> QED
      BY <2>1, <3>1 DEF RunHistory!Next
  <2>3. ASSUME NEW j, WroteAbout(j)
        PROVE  runLog'.lines = runLog.lines
    BY <2>3 DEF WroteAbout, WroteItem, ItemLine
  <2>4. CASE Runs
    BY <2>2, <2>3, <2>4, RunnerWrites DEF Base, SameLines
  <2>5. CASE RefuseAnother
    BY <2>5 DEF RefuseAnother
  <2>6. ASSUME NEW v \in Recoverers, Recoverer(v)
        PROVE  RunHistory!Next \/ runLog'.lines = runLog.lines
    BY <2>2, <2>3, <2>6, RecovererWrites DEF Base, SameLines
  <2> QED
    BY <2>4, <2>5, <2>6 DEF Next, Runs, vars
<1> QED
  BY <1>1, <1>2, BaseAlways, PTL DEF Spec, ImplementsAppendOnlyLog, RunHistory!Spec

(* ---- what the log tells of the run ---- *)

Read == Project(runLog.lines)

ActiveOnlyAt(p, stage) == \A s \in Graph : (p.cursor[s] = "ACTIVE") <=> (s = stage)

(* The stage a log is to name: where a run was to be routed back to counts as *)
(* where it is, although it is not.                                           *)
Seen(r) == IF r.refused # NoStage THEN r.refused ELSE r.stage

(* Before the run is in its graph its log has no stage active and nothing     *)
(* counted; from then on it has what the run has.                             *)
Told(p, r) ==
  /\ r.stage = Selected =>
       /\ p.stage # "BLOCKED" /\ p.loops = 0 /\ p.dispatches = 0
       /\ \A s \in Graph : p.cursor[s] # "ACTIVE"
  /\ r.stage # Selected =>
       /\ p.stage = Seen(r) /\ p.loops = r.loops /\ p.dispatches = r.results
       /\ ActiveOnlyAt(p, IF Seen(r) = "BLOCKED" THEN p.preBlock ELSE Seen(r))

(* What the log announces and has no result of is the dispatch under way.    *)
Interruption(p, r) ==
  /\ p.intents \subseteq 1..r.d /\ p.results \subseteq 1..r.d
  /\ r.pc = "working" => Interrupted(p) = {r.d}
  /\ Interrupted(p) # {} => r.pc \in {"working", "dead"} /\ Interrupted(p) = {r.d}

(* The calls of a dispatch that were answered, and the value of the line each *)
(* is told by.                                                                *)
DoneIn(w, d) == {c \in DOMAIN w : w[c].d = d /\ w[c].ok}
ValueOf(w, c) == IF w[c].reversible = 1 THEN c ELSE 0

(* The lines of a dispatch are those of its calls that were answered; each    *)
(* that can be undone has one.                                                *)
Knows(m, w, d) ==
  /\ \A i \in DOMAIN m : \E c \in DoneIn(w, d) : m[i].n = ValueOf(w, c)
  /\ \A c \in DoneIn(w, d) : \E i \in DOMAIN m : m[i].n = ValueOf(w, c)
  /\ \A i, j \in DOMAIN m : i # j /\ m[i].n # 0 => m[i].n # m[j].n

Covering(p, w) == \A d \in Nat : Knows(Of(p.mutations, d), w, d)

(* The mutations of a dispatch are lines of the log, in order.                *)
Ordered(p, lines) ==
  \A d \in Nat :
    /\ Ascends(Of(p.mutations, d))
    /\ \A i \in DOMAIN Of(p.mutations, d) : \E j \in DOMAIN lines :
         lines[j] = Of(p.mutations, d)[i]

(* Every dispatch that made a call is announced, and every one announced is   *)
(* announced by a line.                                                       *)
Announced(p, lines, w) ==
  /\ \A d \in p.intents : \E j \in DOMAIN lines :
       lines[j].kind = "dispatch_intent" /\ lines[j].d = d
  /\ \A i \in DOMAIN w : w[i].d \in p.intents

(* What a recovery read is what the log still says.                          *)
Remembered ==
  \A v \in Recoverers : crew[v].pc \in Knowing => crew[v].saw = Read

SameWork(p, q) ==
  q.intents = p.intents /\ q.results = p.results /\ q.mutations = p.mutations

SamePlace(p, q) ==
  /\ q.stage = p.stage /\ q.preBlock = p.preBlock /\ q.cursor = p.cursor
  /\ q.loops = p.loops /\ q.dispatches = p.dispatches

LEMMA ReplayKeepsWork ==
  ASSUME NEW p \in Projections, NEW e \in Lines,
         e.kind \notin {"dispatch_intent", "dispatch_result", "mutation"}
  PROVE  SameWork(p, Replay(p, e))
<1>1. /\ SameWork(p, [p EXCEPT !.admitted = TRUE])
      /\ SameWork(p, [p EXCEPT !.ended = TRUE])
      /\ SameWork(p, [p EXCEPT !.stage = IF e.to = NoStage THEN @ ELSE e.to])
      /\ SameWork(p, [p EXCEPT !.cursor = UpsertCursor(@, e.from, "COMPLETED_PRIOR")])
      /\ SameWork(p, [p EXCEPT !.loops = e.n])
      /\ SameWork(p, p)
  BY DEF SameWork, Projections
<1>2. SameWork(p, AfterTransition(p, e))
  BY DEF SameWork, Projections, AfterTransition
<1> QED
  BY <1>1, <1>2, ReplayKinds DEF Replayed

LEMMA ReplayKeepsPlace ==
  ASSUME NEW p \in Projections, NEW e \in Lines,
         e.kind \notin {"entry_stage_computed", "stage_marked_completed_prior", "transition",
                       "budget", "dispatch_result"}
  PROVE  SamePlace(p, Replay(p, e))
<1>1. /\ SamePlace(p, [p EXCEPT !.admitted = TRUE])
      /\ SamePlace(p, [p EXCEPT !.ended = TRUE])
      /\ SamePlace(p, [p EXCEPT !.intents = @ \cup {e.d}])
      /\ SamePlace(p, [p EXCEPT !.mutations = Append(@, e)])
      /\ SamePlace(p, p)
  BY DEF SamePlace, Projections
<1> QED
  BY <1>1, ReplayKinds DEF Replayed

(* What a transition makes of where a log says the run is.                   *)
LEMMA TransitionPlace ==
  ASSUME NEW p \in Projections, NEW e \in Lines, e.kind = "transition"
  PROVE  /\ Replay(p, e).stage = e.to
         /\ Replay(p, e).loops = p.loops + e.n
         /\ Replay(p, e).dispatches = p.dispatches
         /\ e.to = "BLOCKED" => Replay(p, e).preBlock = e.from
         /\ \A s \in Graph : Replay(p, e).cursor[s] =
              IF e.to \in StoppedAt
                THEN IF s = e.from THEN "ACTIVE" ELSE p.cursor[s]
              ELSE IF s = e.to THEN "ACTIVE"
              ELSE IF s = e.from THEN "COMPLETED" ELSE p.cursor[s]
<1>1. Replay(p, e) = AfterTransition(p, e)
  BY ReplayKinds
<1>2. /\ AfterTransition(p, e).stage = e.to
      /\ AfterTransition(p, e).loops = p.loops + e.n
      /\ AfterTransition(p, e).dispatches = p.dispatches
      /\ e.to = "BLOCKED" => AfterTransition(p, e).preBlock = e.from
      /\ AfterTransition(p, e).cursor =
           IF e.to \in StoppedAt THEN UpsertCursor(p.cursor, e.from, "ACTIVE")
           ELSE UpsertCursor(UpsertCursor(p.cursor, e.from, "COMPLETED"), e.to, "ACTIVE")
  BY DEF AfterTransition, Projections
<1>3. ASSUME NEW s \in Graph
      PROVE  AfterTransition(p, e).cursor[s] =
              IF e.to \in StoppedAt
                THEN IF s = e.from THEN "ACTIVE" ELSE p.cursor[s]
              ELSE IF s = e.to THEN "ACTIVE"
              ELSE IF s = e.from THEN "COMPLETED" ELSE p.cursor[s]
  BY <1>2 DEF UpsertCursor
<1> QED
  BY <1>1, <1>2, <1>3

(* A step that dispatches nothing leaves what the log knows of dispatches.   *)
LEMMA QuietWork ==
  ASSUME NEW p, NEW q, NEW r, NEW s, NEW w, SameWork(p, q), s.d = r.d,
         r.pc # "dead", r.pc = "working" <=> s.pc = "working",
         Interruption(p, r), Covering(p, w)
  PROVE  Interruption(q, s) /\ Covering(q, w)
<1>1. Interrupted(q) = Interrupted(p)
  BY DEF SameWork, Interrupted
<1>2. Interruption(q, s)
  BY <1>1 DEF Interruption, SameWork
<1>3. Covering(q, w)
  BY DEF Covering, SameWork
<1> QED
  BY <1>2, <1>3

LEMMA OrderedLonger ==
  ASSUME NEW p, NEW q, NEW lines \in Seq(Lines), NEW line \in Lines,
         q.mutations = p.mutations, Ordered(p, lines)
  PROVE  Ordered(q, Append(lines, line))
<1> DEFINE more == Append(lines, line)
<1>1. \A j \in DOMAIN lines : j \in DOMAIN more /\ more[j] = lines[j]
  OBVIOUS
<1> HIDE DEF more
<1>2. Ordered(q, more)
  BY <1>1 DEF Ordered
<1> QED
  BY <1>2 DEF more

LEMMA AnnouncedLonger ==
  ASSUME NEW p, NEW q, NEW lines \in Seq(Lines), NEW line \in Lines, NEW w,
         q.intents = p.intents, Announced(p, lines, w)
  PROVE  Announced(q, Append(lines, line), w)
<1> DEFINE more == Append(lines, line)
<1>1. \A j \in DOMAIN lines : j \in DOMAIN more /\ more[j] = lines[j]
  OBVIOUS
<1> HIDE DEF more
<1>2. Announced(q, more, w)
  BY <1>1 DEF Announced
<1> QED
  BY <1>2 DEF more

LEMMA QuietLines ==
  ASSUME NEW p, NEW q, NEW lines \in Seq(Lines), NEW line \in Lines, NEW w,
         SameWork(p, q), Ordered(p, lines), Announced(p, lines, w)
  PROVE  Ordered(q, Append(lines, line)) /\ Announced(q, Append(lines, line), w)
  BY OrderedLonger, AnnouncedLonger DEF SameWork

LEMMA QuietPlace ==
  ASSUME NEW p, NEW q, NEW r, NEW s, SamePlace(p, q), Told(p, r),
         s.stage = r.stage, s.loops = r.loops, s.results = r.results, s.refused = r.refused
  PROVE  Told(q, s)
<1>1. Seen(s) = Seen(r)
  BY DEF Seen
<1> QED
  BY <1>1 DEF Told, SamePlace, ActiveOnlyAt

Place == Told(Read, runner)

PlaceNext == Told(Project(runLog'.lines), runner')

LEMMA ReadType ==
  ASSUME TypeInv
  PROVE  Read \in Projections
  BY ProjectType DEF Read, TypeInv, Logs

(* Each step of the run moves its log as it moves what it holds.             *)
(* Each step of the run moves its log as it moves what it holds.             *)
LEMMA PlaceStep ==
  ASSUME TypeInv, Phases, Place, Runs
  PROVE  PlaceNext
<1>0. /\ Selected \notin Graph /\ "BLOCKED" \notin Graph /\ Completion \in Graph
      /\ Selected # "BLOCKED" /\ "CANCELLED" \notin Graph
      /\ "BLOCKED" \in StoppedAt
      /\ NoStage \notin Graph
      /\ \A s \in Graph : s \notin StoppedAt /\ s # Selected /\ s # "BLOCKED" /\ s # NoStage
  BY NamesOfStages DEF StoppedAt
<1>1. Read \in Projections /\ runner.loops \in Nat /\ runner.results \in Nat
  BY ReadType DEF TypeInv, Holdings
<1> DEFINE Still == /\ runner'.stage = runner.stage /\ runner'.loops = runner.loops
                    /\ runner'.results = runner.results /\ runner'.refused = runner.refused
<1>2. ASSUME NEW kind, NEW d, NEW from, NEW to, NEW n, Wrote("runner", kind, d, from, to, n),
             kind \notin {"entry_stage_computed", "stage_marked_completed_prior", "transition",
                         "budget", "dispatch_result"},
             Still
      PROVE  PlaceNext
  <2>1. PICK line \in Lines : line.kind = kind /\ Project(runLog'.lines) = Replay(Read, line)
    BY <1>2 DEF Wrote, Read
  <2>2. SamePlace(Read, Project(runLog'.lines))
    BY <1>1, <1>2, <2>1, ReplayKeepsPlace
  <2> QED
    BY <1>2, <2>2, QuietPlace DEF Place, PlaceNext
<1>3. ASSUME runLog'.lines = runLog.lines, Still
      PROVE  PlaceNext
  BY <1>3 DEF Place, PlaceNext, Read, Told, Seen
<1>4. ASSUME NEW from, NEW to, NEW n, Wrote("runner", "transition", 0, from, to, n)
      PROVE  /\ Project(runLog'.lines).stage = to
             /\ Project(runLog'.lines).loops = Read.loops + n
             /\ Project(runLog'.lines).dispatches = Read.dispatches
             /\ to = "BLOCKED" => Project(runLog'.lines).preBlock = from
             /\ \A s \in Graph : Project(runLog'.lines).cursor[s] =
                  IF to \in StoppedAt
                    THEN IF s = from THEN "ACTIVE" ELSE Read.cursor[s]
                  ELSE IF s = to THEN "ACTIVE"
                  ELSE IF s = from THEN "COMPLETED" ELSE Read.cursor[s]
  <2>1. PICK line \in Lines : /\ line.kind = "transition" /\ line.from = from /\ line.to = to
                              /\ line.n = n /\ Project(runLog'.lines) = Replay(Read, line)
    BY <1>4 DEF Wrote, Read
  <2> QED
    BY <1>1, <2>1, TransitionPlace
<1>5. CASE StartedRun \/ Admit \/ BudgetExceeded \/ Redispatch \/ Complete \/ EndedRun
  <2>1. Still
    BY <1>5 DEF StartedRun, Admit, BudgetExceeded, Redispatch, Complete, EndedRun, Goto,
                TypeInv, Holdings
  <2> HIDE DEF Still
  <2> QED
    BY <1>2, <1>5, <2>1, RunnerLines
<1>6. CASE Intent \/ ReresolvedRun
  <2>1. Still
    BY <1>6 DEF Intent, ReresolvedRun, TypeInv, Holdings
  <2> HIDE DEF Still
  <2> QED
    BY <1>2, <1>6, <2>1, RunnerLines
<1>18. ASSUME NEW c \in DOMAIN calls, Answer(c)
       PROVE  PlaceNext
  <2>1. Still
    BY <1>18 DEF Answer
  <2> HIDE DEF Still
  <2> QED
    BY <1>2, <1>18, <2>1, RunnerLines
<1>7. CASE Begin \/ StartedItem \/ EndedItem \/ Released \/ ReresolvedItem \/ RunnerCrashes
  <2>1. Still
    BY <1>7 DEF Begin, StartedItem, EndedItem, Released, ReresolvedItem, RunnerCrashes, Goto,
                TypeInv, Holdings
  <2>2. runLog'.lines = runLog.lines
    BY <1>7 DEF Begin, StartedItem, EndedItem, Released, ReresolvedItem, RunnerCrashes,
                JournalItem, Tear, TypeInv, Logs
  <2> QED
    BY <1>3, <2>1, <2>2
<1>19. CASE OpenOuter \/ OpenNext \/ NextStarted \/ NextEnded \/ LinkNext
            \/ \E admitted \in BOOLEAN : Propose(admitted)
  <2>1. Still
    BY <1>19 DEF OpenOuter, OpenNext, NextStarted, NextEnded, LinkNext, Propose, Goto,
                 TypeInv, Holdings
  <2>2. runLog'.lines = runLog.lines
    BY <1>19 DEF OpenOuter, OpenNext, NextStarted, NextEnded, LinkNext, Propose, JournalItem
  <2> QED
    BY <1>3, <2>1, <2>2
<1>20. CASE OutOfIterations \/ GiveUp \/ \E reversible \in {0, 1} : Ask(reversible)
  <2>1. Still /\ runLog' = runLog
    BY <1>20 DEF OutOfIterations, GiveUp, Ask, Goto, TypeInv, Holdings
  <2> QED
    BY <1>3, <2>1
<1>8. CASE EntryAmbiguous \/ \E prior \in 0..(Len(Stages) - 1) : ComputeEntry(prior)
  <2>1. runner.stage = Selected /\ runner'.stage = Selected
    BY <1>8 DEF EntryAmbiguous, ComputeEntry, At, Goto, TypeInv, Holdings, Phases, Placed, Early
  <2>2. PICK to \in Graph \cup {NoStage} :
          Wrote("runner", "entry_stage_computed", 0, NoStage, to, 0)
    BY <1>8, RunnerLines, NamesOfStages
  <2>3. PICK line \in Lines : /\ line.kind = "entry_stage_computed" /\ line.to = to
                              /\ Project(runLog'.lines) = Replay(Read, line)
    BY <2>2 DEF Wrote, Read
  <2>4. Project(runLog'.lines) = [Read EXCEPT !.stage = IF to = NoStage THEN @ ELSE to]
    BY <2>3, ReplayKinds
  <2>5. to # "BLOCKED"
    BY <1>0, <2>2 DEF NoStage
  <2> QED
    BY <1>0, <1>1, <2>1, <2>4, <2>5 DEF PlaceNext, Place, Told, Projections
<1>9. CASE MarkPrior
  <2>1. runner.stage = Selected /\ runner'.stage = Selected
    BY <1>9 DEF MarkPrior, At, Phases, Placed, Early
  <2>2. PICK s \in Graph : Wrote("runner", "stage_marked_completed_prior", 0, s, NoStage, 0)
    BY <1>9, RunnerLines
  <2>3. PICK line \in Lines : /\ line.kind = "stage_marked_completed_prior" /\ line.from = s
                              /\ Project(runLog'.lines) = Replay(Read, line)
    BY <2>2 DEF Wrote, Read
  <2>4. Project(runLog'.lines) =
          [Read EXCEPT !.cursor = UpsertCursor(@, s, "COMPLETED_PRIOR")]
    BY <2>3, ReplayKinds
  <2> QED
    BY <1>0, <1>1, <2>1, <2>4 DEF PlaceNext, Place, Told, Projections, UpsertCursor
<1>10. CASE BlockAtEntry \/ Enter
  <2>1. /\ runner.stage = Selected /\ runner.loops = 0 /\ runner.results = 0
        /\ runner'.loops = 0 /\ runner'.results = 0 /\ runner'.refused = NoStage
    BY <1>10 DEF BlockAtEntry, Enter, At, TypeInv, Holdings, Phases, Placed, Early
  <2>2. PICK to \in Graph \cup {"BLOCKED"} :
          runner'.stage = to /\ Wrote("runner", "transition", 0, Selected, to, 0)
    <3>1. CASE BlockAtEntry
      BY <3>1, RunnerLines DEF BlockAtEntry, TypeInv, Holdings
    <3>2. CASE Enter
      <4>1. Stages[runner.prior + 1] \in Graph
        BY NamesOfStages DEF TypeInv, Holdings
      <4> QED
        BY <3>2, <4>1, RunnerLines DEF Enter, TypeInv, Holdings
    <3> QED
      BY <1>10, <3>1, <3>2
  <2>3. /\ Read.loops = 0 /\ Read.dispatches = 0
        /\ \A s \in Graph : Read.cursor[s] # "ACTIVE"
    BY <2>1 DEF Place, Told
  <2> QED
    BY <1>0, <1>4, <2>1, <2>2, <2>3 DEF PlaceNext, Told, ActiveOnlyAt, Seen
<1>11. ASSUME NEW to \in Graph, NEW n \in Nat, runner.pc \in Inside,
              Seen(runner') = to, runner'.stage # Selected, runner'.loops = runner.loops + n,
              runner'.results = runner.results,
              Wrote("runner", "transition", 0, runner.stage, to, n)
       PROVE  PlaceNext
  <2>1. /\ Read.loops = runner.loops /\ Read.dispatches = runner.results
        /\ \A s \in Graph : (Read.cursor[s] = "ACTIVE") <=> (s = runner.stage)
    BY <1>0, <1>11 DEF Place, Told, ActiveOnlyAt, Seen, Phases, Placed
  <2> QED
    BY <1>0, <1>4, <1>11, <2>1 DEF PlaceNext, Told, ActiveOnlyAt
<1>12. CASE Advance \/ LeavePrefix
  <2>1. After(runner.stage) \in Graph /\ runner.pc \in Inside /\ runner.refused = NoStage
    BY <1>12, AfterStage DEF Advance, LeavePrefix, At, Phases, Placed, Inside
  <2>2. /\ runner'.stage = After(runner.stage) /\ runner'.loops = runner.loops
        /\ runner'.results = runner.results /\ runner'.refused = NoStage
    <3>1. ASSUME NEW pc, NEW to, runner' = [runner EXCEPT !.pc = pc, !.stage = to]
          PROVE  /\ runner'.stage = to /\ runner'.loops = runner.loops
                 /\ runner'.results = runner.results /\ runner'.refused = runner.refused
      BY <3>1 DEF TypeInv, Holdings
    <3> QED
      BY <1>12, <2>1, <3>1 DEF Advance, LeavePrefix
  <2>3. runner'.loops = runner.loops + 0
    BY <1>1, <2>2
  <2> QED
    BY <1>0, <1>11, <1>12, <2>1, <2>2, <2>3, RunnerLines DEF Seen
<1>13. ASSUME NEW s \in Graph \ {Completion}, LoopBack(s)
       PROVE  PlaceNext
  <2>1. /\ runner.pc \in Inside /\ runner'.stage = s /\ runner'.refused = NoStage
        /\ runner'.loops = runner.loops + 1 /\ runner'.results = runner.results
    BY <1>13 DEF LoopBack, At, Phases, Placed, Inside, TypeInv, Holdings
  <2> QED
    BY <1>0, <1>11, <1>13, <2>1, RunnerLines DEF Seen
<1>14. ASSUME NEW s \in Graph \ {Completion}, RouteBack(s)
       PROVE  PlaceNext
  <2>1. /\ runner.pc \in Inside /\ runner.stage = Completion /\ runner'.stage = s
        /\ runner'.refused = NoStage
        /\ runner'.loops = runner.loops + 0 /\ runner'.results = runner.results
    BY <1>1, <1>14 DEF RouteBack, Completing, Iterating, At, Phases, Placed, Inside, TypeInv,
                       Holdings
  <2> QED
    BY <1>0, <1>11, <1>14, <2>1, RunnerLines DEF Seen
<1>21. ASSUME NEW s \in Graph \ {Completion}, RouteBackRefused(s)
       PROVE  PlaceNext
  <2>1. /\ runner.pc \in Inside /\ runner.stage = Completion /\ runner'.stage = Completion
        /\ runner'.refused = s
        /\ runner'.loops = runner.loops + 0 /\ runner'.results = runner.results
    BY <1>1, <1>21 DEF RouteBackRefused, Completing, Iterating, At, Inside, TypeInv, Holdings
  <2> QED
    BY <1>0, <1>11, <1>21, <2>1, RunnerLines DEF Seen
<1>15. CASE Block
  <2>1. /\ runner.stage \in Graph /\ runner'.stage = "BLOCKED"
        /\ runner.refused = NoStage /\ runner'.refused = NoStage
        /\ runner'.loops = runner.loops /\ runner'.results = runner.results
    BY <1>15 DEF Block, At, Phases, Placed, Inside, TypeInv, Holdings
  <2>2. /\ Read.loops = runner.loops /\ Read.dispatches = runner.results
        /\ \A s \in Graph : (Read.cursor[s] = "ACTIVE") <=> (s = runner.stage)
    BY <1>0, <2>1 DEF Place, Told, ActiveOnlyAt, Seen
  <2>3. Wrote("runner", "transition", 0, runner.stage, "BLOCKED", 0)
    BY <1>15, RunnerLines
  <2> QED
    BY <1>0, <1>1, <1>4, <2>1, <2>2, <2>3 DEF PlaceNext, Told, ActiveOnlyAt, Seen
<1>16. CASE CountLoop
  <2>1. /\ runner.stage \in Graph /\ runner'.stage = runner.stage
        /\ runner'.loops = runner.loops /\ runner'.results = runner.results
        /\ runner.refused = NoStage /\ runner'.refused = NoStage
    BY <1>16 DEF CountLoop, At, Goto, Phases, Placed, Inside, TypeInv, Holdings
  <2>2. PICK line \in Lines : /\ line.kind = "budget" /\ line.n = runner.loops
                              /\ Project(runLog'.lines) = Replay(Read, line)
    BY <1>16, RunnerLines DEF Wrote, Read
  <2>3. Project(runLog'.lines) = [Read EXCEPT !.loops = line.n]
    BY <2>2, ReplayKinds
  <2> QED
    BY <1>0, <1>1, <2>1, <2>2, <2>3 DEF PlaceNext, Place, Told, ActiveOnlyAt, Projections, Seen
<1>17. CASE NoModel \/ \E accepted \in {0, 1} : LogResult(accepted)
  <2>1. /\ runner.stage \in Graph /\ runner'.stage = runner.stage
        /\ runner'.loops = runner.loops /\ runner'.results = runner.results + 1
        /\ runner.refused = NoStage /\ runner'.refused = NoStage
    BY <1>17 DEF NoModel, LogResult, Dispatching, Iterating, At, Phases, Placed, Inside,
                 TypeInv, Holdings
  <2>2. PICK line \in Lines : /\ line.kind = "dispatch_result"
                              /\ Project(runLog'.lines) = Replay(Read, line)
    BY <1>17, RunnerLines DEF Wrote, Read
  <2>3. Project(runLog'.lines) =
          [Read EXCEPT !.results = @ \cup {line.d}, !.dispatches = @ + 1]
    BY <2>2, ReplayKinds
  <2> QED
    BY <1>0, <1>1, <2>1, <2>3 DEF PlaceNext, Place, Told, ActiveOnlyAt, Projections, Seen
<1> QED
  <2>1. CASE Runner
    BY <1>5, <1>6, <1>7, <1>8, <1>9, <1>10, <1>12, <1>13, <1>14, <1>15, <1>16, <1>17, <1>20,
       <1>21, <2>1 DEF Runner
  <2>2. CASE Reresolution
    BY <1>6, <1>7, <1>12, <1>19, <2>2 DEF Reresolution
  <2>3. CASE Agents
    BY <1>18, <1>20, <2>3 DEF Agents
  <2> QED
    BY <2>1, <2>2, <2>3 DEF Runs

(* ---- what the log tells of the dispatches ---- *)

Work(p, r, w, lines) ==
  Interruption(p, r) /\ Covering(p, w) /\ Ordered(p, lines) /\ Announced(p, lines, w)

WorkNow == Work(Read, runner, calls, runLog.lines)

WorkNext == Work(Project(runLog'.lines), runner', calls', runLog'.lines)

(* A mutation's line is after every line there is.                           *)
LEMMA OrderedAppend ==
  ASSUME NEW p \in Projections, NEW q, NEW lines \in Seq(Lines), NEW line \in Lines,
         NEW k \in Nat, UpTo(lines, {}, k), line.seq = k + 1,
         q.mutations = Append(p.mutations, line), Ordered(p, lines)
  PROVE  Ordered(q, Append(lines, line))
<1> DEFINE more == Append(lines, line)
<1>1. /\ \A j \in DOMAIN lines : j \in DOMAIN more /\ more[j] = lines[j]
      /\ Len(lines) + 1 \in DOMAIN more /\ more[Len(lines) + 1] = line
  OBVIOUS
<1> HIDE DEF more
<1>2. ASSUME NEW d \in Nat
      PROVE  /\ Ascends(Of(q.mutations, d))
             /\ \A i \in DOMAIN Of(q.mutations, d) : \E j \in DOMAIN more :
                  more[j] = Of(q.mutations, d)[i]
  <2> DEFINE f == Of(p.mutations, d)
  <2>1. f \in Seq(Lines)
    BY OfType DEF Projections
  <2>2. Of(q.mutations, d) = IF line.d = d THEN Append(f, line) ELSE f
    BY OfAppend DEF Projections
  <2>3. Ascends(f) /\ \A i \in DOMAIN f : \E j \in DOMAIN lines : lines[j] = f[i]
    BY DEF Ordered
  <2> HIDE DEF f
  <2>4. UpTo(f, {}, k)
    BY <2>3 DEF UpTo
  <2>5. Ascends(Append(f, line))
    BY <2>1, <2>3, <2>4, InOrderAppend DEF Ascends
  <2>6. \A i \in DOMAIN f : \E j \in DOMAIN more : more[j] = f[i]
    BY <1>1, <2>3
  <2>7. /\ DOMAIN Append(f, line) = 1..(Len(f) + 1) /\ DOMAIN f = 1..Len(f) /\ Len(f) \in Nat
        /\ Append(f, line)[Len(f) + 1] = line
        /\ \A i \in 1..Len(f) : Append(f, line)[i] = f[i]
    BY <2>1
  <2>8. \A i \in DOMAIN Append(f, line) : \E j \in DOMAIN more : more[j] = Append(f, line)[i]
    <3> SUFFICES ASSUME NEW i \in DOMAIN Append(f, line)
                 PROVE  \E j \in DOMAIN more : more[j] = Append(f, line)[i]
      OBVIOUS
    <3>1. CASE i = Len(f) + 1
      BY <1>1, <2>7, <3>1
    <3>2. CASE i \in DOMAIN f
      BY <2>6, <2>7, <3>2
    <3> QED
      BY <2>7, <3>1, <3>2
  <2> QED
    BY <2>2, <2>3, <2>5, <2>6, <2>8
<1>3. Ordered(q, more)
  BY <1>2 DEF Ordered
<1> QED
  BY <1>3 DEF more

(* A call that is asked for is none that was answered.                       *)
LEMMA AskedCovers ==
  ASSUME NEW p, NEW w \in Seq(Calls), NEW x \in Calls, ~x.ok, Covering(p, w)
  PROVE  Covering(p, Append(w, x))
<1> DEFINE more == Append(w, x)
<1>1. /\ DOMAIN more = 1..(Len(w) + 1) /\ DOMAIN w = 1..Len(w) /\ Len(w) \in Nat
      /\ more[Len(w) + 1] = x /\ \A i \in 1..Len(w) : more[i] = w[i]
  OBVIOUS
<1> HIDE DEF more
<1>2. ASSUME NEW d
      PROVE  DoneIn(more, d) = DoneIn(w, d)
  BY <1>1 DEF DoneIn
<1>3. ASSUME NEW d, NEW c \in DoneIn(w, d)
      PROVE  ValueOf(more, c) = ValueOf(w, c)
  BY <1>1 DEF DoneIn, ValueOf
<1>4. ASSUME NEW d \in Nat
      PROVE  Knows(Of(p.mutations, d), more, d)
  <2> DEFINE f == Of(p.mutations, d)
  <2>1. Knows(f, w, d)
    BY DEF Covering
  <2> HIDE DEF f
  <2>2. Knows(f, more, d)
    BY <1>2, <1>3, <2>1 DEF Knows
  <2> QED
    BY <2>2 DEF f
<1>5. Covering(p, more)
  BY <1>4 DEF Covering
<1> QED
  BY <1>5 DEF more

(* The line of a call tells which it is: no other that can be undone has its  *)
(* value.                                                                     *)
LEMMA ValuesDiffer ==
  ASSUME NEW w \in Seq(Calls), NEW a \in DOMAIN w, NEW b \in DOMAIN w, ValueOf(w, a) # 0,
         ValueOf(w, a) = ValueOf(w, b)
  PROVE  a = b
  BY DEF ValueOf

(* A call that is answered adds its line to those of its dispatch.           *)
LEMMA AnsweredKnows ==
  ASSUME NEW f \in Seq(Lines), NEW w \in Seq(Calls), NEW v \in Seq(Calls), NEW c \in DOMAIN w,
         NEW line \in Lines, NEW d, line.n = ValueOf(w, c),
         DoneIn(v, d) = DoneIn(w, d) \cup {c}, c \notin DoneIn(w, d),
         \A k \in DOMAIN w : ValueOf(v, k) = ValueOf(w, k),
         Knows(f, w, d)
  PROVE  Knows(Append(f, line), v, d)
<1> DEFINE more == Append(f, line)
<1>1. /\ DOMAIN more = 1..(Len(f) + 1) /\ DOMAIN f = 1..Len(f) /\ Len(f) \in Nat
      /\ more[Len(f) + 1] = line /\ \A i \in 1..Len(f) : more[i] = f[i]
  OBVIOUS
<1> HIDE DEF more
<1>2. DoneIn(w, d) \subseteq DOMAIN w
  BY DEF DoneIn
<1>3. \A i \in DOMAIN more : \/ i \in DOMAIN f /\ more[i] = f[i]
                             \/ i = Len(f) + 1 /\ more[i] = line
  BY <1>1
<1>4. \A i \in DOMAIN f : i \in DOMAIN more /\ more[i] = f[i]
  BY <1>1
<1>5. \A i \in DOMAIN more : \E k \in DoneIn(v, d) : more[i].n = ValueOf(v, k)
  <2> SUFFICES ASSUME NEW i \in DOMAIN more
               PROVE  \E k \in DoneIn(v, d) : more[i].n = ValueOf(v, k)
    OBVIOUS
  <2>1. CASE i \in DOMAIN f /\ more[i] = f[i]
    <3>1. PICK k \in DoneIn(w, d) : f[i].n = ValueOf(w, k)
      BY <2>1 DEF Knows
    <3> QED
      BY <1>2, <2>1, <3>1
  <2>2. CASE more[i] = line
    BY <2>2
  <2> QED
    BY <1>3, <2>1, <2>2
<1>6. \A k \in DoneIn(v, d) : \E i \in DOMAIN more : more[i].n = ValueOf(v, k)
  <2> SUFFICES ASSUME NEW k \in DoneIn(v, d)
               PROVE  \E i \in DOMAIN more : more[i].n = ValueOf(v, k)
    OBVIOUS
  <2>1. CASE k = c
    BY <1>1, <2>1
  <2>2. CASE k \in DoneIn(w, d)
    <3>1. PICK i \in DOMAIN f : f[i].n = ValueOf(w, k)
      BY <2>2 DEF Knows
    <3> QED
      BY <1>2, <1>4, <2>2, <3>1
  <2> QED
    BY <2>1, <2>2
<1>7. ASSUME NEW i \in DOMAIN f, line.n # 0
      PROVE  f[i].n # line.n
  <2>1. PICK k \in DoneIn(w, d) : f[i].n = ValueOf(w, k)
    BY DEF Knows
  <2> QED
    BY <1>2, <1>7, <2>1, ValuesDiffer
<1>8. \A i, j \in DOMAIN more : i # j /\ more[i].n # 0 => more[i].n # more[j].n
  BY <1>3, <1>7 DEF Knows
<1>9. Knows(more, v, d)
  BY <1>5, <1>6, <1>8 DEF Knows
<1> QED
  BY <1>9 DEF more

LEMMA AnsweredCovers ==
  ASSUME NEW p \in Projections, NEW q, NEW w \in Seq(Calls), NEW c \in DOMAIN w, ~w[c].ok,
         NEW line \in Lines, line.d = w[c].d, line.n = ValueOf(w, c),
         q.mutations = Append(p.mutations, line), Covering(p, w)
  PROVE  Covering(q, [w EXCEPT ![c].ok = TRUE])
<1> DEFINE v == [w EXCEPT ![c].ok = TRUE]
           x == [w[c] EXCEPT !.ok = TRUE]
<1>1. w[c] \in Calls
  OBVIOUS
<1>2. x \in Calls /\ x.ok /\ x.d = w[c].d /\ x.reversible = w[c].reversible
  BY <1>1 DEF Calls
<1>3. v = [w EXCEPT ![c] = x]
  OBVIOUS
<1> HIDE DEF v, x
<1>4. /\ DOMAIN v = DOMAIN w /\ v[c] = x /\ v \in Seq(Calls)
      /\ \A k \in DOMAIN w : k # c => v[k] = w[k]
  BY <1>2, <1>3
<1>5. \A k \in DOMAIN w : ValueOf(v, k) = ValueOf(w, k)
  BY <1>2, <1>4 DEF ValueOf
<1>6. ASSUME NEW d \in Nat
      PROVE  Knows(Of(q.mutations, d), v, d)
  <2> DEFINE f == Of(p.mutations, d)
  <2>1. f \in Seq(Lines)
    BY OfType DEF Projections
  <2>2. Of(q.mutations, d) = IF line.d = d THEN Append(f, line) ELSE f
    BY OfAppend DEF Projections
  <2>3. Knows(f, w, d)
    BY DEF Covering
  <2> HIDE DEF f
  <2>4. CASE line.d = d
    <3>1. DoneIn(v, d) = DoneIn(w, d) \cup {c} /\ c \notin DoneIn(w, d)
      BY <1>2, <1>4, <2>4 DEF DoneIn
    <3>2. Knows(Append(f, line), v, d)
      BY <1>4, <1>5, <2>1, <2>3, <3>1, AnsweredKnows
    <3> QED
      BY <2>2, <2>4, <3>2
  <2>5. CASE line.d # d
    <3>1. DoneIn(v, d) = DoneIn(w, d) /\ DoneIn(w, d) \subseteq DOMAIN w
      BY <1>2, <1>4, <2>5 DEF DoneIn
    <3>2. /\ \A k \in DoneIn(w, d) : ValueOf(v, k) = ValueOf(w, k)
          /\ \A i \in DOMAIN f : \E k \in DoneIn(w, d) : f[i].n = ValueOf(w, k)
          /\ \A k \in DoneIn(w, d) : \E i \in DOMAIN f : f[i].n = ValueOf(w, k)
          /\ \A i, j \in DOMAIN f : i # j /\ f[i].n # 0 => f[i].n # f[j].n
      BY <1>5, <2>3, <3>1 DEF Knows
    <3>3. Knows(f, v, d)
      BY <3>1, <3>2 DEF Knows
    <3> QED
      BY <2>2, <2>5, <3>3
  <2> QED
    BY <2>4, <2>5
<1>7. Covering(q, v)
  BY <1>6 DEF Covering
<1> QED
  BY <1>7 DEF v

(* Each step of the run leaves its log announcing every dispatch, and knowing *)
(* every call that was answered.                                              *)
LEMMA WorkStep ==
  ASSUME Base, WorkNow, Runs
  PROVE  WorkNext
<1> DEFINE q == Project(runLog'.lines)
           Quiet == /\ calls' = calls /\ runner'.d = runner.d /\ runner.pc # "dead"
                    /\ runner.pc = "working" <=> runner'.pc = "working"
<1>0. /\ TypeInv /\ Phases /\ Read \in Projections /\ runner \in Holdings
      /\ runLog.lines \in Seq(Lines) /\ calls \in Seq(Calls)
      /\ runner.d \in Nat
  BY ReadType DEF Base, TypeInv, Logs, Holdings
<1>1. /\ Interruption(Read, runner) /\ Covering(Read, calls)
      /\ Ordered(Read, runLog.lines) /\ Announced(Read, runLog.lines, calls)
  BY DEF WorkNow, Work
<1>2. ASSUME NEW kind, NEW d, NEW from, NEW to, NEW n, Wrote("runner", kind, d, from, to, n)
      PROVE  \E line \in Lines :
               /\ line.kind = kind /\ line.d = d /\ line.n = n
               /\ line.seq = journal["runner"].run + 1
               /\ runLog'.lines = Append(runLog.lines, line) /\ q = Replay(Read, line)
  BY <1>2 DEF Wrote, RunLine, Read
<1> HIDE DEF q
<1>3. ASSUME NEW kind, NEW d, NEW from, NEW to, NEW n, Wrote("runner", kind, d, from, to, n),
             kind \notin {"dispatch_intent", "dispatch_result", "mutation"},
             Quiet
      PROVE  WorkNext
  <2>1. PICK line \in Lines : /\ line.kind = kind /\ q = Replay(Read, line)
                              /\ runLog'.lines = Append(runLog.lines, line)
    BY <1>2, <1>3
  <2>2. SameWork(Read, q)
    BY <1>0, <1>3, <2>1, ReplayKeepsWork
  <2>3. Interruption(q, runner') /\ Covering(q, calls)
    BY <1>1, <1>3, <2>2, QuietWork
  <2>4. Ordered(q, runLog'.lines) /\ Announced(q, runLog'.lines, calls)
    BY <1>0, <1>1, <2>1, <2>2, QuietLines
  <2> QED
    BY <1>3, <2>3, <2>4 DEF WorkNext, Work, q
<1>4. ASSUME runLog'.lines = runLog.lines, Quiet
      PROVE  WorkNext
  <2>1. SameWork(Read, q) /\ q = Read
    BY <1>4 DEF SameWork, Read, q
  <2>2. Interruption(q, runner') /\ Covering(q, calls)
    BY <1>1, <1>4, <2>1, QuietWork
  <2> QED
    BY <1>1, <1>4, <2>1, <2>2 DEF WorkNext, Work, q
<1>5. CASE StartedRun \/ Admit \/ EntryAmbiguous \/ BlockAtEntry \/ Enter \/ EndedRun
           \/ ReresolvedRun
  <2>1. Quiet
    BY <1>0, <1>5 DEF StartedRun, Admit, EntryAmbiguous, BlockAtEntry, Enter, EndedRun,
                      ReresolvedRun, At, Goto, OnlyRunner, Holdings
  <2> HIDE DEF Quiet
  <2> QED
    BY <1>0, <1>3, <1>5, <2>1, RunnerLines
<1>6. ASSUME NEW prior \in 0..(Len(Stages) - 1), ComputeEntry(prior)
      PROVE  WorkNext
  <2>1. Quiet
    BY <1>0, <1>6 DEF ComputeEntry, At, OnlyRunner, Holdings
  <2> HIDE DEF Quiet
  <2> QED
    BY <1>0, <1>3, <1>6, <2>1, RunnerLines
<1>7. CASE MarkPrior
  <2>1. Quiet
    BY <1>0, <1>7 DEF MarkPrior, At, OnlyRunner
  <2> HIDE DEF Quiet
  <2> QED
    BY <1>0, <1>3, <1>7, <2>1, RunnerLines
<1>8. CASE BudgetExceeded \/ Complete \/ Redispatch
  <2>1. Quiet
    BY <1>0, <1>8 DEF BudgetExceeded, Complete, Completing, Redispatch, Dispatching, Iterating,
                      At, Goto, OnlyRunner, Holdings
  <2> HIDE DEF Quiet
  <2> QED
    BY <1>0, <1>3, <1>8, <2>1, RunnerLines
<1>9. CASE Advance \/ LeavePrefix \/ Block \/ CountLoop
  <2>1. Quiet
    <3>1. ASSUME NEW pc, NEW to, runner' = [runner EXCEPT !.pc = pc, !.stage = to]
          PROVE  runner'.d = runner.d /\ runner'.pc = pc
      BY <1>0, <3>1 DEF Holdings
    <3>2. CASE Advance \/ LeavePrefix \/ Block
      BY <3>1, <3>2 DEF Advance, LeavePrefix, Block, At, OnlyRunner
    <3>3. CASE CountLoop
      BY <1>0, <3>3 DEF CountLoop, At, Goto, OnlyRunner, Holdings
    <3> QED
      BY <1>9, <3>2, <3>3
  <2> HIDE DEF Quiet
  <2> QED
    BY <1>0, <1>3, <1>9, <2>1, RunnerLines
<1>10. ASSUME NEW s \in Graph \ {Completion}, LoopBack(s) \/ RouteBack(s) \/ RouteBackRefused(s)
       PROVE  WorkNext
  <2>1. Quiet
    BY <1>0, <1>10 DEF LoopBack, RouteBack, RouteBackRefused, Completing, Iterating, At,
                       OnlyRunner, Holdings
  <2> HIDE DEF Quiet
  <2> QED
    BY <1>0, <1>3, <1>10, <2>1, RunnerLines
<1>11. CASE \/ Begin \/ StartedItem \/ EndedItem \/ Released \/ ReresolvedItem
            \/ OutOfIterations \/ GiveUp
  <2>1. Quiet
    BY <1>0, <1>11 DEF Begin, StartedItem, EndedItem, Released, ReresolvedItem,
                       OutOfIterations, GiveUp, At, Goto, OnlyRunner, Holdings
  <2>2. runLog' = runLog
    BY <1>11 DEF Begin, StartedItem, EndedItem, Released, ReresolvedItem, OutOfIterations,
                 GiveUp, JournalItem
  <2> QED
    BY <1>4, <2>1, <2>2
<1>18. CASE \/ OpenOuter \/ OpenNext \/ NextStarted \/ NextEnded \/ LinkNext
            \/ \E admitted \in BOOLEAN : Propose(admitted)
  <2>1. Quiet
    BY <1>0, <1>18 DEF OpenOuter, OpenNext, NextStarted, NextEnded, LinkNext, Propose,
                       At, Goto, OnlyRunner, Holdings
  <2>2. runLog' = runLog
    BY <1>18 DEF OpenOuter, OpenNext, NextStarted, NextEnded, LinkNext, Propose, JournalItem
  <2> QED
    BY <1>4, <2>1, <2>2
<1>12. CASE RunnerCrashes
  <2>1. /\ calls' = calls /\ runner'.d = runner.d /\ runner'.pc = "dead"
        /\ runLog'.lines = runLog.lines /\ runner.pc # "dead"
    BY <1>0, <1>12 DEF RunnerCrashes, Goto, Tear, TypeInv, Logs, Holdings
  <2>2. q = Read
    BY <2>1 DEF Read, q
  <2>3. Interruption(q, runner')
    BY <1>1, <2>1, <2>2 DEF Interruption
  <2> QED
    BY <1>1, <2>1, <2>2, <2>3 DEF WorkNext, Work, q
<1>13. CASE NoModel
  <2>1. /\ calls' = calls /\ runner'.d = runner.d + 1 /\ runner.pc = "ready"
        /\ runner'.pc = "decided"
    BY <1>0, <1>13 DEF NoModel, Dispatching, Iterating, At, OnlyRunner, Holdings
  <2>2. PICK line \in Lines :
          /\ line.kind = "dispatch_result" /\ line.d = runner.d + 1
          /\ runLog'.lines = Append(runLog.lines, line) /\ q = Replay(Read, line)
    BY <1>0, <1>2, <1>13, RunnerLines
  <2>3. q = [Read EXCEPT !.results = @ \cup {line.d}, !.dispatches = @ + 1]
    BY <2>2, ReplayKinds
  <2>4. /\ q.intents = Read.intents /\ q.results = Read.results \cup {runner.d + 1}
        /\ q.mutations = Read.mutations
    BY <1>0, <2>2, <2>3 DEF Projections
  <2>5. Interrupted(Read) = {}
    BY <1>1, <2>1 DEF Interruption
  <2>6. Interrupted(q) = {}
    BY <2>4, <2>5 DEF Interrupted
  <2>7. q.intents \subseteq 1..(runner.d + 1) /\ q.results \subseteq 1..(runner.d + 1)
    <3>1. Read.intents \subseteq 1..runner.d /\ Read.results \subseteq 1..runner.d
      BY <1>1 DEF Interruption
    <3> QED
      BY <1>0, <2>4, <3>1
  <2>8. Interruption(q, runner')
    BY <2>1, <2>6, <2>7 DEF Interruption
  <2>9. Covering(q, calls)
    BY <1>1, <2>4 DEF Covering
  <2>10. Ordered(q, runLog'.lines) /\ Announced(q, runLog'.lines, calls)
    BY <1>0, <1>1, <2>2, <2>4, OrderedLonger, AnnouncedLonger
  <2> QED
    BY <2>1, <2>8, <2>9, <2>10 DEF WorkNext, Work, q
<1>14. CASE Intent
  <2>1. /\ calls' = calls /\ runner'.d = runner.d + 1 /\ runner.pc = "ready"
        /\ runner'.pc = "working"
    BY <1>0, <1>14 DEF Intent, Dispatching, Iterating, At, OnlyRunner, Holdings
  <2>2. PICK line \in Lines :
          /\ line.kind = "dispatch_intent" /\ line.d = runner.d + 1
          /\ runLog'.lines = Append(runLog.lines, line) /\ q = Replay(Read, line)
    BY <1>0, <1>2, <1>14, RunnerLines
  <2>3. q = [Read EXCEPT !.intents = @ \cup {line.d}]
    BY <2>2, ReplayKinds
  <2>4. /\ q.intents = Read.intents \cup {runner.d + 1} /\ q.results = Read.results
        /\ q.mutations = Read.mutations
    BY <1>0, <2>2, <2>3 DEF Projections
  <2>5. Interrupted(Read) = {}
    BY <1>1, <2>1 DEF Interruption
  <2>6. Read.intents \subseteq 1..runner.d /\ Read.results \subseteq 1..runner.d
    BY <1>1 DEF Interruption
  <2>7. q.intents \subseteq 1..(runner.d + 1) /\ q.results \subseteq 1..(runner.d + 1)
    BY <1>0, <2>4, <2>6
  <2>8. Interrupted(q) = {runner.d + 1}
    <3>1. runner.d + 1 \notin Read.results
      BY <1>0, <2>6
    <3> QED
      BY <2>4, <2>5, <3>1 DEF Interrupted
  <2>9. Interruption(q, runner')
    BY <2>1, <2>7, <2>8 DEF Interruption
  <2>10. Covering(q, calls)
    BY <1>1, <2>4 DEF Covering
  <2>11. Ordered(q, runLog'.lines)
    BY <1>0, <1>1, <2>2, <2>4, OrderedLonger
  <2>12. Announced(q, runLog'.lines, calls)
    <3> DEFINE more == Append(runLog.lines, line)
    <3>1. /\ \A j \in DOMAIN runLog.lines : j \in DOMAIN more /\ more[j] = runLog.lines[j]
          /\ \E j \in DOMAIN more : more[j] = line
      <4>1. Len(runLog.lines) + 1 \in DOMAIN more /\ more[Len(runLog.lines) + 1] = line
        BY <1>0
      <4>2. \A j \in DOMAIN runLog.lines : j \in DOMAIN more /\ more[j] = runLog.lines[j]
        BY <1>0
      <4> QED
        BY <4>1, <4>2
    <3> HIDE DEF more
    <3>2. Announced(q, more, calls)
      BY <1>1, <2>2, <2>4, <3>1 DEF Announced
    <3> QED
      BY <2>2, <3>2 DEF more
  <2> QED
    BY <2>1, <2>9, <2>10, <2>11, <2>12 DEF WorkNext, Work, q
<1>15. ASSUME NEW reversible \in {0, 1}, Ask(reversible)
       PROVE  WorkNext
  <2> DEFINE x == [d |-> runner.d, reversible |-> reversible, ok |-> FALSE]
  <2>1. /\ calls' = Append(calls, x) /\ runner' = runner /\ runner.pc = "working"
        /\ runLog' = runLog
    BY <1>15 DEF Ask, At
  <2>2. q = Read /\ runLog'.lines = runLog.lines
    BY <2>1 DEF Read, q
  <2>3. x \in Calls /\ x.d = runner.d /\ ~x.ok
    BY <1>0, <1>15 DEF Calls
  <2> HIDE DEF x
  <2>4. Covering(q, calls')
    BY <1>0, <1>1, <2>1, <2>2, <2>3, AskedCovers
  <2>5. Announced(q, runLog'.lines, calls')
    <3>1. runner.d \in Read.intents
      BY <1>1, <2>1 DEF Interruption, Interrupted
    <3>2. \A i \in DOMAIN calls' : calls'[i].d \in Read.intents
      <4>1. /\ DOMAIN calls' = 1..(Len(calls) + 1) /\ DOMAIN calls = 1..Len(calls)
            /\ Len(calls) \in Nat /\ calls'[Len(calls) + 1] = x
            /\ \A i \in 1..Len(calls) : calls'[i] = calls[i]
        BY <1>0, <2>1, <2>3
      <4>2. \A i \in 1..Len(calls) : calls[i].d \in Read.intents
        BY <1>1, <4>1 DEF Announced
      <4> QED
        BY <2>3, <3>1, <4>1, <4>2
    <3> QED
      BY <1>1, <2>2, <3>2 DEF Announced
  <2> QED
    BY <1>1, <2>1, <2>2, <2>4, <2>5 DEF WorkNext, Work, q
<1>16. ASSUME NEW c \in DOMAIN calls, Answer(c)
       PROVE  WorkNext
  <2>1. /\ calls' = [calls EXCEPT ![c].ok = TRUE] /\ runner' = runner /\ ~calls[c].ok
        /\ runner.pc \in Awaiting
    BY <1>16 DEF Answer
  <2>2. Undoes(c) = ValueOf(calls, c)
    BY DEF Undoes, ValueOf
  <2>3. PICK line \in Lines :
          /\ line.kind = "mutation" /\ line.d = calls[c].d /\ line.n = ValueOf(calls, c)
          /\ line.seq = journal["runner"].run + 1
          /\ runLog'.lines = Append(runLog.lines, line) /\ q = Replay(Read, line)
    BY <1>0, <1>2, <1>16, <2>2, RunnerLines
  <2>4. q = [Read EXCEPT !.mutations = Append(@, line)]
    BY <2>3, ReplayKinds
  <2>5. /\ q.intents = Read.intents /\ q.results = Read.results
        /\ q.mutations = Append(Read.mutations, line)
    BY <1>0, <2>4 DEF Projections
  <2>6. Interruption(q, runner')
    BY <1>1, <2>1, <2>5 DEF Interruption, Interrupted
  <2>7. Covering(q, calls')
    BY <1>0, <1>1, <2>1, <2>3, <2>5, AnsweredCovers
  <2>8. Ordered(q, runLog'.lines)
    <3>1. "runner" \in RunKeepers
      BY <2>1, TheJournals DEF RunKeepers, Awaiting
    <3>2. UpTo(runLog.lines, {}, journal["runner"].run) /\ journal["runner"].run \in Nat
      BY <1>0, <3>1, NumberTypes, TheJournals DEF Base, Numbering
    <3> QED
      BY <1>0, <1>1, <2>3, <2>5, <3>2, OrderedAppend
  <2>9. Announced(q, runLog'.lines, calls')
    <3>1. Announced(q, runLog'.lines, calls)
      BY <1>0, <1>1, <2>3, <2>5, AnnouncedLonger
    <3>2. DOMAIN calls' = DOMAIN calls /\ \A i \in DOMAIN calls : calls'[i].d = calls[i].d
      <4>1. \A i \in DOMAIN calls : calls[i] \in Calls
        BY <1>0
      <4> QED
        BY <2>1, <4>1 DEF Calls
    <3> QED
      BY <3>1, <3>2 DEF Announced
  <2> QED
    BY <2>6, <2>7, <2>8, <2>9 DEF WorkNext, Work, q
<1>17. ASSUME NEW accepted \in {0, 1}, LogResult(accepted)
       PROVE  WorkNext
  <2>1. /\ calls' = calls /\ runner'.d = runner.d /\ runner.pc = "working"
        /\ runner'.pc = "decided"
    BY <1>0, <1>17 DEF LogResult, At, OnlyRunner, Holdings
  <2>2. PICK line \in Lines :
          /\ line.kind = "dispatch_result" /\ line.d = runner.d
          /\ runLog'.lines = Append(runLog.lines, line) /\ q = Replay(Read, line)
    BY <1>0, <1>2, <1>17, RunnerLines
  <2>3. q = [Read EXCEPT !.results = @ \cup {line.d}, !.dispatches = @ + 1]
    BY <2>2, ReplayKinds
  <2>4. /\ q.intents = Read.intents /\ q.results = Read.results \cup {runner.d}
        /\ q.mutations = Read.mutations
    BY <1>0, <2>2, <2>3 DEF Projections
  <2>5. Interrupted(Read) = {runner.d}
    BY <1>1, <2>1 DEF Interruption
  <2>6. Interrupted(q) = {}
    BY <2>4, <2>5 DEF Interrupted
  <2>7. q.intents \subseteq 1..runner.d /\ q.results \subseteq 1..runner.d
    <3>1. Read.intents \subseteq 1..runner.d /\ Read.results \subseteq 1..runner.d
      BY <1>1 DEF Interruption
    <3>2. runner.d \in Read.intents
      BY <2>5 DEF Interrupted
    <3> QED
      BY <2>4, <3>1, <3>2
  <2>8. Interruption(q, runner')
    BY <2>1, <2>6, <2>7 DEF Interruption
  <2>9. Covering(q, calls)
    BY <1>1, <2>4 DEF Covering
  <2>10. Ordered(q, runLog'.lines) /\ Announced(q, runLog'.lines, calls)
    BY <1>0, <1>1, <2>2, <2>4, OrderedLonger, AnnouncedLonger
  <2> QED
    BY <2>1, <2>8, <2>9, <2>10 DEF WorkNext, Work, q
<1> QED
  <2>1. CASE Runner
    BY <1>5, <1>6, <1>7, <1>8, <1>9, <1>10, <1>11, <1>12, <1>13, <1>14, <1>17, <2>1 DEF Runner
  <2>2. CASE Reresolution
    BY <1>5, <1>9, <1>11, <1>18, <2>2 DEF Reresolution
  <2>3. CASE Agents
    BY <1>15, <1>16, <2>3 DEF Agents
  <2> QED
    BY <2>1, <2>2, <2>3 DEF Runs

(* ---- what a recovery reads ---- *)

(* What a recovery writes to the run's log changes nothing that is replayed. *)
LEMMA RecovererReads ==
  ASSUME TypeInv, Phases, NEW v \in Recoverers, Recoverer(v)
  PROVE  /\ runner' = runner /\ calls' = calls
         /\ Project(runLog'.lines) = Read
         /\ \/ runLog'.lines = runLog.lines
            \/ \E line \in Lines : runLog'.lines = Append(runLog.lines, line)
         /\ \A w \in Recoverers : w # v => crew'[w] = crew[w]
         /\ crew'[v].pc \in Knowing =>
              \/ crew[v].pc \in Knowing /\ crew'[v].saw = crew[v].saw
              \/ crew'[v].saw = Read
<1> DEFINE Others == \A w \in Recoverers : w # v => crew'[w] = crew[w]
           Mine == crew'[v].pc \in Knowing =>
                     \/ crew[v].pc \in Knowing /\ crew'[v].saw = crew[v].saw
                     \/ crew'[v].saw = Read
           Grown == \/ runLog'.lines = runLog.lines
                    \/ \E line \in Lines : runLog'.lines = Append(runLog.lines, line)
           Same == Project(runLog'.lines) = Read
<1>0. v \in Journals /\ crew[v] \in [pc : CrewPlaces, saw : Projections] /\ Read \in Projections
  BY ReadType DEF Journals, TypeInv
<1>1. runner' = runner /\ calls' = calls
  BY RecovererWrites
<1>2. ASSUME NEW from, NEW to, Step(v, from, to)
      PROVE  Others /\ crew[v].pc = from /\ crew'[v].pc = to /\ crew'[v].saw = crew[v].saw
  BY <1>0, <1>2 DEF Step, TypeInv
<1>3. ASSUME runLog'.lines = runLog.lines
      PROVE  Same /\ Grown
  BY <1>3 DEF Read
<1>4. ASSUME NEW kind, NEW d, Wrote(v, kind, d, NoStage, NoStage, 0), kind \notin Replayed
      PROVE  Same /\ Grown
  <2>1. PICK line \in Lines :
          /\ line.kind = kind /\ runLog'.lines = Append(runLog.lines, line)
          /\ Project(runLog'.lines) = Replay(Read, line)
    BY <1>4 DEF Wrote, RunLine, Read
  <2>2. Replay(Read, line) = Read
    BY <1>4, <2>1, ReplayKinds
  <2> QED
    BY <2>1, <2>2
<1>5. CASE OpenJournal(v)
  <2>1. Others /\ Mine
    BY <1>2, <1>5 DEF OpenJournal, Knowing
  <2> QED
    BY <1>1, <1>3, <1>5, <2>1 DEF OpenJournal
<1>6. CASE ReadLog(v)
  <2>1. Others /\ Mine
    BY <1>6 DEF ReadLog, TypeInv, Read
  <2> QED
    BY <1>1, <1>3, <1>6, <2>1 DEF ReadLog
<1>7. CASE Discard(v)
  <2>1. Others /\ Mine
    BY <1>2, <1>7 DEF Discard, Knowing
  <2> QED
    BY <1>1, <1>3, <1>7, <2>1 DEF Discard, JournalItem
<1>8. CASE Repair(v)
  <2>1. Others /\ Mine
    BY <1>2, <1>8 DEF Repair, Knowing
  <2>2. runLog'.lines = runLog.lines
    BY <1>8 DEF Repair, Truncated, TypeInv, Logs
  <2> QED
    BY <1>1, <1>3, <2>1, <2>2
<1>9. CASE Announce(v)
  <2>1. Others /\ Mine
    BY <1>2, <1>9 DEF Announce, Knowing
  <2>2. Wrote(v, "recovery", 0, NoStage, NoStage, 0)
    BY <1>0, <1>9, LinesOfRecoverer DEF Announce, Kinds
  <2> QED
    BY <1>1, <1>4, <2>1, <2>2 DEF Replayed
<1>10. CASE Found(v)
  <2>1. Others /\ Mine
    BY <1>2, <1>10 DEF Found, Knowing
  <2> DEFINE d == CHOOSE x \in Interrupted(crew[v].saw) : TRUE
  <2>2. d \in Nat
    <3>1. Interrupted(crew[v].saw) # {}
      BY <1>10 DEF Found, Step, Phases
    <3>2. Interrupted(crew[v].saw) \subseteq Nat
      BY <1>0 DEF Interrupted, Projections
    <3> QED
      BY <3>1, <3>2
  <2>3. Wrote(v, "recovery_found", d, NoStage, NoStage, 0)
    <3>1. JournalRun(v, Event("recovery_found", d, NoStage, NoStage, 0))
      BY <1>10 DEF Found
    <3>2. "recovery_found" \in Kinds
      BY DEF Kinds
    <3> HIDE DEF d
    <3> QED
      BY <1>0, <2>2, <3>1, <3>2, LinesOfRecoverer
  <2> HIDE DEF d
  <2> QED
    BY <1>1, <1>4, <2>1, <2>3 DEF Replayed
<1>11. CASE Completed(v)
  <2>1. Others /\ Mine
    BY <1>2, <1>11 DEF Completed, Knowing
  <2>2. Wrote(v, "recovery", 0, NoStage, NoStage, 0)
    BY <1>0, <1>11, LinesOfRecoverer DEF Completed, Kinds
  <2> QED
    BY <1>1, <1>4, <2>1, <2>2 DEF Replayed
<1>12. CASE RecovererThrows(v)
  <2>1. Others /\ Mine
    BY <1>2, <1>12 DEF RecovererThrows, Knowing
  <2> QED
    BY <1>1, <1>3, <1>12, <2>1 DEF RecovererThrows
<1>13. CASE RecovererCrashes(v)
  <2>1. Step(v, crew[v].pc, "dead")
    BY <1>13 DEF RecovererCrashes, Step
  <2>2. Others /\ Mine
    BY <1>2, <2>1 DEF Knowing
  <2>3. runLog'.lines = runLog.lines
    BY <1>13 DEF RecovererCrashes, Tear, TypeInv, Logs
  <2> QED
    BY <1>1, <1>3, <2>2, <2>3
<1> QED
  BY <1>5, <1>6, <1>7, <1>8, <1>9, <1>10, <1>11, <1>12, <1>13 DEF Recoverer

IInv == Base /\ Place /\ WorkNow /\ Remembered

LEMMA IInvInit == Init => IInv
<1> SUFFICES ASSUME Init PROVE IInv
  OBVIOUS
<1>1. runLog.lines = <<>> /\ Read = Blank /\ calls = <<>>
  BY ProjectEmpty DEF Init, EmptyLog, Read
<1>2. runner.stage = Selected /\ runner.d = 0 /\ runner.pc = "new"
  BY DEF Init
<1>3. Place
  BY <1>1, <1>2, NamesOfStages DEF Place, Told, Blank
<1>4. Interruption(Blank, runner)
  BY <1>2 DEF Interruption, Interrupted, Blank
<1>5. \A d \in Nat : Of(Blank.mutations, d) = <<>>
  BY OfEmpty DEF Blank
<1>6. \A k \in DOMAIN <<>> : FALSE
  OBVIOUS
<1>7. Covering(Blank, <<>>)
  <2>1. \A d \in Nat : DoneIn(<<>>, d) = {}
    BY <1>6 DEF DoneIn
  <2>2. \A d \in Nat : Knows(<<>>, <<>>, d)
    BY <1>6, <2>1 DEF Knows
  <2> QED
    BY <1>5, <2>2 DEF Covering
<1>8. Ordered(Blank, <<>>)
  BY <1>5, <1>6 DEF Ordered, Ascends, InOrder
<1>9. Announced(Blank, <<>>, <<>>)
  BY DEF Announced, Blank
<1>10. Remembered
  BY DEF Init, Remembered, Knowing
<1> QED
  BY <1>1, <1>3, <1>4, <1>7, <1>8, <1>9, <1>10, BaseInit DEF IInv, WorkNow, Work

LEMMA IInvStep == IInv /\ [Next]_vars => IInv'
<1> SUFFICES ASSUME IInv, [Next]_vars PROVE IInv'
  OBVIOUS
<1>0. Base /\ TypeInv /\ Phases /\ Place /\ WorkNow /\ Remembered /\ Base'
  BY BaseStep DEF IInv, Base
<1>1. CASE UNCHANGED vars
  BY <1>0, <1>1 DEF vars, IInv, Place, WorkNow, Remembered, Read
<1>2. CASE Runs
  <2>1. Place' /\ WorkNow'
    BY <1>0, <1>2, PlaceStep, WorkStep DEF Place, PlaceNext, WorkNow, WorkNext, Read
  <2>2. Remembered'
    <3>1. crew' = crew
      BY <1>0, <1>2, RunnerWrites
    <3>2. runner.pc # "dead"
      BY <1>0, <1>2, RunnerWrites DEF Onwards, Opens
    <3> QED
      BY <1>0, <3>1, <3>2 DEF Remembered, Base, OneAtATime, Knowing
  <2> QED
    BY <1>0, <2>1, <2>2 DEF IInv
<1>4. CASE RefuseAnother
  <2>1. runLog' = runLog /\ calls' = calls /\ runner' = runner /\ crew' = crew
    BY <1>4 DEF RefuseAnother
  <2> QED
    BY <1>0, <2>1 DEF IInv, Place, WorkNow, Remembered, Read
<1>3. ASSUME NEW v \in Recoverers, Recoverer(v)
      PROVE  IInv'
  <2>1. runner' = runner /\ calls' = calls /\ Project(runLog'.lines) = Read
    BY <1>0, <1>3, RecovererReads
  <2>2. Place'
    BY <1>0, <2>1 DEF Place, Read
  <2>3. Work(Read, runner, calls, runLog'.lines)
    <3>1. CASE runLog'.lines = runLog.lines
      BY <1>0, <3>1 DEF WorkNow
    <3>2. ASSUME NEW line \in Lines, runLog'.lines = Append(runLog.lines, line)
          PROVE  Work(Read, runner, calls, runLog'.lines)
      <4>1. runLog.lines \in Seq(Lines)
        BY <1>0 DEF TypeInv, Logs
      <4>2. SameWork(Read, Read)
        BY DEF SameWork
      <4> QED
        BY <1>0, <3>2, <4>1, <4>2, QuietLines DEF WorkNow, Work
    <3> QED
      BY <1>0, <1>3, <3>1, <3>2, RecovererReads
  <2>4. WorkNow'
    BY <2>1, <2>3 DEF WorkNow, Read
  <2>5. Remembered'
    BY <1>0, <1>3, <2>1, RecovererReads DEF Remembered, Read
  <2> QED
    BY <1>0, <2>2, <2>4, <2>5 DEF IInv
<1> QED
  BY <1>1, <1>2, <1>3, <1>4 DEF Next, Runs

LEMMA IInvAlways == Spec => []IInv
  BY IInvInit, IInvStep, PTL DEF Spec

(* ---- the theorems that rest on it ---- *)

(* Every call that was asked for belongs to a dispatch that a line of the log *)
(* announces, wherever the run was cut off.                                   *)
THEOREM IntentsComeFirst == Spec => []IntentBeforeEffect
<1>1. IInv => IntentBeforeEffect
  BY DEF IInv, WorkNow, Work, Announced, IntentBeforeEffect
<1> QED
  BY <1>1, IInvAlways, PTL

(* Replaying a second time, after any lines a first recovery wrote or tore,   *)
(* gives every recovery what the first one read, and so its decision.         *)
THEOREM RecoveriesAgree == Spec => []RecoveryIsRepeatable
<1>1. IInv => RecoveryIsRepeatable
  <2>1. Announcing \cup {"done"} \subseteq Knowing
    BY DEF Announcing, Knowing
  <2> QED
    BY <2>1 DEF IInv, Remembered, RecoveryIsRepeatable
<1> QED
  BY <1>1, IInvAlways, PTL

(* A cursor that is active at one stage names that stage.                     *)
LEMMA CursorNames ==
  ASSUME NEW p, NEW stage \in Graph, ActiveOnlyAt(p, stage)
  PROVE  StageFromCursor(p.cursor) = stage
<1> DEFINE at == CHOOSE i \in DOMAIN Stages : p.cursor[Stages[i]] = "ACTIVE"
<1>1. p.cursor[stage] = "ACTIVE"
  BY DEF ActiveOnlyAt
<1>2. \E i \in DOMAIN Stages : p.cursor[Stages[i]] = "ACTIVE"
  BY <1>1 DEF Graph
<1>3. at \in DOMAIN Stages /\ p.cursor[Stages[at]] = "ACTIVE"
  BY <1>2
<1>4. StageFromCursor(p.cursor) = Stages[at]
  BY <1>1 DEF StageFromCursor
<1> HIDE DEF at
<1>5. Stages[at] \in Graph
  BY <1>3 DEF Graph
<1> QED
  BY <1>3, <1>4, <1>5 DEF ActiveOnlyAt

(* Replaying the log gives what the run has in memory, at every step and      *)
(* after every crash: its stage, its dispatches, its laps, its cursor; or, of *)
(* a run whose route-back was written and not taken, the stage refused.       *)
THEOREM LogTellsAll == Spec => []LogTellsTheRun
<1>1. IInv => LogTellsTheRun
  <2> SUFFICES ASSUME IInv, runner.stage # Selected
               PROVE  /\ Read.stage = Seen(runner)
                      /\ Read.loops = runner.loops
                      /\ Read.dispatches = runner.results
                      /\ Cardinality({s \in Graph : Read.cursor[s] = "ACTIVE"}) <= 1
                      /\ Read.stage = "BLOCKED" /\ Read.preBlock \in Graph =>
                           StageFromCursor(Read.cursor) = Read.preBlock
                      /\ Read.stage \in Graph => StageFromCursor(Read.cursor) = Read.stage
    BY DEF LogTellsTheRun, Read, Seen
  <2> DEFINE at == IF Seen(runner) = "BLOCKED" THEN Read.preBlock ELSE Seen(runner)
             active == {s \in Graph : Read.cursor[s] = "ACTIVE"}
  <2>1. /\ Read.stage = Seen(runner) /\ Read.loops = runner.loops
        /\ Read.dispatches = runner.results /\ ActiveOnlyAt(Read, at)
    BY DEF IInv, Place, Told
  <2>2. Cardinality(active) <= 1
    <3>1. active \in SUBSET {at}
      <4> HIDE DEF at
      <4> QED
        BY <2>1 DEF ActiveOnlyAt
    <3> HIDE DEF active, at
    <3>2. IsFiniteSet({at}) /\ Cardinality({at}) = 1
      BY FS_Singleton
    <3> QED
      BY <3>1, <3>2, FS_Subset
  <2>3. CASE Seen(runner) = "BLOCKED"
    <3>1. Read.preBlock \in Graph => StageFromCursor(Read.cursor) = Read.preBlock
      BY <2>1, <2>3, CursorNames
    <3> QED
      BY <2>1, <2>2, <2>3, <3>1, NamesOfStages
  <2>4. CASE Seen(runner) # "BLOCKED"
    <3>1. Read.stage \in Graph => StageFromCursor(Read.cursor) = Read.stage
      BY <2>1, <2>4, CursorNames
    <3> QED
      BY <2>1, <2>2, <2>4, <3>1
  <2> QED
    BY <2>3, <2>4
<1> QED
  BY <1>1, IInvAlways, PTL

(* What a recovery decides, of the lines it has of the interrupted dispatch.  *)
LEMMA Decided ==
  ASSUME NEW m
  PROVE  /\ m = <<>> => DecideRetry(m).decision = "RETRY_CLEAN"
         /\ m # <<>> => DecideRetry(m).decision # "RETRY_CLEAN"
         /\ DecideRetry(m).decision = "BLOCK_NON_REVERSIBLE" <=>
              m # <<>> /\ \E i \in DOMAIN m : m[i].n = 0
         /\ DecideRetry(m).decision = "ROLLBACK_AND_RETRY" =>
              DecideRetry(m).reversals = Reverse(m) /\ ~\E i \in DOMAIN m : m[i].n = 0
  BY DEF DecideRetry

(* Lines in order, from the last back.                                        *)
LEMMA Backwards ==
  ASSUME NEW m \in Seq(Lines), Ascends(m)
  PROVE  /\ DOMAIN Reverse(m) = DOMAIN m
         /\ \A i \in DOMAIN m : \E a \in DOMAIN m : Reverse(m)[i] = m[a]
         /\ \A a \in DOMAIN m : \E i \in DOMAIN m : Reverse(m)[i] = m[a]
         /\ \A i, j \in DOMAIN m : i < j =>
              \E a, b \in DOMAIN m : /\ Reverse(m)[i] = m[a] /\ Reverse(m)[j] = m[b]
                                     /\ a # b /\ m[a].seq > m[b].seq
<1> DEFINE L    == Len(m)
           back == Reverse(m)
<1>1. L \in Nat /\ DOMAIN m = 1..L /\ DOMAIN back = 1..L
      /\ \A i \in 1..L : back[i] = m[(L - i) + 1] /\ (L - i) + 1 \in 1..L
  BY DEF Reverse
<1> HIDE DEF back, L
<1>2. \A a \in 1..L : back[(L - a) + 1] = m[a] /\ (L - a) + 1 \in 1..L
  <2> SUFFICES ASSUME NEW a \in 1..L
               PROVE  back[(L - a) + 1] = m[a] /\ (L - a) + 1 \in 1..L
    OBVIOUS
  <2>1. (L - a) + 1 \in 1..L /\ (L - ((L - a) + 1)) + 1 = a
    BY <1>1
  <2> QED
    BY <1>1, <2>1
<1>3. /\ DOMAIN back = DOMAIN m
      /\ \A i \in DOMAIN m : \E a \in DOMAIN m : back[i] = m[a]
      /\ \A a \in DOMAIN m : \E i \in DOMAIN m : back[i] = m[a]
  BY <1>1, <1>2
<1>4. \A a \in 1..L : m[a].seq \in Nat
  <2>1. \A a \in 1..L : m[a] \in Lines
    BY <1>1
  <2> QED
    BY <2>1 DEF Lines
<1>5. ASSUME NEW i \in DOMAIN m, NEW j \in DOMAIN m, i < j
      PROVE  \E a, b \in DOMAIN m : /\ back[i] = m[a] /\ back[j] = m[b]
                                /\ a # b /\ m[a].seq > m[b].seq
  <2> DEFINE a == (L - i) + 1
             b == (L - j) + 1
  <2>1. a \in DOMAIN m /\ b \in DOMAIN m /\ b < a /\ back[i] = m[a] /\ back[j] = m[b]
    BY <1>1, <1>5
  <2> HIDE DEF a, b
  <2>2. m[b].seq < m[a].seq
    BY <2>1 DEF Ascends, InOrder
  <2>3. m[a].seq > m[b].seq /\ a # b
    <3>1. m[a].seq \in Nat /\ m[b].seq \in Nat
      BY <1>1, <1>4, <2>1
    <3>2. PICK y, z \in Nat : m[a].seq = y /\ m[b].seq = z
      BY <3>1
    <3> QED
      BY <2>1, <2>2, <3>2
  <2> QED
    BY <2>1, <2>3
<1> QED
  BY <1>3, <1>5 DEF back

Covers(verdict, d) ==
  LET undone == [i \in DOMAIN verdict.reversals |-> verdict.reversals[i].n]
  IN /\ d = runner.d
     /\ (verdict.decision = "RETRY_CLEAN") = (DoneBy(d) = {})
     /\ (verdict.decision = "BLOCK_NON_REVERSIBLE") =
          (\E c \in DoneBy(d) : calls[c].reversible = 0)
     /\ verdict.decision = "ROLLBACK_AND_RETRY" =>
          /\ {undone[i] : i \in DOMAIN undone} = DoneBy(d)
          /\ \A i, j \in DOMAIN undone : i < j =>
               /\ undone[i] # undone[j]
               /\ verdict.reversals[i].seq > verdict.reversals[j].seq

(* Of the calls of a dispatch that were answered and of their lines, what is  *)
(* decided is what they ask for.                                              *)
LEMMA DecidedCovers ==
  ASSUME TypeInv, NEW d, NEW m \in Seq(Lines), Ascends(m), Knows(m, calls, d), d = runner.d
  PROVE  Covers(DecideRetry(m), d)
<1> DEFINE verdict == DecideRetry(m)
           done    == DoneIn(calls, d)
<1>1. calls \in Seq(Calls)
  BY DEF TypeInv
<1>2. done = DoneBy(d) /\ done \subseteq DOMAIN calls
  BY DEF DoneIn, DoneBy
<1>3. \A c \in DOMAIN calls : calls[c].reversible \in {0, 1} /\ c # 0
  <2>1. \A c \in DOMAIN calls : calls[c] \in Calls /\ c # 0
    BY <1>1
  <2> QED
    BY <2>1 DEF Calls
<1>4. \A c \in done : (ValueOf(calls, c) = 0) = (calls[c].reversible = 0)
                      /\ (ValueOf(calls, c) # 0 => ValueOf(calls, c) = c)
  BY <1>2, <1>3 DEF ValueOf
<1>5. /\ \A i \in DOMAIN m : \E c \in done : m[i].n = ValueOf(calls, c)
      /\ \A c \in done : \E i \in DOMAIN m : m[i].n = ValueOf(calls, c)
      /\ \A i, j \in DOMAIN m : i # j /\ m[i].n # 0 => m[i].n # m[j].n
  BY DEF Knows
<1> HIDE DEF done
<1>6. m = <<>> <=> DOMAIN m = {}
  OBVIOUS
<1>7. m = <<>> <=> done = {}
  BY <1>5, <1>6
<1>8. (\E i \in DOMAIN m : m[i].n = 0) <=> (\E c \in done : calls[c].reversible = 0)
  BY <1>4, <1>5
<1>9. /\ (verdict.decision = "RETRY_CLEAN") = (DoneBy(d) = {})
      /\ (verdict.decision = "BLOCK_NON_REVERSIBLE") =
           (\E c \in DoneBy(d) : calls[c].reversible = 0)
  <2>1. verdict.decision = "RETRY_CLEAN" <=> m = <<>>
    BY Decided
  <2>2. verdict.decision = "BLOCK_NON_REVERSIBLE" <=> \E i \in DOMAIN m : m[i].n = 0
    BY <1>6, Decided
  <2> HIDE DEF verdict
  <2> QED
    BY <1>2, <1>7, <1>8, <2>1, <2>2
<1>10. ASSUME verdict.decision = "ROLLBACK_AND_RETRY"
       PROVE  LET undone == [i \in DOMAIN verdict.reversals |-> verdict.reversals[i].n]
              IN /\ {undone[i] : i \in DOMAIN undone} = DoneBy(d)
                 /\ \A i, j \in DOMAIN undone : i < j =>
                      /\ undone[i] # undone[j]
                      /\ verdict.reversals[i].seq > verdict.reversals[j].seq
  <2> DEFINE back   == verdict.reversals
             undone == [i \in DOMAIN back |-> back[i].n]
  <2>1. back = Reverse(m) /\ \A i \in DOMAIN m : m[i].n # 0
    BY <1>10, Decided
  <2> HIDE DEF verdict, back
  <2>2. /\ DOMAIN back = DOMAIN m
        /\ \A i \in DOMAIN m : \E a \in DOMAIN m : back[i] = m[a]
        /\ \A a \in DOMAIN m : \E i \in DOMAIN m : back[i] = m[a]
        /\ \A i, j \in DOMAIN m : i < j =>
              \E a, b \in DOMAIN m : /\ back[i] = m[a] /\ back[j] = m[b]
                                     /\ a # b /\ m[a].seq > m[b].seq
    BY <2>1, Backwards
  <2>3. {back[i].n : i \in DOMAIN m} = done
    <3>1. \A i \in DOMAIN m : m[i].n \in done
      BY <1>4, <1>5, <2>1
    <3>2. \A c \in done : \E i \in DOMAIN m : m[i].n = c
      BY <1>4, <1>5, <2>1
    <3>3. \A i \in DOMAIN m : back[i].n \in done
      BY <2>2, <3>1
    <3>4. ASSUME NEW c \in done
          PROVE  \E i \in DOMAIN m : back[i].n = c
      <4>1. PICK a \in DOMAIN m : m[a].n = c
        BY <3>2
      <4>2. PICK i \in DOMAIN m : back[i] = m[a]
        BY <2>2
      <4> QED
        BY <4>1, <4>2
    <3> QED
      BY <3>3, <3>4
  <2>4. {undone[i] : i \in DOMAIN undone} = DoneBy(d)
    BY <1>2, <2>2, <2>3
  <2>5. ASSUME NEW i \in DOMAIN undone, NEW j \in DOMAIN undone, i < j
        PROVE  undone[i] # undone[j] /\ back[i].seq > back[j].seq
    <3>1. i \in DOMAIN m /\ j \in DOMAIN m /\ undone[i] = back[i].n /\ undone[j] = back[j].n
      BY <2>2
    <3> HIDE DEF undone
    <3>2. PICK a, b \in DOMAIN m : /\ back[i] = m[a] /\ back[j] = m[b]
                                  /\ a # b /\ m[a].seq > m[b].seq
      BY <2>2, <2>5, <3>1
    <3>3. m[a].n # m[b].n
      BY <1>5, <2>1, <3>2
    <3> QED
      BY <3>1, <3>2, <3>3
  <2> QED
    BY <2>4, <2>5 DEF back
<1> HIDE DEF verdict
<1>11. Covers(verdict, d)
  BY <1>9, <1>10 DEF Covers
<1> QED
  BY <1>11 DEF verdict

(* A recovery that ran to its end decided about the dispatch the crash cut    *)
(* off, knowing every call of it that was answered: it retries clean exactly  *)
(* where there was none, refuses exactly where one cannot be undone, and      *)
(* otherwise undoes each of them once, from the last back.                    *)
THEOREM VerdictsCover == Spec => []VerdictCoversAnswered
<1>1. IInv => VerdictCoversAnswered
  <2> SUFFICES ASSUME IInv, NEW v \in Recoverers,
                      crew[v].pc = "done", Interrupted(crew[v].saw) # {}
               PROVE  Covers(Verdict(crew[v].saw), CHOOSE x \in Interrupted(crew[v].saw) : TRUE)
    BY DEF VerdictCoversAnswered, Covers
  <2> DEFINE mine == Of(Read.mutations, runner.d)
  <2>1. crew[v].saw = Read
    BY DEF IInv, Remembered, Knowing
  <2>2. Interrupted(Read) = {runner.d}
    BY <2>1 DEF IInv, WorkNow, Work, Interruption
  <2>3. (CHOOSE x \in Interrupted(Read) : TRUE) = runner.d
    BY <2>2
  <2>4. Verdict(Read) = DecideRetry(mine)
    BY <2>2, <2>3 DEF Verdict
  <2>5. runner.d \in Nat /\ Read \in Projections /\ TypeInv
    BY ReadType DEF IInv, Base, TypeInv, Holdings
  <2>6. mine \in Seq(Lines)
    BY <2>5, OfType DEF Projections
  <2>7. Ascends(mine) /\ Knows(mine, calls, runner.d)
    BY <2>5 DEF IInv, WorkNow, Work, Ordered, Covering
  <2> HIDE DEF mine
  <2>8. Covers(DecideRetry(mine), runner.d)
    BY <2>5, <2>6, <2>7, DecidedCovers
  <2> QED
    BY <2>1, <2>3, <2>4, <2>8
<1> QED
  BY <1>1, IInvAlways, PTL
=============================================================================
