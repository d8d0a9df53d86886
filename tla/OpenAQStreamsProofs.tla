-------------------------- MODULE OpenAQStreamsProofs --------------------------
(***************************************************************************)
(* Proofs about the OpenAQ adapter, for any streams, hours and windows:    *)
(* nothing published in time is missed (IInv), and no run puts back a      *)
(* value that another has replaced (StepInv).                              *)
(***************************************************************************)
EXTENDS OpenAQStreams, FiniteSetTheorems, TLAPS

\* A window of r over the stream it is at.
WindowEnd(r) == To(r, run[r].from, At(r).c, run[r].now)

\* The queue of a run: read at or before run[r].now, without repetition; the
\* ingest alone moves checkpoints, so its rows are not stale.
QueueFits(r) ==
    LET q == run[r].queue IN
    /\ \A i \in 1 .. Len(q) : q[i].c <= run[r].now
    /\ \A i, j \in 1 .. Len(q) : i # j => q[i].s # q[j].s
    /\ r = "ingest" => \A i \in 1 .. Len(q) : q[i].c = ct[q[i].s]

\* Where it stands.
CursorFits(r) ==
    /\ run[r].now <= now
    /\ run[r].phase = "idle" => run[r].queue = <<>>
    /\ run[r].phase = "have" => run[r].queue # <<>>
    /\ r = "ingest" /\ run[r].queue # <<>> => run[r].from = NextFrom(At(r).c, run[r].now)

RunsFit == \A r \in Mode : QueueFits(r) /\ CursorFits(r)

\* What a run has fetched: rows of its window only, and nothing that was settled
\* when it began is missing from it.
GotFits ==
    \A r \in Mode : run[r].phase = "have" =>
        \A h \in Hour :
            /\ run[r].got[h] > 0 => run[r].from <= h /\ h <= WindowEnd(r)
            /\ run[r].from <= h /\ h <= WindowEnd(r) /\ h + Overlap <= run[r].now
                => run[r].got[h] >= intime[At(r).s][h]

InTimeIsPublished == \A s \in Stream, h \in Hour : intime[s][h] <= rev[s][h]

CheckpointIsPast == \A s \in Stream : ct[s] <= now

IInv == TypeOK /\ RunsFit /\ GotFits /\ InTimeIsPublished /\ CheckpointIsPast /\ NothingInTimeFallsBehind

-----------------------------------------------------------------------------
USE DEF Hour, Never, Smaller, Larger

LEMMA WindowTypes ==
    ASSUME NEW r \in Mode, NEW c \in Never .. MaxTime, NEW n \in Hour, NEW from \in Int
    PROVE  /\ NextFrom(c, n) \in Int
           /\ NextTo(c, n) \in Hour
           /\ NextTo(c, n) <= n
           /\ FirstFrom(r, c, n) \in Int
           /\ To(r, from, c, n) \in Int
BY ConstantsAssumption DEF NextFrom, NextTo, Cursor, FirstFrom, To, OlderFrom, OlderEnd

LEMMA NextToType ==
    ASSUME NEW c \in Never .. MaxTime, NEW n \in Hour
    PROVE  NextTo(c, n) \in Hour /\ NextTo(c, n) <= n
BY ConstantsAssumption DEF NextFrom, NextTo, Cursor

LEMMA FirstFromType ==
    ASSUME NEW r \in Mode, NEW c \in Never .. MaxTime, NEW n \in Hour
    PROVE  FirstFrom(r, c, n) \in Int
<1>1. n \in Int /\ c \in Int
  BY ConstantsAssumption DEF Hour, Never
<1>2. NextFrom(c, n) \in Int
  BY <1>1, ConstantsAssumption DEF NextFrom, Cursor
<1>3. OlderFrom(c) \in Int
  BY <1>1, ConstantsAssumption DEF OlderFrom
<1> QED BY <1>2, <1>3 DEF FirstFrom

LEMMA HeadFromType ==
    ASSUME NEW r \in Mode, NEW q \in Seq(Row), NEW n \in Hour
    PROVE  HeadFrom(r, q, n) \in Int
<1>1. CASE q = <<>>
  BY <1>1 DEF HeadFrom
<1>2. CASE q # <<>>
  <2>1. q[1] \in Row
    BY <1>2
  <2>2. q[1].c \in Never .. MaxTime
    BY <2>1 DEF Row
  <2>3. FirstFrom(r, q[1].c, n) \in Int
    BY <2>2, FirstFromType
  <2> QED BY <1>2, <2>3 DEF HeadFrom
<1> QED BY <1>1, <1>2

LEMMA AtType ==
    ASSUME TypeOK, NEW r \in Mode, run[r].queue # <<>>
    PROVE  At(r) \in Row /\ At(r).s \in Stream /\ At(r).c \in Never .. MaxTime
<1>1. run[r].queue \in Seq(Row)
  BY DEF TypeOK, Runs
<1>2. run[r].queue[1] \in Row
  BY <1>1
<1> QED BY <1>2 DEF At, Row

LEMMA FacingType ==
    ASSUME NEW r \in Mode, NEW q \in Seq(Row), NEW n \in Hour, NEW used \in 0 .. MaxRequests
    PROVE  Facing(r, q, n, used) \in Runs
<1>1. HeadFrom(r, q, n) \in Int
  BY HeadFromType
<1>2. NoRows \in Values
  BY ConstantsAssumption DEF NoRows, Values
<1> QED BY <1>1, <1>2 DEF Facing, Runs

LEMMA DroppedType ==
    ASSUME TypeOK, NEW r \in Mode, run[r].queue # <<>>, NEW used \in 0 .. MaxRequests
    PROVE  Dropped(r, used) \in Runs
<1>1. run[r] \in Runs
  BY DEF TypeOK
<1>2. Tail(run[r].queue) \in Seq(Row)
  BY <1>1 DEF Runs
<1> QED BY <1>1, <1>2, FacingType DEF Dropped, Runs

LEMMA AttemptedType ==
    ASSUME TypeOK, NEW s \in Stream
    PROVE  Attempted(s) \in [Stream -> 0 .. Cardinality(Stream)]
<1>1. Cardinality(Stream) \in Nat
  BY FS_CardinalityType, ConstantsAssumption
<1>2. attempt \in [Stream -> 0 .. Cardinality(Stream)]
  BY DEF TypeOK
<1> QED BY <1>1, <1>2 DEF Attempted

LEMMA NoRunType == NoRun \in Runs /\ NoRun.phase = "idle" /\ NoRun.queue = <<>> /\ NoRun.now = 0
<1>1. NoRows \in Values
  BY ConstantsAssumption DEF NoRows, Values
<1>2. <<>> \in Seq(Row)
  OBVIOUS
<1> QED BY <1>1, <1>2, ConstantsAssumption DEF NoRun, Runs

LEMMA ListingsType ==
    ASSUME TypeOK, NEW q \in Listings
    PROVE  /\ q \in Seq(Row)
           /\ \A i \in 1 .. Len(q) : q[i].c = ct[q[i].s]
           /\ \A i, j \in 1 .. Len(q) : i # j => q[i].s # q[j].s
<1> DEFINE Active == {s \in Stream : status[s] = "active"}
           n == Smaller(Cardinality(Active), MaxRequests)
<1>1. Cardinality(Active) \in Nat
  BY FS_CardinalityType, FS_Subset, ConstantsAssumption
<1>2. n \in Nat
  BY <1>1, ConstantsAssumption
<1> HIDE DEF n
<1>3. PICK p \in [1 .. n -> Active] :
        /\ q = [i \in 1 .. n |-> [s |-> p[i], c |-> ct[p[i]]]]
        /\ \A i, j \in 1 .. n : i < j => p[i] # p[j]
  BY Zenon DEF Listings, n
<1>4. \A i \in 1 .. n : p[i] \in Stream /\ ct[p[i]] \in Never .. MaxTime
  BY DEF TypeOK
<1>5. q \in [1 .. n -> Row]
  BY <1>3, <1>4 DEF Row
<1>6. q \in Seq(Row) /\ Len(q) = n
  BY <1>2, <1>5
<1>7. \A i, j \in 1 .. n : i # j => p[i] # p[j]
  BY <1>2, <1>3
<1> QED BY <1>3, <1>4, <1>6, <1>7

-----------------------------------------------------------------------------
(* Type correctness.                                                         *)

LEMMA InitTypeOK == Init => TypeOK
<1> SUFFICES ASSUME Init PROVE TypeOK
  OBVIOUS
<1>1. NoRows \in Values
  BY ConstantsAssumption DEF NoRows, Values
<1>2. Cardinality(Stream) \in Nat
  BY FS_CardinalityType, ConstantsAssumption
<1>3. Start0 \in Int
  BY ConstantsAssumption DEF Start0
<1>4. run \in [Mode -> Runs]
  BY NoRunType DEF Init
<1> QED BY <1>1, <1>2, <1>3, <1>4, ConstantsAssumption DEF Init, TypeOK, NoDiscovery, Status

\* A step that only moves one run keeps the types if the run's new state has its.
LEMMA RunStepType ==
    ASSUME TypeOK, NEW r \in Mode, NEW new \in Runs, run' = [run EXCEPT ![r] = new]
    PROVE  run' \in [Mode -> Runs]
BY DEF TypeOK

LEMMA EnvironmentType ==
    ASSUME TypeOK, Tick \/ \E s \in Stream, h \in Hour : Publish(s, h)
    PROVE  TypeOK'
<1>1. CASE Tick
  BY <1>1, ConstantsAssumption DEF Tick, TypeOK, provider, rows
<1>2. ASSUME NEW s \in Stream, NEW h \in Hour, Publish(s, h) PROVE TypeOK'
  <2>1. rev[s] \in Values /\ intime[s] \in Values
    BY DEF TypeOK
  <2>2. rev[s][h] + 1 \in 0 .. MaxRev
    <3>1. rev[s][h] \in 0 .. MaxRev
      BY <2>1 DEF Values
    <3>2. rev[s][h] < MaxRev
      BY <1>2 DEF Publish
    <3> QED BY <3>1, <3>2, ConstantsAssumption
  <2>3. [rev[s] EXCEPT ![h] = rev[s][h] + 1] \in Values /\ [intime[s] EXCEPT ![h] = rev[s][h] + 1] \in Values
    BY <2>1, <2>2 DEF Values
  <2>4. rev' = [rev EXCEPT ![s] = [rev[s] EXCEPT ![h] = rev[s][h] + 1]]
    BY <1>2, <2>1 DEF Publish, TypeOK
  <2>5. intime' \in {intime, [intime EXCEPT ![s] = [intime[s] EXCEPT ![h] = rev[s][h] + 1]]}
    BY <1>2, <2>1 DEF Publish, TypeOK
  <2>6. rev' \in [Stream -> Values] /\ intime' \in [Stream -> Values]
    BY <2>3, <2>4, <2>5 DEF TypeOK
  <2> QED BY <1>2, <2>6 DEF Publish, TypeOK, rows
<1> QED BY <1>1, <1>2

LEMMA AskType ==
    ASSUME TypeOK, NEW r \in Mode, Begin(r) \/ Skip(r) \/ BudgetStop(r) \/ Finish(r) \/ Abort(r)
    PROVE  TypeOK'
<1>1. PICK new \in Runs : run' = [run EXCEPT ![r] = new]
  <2>1. CASE Begin(r)
    <3>1. PICK q \in Listings : run' = [run EXCEPT ![r] = Facing(r, q, now, 0)]
      BY <2>1 DEF Begin
    <3>2. q \in Seq(Row) /\ now \in Hour /\ 0 \in 0 .. MaxRequests
      BY ListingsType, ConstantsAssumption DEF TypeOK
    <3> QED BY <3>1, <3>2, FacingType
  <2>2. CASE Skip(r)
    <3>1. run[r].used \in 0 .. MaxRequests
      BY DEF TypeOK, Runs
    <3> QED BY <2>2, <3>1, DroppedType DEF Skip
  <2>3. CASE BudgetStop(r) \/ Finish(r) \/ Abort(r)
    BY <2>3, NoRunType DEF BudgetStop, Finish, Abort
  <2> QED BY <2>1, <2>2, <2>3
<1>2. run' \in [Mode -> Runs]
  BY <1>1, RunStepType
<1>3. UNCHANGED <<now, provider, rows, status, missed, attempt, disc>>
  BY DEF Begin, Skip, BudgetStop, Finish, Abort
<1> QED BY <1>2, <1>3 DEF TypeOK, provider, rows

LEMMA FetchType ==
    ASSUME TypeOK, NEW r \in Mode, Fetch(r)
    PROVE  TypeOK'
<1> DEFINE got == Answer(At(r).s, run[r].from, WindowEnd(r))
<1>1. PICK cost \in 1 .. MaxAttempts :
        /\ run[r].used + cost <= MaxRequests
        /\ run' = [run EXCEPT ![r].phase = "have", ![r].used = @ + cost, ![r].got = got]
  BY DEF Fetch, WindowEnd
<1>2. At(r).s \in Stream
  BY AtType DEF Fetch, Asking
<1>3. got \in Values
  BY <1>2, ConstantsAssumption DEF Answer, Values, TypeOK
<1>4. run[r] \in Runs /\ run[r].used + cost \in 0 .. MaxRequests
  BY <1>1, ConstantsAssumption DEF TypeOK, Runs
<1>5. run' \in [Mode -> Runs]
  BY <1>1, <1>3, <1>4 DEF TypeOK, Runs
<1> QED BY <1>5 DEF Fetch, TypeOK, provider, rows

LEMMA CommitType ==
    ASSUME TypeOK, NEW r \in Mode, run[r].queue # <<>>, Commit(r)
    PROVE  TypeOK'
<1>1. At(r).s \in Stream /\ At(r).c \in Never .. MaxTime
  BY AtType
<1>2. run[r] \in Runs
  BY DEF TypeOK
<1>3. NoRows \in Values
  BY ConstantsAssumption DEF NoRows, Values
<1>4. WindowEnd(r) \in Int
  BY <1>1, <1>2, WindowTypes DEF WindowEnd, Runs
<1>5. stored' \in [Stream -> Values]
  <2>1. [h \in Hour |-> IF run[r].got[h] > 0 THEN run[r].got[h] ELSE stored[At(r).s][h]] \in Values
    <3>1. stored[At(r).s] \in Values /\ run[r].got \in Values
      BY <1>1, <1>2 DEF Runs, TypeOK
    <3> QED BY <3>1 DEF Values
  <2>2. stored' = [stored EXCEPT ![At(r).s] =
                    [h \in Hour |-> IF run[r].got[h] > 0 THEN run[r].got[h] ELSE stored[At(r).s][h]]]
    BY <1>1 DEF Commit, TypeOK
  <2> QED BY <1>1, <2>1, <2>2 DEF TypeOK
<1>6. ct' \in [Stream -> Never .. MaxTime]
  <2>1. CASE r = "ingest"
    <3>1. WindowEnd(r) \in Hour
      BY <1>1, <1>2, <2>1, WindowTypes DEF WindowEnd, To, Runs
    <3>2. ct' = [ct EXCEPT ![At(r).s] = WindowEnd(r)]
      BY <2>1 DEF Commit, WindowEnd
    <3> QED BY <1>1, <3>1, <3>2 DEF TypeOK
  <2>2. CASE r # "ingest"
    BY <2>2 DEF Commit, TypeOK
  <2> QED BY <2>1, <2>2
<1>7. first' \in [Stream -> Int]
  <2>1. run[r].from \in Int /\ first[At(r).s] \in Int
    BY <1>1, <1>2 DEF Runs, TypeOK
  <2> QED BY <1>1, <2>1 DEF Commit, TypeOK
<1>8. run' \in [Mode -> Runs]
  <2>1. [run[r] EXCEPT !.phase = "ask", !.from = WindowEnd(r), !.got = NoRows] \in Runs
    BY <1>2, <1>3, <1>4 DEF Runs
  <2>2. Dropped(r, run[r].used) \in Runs
    BY <1>2, DroppedType DEF Runs
  <2> QED BY <2>1, <2>2 DEF Commit, WindowEnd, TypeOK
<1>9. attempt' \in [Stream -> 0 .. Cardinality(Stream)]
  BY <1>1, AttemptedType DEF Commit
<1> QED BY <1>5, <1>6, <1>7, <1>8, <1>9 DEF Commit, TypeOK, provider

LEMMA FailType ==
    ASSUME TypeOK, NEW r \in Mode, run[r].queue # <<>>, Fail(r) \/ Defer(r)
    PROVE  TypeOK'
<1>1. At(r).s \in Stream
  BY AtType
<1>2. attempt' \in [Stream -> 0 .. Cardinality(Stream)]
  BY <1>1, AttemptedType DEF Fail, Defer
<1>3. PICK used \in 0 .. MaxRequests : run' = [run EXCEPT ![r] = Dropped(r, used)]
  <2>1. run[r].used \in 0 .. MaxRequests
    BY DEF TypeOK, Runs
  <2>2. \A cost \in 1 .. MaxAttempts :
          run[r].used + cost <= MaxRequests => run[r].used + cost \in 0 .. MaxRequests
    BY <2>1, ConstantsAssumption
  <2> QED BY <2>1, <2>2 DEF Fail, Defer
<1>4. run' \in [Mode -> Runs]
  BY <1>3, DroppedType, RunStepType
<1>5. status' \in [Stream -> Status]
  BY DEF Fail, Defer, TypeOK, Status
<1>6. UNCHANGED <<now, provider, rows, missed, disc>>
  BY DEF Fail, Defer
<1> QED BY <1>2, <1>4, <1>5, <1>6 DEF TypeOK, provider, rows

LEMMA DiscoveryType ==
    ASSUME TypeOK,
           DiscoveryProgress \/ DiscoveryAborts \/ \E s \in Stream : SkipLocation(s)
    PROVE  TypeOK'
<1>1. CASE Discover
  BY <1>1 DEF Discover, TypeOK, provider, rows
<1>2. CASE MarkUnseen
  <2>1. missed' \in [Stream -> 0 .. RetireAfter]
    BY <1>2, ConstantsAssumption DEF MarkUnseen, TypeOK
  <2>2. status' \in [Stream -> Status]
    BY <1>2 DEF MarkUnseen, TypeOK, Status
  <2> QED BY <1>2, <2>1, <2>2 DEF MarkUnseen, TypeOK, provider, rows, NoDiscovery
<1>3. ASSUME NEW s \in Stream, Seed(s) PROVE TypeOK'
  <2>1. status' \in [Stream -> Status] /\ missed' \in [Stream -> 0 .. RetireAfter]
    BY <1>3, ConstantsAssumption DEF Seed, TypeOK, Status
  <2> QED BY <1>3, <2>1 DEF Seed, TypeOK, provider, rows
<1>4. ASSUME NEW s \in Stream, SkipLocation(s) PROVE TypeOK'
  BY <1>4 DEF SkipLocation, TypeOK, provider, rows
<1>5. CASE DiscoveryAborts
  BY <1>5 DEF DiscoveryAborts, TypeOK, provider, rows, NoDiscovery
<1> QED BY <1>1, <1>2, <1>3, <1>4, <1>5 DEF DiscoveryProgress

\* A run that is fetching or committing is at some stream.
LEMMA AtSomeStream ==
    ASSUME RunsFit, NEW r \in Mode, Fetch(r) \/ Commit(r) \/ Fail(r) \/ Defer(r) \/ Skip(r)
    PROVE  run[r].queue # <<>>
BY DEF RunsFit, CursorFits, Fetch, Commit, Fail, Defer, Skip, Asking

LEMMA NextTypeOK ==
    ASSUME TypeOK, RunsFit, [Next]_vars
    PROVE  TypeOK'
<1>1. ASSUME NEW r \in Mode, Progress(r) \/ Defer(r) \/ Fail(r) \/ Abort(r) PROVE TypeOK'
  BY <1>1, AskType, FetchType, CommitType, FailType, AtSomeStream DEF Progress
<1>2. CASE UNCHANGED vars
  BY <1>2 DEF vars, TypeOK
<1> QED BY <1>1, <1>2, EnvironmentType, DiscoveryType DEF Next, Failure

-----------------------------------------------------------------------------
(* The runs.                                                                 *)

LEMMA RowOfSeq ==
    ASSUME NEW q \in Seq(Row), NEW i \in 1 .. Len(q)
    PROVE  q[i].s \in Stream
<1>1. q[i] \in Row
  OBVIOUS
<1> QED BY <1>1 DEF Row

\* A run that turns to a queue that fits it is where it should be.
LEMMA FacingFits ==
    ASSUME NEW r \in Mode, NEW q \in Seq(Row), NEW n \in Hour, NEW used \in 0 .. MaxRequests,
           run'[r] = Facing(r, q, n, used),
           n <= now',
           \A i \in 1 .. Len(q) : q[i].c <= n,
           \A i, j \in 1 .. Len(q) : i # j => q[i].s # q[j].s,
           r = "ingest" => \A i \in 1 .. Len(q) : q[i].c = ct'[q[i].s]
    PROVE  QueueFits(r)' /\ CursorFits(r)'
<1>1. /\ run'[r].queue = q
      /\ run'[r].now = n
      /\ run'[r].phase = "ask"
      /\ run'[r].from = HeadFrom(r, q, n)
  BY DEF Facing
<1>2. QueueFits(r)'
  BY <1>1 DEF QueueFits
<1>3. CursorFits(r)'
  BY <1>1 DEF CursorFits, HeadFrom, FirstFrom, At
<1> QED BY <1>2, <1>3

\* What is left of a queue once r is done with its head.
Rest(r, q) ==
    /\ q \in Seq(Row)
    /\ run[r].now \in Hour /\ run[r].now <= now
    /\ \A i \in 1 .. Len(q) : q[i].c <= run[r].now
    /\ \A i, j \in 1 .. Len(q) : i # j => q[i].s # q[j].s
    /\ \A i \in 1 .. Len(q) : q[i].s # At(r).s
    /\ r = "ingest" => \A i \in 1 .. Len(q) : q[i].c = ct[q[i].s]

LEMMA TailFits ==
    ASSUME TypeOK, RunsFit, NEW r \in Mode, run[r].queue # <<>>
    PROVE  Rest(r, Tail(run[r].queue))
<1> DEFINE q == Tail(run[r].queue)
<1> DEFINE p == run[r].queue
<1>1. p \in Seq(Row) /\ p # <<>> /\ run[r].now \in Hour
  BY DEF TypeOK, Runs
<1>2. /\ q \in Seq(Row)
      /\ Len(q) = Len(p) - 1
      /\ \A i \in 1 .. Len(q) : q[i] = p[i + 1] /\ i + 1 \in 1 .. Len(p)
      /\ 1 \in 1 .. Len(p)
  BY <1>1
<1>3. /\ \A i \in 1 .. Len(p) : p[i].c <= run[r].now
      /\ \A i, j \in 1 .. Len(p) : i # j => p[i].s # p[j].s
      /\ r = "ingest" => \A i \in 1 .. Len(p) : p[i].c = ct[p[i].s]
      /\ run[r].now <= now
  BY DEF RunsFit, QueueFits, CursorFits
<1> HIDE DEF p, q
<1>4. At(r) = p[1]
  BY DEF At, p
<1>5. \A i \in 1 .. Len(q) : q[i].c <= run[r].now
  BY <1>2, <1>3
<1>6. \A i, j \in 1 .. Len(q) : i # j => q[i].s # q[j].s
  <2> SUFFICES ASSUME NEW i \in 1 .. Len(q), NEW j \in 1 .. Len(q), i # j PROVE q[i].s # q[j].s
    OBVIOUS
  <2>1. i + 1 # j + 1 /\ i + 1 \in 1 .. Len(p) /\ j + 1 \in 1 .. Len(p)
    BY <1>2
  <2> QED BY <1>2, <1>3, <2>1
<1>7. \A i \in 1 .. Len(q) : q[i].s # At(r).s
  <2> SUFFICES ASSUME NEW i \in 1 .. Len(q) PROVE q[i].s # At(r).s
    OBVIOUS
  <2>1. i + 1 # 1 /\ i + 1 \in 1 .. Len(p)
    BY <1>2
  <2> QED BY <1>2, <1>3, <1>4, <2>1
<1>8. r = "ingest" => \A i \in 1 .. Len(q) : q[i].c = ct[q[i].s]
  BY <1>2, <1>3
<1>9. Rest(r, q)
  BY <1>1, <1>2, <1>3, <1>5, <1>6, <1>7, <1>8 DEF Rest
<1> QED BY <1>9 DEF q

\* What leaves a run, its rows' checkpoints and the clock's past alone keeps it fit.
LEMMA SameRunFits ==
    ASSUME TypeOK, RunsFit, NEW r \in Mode,
           run'[r] = run[r], now' \in Hour, now <= now', r = "ingest" => ct' = ct
    PROVE  QueueFits(r)' /\ CursorFits(r)'
<1>1. run[r].now \in Hour /\ now \in Hour
  BY DEF TypeOK, Runs
<1>2. At(r)' = At(r)
  BY DEF At
<1> QED BY <1>1, <1>2 DEF RunsFit, QueueFits, CursorFits

LEMMA MovingRunFits ==
    ASSUME TypeOK, RunsFit, CheckpointIsPast, NEW r \in Mode,
           Progress(r) \/ Defer(r) \/ Fail(r) \/ Abort(r)
    PROVE  QueueFits(r)' /\ CursorFits(r)'
<1>1. run[r] \in Runs /\ now \in Hour /\ run[r].used \in 0 .. MaxRequests /\ 0 \in 0 .. MaxRequests
  BY ConstantsAssumption DEF TypeOK, Runs
<1>2. ASSUME NEW used \in 0 .. MaxRequests, run[r].queue # <<>>, now' = now,
             r = "ingest" => \A s \in Stream : s # At(r).s => ct'[s] = ct[s],
             run' = [run EXCEPT ![r] = Dropped(r, used)]
      PROVE  QueueFits(r)' /\ CursorFits(r)'
  <2>0. PICK q : q = Tail(run[r].queue)
    OBVIOUS
  <2>1. run'[r] = Facing(r, q, run[r].now, used)
    BY <1>2, <2>0 DEF Dropped, TypeOK
  <2>2. Rest(r, q)
    BY <1>2, <2>0, TailFits
  <2>3. \A i \in 1 .. Len(q) : q[i].s \in Stream
    BY <2>2, RowOfSeq DEF Rest
  <2>4. r = "ingest" => \A i \in 1 .. Len(q) : q[i].c = ct'[q[i].s]
    BY <1>2, <2>2, <2>3 DEF Rest
  <2>5. run[r].now <= now'
    BY <1>2, <2>2 DEF Rest
  <2> QED BY <2>1, <2>2, <2>4, <2>5, FacingFits DEF Rest
<1>3. CASE Begin(r)
  <2>1. PICK q \in Listings : run' = [run EXCEPT ![r] = Facing(r, q, now, 0)]
    BY <1>3 DEF Begin
  <2>2. now' = now /\ ct' = ct
    BY <1>3 DEF Begin, rows
  <2>3. q \in Seq(Row)
    BY ListingsType
  <2>4. \A i \in 1 .. Len(q) : q[i].s \in Stream
    BY <2>3, RowOfSeq
  <2>5. \A i \in 1 .. Len(q) : q[i].c <= now
    BY <2>4, ListingsType DEF CheckpointIsPast
  <2>6. run'[r] = Facing(r, q, now, 0)
    BY <2>1 DEF TypeOK
  <2> QED BY <1>1, <2>2, <2>3, <2>5, <2>6, ListingsType, FacingFits
<1>4. CASE Skip(r) \/ Defer(r) \/ Fail(r)
  <2>1. PICK used \in 0 .. MaxRequests : run' = [run EXCEPT ![r] = Dropped(r, used)]
    <3>1. \A cost \in 1 .. MaxAttempts :
            run[r].used + cost <= MaxRequests => run[r].used + cost \in 0 .. MaxRequests
      BY <1>1, ConstantsAssumption
    <3> QED BY <1>1, <1>4, <3>1 DEF Skip, Defer, Fail
  <2>2. now' = now /\ ct' = ct
    BY <1>4 DEF Skip, Defer, Fail, rows
  <2> QED BY <1>2, <1>4, <2>1, <2>2, AtSomeStream
<1>5. CASE Fetch(r)
  <2>1. PICK cost \in 1 .. MaxAttempts :
          run' = [run EXCEPT ![r].phase = "have", ![r].used = @ + cost, ![r].got =
                             Answer(At(r).s, run[r].from, To(r, run[r].from, At(r).c, run[r].now))]
    BY <1>5 DEF Fetch
  <2>2. /\ run'[r].queue = run[r].queue
        /\ run'[r].now = run[r].now
        /\ run'[r].from = run[r].from
        /\ run'[r].phase = "have"
    BY <1>1, <2>1 DEF TypeOK, Runs
  <2>3. now' = now /\ ct' = ct /\ run[r].queue # <<>>
    BY <1>5, AtSomeStream DEF Fetch, rows
  <2>4. At(r)' = At(r)
    BY <2>2 DEF At
  <2> QED BY <2>2, <2>3, <2>4 DEF RunsFit, QueueFits, CursorFits
<1>6. CASE Commit(r)
  <2>1. run[r].queue # <<>> /\ At(r).s \in Stream
    BY <1>6, AtSomeStream, AtType
  <2>2. now' = now /\ \A s \in Stream : s # At(r).s => ct'[s] = ct[s]
    BY <1>6, <2>1 DEF Commit, TypeOK
  <2>3. CASE Last(r, WindowEnd(r), At(r).c)
    BY <1>1, <1>2, <1>6, <2>1, <2>2, <2>3 DEF Commit, WindowEnd
  <2>4. CASE ~Last(r, WindowEnd(r), At(r).c)
    <3>1. r # "ingest"
      BY <2>4 DEF Last
    <3>2. run' = [run EXCEPT ![r] = [run[r] EXCEPT !.phase = "ask", !.from = WindowEnd(r), !.got = NoRows]]
      BY <1>6, <2>4 DEF Commit, WindowEnd
    <3>3. run'[r].queue = run[r].queue /\ run'[r].now = run[r].now /\ run'[r].phase = "ask"
      BY <1>1, <3>2 DEF TypeOK, Runs
    <3> QED BY <2>1, <2>2, <3>1, <3>3 DEF RunsFit, QueueFits, CursorFits
  <2> QED BY <2>3, <2>4
<1>7. CASE BudgetStop(r) \/ Finish(r) \/ Abort(r)
  <2>1. run'[r] = NoRun /\ now' = now
    BY <1>7 DEF BudgetStop, Finish, Abort, TypeOK
  <2> QED BY <1>1, <2>1, NoRunType DEF QueueFits, CursorFits
<1> QED BY <1>3, <1>4, <1>5, <1>6, <1>7 DEF Progress

\* Only the environment, runs and discovery take steps; what each leaves alone.
Move(r) == Progress(r) \/ Defer(r) \/ Fail(r) \/ Abort(r)

LEMMA RunFrame ==
    ASSUME TypeOK, NEW r \in Mode, Move(r)
    PROVE  /\ now' = now /\ rev' = rev /\ intime' = intime
           /\ \A x \in Mode : x # r => run'[x] = run[x]
           /\ r # "ingest" => ct' = ct
           /\ ~Commit(r) => rows' = rows
BY DEF Move, Progress, Begin, Skip, Fetch, Commit, BudgetStop, Finish, Defer, Fail, Abort,
       TypeOK, provider, rows

LEMMA OtherFrame ==
    ASSUME Tick \/ DiscoveryProgress \/ DiscoveryAborts \/ (\E s \in Stream : SkipLocation(s))
             \/ (\E s \in Stream, h \in Hour : Publish(s, h)) \/ UNCHANGED vars
    PROVE  /\ run' = run /\ rows' = rows
           /\ now' = now \/ now' = now + 1
BY DEF Tick, DiscoveryProgress, Discover, Seed, MarkUnseen, DiscoveryAborts, SkipLocation, Publish,
       vars, provider, rows

LEMMA NextCases ==
    ASSUME [Next]_vars
    PROVE  \/ \E r \in Mode : Move(r)
           \/ Tick \/ DiscoveryProgress \/ DiscoveryAborts \/ (\E s \in Stream : SkipLocation(s))
                \/ (\E s \in Stream, h \in Hour : Publish(s, h)) \/ UNCHANGED vars
BY DEF Next, Move, Failure

LEMMA NextRunsFit ==
    ASSUME TypeOK, RunsFit, CheckpointIsPast, [Next]_vars
    PROVE  RunsFit'
<1>1. now \in Hour /\ now' \in Hour
  BY NextTypeOK DEF TypeOK
<1>2. ASSUME NEW r \in Mode, Move(r), NEW x \in Mode PROVE QueueFits(x)' /\ CursorFits(x)'
  <2>1. CASE x = r
    BY <1>2, <2>1, MovingRunFits DEF Move
  <2>2. CASE x # r
    <3>1. now <= now' /\ run'[x] = run[x]
      BY <1>1, <1>2, <2>2, RunFrame
    <3>2. x = "ingest" => ct' = ct
      BY <1>2, <2>2, RunFrame
    <3> QED BY <1>1, <3>1, <3>2, SameRunFits
  <2> QED BY <2>1, <2>2
<1>3. ASSUME run' = run, rows' = rows, now' = now \/ now' = now + 1, NEW x \in Mode
      PROVE  QueueFits(x)' /\ CursorFits(x)'
  <2>1. ct' = ct /\ run'[x] = run[x] /\ now <= now'
    BY <1>1, <1>3 DEF rows
  <2> QED BY <1>1, <2>1, SameRunFits
<1> QED BY <1>2, <1>3, NextCases, OtherFrame DEF RunsFit

LEMMA NextCheckpointIsPast ==
    ASSUME TypeOK, RunsFit, CheckpointIsPast, [Next]_vars
    PROVE  CheckpointIsPast'
<1>1. now \in Hour /\ now' \in Hour /\ ct \in [Stream -> Never .. MaxTime]
  BY NextTypeOK DEF TypeOK
<1>2. ASSUME NEW r \in Mode, Move(r) PROVE CheckpointIsPast'
  <2>1. CASE Commit(r) /\ r = "ingest"
    <3>1. run[r].queue # <<>> /\ At(r).s \in Stream /\ At(r).c \in Never .. MaxTime
      BY <2>1, AtSomeStream, AtType
    <3>2. run[r].now \in Hour /\ run[r].now <= now
      BY DEF TypeOK, Runs, RunsFit, CursorFits
    <3>3. NextTo(At(r).c, run[r].now) <= run[r].now /\ NextTo(At(r).c, run[r].now) \in Hour
      BY <3>1, <3>2, NextToType
    <3>4. ct' = [ct EXCEPT ![At(r).s] = NextTo(At(r).c, run[r].now)]
      BY <2>1 DEF Commit, To
    <3>5. now' = now
      BY <1>2, RunFrame
    <3> QED BY <1>1, <3>1, <3>2, <3>3, <3>4, <3>5 DEF CheckpointIsPast
  <2>2. CASE ~(Commit(r) /\ r = "ingest")
    BY <1>2, <2>2, RunFrame DEF CheckpointIsPast, rows
  <2> QED BY <2>1, <2>2
<1>3. ASSUME rows' = rows, now' = now \/ now' = now + 1 PROVE CheckpointIsPast'
  BY <1>1, <1>3 DEF rows, CheckpointIsPast
<1> QED BY <1>2, <1>3, NextCases, OtherFrame

LEMMA ValueTypes ==
    ASSUME TypeOK, NEW s \in Stream, NEW h \in Hour
    PROVE  rev[s][h] \in Nat /\ intime[s][h] \in Nat /\ stored[s][h] \in Nat
<1>1. rev[s] \in Values /\ intime[s] \in Values /\ stored[s] \in Values
  BY DEF TypeOK
<1> QED BY <1>1, ConstantsAssumption DEF Values

\* Once an hour is settled its in-time value stands.
LEMMA PublishFrame ==
    ASSUME TypeOK, [Next]_vars, NEW s \in Stream, NEW h \in Hour
    PROVE  \/ intime'[s][h] = intime[s][h] /\ rev'[s][h] = rev[s][h]
           \/ /\ now' = now /\ run' = run /\ rows' = rows
              /\ rev'[s][h] = rev[s][h] + 1
              /\ intime'[s][h] = intime[s][h] \/ (intime'[s][h] = rev[s][h] + 1 /\ now < h + Overlap)
<1>1. ASSUME NEW x \in Stream, NEW y \in Hour, Publish(x, y), x = s /\ y = h
      PROVE  /\ now' = now /\ run' = run /\ rows' = rows
             /\ rev'[s][h] = rev[s][h] + 1
             /\ intime'[s][h] = intime[s][h] \/ (intime'[s][h] = rev[s][h] + 1 /\ now < h + Overlap)
  <2>1. rev \in [Stream -> Values] /\ intime \in [Stream -> Values]
        /\ rev[s] \in Values /\ intime[s] \in Values
    BY DEF TypeOK
  <2> QED BY <1>1, <2>1 DEF Publish, Values
<1>2. ASSUME NEW x \in Stream, NEW y \in Hour, Publish(x, y), ~(x = s /\ y = h)
      PROVE  intime'[s][h] = intime[s][h] /\ rev'[s][h] = rev[s][h]
  <2>1. rev \in [Stream -> Values] /\ intime \in [Stream -> Values]
        /\ rev[s] \in Values /\ intime[s] \in Values
    BY DEF TypeOK
  <2> QED BY <1>2, <2>1 DEF Publish, Values
<1>3. ASSUME ~\E x \in Stream, y \in Hour : Publish(x, y)
      PROVE  intime' = intime /\ rev' = rev
  <2>1. ASSUME NEW r \in Mode, Move(r) PROVE intime' = intime /\ rev' = rev
    BY <2>1, RunFrame
  <2>2. CASE Tick \/ DiscoveryProgress \/ DiscoveryAborts \/ (\E x \in Stream : SkipLocation(x)) \/ UNCHANGED vars
    BY <2>2 DEF Tick, DiscoveryProgress, Discover, Seed, MarkUnseen, DiscoveryAborts, SkipLocation, vars, provider
  <2> QED BY <1>3, <2>1, <2>2, NextCases
<1> QED BY <1>1, <1>2, <1>3

LEMMA NextInTimeIsPublished ==
    ASSUME TypeOK, InTimeIsPublished, [Next]_vars
    PROVE  InTimeIsPublished'
<1> SUFFICES ASSUME NEW s \in Stream, NEW h \in Hour PROVE intime'[s][h] <= rev'[s][h]
  BY DEF InTimeIsPublished
<1>1. intime[s][h] <= rev[s][h] /\ intime[s][h] \in Nat /\ rev[s][h] \in Nat
  BY ValueTypes DEF InTimeIsPublished
<1> QED BY <1>1, PublishFrame

-----------------------------------------------------------------------------
(* What a run has fetched, and what it commits.                              *)

LEMMA FetchGotFits ==
    ASSUME TypeOK, RunsFit, InTimeIsPublished, NEW r \in Mode, Fetch(r), NEW h \in Hour
    PROVE  /\ run'[r].got[h] > 0 => run'[r].from <= h /\ h <= WindowEnd(r)'
           /\ run'[r].from <= h /\ h <= WindowEnd(r)' => run'[r].got[h] >= intime'[At(r)'.s][h]
<1>1. run[r] \in Runs /\ run[r].queue # <<>>
  BY AtSomeStream DEF TypeOK
<1>2. PICK cost \in 1 .. MaxAttempts :
        run' = [run EXCEPT ![r].phase = "have", ![r].used = @ + cost,
                           ![r].got = Answer(At(r).s, run[r].from, WindowEnd(r))]
  BY DEF Fetch, WindowEnd
<1>3. /\ run'[r].queue = run[r].queue /\ run'[r].now = run[r].now /\ run'[r].from = run[r].from
      /\ run'[r].got = Answer(At(r).s, run[r].from, WindowEnd(r))
  BY <1>1, <1>2 DEF TypeOK, Runs
<1>4. At(r)' = At(r)
  BY <1>3 DEF At
<1>5. WindowEnd(r)' = WindowEnd(r)
  BY <1>3, <1>4 DEF WindowEnd
<1>6. intime' = intime /\ At(r).s \in Stream
  BY <1>1, AtType DEF Fetch, provider
<1>7. run'[r].got[h] = IF run[r].from <= h /\ h <= WindowEnd(r) THEN rev[At(r).s][h] ELSE 0
  BY <1>3 DEF Answer
<1>8. intime[At(r).s][h] <= rev[At(r).s][h] /\ intime[At(r).s][h] \in Nat /\ rev[At(r).s][h] \in Nat
  BY <1>6, ValueTypes DEF InTimeIsPublished
<1> QED BY <1>3, <1>4, <1>5, <1>6, <1>7, <1>8

LEMMA OnlyFetchHas ==
    ASSUME TypeOK, NEW r \in Mode, Move(r), run'[r].phase = "have"
    PROVE  Fetch(r)
<1>1. run[r] \in Runs
  BY DEF TypeOK
<1>2. ASSUME Begin(r) \/ Skip(r) \/ Fail(r) \/ Defer(r) PROVE run'[r].phase = "ask"
  <2>1. \E q, n, used : run' = [run EXCEPT ![r] = Facing(r, q, n, used)]
    BY <1>2 DEF Begin, Skip, Fail, Defer, Dropped
  <2>2. \A q, n, used : Facing(r, q, n, used).phase = "ask"
    BY DEF Facing
  <2> QED BY <2>1, <2>2 DEF TypeOK
<1>3. ASSUME Commit(r) PROVE run'[r].phase = "ask"
  <2>1. \/ run'[r] = Facing(r, Tail(run[r].queue), run[r].now, run[r].used)
        \/ \E from : run'[r] = [run[r] EXCEPT !.phase = "ask", !.from = from, !.got = NoRows]
    BY <1>3 DEF Commit, Dropped, TypeOK
  <2>2. \A from : [run[r] EXCEPT !.phase = "ask", !.from = from, !.got = NoRows].phase = "ask"
    BY <1>1 DEF Runs
  <2>3. Facing(r, Tail(run[r].queue), run[r].now, run[r].used).phase = "ask"
    BY DEF Facing
  <2> QED BY <2>1, <2>2, <2>3
<1>4. ASSUME BudgetStop(r) \/ Finish(r) \/ Abort(r) PROVE run'[r].phase = "idle"
  BY <1>4, NoRunType DEF BudgetStop, Finish, Abort, TypeOK
<1> QED BY <1>2, <1>3, <1>4 DEF Move, Progress

LEMMA NextGotFits ==
    ASSUME TypeOK, RunsFit, GotFits, InTimeIsPublished, [Next]_vars
    PROVE  GotFits'
<1> SUFFICES ASSUME NEW x \in Mode, run'[x].phase = "have", NEW h \in Hour
             PROVE  /\ run'[x].got[h] > 0 => run'[x].from <= h /\ h <= WindowEnd(x)'
                    /\ run'[x].from <= h /\ h <= WindowEnd(x)' /\ h + Overlap <= run'[x].now
                         => run'[x].got[h] >= intime'[At(x)'.s][h]
  BY DEF GotFits
<1>1. ASSUME run'[x] = run[x],
             \A s \in Stream : intime'[s][h] = intime[s][h] \/ (now < h + Overlap /\ run[x].now <= now)
      PROVE  /\ run'[x].got[h] > 0 => run'[x].from <= h /\ h <= WindowEnd(x)'
             /\ run'[x].from <= h /\ h <= WindowEnd(x)' /\ h + Overlap <= run'[x].now
                  => run'[x].got[h] >= intime'[At(x)'.s][h]
  <2>1. At(x)' = At(x)
    BY <1>1 DEF At
  <2>2. WindowEnd(x)' = WindowEnd(x)
    BY <1>1, <2>1 DEF WindowEnd
  <2>3. run[x].queue # <<>> /\ At(x).s \in Stream
    BY <1>1, AtType DEF RunsFit, CursorFits
  <2>4. now \in Hour /\ run[x].now \in Hour
    BY DEF TypeOK, Runs
  <2>5. h + Overlap <= run[x].now => intime'[At(x).s][h] = intime[At(x).s][h]
    BY <1>1, <2>3, <2>4, ConstantsAssumption
  <2> QED BY <1>1, <2>1, <2>2, <2>5 DEF GotFits
<1>2. ASSUME NEW r \in Mode, Move(r)
      PROVE  /\ run'[x].got[h] > 0 => run'[x].from <= h /\ h <= WindowEnd(x)'
             /\ run'[x].from <= h /\ h <= WindowEnd(x)' /\ h + Overlap <= run'[x].now
                  => run'[x].got[h] >= intime'[At(x)'.s][h]
  <2>1. CASE x = r
    BY <1>2, <2>1, OnlyFetchHas, FetchGotFits
  <2>2. CASE x # r
    <3>1. run'[x] = run[x] /\ intime' = intime
      BY <1>2, <2>2, RunFrame
    <3> QED BY <1>1, <3>1
  <2> QED BY <2>1, <2>2
<1>3. ASSUME run' = run
      PROVE  /\ run'[x].got[h] > 0 => run'[x].from <= h /\ h <= WindowEnd(x)'
             /\ run'[x].from <= h /\ h <= WindowEnd(x)' /\ h + Overlap <= run'[x].now
                  => run'[x].got[h] >= intime'[At(x)'.s][h]
  <2>1. run[x].now <= now
    BY DEF RunsFit, CursorFits
  <2>2. \A s \in Stream : intime'[s][h] = intime[s][h] \/ (now < h + Overlap /\ run[x].now <= now)
    BY <2>1, PublishFrame
  <2> QED BY <1>1, <1>3, <2>2
<1> QED BY <1>2, <1>3, NextCases, OtherFrame

\* A commit writes nothing older than what was in time, below the checkpoint it leaves.
LEMMA CommitKeepsUp ==
    ASSUME TypeOK, RunsFit, GotFits, CheckpointIsPast, NothingInTimeFallsBehind,
           NEW r \in Mode, Commit(r)
    PROVE  NothingInTimeFallsBehind'
<1> DEFINE a == At(r).s
           c == At(r).c
           n == run[r].now
           from == run[r].from
           to == WindowEnd(r)
           got == run[r].got
<1>1. run[r].queue # <<>> /\ a \in Stream /\ c \in Never .. MaxTime
  BY AtSomeStream, AtType
<1>2. run[r] \in Runs /\ n \in Hour /\ from \in Int /\ to \in Int /\ now \in Hour
  BY <1>1, WindowTypes DEF TypeOK, Runs, WindowEnd
<1>3. /\ c <= n /\ n <= now
      /\ r = "ingest" => c = ct[a] /\ from = NextFrom(c, n)
  <2>1. run[r].queue \in Seq(Row) /\ 1 \in 1 .. Len(run[r].queue)
    BY <1>1, <1>2 DEF Runs
  <2> QED BY <1>1, <2>1 DEF RunsFit, QueueFits, CursorFits, At
<1>4. /\ stored' = [stored EXCEPT ![a] = [h \in Hour |-> IF got[h] > 0 THEN got[h] ELSE stored[a][h]]]
      /\ ct' = IF r = "ingest" THEN [ct EXCEPT ![a] = to] ELSE ct
      /\ first' = IF r = "ingest" /\ c = Never THEN [first EXCEPT ![a] = Larger(first[a], from)] ELSE first
      /\ intime' = intime
      /\ run[r].phase = "have"
  BY <1>1 DEF Commit, WindowEnd, provider, TypeOK
<1>5. \A h \in Hour :
        /\ got[h] \in Nat /\ stored[a][h] \in Nat /\ intime[a][h] \in Nat
        /\ got[h] > 0 => from <= h /\ h <= to
        /\ from <= h /\ h <= to /\ h + Overlap <= n => got[h] >= intime[a][h]
  <2>1. \A h \in Hour : got[h] \in Nat
    BY <1>2, ConstantsAssumption DEF Runs, Values
  <2> QED BY <1>1, <1>4, <2>1, ValueTypes DEF GotFits
<1>6. ct \in [Stream -> Never .. MaxTime] /\ first \in [Stream -> Int] /\ stored \in [Stream -> Values]
  BY DEF TypeOK
<1> HIDE DEF a, c, n, from, to, got
<1> SUFFICES ASSUME NEW s \in Stream, NEW h \in Hour,
                    ct'[s] # Never, first'[s] <= h, h < ct'[s] - Overlap
             PROVE  stored'[s][h] >= intime'[s][h]
  BY DEF NothingInTimeFallsBehind
<1>7. CASE s # a
  BY <1>1, <1>4, <1>6, <1>7 DEF NothingInTimeFallsBehind
<1>8. CASE s = a /\ r = "ingest"
  <2>1. to <= n /\ ct'[a] = to
    BY <1>1, <1>2, <1>4, <1>6, <1>8, NextToType DEF to, WindowEnd, To, c, n
  <2>2. stored'[a][h] = IF got[h] > 0 THEN got[h] ELSE stored[a][h]
    BY <1>1, <1>4, <1>6
  <2>3. h < to - Overlap
    BY <1>8, <2>1
  <2>4. h + Overlap <= n /\ h <= to
    BY <1>2, <2>1, <2>3, ConstantsAssumption
  <2>5. CASE from <= h
    BY <1>4, <1>5, <1>8, <2>2, <2>4, <2>5
  <2>6. CASE h < from
    <3>1. c # Never
      <4> SUFFICES ASSUME c = Never PROVE FALSE
        OBVIOUS
      <4>1. first'[a] = IF first[a] >= from THEN first[a] ELSE from
        BY <1>1, <1>4, <1>6, <1>8
      <4>2. first[a] \in Int /\ first'[a] <= h
        BY <1>1, <1>6, <1>8
      <4> QED BY <1>2, <2>6, <4>1, <4>2
    <3>2. from = c - Overlap /\ ct[a] = c /\ first'[a] = first[a]
      BY <1>1, <1>2, <1>3, <1>4, <1>8, <3>1, ConstantsAssumption DEF NextFrom, Cursor
    <3>3. stored[a][h] >= intime[a][h]
      BY <1>1, <1>8, <2>6, <3>1, <3>2 DEF NothingInTimeFallsBehind
    <3>4. ~(got[h] > 0)
      BY <1>2, <1>5, <2>6
    <3> QED BY <1>4, <1>8, <2>2, <3>3, <3>4
  <2> QED BY <1>2, <2>5, <2>6
<1>9. CASE s = a /\ r # "ingest"
  <2>1. ct' = ct /\ first' = first
    BY <1>4, <1>9
  <2>2. stored[a][h] >= intime[a][h]
    BY <1>1, <1>9, <2>1 DEF NothingInTimeFallsBehind
  <2>3. to <= c - Overlap
    BY <1>1, <1>2, <1>9, ConstantsAssumption DEF to, WindowEnd, To, OlderEnd, c
  <2>4. got[h] > 0 => got[h] >= intime[a][h]
    BY <1>1, <1>2, <1>3, <1>5, <2>3, ConstantsAssumption
  <2>5. stored'[a][h] = IF got[h] > 0 THEN got[h] ELSE stored[a][h]
    BY <1>1, <1>4, <1>6
  <2> QED BY <1>4, <1>9, <2>2, <2>4, <2>5
<1> QED BY <1>7, <1>8, <1>9

LEMMA NextKeepsUp ==
    ASSUME IInv, [Next]_vars
    PROVE  NothingInTimeFallsBehind'
<1> USE DEF IInv
<1>1. ASSUME rows' = rows PROVE NothingInTimeFallsBehind'
  <2> SUFFICES ASSUME NEW s \in Stream, NEW h \in Hour,
                      ct[s] # Never, first[s] <= h, h < ct[s] - Overlap
               PROVE  stored[s][h] >= intime'[s][h]
    BY <1>1 DEF NothingInTimeFallsBehind, rows
  <2>1. stored[s][h] >= intime[s][h]
    BY DEF NothingInTimeFallsBehind
  <2>2. ct[s] <= now /\ ct[s] \in Int /\ now \in Int
    BY DEF CheckpointIsPast, TypeOK
  <2>3. ~(now < h + Overlap)
    BY <2>2, ConstantsAssumption
  <2>4. intime'[s][h] = intime[s][h]
    BY <2>3, PublishFrame
  <2> QED BY <2>1, <2>4
<1>2. ASSUME NEW r \in Mode, Move(r) PROVE NothingInTimeFallsBehind'
  <2>1. CASE Commit(r)
    BY <2>1, CommitKeepsUp
  <2>2. CASE ~Commit(r)
    BY <1>1, <1>2, <2>2, RunFrame
  <2> QED BY <2>1, <2>2
<1> QED BY <1>1, <1>2, NextCases, OtherFrame

-----------------------------------------------------------------------------
(* The theorems.                                                             *)

LEMMA InitIInv == Init => IInv
<1> SUFFICES ASSUME Init PROVE IInv
  OBVIOUS
<1>1. TypeOK
  BY InitTypeOK
<1>2. \A r \in Mode : run[r] = NoRun
  BY DEF Init
<1>3. RunsFit
  BY <1>2, NoRunType DEF RunsFit, QueueFits, CursorFits, Init
<1>4. GotFits
  BY <1>2, NoRunType DEF GotFits
<1>5. InTimeIsPublished
  BY DEF InTimeIsPublished, Init, NoRows
<1>6. CheckpointIsPast /\ NothingInTimeFallsBehind
  BY DEF CheckpointIsPast, NothingInTimeFallsBehind, Init
<1> QED BY <1>1, <1>3, <1>4, <1>5, <1>6 DEF IInv

LEMMA NextIInv == IInv /\ [Next]_vars => IInv'
BY NextTypeOK, NextRunsFit, NextGotFits, NextInTimeIsPublished, NextCheckpointIsPast, NextKeepsUp
   DEF IInv

THEOREM SpecIInv == Spec => []IInv
BY InitIInv, NextIInv, PTL DEF Spec

\* Every reachable state of the adapter is well typed.
THEOREM TypeCorrect == Spec => []TypeOK
<1>1. IInv => TypeOK
  BY DEF IInv
<1> QED BY <1>1, SpecIInv, PTL

\* A value published less than Overlap after its hour is stored, or the next window
\* of its stream still begins before that hour: whatever the overlap, the window and
\* the lookback, and however runs fail, die and overlap with discovery and reconcile.
THEOREM NothingMissed == Spec => []NothingInTimeFallsBehind
<1>1. IInv => NothingInTimeFallsBehind
  BY DEF IInv
<1> QED BY <1>1, SpecIInv, PTL
-----------------------------------------------------------------------------
(* No step back.  A row of a queue is never ahead of its checkpoint, so the   *)
(* windows of the ingest and the reconcile over one stream meet in one hour   *)
(* at most, and elsewhere nobody commits between a fetch and its commit.      *)

RowsAreOld ==
    \A r \in Mode : \A i \in 1 .. Len(run[r].queue) : run[r].queue[i].c <= ct[run[r].queue[i].s]

StoredIsPublished == \A s \in Stream, h \in Hour : stored[s][h] <= rev[s][h]

GotIsPublished ==
    \A r \in Mode : run[r].phase = "have" => \A h \in Hour : run[r].got[h] <= rev[At(r).s][h]

\* What a run has in hand is not older than what is stored, but where it meets another.
GotIsNewer ==
    \A r \in Mode : run[r].phase = "have" =>
        \A h \in Hour : run[r].got[h] > 0 /\ h # At(r).c - Overlap => run[r].got[h] >= stored[At(r).s][h]

StepInv == IInv /\ RowsAreOld /\ StoredIsPublished /\ GotIsPublished /\ GotIsNewer

LEMMA InHand ==
    ASSUME IInv, NEW r \in Mode, run[r].phase = "have"
    PROVE  /\ run[r] \in Runs /\ run[r].queue # <<>> /\ 1 \in 1 .. Len(run[r].queue)
           /\ At(r).s \in Stream /\ At(r).c \in Never .. MaxTime
           /\ \A h \in Hour : run[r].got[h] \in Nat
<1>1. run[r] \in Runs /\ run[r].queue # <<>>
  BY DEF IInv, TypeOK, RunsFit, CursorFits
<1>2. run[r].queue \in Seq(Row) /\ run[r].got \in Values
  BY <1>1 DEF Runs
<1>3. \A h \in Hour : run[r].got[h] \in Nat
  BY <1>2, ConstantsAssumption DEF Values
<1> QED BY <1>1, <1>2, <1>3, AtType DEF IInv

\* A checkpoint never goes back.
LEMMA CheckpointsAdvance ==
    ASSUME IInv, [Next]_vars, NEW s \in Stream
    PROVE  ct[s] <= ct'[s]
<1>1. ct \in [Stream -> Never .. MaxTime] /\ ct[s] \in Int
  BY DEF IInv, TypeOK
<1>2. ASSUME NEW r \in Mode, Commit(r), r = "ingest" PROVE ct[s] <= ct'[s]
  <2>1. /\ run[r].phase = "have" /\ run[r].queue # <<>> /\ At(r).s \in Stream
        /\ At(r).c \in Never .. MaxTime /\ run[r].now \in Hour /\ 1 \in 1 .. Len(run[r].queue)
    BY <1>2, InHand DEF Commit, Runs
  <2>2. At(r).c <= run[r].now /\ At(r).c = ct[At(r).s]
    BY <1>2, <2>1 DEF IInv, RunsFit, QueueFits, At
  <2>3. NextTo(At(r).c, run[r].now) >= At(r).c
    BY <2>1, <2>2, ConstantsAssumption DEF NextTo, NextFrom, Cursor
  <2>4. ct' = [ct EXCEPT ![At(r).s] = NextTo(At(r).c, run[r].now)]
    BY <1>2 DEF Commit, To
  <2> QED BY <1>1, <2>1, <2>2, <2>3, <2>4
<1>3. ASSUME NEW r \in Mode, Move(r), ~(Commit(r) /\ r = "ingest") PROVE ct' = ct
  BY <1>3, RunFrame DEF IInv, rows
<1>4. ASSUME rows' = rows PROVE ct' = ct
  BY <1>4 DEF rows
<1> QED BY <1>1, <1>2, <1>3, <1>4, NextCases, OtherFrame

\* The rows of a run's next queue are rows of its queue, or as they are now.
LEMMA QueueMoves ==
    ASSUME IInv, NEW r \in Mode, Move(r)
    PROVE  \A i \in 1 .. Len(run'[r].queue) :
              \/ run'[r].queue[i].s \in Stream /\ run'[r].queue[i].c = ct[run'[r].queue[i].s]
              \/ \E j \in 1 .. Len(run[r].queue) : run'[r].queue[i] = run[r].queue[j]
<1> DEFINE Kept(q) == \A i \in 1 .. Len(q) : \E j \in 1 .. Len(run[r].queue) : q[i] = run[r].queue[j]
<1>1. run[r] \in Runs /\ run[r].queue \in Seq(Row) /\ TypeOK
  BY DEF IInv, TypeOK, Runs
<1>2. ASSUME NEW used, run[r].queue # <<>>, run' = [run EXCEPT ![r] = Dropped(r, used)]
      PROVE  Kept(run'[r].queue)
  <2>1. run'[r].queue = Tail(run[r].queue)
    BY <1>1, <1>2 DEF Dropped, Facing, TypeOK
  <2>2. \A i \in 1 .. Len(Tail(run[r].queue)) :
          i + 1 \in 1 .. Len(run[r].queue) /\ Tail(run[r].queue)[i] = run[r].queue[i + 1]
    BY <1>1, <1>2
  <2> QED BY <2>1, <2>2
<1>3. CASE Begin(r)
  <2>1. PICK q \in Listings : run' = [run EXCEPT ![r] = Facing(r, q, now, 0)]
    BY <1>3 DEF Begin
  <2>2. run'[r].queue = q
    BY <1>1, <2>1 DEF Facing, TypeOK
  <2>3. q \in Seq(Row)
    BY <1>1, ListingsType
  <2>4. \A i \in 1 .. Len(q) : q[i].s \in Stream
    BY <2>3, RowOfSeq
  <2> QED BY <1>1, <2>2, <2>4, ListingsType
<1>4. CASE Skip(r) \/ Defer(r) \/ Fail(r)
  <2>1. run[r].queue # <<>>
    BY <1>4, AtSomeStream DEF IInv
  <2>2. \E used : run' = [run EXCEPT ![r] = Dropped(r, used)]
    BY <1>4 DEF Skip, Defer, Fail
  <2> QED BY <1>2, <2>1, <2>2
<1>5. CASE Fetch(r)
  <2>1. run'[r].queue = run[r].queue
    BY <1>1, <1>5 DEF Fetch, TypeOK, Runs
  <2> QED BY <2>1
<1>6. CASE Commit(r)
  <2>1. run[r].queue # <<>>
    BY <1>6, AtSomeStream DEF IInv
  <2>2. \/ run' = [run EXCEPT ![r] = Dropped(r, run[r].used)]
        \/ \E from : run' = [run EXCEPT ![r] = [run[r] EXCEPT !.phase = "ask", !.from = from, !.got = NoRows]]
    BY <1>6 DEF Commit
  <2>3. CASE \E from : run' = [run EXCEPT ![r] = [run[r] EXCEPT !.phase = "ask", !.from = from, !.got = NoRows]]
    <3>1. run'[r].queue = run[r].queue
      BY <1>1, <2>3 DEF TypeOK, Runs
    <3> QED BY <3>1
  <2> QED BY <1>2, <2>1, <2>2, <2>3
<1>7. CASE BudgetStop(r) \/ Finish(r) \/ Abort(r)
  <2>1. run'[r].queue = <<>>
    BY <1>1, <1>7, NoRunType DEF BudgetStop, Finish, Abort, TypeOK
  <2> QED BY <2>1
<1> QED BY <1>3, <1>4, <1>5, <1>6, <1>7 DEF Move, Progress

LEMMA NextRowsAreOld ==
    ASSUME IInv, RowsAreOld, [Next]_vars
    PROVE  RowsAreOld'
<1>1. \A s \in Stream : ct[s] \in Int /\ ct'[s] \in Int /\ ct[s] <= ct'[s]
  BY CheckpointsAdvance, NextTypeOK DEF IInv, TypeOK
<1>2. \A x \in Mode : \A j \in 1 .. Len(run[x].queue) :
        run[x].queue[j].s \in Stream /\ run[x].queue[j].c \in Int
  <2> SUFFICES ASSUME NEW x \in Mode, NEW j \in 1 .. Len(run[x].queue)
               PROVE  run[x].queue[j].s \in Stream /\ run[x].queue[j].c \in Int
    OBVIOUS
  <2>1. run[x].queue \in Seq(Row)
    BY DEF IInv, TypeOK, Runs
  <2>2. run[x].queue[j] \in Row
    BY <2>1
  <2> QED BY <2>2 DEF Row
<1>3. ASSUME NEW x \in Mode, run'[x] = run[x], NEW i \in 1 .. Len(run'[x].queue)
      PROVE  run'[x].queue[i].c <= ct'[run'[x].queue[i].s]
  BY <1>1, <1>2, <1>3 DEF RowsAreOld
<1>4. ASSUME NEW r \in Mode, Move(r), NEW x \in Mode, NEW i \in 1 .. Len(run'[x].queue)
      PROVE  run'[x].queue[i].c <= ct'[run'[x].queue[i].s]
  <2>1. CASE x # r
    BY <1>3, <1>4, <2>1, RunFrame DEF IInv
  <2>2. CASE x = r
    <3>1. CASE run'[r].queue[i].s \in Stream /\ run'[r].queue[i].c = ct[run'[r].queue[i].s]
      BY <1>1, <2>2, <3>1
    <3>2. ASSUME NEW j \in 1 .. Len(run[r].queue), run'[r].queue[i] = run[r].queue[j]
          PROVE  run'[x].queue[i].c <= ct'[run'[x].queue[i].s]
      BY <1>1, <1>2, <2>2, <3>2 DEF RowsAreOld
    <3> QED BY <1>4, <2>2, <3>1, <3>2, QueueMoves
  <2> QED BY <2>1, <2>2
<1>5. ASSUME run' = run, NEW x \in Mode, NEW i \in 1 .. Len(run'[x].queue)
      PROVE  run'[x].queue[i].c <= ct'[run'[x].queue[i].s]
  BY <1>3, <1>5
<1> QED BY <1>4, <1>5, NextCases, OtherFrame DEF RowsAreOld

\* Two runs that have rows of one stream and one hour in hand meet there.
LEMMA WindowsMeet ==
    ASSUME IInv, RowsAreOld, NEW q \in Mode, NEW r \in Mode, q # r,
           run[q].phase = "have", run[r].phase = "have", At(q).s = At(r).s,
           NEW h \in Hour, run[q].got[h] > 0, run[r].got[h] > 0
    PROVE  h = At(r).c - Overlap
<1>1. ASSUME NEW i \in Mode, NEW o \in Mode, i = "ingest", o # "ingest",
             run[i].phase = "have", run[o].phase = "have", At(i).s = At(o).s,
             run[i].got[h] > 0, run[o].got[h] > 0
      PROVE  h = At(i).c - Overlap /\ h = At(o).c - Overlap
  <2>1. /\ At(i).c \in Int /\ At(o).c \in Int /\ At(i).c >= Never
        /\ run[i].now \in Int /\ run[o].from \in Int /\ h \in Int /\ h >= 0
        /\ 1 \in 1 .. Len(run[i].queue) /\ 1 \in 1 .. Len(run[o].queue) /\ run[i].queue # <<>>
    <3>1. run[i] \in Runs /\ run[o] \in Runs
      BY DEF IInv, TypeOK
    <3>2. run[i].now \in Int /\ run[o].from \in Int
      BY <3>1, ConstantsAssumption DEF Runs
    <3> QED BY <1>1, <3>2, InHand, ConstantsAssumption
  <2>2. At(i).c = ct[At(i).s] /\ At(i).c <= run[i].now /\ run[i].from = NextFrom(At(i).c, run[i].now)
    BY <1>1, <2>1 DEF IInv, RunsFit, QueueFits, CursorFits, At
  <2>3. At(o).c <= At(i).c
    BY <1>1, <2>1, <2>2 DEF RowsAreOld, At
  <2>4. h <= At(o).c - Overlap
    <3>1. h <= WindowEnd(o)
      BY <1>1 DEF IInv, GotFits
    <3> QED BY <1>1, <2>1, <3>1, ConstantsAssumption DEF WindowEnd, To, OlderEnd
  <2>5. run[i].from <= h
    BY <1>1 DEF IInv, GotFits
  <2>6. At(i).c # Never
    BY <2>1, <2>3, <2>4, ConstantsAssumption
  <2>7. run[i].from = At(i).c - Overlap
    BY <2>1, <2>2, <2>6, ConstantsAssumption DEF NextFrom, Cursor
  <2> QED BY <2>1, <2>3, <2>4, <2>5, <2>7, ConstantsAssumption
<1>2. (q = "ingest" /\ r # "ingest") \/ (r = "ingest" /\ q # "ingest")
  <2>1. q \in {"ingest", "reconcile"} /\ r \in {"ingest", "reconcile"}
    BY ConstantsAssumption
  <2> QED BY <2>1
<1> QED BY <1>1, <1>2

\* What a commit stores.
LEMMA CommitStores ==
    ASSUME IInv, NEW r \in Mode, Commit(r)
    PROVE  /\ run[r].phase = "have" /\ rev' = rev
           /\ \A s \in Stream \ {At(r).s} : stored'[s] = stored[s]
           /\ \A h \in Hour : stored'[At(r).s][h] = IF run[r].got[h] > 0 THEN run[r].got[h]
                                                    ELSE stored[At(r).s][h]
<1>1. run[r].phase = "have" /\ At(r).s \in Stream /\ stored \in [Stream -> Values]
  BY InHand DEF Commit, IInv, TypeOK
<1> QED BY <1>1 DEF Commit, provider

\* A published value is never withdrawn.
LEMMA RevGrows ==
    ASSUME IInv, [Next]_vars, NEW s \in Stream, NEW h \in Hour
    PROVE  rev[s][h] <= rev'[s][h] /\ rev[s][h] \in Nat /\ rev'[s][h] \in Nat
<1>1. rev[s][h] \in Nat
  BY ValueTypes DEF IInv
<1> QED BY <1>1, PublishFrame DEF IInv

LEMMA NextStoredIsPublished ==
    ASSUME StepInv, [Next]_vars
    PROVE  StoredIsPublished'
<1> SUFFICES ASSUME NEW s \in Stream, NEW h \in Hour PROVE stored'[s][h] <= rev'[s][h]
  BY DEF StoredIsPublished
<1>t. TypeOK /\ IInv
  BY DEF StepInv, IInv
<1>1. stored[s][h] <= rev[s][h] /\ stored[s][h] \in Nat /\ rev[s][h] \in Nat
  BY <1>t, ValueTypes DEF StepInv, StoredIsPublished
<1>2. rev[s][h] <= rev'[s][h] /\ rev'[s][h] \in Nat
  BY <1>t, RevGrows
<1>3. ASSUME NEW r \in Mode, Commit(r) PROVE stored'[s][h] <= rev'[s][h]
  <2>1. run[r].phase = "have" /\ run[r].got[h] <= rev[At(r).s][h]
    BY <1>3 DEF StepInv, GotIsPublished, Commit
  <2> QED BY <1>t, <1>1, <1>3, <2>1, CommitStores
<1>4. ASSUME rows' = rows PROVE stored'[s][h] <= rev'[s][h]
  BY <1>1, <1>2, <1>4 DEF rows
<1> QED BY <1>t, <1>3, <1>4, NextCases, OtherFrame, RunFrame

\* What a run has just fetched is what is published.
LEMMA FetchIsNewest ==
    ASSUME IInv, NEW r \in Mode, Fetch(r)
    PROVE  /\ At(r)' = At(r) /\ At(r).s \in Stream /\ rows' = rows /\ rev' = rev
           /\ \A h \in Hour : run'[r].got[h] \in {0, rev[At(r).s][h]}
<1>1. run[r] \in Runs /\ TypeOK /\ run[r].queue # <<>>
  BY AtSomeStream DEF IInv, TypeOK
<1>2. /\ run'[r].queue = run[r].queue
      /\ run'[r].got = Answer(At(r).s, run[r].from, To(r, run[r].from, At(r).c, run[r].now))
  BY <1>1 DEF Fetch, TypeOK, Runs
<1>3. rows' = rows /\ rev' = rev
  BY DEF Fetch, provider
<1> QED BY <1>1, <1>2, <1>3, AtType DEF Answer, At

LEMMA NextGotIsNewer ==
    ASSUME StepInv, [Next]_vars
    PROVE  GotIsPublished' /\ GotIsNewer'
<1> DEFINE Good(x, h) ==
             /\ run'[x].got[h] <= rev'[At(x)'.s][h]
             /\ run'[x].got[h] > 0 /\ h # At(x)'.c - Overlap => run'[x].got[h] >= stored'[At(x)'.s][h]
<1> SUFFICES ASSUME NEW x \in Mode, run'[x].phase = "have", NEW h \in Hour PROVE Good(x, h)
  BY DEF GotIsPublished, GotIsNewer
<1>t. TypeOK /\ IInv
  BY DEF StepInv, IInv
<1>1. CASE run'[x] = run[x]
  <2>1. At(x)' = At(x) /\ run[x].phase = "have"
    BY <1>1 DEF At
  <2>2. At(x).s \in Stream /\ run[x].got[h] \in Nat
    BY <1>t, <2>1, InHand
  <2>3. run[x].got[h] <= rev'[At(x).s][h]
    <3>1. run[x].got[h] <= rev[At(x).s][h]
      BY <2>1 DEF StepInv, GotIsPublished
    <3>2. rev[At(x).s][h] <= rev'[At(x).s][h] /\ rev[At(x).s][h] \in Nat /\ rev'[At(x).s][h] \in Nat
      BY <1>t, <2>2, RevGrows
    <3> QED BY <2>2, <3>1, <3>2
  <2>4. ASSUME run[x].got[h] > 0, h # At(x).c - Overlap PROVE run[x].got[h] >= stored'[At(x).s][h]
    <3>1. run[x].got[h] >= stored[At(x).s][h]
      BY <2>1, <2>4 DEF StepInv, GotIsNewer
    <3>2. ASSUME NEW r \in Mode, Commit(r) PROVE run[x].got[h] >= stored'[At(x).s][h]
      <4>1. run[r].phase = "have"
        BY <3>2 DEF Commit
      <4>2. r # x
        <5> SUFFICES ASSUME r = x PROVE FALSE
          OBVIOUS
        <5> QED BY <1>t, <3>2, OnlyFetchHas DEF Move, Progress, Fetch, Asking, Commit
      <4>3. ~(At(r).s = At(x).s /\ run[r].got[h] > 0)
        BY <1>t, <2>1, <2>4, <4>1, <4>2, WindowsMeet DEF StepInv
      <4> QED BY <1>t, <2>2, <3>1, <3>2, <4>3, CommitStores
    <3>3. ASSUME rows' = rows PROVE run[x].got[h] >= stored'[At(x).s][h]
      BY <3>1, <3>3 DEF rows
    <3> QED BY <1>t, <3>2, <3>3, NextCases, OtherFrame, RunFrame
  <2> QED BY <1>1, <2>1, <2>3, <2>4
<1>2. CASE run'[x] # run[x]
  <2>1. PICK r \in Mode : Move(r) /\ x = r
    BY <1>t, <1>2, NextCases, OtherFrame, RunFrame
  <2>2. Fetch(x)
    BY <1>t, <2>1, OnlyFetchHas
  <2>3. /\ At(x)' = At(x) /\ At(x).s \in Stream /\ rows' = rows /\ rev' = rev
        /\ run'[x].got[h] \in {0, rev[At(x).s][h]}
    BY <1>t, <2>2, FetchIsNewest
  <2>4. stored[At(x).s][h] <= rev[At(x).s][h] /\ rev[At(x).s][h] \in Nat /\ stored[At(x).s][h] \in Nat
    BY <1>t, <2>3, ValueTypes DEF StepInv, StoredIsPublished
  <2> QED BY <2>3, <2>4 DEF rows
<1> QED BY <1>1, <1>2

LEMMA InitStepInv == Init => StepInv
<1> SUFFICES ASSUME Init PROVE StepInv
  OBVIOUS
<1>1. \A r \in Mode : run[r] = NoRun
  BY DEF Init
<1>2. RowsAreOld /\ GotIsPublished /\ GotIsNewer
  BY <1>1, NoRunType DEF RowsAreOld, GotIsPublished, GotIsNewer
<1>3. StoredIsPublished
  BY DEF StoredIsPublished, Init, NoRows
<1> QED BY <1>2, <1>3, InitIInv DEF StepInv

LEMMA NextStepInv == StepInv /\ [Next]_vars => StepInv'
BY NextIInv, NextRowsAreOld, NextStoredIsPublished, NextGotIsNewer DEF StepInv

\* Whatever the two runs and the failures do, a commit puts an earlier value back
\* only in the one hour where the window of the ingest and that of the reconcile meet.
THEOREM NeverStepsBack == Spec => NoStepBack
<1> DEFINE A == \A s \in Stream, h \in Hour :
        stored'[s][h] < stored[s][h]
            => \E r \in Mode : run[r].phase = "have" /\ h = At(r).c - Overlap
<1>1. StepInv /\ [Next]_vars => [A]_vars
  <2> SUFFICES ASSUME StepInv, [Next]_vars, NEW s \in Stream, NEW h \in Hour, stored'[s][h] < stored[s][h]
               PROVE  \E r \in Mode : run[r].phase = "have" /\ h = At(r).c - Overlap
    OBVIOUS
  <2>t. TypeOK /\ IInv
    BY DEF StepInv, IInv
  <2>1. stored[s][h] \in Nat
    BY <2>t, ValueTypes
  <2>2. PICK r \in Mode : Commit(r)
    BY <2>t, <2>1, NextCases, OtherFrame, RunFrame DEF rows
  <2>3. /\ run[r].phase = "have" /\ At(r).s \in Stream
        /\ run[r].got[h] \in Nat
    BY <2>t, <2>2, InHand DEF Commit
  <2>4. s = At(r).s /\ run[r].got[h] > 0 /\ run[r].got[h] < stored[s][h]
    BY <2>t, <2>1, <2>2, <2>3, CommitStores
  <2>5. h = At(r).c - Overlap
    BY <2>1, <2>3, <2>4 DEF StepInv, GotIsNewer
  <2> QED BY <2>3, <2>5
<1> QED BY <1>1, InitStepInv, NextStepInv, PTL DEF Spec, NoStepBack
=============================================================================
