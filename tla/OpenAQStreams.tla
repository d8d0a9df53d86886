---------------------------- MODULE OpenAQStreams ----------------------------
(***************************************************************************)
(* The OpenAQ adapter (apps/api/app/services/ingestion/openaq): discovery  *)
(* seeds one checkpointed stream per sensor and parameter, the hourly      *)
(* ingest reads the next window of each active stream and commits its rows *)
(* together with its checkpoint, the daily reconcile re-reads the older    *)
(* windows.  Each of the three holds a lease of its own, so each is one    *)
(* process and any two of them overlap.                                    *)
(*                                                                         *)
(* Time counts hours.  A measurement is named by its stream and the hour   *)
(* it is of; rev counts the values the provider has published for it.  A   *)
(* stream stands for its location too: both are listed together.  It has   *)
(* values of its own; in the code sensors of one parameter at a location   *)
(* share a column of the readings, where the last writer wins.  The pages  *)
(* of a window are one read, as the rows of a commit are one write.        *)
(***************************************************************************)
EXTENDS Integers, FiniteSets, Sequences

CONSTANTS
    Mode,           \* the scheduled runs, of "ingest" and "reconcile"
    Stream,
    HoursOf,        \* HoursOf[s]: the hours s has a measurement of
    MaybeSubhourly, \* streams that may turn out not to be hourly
    Overlap,        \* OPENAQ_OVERLAP_HOURS
    Window,         \* OPENAQ_WINDOW_HOURS
    Backfill,       \* OPENAQ_INITIAL_BACKFILL_HOURS
    Lookback,       \* OPENAQ_RECONCILE_LOOKBACK_DAYS, in hours
    Chunk,          \* chunk_days of reconcile_windows, in hours
    RetireAfter,    \* OPENAQ_RETIRE_AFTER_MISSED_RUNS
    MaxRequests,    \* OPENAQ_MAX_REQUESTS_PER_RUN
    MaxAttempts,    \* requests one call may take (client.get)
    MaxTime,        \* bound: hours that are followed
    MaxRev          \* bound: values published for one hour

Hour == 0 .. MaxTime

ASSUME ConstantsAssumption ==
    /\ Mode \subseteq {"ingest", "reconcile"}
    /\ IsFiniteSet(Stream)
    /\ HoursOf \in [Stream -> SUBSET Hour]
    /\ MaybeSubhourly \subseteq Stream
    /\ Overlap \in Nat \ {0}
    /\ Window \in Nat \ {0}
    /\ Backfill \in Nat \ {0}
    /\ Lookback \in Nat
    /\ Chunk \in Nat \ {0}
    /\ RetireAfter \in Nat \ {0}
    /\ MaxRequests \in Nat \ {0}
    /\ MaxAttempts \in Nat \ {0}
    /\ MaxTime \in Nat
    /\ MaxRev \in Nat

VARIABLES
    now,        \* the clock
    rev,        \* rev[s][h]: values the provider has published for h; 0 for none
    intime,     \* ghost: the last of them published less than Overlap after h
    stored,     \* stored[s][h]: the one in readings; 0 for no row
    first,      \* ghost: the latest start of a first window of s
    status,     \* stream_checkpoints.status, "none" for no row
    ct,         \* completed_through, Never for NULL
    missed,     \* missed_runs, counted up to RetireAfter
    attempt,    \* rank of last_attempt_at, 0 for NULL
    run,        \* the ingest run and the reconcile run
    disc        \* the discovery run

vars == <<now, rev, intime, stored, first, status, ct, missed, attempt, run, disc>>
provider == <<rev, intime>>
rows == <<stored, first, ct>>

Status == {"none", "active", "excluded", "deferred", "retired"}
Never == -1
Start0 == -(Lookback + Overlap + Backfill + 1)  \* before every window
Smaller(a, b) == IF a <= b THEN a ELSE b
Larger(a, b) == IF a >= b THEN a ELSE b

NoRows == [h \in Hour |-> 0]
Values == [Hour -> 0 .. MaxRev]
NoRun == [phase |-> "idle", queue |-> <<>>, now |-> 0, from |-> 0, used |-> 0, got |-> NoRows]
Row == [s : Stream, c : Never .. MaxTime]
Runs == [phase : {"idle", "ask", "have"}, queue : Seq(Row), now : Hour, from : Int, used : 0 .. MaxRequests, got : Values]
NoDiscovery == [phase |-> "idle", todo |-> {}, seen |-> {}]

\* The type of the state.
TypeOK ==
    /\ now \in Hour
    /\ rev \in [Stream -> Values]
    /\ intime \in [Stream -> Values]
    /\ stored \in [Stream -> Values]
    /\ first \in [Stream -> Int]
    /\ status \in [Stream -> Status]
    /\ ct \in [Stream -> Never .. MaxTime]
    /\ missed \in [Stream -> 0 .. RetireAfter]
    /\ attempt \in [Stream -> 0 .. Cardinality(Stream)]
    /\ run \in [Mode -> Runs]
    /\ disc \in [phase : {"idle", "reading"}, todo : SUBSET Stream, seen : SUBSET Stream]

Init ==
    /\ now = 0
    /\ rev = [s \in Stream |-> NoRows]
    /\ intime = [s \in Stream |-> NoRows]
    /\ stored = [s \in Stream |-> NoRows]
    /\ first = [s \in Stream |-> Start0]
    /\ status = [s \in Stream |-> "none"]
    /\ ct = [s \in Stream |-> Never]
    /\ missed = [s \in Stream |-> 0]
    /\ attempt = [s \in Stream |-> 0]
    /\ run = [r \in Mode |-> NoRun]
    /\ disc = NoDiscovery

(***************************************************************************)
(* The provider and the clock.                                             *)
(***************************************************************************)

Tick ==
    /\ now < MaxTime
    /\ now' = now + 1
    /\ UNCHANGED <<provider, rows, status, missed, attempt, run, disc>>

\* A measurement appears, or its value is revised, at any later time.
Publish(s, h) ==
    /\ h \in HoursOf[s]
    /\ h <= now
    /\ rev[s][h] < MaxRev
    /\ rev' = [rev EXCEPT ![s][h] = @ + 1]
    /\ intime' = IF now < h + Overlap THEN [intime EXCEPT ![s][h] = rev[s][h] + 1] ELSE intime
    /\ UNCHANGED <<now, rows, status, missed, attempt, run, disc>>

(***************************************************************************)
(* Windows.                                                                *)
(***************************************************************************)

Cursor(c, n) == Smaller(c, n)

\* Where the next window of an ingest begins, and where it ends.
NextFrom(c, n) == IF c = Never THEN n - Backfill ELSE Cursor(c, n) - Overlap

NextTo(c, n) ==
    LET to == Smaller(n, Cursor(c, n) + Window)
    IN IF c = Never \/ to <= NextFrom(c, n) THEN n ELSE to

\* The older windows of a reconcile: chunks of Lookback .. Overlap before c.
OlderFrom(c) == c - Lookback
OlderEnd_ToTheCheckpoint(c) == c
OlderEnd(c) == c - Overlap
NothingOlder(c) == c = Never \/ OlderEnd(c) <= OlderFrom(c)

FirstFrom(r, c, n) == IF r = "ingest" THEN NextFrom(c, n) ELSE OlderFrom(c)

To(r, from, c, n) == IF r = "ingest" THEN NextTo(c, n) ELSE Smaller(from + Chunk, OlderEnd(c))

Last(r, to, c) == r = "ingest" \/ to >= OlderEnd(c)

(***************************************************************************)
(* The ingest and the reconcile.                                           *)
(***************************************************************************)

\* ORDER BY completed_through NULLS FIRST, last_attempt_at NULLS FIRST.
Before_NullsLast(a, b) ==
    \/ ct[a] # Never /\ (ct[b] = Never \/ ct[a] < ct[b])
    \/ ct[a] = ct[b] /\ attempt[a] < attempt[b]

Before(a, b) == ct[a] < ct[b] \/ (ct[a] = ct[b] /\ attempt[a] < attempt[b])

\* What list_streams may return: the first streams, with their checkpoints.
Listings ==
    LET Active == {s \in Stream : status[s] = "active"}
        n == Smaller(Cardinality(Active), MaxRequests)
        InOrder(q) ==
            /\ \A i, j \in 1 .. n : i < j => q[i] # q[j] /\ ~Before(q[j], q[i])
            /\ \A s \in Active : (\A i \in 1 .. n : q[i] # s) => \A i \in 1 .. n : ~Before(s, q[i])
    IN {[i \in 1 .. n |-> [s |-> q[i], c |-> ct[q[i]]]] : q \in {p \in [1 .. n -> Active] : InOrder(p)}}

\* A run of r that turns to the stream at the head of q.
HeadFrom(r, q, n) == IF q = <<>> THEN 0 ELSE FirstFrom(r, q[1].c, n)

Facing(r, q, n, used) ==
    [phase |-> "ask", queue |-> q, now |-> n, from |-> HeadFrom(r, q, n), used |-> used, got |-> NoRows]

Begin(r) ==
    /\ run[r].phase = "idle"
    /\ \E q \in Listings :
        /\ q # <<>>
        /\ run' = [run EXCEPT ![r] = Facing(r, q, now, 0)]
    /\ UNCHANGED <<now, provider, rows, status, missed, attempt, disc>>

Attempted(s) ==
    [x \in Stream |-> IF x = s THEN Cardinality(Stream)
                      ELSE IF attempt[x] > attempt[s] THEN attempt[x] - 1 ELSE attempt[x]]

\* r is done with the stream at the head of its queue.
Dropped(r, used) == Facing(r, Tail(run[r].queue), run[r].now, used)

\* The row r is at.
At(r) == run[r].queue[1]

Asking(r) ==
    /\ run[r].phase = "ask"
    /\ run[r].queue # <<>>
    /\ r = "reconcile" => ~NothingOlder(At(r).c)

Skip(r) ==
    /\ run[r].phase = "ask"
    /\ run[r].queue # <<>>
    /\ r = "reconcile"
    /\ NothingOlder(At(r).c)
    /\ run' = [run EXCEPT ![r] = Dropped(r, run[r].used)]
    /\ UNCHANGED <<now, provider, rows, status, missed, attempt, disc>>

\* The rows of s between two hours, as the provider has them now.
Answer(s, from, to) == [h \in Hour |-> IF from <= h /\ h <= to THEN rev[s][h] ELSE 0]

\* Every page of the window is in memory; nothing is written yet.
Fetch(r) ==
    /\ Asking(r)
    /\ \E cost \in 1 .. MaxAttempts :
        /\ run[r].used + cost <= MaxRequests
        /\ run' = [run EXCEPT ![r].phase = "have", ![r].used = @ + cost,
                              ![r].got = Answer(At(r).s, run[r].from,
                                                To(r, run[r].from, At(r).c, run[r].now))]
    /\ UNCHANGED <<now, provider, rows, status, missed, attempt, disc>>

\* The first measurement of the window is not hourly.
Defer(r) ==
    /\ Asking(r)
    /\ At(r).s \in MaybeSubhourly
    /\ \E cost \in 1 .. MaxAttempts :
        /\ run[r].used + cost <= MaxRequests
        /\ run' = [run EXCEPT ![r] = Dropped(r, run[r].used + cost)]
    /\ status' = [status EXCEPT ![At(r).s] = "deferred"]
    /\ attempt' = Attempted(At(r).s)
    /\ UNCHANGED <<now, provider, rows, missed, disc>>

Commit_UpToNow(r) ==
    LET s == At(r).s
        c == At(r).c
        to == To(r, run[r].from, c, run[r].now)
    IN  /\ run[r].phase = "have"
        /\ stored' = [stored EXCEPT ![s] = [h \in Hour |-> IF run[r].got[h] > 0 THEN run[r].got[h] ELSE @[h]]]
        /\ ct' = IF r = "ingest" THEN [ct EXCEPT ![s] = now] ELSE ct
        /\ first' = IF r = "ingest" /\ c = Never THEN [first EXCEPT ![s] = Larger(@, run[r].from)] ELSE first
        /\ attempt' = Attempted(s)
        /\ run' = [run EXCEPT ![r] = IF Last(r, to, c) THEN Dropped(r, run[r].used)
                                     ELSE [run[r] EXCEPT !.phase = "ask", !.from = to, !.got = NoRows]]
        /\ UNCHANGED <<now, provider, status, missed, disc>>

\* commit_window: the rows and the checkpoint in one transaction.  A reconcile
\* passes no completed_through.
Commit(r) ==
    LET s == At(r).s
        c == At(r).c
        to == To(r, run[r].from, c, run[r].now)
    IN  /\ run[r].phase = "have"
        /\ stored' = [stored EXCEPT ![s] = [h \in Hour |-> IF run[r].got[h] > 0 THEN run[r].got[h] ELSE @[h]]]
        /\ ct' = IF r = "ingest" THEN [ct EXCEPT ![s] = to] ELSE ct
        /\ first' = IF r = "ingest" /\ c = Never THEN [first EXCEPT ![s] = Larger(@, run[r].from)] ELSE first
        /\ attempt' = Attempted(s)
        /\ run' = [run EXCEPT ![r] = IF Last(r, to, c) THEN Dropped(r, run[r].used)
                                     ELSE [run[r] EXCEPT !.phase = "ask", !.from = to, !.got = NoRows]]
        /\ UNCHANGED <<now, provider, status, missed, disc>>

\* mark_stream_failed: the calls failed, or the transaction did.
Fail(r) ==
    /\ \/ /\ Asking(r)
          /\ \E cost \in 1 .. MaxAttempts :
                /\ run[r].used + cost <= MaxRequests
                /\ run' = [run EXCEPT ![r] = Dropped(r, run[r].used + cost)]
       \/ /\ run[r].phase = "have"
          /\ run' = [run EXCEPT ![r] = Dropped(r, run[r].used)]
    /\ attempt' = Attempted(At(r).s)
    /\ UNCHANGED <<now, provider, rows, status, missed, disc>>

\* The per-run cap is reached: the run ends, the stream is not marked.
BudgetStop(r) ==
    /\ Asking(r)
    /\ run[r].used = MaxRequests
    /\ run' = [run EXCEPT ![r] = NoRun]
    /\ UNCHANGED <<now, provider, rows, status, missed, attempt, disc>>

Finish(r) ==
    /\ run[r].phase = "ask"
    /\ run[r].queue = <<>>
    /\ run' = [run EXCEPT ![r] = NoRun]
    /\ UNCHANGED <<now, provider, rows, status, missed, attempt, disc>>

\* The credential is rejected, the shared budget is spent, or the instance dies.
Abort(r) ==
    /\ run[r].phase # "idle"
    /\ run' = [run EXCEPT ![r] = NoRun]
    /\ UNCHANGED <<now, provider, rows, status, missed, attempt, disc>>

(***************************************************************************)
(* Discovery.                                                              *)
(***************************************************************************)

\* A list without a location ends the run before anything is aged.
Discover ==
    /\ disc.phase = "idle"
    /\ \E listed \in SUBSET Stream \ {{}} :
        disc' = [phase |-> "reading", todo |-> listed, seen |-> {}]
    /\ UNCHANGED <<now, provider, rows, status, missed, attempt, run>>

\* seed_stream: a status is only ever replaced if it is retired.
Seed(s) ==
    /\ s \in disc.todo
    /\ \E new \in {"active", "excluded"} :
        status' = IF status[s] \in {"none", "retired"} THEN [status EXCEPT ![s] = new] ELSE status
    /\ missed' = [missed EXCEPT ![s] = 0]
    /\ disc' = [disc EXCEPT !.todo = @ \ {s}, !.seen = @ \cup {s}]
    /\ UNCHANGED <<now, provider, rows, attempt, run>>

\* One location raises: it is counted, and none of its streams is seen.
SkipLocation(s) ==
    /\ s \in disc.todo
    /\ disc' = [disc EXCEPT !.todo = @ \ {s}]
    /\ UNCHANGED <<now, provider, rows, status, missed, attempt, run>>

\* mark_unseen_streams, and the end of the run.
Unseen(s) == s \notin disc.seen /\ status[s] \in {"active", "deferred"}

MarkUnseen ==
    /\ disc.phase = "reading"
    /\ disc.todo = {}
    /\ missed' = [s \in Stream |-> IF Unseen(s) THEN Smaller(missed[s] + 1, RetireAfter) ELSE missed[s]]
    /\ status' = [s \in Stream |-> IF Unseen(s) /\ missed[s] + 1 >= RetireAfter /\ status[s] = "active"
                                   THEN "retired" ELSE status[s]]
    /\ disc' = NoDiscovery
    /\ UNCHANGED <<now, provider, rows, attempt, run>>

DiscoveryAborts ==
    /\ disc.phase = "reading"
    /\ disc' = NoDiscovery
    /\ UNCHANGED <<now, provider, rows, status, missed, attempt, run>>

Progress(r) ==
    Begin(r) \/ Skip(r) \/ Fetch(r) \/ Commit(r) \/ BudgetStop(r) \/ Finish(r)

DiscoveryProgress == Discover \/ MarkUnseen \/ \E s \in Stream : Seed(s)

Failure ==
    \/ \E r \in Mode : Fail(r) \/ Abort(r)
    \/ \E s \in Stream : SkipLocation(s)
    \/ DiscoveryAborts

Next ==
    \/ Tick
    \/ \E s \in Stream, h \in Hour : Publish(s, h)
    \/ \E r \in Mode : Progress(r) \/ Defer(r)
    \/ DiscoveryProgress
    \/ Failure

Spec == Init /\ [][Next]_vars

\* The scheduler starts every run again and again, and failures end.
FairSpec ==
    /\ Spec
    /\ \A r \in Mode : WF_vars(Progress(r))
    /\ WF_vars(DiscoveryProgress)
    /\ <>[][Failure => DiscoveryProgress \/ \E r \in Mode : Progress(r)]_vars

(***************************************************************************)
(* Properties.                                                             *)
(***************************************************************************)

\* The checkpoint, although it moves on whatever was read: a value published
\* less than Overlap after its hour is in readings, or the next window still
\* begins before that hour.  So no failure, crash, budget stop, retirement or
\* concurrent reconcile makes the adapter miss a measurement for good
\* (windows.py, commit_window).
NothingInTimeFallsBehind ==
    \A s \in Stream : \A h \in Hour :
        ct[s] # Never /\ first[s] <= h /\ h < ct[s] - Overlap => stored[s][h] >= intime[s][h]

\* The hourly ingest and the reconcile overlap, and neither looks at what a row
\* holds before it writes it.  Still no commit puts an earlier value back, but in
\* the one hour where the windows of the two meet (next_window, reconcile_windows).
NoStepBack ==
    [][\A s \in Stream, h \in Hour :
        stored'[s][h] < stored[s][h]
            => \E r \in Mode : run[r].phase = "have" /\ h = At(r).c - Overlap]_vars

\* A stream the provider goes on listing is discovered, taken back if it was
\* retired, and read until its checkpoint is the present and it has every value
\* published in time, though the streams compete for a request budget that does
\* not serve all of them in one run (list_streams, next_window).
Current(s) ==
    /\ ct[s] = now
    /\ \A h \in Hour : first[s] <= h => stored[s][h] >= intime[s][h]

ListsHave(s) == disc.phase = "idle" /\ disc'.phase = "reading" => s \in disc'.todo

ListedStreamsCatchUp ==
    \A s \in Stream :
        <>[][ListsHave(s)]_vars => <>[](status[s] \in {"excluded", "deferred"} \/ Current(s))
=============================================================================
