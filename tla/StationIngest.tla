---------------------------- MODULE StationIngest ----------------------------
(***************************************************************************)
(* One scheduled job from its first line to its last: the hourly station   *)
(* ingestion (apps/api/app/ingestion/tasks/data_ingestion.py) with its run *)
(* record (runs.py) and its lease, of which only the promise of            *)
(* LeaseExclusion is used (IngestLease implements it).                     *)
(*                                                                         *)
(* A task object has one run at a time.  An HTTP request makes its own;    *)
(* the worker (apps/worker/main_scheduler.py) makes one and reuses it for  *)
(* every run.  The steps of a run are the stretches between its awaits, so *)
(* requests of its stations, other runs, the expiry of the lease, a        *)
(* cancellation or the death of the instance fall between any two.         *)
(***************************************************************************)
EXTENDS Integers, FiniteSets

CONSTANTS
    Task,           \* task objects
    Reused,         \* those that stay for the next run
    Listed,         \* stations of the manifest that are active
    Dormant,        \* of those, the ones that are dormant
    Concurrency,    \* INGEST_CONCURRENCY
    DbFallback      \* ALLOW_DB_STATION_FALLBACK

ASSUME ConstantsAssumption ==
    /\ Reused \subseteq Task
    /\ IsFiniteSet(Listed)
    /\ Dormant \subseteq Listed
    /\ Concurrency \in Nat \ {0}
    /\ DbFallback \in BOOLEAN

VARIABLES
    run,            \* the run of a task object
    record,         \* the status it was recorded with, "none" while its row in
                    \* ops.ingest_runs is missing or running; followed until it is over
    unreadable,     \* _manifest_read_error of the object is set
    stored,         \* the hourly stations written since the hour began
    entitled        \* of LeaseExclusion

vars == <<run, record, unreadable, stored, entitled>>

Hourly == Listed \ Dormant
Job == "ingest-stations"
Lease == INSTANCE LeaseExclusion WITH Key <- {Job}, Holder <- Task

Final == {"success", "partial", "failed", "skipped"}
Phase == {"idle", "start", "lease", "load", "fetch", "write", "close", "release"}
Fetch == {"out", "todo", "asked", "rows", "failed", "denied", "skipped"}

\* why: the error class; cut: the run was cancelled; misread: this run could not
\* parse the manifest.  cut, misread and wrote are ghosts.
Run ==
    [pc : Phase, status : Final \cup {"running"},
     why : {"none", "lease_held", "manifest_unreadable", "provider_auth", "other"},
     got : [Listed -> Fetch], counted : BOOLEAN, leased : BOOLEAN,
     wrote : BOOLEAN, cut : BOOLEAN, misread : BOOLEAN]

NewRun ==
    [pc |-> "start", status |-> "running", why |-> "none",
     got |-> [s \in Listed |-> "out"], counted |-> FALSE, leased |-> FALSE,
     wrote |-> FALSE, cut |-> FALSE, misread |-> FALSE]

Idle == [NewRun EXCEPT !.pc = "idle"]

\* The type of the state.
TypeOK ==
    /\ run \in [Task -> Run]
    /\ record \in [Task -> Final \cup {"none"}]
    /\ unreadable \in [Task -> BOOLEAN]
    /\ stored \in SUBSET Hourly
    /\ entitled \in [{Job} -> SUBSET Task]

Init ==
    /\ run = [t \in Task |-> Idle]
    /\ record = [t \in Task |-> "none"]
    /\ unreadable = [t \in Task |-> FALSE]
    /\ stored = {}
    /\ Lease!Init

At(t, phase) == run[t].pc = phase
In(t, stages) == {s \in Listed : run[t].got[s] \in stages}
Rejected(t) == In(t, {"denied"}) # {}   \* the abort event is set

(***************************************************************************)
(* The start of a run, and its lease.                                      *)
(***************************************************************************)

Begin(t) ==
    /\ At(t, "idle")
    /\ run' = [run EXCEPT ![t] = NewRun]
    /\ UNCHANGED <<record, unreadable, stored, entitled>>

\* RunRecorder.start: a failing insert never stops the run.
Start(t) ==
    /\ At(t, "start")
    /\ run' = [run EXCEPT ![t].pc = "lease"]
    /\ UNCHANGED <<record, unreadable, stored, entitled>>

Over_SameObject(t) ==
    /\ run' = [run EXCEPT ![t] = Idle]
    /\ record' = [record EXCEPT ![t] = "none"]
    /\ UNCHANGED unreadable

\* The run is over, whatever it has done.  What __init__ sets, and no run resets,
\* is kept by an object that is reused.
Over(t) ==
    /\ run' = [run EXCEPT ![t] = Idle]
    /\ record' = [record EXCEPT ![t] = "none"]
    /\ unreadable' = [unreadable EXCEPT ![t] = @ /\ t \in Reused]

\* outcome.fail, and skip, before the run is closed.
Fail(t, why) == run' = [run EXCEPT ![t].pc = "close", ![t].status = "failed", ![t].why = why]

Acquire(t) ==
    /\ At(t, "lease")
    /\ Lease!Grant(Job, t)
    /\ run' = [run EXCEPT ![t].pc = "load", ![t].leased = TRUE]
    /\ UNCHANGED <<record, unreadable, stored>>

Denied(t) ==
    /\ At(t, "lease")
    /\ entitled[Job] # {}
    /\ run' = [run EXCEPT ![t].pc = "close", ![t].status = "skipped", ![t].why = "lease_held"]
    /\ UNCHANGED <<record, unreadable, stored, entitled>>

\* A statement whose answer is lost may have been executed.
MaybeGranted(t) == UNCHANGED entitled \/ Lease!Grant(Job, t)
MaybeReleased(t) == entitled' \in {entitled, [entitled EXCEPT ![Job] = @ \ {t}]}

LeaseError(t) ==
    /\ At(t, "lease")
    /\ Fail(t, "other")
    /\ MaybeGranted(t)
    /\ UNCHANGED <<record, unreadable, stored>>

(***************************************************************************)
(* The inventory.                                                          *)
(***************************************************************************)

QuotaDown(t) ==
    /\ At(t, "load")
    /\ Fail(t, "other")
    /\ UNCHANGED <<record, unreadable, stored, entitled>>

\* The run goes on with the stations to poll, unless the object remembers a
\* manifest it could not parse, or there is nothing to poll.
Poll(t, stations) ==
    /\ At(t, "load")
    /\ \/ unreadable[t] /\ Fail(t, "manifest_unreadable")
       \/ ~unreadable[t] /\ stations = {} /\ Fail(t, "other")
       \/ /\ ~unreadable[t] /\ stations # {}
          /\ run' = [run EXCEPT ![t].pc = "fetch",
                                ![t].got = [s \in Listed |-> IF s \in stations THEN "todo" ELSE "out"]]
    /\ UNCHANGED <<record, unreadable, stored, entitled>>

\* Dormant stations are polled in the hour 00 UTC.
LoadManifest(t) == \E midnight \in BOOLEAN : Poll(t, IF midnight THEN Listed ELSE Hourly)

LoadNothing(t) == Poll(t, IF DbFallback THEN Listed ELSE {})

LoadUnreadable(t) ==
    /\ At(t, "load")
    /\ unreadable' = [unreadable EXCEPT ![t] = TRUE]
    /\ run' = [run EXCEPT ![t].pc = "close", ![t].status = "failed",
                          ![t].why = "manifest_unreadable", ![t].misread = TRUE]
    /\ UNCHANGED <<record, stored, entitled>>

(***************************************************************************)
(* The stations, concurrently.                                             *)
(***************************************************************************)

Moves(t, s, stage) ==
    /\ run' = [run EXCEPT ![t].got[s] = stage]
    /\ UNCHANGED <<record, unreadable, stored, entitled>>

\* Operators Name_Slip are seeded mistakes: Name with a plausible bug in it.
Ask_NoCheckInside(t, s) ==
    /\ At(t, "fetch")
    /\ run[t].got[s] = "todo"
    /\ Cardinality(In(t, {"asked"})) < Concurrency
    /\ Moves(t, s, "asked")

\* A free place in the semaphore, and the credential was not rejected before.
Ask(t, s) ==
    /\ At(t, "fetch")
    /\ run[t].got[s] = "todo"
    /\ ~Rejected(t)
    /\ Cardinality(In(t, {"asked"})) < Concurrency
    /\ Moves(t, s, "asked")

SkipStation(t, s) ==
    /\ At(t, "fetch")
    /\ run[t].got[s] = "todo"
    /\ Rejected(t)
    /\ Moves(t, s, "skipped")

Answer(t, s, stage) ==
    /\ At(t, "fetch")
    /\ run[t].got[s] = "asked"
    /\ Moves(t, s, stage)

Gathered(t) ==
    /\ At(t, "fetch")
    /\ In(t, {"todo", "asked"}) = {}
    /\ run' = [run EXCEPT ![t].pc = "write", ![t].counted = TRUE]
    /\ UNCHANGED <<record, unreadable, stored, entitled>>

(***************************************************************************)
(* The rows, the record, the release.                                      *)
(***************************************************************************)

\* The outcome of a run that wrote its rows, if any.
Judged(t) == IF Rejected(t) THEN [status |-> "failed", why |-> "provider_auth"]
             ELSE [status |-> run[t].status, why |-> run[t].why]

Write_AbortFirst(t) ==
    /\ At(t, "write")
    /\ stored' = IF Rejected(t) THEN stored ELSE stored \cup (In(t, {"rows"}) \cap Hourly)
    /\ run' = [run EXCEPT ![t].pc = "close", ![t].wrote = ~Rejected(t),
                          ![t].status = Judged(t).status, ![t].why = Judged(t).why]
    /\ UNCHANGED <<record, unreadable, entitled>>

\* Whatever was fetched is written, even if the run is about to be marked failed.
Write(t) ==
    /\ At(t, "write")
    /\ stored' = stored \cup (In(t, {"rows"}) \cap Hourly)
    /\ run' = [run EXCEPT ![t].pc = "close", ![t].wrote = TRUE,
                          ![t].status = Judged(t).status, ![t].why = Judged(t).why]
    /\ UNCHANGED <<record, unreadable, entitled>>

WriteFails(t) ==
    /\ At(t, "write")
    /\ In(t, {"rows"}) # {}
    /\ Fail(t, "other")
    /\ UNCHANGED <<record, unreadable, stored, entitled>>

Classified_FailedLast(t) ==
    IF In(t, Fetch \ {"out"}) = {} THEN "failed"
    ELSE IF ~run[t].counted \/ In(t, {"rows"}) # {} THEN "success"
    ELSE IF In(t, {"failed", "denied"}) # In(t, {"rows", "failed", "denied"}) THEN "partial"
    ELSE "failed"

\* classify: the counts of a run whose stations were not gathered are zero.
Classified(t) ==
    IF In(t, Fetch \ {"out"}) = {} THEN "failed"
    ELSE IF ~run[t].counted \/ In(t, {"failed", "denied"}) = {} THEN "success"
    ELSE IF In(t, {"failed", "denied"}) # In(t, {"rows", "failed", "denied"}) THEN "partial"
    ELSE "failed"

\* RunOutcome.finish: a status that was set explicitly stays.
Finished(t) == IF run[t].status = "running" THEN Classified(t) ELSE run[t].status

\* RunRecorder.finish updates the row, unless the start could not insert it or the
\* update fails: accounting never breaks a run.
Recorded(t) == record' \in {record, [record EXCEPT ![t] = Finished(t)]}

Close(t) ==
    /\ At(t, "close")
    /\ Recorded(t)
    /\ run' = [run EXCEPT ![t].pc = "release"]
    /\ UNCHANGED <<unreadable, stored, entitled>>

Release(t) ==
    /\ At(t, "release")
    /\ IF run[t].leased THEN MaybeReleased(t) ELSE UNCHANGED entitled
    /\ Over(t)
    /\ UNCHANGED stored

(***************************************************************************)
(* What interrupts a run.                                                  *)
(***************************************************************************)

\* A cancelled run goes to its finally clause, past "except Exception".
CancelInside(t) ==
    /\ run[t].pc \in {"lease", "load", "fetch", "write"}
    /\ run' = [run EXCEPT ![t].pc = "close", ![t].cut = TRUE]
    /\ IF At(t, "lease") THEN MaybeGranted(t) ELSE UNCHANGED entitled
    /\ \/ UNCHANGED stored
       \/ At(t, "write") /\ stored' = stored \cup (In(t, {"rows"}) \cap Hourly)
    /\ UNCHANGED <<record, unreadable>>

\* Before its try, or in the finally clause: the rest is not done.
CancelOutside(t) ==
    /\ run[t].pc \in {"start", "close", "release"}
    /\ Over(t)
    /\ IF At(t, "release") /\ run[t].leased THEN MaybeReleased(t) ELSE UNCHANGED entitled
    /\ UNCHANGED stored

\* The instance dies, and its objects with it; its row and its lease stay.
Die(t) ==
    /\ ~At(t, "idle")
    /\ run' = [run EXCEPT ![t] = Idle]
    /\ record' = [record EXCEPT ![t] = "none"]
    /\ unreadable' = [unreadable EXCEPT ![t] = FALSE]
    /\ UNCHANGED <<stored, entitled>>

\* A lease runs out, whether its run is still at work or long gone.
Expire ==
    /\ entitled[Job] # {}
    /\ entitled' = [entitled EXCEPT ![Job] = {}]
    /\ UNCHANGED <<run, record, unreadable, stored>>

Hour ==
    /\ stored' = {}
    /\ UNCHANGED <<run, record, unreadable, entitled>>

Progress(t) ==
    \/ Begin(t) \/ Start(t) \/ Acquire(t) \/ Denied(t) \/ LoadManifest(t)
    \/ \E s \in Listed : Ask(t, s) \/ SkipStation(t, s) \/ Answer(t, s, "rows")
    \/ Gathered(t) \/ Write(t) \/ Close(t) \/ Release(t)

Failure(t) ==
    \/ LeaseError(t) \/ QuotaDown(t) \/ LoadNothing(t) \/ LoadUnreadable(t)
    \/ \E s \in Listed : Answer(t, s, "failed") \/ Answer(t, s, "denied")
    \/ WriteFails(t) \/ CancelInside(t) \/ CancelOutside(t) \/ Die(t)

Next == Expire \/ Hour \/ \E t \in Task : Progress(t) \/ Failure(t)

Spec == Init /\ [][Next]_vars

\* Every hour the scheduler starts a run, leases run out, and failures end.
FairSpec ==
    /\ Spec
    /\ WF_vars(Expire)
    /\ \A t \in Task : WF_vars(Progress(t))
    /\ <>[][\A t \in Task : Failure(t) => Progress(t)]_vars

(***************************************************************************)
(* Properties.                                                             *)
(***************************************************************************)

Polled(t) == In(t, Fetch \ {"out"})

\* Unless the run was cancelled, its row tells what happened, however requests,
\* a rejected credential, failing writes and other runs fell together: success
\* means that every polled station was answered and is written, partial that some
\* were, skipped that none was asked (classify, runs.py:4-8).
RecordTellsWhatHappened ==
    \A t \in Task : ~run[t].cut =>
        /\ record[t] = "success" => run[t].wrote /\ Polled(t) # {} /\ Polled(t) = In(t, {"rows"})
        /\ record[t] = "partial" => run[t].wrote /\ In(t, {"rows"}) # {} /\ In(t, {"failed"}) # {}
        /\ record[t] = "skipped" => Polled(t) = {}

\* A rejected credential ends a run as failed, and still the rows its other
\* stations brought are written (data_ingestion.py:395, "even if the run is about
\* to be marked failed").
FetchedIsKept ==
    \A t \in Task :
        At(t, "release") /\ ~run[t].cut /\ In(t, {"denied"}) # {} /\ In(t, {"rows"}) # {}
            => (run[t].wrote <=> run[t].why = "provider_auth")

\* However the requests of a run overlap, at most as many of them as run at once
\* carry a credential that was rejected (_fetch_one: it "stops new fetches").
RejectionIsContained == \A t \in Task : Cardinality(In(t, {"denied"})) <= Concurrency

\* A run fails as manifest_unreadable because of the manifest it read itself
\* ("Set per run", "set when a manifest exists but cannot be parsed",
\* data_ingestion.py:98 and 103).
UnreadableIsOwn == \A t \in Task : run[t].why = "manifest_unreadable" => run[t].misread

\* Whatever was cancelled, died, failed or left its lease behind: once failures
\* end, every station that is polled hourly is written again and again.
StationsAreReadAgain == \A s \in Hourly : []<>(s \in stored)
=============================================================================
