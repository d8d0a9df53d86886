# Hawanama: TLA+ models and proofs

Hawanama is PAQI's air-quality platform for Pakistan.  This directory models the
parts of it whose correctness hangs on order, failure and sharing: the ingestion
core in `src/apps/api/app/ingestion` and `src/apps/api/app/services/ingestion`, which
runs as scheduled jobs on several Cloud Run instances (and, in a second deployment,
in a long-lived worker), shares one PostgreSQL database and one bucket, and talks to
providers that fail; and, of the API, the public copilot, the spoken brief and the
file cache.  Paths below are relative to `src/apps/api/app/` unless they begin with
`apps/` or `db_schema/`.

| Module | Models | Proofs |
|---|---|---|
| `LeaseExclusion` | what a lease promises, abstractly | (implemented by `IngestLease`) |
| `IngestLease` | `ingestion/leases.py` | `IngestLeaseProofs` |
| `ProviderQuota` | `ingestion/quota.py`, the GC in `runs.py` | `ProviderQuotaProofs` |
| `StationManifest` | `ingestion/manifests.py`, `tasks/station_discovery.py` | `StationManifestProofs` |
| `OpenAQStreams` | `services/ingestion/openaq/` | `OpenAQStreamsProofs` |
| `ReadingsReconcile` | `ingestion/reconcile.py`, `merge_qc` of `validation.py` | `StoredRowsProofs` |
| `StationIdentity` | `upsert_station` of `ingestion/db.py`, the ids of the manifest and of the hourly job | `StoredRowsProofs` |
| `StationIngest` | `tasks/data_ingestion.py`, `runs.py`, on `LeaseExclusion` | `StationIngestProofs` |
| `IqairRows` | `ingestion/temporal.py`, `extract.py`, `validate_reading` of `validation.py` | `ProcessLocalProofs` |
| `CopilotChat` | `routers/copilot.py`, `services/copilot/budget.py`, `context.py` | `CopilotChatProofs` |
| `VoiceBrief` | `services/voice_brief.py` | `ProcessLocalProofs` |
| `BlobCache` | `core/filecache.py`, as `routers/ops_pipeline.py` uses it | `ProcessLocalProofs` |

`MC_<module>` gives a module small instances; each `.cfg` is one run.  Two MC modules
put parts side by side that share no state: `MC_ProcessLocal` (`VoiceBrief`,
`BlobCache`, `IqairRows`) and `MC_StoredRows` (`ReadingsReconcile`,
`StationIdentity`).  Their variable `focus` is chosen at the start and says which of
them moves; every part starts in its own initial states and takes its own steps, so
what holds of the composition holds of each alone.  The two proof modules of the same
grouping prove the theorems of each part from that part's own specification.

    tlc -workers 2 -config StationIngest.cfg MC_StationIngest
    tlapm StationIngestProofs.tla


## 1. The system

### Components, their state, their operations

**Leases** (`ingestion/leases.py`).  State: one row of `ops.ingest_leases` per
`<task>:<provider>:<scope>` (holder, fence, expires_at), and per process a flag
`_degraded`.  Operations: acquire (insert, or steal an expired row, in one
statement), renew, release; a manager that is not `required` hands out stand-in
leases once the database fails.  Correct when two live runs never both hold an
unexpired lease of a key, a run that lost its lease cannot end its successor's,
and no crash locks a job out.

**Provider quota** (`ingestion/quota.py`).  State: counters per credential and
minute or hour in `ops.provider_quota`.  Operations: reserve (minute and hour in
one transaction), `reserve_or_wait` (sleep to the next window, give up after
`max_wait_s`), a GC of old rows at the end of every run.  Correct when no window
is spent beyond its limit by the fleet, a required quota never lets an uncounted
request pass, and no caller waits for ever.

**Station discovery and the union manifest** (`tasks/station_discovery.py`,
`ingestion/manifests.py`).  State: the manifest object in the bucket, a copy and a
generation sidecar on each instance's disk, `stations.active`.  A run walks
states and cities, upserts what it finds, joins it to the previous manifest (which
ages what it did not see), uploads, and mirrors the result into
`stations.active`.  Correct when rows survive, a station is switched off only
after it was missed often enough, misses are real, and the table converges to what
the provider lists.

**OpenAQ adapter** (`services/ingestion/openaq/`).  State: `ops.stream_checkpoints`
(status, completed_through, missed_runs, last_attempt_at) and the readings.  Three
jobs under three leases: discovery seeds and retires streams, ingest reads the
next window of each stream under a request budget, reconcile re-reads older
windows.  Correct when no value published in time is missed for good, nothing is
set back, and every listed stream is reached.

**Readings write path** (`ingestion/reconcile.py`, `ingestion/validation.py`).
State: rows of `readings` with values, a quality state and flags.  One transaction
per batch: select the quality of existing rows, decide, upsert.  Correct when
concurrent, sparse and repeated writes lose no value, keep curated states, and
leave flags and state consistent.

**Station ingestion run and its record** (`tasks/data_ingestion.py`, `runs.py`,
`apps/worker/main_scheduler.py`).  State: a task object with per-run fields, the
lease, the run's row in `ops.ingest_runs`.  A run acquires the lease, checks the
quota, reads the manifest, fetches its stations concurrently, writes, classifies
itself, records itself, releases.  Correct when the record tells what happened,
what was fetched is kept, a rejected credential stops the run's requests, one run
does not poison the next, and stations are read again after any trouble.

**Station identity** (`ingestion/db.py`, `identity.py`, with discovery and the hourly
job).  State: the rows of `stations` (name, coordinates, native id, metadata), the
station ids in the manifest, the ids readings are stored under.  `upsert_station`
finds a device again by its native id, or as the one renamed at its site, and keeps
its legacy id; a batch commits with a savepoint per station; the manifest carries
the ids to the hourly job, which computes one where there is none.  Correct when a
device's readings stay under one id that no other device has, and curators' metadata
survives discovery.

**IQAir row extraction** (`ingestion/temporal.py`, `extract.py`, `validation.py`).
State: the buckets of one payload.  Current reports and lists of past ones, in any
order and with hours named twice, are moved to hours by a policy and merged; the
current hour is filled from history where it lacks values; validation cuts and
quarantines.  Correct when nothing reported is lost, current values are not replaced
by past ones, and the recorded provenance explains each value.

**Public copilot** (`routers/copilot.py`, `services/copilot/budget.py`, `context.py`).
State: daily counters per scope in `ops.copilot_usage`, shared by all instances, and
in each instance sessions with a lock, a history, a date and a selection.  A request
reserves in one transaction, opens its session, waits for its lock, runs a chain of
models, replaces the history, records its tokens.  Correct when admissions are counted
and limited, spending is bounded, a turn sees its own context, no history is
overwritten, and every request ends.

**Spoken brief** (`services/voice_brief.py`).  State: a cache of recordings, a
dictionary of locks, a daily count.  Correct when one reading is synthesised once, and
no more syntheses are paid in a day than allowed.

**Blob cache** (`core/filecache.py`).  State: cached files, keys known to be missing,
the files of `/tmp` (which is memory).  Downloads and uses of a path happen outside the
lock.  Correct when every file on the disk is accounted for and a path outlives its
reader unless enough other files were asked for.

**Not modelled** (each with its reason in `PROJECT.json`): city ingestion, the raw
archive, EPA, BAM and ICIMOD collection, provider clients, pacing, HTTP triggers,
health views, the public API, AQI arithmetic, fire and satellite analytics, copilot
tools and bot, exports, Redis, schema and infrastructure, and the two front ends; see
section 6.

### How they interact

- Every job takes a lease first and releases it in a `finally`; it continues as
  the one entitled run until then.  `StationIngest` uses the promise
  (`LeaseExclusion`), `IngestLease` is proved to keep it.
- Every provider request of the IQAir jobs and of OpenAQ goes through the quota.
- The hourly run reads the manifest that discovery wrote, on whatever instance.
- All adapters write through `reconcile_and_upsert_readings`, in transactions of
  their own.
- Discovery, ingest and reconcile of OpenAQ meet in the checkpoint rows.
- `IqairRows` describes the payload rows that `ReadingsReconcile` writes: a value, no
  value, or a quarantined one with its flag.
- The upserts of discovery give the manifest the ids under which the hourly run stores.
- A run's row in `ops.ingest_runs` is what the operations views and alerts read.

### What is hard about it

Instances share a database and a bucket but no memory or disk.  Leases lapse while
their holder lives on; the answer of a committed statement can be lost; an instance
can die, be replaced, or have its runs cancelled, between any two awaits; windows
of time end between a decision and its effect; a provider lists, drops, revises and
rejects as it likes.  `PROJECT.json` lists the hazards by line, with the properties
that watch them.  The worker keeps one task object for all its runs, where an HTTP
request makes a new one: the two deployments do not behave alike.  In the API, coroutines
of one instance change over at every await, threads at every line outside a lock, and
instances share only the counters of a day that may end at any moment.


## 2. The models and the code

In every module a comment before an operator names its code, and `map` in
`PROJECT.json` gives its lines.  Operators named `Name_Slip` (`Stealable_WhileLive`,
`RenameSource_SiteOnly`, ...) are seeded mistakes: `Name` with a plausible bug.  No
action uses them; put in `Name`'s place, each makes a property fail, which shows
that the property can tell.

**IngestLease.**  Each SQL statement is one action, on the row of a key.  Time is
what is left of a lease (`left`, held at -1 once `expires_at < now()`).
`Acquire`/`AcquireDenied`/`AcquireError(h, applied)` are the outcomes of
`ACQUIRE_SQL`, the last with or without having committed; `AcquireSynthetic` is the
degraded manager; `Abandon` is a crash or a DELETE that fails.  `view` is what the
run itself may believe about its lease; a run is `Entitled` while it believes it is
unexpired.  The fence restarts at 1 after a DELETE, as in the code.

**ProviderQuota.**  `now()` is the start of a transaction, so a reservation is two
steps: `Begin` fixes the windows, `Grant`, `DenyAndSleep`, `DenyAndGiveUp` or
`Error(c, committed)` is its commit, at most `TxAge` minute boundaries later.
Windows are named by age, `used[0]` being the current minute's row, which keeps
time unbounded and states few.  `spent` and `hspent` are ghosts that count
grants, lost answers included, apart from the table.  `QuotaGC` may run at any
moment.  The seven days of the real GC become "older than a transaction may reach".

**StationManifest.**  A manifest is a function from stations to miss counts; counts
past `InactiveAfter` are not told apart.  `Start`, `ReadState`, `ReadCity` are the
calls of a run, `SkipState` and `SkipCity` the ones that fail, `Finalize` the join
and the local write (no await lies between them), `Upload`/`UploadFails`,
`Mirror`/`MirrorFails` the rest.  `FinalizeFromDisk` is a bucket that does not
answer, `FinalizeByFallback` the write of this run's rows alone after the join
failed, `RefuseToReplace` the `ManifestUnavailable` exit, `PollSync` the hourly
run's download of the same object, `Replaced` an instance
with an empty disk.  Runs of one scope exclude each other (the lease), runs of
different scopes do not.  The ghosts record what the lists said when they were read:
`vain` the stations that a city's list came without, `skipped` the cities whose list did not
come.  A run's join adds them to the counters `sought`, `unread` and, since the last
publication of a sighting, `unseen`; what is aged is decided apart from them, by the code's
test of `fetched`.

**OpenAQStreams.**  Time counts hours, `rev` the values a provider has published for
an hour.  A run's queue is what `list_streams` returned when it began, with the
checkpoints of that moment; `Fetch` and `Commit` are two steps, so the provider,
the clock and the other runs come in between.  `NextFrom`, `NextTo`, `OlderFrom`,
`OlderEnd` are `windows.py`.  `Defer`, `Fail`, `BudgetStop`, `Abort` are the run's
other ways to leave a stream; `Discover`, `Seed`, `SkipLocation` and the ageing step
are discovery.  The run's lease is taken to outlive it.

**ReadingsReconcile.**  One row, many writers, READ COMMITTED: `Select` and `Upsert`
are the two statements; the payload is chosen at the upsert, since the select does
not look at it.  `Deduped`, `Validated`, `Merged`, `Written` are the pure functions
`dedupe_rows`, `validate_reading`, `merge_qc` and the SQL's COALESCE.  `Rollback` is
any failure of the batch.  `Judge` is a curator who sets the state of the stored row by
SQL at any moment, between a writer's two statements too; `behind` are the writers that
selected the row before it was curated.

**StationIngest.**  The steps are the stretches between awaits.  `Ask` and `Answer`
are one station's request inside and outside the semaphore; `Gathered`, `Judged`,
`Write`, `Classified`, `Close`, `Release` follow `_run` and
`fetch_station_readings` in their order.  `CancelInside`, `CancelOutside` cancel a run
in and out of its `try`; `Die` ends the instance; `Expire` takes the lease away
while the run works.  `record` is the final status as committed, "none" while the row
is missing or still `running`.  `Over` says what a task object keeps for its next run:
nothing for HTTP, its error field for the worker.

**StationIdentity.**  A station's id is its first name and site (the hash is taken to
tell them apart), and its native id, a slug of the name, is its name.  `Appear`,
`Disappear`, `Rename`, `Move` are what the provider's list may do; names in one list
differ.  `ReadCity` is `/stations`; `LookNative`, `LookConflict`, `LookRenamed`, `LookNew`
are the cases of `upsert_station` up to its last SELECT, `Write` and `Conflict` the rest.
Rows written are in `batch` until `Commit`; `UpsertFails` is a savepoint rolled back
(the manifest row stays, without an id), `CommitFails` a batch rolled back (the manifest
rows stay, with ids), `RunCrashes` the end of the run.  `PublishManifest` is the union,
`HourlyRun` stores every listed station's readings under `ScopeKey`, `Curate` is SQL by
hand, which waits for a row the batch has locked.  The ghosts `named`, `seenAs` and
`excused` name the devices that did what no discovery could tell from something else: took
a used name, were renamed and moved between two discoveries, or were renamed while
another device of the site was new or missing.  `OneIdPerDevice` is about all others.

**IqairRows.**  `section` walks through the payload in the code's order; a report is an
instant and, per field, absent, good or faulty.  A bucket keeps which report said each
value, the first timestamp and shift of each part, and which fields were filled.  `Merge`
and `Fill` are `_Bucket.merge` without and with `fill_only`; `Validate` is the window
and the quarantine.  A value remembers the report it came from, with its instant.  `told` is
the history of what was reported, `observed` the hour of the current weather.

**CopilotChat.**  An action is what runs between two awaits.  A reservation is one action,
because its transaction holds the row of the global scope (`Admit`, `Deny`,
`Unavailable`, the last with or without having committed); `Open` prepares the session before its
lock is taken (`Cleared` is `_begin_turn`, `Copied` the part of the selection that
`_apply_context` copies, which depends on the kind of place), `Start` takes the lock and the
history, `UseTool` is a tool that writes some of the context's fields, `Answer`
`set_history`, `Record` the tokens, on the day of that moment; `FallBack` gives the lock
back and asks again, `Disconnect` cancels anywhere on the session, `Expire` drops a
session that requests may still hold.

**VoiceBrief.**  A visitor enters, waits for the lock of its reading's entry, is woken,
synthesises or finds the recording, and drops the entry when it leaves, whoever else waits
on it: `EntryOf`, `Dropped`.  `Refund` after midnight takes from the new day's count.
`displaced` counts the visitors that were refused after waiting and dropped the entry of
somebody else's lock.

**BlobCache.**  Blocks under the lock are actions.  Between `Miss` and `Store` or
`NotFound` a thread downloads; after `Given`, and until `Opened`, it holds a path that
another thread's eviction may unlink.


## 3. What the runs check

| Run | Distinct states | What it shows |
|---|---:|---|
| `lease_one_job` | 86,254 | Exclusion, fencing, refinement of `LeaseExclusion`, and that a job is never locked out |
| `quota` | 57,846 | Minute and hour budgets, metering, harmless waste, every call ends |
| `manifest_serial` | 207,548 | One scope: rows kept, deactivation earned, convergence both ways |
| `manifest_overlap` | 2,884,772 | Overlapping scopes, all eight faults: every miss is a list read in vain or not read |
| `openaq_windows` | 802,466 | Three jobs on one stream: nothing in time is missed, nothing set back |
| `openaq_budget` | 232,984 | Streams competing for a budget all catch up |
| `stored_rows` | 211,533 | Two writers and a curator of one row; two devices through discoveries, faults, edits and hourly runs |
| `station_ingest` | 354,294 | Two overlapping runs with cancellation, death, expiry, rejection |
| `copilot` | 351,694 | Two chats and a briefing on one session around midnight |
| `process_local` | 1,304,071 | Spoken briefs around midnight; the file cache; payloads of three hours |
| `station_ingest_worker` | violation | finding 1 |
| `identity_conflict` | violation | finding 2 |

### Bounds, and why they are enough

- **lease**: one key (keys do not interact), four runs in two processes, TTL 1,
  fences to 3.  That is one run to hold, one to steal from it, one to insert
  anew after a release with a restarted fence, and one to be denied meanwhile; an
  expired holder can meet a row with its own fence number and another holder.
- **quota**: two callers in two instances, minute limit 1, hour limit 2 in three
  minutes: both limits bind, and a minute slot can be wasted on an exhausted hour.
  `TxAge` 1 lets a commit land in the next minute or hour, `MaxWait` 2 lets a caller
  sleep twice and give up.
- **manifest**: two instances, so a stale disk can meet a newer bucket; one station
  and scope where convergence is the question, two overlapping scopes where
  interference is.  `InactiveAfter` 2 is the least at which a lost count shows; with all
  eight faults and two scopes it is 1, at which an invented miss shows but not one counted
  twice (the theorem has no such bound; with 2, TLC needs a quarter of an hour and
  finds nothing).
- **openaq_windows**: window 1, overlap 1, backfill 2, lookback 4, chunks of 2 over
  four hours: a backlog of several windows, two reconcile chunks, and a measured
  hour that is revised before, at and after the checkpoint passes it.
  **openaq_budget** has a budget that one retried request exhausts.
  Its streams have no measured hours, so the run is about the checkpoints; the values
  are the other run's.
- **stored_rows**, the row: a primary and a secondary field, one value (the properties only
  tell a value from none), two writers of which one brings a foreign flag, an initial row
  that may be curated, and a curator at any moment.  The stations: two
  devices, three names, two sites, three changes of the list, one fault, one edit, and
  any number of discoveries and hourly runs.  Three changes are what it takes for a
  device to appear, and another to appear and be renamed beside it, or for one to be
  renamed and moved, or to go and come back elsewhere; devices, names and sites are
  symmetric.
- **station_ingest**: an hourly and a dormant station, concurrency 1 so that one
  request waits while another is rejected, two task objects so that runs overlap
  and a lease expires under one of them.  More requests in flight beside a
  rejected one are the theorem's (`RejectionContained` has any concurrency).
- **copilot**: two chats from two addresses and a briefing on one session, limits of one
  and two, a cap one turn reaches, two models, a history of two turns, two days: the
  session expires under its holders, and a turn ends on the day after its reservation.  One
  request selects a city, one the whole country, one a station; a tool sets a city and a date.
- **process_local**: six visitors of whom five share a reading, two syntheses a day,
  two days.  Five are what it takes for a failed synthesis to leave two waiting while a
  newcomer synthesises, for the next in the queue to be refused and drop the newcomer's
  entry, and for the day to end and let another in.  The five are alike, so they arrive in
  a fixed order.  Four readers of three
  objects and a cache of two files.  Lists of two reports over three hours with two
  minutes each: an hour named twice, an overlap with the current hour, values that are
  cut off, both policies.

State spaces are finite because counters stop at named bounds.  `MaxFence`, `MaxTime`,
`MaxRev`, `MaxChanges`, `MaxFaults`, `MaxReports`, `LastDay` and `LastVoiceDay` restrict
behaviour (no more steals, hours, revisions, changes, faults, reports or days);
`InactiveAfter` and `Keep` merge states that behave alike.  The runs with liveness use no symmetry.

### Fairness, and what justifies it

- Leases: the clock ticks and the scheduler keeps starting runs (weak fairness);
  `Acquire` is strongly fair: the database does not answer every single attempt with
  an error.  Nothing is assumed of renewals and releases: crashes may be for ever.
- Quota: strong fairness of `Tick`, which only the model's bound on transaction age
  can hold up; asked callers are answered and sleepers wake (`asyncio.sleep`).
- Manifest, OpenAQ, station runs: the scheduler starts each job again and again and
  the event loop drives a run on (weak fairness of `Progress`), leases expire, and
  failures end at some time: `<>[]` no failure.  Without the last nothing can be
  promised; with it, the properties say the system recovers from whatever happened
  before.
- Copilot: weak fairness of each request's own service (the event loop runs a task that
  can run; a model run ends by its answer, its limits or a timeout).  Clients need not
  disconnect, nor sessions expire.
- `stored_rows` and `process_local` check safety only, and assume no fairness.

### Findings

1. *One unreadable manifest disables the worker* (`data_ingestion.py:305`,
   `station_ingest_worker`).  The error field is never cleared and the worker reuses
   its task object.
2. *An identity conflict is merged after all* (`data_ingestion.py:215`,
   `identity_conflict`).  `upsert_station` refuses a device whose computed id belongs to
   another station and reports it; the manifest row then has no id, the hourly job computes
   it again and stores the device's readings under that other station.  The run's trace:
   a device is renamed (its row keeps the id made of the old name), a second device
   appears at the site under the old name; both are listed, and both are stored under
   one id.  `db_schema/station_metadata.md:89` says a conflict is never merged, and
   the repository's test of it ends at `upsert_station`.

Other disagreements with the repository's words, which the models show but no run repeats
(each is noted at its hazard, or at the property that excepts it):

- Discoveries of overlapping scopes hold different leases; each joins and uploads without
  a generation precondition (`manifests.py:138`), and the later upload drops rows the
  earlier one added, against `manifests.py:325`.  `RowsNeverDeleted` and
  `DeactivationIsEarned` are stated for one scope.
- A city whose list raised ages its stations, since the state counts as fetched
  (`station_discovery.py:262`, `405`), against `manifests.py:322` (`OwnFailuresDoNotAge`
  states it and fails).  `NoInventedMisses` counts these apart from lists read in vain.
- A verdict a curator commits between a batch's select and its upsert is overwritten by the
  state merged from the select (`reconcile.py:308-318`), against `validation.py:16` ("curated
  states are never downgraded by raw ingest"); such a batch may also bring back a verdict that
  another has replaced.  `CuratedStays` allows it to those writers (`behind`) and to no other.
- `_apply_context` copies only what the new selection has (`copilot.py:105-124`).  After a
  turn about a city or the country (or none) the station, and after one about the country the
  city, of an ended turn stay in the session and `agent.py:472-479` states them, although the
  context is sent "so the answer describes the same selection" (`copilot.py:71`).  A station
  sent without a name keeps the earlier station's name beside the new id.  A turn that uses no
  date leaves `last_turn_date`, and the next prompt calls it "the previous turn's"
  (`agent.py:467`).  `TurnContextIsItsOwn` is about the date and the fields a turn's selection
  speaks of, and makes no claim about the others.
- The INVALID an adapter gives a row of an unexpected unit is replaced by `merge_qc`'s
  state (`reconcile.py:316`; `UnexpectedUnitsAreInvalid` fails).
- Weather that a past report puts into the hour of the current weather (under the station
  policy the entry of that very hour, under the city policy off the anchor's hour) goes
  under the current report's timestamp and shift, which `setdefault` keeps
  (`temporal.py:232-235`), although `temporal.py:10` records them so that the shift can be
  "reversed without a refetch"; `ProvenanceExplains` excepts it.  And a current value
  that validation will quarantine still blocks the good one of the overlap entry.
- After a failed synthesis two of one reading run at once, and a visitor that is refused
  after it waited drops the entry of whatever lock the reading has then, so that on the next
  day a third may join (`voice_brief.py` cleans up by key).  The property bounds them by the
  failures and those refusals; that failures alone do not bound them came out of the proof.
- A device renamed back to a name of its own gets an identity conflict for good: its row
  keeps the later name, goes inactive, and is not reactivated, against the section on
  liveness in `db_schema/station_metadata.md`.  A device whose upsert failed once after it moved is
  stored under a computed id until the next discovery, which splits its history.  A new
  device listed for the first time together with a rename at its site can take over the
  neighbour's row.  `OneIdPerDevice` excuses these devices.
- A curator's edit between the SELECT and the write of an upsert is lost (`db.py:272`);
  `CuratedKeysSurvive` excepts it.
- No task renews its lease (TTL 3300 s, Cloud Run timeout 3600 s), so a long run goes on
  beside its successor (`Expire` in `StationIngest` models it); a cancelled run is
  recorded as success with nothing written (`RecordTellsWhatHappened` excepts it).
- As many never-completed, always-failing OpenAQ streams as the budget serves would
  starve the rest; the daily reconcile is ordered by `completed_through`, which it does
  not advance; a location found to be our own keeps its active streams.
- The revision log of a value that another run replaced in between names the selected
  value as the old one.  Parquet and JSONL copies of the manifest may be of different
  runs (`manifests.py:340`).

`NoStepBack` has one exception: in the boundary hour both windows share, a slow
reconcile can put back what an ingest replaced; the next reconcile reads it again.  And it
is about one stream: where two sensors of a location measure the same thing, they write the
same column in turn (section 5).


## 4. What is proved

TLAPS checks the following for every value of the constants, under the one ASSUME of each
module, `ConstantsAssumption` or the like (the types of constants, positive limits, finite
sets where sizes count).  All are about specifications without fairness.

**IngestLeaseProofs.**  `TypeCorrect`, `EntitlementIsBacked`, `MutualExclusion`,
`LiveLeaseEndsByItsHolder`, `ExclusionImplemented`.  Exclusion alone is not inductive:
a run that believes in a lease which the table gave to another could coexist with it.
`IInv == TypeOK /\ EntitledOwnsRow` says an entitled run is the one its row names, with
its fence and at least as much time left as it believes; exclusion follows since a row
names one run.  The refinement maps `entitled[k]` to the entitled runs: an acquire is a
`Grant`, any other step a `Lapse` or a stutter.

**ProviderQuotaProofs.**  `TypeCorrect`, `BudgetsHold`, `RequiredMetered`, `RowsCount`,
`WasteHarmless`.
The budgets bound the ghosts, while the SQL tests the rows, so `IInv` adds
`RowsCountSpending`: a row that a transaction can still touch counts at least what was
spent.  This is what the GC must respect, and `RowsCount` states it on its own.
`TxOrdered` keeps transactions within reach of the rows, `DegradedIsPublic` ties
degradation to instances that are not required.  `WasteHarmless` is the converse: a
denied caller met a window that really was used up.  Its `WasteInv` says that the hour's
row counts no more than was spent (`HourRowsCount`), that a minute's row which counts more
than was spent lies in an hour that is used up (`WasteIsByHour`), and that a
transaction's minute lies in its hour (`TxInHour`), which is arithmetic on ages.

**StationManifestProofs.**  `TypeCorrect`; `MissesAreReal` with no assumption on
overlap or failures; `SyncedCopyComplete` when joins do not fail (`NoFallback`);
`RowsKept` and `DeactivationEarned` when in addition runs have one scope and the bucket
answers (`OneScope`, `BucketAnswers`; the last theorem does not need `NoFallback`).
These assumptions are the frontier: the lost update of section 3 is what happens
without `OneScope`.  The
invariants relate bucket, disks and the unions under way to the ghosts.  `ListsTold` is what
ties the ghosts, which follow the lists, to the ageing, which follows the states: of a
station whose state a run has, the run was told, or its city is still to be read.

**OpenAQStreamsProofs.**  `TypeCorrect`, `NothingMissed`, `NeverStepsBack`.  The first property speaks of
checkpoint and rows, but a run commits what it fetched earlier.  The invariant adds:
`RunsFit` (the stream at a run's head still has the checkpoint it was listed with, and
the run's window is the one that follows from it), `GotFits` (what it holds lies
in its window, and of the hours that were settled when the run began it misses nothing
published in time), `InTimeIsPublished`, and
`CheckpointIsPast`.  The point of the proof is that a window begins `Overlap` before the
checkpoint, so a value published in time is either in the answer or still ahead of the
next window's start.  For `NeverStepsBack` it adds that the rows of a queue are never ahead
of their checkpoints (`RowsAreOld`), that nothing is stored or fetched which was not
published, and that what a run has in hand is as new as what is stored but in the
one hour where the windows of ingest and reconcile meet (`GotIsNewer`, `WindowsMeet`).

**StoredRowsProofs**, the row of an hour.  `RowTypeCorrect`, `ValuesKept`, `CuratedKept`,
`FlagsExplained`, `ReplayIdle`, `WriteHeals`, for any number of writers, fields and
values.  Writers decide from what they selected, so `RowInv` says of every selected
quality that it was explained by its flags, and that a writer which is not `behind` has
seen a curated row as curated, so that `merge_qc` leaves the state alone; curators need no
select.

**StoredRowsProofs**, the stations.  `IdentityTypeCorrect`, `CuratedSurvive`, `HistoryNotSplit`,
`OwnStationOnly`, for any devices, names, sites, edits, changes and faults.  For edits,
`EditsStay` follows an edit through the three places a discovery may hold it: the committed
row, the row its batch writes over it, and what an upsert has read.  For ids, `OneIdInv` is
about the devices discovery can follow: their names are theirs alone (`NamesOwn`); a station
belongs to a device twice, by its name and by the name its id was made from, and the two
agree (`TablesFit`); each has one station (`OneStation`), under the name it was last seen by
(`SeenFits`).  What needs the proof is the time between reading the list and the upsert.
An entry without a station of its name can take only a station that vanished at its site, and
those that vanished are its device's own (`VanishFits`); while a run upserts, other
entries' writes make them only fewer, and a look remains true until its write (`LookFits`).
Manifest rows, with an id or without, and the readings follow (`RowsFit`, `ReadingsFit`).
`OwnStationOnly` marks off finding 2: such a device's readings never go to a station that
another device holds, even when its manifest row was left without an id (a state the
instance reaches: a device renamed, and renamed back while its second name was being written).

**StationIngestProofs.**  `TypeCorrect`, `RecordTrue`, `FetchedKept`,
`RejectionContained`, `UnreadableOwn`, `LeaseUsedAsPromised`, for any tasks, stations and
concurrency; `UnreadableOwn` for task objects that are not reused.  `IInv` is one predicate per task: a run is
undecided until it is classified (`Undecided`), nothing was asked by a skipped run
(`SkippedForDenied`), a decided status tells of the answers (`Decided`), the record is
that status (`Told`), credentials rejected plus requests under way stay within the
semaphore (`Contained`), and an error field is the run's own (`Own`).  `LeaseUsedAsPromised` is the other side of
`ExclusionImplemented`: what the runs do to their lease is what `LeaseExclusion` allows, so
the two modules meet in it.

**CopilotChatProofs.**  `TypeCorrect`, `AdmissionsCounted`, `SpendBounded`,
`TurnContextOwn`, `HistoryKept`, `NoLockIsOrphaned`, for any requests, addresses, sessions
and limits.
Four strengthenings, one per property.  `Locking`: a turn is inside the lock exactly
while the lock names it; with it `BaseIsCurrent`: the history such a turn was started
with is still the session's, so replacing it appends.  `Acquainted` and `OwnContext`: two
requests that stand on one session object know each other, and what a session shows was left
by someone its reader knows.  `Counted`: the rows of a day are the numbers of requests
counted on it, and stay within their limits.  `ServiceBound` and `Clock`: at most `InFlight`
requests are served, and what has been spent stays below the cap plus what they may
still cost; a turn that ends spends what was set aside for it.  `NoLockIsOrphaned`, from
`Locking`, is what of `EveryRequestEnds` is safety: a request waits only for one at work.

**ProcessLocalProofs**, the rows of a payload.  `IqairTypeCorrect`, `NothingLost`,
`CurrentNotReplaced`, `ProvenanceTrue`, for any fields, hours and lists of any length (the
proofs do not use `MaxReports`' value).  Everything rests on `Sound`, an invariant of one
bucket: each value was told, lands in its bucket's hour and is explained by the provenance
of its part, to the minute; the provenance of a part is the current report's or that of a
past one which lands there.  Merging and filling keep it; `Kept` adds that every report left a value where
it lands, `Rows` what validation makes of that.

**ProcessLocalProofs**, the spoken brief.  `VoiceTypeCorrect`, `PaidIsLimited`,
`SynthesesShared`, `SomebodyComes`, for any visitors, readings, days and allowance.  A
count of syntheses cannot be kept step by step, since those waiting matter too: `Live` are
the locks of a reading that are taken or waited for by somebody no recording will serve,
and all but the entry are `Extra`.  `ExtraIsPaidFor` bounds the extra ones by failures and
displacing refusals; `Holding`, `Queueing` and `Entries` tie locks, queues and entries
together.  `Counted` ties the day's count to what was paid and refunded.  `SomebodyComes`
says no wake-up is lost with the entries: who waits, waits for a synthesis of its reading or
for a visitor that runs next.

**ProcessLocalProofs**, the blob cache.  `BlobTypeCorrect`, `DiskAccounted`, `ReadersOutlive`,
for any threads, objects and sizes.  `ReadersOutlive` counts objects, the cache keeps an
order: `Readers` says that whatever is fresher in the cache than the file a reader was
given was asked for since, so a file that is evicted as the oldest of too many has been
outlived by `MaxFiles` others.  `Cache` and `Leftovers` account for the files.

Type invariants are theorems and are not repeated in the runs' configurations.  The
inductive invariants hold on the runs' instances too: a module that EXTENDS the MC module and
the proof module can name them as INVARIANTS (TLC finds no error in any of them).

### Only model-checked

Liveness (`NeverLockedOut`, `EveryCallSettles`, `ListedIsLive`,
`DroppedIsSwitchedOff`, `ListedStreamsCatchUp`, `StationsAreReadAgain`,
`EveryRequestEnds`) is beyond the prover, which has no rule for fairness or ENABLED.
Every safety invariant and every action property of the passing runs is stated by a theorem
(some under the assumptions named above).  The two properties of the violation runs are false.
Induction over data is also out of the prover's reach; the modules use no RECURSIVE operators.


## 5. Abstractions to keep in mind

- A row, a station or an hour stands for each of its kind; batches are one write, as
  they are one transaction.  Locks between batches (and the deadlocks the database
  resolves by aborting one of them) are `Rollback`.
- There is one clock: PostgreSQL's now() for leases and windows, the job's own for the
  OpenAQ windows; skew between instances is not modelled.
- Parquet and JSONL manifests, the derived city manifest, the polling cadence of
  dormant stations, the revision log and the local run report are left out.
- The pages of an OpenAQ window are one read.  Each stream has a stored value of its own;
  in the code several sensors of one parameter at a location share a station id and so a
  column of one row (`openaq/discovery.py:198-203`, `normalize.py:52-55`), where the last
  writer wins.  What the properties say of a stream's values holds where it is the only one.
- The city fallback and state aliases of the station run are inside one answer.
- Sync is one step against a bucket whose reads and uploads are atomic.
- Copilot: the prompt, the tools' results and streaming are left out, and so are the hints
  for follow-up questions that only tools write (`last_entities`, `comparison_date`,
  `last_coverage_query`); model, pollutant, time zone and layers are one field, `view`; `MAX_HISTORY` counts
  turns, not messages; a session lives on one instance; what a run costs is any number up to
  `MaxCost`; `InFlight` stands for the instances' concurrency.
- Spoken brief: cancelled visitors are left out; the cache's size and age are one step that
  forgets a recording.
- Blob cache: a download's size and time are left out; something else may empty `/tmp`.
- IQAir rows: a missing report and one that cannot be parsed are one; notes, units and the
  archived payload are left out, and so is `overlap_mode` "skip", which no policy uses.
- Station identity: provider tags of one family are one, more than five stations at a site
  are left out, the city is one city, and discoveries follow one another (the lease).  The
  hourly job stores all its stations in one step: storing fewer makes no property fail that
  storing all keeps.


## 6. Not modelled, and what is left

- **City ingestion** has the shape of the station run with a city per request and a
  commit per city.  Its rows are `IqairRows` under the city policy, its write is
  `ReadingsReconcile`, its lease and quota are those modules'; the commit per city, and
  the same reused task object, are what a module of its own would add.
- **Provider clients, EPA, BAM and ICIMOD collection, raw archive** are requests, parsing
  and one upsert; what their callers tell apart is in the models.
- **Public API, exports, reports, analytics, fire and satellite services, AQI tables** are
  more than half of the source: queries, aggregation, numerical and geospatial work, and
  formatting, without state between requests.  Their correctness is about values, which
  their tests compare and TLC would only recompute.
- **Copilot tools and bot** depend on what an external model says.  **Front ends, scripts,
  infrastructure** are presentation and one-off work.
- Of the modelled components: withdrawals and the revision log of the write path, dormant
  stations' polling, aliases of stations, `LocalQuota` and pacing, state aliases and the city
  fallback of the station run.
- Proofs: what is left is liveness, of which only the safety behind it (no orphaned lock, no
  lost wake-up) can be proved here.  An abstract specification that the quota or the OpenAQ
  streams implement, as the leases do, is the next thing worth stating.
