--------------------------- MODULE StationManifest ---------------------------
(***************************************************************************)
(* Station discovery and the union manifest it maintains                   *)
(* (apps/api/app/ingestion/manifests.py, tasks/station_discovery.py).      *)
(*                                                                         *)
(* A run reads the provider's lists, one call at a time, and switches on   *)
(* the stations it finds.  It then joins them to the previous manifest:    *)
(* stations not listed age by a miss, and after InactiveAfter misses they  *)
(* are switched off.  The manifest is one bucket object; every instance    *)
(* keeps a copy on its own disk and, beside it, the generation of the      *)
(* object that copy was last equal to.  Joining, writing and uploading     *)
(* never await, so only another instance can come in between.              *)
(*                                                                         *)
(* A manifest is a function from stations to miss counts.  Counts past     *)
(* InactiveAfter behave alike and are not told apart.                      *)
(***************************************************************************)
EXTENDS Integers, FiniteSets

CONSTANTS
    Instance,       \* processes; each runs one discovery at a time
    Station, City, State,
    CityOf,         \* the city of a station
    StateOf,        \* the state of a city
    Scope,          \* the scopes of a run (its lease key): sets of states
    InactiveAfter,  \* MANIFEST_INACTIVE_AFTER_MISSES
    Faults          \* the failures that may happen

FaultKind == {"list", "sync", "upload", "union", "upsert", "mirror", "crash", "disk"}

ASSUME ConstantsAssumption ==
    /\ CityOf \in [Station -> City]
    /\ StateOf \in [City -> State]
    /\ Scope \subseteq SUBSET State
    /\ {} \notin Scope
    /\ InactiveAfter \in Nat \ {0}
    /\ Faults \subseteq FaultKind

VARIABLES
    listed,     \* the stations the provider lists
    bucket,     \* latest manifest in the bucket
    copy,       \* latest manifest on the disk of an instance
    onDisk,     \* whether the instance has that file
    synced,     \* its sidecar holds the generation of the bucket's object
    active,     \* stations.active; absent stations have no row
    pc,
    scope,      \* states the run covers; {} when there is no run
    todo,       \* states not read yet
    queue,      \* cities of the current state not read yet
    fetched,    \* states_fetched
    skipped,    \* cities_skipped
    seen,       \* stations recorded in manifest_rows
    vain,       \* ghost: stations that were not in the list of their city, as read
    union,      \* final_union_rows
    unseen,     \* ghost: runs that missed a station since it was last published
                \* as seen, up to InactiveAfter
    sought,     \* ghost: runs that ever read the list of a station's city without
                \* finding it there, up to InactiveAfter
    unread      \* ghost: runs that ever failed to read that list, up to InactiveAfter

ghosts == <<unseen, sought, unread>>
run == <<scope, todo, queue, fetched, skipped, seen, vain>>
files == <<bucket, copy, onDisk, synced>>
vars == <<listed, files, active, pc, run, union, ghosts>>

NoRow == -1
Manifest == [Station -> NoRow .. InactiveAfter]
NoManifest == [s \in Station |-> NoRow]
Rows(m) == {s \in Station : m[s] # NoRow}
Inactive(m) == {s \in Station : m[s] = InactiveAfter}
CitiesOf(st) == {c \in City : StateOf[c] = st}
StationsOf(c) == {s \in Station : CityOf[s] = c}
StateOfStation(s) == StateOf[CityOf[s]]

TypeOK ==
    /\ listed \subseteq Station
    /\ bucket \in Manifest
    /\ copy \in [Instance -> Manifest]
    /\ onDisk \in [Instance -> BOOLEAN]
    /\ synced \in [Instance -> BOOLEAN]
    /\ active \in [Station -> {"absent", "on", "off"}]
    /\ pc \in [Instance -> {"idle", "listing", "uploading", "mirroring"}]
    /\ scope \in [Instance -> Scope \cup {{}}]
    /\ todo \in [Instance -> SUBSET State]
    /\ queue \in [Instance -> SUBSET City]
    /\ fetched \in [Instance -> SUBSET State]
    /\ skipped \in [Instance -> SUBSET City]
    /\ seen \in [Instance -> SUBSET Station]
    /\ vain \in [Instance -> SUBSET Station]
    /\ union \in [Instance -> Manifest]
    /\ unseen \in [Station -> 0 .. InactiveAfter]
    /\ sought \in [Station -> 0 .. InactiveAfter]
    /\ unread \in [Station -> 0 .. InactiveAfter]

\* The bucket was seeded with some manifest; stations.active follows it.
Init ==
    /\ listed \in SUBSET Station
    /\ bucket \in [Station -> {NoRow, 0}]
    /\ copy = [i \in Instance |-> NoManifest]
    /\ onDisk = [i \in Instance |-> FALSE]
    /\ synced = [i \in Instance |-> FALSE]
    /\ active = [s \in Station |-> IF bucket[s] = 0 THEN "on" ELSE "absent"]
    /\ pc = [i \in Instance |-> "idle"]
    /\ scope = [i \in Instance |-> {}]
    /\ todo = [i \in Instance |-> {}]
    /\ queue = [i \in Instance |-> {}]
    /\ fetched = [i \in Instance |-> {}]
    /\ skipped = [i \in Instance |-> {}]
    /\ seen = [i \in Instance |-> {}]
    /\ vain = [i \in Instance |-> {}]
    /\ union = [i \in Instance |-> NoManifest]
    /\ unseen = [s \in Station |-> 0]
    /\ sought = [s \in Station |-> 0]
    /\ unread = [s \in Station |-> 0]

-----------------------------------------------------------------------------
\* Reading the provider's lists.  Operators Name_Slip are seeded mistakes:
\* what a slip in Name would look like.  No action uses them.

\* The run takes its scope's lease; runs of other scopes may be under way.
Start_NoLease(i, sc) ==
    /\ pc[i] = "idle"
    /\ pc' = [pc EXCEPT ![i] = "listing"]
    /\ scope' = [scope EXCEPT ![i] = sc]
    /\ todo' = [todo EXCEPT ![i] = sc]
    /\ UNCHANGED <<listed, files, active, queue, fetched, skipped, seen, vain, union, ghosts>>
Start(i, sc) ==
    /\ pc[i] = "idle"
    /\ \A j \in Instance : scope[j] # sc
    /\ pc' = [pc EXCEPT ![i] = "listing"]
    /\ scope' = [scope EXCEPT ![i] = sc]
    /\ todo' = [todo EXCEPT ![i] = sc]
    /\ UNCHANGED <<listed, files, active, queue, fetched, skipped, seen, vain, union, ghosts>>

\* get_cities answers: the state counts as fetched, whatever its cities do.
ReadState(i, st) ==
    /\ pc[i] = "listing" /\ queue[i] = {} /\ st \in todo[i]
    /\ todo' = [todo EXCEPT ![i] = @ \ {st}]
    /\ fetched' = [fetched EXCEPT ![i] = @ \cup {st}]
    /\ queue' = [queue EXCEPT ![i] = CitiesOf(st)]
    /\ UNCHANGED <<listed, files, active, pc, scope, skipped, seen, vain, union, ghosts>>

\* Every alias of the state failed, or get_states of its country did.
SkipState(i, st) ==
    /\ "list" \in Faults
    /\ pc[i] = "listing" /\ queue[i] = {} /\ st \in todo[i]
    /\ todo' = [todo EXCEPT ![i] = @ \ {st}]
    /\ UNCHANGED <<listed, files, active, pc, scope, queue, fetched, skipped, seen, vain, union, ghosts>>

\* get_stations answers.  Every station listed is recorded; its upsert, which
\* switches it on, may fail on its own (savepoint).
ReadCity(i, c) ==
    LET found == listed \cap StationsOf(c)
    IN  /\ pc[i] = "listing" /\ c \in queue[i]
        /\ queue' = [queue EXCEPT ![i] = @ \ {c}]
        /\ seen' = [seen EXCEPT ![i] = @ \cup found]
        /\ vain' = [vain EXCEPT ![i] = @ \cup (StationsOf(c) \ listed)]
        /\ \E bad \in SUBSET found :
              /\ bad # {} => "upsert" \in Faults
              /\ active' = [s \in Station |-> IF s \in found \ bad THEN "on" ELSE active[s]]
        /\ UNCHANGED <<listed, files, pc, scope, todo, fetched, skipped, union, ghosts>>

\* get_stations or a batch of upserts raises: the city is skipped with the
\* stations recorded so far, its state remains fetched.
SkipCity(i, c) ==
    /\ "list" \in Faults
    /\ pc[i] = "listing" /\ c \in queue[i]
    /\ queue' = [queue EXCEPT ![i] = @ \ {c}]
    /\ skipped' = [skipped EXCEPT ![i] = @ \cup {c}]
    /\ \E got \in SUBSET (listed \cap StationsOf(c)) : \E kept \in SUBSET got :
          /\ seen' = [seen EXCEPT ![i] = @ \cup got]
          /\ active' = [s \in Station |-> IF s \in kept THEN "on" ELSE active[s]]
    /\ UNCHANGED <<listed, files, pc, scope, todo, fetched, vain, union, ghosts>>

-----------------------------------------------------------------------------
\* The union manifest.

\* sync_latest_from_gcs: an unchanged generation keeps the local copy, another
\* one is downloaded over it.
SyncedCopy_AlwaysLocal(i) == IF onDisk[i] THEN copy[i] ELSE bucket
SyncedCopy(i) == IF onDisk[i] /\ synced[i] THEN copy[i] ELSE bucket

\* One more miss, saturating.
Aged(n) == IF n < InactiveAfter THEN n + 1 ELSE n

\* A row not seen ages when its state was fetched.
Missed_OnlyInSeenCities(i, prev) ==
    {s \in Rows(prev) \ seen[i] : \E x \in seen[i] : CityOf[x] = CityOf[s]}
Missed(i, prev) == {s \in Rows(prev) \ seen[i] : StateOfStation(s) \in fetched[i]}
UnionOf_SeenNotReset(i, prev) ==
    [s \in Station |-> IF s \in seen[i] THEN (IF prev[s] = NoRow THEN 0 ELSE prev[s])
                       ELSE IF s \in Missed(i, prev) THEN Aged(prev[s])
                       ELSE prev[s]]
UnionOf_DropsInactive(i, prev) ==
    [s \in Station |-> IF s \in seen[i] THEN 0
                       ELSE IF prev[s] = InactiveAfter THEN NoRow
                       ELSE IF s \in Missed(i, prev) THEN Aged(prev[s])
                       ELSE prev[s]]
UnionOf_AgesUnfetched(i, prev) ==
    [s \in Station |-> IF s \in seen[i] THEN 0
                       ELSE IF prev[s] # NoRow THEN Aged(prev[s])
                       ELSE prev[s]]
UnionOf(i, prev) ==
    [s \in Station |-> IF s \in seen[i] THEN 0
                       ELSE IF s \in Missed(i, prev) THEN Aged(prev[s])
                       ELSE prev[s]]

\* What the lists said of a station, told apart as they were read: its city's
\* list came without it, or could not be read at all.
Unread(i) == {s \in Station \ seen[i] : CityOf[s] \in skipped[i]}
Counted(gone, rows, n) ==
    [s \in Station |-> IF s \in gone \cap Rows(rows) THEN Aged(n[s]) ELSE n[s]]

\* The rows are written to the local latest and are ready to be uploaded.
Written(i, rows) ==
    /\ union' = [union EXCEPT ![i] = rows]
    /\ copy' = [copy EXCEPT ![i] = rows]
    /\ onDisk' = [onDisk EXCEPT ![i] = TRUE]
    /\ unseen' = Counted(vain[i] \cup Unread(i), rows, unseen)
    /\ sought' = Counted(vain[i], rows, sought)
    /\ unread' = Counted(Unread(i), rows, unread)
    /\ pc' = [pc EXCEPT ![i] = "uploading"]

AllRead(i) == pc[i] = "listing" /\ todo[i] = {} /\ queue[i] = {}

\* finalize_union_manifest with the bucket answering.
Finalize(i) ==
    /\ AllRead(i)
    /\ Written(i, UnionOf(i, SyncedCopy(i)))
    /\ synced' = [synced EXCEPT ![i] = TRUE]
    /\ UNCHANGED <<listed, bucket, active, run>>

\* The bucket does not answer: the copy on disk is taken, however old it is.
FinalizeFromDisk(i) ==
    /\ "sync" \in Faults
    /\ AllRead(i) /\ onDisk[i]
    /\ Written(i, UnionOf(i, copy[i]))
    /\ UNCHANGED <<listed, bucket, synced, active, run>>

\* The join itself fails after a sync: only this run's rows are written.
FinalizeByFallback(i) ==
    /\ "union" \in Faults
    /\ AllRead(i)
    /\ Written(i, UnionOf(i, NoManifest))
    /\ \/ synced' = [synced EXCEPT ![i] = TRUE]
       \/ "sync" \in Faults /\ onDisk[i] /\ UNCHANGED synced
    /\ UNCHANGED <<listed, bucket, active, run>>

\* The run is over; its variables go out of scope.
Ended(i) ==
    /\ pc' = [pc EXCEPT ![i] = "idle"]
    /\ scope' = [scope EXCEPT ![i] = {}]
    /\ todo' = [todo EXCEPT ![i] = {}]
    /\ queue' = [queue EXCEPT ![i] = {}]
    /\ fetched' = [fetched EXCEPT ![i] = {}]
    /\ skipped' = [skipped EXCEPT ![i] = {}]
    /\ seen' = [seen EXCEPT ![i] = {}]
    /\ vain' = [vain EXCEPT ![i] = {}]
    /\ union' = [union EXCEPT ![i] = NoManifest]

\* ManifestUnavailable: neither bucket nor disk has a manifest to join.
RefuseToReplace(i) ==
    /\ "sync" \in Faults
    /\ AllRead(i) /\ ~onDisk[i]
    /\ Ended(i)
    /\ UNCHANGED <<listed, files, active, ghosts>>

\* upload_manifest_to_gcs: the object is replaced unconditionally, and the
\* sidecar of every other instance is then out of date.
Published(i) ==
    /\ bucket' = copy[i]
    /\ unseen' = [s \in Station |-> IF s \in seen[i] THEN 0 ELSE unseen[s]]
    /\ UNCHANGED <<sought, unread>>
Upload(i) ==
    /\ pc[i] = "uploading"
    /\ Published(i)
    /\ synced' = [j \in Instance |-> j = i]
    /\ pc' = [pc EXCEPT ![i] = "mirroring"]
    /\ UNCHANGED <<listed, copy, onDisk, active, run, union>>

\* It raises, having replaced the object or not; the sidecar stays as it was.
UploadFails(i) ==
    /\ "upload" \in Faults
    /\ pc[i] = "uploading"
    /\ pc' = [pc EXCEPT ![i] = "mirroring"]
    /\ \/ UNCHANGED <<bucket, synced, ghosts>>
       \/ Published(i) /\ synced' = [j \in Instance |-> FALSE]
    /\ UNCHANGED <<listed, copy, onDisk, active, run, union>>

\* _mirror_liveness_to_db: inactive rows are switched off, none is switched on.
SwitchedOff(i) == {s \in Inactive(union[i]) : active[s] = "on"}
Mirror(i) ==
    /\ pc[i] = "mirroring"
    /\ active' = [s \in Station |-> IF s \in SwitchedOff(i) THEN "off" ELSE active[s]]
    /\ Ended(i)
    /\ UNCHANGED <<listed, files, ghosts>>

\* deactivation_error: the run ends partial, the next one tries again.
MirrorFails(i) ==
    /\ "mirror" \in Faults
    /\ pc[i] = "mirroring"
    /\ Ended(i)
    /\ UNCHANGED <<listed, files, active, ghosts>>

-----------------------------------------------------------------------------
\* An ingestion run of the same instance brings its copy up to date.
PollSync(i) ==
    /\ pc[i] # "uploading"
    /\ copy' = [copy EXCEPT ![i] = SyncedCopy(i)]
    /\ onDisk' = [onDisk EXCEPT ![i] = TRUE]
    /\ synced' = [synced EXCEPT ![i] = TRUE]
    /\ UNCHANGED <<listed, bucket, active, pc, run, union, ghosts>>

\* The process dies; its lease expires before another run of the scope starts.
Crash(i) ==
    /\ "crash" \in Faults
    /\ pc[i] # "idle"
    /\ Ended(i)
    /\ UNCHANGED <<listed, files, active, ghosts>>

\* The instance is replaced by one with an empty disk.
Replaced(i) ==
    /\ "disk" \in Faults
    /\ onDisk[i]
    /\ Ended(i)
    /\ copy' = [copy EXCEPT ![i] = NoManifest]
    /\ onDisk' = [onDisk EXCEPT ![i] = FALSE]
    /\ synced' = [synced EXCEPT ![i] = FALSE]
    /\ UNCHANGED <<listed, bucket, active, ghosts>>

\* The provider adds a station or drops one.
Relist(s) ==
    /\ listed' = IF s \in listed THEN listed \ {s} ELSE listed \cup {s}
    /\ UNCHANGED <<files, active, pc, run, union, ghosts>>

ReadLists(i) ==
    \/ \E st \in State : ReadState(i, st) \/ SkipState(i, st)
    \/ \E c \in City : ReadCity(i, c) \/ SkipCity(i, c)
FinalizeStep(i) == Finalize(i) \/ FinalizeFromDisk(i) \/ FinalizeByFallback(i) \/ RefuseToReplace(i)
UploadStep(i) == Upload(i) \/ UploadFails(i)
MirrorStep(i) == Mirror(i) \/ MirrorFails(i)
InstanceStep(i) ==
    \/ \E sc \in Scope : Start(i, sc)
    \/ ReadLists(i) \/ FinalizeStep(i) \/ UploadStep(i) \/ MirrorStep(i)
    \/ PollSync(i) \/ Crash(i) \/ Replaced(i)

Next ==
    \/ \E i \in Instance : InstanceStep(i)
    \/ \E s \in Station : Relist(s)

Spec == Init /\ [][Next]_vars

\* One step of a run, or the start of the next, without a failure.
Progress(i) ==
    \/ \E sc \in Scope : Start(i, sc)
    \/ \E st \in State : ReadState(i, st)
    \/ \E c \in City : ReadCity(i, c)
    \/ Finalize(i) \/ Upload(i) \/ Mirror(i)

Failure(i) ==
    \/ \E st \in State : SkipState(i, st)
    \/ \E c \in City : SkipCity(i, c)
    \/ FinalizeFromDisk(i) \/ FinalizeByFallback(i) \/ RefuseToReplace(i)
    \/ UploadFails(i) \/ MirrorFails(i) \/ Crash(i) \/ Replaced(i)

\* The scheduler keeps starting runs and drives them on; some day no step is a
\* failure that changes anything (a crash after a mirroring that had nothing
\* left to do is that mirroring).
Fairness ==
    /\ \A i \in Instance : WF_vars(Progress(i))
    /\ <>[][\A i \in Instance : Failure(i) => Progress(i)]_vars
FairSpec == Spec /\ Fairness

-----------------------------------------------------------------------------
\* A copy whose sidecar names the bucket's generation has every row of the
\* bucket: skipping the download loses nothing (manifests.py:78).
SyncedCopyIsComplete ==
    \A i \in Instance : synced[i] => onDisk[i] /\ Rows(bucket) \subseteq Rows(copy[i])

\* "Rows are never deleted" (manifests.py:325): whatever a run read, skipped or
\* failed to do, the object it leaves has every row the object had.
RowsNeverDeleted == [][Rows(bucket) \subseteq Rows(bucket')]_vars

\* A station is switched off only when InactiveAfter runs have missed it since
\* a published manifest last showed it as seen (manifests.py:323).
DeactivationIsEarned ==
    [][\A s \in Station : active[s] = "on" /\ active'[s] = "off" => unseen[s] = InactiveAfter]_vars

\* No failure and no overlap of runs makes misses up (manifests.py:317): every
\* miss recorded anywhere is another run that read the list of the station's city
\* without finding it, or had the cities of its state and failed to read that list.
\* A run that could not read the state's cities ages nobody.  That a failure on
\* the city itself ages is against manifests.py:322 and counted apart (unread).
NoInventedMisses ==
    \A s \in Station : LET runs == sought[s] + unread[s] IN
        /\ bucket[s] <= runs
        /\ \A i \in Instance : copy[i][s] <= runs /\ union[i][s] <= runs

\* "our own failure must not age anybody" (manifests.py:322): a run ages no
\* station of a city whose list it could not read.  SkipCity does, since its
\* state was fetched; no run checks this.
OwnFailuresDoNotAge ==
    [][\A i \in Instance, s \in Station :
          CityOf[s] \in skipped[i] /\ pc[i] = "listing" /\ pc'[i] = "uploading"
              => union'[i][s] <= SyncedCopy(i)[s]]_vars

\* Once failures end, a station the provider keeps listing is in the manifest
\* as live and switched on, again and again, even if it had been inactive.
ListedIsLive ==
    \A s \in Station : <>[](s \in listed) => []<>(bucket[s] = 0 /\ active[s] = "on")

\* Once failures end, a station the provider has dropped ends up switched off if
\* the manifest has its row ("every run converges", station_discovery.py:490).
\* One that a crashed run switched on before any manifest had it stays on.
DroppedIsSwitchedOff ==
    \A s \in Station :
        <>[](s \notin listed /\ bucket[s] # NoRow) => <>[](active[s] # "on")
=============================================================================
