--------------------------- MODULE StationIdentity ---------------------------
(***************************************************************************)
(* Which station a device's readings are stored under: upsert_station of   *)
(* apps/api/app/ingestion/db.py, its caller tasks/station_discovery.py and *)
(* the hourly job that reads the manifest (tasks/data_ingestion.py).       *)
(*                                                                         *)
(* A station's id is a hash of its name and coordinates when it was first  *)
(* seen; its native id is made from its name, and the two are one here.    *)
(* Devices of one city are renamed and moved, appear and disappear;        *)
(* discovery reads the list of the city, looks each entry up, keeps the    *)
(* legacy id if it finds one, and writes the manifest, which tells the     *)
(* hourly job where readings go.                                           *)
(*                                                                         *)
(* Provider tags (tags of one family are looked up alike), the history in  *)
(* the metadata, and more than five stations at one site are left out;     *)
(* liveness and the manifest's own faults are StationManifest's.           *)
(***************************************************************************)
EXTENDS Integers, FiniteSets

CONSTANTS
    Device,         \* physical devices
    Name, Site,     \* their names and coordinates
    Edit,           \* curators' edits of metadata
    MaxChanges,     \* bound on the changes of the provider's list
    MaxFaults,      \* bound on what goes wrong in discoveries
    None

Place == [name : Name, site : Site]

VARIABLES
    at,             \* at[d]: how the provider lists a device
    changes, faults,
    station,        \* the table: the station with an id, as committed
    batch,          \* rows the batch has written and not committed
    manifest,       \* manifest[n]: the row of a native id
    progress,       \* where the discovery stands
    entries,        \* stations of the city it has to upsert
    listed_names,
    found,          \* rows for the manifest
    look,           \* what upsert_station has read of the entry it is about
    readings,       \* readings[k]: devices with readings under an id
    seenAs,         \* ghost: how a device was listed when last upserted
    named,          \* ghost: names a device has had
    excused,        \* ghost: devices that did what discovery cannot follow
    edited,         \* ghost: the station an edit was made to
    raced           \* ghost: edits made between the look and the write

provider == <<at, changes, named>>
run == <<progress, entries, listed_names, found, look>>
curation == <<edited, raced>>
identityVars == <<provider, faults, run, curation, station, batch, manifest, readings, seenAs, excused>>

\* generate_station_id: the hash tells all names and coordinates apart.
Id == Place

Station == [name : Name, site : Site, curated : SUBSET Edit]
Pending == [row : Station, device : Device]
ManifestRow == [site : Site, id : Id \cup {None}]
Entry == [name : Name, site : Site, device : Device]
Look == [entry : Entry, id : Id \cup {None}, curated : SUBSET Edit]

ASSUME IdentityAssumption ==
    /\ IsFiniteSet(Device)
    /\ MaxChanges \in Nat /\ MaxFaults \in Nat
    /\ None \notin Place \cup Station \cup Pending \cup ManifestRow \cup Look

IdentityTypeOK ==
    /\ at \in [Device -> Place \cup {None}]
    /\ changes \in 0 .. MaxChanges
    /\ faults \in 0 .. MaxFaults
    /\ station \in [Id -> Station \cup {None}]
    /\ batch \in [Id -> Pending \cup {None}]
    /\ manifest \in [Name -> ManifestRow \cup {None}]
    /\ progress \in {"idle", "upserting"}
    /\ entries \subseteq Entry
    /\ listed_names \subseteq Name
    /\ found \in [Name -> ManifestRow \cup {None}]
    /\ look \in Look \cup {None}
    /\ readings \in [Id -> SUBSET Device]
    /\ seenAs \in [Device -> Place \cup {None}]
    /\ named \in [Device -> SUBSET Name]
    /\ excused \subseteq Device
    /\ edited \in [Edit -> Id \cup {None}]
    /\ raced \subseteq Edit

Nowhere == [n \in Name |-> None]
NoRows == [k \in Id |-> None]

IdentityInit ==
    /\ at = [d \in Device |-> None]
    /\ changes = 0
    /\ faults = 0
    /\ station = NoRows
    /\ batch = NoRows
    /\ manifest = Nowhere
    /\ progress = "idle"
    /\ entries = {}
    /\ listed_names = {}
    /\ found = Nowhere
    /\ look = None
    /\ readings = [k \in Id |-> {}]
    /\ seenAs = [d \in Device |-> None]
    /\ named = [d \in Device |-> {}]
    /\ excused = {}
    /\ edited = [c \in Edit |-> None]
    /\ raced = {}

(***************************************************************************)
(* The provider's list of the city.                                        *)
(***************************************************************************)

Listed == {d \in Device : at[d] # None}
Users(n) == {d \in Device : n \in named[d]}

Changes(d, p) ==
    /\ changes < MaxChanges
    /\ at' = [at EXCEPT ![d] = p]
    /\ changes' = changes + 1
    /\ UNCHANGED <<faults, run, curation, station, batch, manifest, readings, seenAs>>

\* A device takes a name nobody is listed with.  A name that was in use before,
\* by another device or by itself until discovery saw a later one, is more than
\* discovery can follow.
Fresh(d, n) ==
    \/ Users(n) = {}
    \/ /\ Users(n) = {d}
       /\ named[d] = {n} \/ (seenAs[d] # None /\ seenAs[d].name = n)
Takes(d, n) ==
    /\ \A e \in Listed : at[e].name # n
    /\ named' = [named EXCEPT ![d] = @ \cup {n}]
    /\ excused' = IF Fresh(d, n) THEN excused ELSE excused \cup Users(n) \cup {d}

Appear(d, p) ==
    /\ at[d] = None
    /\ Changes(d, p) /\ Takes(d, p.name)

Disappear(d) ==
    /\ at[d] # None
    /\ Changes(d, None)
    /\ UNCHANGED <<named, excused>>

Rename(d, n) ==
    /\ at[d] # None
    /\ Changes(d, [at[d] EXCEPT !.name = n]) /\ Takes(d, n)

Move(d, x) ==
    /\ at[d] # None /\ at[d].site # x
    /\ Changes(d, [at[d] EXCEPT !.site = x])
    /\ UNCHANGED <<named, excused>>

(***************************************************************************)
(* Discovery of the city.                                                  *)
(***************************************************************************)

\* What the session of the batch sees: its own rows over the committed ones.
Seen(k) == IF batch[k] # None THEN batch[k].row ELSE station[k]
Stations == {k \in Id : Seen(k) # None}
ByNative(n) == {k \in Stations : Seen(k).name = n}
VanishedAt(x, names) == {k \in Stations : Seen(k).site = x /\ Seen(k).name \notin names}

\* A device without a station of its name is followed when it stayed at its
\* site, the only newcomer there, and its old name is the only one to vanish.
\* Otherwise it may be taken for another, and the devices of the names that
\* vanished at its site may be taken for it.
Newcomers == {d \in Listed : ByNative(at[d].name) = {}}
Vanished(d) == VanishedAt(at[d].site, {at[e].name : e \in Listed})
Followed(d) ==
    /\ seenAs[d] # None
    /\ \A e \in Newcomers : at[e].site = at[d].site => e = d
    /\ \E k \in Vanished(d) : Vanished(d) = {k} /\ Seen(k).name = seenAs[d].name
Lost(d) == seenAs[d] # None \/ Vanished(d) # {}
Mistakable(d) == {e \in Device : seenAs[e] # None /\ ByNative(seenAs[e].name) \cap Vanished(d) # {}}
Confused ==
    UNION {{d} \cup Mistakable(d) : d \in {d \in Newcomers : Lost(d) /\ ~Followed(d)}}

ReadCity ==
    /\ progress = "idle"
    /\ progress' = "upserting"
    /\ entries' = {[name |-> at[d].name, site |-> at[d].site, device |-> d] : d \in Listed}
    /\ listed_names' = {at[d].name : d \in Listed}
    /\ excused' = excused \cup Confused
    /\ UNCHANGED <<provider, faults, curation, found, look, station, batch, manifest, readings, seenAs>>

-----------------------------------------------------------------------------
\* upsert_station: first the SELECTs.  Operators Name_Slip are seeded mistakes;
\* no action uses them.

ComputedId(e) == [name |-> e.name, site |-> e.site]

\* _rename_source: the one station of the site whose name is not listed.
RenameSource_SiteOnly(e) == {k \in Stations : Seen(k).site = e.site}
RenameSource(e) ==
    LET vanished == VanishedAt(e.site, listed_names)
    IN  IF Cardinality(vanished) = 1 THEN vanished ELSE {}

Looking(e, k) ==
    /\ progress = "upserting" /\ look = None /\ e \in entries
    /\ look' = [entry |-> e, id |-> k, curated |-> IF k \in Stations THEN Seen(k).curated ELSE {}]
    /\ UNCHANGED <<provider, faults, curation, progress, entries, listed_names, found, station, batch,
                   manifest, readings, seenAs, excused>>

\* 1, 2a, 3. The station with the native id keeps its id, wherever it is now.
LookNative(e) == \E k \in ByNative(e.name) : Looking(e, k)

\* 2b. The computed id belongs to another native id.
LookConflict(e) ==
    /\ ByNative(e.name) = {}
    /\ ComputedId(e) \in Stations
    /\ Looking(e, None)

\* 2c. A rename.
LookRenamed(e) ==
    /\ ByNative(e.name) = {} /\ ComputedId(e) \notin Stations
    /\ \E k \in RenameSource(e) : Looking(e, k)

\* 3. A new station.
LookNew(e) ==
    /\ ByNative(e.name) = {} /\ ComputedId(e) \notin Stations /\ RenameSource(e) = {}
    /\ Looking(e, ComputedId(e))

-----------------------------------------------------------------------------
\* Then the write, with the metadata merged in between.

MergedMeta_FromIncoming(l) == {}
MergedMeta(l) == l.curated

Fault ==
    /\ faults < MaxFaults
    /\ faults' = faults + 1

\* The row goes to the manifest with or without the id of its station.
Upserted(k) ==
    /\ look # None
    /\ found' = [found EXCEPT ![look.entry.name] = [site |-> look.entry.site, id |-> k]]
    /\ entries' = entries \ {look.entry}
    /\ look' = None
    /\ UNCHANGED <<provider, curation, progress, listed_names, station, manifest, readings, seenAs>>

Write ==
    /\ look # None /\ look.id # None
    /\ Upserted(look.id)
    /\ batch' = [batch EXCEPT ![look.id] =
                   [row |-> [name |-> look.entry.name, site |-> look.entry.site,
                             curated |-> MergedMeta(look)],
                    device |-> look.entry.device]]
    /\ UNCHANGED <<excused, faults>>

Conflict ==
    /\ look # None /\ look.id = None
    /\ Upserted(None)
    /\ UNCHANGED <<batch, excused, faults>>

\* The savepoint is rolled back.
UpsertFails ==
    /\ Fault
    /\ Upserted(None)
    /\ excused' = excused \cup {look.entry.device}
    /\ UNCHANGED batch

\* Devices of the batch.
Batched == {d \in Device : \E k \in Id : batch[k] # None /\ batch[k].device = d}

WrittenAs(d) ==
    LET k == CHOOSE k \in Id : batch[k] # None /\ batch[k].device = d
    IN  [name |-> batch[k].row.name, site |-> batch[k].row.site]

\* A batch may end anywhere in a long list.
Commit ==
    /\ progress = "upserting" /\ look = None
    /\ Batched # {}
    /\ station' = [k \in Id |-> Seen(k)]
    /\ batch' = NoRows
    /\ seenAs' = [d \in Device |->
                    IF d \in Batched THEN WrittenAs(d) ELSE seenAs[d]]
    /\ UNCHANGED <<provider, faults, run, curation, manifest, readings, excused>>

\* The city is given up; the rows its stations have in the manifest are not.
CommitFails ==
    /\ Fault
    /\ progress = "upserting" /\ look = None
    /\ Batched # {}
    /\ batch' = NoRows
    /\ entries' = {}
    /\ excused' = excused \cup Batched
    /\ UNCHANGED <<provider, curation, progress, listed_names, found, look, station, manifest,
                   readings, seenAs>>

\* finalize_union_manifest: the rows of this run replace those of earlier ones.
PublishManifest ==
    /\ progress = "upserting" /\ entries = {} /\ Batched = {} /\ look = None
    /\ progress' = "idle"
    /\ manifest' = [n \in Name |-> IF found[n] # None THEN found[n] ELSE manifest[n]]
    /\ listed_names' = {}
    /\ found' = Nowhere
    /\ UNCHANGED <<provider, faults, curation, entries, look, station, batch, readings, seenAs, excused>>

\* The instance dies; what it has committed stays.
RunCrashes ==
    /\ Fault
    /\ progress = "upserting"
    /\ progress' = "idle"
    /\ entries' = {}
    /\ listed_names' = {}
    /\ found' = Nowhere
    /\ look' = None
    /\ batch' = NoRows
    /\ UNCHANGED <<provider, curation, station, manifest, readings, seenAs, excused>>

(***************************************************************************)
(* The hourly job, and curators.                                           *)
(***************************************************************************)

\* _build_scope_key: the manifest's id, or else the one computed from its row.
ScopeKey(n) == IF manifest[n].id # None THEN manifest[n].id
               ELSE [name |-> n, site |-> manifest[n].site]

\* Every station of the manifest is asked for by its name.
Answering == {d \in Listed : manifest[at[d].name] # None}
HourlyRun ==
    /\ Answering # {}
    /\ readings' = [k \in Id |-> readings[k] \cup {d \in Answering : ScopeKey(at[d].name) = k}]
    /\ UNCHANGED <<provider, faults, run, curation, station, batch, manifest, seenAs, excused>>

\* SQL that adds a key to the metadata of one station; it waits for a batch that
\* has written the row.
Curate(c, k) ==
    /\ edited[c] = None
    /\ station[k] # None /\ batch[k] = None
    /\ station' = [station EXCEPT ![k].curated = @ \cup {c}]
    /\ edited' = [edited EXCEPT ![c] = k]
    /\ raced' = IF look # None /\ look.id = k THEN raced \cup {c} ELSE raced
    /\ UNCHANGED <<provider, faults, run, batch, manifest, readings, seenAs, excused>>

ProviderChanges(d) ==
    \/ \E p \in Place : Appear(d, p)
    \/ Disappear(d)
    \/ \E n \in Name : Rename(d, n)
    \/ \E x \in Site : Move(d, x)

UpsertStation ==
    \/ \E e \in Entry : LookNative(e) \/ LookConflict(e) \/ LookRenamed(e) \/ LookNew(e)
    \/ Write \/ Conflict \/ UpsertFails

IdentityNext ==
    \/ (\E d \in Device : ProviderChanges(d)) \/ HourlyRun
    \/ ReadCity \/ UpsertStation
    \/ Commit \/ CommitFails \/ PublishManifest \/ RunCrashes
    \/ \E c \in Edit, k \in Id : Curate(c, k)

IdentitySpec == IdentityInit /\ [][IdentityNext]_identityVars

-----------------------------------------------------------------------------
\* "Insert or update a station without ever splitting a device's history": a
\* device that stays, moves, is not listed for a while or is renamed where it
\* is, and whose upserts succeed, has its readings under one id, and no two
\* such devices share one.  (upsert_station, _build_scope_key)
Homes(d) == {k \in Id : d \in readings[k]}
OneIdPerDevice ==
    \A d \in Device \ excused :
       /\ Cardinality(Homes(d)) <= 1
       /\ \A e \in Device \ (excused \cup {d}) : Homes(d) \cap Homes(e) = {}

\* "Curated metadata keys survive": an edit that was not made while an upsert
\* had the row in hand is still there, whatever discovery did to the station
\* since.  (merge_discovery_metadata as upsert_station uses it)
CuratedKeysSurvive ==
    \A c \in Edit : edited[c] # None /\ c \notin raced => c \in station[edited[c]].curated

\* "A different native id owning the same computed id is still a conflict and is
\* never merged" (station_metadata.md): readings of a device whose manifest row
\* was left without an id do not go to the station of another device.
\* (_build_scope_key)
Unidentified(d) == at[d] # None /\ manifest[at[d].name] # None /\ manifest[at[d].name].id = None
Holders(k) == {e \in Device : station[k] # None /\ seenAs[e] # None /\ seenAs[e].name = station[k].name}
ConflictIsNeverMerged ==
    [][\A d \in Device, k \in Id :
          Unidentified(d) /\ d \in readings'[k] \ readings[k] => Holders(k) \subseteq {d}]_identityVars
=============================================================================
