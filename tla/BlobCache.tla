----------------------------- MODULE BlobCache -----------------------------
(***************************************************************************)
(* The bounded cache of objects downloaded from the bucket                 *)
(* (apps/api/app/core/filecache.py), as the raster endpoints use it from   *)
(* their worker threads: the map of cached files is under a lock, the      *)
(* download before it and the use of the path after it are not.            *)
(*                                                                         *)
(* Each block under the lock is one action.  A file is named by the        *)
(* request that downloaded it; /tmp gives every download its own name.     *)
(***************************************************************************)
EXTENDS Integers, FiniteSets, Sequences, SequencesExt

CONSTANTS
    Reader,         \* requests, each on a worker thread
    Key,            \* the objects they ask for
    KeyOf,          \* KeyOf[r]: the object r asks for
    MaxFiles,       \* max_files
    MaxAbsent,      \* max_absent
    NoFile

ASSUME BlobAssumption ==
    /\ IsFiniteSet(Reader)
    /\ KeyOf \in [Reader -> Key]
    /\ MaxFiles \in Nat \ {0}
    /\ MaxAbsent \in Nat \ {0}
    /\ NoFile \notin Reader

VARIABLES
    published,      \* the objects that are in the bucket
    files,          \* the keys of _files, least recently used first
    fileOf,         \* fileOf[k]: the path _files holds for k
    absent,         \* the keys of _absent, oldest first
    disk,           \* the files in /tmp
    stage,          \* where a request stands
    given,          \* the path it was given
    since,          \* ghost: other keys used since it was given that path
    orphans,        \* ghost: files of downloads that failed
    lost            \* ghost: files removed from /tmp by something else

cacheVars == <<published, files, fileOf, absent, disk, stage, given, since, orphans, lost>>

Stage == {"new", "looking", "fetching", "reading", "done"}

BlobTypeOK ==
    /\ published \subseteq Key
    /\ files \in Seq(Key)
    /\ fileOf \in [Key -> Reader \union {NoFile}]
    /\ absent \in Seq(Key)
    /\ disk \subseteq Reader
    /\ stage \in [Reader -> Stage]
    /\ given \in [Reader -> Reader \union {NoFile}]
    /\ since \in [Reader -> SUBSET Key]
    /\ orphans \subseteq Reader
    /\ lost \subseteq Reader

BlobInit ==
    /\ published \in SUBSET Key
    /\ files = <<>>
    /\ fileOf = [k \in Key |-> NoFile]
    /\ absent = <<>>
    /\ disk = {}
    /\ stage = [r \in Reader |-> "new"]
    /\ given = [r \in Reader |-> NoFile]
    /\ since = [r \in Reader |-> {}]
    /\ orphans = {}
    /\ lost = {}

Moves(r, s) == stage' = [stage EXCEPT ![r] = s]
Cached(k) == k \in ToSet(files)
Without(s, k) ==
    IF k \in ToSet(s) THEN RemoveAt(s, CHOOSE i \in 1 .. Len(s) : s[i] = k) ELSE s
MovedToEnd(s, k) == Append(Without(s, k), k)

\* r is given a path; whoever was given one before sees the key used.
Given(r, path) ==
    /\ given' = [given EXCEPT ![r] = path]
    /\ since' = [q \in Reader |->
                    IF q = r THEN {}
                    ELSE IF stage[q] = "reading" /\ KeyOf[q] # KeyOf[r]
                         THEN since[q] \union {KeyOf[r]} ELSE since[q]]
    /\ Moves(r, "reading")

-----------------------------------------------------------------------------
\* The first look, under the lock.  Operators Name_Slip are seeded mistakes; no
\* action uses them.

KnownMissing(r) ==
    /\ stage[r] = "new"
    /\ KeyOf[r] \in ToSet(absent)
    /\ Moves(r, "done")
    /\ UNCHANGED <<published, files, fileOf, absent, disk, given, since, orphans, lost>>

Hit_NotMoved(r) ==
    LET k == KeyOf[r] IN
    /\ stage[r] = "new"
    /\ k \notin ToSet(absent)
    /\ Cached(k) /\ fileOf[k] \in disk
    /\ Given(r, fileOf[k])
    /\ UNCHANGED <<published, files, fileOf, absent, disk, orphans, lost>>
Hit(r) ==
    LET k == KeyOf[r] IN
    /\ stage[r] = "new"
    /\ k \notin ToSet(absent)
    /\ Cached(k) /\ fileOf[k] \in disk
    /\ files' = MovedToEnd(files, k)
    /\ Given(r, fileOf[k])
    /\ UNCHANGED <<published, fileOf, absent, disk, orphans, lost>>

\* Not cached, or its file is gone and the entry with it.
Miss(r) ==
    LET k == KeyOf[r] IN
    /\ stage[r] = "new"
    /\ k \notin ToSet(absent)
    /\ ~ (Cached(k) /\ fileOf[k] \in disk)
    /\ files' = Without(files, k)
    /\ fileOf' = [fileOf EXCEPT ![k] = NoFile]
    /\ Moves(r, "looking")
    /\ UNCHANGED <<published, absent, disk, given, since, orphans, lost>>

-----------------------------------------------------------------------------
\* The download, outside the lock.

Found(r) ==
    /\ stage[r] = "looking"
    /\ KeyOf[r] \in published
    /\ disk' = disk \union {r}
    /\ Moves(r, "fetching")
    /\ UNCHANGED <<published, files, fileOf, absent, given, since, orphans, lost>>

\* Found missing: a key that is in _absent already keeps its place there.
Remembered(k) ==
    LET longer == IF k \in ToSet(absent) THEN absent ELSE Append(absent, k)
    IN  IF Len(longer) > MaxAbsent THEN Tail(longer) ELSE longer

NotFound(r) ==
    /\ stage[r] = "looking"
    /\ KeyOf[r] \notin published
    /\ absent' = Remembered(KeyOf[r])
    /\ Moves(r, "done")
    /\ UNCHANGED <<published, files, fileOf, disk, given, since, orphans, lost>>

\* Any other error of the bucket: what was written of the file stays.
Breaks(r) ==
    /\ stage[r] \in {"looking", "fetching"}
    /\ orphans' = IF stage[r] = "fetching" THEN orphans \union {r} ELSE orphans
    /\ Moves(r, "done")
    /\ UNCHANGED <<published, files, fileOf, absent, disk, given, since, lost>>

-----------------------------------------------------------------------------
\* The second block under the lock.

\* Another request cached the object in the meantime: its file is used, without
\* a look at the disk, and the own one is deleted.
Yield_KeepsFile(r) ==
    LET k == KeyOf[r] IN
    /\ stage[r] = "fetching"
    /\ Cached(k)
    /\ files' = MovedToEnd(files, k)
    /\ Given(r, fileOf[k])
    /\ UNCHANGED <<published, fileOf, absent, disk, orphans, lost>>
Yield(r) ==
    LET k == KeyOf[r] IN
    /\ stage[r] = "fetching"
    /\ Cached(k)
    /\ disk' = disk \ {r}
    /\ files' = MovedToEnd(files, k)
    /\ Given(r, fileOf[k])
    /\ UNCHANGED <<published, fileOf, absent, orphans, lost>>

\* The file is cached, and the least recently used one beyond MaxFiles deleted.
Store(r) ==
    LET k == KeyOf[r]
        longer == Append(files, k)
        full == Len(longer) > MaxFiles
        old == Head(longer)
    IN
    /\ stage[r] = "fetching"
    /\ ~ Cached(k)
    /\ files' = IF full THEN Tail(longer) ELSE longer
    /\ fileOf' = [x \in Key |-> CASE x = k /\ (full => old # k) -> r
                                  [] full /\ x = old -> NoFile
                                  [] OTHER -> fileOf[x]]
    /\ disk' = IF full THEN disk \ {fileOf[old]} ELSE disk
    /\ Given(r, r)
    /\ UNCHANGED <<published, absent, orphans, lost>>

\* The endpoint has opened the file, which it can read from then on even when
\* its name is deleted.
Opened(r) ==
    /\ stage[r] = "reading"
    /\ Moves(r, "done")
    /\ UNCHANGED <<published, files, fileOf, absent, disk, given, since, orphans, lost>>

-----------------------------------------------------------------------------
\* The nightly pipeline writes an object that was missing.
Publish(k) ==
    /\ k \notin published
    /\ published' = published \union {k}
    /\ UNCHANGED <<files, fileOf, absent, disk, stage, given, since, orphans, lost>>

\* Something else removes a finished file from /tmp.
Lose(f) ==
    /\ f \in disk /\ stage[f] # "fetching"
    /\ disk' = disk \ {f}
    /\ lost' = lost \union {f}
    /\ UNCHANGED <<published, files, fileOf, absent, stage, given, since, orphans>>

Request(r) ==
    \/ KnownMissing(r) \/ Hit(r) \/ Miss(r)
    \/ Found(r) \/ NotFound(r) \/ Breaks(r)
    \/ Yield(r) \/ Store(r) \/ Opened(r)

BlobNext ==
    \/ \E r \in Reader : Request(r)
    \/ \E k \in Key : Publish(k)
    \/ \E f \in Reader : Lose(f)

BlobSpec == BlobInit /\ [][BlobNext]_cacheVars

-----------------------------------------------------------------------------
(* What the raster endpoints rely on.                                      *)

\* "Keeps at most max_files downloaded files" of the memory that /tmp is: every
\* file there is cached, being downloaded, or left behind by a download that
\* failed.  (get_or_download, _unlink_quiet)
DiskIsAccountedFor ==
    /\ Len(files) <= MaxFiles
    /\ disk = ({fileOf[k] : k \in ToSet(files)} \union {r \in Reader : stage[r] = "fetching"}
               \union orphans) \ lost

\* A path is opened after the lock is released, so it may be deleted under its
\* reader -- but only once MaxFiles other objects were used after it was handed
\* out: the cache evicts the least recently used.  (get_or_download)
ReadersOutliveEviction ==
    \A r \in Reader : stage[r] = "reading" /\ given[r] \notin disk \union lost =>
        Cardinality(since[r]) >= MaxFiles
=============================================================================
