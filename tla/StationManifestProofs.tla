------------------------- MODULE StationManifestProofs -------------------------
(***************************************************************************)
(* Proofs about the station manifest, for any number of instances,         *)
(* stations and scopes.  What the manifest keeps depends on which failures *)
(* may happen and on whether scopes may overlap: each theorem names the    *)
(* conditions it needs.                                                    *)
(***************************************************************************)
EXTENDS StationManifest, TLAPS

\* The scopes in use exclude each other: there is only one.
OneScope == \A a, b \in Scope : a = b

\* The join never fails on its own, so the fallback write never happens.
NoFallback == "union" \notin Faults

\* The bucket answers every read.
BucketAnswers == "sync" \notin Faults

\* A run has a scope, and no other run has the same one.
ScopeHeld ==
    /\ \A i \in Instance : pc[i] = "idle" <=> scope[i] = {}
    /\ \A i, j \in Instance : i # j /\ scope[i] # {} => scope[i] # scope[j]

\* What is about to be uploaded is what the run wrote, sightings included.
UploadReady ==
    \A i \in Instance : pc[i] = "uploading" =>
        /\ onDisk[i]
        /\ union[i] = copy[i]
        /\ \A s \in seen[i] : copy[i][s] = 0

\* No count in a copy that will be used exceeds the misses since publication.
CountsAreEarned ==
    \A s \in Station :
        /\ bucket[s] <= unseen[s]
        /\ \A i \in Instance : synced[i] => copy[i][s] <= unseen[s]
        /\ \A i \in Instance : pc[i] \in {"uploading", "mirroring"} => union[i][s] <= unseen[s]

\* Of every station of a state whose cities a run has, the run knows what the
\* lists say, or has still to read its city.
ListsTold ==
    \A i \in Instance, s \in Station :
        StateOfStation(s) \in fetched[i] =>
            \/ s \in seen[i] \cup vain[i]
            \/ CityOf[s] \in queue[i] \cup skipped[i]

SyncedWhileUploading == \A i \in Instance : pc[i] = "uploading" => synced[i]

-----------------------------------------------------------------------------
LEMMA InitTypeOK == Init => TypeOK
<1> SUFFICES ASSUME Init PROVE TypeOK
  OBVIOUS
<1>1. NoManifest \in Manifest /\ bucket \in Manifest
  <2>1. NoRow \in NoRow .. InactiveAfter /\ 0 \in NoRow .. InactiveAfter
    BY ConstantsAssumption DEF NoRow
  <2>2. bucket \in [Station -> {NoRow, 0}]
    BY DEF Init
  <2> QED BY <2>1, <2>2 DEF Manifest, NoManifest
<1>2. active \in [Station -> {"absent", "on", "off"}]
  BY DEF Init
<1>3. /\ unseen \in [Station -> 0 .. InactiveAfter]
      /\ sought \in [Station -> 0 .. InactiveAfter]
      /\ unread \in [Station -> 0 .. InactiveAfter]
  BY ConstantsAssumption DEF Init
<1> QED BY <1>1, <1>2, <1>3 DEF Init, TypeOK

LEMMA SyncedCopyType ==
    ASSUME TypeOK, NEW i \in Instance
    PROVE  SyncedCopy(i) \in Manifest
BY DEF TypeOK, SyncedCopy

LEMMA UnionType ==
    ASSUME TypeOK, NEW i \in Instance, NEW prev \in Manifest
    PROVE  UnionOf(i, prev) \in Manifest
<1>1. \A s \in Station : prev[s] \in NoRow .. InactiveAfter
  BY DEF Manifest
<1>2. \A s \in Station : UnionOf(i, prev)[s] \in NoRow .. InactiveAfter
  BY <1>1, ConstantsAssumption DEF UnionOf, Aged, NoRow
<1> QED BY <1>2 DEF Manifest, UnionOf

LEMMA WrittenType ==
    ASSUME TypeOK, NEW i \in Instance, NEW rows \in Manifest, Written(i, rows)
    PROVE  /\ union' \in [Instance -> Manifest]
           /\ copy' \in [Instance -> Manifest]
           /\ onDisk' \in [Instance -> BOOLEAN]
           /\ unseen' \in [Station -> 0 .. InactiveAfter]
           /\ sought' \in [Station -> 0 .. InactiveAfter]
           /\ unread' \in [Station -> 0 .. InactiveAfter]
           /\ pc' \in [Instance -> {"idle", "listing", "uploading", "mirroring"}]
<1>1. \A n \in 0 .. InactiveAfter : Aged(n) \in 0 .. InactiveAfter
  BY ConstantsAssumption DEF Aged
<1>2. /\ unseen' \in [Station -> 0 .. InactiveAfter]
      /\ sought' \in [Station -> 0 .. InactiveAfter]
      /\ unread' \in [Station -> 0 .. InactiveAfter]
  BY <1>1 DEF Written, Counted, TypeOK
<1> QED BY <1>2 DEF Written, TypeOK

LEMMA EndedType ==
    ASSUME TypeOK, NEW i \in Instance, Ended(i)
    PROVE  /\ pc' \in [Instance -> {"idle", "listing", "uploading", "mirroring"}]
           /\ scope' \in [Instance -> Scope \cup {{}}]
           /\ todo' \in [Instance -> SUBSET State]
           /\ queue' \in [Instance -> SUBSET City]
           /\ fetched' \in [Instance -> SUBSET State]
           /\ skipped' \in [Instance -> SUBSET City]
           /\ seen' \in [Instance -> SUBSET Station]
           /\ vain' \in [Instance -> SUBSET Station]
           /\ union' \in [Instance -> Manifest]
<1>1. NoManifest \in Manifest
  BY ConstantsAssumption DEF NoManifest, Manifest, NoRow
<1> QED BY <1>1 DEF Ended, TypeOK

LEMMA NoManifestType == NoManifest \in Manifest
BY ConstantsAssumption DEF NoManifest, Manifest, NoRow

LEMMA StepTypeOK == TypeOK /\ [Next]_vars => TypeOK'
<1> SUFFICES ASSUME TypeOK, [Next]_vars PROVE TypeOK'
  OBVIOUS
<1> USE DEF TypeOK, files, run, ghosts
<1>1. ASSUME NEW i \in Instance, NEW sc \in Scope, Start(i, sc) PROVE TypeOK'
  BY <1>1, ConstantsAssumption DEF Start
<1>2. ASSUME NEW i \in Instance, NEW st \in State, ReadState(i, st) PROVE TypeOK'
  BY <1>2 DEF ReadState, CitiesOf
<1>3. ASSUME NEW i \in Instance, NEW st \in State, SkipState(i, st) PROVE TypeOK'
  BY <1>3 DEF SkipState
<1>4. ASSUME NEW i \in Instance, NEW c \in City, ReadCity(i, c) PROVE TypeOK'
  BY <1>4 DEF ReadCity, StationsOf
<1>5. ASSUME NEW i \in Instance, NEW c \in City, SkipCity(i, c) PROVE TypeOK'
  BY <1>5 DEF SkipCity, StationsOf
<1>6. ASSUME NEW i \in Instance, Finalize(i) PROVE TypeOK'
  <2>1. UnionOf(i, SyncedCopy(i)) \in Manifest
    BY SyncedCopyType, UnionType
  <2> QED BY <1>6, <2>1, WrittenType DEF Finalize
<1>7. ASSUME NEW i \in Instance, FinalizeFromDisk(i) PROVE TypeOK'
  <2>1. UnionOf(i, copy[i]) \in Manifest
    BY UnionType
  <2> QED BY <1>7, <2>1, WrittenType DEF FinalizeFromDisk
<1>8. ASSUME NEW i \in Instance, FinalizeByFallback(i) PROVE TypeOK'
  <2>1. UnionOf(i, NoManifest) \in Manifest
    BY UnionType, NoManifestType
  <2>2. Written(i, UnionOf(i, NoManifest)) /\ synced' \in [Instance -> BOOLEAN]
    BY <1>8 DEF FinalizeByFallback
  <2> QED BY <1>8, <2>1, <2>2, WrittenType DEF FinalizeByFallback
<1>9. ASSUME NEW i \in Instance, RefuseToReplace(i) PROVE TypeOK'
  BY <1>9, EndedType DEF RefuseToReplace
<1>10. ASSUME NEW i \in Instance, Upload(i) PROVE TypeOK'
  BY <1>10, ConstantsAssumption DEF Upload, Published
<1>11. ASSUME NEW i \in Instance, UploadFails(i) PROVE TypeOK'
  <2>1. CASE UNCHANGED <<bucket, synced, ghosts>>
    <3>1. UNCHANGED <<listed, bucket, synced, ghosts, copy, onDisk, active, run, union>>
      BY <1>11, <2>1 DEF UploadFails
    <3>2. pc' = [pc EXCEPT ![i] = "mirroring"]
      BY <1>11 DEF UploadFails
    <3> QED BY <3>1, <3>2
  <2>2. CASE Published(i) /\ synced' = [j \in Instance |-> FALSE]
    BY <1>11, <2>2, ConstantsAssumption DEF UploadFails, Published
  <2> QED BY <1>11, <2>1, <2>2 DEF UploadFails
<1>12. ASSUME NEW i \in Instance, Mirror(i) PROVE TypeOK'
  BY <1>12, EndedType DEF Mirror
<1>13. ASSUME NEW i \in Instance, MirrorFails(i) PROVE TypeOK'
  BY <1>13, EndedType DEF MirrorFails
<1>14. ASSUME NEW i \in Instance, PollSync(i) PROVE TypeOK'
  BY <1>14, SyncedCopyType DEF PollSync
<1>15. ASSUME NEW i \in Instance, Crash(i) PROVE TypeOK'
  BY <1>15, EndedType DEF Crash
<1>16. ASSUME NEW i \in Instance, Replaced(i) PROVE TypeOK'
  BY <1>16, EndedType, NoManifestType DEF Replaced
<1>17. ASSUME NEW s \in Station, Relist(s) PROVE TypeOK'
  BY <1>17 DEF Relist
<1>18. ASSUME UNCHANGED vars PROVE TypeOK'
  BY <1>18 DEF vars
<1> QED
  BY <1>1, <1>2, <1>3, <1>4, <1>5, <1>6, <1>7, <1>8, <1>9, <1>10, <1>11, <1>12, <1>13,
     <1>14, <1>15, <1>16, <1>17, <1>18
  DEF Next, InstanceStep, ReadLists, FinalizeStep, UploadStep, MirrorStep

\* Every reachable state of the discovery protocol is well typed: among other
\* things a run never carries stations or cities outside the inventory.
THEOREM TypeCorrect == Spec => []TypeOK
BY InitTypeOK, StepTypeOK, PTL DEF Spec

-----------------------------------------------------------------------------
(* A synced copy is complete, whatever the scopes and the other failures.  *)
LEMMA UnionKeepsRows ==
    ASSUME TypeOK, NEW i \in Instance, NEW prev \in Manifest
    PROVE  Rows(prev) \subseteq Rows(UnionOf(i, prev))
<1>1. \A s \in Station : prev[s] \in NoRow .. InactiveAfter
  BY DEF Manifest
<1>2. \A s \in Rows(prev) : UnionOf(i, prev)[s] # NoRow
  BY <1>1, ConstantsAssumption DEF Rows, UnionOf, Aged, NoRow
<1> QED BY <1>2 DEF Rows

LEMMA StepSyncedCopy ==
    NoFallback => (TypeOK /\ UploadReady /\ SyncedCopyIsComplete /\ [Next]_vars => SyncedCopyIsComplete')
<1> SUFFICES ASSUME NoFallback, TypeOK, UploadReady, SyncedCopyIsComplete, [Next]_vars
             PROVE  SyncedCopyIsComplete'
  OBVIOUS
<1> USE DEF SyncedCopyIsComplete, files, run
<1>1. ASSUME UNCHANGED files PROVE SyncedCopyIsComplete'
  BY <1>1 DEF Rows
<1>2. ASSUME NEW i \in Instance, Finalize(i) PROVE SyncedCopyIsComplete'
  <2>1. Rows(bucket) \subseteq Rows(SyncedCopy(i))
    BY DEF SyncedCopy, Rows
  <2>2. Rows(SyncedCopy(i)) \subseteq Rows(UnionOf(i, SyncedCopy(i)))
    BY UnionKeepsRows, SyncedCopyType
  <2>3. Rows(bucket)' = Rows(bucket)
    BY <1>2 DEF Finalize, Rows
  <2>4. copy'[i] = UnionOf(i, SyncedCopy(i)) /\ onDisk'[i]
    BY <1>2 DEF Finalize, Written, TypeOK
  <2>5. Rows(copy'[i]) = Rows(UnionOf(i, SyncedCopy(i)))
    BY <2>4 DEF Rows
  <2>6. \A j \in Instance : j # i => copy'[j] = copy[j] /\ onDisk'[j] = onDisk[j] /\ synced'[j] = synced[j]
    BY <1>2 DEF Finalize, Written, TypeOK
  <2> QED BY <2>1, <2>2, <2>3, <2>4, <2>5, <2>6 DEF Rows
<1>3. ASSUME NEW i \in Instance, FinalizeFromDisk(i) PROVE SyncedCopyIsComplete'
  <2>1. Rows(copy[i]) \subseteq Rows(UnionOf(i, copy[i])) /\ copy[i] \in Manifest
    BY UnionKeepsRows DEF TypeOK
  <2>3. Rows(bucket)' = Rows(bucket) /\ synced' = synced
    BY <1>3 DEF FinalizeFromDisk, Rows
  <2>4. copy'[i] = UnionOf(i, copy[i]) /\ onDisk'[i]
    BY <1>3 DEF FinalizeFromDisk, Written, TypeOK
  <2>5. Rows(copy'[i]) = Rows(UnionOf(i, copy[i]))
    BY <2>4 DEF Rows
  <2>6. \A j \in Instance : j # i => copy'[j] = copy[j] /\ onDisk'[j] = onDisk[j]
    BY <1>3 DEF FinalizeFromDisk, Written, TypeOK
  <2> QED BY <2>1, <2>3, <2>4, <2>5, <2>6 DEF Rows
<1>4. ASSUME NEW i \in Instance, FinalizeByFallback(i) PROVE SyncedCopyIsComplete'
  BY <1>4 DEF FinalizeByFallback, NoFallback
<1>5. ASSUME NEW i \in Instance, Upload(i) PROVE SyncedCopyIsComplete'
  <2>1. bucket' = copy[i] /\ copy' = copy /\ onDisk' = onDisk /\ onDisk[i]
    BY <1>5 DEF Upload, Published, UploadReady
  <2>2. \A j \in Instance : synced'[j] => j = i
    BY <1>5 DEF Upload
  <2> QED BY <2>1, <2>2 DEF Rows
<1>6. ASSUME NEW i \in Instance, UploadFails(i) PROVE SyncedCopyIsComplete'
  <2>1. CASE UNCHANGED <<bucket, synced, ghosts>>
    BY <1>6, <2>1 DEF UploadFails, Rows
  <2>2. CASE Published(i) /\ synced' = [j \in Instance |-> FALSE]
    BY <2>2
  <2> QED BY <1>6, <2>1, <2>2 DEF UploadFails
<1>7. ASSUME NEW i \in Instance, PollSync(i) PROVE SyncedCopyIsComplete'
  <2>1. Rows(bucket) \subseteq Rows(SyncedCopy(i))
    BY DEF SyncedCopy, Rows
  <2>2. copy'[i] = SyncedCopy(i) /\ onDisk'[i] /\ bucket' = bucket
    BY <1>7 DEF PollSync, TypeOK
  <2>3. \A j \in Instance : j # i => copy'[j] = copy[j] /\ onDisk'[j] = onDisk[j] /\ synced'[j] = synced[j]
    BY <1>7 DEF PollSync, TypeOK
  <2> QED BY <2>1, <2>2, <2>3 DEF Rows
<1>8. ASSUME NEW i \in Instance, Replaced(i) PROVE SyncedCopyIsComplete'
  <2>1. ~synced'[i] /\ bucket' = bucket
    BY <1>8 DEF Replaced, TypeOK
  <2>2. \A j \in Instance : j # i => copy'[j] = copy[j] /\ onDisk'[j] = onDisk[j] /\ synced'[j] = synced[j]
    BY <1>8 DEF Replaced, TypeOK
  <2> QED BY <2>1, <2>2 DEF Rows
<1> QED
  BY <1>1, <1>2, <1>3, <1>4, <1>5, <1>6, <1>7, <1>8
  DEF Next, InstanceStep, ReadLists, FinalizeStep, UploadStep, MirrorStep, vars,
      Start, ReadState, SkipState, ReadCity, SkipCity, RefuseToReplace, Mirror, MirrorFails, Crash, Relist

LEMMA UnionShowsSeen ==
    ASSUME NEW i \in Instance, NEW prev \in Manifest, seen[i] \subseteq Station
    PROVE  \A s \in seen[i] : UnionOf(i, prev)[s] = 0
BY DEF UnionOf

LEMMA StepUploadReady == TypeOK /\ UploadReady /\ [Next]_vars => UploadReady'
<1> SUFFICES ASSUME TypeOK, UploadReady, [Next]_vars, NEW k \in Instance, pc'[k] = "uploading"
             PROVE  /\ onDisk'[k]
                    /\ union'[k] = copy'[k]
                    /\ \A s \in seen'[k] : copy'[k][s] = 0
  BY DEF UploadReady
<1> DEFINE Same == /\ pc[k] = "uploading"
                   /\ onDisk'[k] = onDisk[k] /\ union'[k] = union[k]
                   /\ copy'[k] = copy[k] /\ seen'[k] = seen[k]
<1>1. ASSUME Same
      PROVE  onDisk'[k] /\ union'[k] = copy'[k] /\ \A s \in seen'[k] : copy'[k][s] = 0
  BY <1>1 DEF UploadReady
<1>2. ASSUME NEW i \in Instance, NEW prev \in Manifest, Written(i, UnionOf(i, prev)), UNCHANGED run
      PROVE  onDisk'[k] /\ union'[k] = copy'[k] /\ \A s \in seen'[k] : copy'[k][s] = 0
  <2>1. CASE k = i
    <3>1. copy'[k] = UnionOf(i, prev) /\ union'[k] = UnionOf(i, prev) /\ onDisk'[k]
      BY <1>2, <2>1 DEF Written, TypeOK
    <3>2. \A s \in seen[k] : UnionOf(i, prev)[s] = 0
      BY <2>1, UnionShowsSeen DEF TypeOK
    <3> QED BY <1>2, <3>1, <3>2 DEF run
  <2>2. CASE k # i
    <3>1. Same
      BY <1>2, <2>2 DEF Written, TypeOK, run
    <3> QED BY <3>1, <1>1
  <2> QED BY <2>1, <2>2
<1>3. ASSUME NEW i \in Instance, FinalizeStep(i)
      PROVE  onDisk'[k] /\ union'[k] = copy'[k] /\ \A s \in seen'[k] : copy'[k][s] = 0
  <2>1. CASE Finalize(i)
    BY <2>1, <1>2, SyncedCopyType DEF Finalize
  <2>2. CASE FinalizeFromDisk(i)
    BY <2>2, <1>2 DEF FinalizeFromDisk, TypeOK
  <2>3. CASE FinalizeByFallback(i)
    BY <2>3, <1>2, NoManifestType DEF FinalizeByFallback
  <2>4. CASE RefuseToReplace(i)
    BY <2>4, <1>1 DEF RefuseToReplace, Ended, TypeOK, files
  <2> QED BY <1>3, <2>1, <2>2, <2>3, <2>4 DEF FinalizeStep
<1>4. ASSUME NEW i \in Instance, (\E sc \in Scope : Start(i, sc)) \/ ReadLists(i)
      PROVE  Same
  BY <1>4 DEF Start, ReadLists, ReadState, SkipState, ReadCity, SkipCity, TypeOK, files
<1>5. ASSUME NEW i \in Instance, UploadStep(i)
      PROVE  Same
  BY <1>5 DEF UploadStep, Upload, UploadFails, TypeOK, run
<1>6. ASSUME NEW i \in Instance, MirrorStep(i) \/ Crash(i) \/ Replaced(i)
      PROVE  Same
  BY <1>6 DEF MirrorStep, Mirror, MirrorFails, Crash, Replaced, Ended, TypeOK, files
<1>7. ASSUME NEW i \in Instance, PollSync(i)
      PROVE  Same
  BY <1>7 DEF PollSync, TypeOK, run
<1>8. ASSUME (\E s \in Station : Relist(s)) \/ UNCHANGED vars
      PROVE  Same
  BY <1>8 DEF Relist, vars, files, run
<1> QED BY <1>1, <1>3, <1>4, <1>5, <1>6, <1>7, <1>8 DEF Next, InstanceStep

LEMMA InitSynced == Init => SyncedCopyIsComplete /\ UploadReady
BY DEF Init, SyncedCopyIsComplete, UploadReady

\* Unless the join itself fails, a copy whose sidecar names the bucket's
\* generation holds every row of the bucket, for any scopes and any failures.
THEOREM SyncedCopyComplete == NoFallback => (Spec => []SyncedCopyIsComplete)
<1> SUFFICES ASSUME NoFallback PROVE Spec => []SyncedCopyIsComplete
  OBVIOUS
<1>1. Init => TypeOK /\ UploadReady /\ SyncedCopyIsComplete
  BY InitTypeOK, InitSynced
<1>2. TypeOK /\ UploadReady /\ SyncedCopyIsComplete /\ [Next]_vars
         => TypeOK' /\ UploadReady' /\ SyncedCopyIsComplete'
  BY StepTypeOK, StepUploadReady, StepSyncedCopy
<1> QED BY <1>1, <1>2, PTL DEF Spec

-----------------------------------------------------------------------------
(* Runs of one scope follow each other.                                    *)
LEMMA InitScopeHeld == Init => ScopeHeld
BY DEF Init, ScopeHeld

LEMMA StepScopeHeld == TypeOK /\ ScopeHeld /\ [Next]_vars => ScopeHeld'
<1> SUFFICES ASSUME TypeOK, ScopeHeld, [Next]_vars PROVE ScopeHeld'
  OBVIOUS
<1> USE DEF ScopeHeld
<1>1. ASSUME UNCHANGED <<pc, scope>> PROVE ScopeHeld'
  BY <1>1
<1>2. ASSUME NEW i \in Instance, NEW sc \in Scope, Start(i, sc) PROVE ScopeHeld'
  <2>1. pc' = [pc EXCEPT ![i] = "listing"] /\ scope' = [scope EXCEPT ![i] = sc]
    BY <1>2 DEF Start
  <2>2. sc # {} /\ \A j \in Instance : scope[j] # sc
    BY <1>2, ConstantsAssumption DEF Start
  <2> QED BY <2>1, <2>2 DEF TypeOK
<1>3. ASSUME NEW i \in Instance, Ended(i) PROVE ScopeHeld'
  BY <1>3 DEF Ended, TypeOK
<1>4. ASSUME NEW i \in Instance, NEW x \in {"uploading", "mirroring"}, pc[i] # "idle",
             pc' = [pc EXCEPT ![i] = x], UNCHANGED scope
      PROVE  ScopeHeld'
  BY <1>4 DEF TypeOK
<1>5. ASSUME NEW i \in Instance, Finalize(i) \/ FinalizeFromDisk(i) \/ FinalizeByFallback(i)
      PROVE  ScopeHeld'
  BY <1>5, <1>4 DEF Finalize, FinalizeFromDisk, FinalizeByFallback, Written, AllRead, run
<1>6. ASSUME NEW i \in Instance, UploadStep(i) PROVE ScopeHeld'
  BY <1>6, <1>4 DEF UploadStep, Upload, UploadFails, run
<1> QED
  BY <1>1, <1>2, <1>3, <1>5, <1>6
  DEF Next, InstanceStep, ReadLists, FinalizeStep, MirrorStep, vars, run, ReadState, SkipState,
      ReadCity, SkipCity, RefuseToReplace, Mirror, MirrorFails, Crash, Replaced, PollSync, Relist

LEMMA OneRun ==
    ASSUME OneScope, TypeOK, ScopeHeld, NEW i \in Instance, NEW j \in Instance, i # j,
           pc[i] # "idle"
    PROVE  pc[j] = "idle"
BY DEF OneScope, TypeOK, ScopeHeld

\* In one scope, with a bucket that answers, nothing comes between the sync of
\* a run and its upload.
LEMMA StepSyncedWhileUploading ==
    OneScope /\ BucketAnswers =>
        (TypeOK /\ ScopeHeld /\ SyncedWhileUploading /\ [Next]_vars => SyncedWhileUploading')
<1> SUFFICES ASSUME OneScope, BucketAnswers, TypeOK, ScopeHeld, SyncedWhileUploading, [Next]_vars,
                    NEW k \in Instance, pc'[k] = "uploading"
             PROVE  synced'[k]
  BY DEF SyncedWhileUploading
<1> DEFINE Same == pc[k] = "uploading" /\ synced'[k] = synced[k]
<1>1. Same => synced'[k]
  BY DEF SyncedWhileUploading
<1>2. ASSUME NEW i \in Instance, FinalizeStep(i) PROVE synced'[k]
  <2>1. CASE Finalize(i)
    BY <2>1, <1>1 DEF Finalize, Written, TypeOK
  <2>2. CASE FinalizeByFallback(i)
    BY <2>2, <1>1 DEF FinalizeByFallback, Written, TypeOK, BucketAnswers
  <2>3. CASE FinalizeFromDisk(i) \/ RefuseToReplace(i)
    BY <2>3 DEF FinalizeFromDisk, RefuseToReplace, BucketAnswers
  <2> QED BY <1>2, <2>1, <2>2, <2>3 DEF FinalizeStep
<1>3. ASSUME NEW i \in Instance, (\E sc \in Scope : Start(i, sc)) \/ ReadLists(i) PROVE Same
  BY <1>3 DEF Start, ReadLists, ReadState, SkipState, ReadCity, SkipCity, TypeOK, files
<1>4. ASSUME NEW i \in Instance, UploadStep(i) PROVE synced'[k]
  <2>1. pc[i] = "uploading" /\ pc' = [pc EXCEPT ![i] = "mirroring"]
    BY <1>4 DEF UploadStep, Upload, UploadFails
  <2>2. k # i /\ pc[k] = "uploading"
    BY <2>1 DEF TypeOK
  <2> QED BY <2>1, <2>2, OneRun
<1>5. ASSUME NEW i \in Instance, MirrorStep(i) \/ Crash(i) \/ Replaced(i) PROVE Same
  BY <1>5 DEF MirrorStep, Mirror, MirrorFails, Crash, Replaced, Ended, TypeOK, files
<1>6. ASSUME NEW i \in Instance, PollSync(i) PROVE synced'[k]
  BY <1>6, <1>1 DEF PollSync, TypeOK
<1>7. ASSUME (\E s \in Station : Relist(s)) \/ UNCHANGED vars PROVE Same
  BY <1>7 DEF Relist, vars, files, run
<1> QED BY <1>1, <1>2, <1>3, <1>4, <1>5, <1>6, <1>7 DEF Next, InstanceStep

LEMMA StepRowsNeverDeleted ==
    TypeOK /\ UploadReady /\ SyncedCopyIsComplete /\ SyncedWhileUploading /\ [Next]_vars
        => Rows(bucket) \subseteq Rows(bucket')
<1> SUFFICES ASSUME TypeOK, SyncedCopyIsComplete, SyncedWhileUploading, [Next]_vars
             PROVE  Rows(bucket) \subseteq Rows(bucket')
  OBVIOUS
<1>1. ASSUME NEW i \in Instance, UploadStep(i) PROVE Rows(bucket) \subseteq Rows(bucket')
  <2>1. Rows(bucket) \subseteq Rows(copy[i])
    BY <1>1 DEF UploadStep, Upload, UploadFails, SyncedWhileUploading, SyncedCopyIsComplete
  <2>2. bucket' = copy[i] \/ bucket' = bucket
    BY <1>1 DEF UploadStep, Upload, UploadFails, Published
  <2> QED BY <2>1, <2>2
<1>2. ASSUME bucket' = bucket PROVE Rows(bucket) \subseteq Rows(bucket')
  BY <1>2
<1> QED
  BY <1>1, <1>2
  DEF Next, InstanceStep, ReadLists, FinalizeStep, MirrorStep, vars, files, Start, ReadState,
      SkipState, ReadCity, SkipCity, Finalize, FinalizeFromDisk, FinalizeByFallback,
      RefuseToReplace, Mirror, MirrorFails, Crash, Replaced, PollSync, Relist

\* With one scope, a bucket that answers and a join that does not fail, no
\* sequence of lost answers, crashes and replaced disks deletes a row.
THEOREM RowsKept ==
    OneScope /\ BucketAnswers /\ NoFallback => (Spec => RowsNeverDeleted)
<1> SUFFICES ASSUME OneScope, BucketAnswers, NoFallback PROVE Spec => RowsNeverDeleted
  OBVIOUS
<1> DEFINE IInv == TypeOK /\ ScopeHeld /\ UploadReady /\ SyncedCopyIsComplete /\ SyncedWhileUploading
<1>1. Init => IInv
  BY InitTypeOK, InitScopeHeld, InitSynced DEF Init, SyncedWhileUploading
<1>2. IInv /\ [Next]_vars => IInv'
  BY StepTypeOK, StepScopeHeld, StepUploadReady, StepSyncedCopy, StepSyncedWhileUploading
<1>3. IInv /\ [Next]_vars => [Rows(bucket) \subseteq Rows(bucket')]_vars
  BY StepRowsNeverDeleted
<1> QED BY <1>1, <1>2, <1>3, PTL DEF Spec, RowsNeverDeleted

-----------------------------------------------------------------------------
(* In one scope with a bucket that answers, a count is never higher than   *)
(* the misses since the station was last published as seen.                *)
LEMMA InitCounts == Init => CountsAreEarned
<1> SUFFICES ASSUME Init PROVE CountsAreEarned
  OBVIOUS
<1>1. ASSUME NEW s \in Station
      PROVE  /\ bucket[s] \in {NoRow, 0} /\ unseen[s] = 0
             /\ \A i \in Instance : copy[i][s] = NoRow /\ union[i][s] = NoRow
  BY DEF Init, NoManifest
<1> QED
  BY <1>1 DEF CountsAreEarned, NoRow

LEMMA AgedMonotone ==
    ASSUME NEW m \in NoRow .. InactiveAfter, NEW n \in 0 .. InactiveAfter, m <= n
    PROVE  Aged(m) <= Aged(n) /\ n <= Aged(n)
BY ConstantsAssumption DEF Aged, NoRow

LEMMA InitListsTold == Init => ListsTold
BY DEF Init, ListsTold

LEMMA StepListsTold == TypeOK /\ ListsTold /\ [Next]_vars => ListsTold'
<1> SUFFICES ASSUME TypeOK, ListsTold, [Next]_vars PROVE ListsTold'
  OBVIOUS
<1> USE DEF ListsTold, run, StateOfStation
<1>1. ASSUME UNCHANGED <<fetched, seen, vain, queue, skipped>> PROVE ListsTold'
  BY <1>1
<1>2. ASSUME NEW i \in Instance, NEW st \in State, ReadState(i, st) PROVE ListsTold'
  <2>1. \A s \in Station : StateOf[CityOf[s]] = st => CityOf[s] \in CitiesOf(st)
    BY ConstantsAssumption DEF CitiesOf
  <2>2. /\ queue[i] = {} /\ queue' = [queue EXCEPT ![i] = CitiesOf(st)]
        /\ fetched' = [fetched EXCEPT ![i] = @ \cup {st}]
        /\ UNCHANGED <<seen, vain, skipped>>
    BY <1>2 DEF ReadState
  <2> QED BY <2>1, <2>2 DEF TypeOK
<1>3. ASSUME NEW i \in Instance, NEW c \in City, ReadCity(i, c) PROVE ListsTold'
  <2>1. \A s \in Station : CityOf[s] = c =>
            s \in listed \cap StationsOf(c) \/ s \in StationsOf(c) \ listed
    BY DEF StationsOf
  <2>2. /\ queue' = [queue EXCEPT ![i] = @ \ {c}]
        /\ seen' = [seen EXCEPT ![i] = @ \cup (listed \cap StationsOf(c))]
        /\ vain' = [vain EXCEPT ![i] = @ \cup (StationsOf(c) \ listed)]
        /\ UNCHANGED <<fetched, skipped>>
    BY <1>3 DEF ReadCity
  <2> QED BY <2>1, <2>2 DEF TypeOK
<1>4. ASSUME NEW i \in Instance, NEW c \in City, SkipCity(i, c) PROVE ListsTold'
  <2>1. PICK got \in SUBSET (listed \cap StationsOf(c)) : seen' = [seen EXCEPT ![i] = @ \cup got]
    BY <1>4 DEF SkipCity
  <2>2. /\ queue' = [queue EXCEPT ![i] = @ \ {c}]
        /\ skipped' = [skipped EXCEPT ![i] = @ \cup {c}]
        /\ UNCHANGED <<fetched, vain>>
    BY <1>4 DEF SkipCity
  <2> QED BY <2>1, <2>2 DEF TypeOK
<1>5. ASSUME NEW i \in Instance, Ended(i) PROVE ListsTold'
  BY <1>5 DEF Ended, TypeOK
<1>6. ASSUME NEW i \in Instance, NEW sc \in Scope, Start(i, sc) PROVE ListsTold'
  BY <1>1, <1>6 DEF Start
<1> QED
  BY <1>1, <1>2, <1>3, <1>4, <1>5, <1>6
  DEF Next, InstanceStep, ReadLists, FinalizeStep, UploadStep, MirrorStep, vars, SkipState,
      Finalize, FinalizeFromDisk, FinalizeByFallback, RefuseToReplace, Upload, UploadFails,
      Mirror, MirrorFails, PollSync, Crash, Replaced, Relist

\* What a join ages was not in a list that came, or in one that did not.
LEMMA MissesAreTold ==
    ASSUME TypeOK, ListsTold, NEW i \in Instance, AllRead(i), NEW prev \in Manifest
    PROVE  Missed(i, prev) \subseteq vain[i] \cup Unread(i)
BY DEF Missed, Rows, AllRead, ListsTold, Unread

\* A counter never falls, and counts what is gone of the rows.
LEMMA CountedRises ==
    ASSUME NEW gone, NEW rows \in Manifest, NEW n \in [Station -> 0 .. InactiveAfter], NEW s \in Station
    PROVE  /\ n[s] \in Nat /\ Counted(gone, rows, n)[s] \in Nat
           /\ n[s] <= Counted(gone, rows, n)[s]
           /\ s \in gone \cap Rows(rows) => Counted(gone, rows, n)[s] = Aged(n[s])
BY ConstantsAssumption DEF Counted, Aged

\* A join ages a row only where one of the misses is counted too.
LEMMA UnionAges ==
    ASSUME TypeOK, NEW i \in Instance, NEW prev \in Manifest, NEW s \in Station
    PROVE  /\ prev[s] \in NoRow .. InactiveAfter
           /\ UnionOf(i, prev)[s] \in NoRow .. InactiveAfter
           /\ \/ UnionOf(i, prev)[s] = 0 \/ UnionOf(i, prev)[s] = prev[s]
              \/ /\ UnionOf(i, prev)[s] = Aged(prev[s])
                 /\ s \in Missed(i, prev) \cap Rows(UnionOf(i, prev))
<1>1. prev[s] \in NoRow .. InactiveAfter
  BY DEF Manifest
<1>2. UnionOf(i, prev) \in Manifest
  BY UnionType
<1>3. UnionOf(i, prev)[s] \in NoRow .. InactiveAfter
  BY <1>2 DEF Manifest
<1>4. CASE s \notin seen[i] /\ s \in Missed(i, prev)
  <2>1. UnionOf(i, prev)[s] = Aged(prev[s]) /\ prev[s] # NoRow
    BY <1>4 DEF UnionOf, Missed, Rows
  <2>2. Aged(prev[s]) # NoRow
    BY <1>1, <2>1, ConstantsAssumption DEF Aged, NoRow
  <2> QED BY <1>1, <1>3, <1>4, <2>1, <2>2 DEF Rows
<1>5. CASE s \in seen[i] \/ s \notin Missed(i, prev)
  <2>1. UnionOf(i, prev)[s] = 0 \/ UnionOf(i, prev)[s] = prev[s]
    BY <1>5 DEF UnionOf
  <2> QED BY <1>1, <1>3, <2>1
<1> QED BY <1>4, <1>5

LEMMA UnionEarned ==
    ASSUME TypeOK, ListsTold, NEW i \in Instance, AllRead(i), NEW prev \in Manifest,
           NEW n \in [Station -> 0 .. InactiveAfter],
           NEW s \in Station, prev[s] <= n[s]
    PROVE  LET n2 == Counted(vain[i] \cup Unread(i), UnionOf(i, prev), n)
           IN  UnionOf(i, prev)[s] <= n2[s] /\ n[s] <= n2[s]
<1> DEFINE n2 == Counted(vain[i] \cup Unread(i), UnionOf(i, prev), n)
<1>1. UnionOf(i, prev) \in Manifest
  BY UnionType
<1>2. /\ n[s] \in 0 .. InactiveAfter /\ n2[s] \in Nat /\ n[s] <= n2[s]
      /\ s \in Missed(i, prev) \cap Rows(UnionOf(i, prev)) => n2[s] = Aged(n[s])
  BY <1>1, CountedRises, MissesAreTold
<1> HIDE DEF n2
<1>3. UnionOf(i, prev)[s] <= n2[s]
  BY <1>2, UnionAges, AgedMonotone, ConstantsAssumption DEF NoRow
<1> QED BY <1>2, <1>3 DEF n2

LEMMA StepCounts ==
    OneScope /\ BucketAnswers =>
        (TypeOK /\ ScopeHeld /\ UploadReady /\ SyncedWhileUploading /\ ListsTold /\ CountsAreEarned
            /\ [Next]_vars => CountsAreEarned')
<1> SUFFICES ASSUME OneScope, BucketAnswers, TypeOK, ScopeHeld, UploadReady, ListsTold,
                    CountsAreEarned, [Next]_vars, TypeOK'
             PROVE  CountsAreEarned'
  BY StepTypeOK
<1> USE DEF CountsAreEarned, ghosts
<1>1. ASSUME UNCHANGED <<bucket, copy, synced, union, unseen, pc>> PROVE CountsAreEarned'
  BY <1>1
<1>2. ASSUME NEW i \in Instance, NEW prev \in Manifest, Written(i, UnionOf(i, prev)), AllRead(i),
             \A s \in Station : prev[s] <= unseen[s], bucket' = bucket,
             \A j \in Instance : j # i => synced'[j] = synced[j]
      PROVE  CountsAreEarned'
  <2>1. \A s \in Station : UnionOf(i, prev)[s] <= unseen'[s] /\ unseen[s] <= unseen'[s]
    BY <1>2, UnionEarned DEF Written, TypeOK
  <2>2. \A s \in Station : /\ unseen[s] \in Int /\ unseen'[s] \in Int /\ bucket[s] \in Int
                           /\ \A j \in Instance : copy[j][s] \in Int /\ union[j][s] \in Int
    BY ConstantsAssumption DEF TypeOK, Manifest, NoRow
  <2>3. copy'[i] = UnionOf(i, prev) /\ union'[i] = UnionOf(i, prev)
    BY <1>2 DEF Written, TypeOK
  <2>4. \A j \in Instance : j # i => copy'[j] = copy[j] /\ union'[j] = union[j] /\ pc'[j] = pc[j]
    BY <1>2 DEF Written, TypeOK
  <2>5. \A s \in Station : bucket'[s] <= unseen'[s]
    BY <1>2, <2>1, <2>2
  <2>6. \A s \in Station, j \in Instance : synced'[j] => copy'[j][s] <= unseen'[s]
    BY <1>2, <2>1, <2>2, <2>3, <2>4
  <2>7. \A s \in Station, j \in Instance : pc'[j] \in {"uploading", "mirroring"} => union'[j][s] <= unseen'[s]
    BY <2>1, <2>2, <2>3, <2>4
  <2> QED BY <2>5, <2>6, <2>7
<1>3. ASSUME NEW i \in Instance, FinalizeStep(i) PROVE CountsAreEarned'
  <2>1. CASE Finalize(i)
    <3>1. \A s \in Station : SyncedCopy(i)[s] <= unseen[s]
      BY DEF SyncedCopy
    <3>2. \A j \in Instance : j # i => synced'[j] = synced[j]
      BY <2>1 DEF Finalize, TypeOK
    <3> QED BY <1>2, <2>1, <3>1, <3>2, SyncedCopyType DEF Finalize
  <2>2. CASE FinalizeByFallback(i)
    <3>1. \A s \in Station : NoManifest[s] <= unseen[s]
      BY ConstantsAssumption DEF NoManifest, NoRow, TypeOK
    <3>2. \A j \in Instance : j # i => synced'[j] = synced[j]
      BY <2>2 DEF FinalizeByFallback, TypeOK, BucketAnswers
    <3> QED BY <1>2, <2>2, <3>1, <3>2, NoManifestType DEF FinalizeByFallback
  <2>3. CASE FinalizeFromDisk(i) \/ RefuseToReplace(i)
    BY <2>3 DEF FinalizeFromDisk, RefuseToReplace, BucketAnswers
  <2> QED BY <1>3, <2>1, <2>2, <2>3 DEF FinalizeStep
<1>4. ASSUME NEW i \in Instance, pc[i] = "uploading", Published(i), pc' = [pc EXCEPT ![i] = "mirroring"],
             \A j \in Instance : synced'[j] => j = i, UNCHANGED <<copy, union>>
      PROVE  CountsAreEarned'
  <2>1. union[i] = copy[i] /\ \A s \in seen[i] : copy[i][s] = 0
    BY <1>4 DEF UploadReady
  <2>2. \A s \in Station : copy[i][s] <= unseen'[s]
    BY <1>4, <2>1 DEF Published
  <2>3. \A j \in Instance : j # i => pc'[j] = "idle"
    BY <1>4, OneRun DEF TypeOK
  <2> QED BY <1>4, <2>1, <2>2, <2>3 DEF Published
<1>5. ASSUME NEW i \in Instance, UploadStep(i) PROVE CountsAreEarned'
  <2>1. CASE Upload(i)
    BY <1>4, <2>1 DEF Upload
  <2>2. CASE UploadFails(i)
    <3>1. CASE UNCHANGED <<bucket, synced, ghosts>>
      <4>1. UNCHANGED <<copy, union>> /\ pc' = [pc EXCEPT ![i] = "mirroring"] /\ pc[i] = "uploading"
        BY <2>2 DEF UploadFails
      <4>2. \A j \in Instance : pc'[j] \in {"uploading", "mirroring"} => pc[j] \in {"uploading", "mirroring"}
        BY <4>1 DEF TypeOK
      <4> QED BY <3>1, <4>1, <4>2
    <3>2. CASE Published(i) /\ synced' = [j \in Instance |-> FALSE]
      BY <1>4, <2>2, <3>2 DEF UploadFails
    <3> QED BY <2>2, <3>1, <3>2 DEF UploadFails
  <2> QED BY <1>5, <2>1, <2>2 DEF UploadStep
<1>6. ASSUME NEW i \in Instance, Ended(i), UNCHANGED <<bucket, unseen>>,
             \A j \in Instance : synced'[j] => synced[j] /\ copy'[j] = copy[j]
      PROVE  CountsAreEarned'
  <2>1. \A j \in Instance : pc'[j] \in {"uploading", "mirroring"} => j # i /\ pc[j] = pc'[j] /\ union'[j] = union[j]
    BY <1>6 DEF Ended, TypeOK
  <2> QED BY <1>6, <2>1
<1>7. ASSUME NEW i \in Instance, MirrorStep(i) \/ Crash(i) \/ Replaced(i) PROVE CountsAreEarned'
  BY <1>6, <1>7 DEF MirrorStep, Mirror, MirrorFails, Crash, Replaced, files, TypeOK
<1>8. ASSUME NEW i \in Instance, PollSync(i) PROVE CountsAreEarned'
  <2>1. copy' = [copy EXCEPT ![i] = SyncedCopy(i)] /\ \A j \in Instance : j # i => synced'[j] = synced[j]
    BY <1>8 DEF PollSync, TypeOK
  <2>2. \A s \in Station : SyncedCopy(i)[s] <= unseen[s]
    BY DEF SyncedCopy
  <2> QED BY <1>8, <2>1, <2>2 DEF PollSync, TypeOK
<1>9. ASSUME NEW i \in Instance, NEW sc \in Scope, Start(i, sc) PROVE CountsAreEarned'
  BY <1>9 DEF Start, files, TypeOK
<1> QED
  BY <1>1, <1>3, <1>5, <1>7, <1>8, <1>9
  DEF Next, InstanceStep, ReadLists, vars, files, run, ReadState, SkipState, ReadCity, SkipCity, Relist

LEMMA StepDeactivation ==
    TypeOK /\ CountsAreEarned /\ [Next]_vars
        => \A s \in Station : active[s] = "on" /\ active'[s] = "off" => unseen[s] = InactiveAfter
<1> SUFFICES ASSUME TypeOK, CountsAreEarned, [Next]_vars,
                    NEW s \in Station, active[s] = "on", active'[s] = "off"
             PROVE  unseen[s] = InactiveAfter
  OBVIOUS
<1>1. PICK i \in Instance : Mirror(i)
  BY DEF Next, InstanceStep, ReadLists, FinalizeStep, UploadStep, MirrorStep, vars, files, Start,
      ReadState, SkipState, ReadCity, SkipCity, Finalize, FinalizeFromDisk, FinalizeByFallback,
      RefuseToReplace, Upload, UploadFails, MirrorFails, Crash, Replaced, PollSync, Relist
<1>2. s \in SwitchedOff(i)
  BY <1>1 DEF Mirror
<1>3. union[i][s] = InactiveAfter /\ union[i][s] <= unseen[s]
  BY <1>1, <1>2 DEF SwitchedOff, Inactive, CountsAreEarned, Mirror
<1> QED BY <1>3, ConstantsAssumption DEF TypeOK

\* With one scope and a bucket that answers, a station is switched off only
\* after InactiveAfter misses, whatever else fails, the join included.
THEOREM DeactivationEarned ==
    OneScope /\ BucketAnswers => (Spec => DeactivationIsEarned)
<1> SUFFICES ASSUME OneScope, BucketAnswers PROVE Spec => DeactivationIsEarned
  OBVIOUS
<1> DEFINE IInv == TypeOK /\ ScopeHeld /\ UploadReady /\ SyncedWhileUploading /\ ListsTold /\ CountsAreEarned
           Earned == \A s \in Station : active[s] = "on" /\ active'[s] = "off" => unseen[s] = InactiveAfter
<1>1. Init => IInv
  BY InitTypeOK, InitScopeHeld, InitSynced, InitListsTold, InitCounts DEF Init, SyncedWhileUploading
<1>2. IInv /\ [Next]_vars => IInv'
  BY StepTypeOK, StepScopeHeld, StepUploadReady, StepSyncedWhileUploading, StepListsTold, StepCounts
<1>3. IInv /\ [Next]_vars => [Earned]_vars
  BY StepDeactivation
<1>4. Spec => [][Earned]_vars
  BY <1>1, <1>2, <1>3, PTL DEF Spec
<1> QED BY <1>4 DEF DeactivationIsEarned

-----------------------------------------------------------------------------
(* Misses are not made up, whatever happens.                               *)
LEMMA InitMisses == Init => NoInventedMisses
<1> SUFFICES ASSUME Init, NEW s \in Station, NEW i \in Instance
             PROVE  /\ bucket[s] <= sought[s] + unread[s]
                    /\ copy[i][s] <= sought[s] + unread[s]
                    /\ union[i][s] <= sought[s] + unread[s]
  BY DEF NoInventedMisses, Init, NoManifest, NoRow
<1>1. sought[s] = 0 /\ unread[s] = 0 /\ copy[i] = NoManifest /\ union[i] = NoManifest
  BY DEF Init
<1>2. bucket[s] \in {NoRow, 0}
  BY DEF Init
<1> QED BY <1>1, <1>2 DEF NoManifest, NoRow

\* A join stays within the runs that read the list in vain or failed to read it.
LEMMA UnionExplained ==
    ASSUME TypeOK, ListsTold, NEW i \in Instance, AllRead(i), NEW prev \in Manifest,
           NEW s \in Station, prev[s] <= sought[s] + unread[s]
    PROVE  LET a == Counted(vain[i], UnionOf(i, prev), sought)
               b == Counted(Unread(i), UnionOf(i, prev), unread)
           IN  UnionOf(i, prev)[s] <= a[s] + b[s] /\ sought[s] + unread[s] <= a[s] + b[s]
<1> DEFINE a == Counted(vain[i], UnionOf(i, prev), sought)
           b == Counted(Unread(i), UnionOf(i, prev), unread)
<1>1. UnionOf(i, prev) \in Manifest
  BY UnionType
<1>2. /\ sought[s] \in 0 .. InactiveAfter /\ a[s] \in Nat /\ sought[s] <= a[s]
      /\ s \in vain[i] \cap Rows(UnionOf(i, prev)) => a[s] = Aged(sought[s])
  BY <1>1, CountedRises DEF TypeOK
<1>3. /\ unread[s] \in 0 .. InactiveAfter /\ b[s] \in Nat /\ unread[s] <= b[s]
      /\ s \in Unread(i) \cap Rows(UnionOf(i, prev)) => b[s] = Aged(unread[s])
  BY <1>1, CountedRises DEF TypeOK
<1> HIDE DEF a, b
<1>4. sought[s] + unread[s] <= a[s] + b[s]
  BY <1>2, <1>3
<1>5. CASE UnionOf(i, prev)[s] = 0 \/ UnionOf(i, prev)[s] = prev[s]
  <2>1. UnionOf(i, prev)[s] <= sought[s] + unread[s]
    BY <1>2, <1>3, <1>5
  <2>2. UnionOf(i, prev)[s] \in Int
    BY UnionAges, ConstantsAssumption DEF NoRow
  <2> QED BY <1>2, <1>3, <1>4, <2>1, <2>2 DEF a, b
<1>6. CASE /\ UnionOf(i, prev)[s] = Aged(prev[s])
           /\ s \in Missed(i, prev) \cap Rows(UnionOf(i, prev))
  <2>1. a[s] = Aged(sought[s]) \/ b[s] = Aged(unread[s])
    BY <1>2, <1>3, <1>6, MissesAreTold
  <2>2. Aged(prev[s]) <= a[s] + b[s]
    <3>1. prev[s] \in NoRow .. InactiveAfter
      BY UnionAges
    <3> QED BY <1>2, <1>3, <2>1, <3>1, ConstantsAssumption DEF Aged, NoRow
  <2> QED BY <1>4, <1>6, <2>2 DEF a, b
<1> QED BY <1>5, <1>6, UnionAges

LEMMA StepMisses == TypeOK /\ ListsTold /\ NoInventedMisses /\ [Next]_vars => NoInventedMisses'
<1> SUFFICES ASSUME TypeOK, TypeOK', ListsTold, NoInventedMisses, [Next]_vars PROVE NoInventedMisses'
  BY StepTypeOK
<1> DEFINE Explained(m) == \A s \in Station : m[s] <= sought[s] + unread[s]
<1> USE DEF NoInventedMisses, files, run, ghosts
<1>1. ASSUME UNCHANGED <<bucket, copy, union, sought, unread>> PROVE NoInventedMisses'
  BY <1>1
<1>2. ASSUME NEW i \in Instance, NEW prev \in Manifest, Written(i, UnionOf(i, prev)), AllRead(i),
             bucket' = bucket, Explained(prev)
      PROVE  NoInventedMisses'
  <2>1. \A s \in Station : /\ UnionOf(i, prev)[s] <= sought'[s] + unread'[s]
                           /\ sought[s] + unread[s] <= sought'[s] + unread'[s]
    BY <1>2, UnionExplained DEF Written
  <2>2. \A s \in Station :
          /\ sought[s] \in Int /\ sought'[s] \in Int /\ unread[s] \in Int /\ unread'[s] \in Int
          /\ bucket[s] \in Int /\ \A j \in Instance : copy[j][s] \in Int /\ union[j][s] \in Int
    BY ConstantsAssumption DEF TypeOK, Manifest, NoRow
  <2>3. copy' = [copy EXCEPT ![i] = UnionOf(i, prev)] /\ union' = [union EXCEPT ![i] = UnionOf(i, prev)]
    BY <1>2 DEF Written
  <2>4. ASSUME NEW j \in Instance, NEW s \in Station
        PROVE  copy'[j][s] <= sought'[s] + unread'[s] /\ union'[j][s] <= sought'[s] + unread'[s]
    <3>1. CASE j = i
      BY <2>1, <2>3, <3>1 DEF TypeOK
    <3>2. CASE j # i
      <4>1. copy'[j] = copy[j] /\ union'[j] = union[j]
        BY <2>3, <3>2 DEF TypeOK
      <4>2. copy[j][s] <= sought[s] + unread[s] /\ union[j][s] <= sought[s] + unread[s]
        OBVIOUS
      <4> QED BY <2>1, <2>2, <4>1, <4>2
    <3> QED BY <3>1, <3>2
  <2>5. \A s \in Station : bucket'[s] <= sought'[s] + unread'[s]
    BY <1>2, <2>1, <2>2
  <2> QED BY <2>4, <2>5
<1>3. Explained(NoManifest) /\ \A i \in Instance : Explained(SyncedCopy(i)) /\ Explained(copy[i])
  <2>1. Explained(NoManifest)
    BY ConstantsAssumption DEF NoManifest, NoRow, TypeOK
  <2> QED BY <2>1 DEF SyncedCopy
<1>4. ASSUME NEW i \in Instance, FinalizeStep(i) PROVE NoInventedMisses'
  <2>1. CASE Finalize(i)
    BY <1>2, <1>3, <2>1, SyncedCopyType DEF Finalize
  <2>2. CASE FinalizeFromDisk(i)
    BY <1>2, <1>3, <2>2 DEF FinalizeFromDisk, TypeOK
  <2>3. CASE FinalizeByFallback(i)
    BY <1>2, <1>3, <2>3, NoManifestType DEF FinalizeByFallback
  <2>4. CASE RefuseToReplace(i)
    BY <1>3, <2>4 DEF RefuseToReplace, Ended, TypeOK
  <2> QED BY <1>4, <2>1, <2>2, <2>3, <2>4 DEF FinalizeStep
<1>5. ASSUME NEW i \in Instance, UploadStep(i) PROVE NoInventedMisses'
  <2>1. UNCHANGED <<copy, union, sought, unread>> /\ (bucket' = bucket \/ bucket' = copy[i])
    BY <1>5 DEF UploadStep, Upload, UploadFails, Published
  <2> QED BY <2>1
<1>6. ASSUME NEW i \in Instance, MirrorStep(i) \/ Crash(i) \/ Replaced(i) PROVE NoInventedMisses'
  BY <1>3, <1>6 DEF MirrorStep, Mirror, MirrorFails, Crash, Replaced, Ended, TypeOK
<1>7. ASSUME NEW i \in Instance, PollSync(i) PROVE NoInventedMisses'
  <2>1. copy' = [copy EXCEPT ![i] = SyncedCopy(i)] /\ UNCHANGED <<bucket, union, sought, unread>>
    BY <1>7 DEF PollSync
  <2> QED BY <1>3, <2>1 DEF TypeOK
<1> QED
  BY <1>1, <1>4, <1>5, <1>6, <1>7
  DEF Next, InstanceStep, ReadLists, vars, Start, ReadState, SkipState, ReadCity, SkipCity, Relist

\* Whatever fails and however runs overlap, every miss recorded in the bucket or
\* in any copy stands for another run that read the list of the station's city
\* in vain, or failed to read it although it had the cities of the state.
THEOREM MissesAreReal == Spec => []NoInventedMisses
<1>1. Init => TypeOK /\ ListsTold /\ NoInventedMisses
  BY InitTypeOK, InitListsTold, InitMisses
<1>2. TypeOK /\ ListsTold /\ NoInventedMisses /\ [Next]_vars
          => TypeOK' /\ ListsTold' /\ NoInventedMisses'
  BY StepTypeOK, StepListsTold, StepMisses
<1> QED BY <1>1, <1>2, PTL DEF Spec
=============================================================================
