-------------------------- MODULE StoredRowsProofs --------------------------
(***************************************************************************)
(* Proofs about the two parts that MC_StoredRows instantiates: the row of  *)
(* an hour, and the stations of a city: what curators wrote survives, and  *)
(* the history of a device is not split.                                   *)
(***************************************************************************)
EXTENDS ReadingsReconcile, StationIdentity, FiniteSetTheorems, TLAPS

(***************************************************************************)
(* The write path of readings (ReadingsReconcile), for any writers, fields *)
(* and values.                                                             *)
(***************************************************************************)

Payload == [vals : [Field -> Value \cup {NoValue}], flags : SUBSET Flag]

\* Who selected a curated row after it was curated so knows the verdict.
VerdictIsSeen ==
    row.state \in Curated =>
        \A w \in Writer \ behind : phase[w] = "selected" => seen[w].state = row.state

\* What a writer selected was explained by its flags.
SeenIsExplained ==
    \A w \in Writer : seen[w].state \in {"raw", "INVALID"} => seen[w].state = StateForFlags(seen[w].flags)

RowInv == TypeOK /\ VerdictIsSeen /\ SeenIsExplained /\ FlagsExplainState

-----------------------------------------------------------------------------
(* Operators.                                                                *)

LEMMA ValidatedType ==
    ASSUME NEW w \in Writer, NEW p \in Validated(w)
    PROVE  p \in Payload
<1>1. PICK v \in [Field -> Value \cup {NoValue}], bad \in SUBSET Field :
        p = [vals |-> [f \in Field |-> IF f \in bad THEN NoValue ELSE v[f]],
             flags |-> bad \cup (IF w \in UnitsDiffer THEN {Units} ELSE {})]
  BY DEF Validated
<1>2. [f \in Field |-> IF f \in bad THEN NoValue ELSE v[f]] \in [Field -> Value \cup {NoValue}]
  OBVIOUS
<1>3. bad \cup (IF w \in UnitsDiffer THEN {Units} ELSE {}) \in SUBSET Flag
  BY DEF Flag
<1> QED BY <1>1, <1>2, <1>3 DEF Payload

LEMMA DedupedType == ASSUME NEW p \in Payload, NEW q \in Payload PROVE Deduped(p, q) \in Payload
BY DEF Deduped, Payload

LEMMA IncomingType == ASSUME NEW w \in Writer, NEW p \in Incoming[w] PROVE p \in Payload
BY ValidatedType, DedupedType DEF Incoming

LEMMA MergedType ==
    ASSUME NEW q \in Quality, NEW p \in Payload
    PROVE  Merged(q, p) \in Quality
<1>1. p.flags \subseteq Flag /\ q.flags \subseteq Flag /\ q.state \in State
  BY DEF Payload, Quality
<1> QED BY <1>1 DEF Merged, Quality, StateForFlags, State, Curated

LEMMA WrittenType ==
    ASSUME NEW r \in Row, NEW q \in Quality, NEW p \in Payload
    PROVE  /\ Written(r, q, p) \in Row
           /\ QualityOf(Written(r, q, p)) = Merged(q, p)
<1>1. Merged(q, p) \in Quality
  BY MergedType
<1>2. [f \in Field |-> IF p.vals[f] # NoValue THEN p.vals[f] ELSE r.vals[f]] \in [Field -> Value \cup {NoValue}]
  BY DEF Payload, Row
<1> QED BY <1>1, <1>2 DEF Written, Row, Quality, QualityOf

\* Writing the same rows twice is writing them once.
LEMMA MergedTwice ==
    ASSUME NEW q \in Quality, NEW p \in Payload
    PROVE  Merged(Merged(q, p), p) = Merged(q, p)
<1> DEFINE remaining == (q.flags \ Present(p)) \cup p.flags
<1>1. p.flags \subseteq Flag /\ q.flags \subseteq Flag
  BY DEF Payload, Quality
<1>2. CASE q.state \in Curated
  <2>1. Merged(q, p) = [state |-> q.state, flags |-> q.flags \cup p.flags]
    BY <1>2 DEF Merged
  <2>2. Merged(Merged(q, p), p) = [state |-> q.state, flags |-> (q.flags \cup p.flags) \cup p.flags]
    BY <1>2, <2>1 DEF Merged
  <2>3. (q.flags \cup p.flags) \cup p.flags = q.flags \cup p.flags
    OBVIOUS
  <2> QED BY <2>1, <2>2, <2>3
<1>3. CASE q.state \notin Curated /\ Foreign(q)
  <2>1. Merged(q, p) = [state |-> "INVALID", flags |-> q.flags \cup p.flags]
    BY <1>3 DEF Merged
  <2>2. Foreign(Merged(q, p)) /\ Merged(q, p).state \notin Curated
    BY <1>3, <2>1 DEF Foreign, Curated
  <2>3. Merged(Merged(q, p), p) = [state |-> "INVALID", flags |-> (q.flags \cup p.flags) \cup p.flags]
    BY <2>1, <2>2 DEF Merged
  <2>4. (q.flags \cup p.flags) \cup p.flags = q.flags \cup p.flags
    OBVIOUS
  <2> QED BY <2>1, <2>3, <2>4
<1>4. CASE q.state \notin Curated /\ ~Foreign(q)
  <2>1. Merged(q, p) = [state |-> StateForFlags(remaining), flags |-> remaining]
    BY <1>4 DEF Merged
  <2>2. Merged(q, p).state = StateForFlags(remaining) /\ Merged(q, p).flags = remaining
    BY <2>1
  <2>3. StateForFlags(remaining) \notin Curated
    BY DEF StateForFlags, Curated
  <2>4. remaining \cup p.flags = remaining /\ (remaining \ Present(p)) \cup p.flags = remaining
    OBVIOUS
  <2> HIDE DEF remaining
  <2>5. CASE Foreign(Merged(q, p))
    <3>1. StateForFlags(remaining) = "INVALID"
      BY <2>2, <2>5 DEF Foreign
    <3> QED BY <2>1, <2>2, <2>3, <2>4, <2>5, <3>1 DEF Merged
  <2>6. CASE ~Foreign(Merged(q, p))
    BY <2>1, <2>2, <2>3, <2>4, <2>6 DEF Merged
  <2> QED BY <2>5, <2>6
<1> QED BY <1>2, <1>3, <1>4

LEMMA WrittenTwice ==
    ASSUME NEW r \in Row, NEW p \in Payload
    PROVE  LET once == Written(r, QualityOf(r), p) IN Written(once, QualityOf(once), p) = once
<1> DEFINE q == QualityOf(r)
           once == Written(r, q, p)
<1>1. q \in Quality
  BY DEF QualityOf, Row, Quality
<1>2. once \in Row /\ QualityOf(once) = Merged(q, p)
  BY <1>1, WrittenType
<1>3. Merged(QualityOf(once), p) = Merged(q, p)
  BY <1>1, <1>2, MergedTwice
<1>4. once.vals = [f \in Field |-> IF p.vals[f] # NoValue THEN p.vals[f] ELSE r.vals[f]]
  BY DEF Written
<1>5. [f \in Field |-> IF p.vals[f] # NoValue THEN p.vals[f] ELSE once.vals[f]] = once.vals
  BY <1>4
<1>6. once = [vals |-> once.vals, state |-> Merged(q, p).state, flags |-> Merged(q, p).flags]
  BY <1>4 DEF Written
<1>7. Written(once, QualityOf(once), p) =
        [vals |-> once.vals, state |-> Merged(q, p).state, flags |-> Merged(q, p).flags]
  <2> HIDE DEF once, q
  <2> QED BY <1>3, <1>5 DEF Written
<1> QED BY <1>6, <1>7

\* A field that arrives validly and unflagged is not flagged afterwards.
LEMMA WrittenHeals ==
    ASSUME NEW r \in Row, NEW w \in Writer, NEW p \in Validated(w),
           r.state \notin Curated, ~Foreign(r)
    PROVE  LET next == Written(r, QualityOf(r), p)
           IN  /\ next.flags \cap Present(p) = {}
               /\ (r.flags \cup p.flags) \cap Primary \subseteq Present(p) => next.state = "raw"
<1> DEFINE remaining == (r.flags \ Present(p)) \cup p.flags
<1>1. p.flags \cap Present(p) = {}
  BY ConstantsAssumption DEF Validated, Present
<1>2. /\ Written(r, QualityOf(r), p).state = StateForFlags(remaining)
      /\ Written(r, QualityOf(r), p).flags = remaining
  BY DEF Written, Merged, QualityOf, Foreign
<1>3. remaining \cap Present(p) = {}
  BY <1>1
<1>4. (r.flags \cup p.flags) \cap Primary \subseteq Present(p) => remaining \cap Primary = {}
  BY <1>1
<1>5. remaining \cap Primary = {} => StateForFlags(remaining) = "raw"
  BY DEF StateForFlags
<1> HIDE DEF remaining
<1> QED BY <1>2, <1>3, <1>4, <1>5

-----------------------------------------------------------------------------
(* Steps.                                                                    *)

LEMMA RowInitially == ReconcileInit => RowInv
<1> SUFFICES ASSUME ReconcileInit PROVE RowInv
  OBVIOUS
<1>1. NoRow \in Row /\ NothingSeen \in Quality /\ NoRow.state = "none"
  BY DEF NoRow, Row, NothingSeen, Quality, State
<1>2. row \in Row /\ row.state \in Curated \cup {"none"}
  <2>1. CASE row = NoRow
    BY <1>1, <2>1
  <2>2. CASE row \in [vals : [Field -> Value \cup {NoValue}], state : Curated, flags : {{}}]
    BY <2>2 DEF Row, State
  <2> QED BY <2>1, <2>2 DEF ReconcileInit
<1>3. TypeOK
  BY <1>1, <1>2 DEF ReconcileInit, TypeOK
<1>4. VerdictIsSeen
  BY DEF ReconcileInit, VerdictIsSeen
<1>5. FlagsExplainState /\ SeenIsExplained
  BY <1>2 DEF ReconcileInit, FlagsExplainState, SeenIsExplained, NothingSeen, Curated
<1> QED BY <1>3, <1>4, <1>5 DEF RowInv

\* What an upsert leaves, seen against the row it found: a verdict the writer knows
\* is kept, and the state is curated or explained by the flags.
LEMMA UpsertWrites ==
    ASSUME RowInv, NEW w \in Writer, NEW p \in Payload, phase[w] = "selected",
           row' = Written(row, seen[w], p)
    PROVE  /\ row' \in Row
           /\ row.state \in Curated /\ w \notin behind => row'.state = row.state
           /\ FlagsExplainState'
           /\ \A f \in Field : row.vals[f] # NoValue => row'.vals[f] # NoValue
<1>1. row \in Row /\ seen[w] \in Quality
  BY DEF RowInv, TypeOK
<1>2. /\ row'.state = Merged(seen[w], p).state
      /\ row'.flags = Merged(seen[w], p).flags
      /\ row'.vals = [f \in Field |-> IF p.vals[f] # NoValue THEN p.vals[f] ELSE row.vals[f]]
  BY DEF Written
<1>3. row' \in Row
  BY <1>1, WrittenType
<1>4. CASE seen[w].state \in Curated
  <2>1. row'.state = seen[w].state
    BY <1>2, <1>4 DEF Merged
  <2>2. row.state \in Curated /\ w \notin behind => seen[w].state = row.state
    BY DEF RowInv, VerdictIsSeen
  <2> QED BY <1>2, <1>3, <1>4, <2>1, <2>2 DEF FlagsExplainState, Curated
<1>5. CASE seen[w].state \notin Curated
  <2>1. ~ (row.state \in Curated /\ w \notin behind)
    BY <1>5 DEF RowInv, VerdictIsSeen
  <2>2. CASE Foreign(seen[w])
    <3>1. row'.state = "INVALID" /\ row'.flags = seen[w].flags \cup p.flags
      BY <1>2, <1>5, <2>2 DEF Merged
    <3>2. seen[w].flags \cap Primary # {}
      BY <2>2 DEF RowInv, SeenIsExplained, Foreign, StateForFlags
    <3>3. StateForFlags(row'.flags) = "INVALID"
      BY <3>1, <3>2 DEF StateForFlags
    <3> QED BY <1>2, <1>3, <2>1, <3>1, <3>3 DEF FlagsExplainState
  <2>3. CASE ~Foreign(seen[w])
    <3>1. row'.state = StateForFlags(row'.flags)
      BY <1>2, <1>5, <2>3 DEF Merged
    <3> QED BY <1>2, <1>3, <2>1, <3>1 DEF FlagsExplainState
  <2> QED BY <2>2, <2>3
<1> QED BY <1>4, <1>5

\* The end of a transaction: the others know of the row what they knew, unless it
\* was curated anew, and then they are behind.
LEMMA DoneKeeps ==
    ASSUME RowInv, NEW w \in Writer, Done(w), row' \in Row, FlagsExplainState',
           behind' \subseteq Writer,
           row'.state \in Curated =>
               \/ row'.state = row.state /\ behind' = behind \ {w}
               \/ behind' = Selected \ {w}
    PROVE  RowInv'
<1>1. NothingSeen \in Quality /\ NothingSeen.state = "none"
  BY DEF NothingSeen, Quality, State
<1>2. TypeOK'
  BY <1>1 DEF Done, RowInv, TypeOK
<1>3. \A u \in Writer : IF u = w THEN phase'[u] = "idle" /\ seen'[u] = NothingSeen
                       ELSE phase'[u] = phase[u] /\ seen'[u] = seen[u]
  BY DEF Done, RowInv, TypeOK
<1>4. VerdictIsSeen'
  BY <1>3 DEF RowInv, VerdictIsSeen, Selected
<1>6. SeenIsExplained'
  BY <1>1, <1>3 DEF RowInv, SeenIsExplained
<1> QED BY <1>2, <1>4, <1>6 DEF RowInv

LEMMA SelectIInv == ASSUME RowInv, NEW w \in Writer, Select(w) PROVE RowInv'
<1>1. QualityOf(row) \in Quality /\ QualityOf(row).state = row.state /\ QualityOf(row).flags = row.flags
  BY DEF RowInv, TypeOK, QualityOf, Row, Quality
<1>2. TypeOK'
  BY <1>1 DEF Select, RowInv, TypeOK
<1>3. /\ row' = row
      /\ \A u \in Writer : IF u = w THEN seen'[u] = QualityOf(row)
                          ELSE phase'[u] = phase[u] /\ seen'[u] = seen[u]
  BY DEF Select, RowInv, TypeOK
<1>4. VerdictIsSeen'
  BY <1>1, <1>3 DEF Select, RowInv, VerdictIsSeen
<1>6. SeenIsExplained' /\ FlagsExplainState'
  BY <1>1, <1>3 DEF RowInv, SeenIsExplained, FlagsExplainState
<1> QED BY <1>2, <1>4, <1>6 DEF RowInv

\* A verdict leaves every writer in flight behind.
LEMMA JudgeIInv == ASSUME RowInv, NEW state \in Curated, Judge(state) PROVE RowInv'
<1>1. /\ row'.state = state /\ row' \in Row /\ row'.vals = row.vals
      /\ phase' = phase /\ seen' = seen /\ behind' = Selected
  BY DEF Judge, RowInv, TypeOK, Row, State
<1>2. TypeOK'
  BY <1>1 DEF RowInv, TypeOK, Selected
<1>3. VerdictIsSeen'
  BY <1>1 DEF VerdictIsSeen, Selected
<1>4. SeenIsExplained' /\ FlagsExplainState'
  BY <1>1 DEF RowInv, SeenIsExplained, FlagsExplainState, Curated
<1> QED BY <1>2, <1>3, <1>4 DEF RowInv

\* Who may take a verdict away: see CuratedStays.
LosesVerdict ==
    row.state \in Curated /\ row'.state # row.state =>
        \/ UNCHANGED <<phase, seen>> /\ row'.state \in Curated
        \/ \E w \in behind : phase'[w] # phase[w]

\* What one step does to the row, and to the invariant.
LEMMA RowSteps ==
    ASSUME RowInv, ReconcileNext
    PROVE  /\ RowInv'
           /\ LosesVerdict
           /\ \A f \in Field : row.vals[f] # NoValue => row'.vals[f] # NoValue
<1>1. ASSUME NEW w \in Writer, Select(w)
      PROVE  RowInv' /\ row' = row
  BY <1>1, SelectIInv DEF Select
<1>2. ASSUME NEW w \in Writer, Upsert(w)
      PROVE  /\ RowInv'
             /\ LosesVerdict
             /\ \A f \in Field : row.vals[f] # NoValue => row'.vals[f] # NoValue
  <2>1. PICK p \in Incoming[w] : row' = Written(row, seen[w], p)
    BY <1>2 DEF Upsert
  <2>2. p \in Payload
    BY IncomingType
  <2>3. phase[w] = "selected" /\ Done(w)
    BY <1>2 DEF Upsert
  <2>4. /\ row' \in Row
        /\ row.state \in Curated /\ w \notin behind => row'.state = row.state
        /\ FlagsExplainState'
        /\ \A f \in Field : row.vals[f] # NoValue => row'.vals[f] # NoValue
    BY <2>1, <2>2, <2>3, UpsertWrites
  <2>5. /\ behind' \subseteq Writer
        /\ row'.state \in Curated =>
               \/ row'.state = row.state /\ behind' = behind \ {w}
               \/ behind' = Selected \ {w}
    BY <1>2 DEF Upsert, Selected, RowInv, TypeOK
  <2>6. phase'[w] # phase[w]
    BY <2>3 DEF Done, RowInv, TypeOK
  <2>7. LosesVerdict
    BY <2>4, <2>6 DEF LosesVerdict
  <2>8. RowInv'
    <3> HIDE DEF RowInv
    <3> QED BY <2>3, <2>4, <2>5, DoneKeeps
  <2> QED BY <2>4, <2>7, <2>8
<1>3. ASSUME NEW w \in Writer, Rollback(w)
      PROVE  RowInv' /\ row' = row
  <2>1. row' = row /\ Done(w) /\ behind' = behind \ {w}
    BY <1>3 DEF Rollback
  <2>2. row' \in Row /\ FlagsExplainState' /\ behind' \subseteq Writer
    BY <2>1 DEF RowInv, TypeOK, FlagsExplainState
  <2> HIDE DEF RowInv
  <2> QED BY <2>1, <2>2, DoneKeeps
<1>4. ASSUME NEW state \in Curated, Judge(state)
      PROVE  /\ RowInv'
             /\ LosesVerdict
             /\ row'.vals = row.vals
  <2>1. /\ row'.state = state /\ row'.vals = row.vals /\ UNCHANGED <<phase, seen>>
    BY <1>4 DEF Judge, RowInv, TypeOK, Row
  <2> QED BY <1>4, <2>1, JudgeIInv DEF LosesVerdict
<1> QED BY <1>1, <1>2, <1>3, <1>4 DEF ReconcileNext, LosesVerdict

LEMMA RowInvariant == ReconcileSpec => []RowInv
<1>1. RowInv /\ UNCHANGED reconcileVars => RowInv'
  BY DEF reconcileVars, RowInv, TypeOK, VerdictIsSeen, SeenIsExplained, FlagsExplainState
<1>2. RowInv /\ [ReconcileNext]_reconcileVars => RowInv'
  BY <1>1, RowSteps
<1> QED BY <1>2, RowInitially, PTL DEF ReconcileSpec

-----------------------------------------------------------------------------
(* The properties.                                                           *)

\* The row, and what a writer selected of it, are always well formed.
THEOREM RowTypeCorrect == ReconcileSpec => []TypeOK
BY RowInvariant, PTL DEF RowInv

\* No interleaving of writers removes a value once stored (build_upsert_sql).
THEOREM ValuesKept == ReconcileSpec => ValuesSurvive
<1>1. RowInv /\ [ReconcileNext]_reconcileVars => [\A f \in Field : row.vals[f] # NoValue => row'.vals[f] # NoValue]_reconcileVars
  BY RowSteps
<1> QED BY <1>1, RowInvariant, PTL DEF ReconcileSpec, ValuesSurvive

\* However writers and curators interleave, a verdict is replaced only by another
\* verdict or by a writer that had selected the row before it (merge_qc and the
\* upsert's qc_state = EXCLUDED.qc_state).
THEOREM CuratedKept == ReconcileSpec => CuratedStays
<1>1. RowInv /\ [ReconcileNext]_reconcileVars => [LosesVerdict]_reconcileVars
  BY RowSteps
<1> QED BY <1>1, RowInvariant, PTL DEF ReconcileSpec, CuratedStays, LosesVerdict

\* A state that is not curated is the one its flags stand for, whoever wrote last
\* (state_for_flags).
THEOREM FlagsExplained == ReconcileSpec => []FlagsExplainState
BY RowInvariant, PTL DEF RowInv

\* In every reachable state, writing the same rows again changes nothing.
THEOREM ReplayIdle == ReconcileSpec => []ReplayIsIdle
<1>1. RowInv => ReplayIsIdle
  BY IncomingType, WrittenTwice DEF RowInv, TypeOK, ReplayIsIdle
<1> QED BY <1>1, RowInvariant, PTL

\* In every reachable state, one undisturbed write clears the flags of the fields it
\* has a valid value for.
THEOREM WriteHeals == ReconcileSpec => []CleanWriteHeals
<1>1. RowInv => CleanWriteHeals
  BY WrittenHeals DEF RowInv, TypeOK, CleanWriteHeals
<1> QED BY <1>1, RowInvariant, PTL

(***************************************************************************)
(* The identity of stations (StationIdentity).                             *)
(***************************************************************************)

\* An edit is in the station, in the row a batch writes over it, and in what an
\* upsert has read of it.
EditStays(c) ==
    LET k == edited[c] IN
    /\ station[k] # None
    /\ c \notin raced =>
          /\ c \in station[k].curated
          /\ batch[k] # None => c \in batch[k].row.curated
          /\ look # None /\ look.id = k => c \in look.curated
EditsStay == \A c \in Edit : edited[c] # None => EditStays(c)

CurationInv == IdentityTypeOK /\ EditsStay

-----------------------------------------------------------------------------
LEMMA IdentityVarsUnchanged == UNCHANGED identityVars =>
    UNCHANGED <<at, changes, named, faults, progress, entries, listed_names, found, look, edited, raced,
                station, batch, manifest, readings, seenAs, excused>>
BY DEF identityVars, provider, run, curation

LEMMA CurationInitially == IdentityInit => CurationInv
<1> USE IdentityAssumption DEF IdentityInit, NoRows, Nowhere, Place, Id
<1>1. IdentityInit => IdentityTypeOK
  BY DEF IdentityTypeOK
<1>2. IdentityInit => EditsStay
  BY DEF EditsStay
<1> QED BY <1>1, <1>2 DEF CurationInv

\* Typing of the operators.
LEMMA NotNone ==
    /\ \A x \in Place : x # None
    /\ \A x \in Station : x # None
    /\ \A x \in Pending : x # None
    /\ \A x \in ManifestRow : x # None
    /\ \A x \in Look : x # None
BY IdentityAssumption

LEMMA SeenIs ==
    ASSUME IdentityTypeOK, NEW k \in Id
    PROVE  /\ Seen(k) \in Station \cup {None}
           /\ batch[k] = None => Seen(k) = station[k]
           /\ batch[k] # None => Seen(k) = batch[k].row /\ Seen(k) \in Station /\ Seen(k) # None
           /\ station[k] # None => Seen(k) # None
           /\ k \in Stations <=> Seen(k) # None
<1>1. batch[k] \in Pending \cup {None} /\ station[k] \in Station \cup {None}
  BY DEF IdentityTypeOK
<1>2. batch[k] # None => batch[k].row \in Station
  BY <1>1 DEF Pending
<1> QED BY <1>1, <1>2, NotNone DEF Seen, Stations

LEMMA ListedIs ==
    ASSUME IdentityTypeOK, NEW d \in Listed
    PROVE  d \in Device /\ at[d] \in Place /\ at[d].name \in Name /\ at[d].site \in Site
BY DEF Listed, IdentityTypeOK, Place

-----------------------------------------------------------------------------
(* The steps, type by type.                                                  *)

LEMMA ProviderTyped ==
    ASSUME IdentityTypeOK, NEW d \in Device, ProviderChanges(d)
    PROVE  /\ IdentityTypeOK' /\ UNCHANGED <<faults, progress, entries, listed_names, found, look, edited, raced,
                                             station, batch, manifest, readings, seenAs>>
<1>1. ASSUME NEW p \in Place \cup {None}, Changes(d, p), named' \in [Device -> SUBSET Name], excused' \subseteq Device
      PROVE  /\ IdentityTypeOK' /\ UNCHANGED <<faults, progress, entries, listed_names, found, look, edited, raced,
                                               station, batch, manifest, readings, seenAs>>
  <2>1. UNCHANGED <<faults, progress, entries, listed_names, found, look, edited, raced,
                                               station, batch, manifest, readings, seenAs>>
    BY <1>1 DEF Changes, run, curation
  <2>2. at' \in [Device -> Place \cup {None}] /\ changes' \in 0 .. MaxChanges
    BY <1>1, IdentityAssumption DEF Changes, IdentityTypeOK
  <2> QED BY <1>1, <2>1, <2>2 DEF IdentityTypeOK
<1>2. ASSUME NEW n \in Name, Takes(d, n) PROVE named' \in [Device -> SUBSET Name] /\ excused' \subseteq Device
  BY <1>2 DEF Takes, Users, IdentityTypeOK
<1>3. named \in [Device -> SUBSET Name] /\ excused \subseteq Device /\ at[d] \in Place \cup {None}
  BY DEF IdentityTypeOK
<1>4. ASSUME NEW p \in Place, Appear(d, p)
      PROVE  p.name \in Name
  BY DEF Place
<1>5. CASE \E p \in Place : Appear(d, p)
  BY <1>1, <1>2, <1>4, <1>5 DEF Appear
<1>6. CASE Disappear(d)
  BY <1>1, <1>3, <1>6 DEF Disappear
<1>7. CASE \E n \in Name : Rename(d, n)
  <2>1. \A n \in Name : at[d] # None => [at[d] EXCEPT !.name = n] \in Place
    BY <1>3 DEF Place
  <2> QED BY <1>1, <1>2, <1>7, <2>1 DEF Rename
<1>8. CASE \E x \in Site : Move(d, x)
  <2>1. \A x \in Site : at[d] # None => [at[d] EXCEPT !.site = x] \in Place
    BY <1>3 DEF Place
  <2> QED BY <1>1, <1>3, <1>8, <2>1 DEF Move
<1> QED BY <1>5, <1>6, <1>7, <1>8 DEF ProviderChanges

LEMMA ReadCityTyped ==
    ASSUME IdentityTypeOK, ReadCity
    PROVE  /\ IdentityTypeOK' /\ UNCHANGED <<at, changes, named, faults, edited, raced, found, look, station, batch,
                                             manifest, readings, seenAs>>
<1>1. /\ UNCHANGED <<at, changes, named, faults, edited, raced, found, look, station, batch, manifest, readings, seenAs>>
      /\ progress' = "upserting" /\ excused' = excused \cup Confused
      /\ entries' = {[name |-> at[d].name, site |-> at[d].site, device |-> d] : d \in Listed}
      /\ listed_names' = {at[d].name : d \in Listed}
  BY DEF ReadCity, provider, curation
<1>2. entries' \subseteq Entry /\ listed_names' \subseteq Name
  BY <1>1, ListedIs DEF Entry
<1>3. Confused \subseteq Device
  BY DEF Confused, Newcomers, Mistakable, Listed
<1> QED BY <1>1, <1>2, <1>3 DEF IdentityTypeOK

LEMMA LookTyped ==
    ASSUME IdentityTypeOK, NEW e \in Entry,
           LookNative(e) \/ LookConflict(e) \/ LookRenamed(e) \/ LookNew(e)
    PROVE  \E k \in Id \cup {None} :
              /\ Looking(e, k) /\ e \in entries /\ look = None /\ look' \in Look /\ look'.id = k /\ look'.entry = e
              /\ look'.curated = (IF k \in Stations THEN Seen(k).curated ELSE {})
              /\ UNCHANGED <<at, changes, named, faults, edited, raced, progress, entries, listed_names, found,
                             station, batch, manifest, readings, seenAs, excused>>
              /\ IdentityTypeOK'
<1>1. ASSUME NEW k \in Id \cup {None}, Looking(e, k)
      PROVE  /\ e \in entries /\ look = None /\ look' \in Look /\ look'.id = k /\ look'.entry = e
             /\ look'.curated = (IF k \in Stations THEN Seen(k).curated ELSE {})
             /\ UNCHANGED <<at, changes, named, faults, edited, raced, progress, entries, listed_names, found,
                             station, batch, manifest, readings, seenAs, excused>>
             /\ IdentityTypeOK'
  <2>1. /\ e \in entries /\ look = None
        /\ look' = [entry |-> e, id |-> k, curated |-> IF k \in Stations THEN Seen(k).curated ELSE {}]
        /\ UNCHANGED <<at, changes, named, faults, edited, raced, progress, entries, listed_names, found,
                             station, batch, manifest, readings, seenAs, excused>>
    BY <1>1 DEF Looking, provider, curation
  <2>2. (IF k \in Stations THEN Seen(k).curated ELSE {}) \in SUBSET Edit
    <3>1. k \in Stations => k \in Id /\ Seen(k) \in Station
      BY SeenIs DEF Stations
    <3> QED BY <3>1 DEF Station
  <2>3. look' \in Look
    BY <2>1, <2>2 DEF Look
  <2> QED BY <2>1, <2>3 DEF IdentityTypeOK
<1>2. ComputedId(e) \in Id
  BY DEF ComputedId, Id, Place, Entry
<1>3. ByNative(e.name) \subseteq Id /\ RenameSource(e) \subseteq Id
  BY DEF ByNative, Stations, RenameSource, VanishedAt
<1>4. \E k \in Id \cup {None} : Looking(e, k)
  BY <1>2, <1>3 DEF LookNative, LookConflict, LookRenamed, LookNew
<1> QED BY <1>1, <1>4

LEMMA UpsertedTyped ==
    ASSUME IdentityTypeOK, NEW k \in Id \cup {None}, Upserted(k),
           batch' \in [Id -> Pending \cup {None}], faults' \in 0 .. MaxFaults, excused' \subseteq Device
    PROVE  /\ look \in Look /\ look' = None
           /\ UNCHANGED <<at, changes, named, edited, raced, progress, listed_names, station, manifest, readings, seenAs>>
           /\ IdentityTypeOK'
<1>1. look \in Look /\ look.entry \in Entry
  BY DEF Upserted, IdentityTypeOK, Look
<1>2. found' \in [Name -> ManifestRow \cup {None}] /\ entries' \subseteq Entry
  BY <1>1 DEF Upserted, IdentityTypeOK, ManifestRow, Entry
<1>3. look' = None /\ UNCHANGED <<at, changes, named, edited, raced, progress, listed_names, station, manifest, readings, seenAs>>
  BY DEF Upserted, provider, curation
<1> QED BY <1>1, <1>2, <1>3 DEF IdentityTypeOK

LEMMA WriteTyped ==
    ASSUME IdentityTypeOK, Write
    PROVE  /\ look \in Look /\ look.id \in Id /\ look' = None
           /\ batch' \in [Id -> Pending \cup {None}] /\ batch'[look.id] # None
           /\ batch'[look.id].row.curated = look.curated
           /\ \A k \in Id : k # look.id => batch'[k] = batch[k]
           /\ UNCHANGED <<at, changes, named, edited, raced, progress, listed_names, station, manifest, readings, seenAs,
                          excused, faults>>
           /\ IdentityTypeOK'
<1> DEFINE r == [name |-> look.entry.name, site |-> look.entry.site, curated |-> look.curated]
           p == [row |-> r, device |-> look.entry.device]
<1>1. look \in Look /\ look.entry \in Entry /\ look.id \in Id /\ look.curated \in SUBSET Edit
  BY DEF Write, IdentityTypeOK, Look
<1>2. batch' = [batch EXCEPT ![look.id] = p] /\ UNCHANGED <<excused, faults>> /\ Upserted(look.id)
  BY DEF Write, MergedMeta
<1>3. p \in Pending /\ p.row.curated = look.curated
  BY <1>1 DEF Pending, Station, Entry
<1> HIDE DEF p
<1>4. /\ batch' \in [Id -> Pending \cup {None}] /\ batch'[look.id] = p
      /\ \A k \in Id : k # look.id => batch'[k] = batch[k]
  BY <1>1, <1>2, <1>3 DEF IdentityTypeOK
<1>5. faults' \in 0 .. MaxFaults /\ excused' \subseteq Device
  BY <1>2 DEF IdentityTypeOK
<1> QED BY <1>1, <1>2, <1>3, <1>4, <1>5, NotNone, UpsertedTyped

LEMMA UpsertedNoneTyped ==
    ASSUME IdentityTypeOK, Conflict \/ UpsertFails
    PROVE  /\ look \in Look /\ look' = None
           /\ UNCHANGED <<at, changes, named, edited, raced, progress, listed_names, station, batch, manifest, readings, seenAs>>
           /\ IdentityTypeOK'
<1>1. Upserted(None) /\ UNCHANGED batch
  BY DEF Conflict, UpsertFails
<1>2. look \in Look /\ look.entry \in Entry
  BY <1>1 DEF Upserted, IdentityTypeOK, Look
<1>3. faults' \in 0 .. MaxFaults
  BY IdentityAssumption DEF Conflict, UpsertFails, Fault, IdentityTypeOK
<1>4. excused' \subseteq Device
  BY <1>2 DEF Conflict, UpsertFails, IdentityTypeOK, Entry
<1> QED BY <1>1, <1>3, <1>4, UpsertedTyped DEF IdentityTypeOK

LEMMA CommitTyped ==
    ASSUME IdentityTypeOK, Commit
    PROVE  /\ look = None /\ look' = None /\ batch' = NoRows /\ \A k \in Id : station'[k] = Seen(k)
           /\ UNCHANGED <<at, changes, named, edited, raced>>
           /\ IdentityTypeOK'
<1>1. /\ station' = [k \in Id |-> Seen(k)] /\ batch' = NoRows /\ look = None /\ look' = None
      /\ seenAs' = [d \in Device |-> IF d \in Batched THEN WrittenAs(d) ELSE seenAs[d]]
      /\ UNCHANGED <<at, changes, named, faults, progress, entries, listed_names, found, edited, raced,
                     manifest, readings, excused>>
  BY DEF Commit, provider, run, curation
<1>2. station' \in [Id -> Station \cup {None}]
  BY <1>1, SeenIs
<1>3. ASSUME NEW d \in Batched PROVE WrittenAs(d) \in Place
  <2> DEFINE k == CHOOSE k \in Id : batch[k] # None /\ batch[k].device = d
  <2>1. k \in Id /\ batch[k] # None
    BY <1>3 DEF Batched
  <2>2. batch[k].row \in Station
    BY <2>1 DEF IdentityTypeOK, Pending
  <2> HIDE DEF k
  <2>3. [name |-> batch[k].row.name, site |-> batch[k].row.site] \in Place
    BY <2>2 DEF Place, Station
  <2> QED BY <2>3 DEF WrittenAs, k
<1>4. seenAs' \in [Device -> Place \cup {None}]
  BY <1>1, <1>3 DEF IdentityTypeOK
<1>5. batch' \in [Id -> Pending \cup {None}]
  BY <1>1 DEF NoRows
<1> QED BY <1>1, <1>2, <1>4, <1>5 DEF IdentityTypeOK

LEMMA EndsTyped ==
    ASSUME IdentityTypeOK, CommitFails \/ PublishManifest \/ RunCrashes
    PROVE  /\ look' = None /\ (batch' = NoRows \/ batch' = batch)
           /\ UNCHANGED <<at, changes, named, edited, raced, station, readings, seenAs>>
           /\ IdentityTypeOK'
<1>1. NoRows \in [Id -> Pending \cup {None}] /\ Nowhere \in [Name -> ManifestRow \cup {None}]
  BY DEF NoRows, Nowhere
<1>2. CASE CommitFails
  <2>1. Batched \subseteq Device
    BY DEF Batched
  <2>2. /\ faults' \in 0 .. MaxFaults /\ look' = None /\ batch' = NoRows /\ entries' = {} /\ excused' \subseteq Device
        /\ UNCHANGED <<at, changes, named, edited, raced, progress, listed_names, found, station, manifest,
                       readings, seenAs>>
    BY <1>2, <2>1, IdentityAssumption DEF CommitFails, Fault, IdentityTypeOK, provider, curation
  <2> QED BY <1>1, <2>2 DEF IdentityTypeOK
<1>3. CASE PublishManifest
  <2>1. /\ manifest' = [n \in Name |-> IF found[n] # None THEN found[n] ELSE manifest[n]]
        /\ progress' = "idle" /\ listed_names' = {} /\ found' = Nowhere /\ look' = None
        /\ UNCHANGED <<at, changes, named, faults, edited, raced, entries, station, batch, readings, seenAs, excused>>
    BY <1>3 DEF PublishManifest, provider, curation
  <2>2. manifest' \in [Name -> ManifestRow \cup {None}]
    BY <2>1 DEF IdentityTypeOK
  <2> QED BY <1>1, <2>1, <2>2 DEF IdentityTypeOK
<1>4. CASE RunCrashes
  <2>1. /\ faults' \in 0 .. MaxFaults /\ progress' = "idle" /\ entries' = {} /\ listed_names' = {}
        /\ found' = Nowhere /\ look' = None /\ batch' = NoRows
        /\ UNCHANGED <<at, changes, named, edited, raced, station, manifest, readings, seenAs, excused>>
    BY <1>4, IdentityAssumption DEF RunCrashes, Fault, IdentityTypeOK, provider, curation
  <2> QED BY <1>1, <2>1 DEF IdentityTypeOK
<1> QED BY <1>2, <1>3, <1>4

LEMMA HourlyTyped ==
    ASSUME IdentityTypeOK, HourlyRun
    PROVE  /\ UNCHANGED <<at, changes, named, faults, progress, entries, listed_names, found, look, edited, raced,
                          station, batch, manifest, seenAs, excused>>
           /\ IdentityTypeOK'
<1>1. /\ UNCHANGED <<at, changes, named, faults, progress, entries, listed_names, found, look, edited, raced,
                     station, batch, manifest, seenAs, excused>>
      /\ readings' = [k \in Id |-> readings[k] \cup {d \in Answering : ScopeKey(at[d].name) = k}]
  BY DEF HourlyRun, provider, run, curation
<1>2. Answering \subseteq Device
  BY DEF Answering, Listed
<1>3. readings' \in [Id -> SUBSET Device]
  BY <1>1, <1>2 DEF IdentityTypeOK
<1> QED BY <1>1, <1>3 DEF IdentityTypeOK

LEMMA CurateTyped ==
    ASSUME IdentityTypeOK, NEW c \in Edit, NEW k \in Id, Curate(c, k)
    PROVE  /\ edited[c] = None /\ station[k] # None /\ batch[k] = None
           /\ \A j \in Id : j # k => station'[j] = station[j]
           /\ station'[k] \in Station /\ station'[k].curated = station[k].curated \cup {c}
           /\ station'[k].name = station[k].name /\ station'[k].site = station[k].site
           /\ edited'[c] = k /\ \A b \in Edit : b # c => edited'[b] = edited[b]
           /\ raced' = (IF look # None /\ look.id = k THEN raced \cup {c} ELSE raced)
           /\ UNCHANGED <<at, changes, named, faults, progress, entries, listed_names, found, look, batch, manifest,
                          readings, seenAs, excused>>
           /\ IdentityTypeOK'
<1>1. /\ station' = [station EXCEPT ![k].curated = @ \cup {c}] /\ edited' = [edited EXCEPT ![c] = k]
      /\ edited[c] = None /\ station[k] # None /\ batch[k] = None
      /\ raced' = (IF look # None /\ look.id = k THEN raced \cup {c} ELSE raced)
      /\ UNCHANGED <<at, changes, named, faults, progress, entries, listed_names, found, look, batch, manifest,
                     readings, seenAs, excused>>
  BY DEF Curate, provider, run
<1>2. station[k] \in Station
  BY <1>1 DEF IdentityTypeOK
<1>3. [station[k] EXCEPT !.curated = @ \cup {c}] \in Station
  BY <1>2 DEF Station
<1>4. /\ station'[k] \in Station /\ station'[k].curated = station[k].curated \cup {c}
      /\ station'[k].name = station[k].name /\ station'[k].site = station[k].site
      /\ station' \in [Id -> Station \cup {None}] /\ \A j \in Id : j # k => station'[j] = station[j]
  BY <1>1, <1>2, <1>3 DEF Station, IdentityTypeOK
<1>5. /\ edited' \in [Edit -> Id \cup {None}] /\ edited'[c] = k /\ \A b \in Edit : b # c => edited'[b] = edited[b]
      /\ raced' \subseteq Edit
  BY <1>1 DEF IdentityTypeOK
<1> QED BY <1>1, <1>4, <1>5 DEF IdentityTypeOK

-----------------------------------------------------------------------------
LEMMA EditedId ==
    ASSUME IdentityTypeOK, NEW c \in Edit, edited[c] # None
    PROVE  edited[c] \in Id
BY DEF IdentityTypeOK

LEMMA CurationStep == CurationInv /\ [IdentityNext]_identityVars => CurationInv'
<1> SUFFICES ASSUME CurationInv, [IdentityNext]_identityVars PROVE CurationInv'
  OBVIOUS
<1> USE DEF CurationInv
<1> DEFINE Quiet == UNCHANGED <<edited, raced, station>>
<1>0. ASSUME IdentityTypeOK', Quiet, batch' = NoRows \/ batch' = batch, look' = None \/ look' = look
      PROVE  CurationInv'
  <2>1. ASSUME NEW c \in Edit, edited'[c] # None PROVE EditStays(c)'
    <3>1. edited[c] = edited'[c] /\ EditStays(c) /\ edited[c] \in Id
      BY <1>0, <2>1, EditedId DEF EditsStay
    <3>2. NoRows[edited[c]] = None
      BY <3>1 DEF NoRows
    <3> QED BY <1>0, <3>1, <3>2 DEF EditStays
  <2> QED BY <1>0, <2>1 DEF EditsStay
<1>1. CASE UNCHANGED identityVars
  <2>1. IdentityTypeOK'
    BY <1>1, IdentityVarsUnchanged DEF IdentityTypeOK
  <2> QED BY <1>0, <1>1, <2>1, IdentityVarsUnchanged
<1>2. CASE \E d \in Device : ProviderChanges(d)
  BY <1>0, <1>2, ProviderTyped
<1>3. CASE HourlyRun
  BY <1>0, <1>3, HourlyTyped
<1>4. CASE ReadCity
  BY <1>0, <1>4, ReadCityTyped
<1>5. ASSUME NEW e \in Entry, LookNative(e) \/ LookConflict(e) \/ LookRenamed(e) \/ LookNew(e)
      PROVE  CurationInv'
  <2>1. PICK k \in Id \cup {None} :
              /\ look' \in Look /\ look'.id = k
              /\ look'.curated = (IF k \in Stations THEN Seen(k).curated ELSE {})
              /\ UNCHANGED <<edited, raced, station, batch>>
              /\ IdentityTypeOK'
    BY <1>5, LookTyped
  <2>2. ASSUME NEW c \in Edit, edited'[c] # None PROVE EditStays(c)'
    <3>1. edited'[c] = edited[c] /\ EditStays(c) /\ edited[c] \in Id
      BY <2>1, <2>2, EditedId DEF EditsStay
    <3>2. c \notin raced => c \in Seen(edited[c]).curated /\ edited[c] \in Stations
      BY <3>1, SeenIs DEF EditStays
    <3> QED BY <2>1, <3>1, <3>2 DEF EditStays
  <2> QED BY <2>1, <2>2 DEF EditsStay
<1>6. CASE Write
  <2>1. ASSUME NEW c \in Edit, edited'[c] # None PROVE EditStays(c)'
    <3>1. edited[c] = edited'[c] /\ EditStays(c) /\ edited[c] \in Id
      BY <1>6, <2>1, EditedId, WriteTyped DEF EditsStay
    <3>2. look # None
      BY <1>6 DEF Write
    <3> QED BY <1>6, <3>1, <3>2, WriteTyped DEF EditStays
  <2> QED BY <1>6, <2>1, WriteTyped DEF EditsStay
<1>7. CASE Conflict \/ UpsertFails
  BY <1>0, <1>7, UpsertedNoneTyped
<1>8. CASE Commit
  <2>1. ASSUME NEW c \in Edit, edited'[c] # None PROVE EditStays(c)'
    <3>1. edited[c] = edited'[c] /\ EditStays(c) /\ edited[c] \in Id /\ raced' = raced
      BY <1>8, <2>1, EditedId, CommitTyped DEF EditsStay
    <3>2. Seen(edited[c]) # None /\ (c \notin raced => c \in Seen(edited[c]).curated)
      BY <3>1, SeenIs DEF EditStays
    <3>3. station'[edited[c]] = Seen(edited[c]) /\ batch'[edited[c]] = None /\ look' = None
      BY <1>8, <3>1, CommitTyped DEF NoRows
    <3> QED BY <3>1, <3>2, <3>3 DEF EditStays
  <2> QED BY <1>8, <2>1, CommitTyped DEF EditsStay
<1>9. CASE CommitFails \/ PublishManifest \/ RunCrashes
  BY <1>0, <1>9, EndsTyped
<1>10. ASSUME NEW b \in Edit, NEW k \in Id, Curate(b, k) PROVE CurationInv'
  <2>1. ASSUME NEW c \in Edit, edited'[c] # None PROVE EditStays(c)'
    <3>0. station'[k] # None
      BY <1>10, CurateTyped, NotNone
    <3>1. CASE c = b
      BY <1>10, <3>0, <3>1, CurateTyped DEF EditStays
    <3>2. CASE c # b
      <4>1. edited[c] = edited'[c] /\ EditStays(c) /\ edited[c] \in Id
        BY <1>10, <2>1, <3>2, EditedId, CurateTyped DEF EditsStay
      <4>2. c \notin raced' => c \notin raced
        BY <1>10, CurateTyped
      <4>3. station[edited[c]].curated \subseteq station'[edited[c]].curated /\ station'[edited[c]] # None
        BY <1>10, <3>0, <4>1, CurateTyped DEF EditStays
      <4>4. UNCHANGED <<batch, look>>
        BY <1>10, CurateTyped
      <4> QED BY <4>1, <4>2, <4>3, <4>4 DEF EditStays
    <3> QED BY <3>1, <3>2
  <2> QED BY <1>10, <2>1, CurateTyped DEF EditsStay
<1> QED BY <1>1, <1>2, <1>3, <1>4, <1>5, <1>6, <1>7, <1>8, <1>9, <1>10 DEF IdentityNext, UpsertStation

LEMMA CurationInvariant == IdentitySpec => []CurationInv
BY CurationInitially, CurationStep, PTL DEF IdentitySpec

\* The state of discovery, of its tables and of the provider's list has its type.
\* (upsert_station, finalize_union_manifest, _build_scope_key)
THEOREM IdentityTypeCorrect == IdentitySpec => []IdentityTypeOK
<1>1. CurationInv => IdentityTypeOK
  BY DEF CurationInv
<1> QED BY <1>1, CurationInvariant, PTL

\* No discovery, whatever fails in it, drops a key a curator added, but one that
\* had read the row before the edit.  (merge_discovery_metadata, upsert_station)
THEOREM CuratedSurvive == IdentitySpec => []CuratedKeysSurvive
<1>1. CurationInv => CuratedKeysSurvive
  BY DEF CurationInv, EditsStay, EditStays, CuratedKeysSurvive
<1> QED BY <1>1, CurationInvariant, PTL

(***************************************************************************)
(* One id per device (StationIdentity).  A device that discovery can       *)
(* follow owns its names; every station is of a device by its name and by  *)
(* the name its id was made from, and the two agree.  An entry can take    *)
(* only a station that vanished at its site, and such stations only become *)
(* fewer while a run upserts: so what was true of an entry when the city   *)
(* was read is still true when it is looked up.                            *)
(***************************************************************************)

\* Devices discovery can follow, and names some device has had.
Good == Device \ excused
Used(n) == Users(n) # {}

\* A name a good device has had is its own.
NamesOwn ==
    /\ \A d \in Good, e \in Device : \A n \in Name : n \in named[d] /\ n \in named[e] => d = e
    /\ \A d \in Device : (at[d] # None => at[d].name \in named[d])
                         /\ (seenAs[d] # None => seenAs[d].name \in named[d])
    /\ \A d, e \in Listed : at[d].name = at[e].name => d = e

\* A station is of a device twice over: by the name it has now and by the name
\* its id was made from.
RowFits(k, r) ==
    /\ Used(k.name) /\ Used(r.name)
    /\ \A d \in Good : r.name \in named[d] <=> k.name \in named[d]
TablesFit ==
    \A k \in Id :
       /\ station[k] # None => RowFits(k, station[k])
       /\ batch[k] # None => RowFits(k, batch[k].row) /\ batch[k].row.name \in named[batch[k].device]

\* A good device has one station, which has the name it was last seen by.
Ids(d) == {k \in Stations : k.name \in named[d]}
OneStation == \A d \in Good : \A j, k \in Ids(d) : j = k
SeenFits ==
    \A d \in Good, k \in Id :
       station[k] # None /\ k.name \in named[d] => seenAs[d] # None /\ station[k].name = seenAs[d].name

\* An entry without a station of its name can take nothing but its device's own,
\* and a good device's own is all that vanished at its site.
VanishFits(e) ==
    LET vanished == VanishedAt(e.site, listed_names)
    IN  ByNative(e.name) = {} =>
          /\ \A k \in vanished, d \in Good : k.name \in named[d] => d = e.device
          /\ e.device \in Good => vanished = Ids(e.device)
EntriesFit ==
    /\ progress = "idle" => batch = NoRows /\ look = None
    /\ \A e \in entries : e.name \in listed_names /\ e.name \in named[e.device] /\ VanishFits(e)
    /\ \A e, f \in entries : e.name = f.name \/ e.device = f.device => e = f

\* What an upsert is about to write is of its entry's device.
LookFits ==
    look # None =>
       /\ look.entry \in entries
       /\ look.id = None => ComputedId(look.entry) \in Stations
       /\ look.id # None =>
             /\ Used(look.id.name)
             /\ look.id \in Stations =>
                   Seen(look.id).name = look.entry.name \/ Seen(look.id).name \notin listed_names
             /\ \A d \in Good : look.id.name \in named[d] <=> d = look.entry.device
             /\ look.entry.device \in Good => Ids(look.entry.device) \subseteq {look.id}

\* The id the hourly job uses for a row r of the manifest.
KeyOf(n, r) == IF r.id # None THEN r.id ELSE [name |-> n, site |-> r.site]
RowsFit ==
    \A n \in Name :
       /\ found[n] # None => Used(n) /\ \A d \in Good : n \in named[d] => KeyOf(n, found[n]) \in Ids(d)
       /\ manifest[n] # None =>
             Used(n) /\ \A d \in Good : n \in named[d] =>
                           LET k == KeyOf(n, manifest[n]) IN station[k] # None /\ k.name \in named[d]
ReadingsFit ==
    \A d \in Good, k \in Id : d \in readings[k] => station[k] # None /\ k.name \in named[d]

OneIdInv ==
    /\ NamesOwn /\ TablesFit /\ OneStation /\ SeenFits
    /\ EntriesFit /\ LookFits /\ RowsFit /\ ReadingsFit

-----------------------------------------------------------------------------
LEMMA LookedIs ==
    ASSUME IdentityTypeOK, look # None
    PROVE  look.entry \in Entry /\ look.entry.name \in Name /\ look.entry.device \in Device /\ look.id \in Id \cup {None}
BY DEF IdentityTypeOK, Look, Entry

LEMMA StationRow ==
    ASSUME IdentityTypeOK, TablesFit, NEW k \in Stations
    PROVE  k \in Id /\ Seen(k) \in Station /\ RowFits(k, Seen(k))
<1>1. k \in Id /\ Seen(k) # None
  BY DEF Stations
<1> QED BY <1>1, SeenIs DEF TablesFit

LEMMA IdName == \A k \in Id : k.name \in Name
BY DEF Id, Place

LEMMA RowNames ==
    ASSUME IdentityTypeOK
    PROVE  /\ \A k \in Id : k.name \in Name
           /\ \A k \in Id : station[k] # None => station[k] \in Station /\ station[k].name \in Name
           /\ \A k \in Id : batch[k] # None => batch[k] \in Pending /\ batch[k].row \in Station
                                               /\ batch[k].row.name \in Name /\ batch[k].device \in Device
<1>1. \A r \in Station : r.name \in Name
  BY DEF Station
<1>2. \A p \in Pending : p.row \in Station /\ p.device \in Device
  BY DEF Pending
<1> QED BY <1>1, <1>2, IdName DEF IdentityTypeOK

\* Tables that show the same names at the same sites.
SameNames ==
    \A k \in Id :
       /\ k \in Stations' <=> k \in Stations
       /\ k \in Stations => Seen(k)'.name = Seen(k).name /\ Seen(k)'.site = Seen(k).site

LEMMA SameLooks ==
    ASSUME SameNames
    PROVE  /\ Stations' = Stations
           /\ \A n : ByNative(n)' = ByNative(n)
           /\ \A x, ns : VanishedAt(x, ns)' = VanishedAt(x, ns)
<1>1. Stations \subseteq Id /\ Stations' \subseteq Id
  BY DEF Stations
<1>2. Stations' = Stations
  BY <1>1 DEF SameNames
<1> QED BY <1>1, <1>2 DEF SameNames, ByNative, VanishedAt

LEMMA SameTables == UNCHANGED <<station, batch>> => SameNames
<1> SUFFICES ASSUME UNCHANGED <<station, batch>> PROVE SameNames
  OBVIOUS
<1>1. \A k : Seen(k)' = Seen(k)
  BY DEF Seen
<1> QED BY <1>1 DEF SameNames, Stations

-----------------------------------------------------------------------------
(* Names.                                                                    *)

\* What a step may do to names: a device takes none that is another's, unless
\* it can be followed no more.
NamesStep ==
    /\ Good' \subseteq Good
    /\ \A d \in Device : named[d] \subseteq named'[d]
    /\ \A n \in Name : Used(n) => Used(n)'
    /\ \A d \in Good', n \in Name : Used(n) => (n \in named'[d] <=> n \in named[d])

LEMMA SameNamed ==
    ASSUME named' = named, excused \subseteq excused'
    PROVE  NamesStep /\ \A n : Used(n)' <=> Used(n)
BY DEF NamesStep, Good, Used, Users

LEMMA TakesNames ==
    ASSUME IdentityTypeOK, NamesOwn, NEW d \in Device, NEW n \in Name, Takes(d, n)
    PROVE  /\ NamesStep /\ n \in named'[d]
           /\ \A e \in Good', f \in Device, m \in Name : m \in named'[e] /\ m \in named'[f] => e = f
<1>1. /\ named' = [named EXCEPT ![d] = @ \cup {n}]
      /\ excused' = IF Fresh(d, n) THEN excused ELSE excused \cup Users(n) \cup {d}
      /\ named \in [Device -> SUBSET Name]
  BY DEF Takes, IdentityTypeOK
<1>2. \A e \in Device : named'[e] = IF e = d THEN named[e] \cup {n} ELSE named[e]
  BY <1>1
<1>3. Good' \subseteq Good /\ \A e \in Good' : e \notin excused' /\ e \in Device
  BY <1>1 DEF Good
<1>4. \A e \in Good' : /\ n \in named[e] => e = d /\ named[d] = named'[d]
                       /\ e = d => \A f \in Device : n \in named[f] => f = d
  <2>1. CASE Fresh(d, n)
    <3>1. \A f \in Device : n \in named[f] => f = d
      BY <2>1 DEF Fresh, Users
    <3>2. n \in named[d] => named'[d] = named[d]
      BY <1>1, <1>2
    <3> QED BY <1>3, <3>1, <3>2
  <2>2. CASE ~ Fresh(d, n)
    BY <1>1, <1>3, <2>2 DEF Users
  <2> QED BY <2>1, <2>2
<1>5. \A m \in Name : Used(m) => Used(m)'
  BY <1>2 DEF Used, Users
<1>6. ASSUME NEW e \in Good', NEW m \in Name, Used(m) PROVE m \in named'[e] <=> m \in named[e]
  <2>1. PICK f \in Device : m \in named[f]
    BY <1>6 DEF Used, Users
  <2>2. e \in Device
    BY <1>3
  <2> QED BY <1>2, <1>4, <1>6, <2>1, <2>2
<1>7. \A e \in Good', f \in Device, m \in Name : m \in named'[e] /\ m \in named'[f] => e = f
  <2>1. \A e \in Good', f \in Device, m \in Name : m # n /\ m \in named'[e] /\ m \in named'[f] => e = f
    <3>1. \A e \in Good', f \in Device, m \in Name : m \in named[e] /\ m \in named[f] => e = f
      BY <1>3 DEF NamesOwn
    <3> QED BY <1>2, <1>3, <3>1
  <2>2. \A e \in Good', f \in Device : n \in named'[e] /\ n \in named'[f] => e = f
    <3>1. \A e \in Good' : n \in named'[e] => e = d
      BY <1>2, <1>3, <1>4
    <3>2. d \in Good' => \A f \in Device : n \in named'[f] => f = d
      BY <1>2, <1>3, <1>4
    <3> QED BY <1>3, <3>1, <3>2
  <2> QED BY <2>1, <2>2
<1>8. n \in named'[d] /\ \A e \in Device : named[e] \subseteq named'[e]
  BY <1>2
<1> QED BY <1>3, <1>5, <1>6, <1>7, <1>8 DEF NamesStep

LEMMA ProviderNames ==
    ASSUME IdentityTypeOK, NamesOwn, NEW d \in Device, ProviderChanges(d)
    PROVE  NamesStep /\ NamesOwn'
<1>t. at \in [Device -> Place \cup {None}] /\ UNCHANGED seenAs
  BY ProviderTyped DEF IdentityTypeOK
<1>n. \A p \in Place : p # None /\ p.name \in Name
  BY NotNone DEF Place
<1>1. ASSUME NEW n \in Name, NEW p \in Place, p.name = n, at' = [at EXCEPT ![d] = p], Takes(d, n)
      PROVE  NamesStep /\ NamesOwn'
  <2>1. /\ NamesStep /\ n \in named'[d]
        /\ \A e \in Good', f \in Device, m \in Name : m \in named'[e] /\ m \in named'[f] => e = f
    BY <1>1, TakesNames
  <2>2. /\ at'[d] = p /\ \A e \in Device : e # d => at'[e] = at[e]
        /\ \A e \in Device : at[e] # None => at[e].name # n
    BY <1>t, <1>1 DEF Takes, Listed
  <2>3. \A e \in Device : at'[e] # None => at'[e].name \in named'[e]
    BY <1>1, <2>1, <2>2 DEF NamesOwn, NamesStep
  <2>4. \A e \in Device : seenAs'[e] # None => seenAs'[e].name \in named'[e]
    BY <1>t, <2>1 DEF NamesOwn, NamesStep
  <2>5. \A e, f \in Listed' : at'[e].name = at'[f].name => e = f
    <3>1. \A e \in Listed' : e \in Device /\ (e # d => e \in Listed)
      BY <2>2 DEF Listed
    <3>2. \A e \in Listed : at[e].name # n
      BY <2>2 DEF Listed
    <3>3. ASSUME NEW e \in Listed', NEW f \in Listed', at'[e].name = at'[f].name PROVE e = f
      <4>1. CASE e = d \/ f = d
        BY <1>1, <2>2, <3>1, <3>2, <3>3, <4>1
      <4>2. CASE e # d /\ f # d
        BY <2>2, <3>1, <3>3, <4>2 DEF NamesOwn
      <4> QED BY <4>1, <4>2
    <3> QED BY <3>3
  <2> QED BY <2>1, <2>3, <2>4, <2>5 DEF NamesOwn
<1>2. ASSUME NEW p \in Place \cup {None}, p # None => at[d] # None /\ p.name = at[d].name,
             at' = [at EXCEPT ![d] = p], UNCHANGED <<named, excused>>
      PROVE  NamesStep /\ NamesOwn'
  <2>1. NamesStep /\ Good' = Good
    BY <1>2, SameNamed DEF Good
  <2>2. at'[d] = p /\ \A e \in Device : e # d => at'[e] = at[e]
    BY <1>t, <1>2
  <2>3. \A e \in Listed' : e \in Listed /\ e \in Device /\ at'[e].name = at[e].name /\ at'[e] # None
    BY <1>2, <2>2 DEF Listed
  <2>4. \A e \in Device : at'[e] # None => e \in Listed'
    BY DEF Listed
  <2>5. \A e \in Listed : at[e] # None
    BY DEF Listed
  <2> QED BY <1>t, <1>2, <2>1, <2>3, <2>4, <2>5 DEF NamesOwn
<1>3. ASSUME NEW p \in Place, Appear(d, p) PROVE NamesStep /\ NamesOwn'
  BY <1>1, <1>3, <1>n DEF Appear, Changes
<1>4. CASE Disappear(d)
  BY <1>2, <1>4 DEF Disappear, Changes
<1>5. ASSUME NEW n \in Name, Rename(d, n) PROVE NamesStep /\ NamesOwn'
  <2>1. at[d] \in Place /\ [at[d] EXCEPT !.name = n] \in Place /\ [at[d] EXCEPT !.name = n].name = n
    BY <1>t, <1>5 DEF Rename, Place
  <2> QED BY <1>1, <1>5, <2>1 DEF Rename, Changes
<1>6. ASSUME NEW x \in Site, Move(d, x) PROVE NamesStep /\ NamesOwn'
  <2>1. at[d] \in Place /\ [at[d] EXCEPT !.site = x] \in Place /\ [at[d] EXCEPT !.site = x].name = at[d].name
    BY <1>t, <1>6 DEF Move, Place
  <2> QED BY <1>2, <1>6, <2>1 DEF Move, Changes
<1> QED BY <1>3, <1>4, <1>5, <1>6 DEF ProviderChanges

\* Whatever a row of a table is of, it goes on being of.
LEMMA RowStays ==
    ASSUME NamesStep, NEW k \in Id, NEW r, r.name \in Name, RowFits(k, r)
    PROVE  RowFits(k, r)'
BY IdName DEF RowFits, NamesStep

LEMMA TablesStay ==
    ASSUME IdentityTypeOK, TablesFit, NamesStep, UNCHANGED <<station, batch>>
    PROVE  TablesFit'
<1> SUFFICES ASSUME NEW k \in Id
             PROVE  /\ station[k] # None => RowFits(k, station[k])'
                    /\ batch[k] # None => RowFits(k, batch[k].row)' /\ batch[k].row.name \in named'[batch[k].device]
  BY DEF TablesFit
<1>1. station[k] # None => RowFits(k, station[k])'
  <2>1. station[k] # None => RowFits(k, station[k]) /\ station[k].name \in Name
    BY RowNames DEF TablesFit
  <2>2. PICK r : r = station[k]
    OBVIOUS
  <2>3. station[k] # None => RowFits(k, r)'
    BY <2>1, <2>2, RowStays
  <2> QED BY <2>2, <2>3 DEF RowFits
<1>2. batch[k] # None => RowFits(k, batch[k].row)'
  <2>1. batch[k] # None => RowFits(k, batch[k].row) /\ batch[k].row.name \in Name
    BY RowNames DEF TablesFit
  <2>2. PICK r : r = batch[k].row
    OBVIOUS
  <2>3. batch[k] # None => RowFits(k, r)'
    BY <2>1, <2>2, RowStays
  <2> QED BY <2>2, <2>3 DEF RowFits
<1>3. batch[k] # None => batch[k].row.name \in named'[batch[k].device]
  BY RowNames DEF TablesFit, NamesStep
<1> QED BY <1>1, <1>2, <1>3

\* The names of the ids in the tables have been used.
LEMMA IdsUsed ==
    ASSUME TablesFit
    PROVE  \A k \in Id : station[k] # None \/ batch[k] # None => Used(k.name)
BY DEF TablesFit, RowFits

LEMMA StationsAre ==
    ASSUME IdentityTypeOK
    PROVE  /\ Stations \subseteq Id
           /\ \A k \in Id : k \in Stations <=> station[k] # None \/ batch[k] # None
<1>1. \A k \in Id : k \in Stations <=> station[k] # None \/ batch[k] # None
  BY SeenIs DEF Seen
<1> QED BY <1>1 DEF Stations

\* A device that can be followed keeps its ids.
LEMMA IdsStay ==
    ASSUME IdentityTypeOK, TablesFit, NamesStep, SameNames
    PROVE  \A d \in Good' : Ids(d)' = Ids(d)
<1>1. Stations' = Stations
  BY SameLooks
<1>2. \A k \in Stations : k.name \in Name /\ Used(k.name)
  BY StationsAre, IdsUsed, IdName
<1> QED BY <1>1, <1>2 DEF Ids, NamesStep

LEMMA OneStationStays ==
    ASSUME IdentityTypeOK, TablesFit, OneStation, NamesStep, SameNames
    PROVE  OneStation'
BY IdsStay DEF OneStation, NamesStep

LEMMA SeenStays ==
    ASSUME IdentityTypeOK, TablesFit, SeenFits, NamesStep, UNCHANGED <<station, seenAs>>
    PROVE  SeenFits'
<1>1. \A k \in Id : station[k] # None => k.name \in Name /\ Used(k.name)
  BY IdsUsed, IdName
<1>2. \A d \in Good', k \in Id : station[k] # None => (k.name \in named'[d] <=> k.name \in named[d])
  BY <1>1 DEF NamesStep
<1> QED BY <1>2 DEF SeenFits, NamesStep

\* The entries of a run.
LEMMA EntriesStay ==
    ASSUME IdentityTypeOK, TablesFit, EntriesFit, NamesStep, SameNames,
           entries' \subseteq entries, listed_names' = listed_names,
           progress' = progress, progress = "idle" => UNCHANGED <<batch, look>>
    PROVE  EntriesFit'
<1>1. \A e \in entries : e.name \in Name /\ e.device \in Device
  BY DEF IdentityTypeOK, Entry
<1>2. ASSUME NEW e \in entries' PROVE VanishFits(e)'
  <2>0. e \in entries /\ VanishFits(e)
    BY <1>2 DEF EntriesFit
  <2>1. ByNative(e.name)' = ByNative(e.name) /\ VanishedAt(e.site, listed_names)' = VanishedAt(e.site, listed_names)
    <3>1. PICK ns : ns = listed_names
      OBVIOUS
    <3>2. VanishedAt(e.site, ns)' = VanishedAt(e.site, ns)
      BY SameLooks
    <3> QED BY <3>1, <3>2, SameLooks DEF VanishedAt
  <2>2. \A k \in VanishedAt(e.site, listed_names) : k \in Id /\ k.name \in Name /\ Used(k.name)
    BY StationsAre, IdsUsed, IdName DEF VanishedAt
  <2>3. \A k \in VanishedAt(e.site, listed_names), d \in Good' : k.name \in named'[d] <=> k.name \in named[d]
    BY <2>2 DEF NamesStep
  <2>4. ByNative(e.name) = {} =>
          /\ \A k \in VanishedAt(e.site, listed_names), d \in Good' : k.name \in named'[d] => d = e.device
          /\ e.device \in Good' => VanishedAt(e.site, listed_names) = Ids(e.device)'
    BY <2>0, <2>3, IdsStay DEF VanishFits, NamesStep
  <2> QED BY <2>1, <2>4 DEF VanishFits
<1>3. \A e \in entries' : e.name \in listed_names' /\ e.name \in named'[e.device]
  BY <1>1 DEF EntriesFit, NamesStep
<1> QED BY <1>2, <1>3 DEF EntriesFit

LEMMA LookStays ==
    ASSUME IdentityTypeOK, TablesFit, LookFits, NamesStep, SameNames,
           look' = look, entries' = entries, listed_names' = listed_names
    PROVE  LookFits'
<1> SUFFICES ASSUME look # None PROVE LookFits'
  BY DEF LookFits
<1>1. Stations' = Stations
  BY SameLooks
<1>2. CASE look.id = None
  BY <1>1, <1>2 DEF LookFits, ComputedId
<1>3. CASE look.id # None
  <2>1. look.id \in Id /\ look.id.name \in Name
    BY <1>3, LookedIs, IdName
  <2>2. Used(look.id.name) /\ Used(look.id.name)'
    BY <1>3, <2>1 DEF LookFits, NamesStep
  <2>3. look.id \in Stations =>
            Seen(look.id)'.name = look.entry.name \/ Seen(look.id)'.name \notin listed_names
    <3>1. PICK k \in Id : k = look.id
      BY <2>1
    <3>2. k \in Stations => Seen(k)'.name = Seen(k).name
      BY DEF SameNames
    <3>3. Seen(look.id)' = Seen(k)'
      BY <3>1 DEF Seen
    <3> QED BY <1>3, <3>1, <3>2, <3>3 DEF LookFits
  <2>4. \A d \in Good' : look.id.name \in named'[d] <=> d = look.entry.device
    BY <1>3, <2>1, <2>2 DEF LookFits, NamesStep
  <2>5. look.entry.device \in Good' => Ids(look.entry.device)' \subseteq {look.id}
    <3>1. PICK d : d = look.entry.device
      OBVIOUS
    <3>2. d \in Good' => Ids(d)' \subseteq {look.id}
      BY <1>3, <3>1, IdsStay DEF LookFits, NamesStep
    <3> QED BY <3>1, <3>2 DEF Ids
  <2> QED BY <1>1, <1>3, <2>2, <2>3, <2>4, <2>5 DEF LookFits
<1> QED BY <1>2, <1>3

LEMMA KeyIs ==
    ASSUME NEW n \in Name, NEW r \in ManifestRow
    PROVE  KeyOf(n, r) \in Id
BY DEF KeyOf, ManifestRow, Id, Place

\* A station once committed stays.
StationsStay == \A k \in Id : station[k] # None => station'[k] # None

LEMMA ManifestStays ==
    ASSUME IdentityTypeOK, TablesFit, RowsFit, NamesStep, StationsStay, NEW n \in Name, manifest'[n] = manifest[n],
           manifest[n] # None
    PROVE  /\ Used(n)'
           /\ \A d \in Good' : n \in named'[d] =>
                 LET k == KeyOf(n, manifest'[n]) IN station'[k] # None /\ k.name \in named'[d]
<1>1. manifest[n] \in ManifestRow
  BY DEF IdentityTypeOK
<1>2. PICK k \in Id : k = KeyOf(n, manifest[n])
  BY <1>1, KeyIs
<1>3. Used(n) /\ Used(n)'
  BY DEF RowsFit, NamesStep
<1>4. \A d \in Good' : n \in named'[d] => station[k] # None /\ k.name \in named[d]
  BY <1>2, <1>3 DEF RowsFit, NamesStep
<1>5. \A d \in Good' : n \in named'[d] => station'[k] # None /\ k.name \in named'[d]
  BY <1>4, IdsUsed, IdName DEF StationsStay, NamesStep
<1> QED BY <1>2, <1>3, <1>5

LEMMA RowsStay ==
    ASSUME IdentityTypeOK, TablesFit, RowsFit, NamesStep, SameNames, StationsStay, UNCHANGED <<found, manifest>>
    PROVE  RowsFit'
<1>1. ASSUME NEW n \in Name, found[n] # None
      PROVE  Used(n)' /\ \A d \in Good' : n \in named'[d] => KeyOf(n, found[n]) \in Ids(d)'
  <2>1. Used(n) /\ Used(n)'
    BY <1>1 DEF RowsFit, NamesStep
  <2>2. \A d \in Good' : n \in named'[d] => KeyOf(n, found[n]) \in Ids(d)
    BY <1>1, <2>1 DEF RowsFit, NamesStep
  <2> QED BY <2>1, <2>2, IdsStay
<1> QED BY <1>1, ManifestStays DEF RowsFit, KeyOf

LEMMA ReadingsStay ==
    ASSUME IdentityTypeOK, TablesFit, ReadingsFit, NamesStep, StationsStay, UNCHANGED readings
    PROVE  ReadingsFit'
<1>1. \A d \in Good', k \in Id : d \in readings[k] => station[k] # None /\ k.name \in named[d]
  BY DEF ReadingsFit, NamesStep
<1> QED BY <1>1, IdsUsed, IdName DEF ReadingsFit, StationsStay, NamesStep

\* Names, at, and what a device was seen by.
LEMMA NamesStay ==
    ASSUME NamesOwn, UNCHANGED <<named, at, seenAs>>, excused \subseteq excused'
    PROVE  NamesOwn'
<1>1. Good' \subseteq Good /\ Listed' = Listed
  BY DEF Good, Listed
<1> QED BY <1>1 DEF NamesOwn

-----------------------------------------------------------------------------
(* The steps.                                                                *)

OneIdState == IdentityTypeOK /\ OneIdInv

LEMMA OneIdInitially == IdentityInit => OneIdState
<1> SUFFICES ASSUME IdentityInit PROVE OneIdState
  OBVIOUS
<1>1. IdentityTypeOK
  BY CurationInitially DEF CurationInv
<1>2. /\ \A d \in Device : at[d] = None /\ seenAs[d] = None /\ named[d] = {}
      /\ \A k \in Id : station[k] = None /\ batch[k] = None /\ readings[k] = {}
      /\ \A n \in Name : manifest[n] = None /\ found[n] = None
      /\ entries = {} /\ look = None /\ batch = NoRows
  BY DEF IdentityInit, NoRows, Nowhere
<1>3. Stations = {} /\ Listed = {}
  BY <1>1, <1>2, StationsAre DEF Listed
<1>4. Good \subseteq Device
  BY DEF Good
<1>5. NamesOwn /\ TablesFit /\ OneStation /\ SeenFits
  BY <1>2, <1>3, <1>4 DEF NamesOwn, TablesFit, OneStation, SeenFits, Ids
<1>6. EntriesFit /\ LookFits /\ RowsFit /\ ReadingsFit
  BY <1>2, <1>4 DEF EntriesFit, LookFits, RowsFit, ReadingsFit
<1> QED BY <1>1, <1>5, <1>6 DEF OneIdState, OneIdInv

LEMMA OneIdProvider ==
    ASSUME OneIdState, NEW d \in Device, ProviderChanges(d)
    PROVE  OneIdState'
<1>t. IdentityTypeOK /\ OneIdInv
  BY DEF OneIdState
<1>1. /\ IdentityTypeOK' /\ UNCHANGED <<progress, entries, listed_names, found, look, station, batch,
                                        manifest, readings, seenAs>>
  BY <1>t, ProviderTyped
<1>2. NamesStep /\ NamesOwn' /\ SameNames /\ StationsStay
  BY <1>t, <1>1, ProviderNames, SameTables DEF OneIdInv, StationsStay
<1>3. TablesFit' /\ OneStation' /\ SeenFits'
  BY <1>t, <1>1, <1>2, TablesStay, OneStationStays, SeenStays DEF OneIdInv
<1>4. EntriesFit' /\ LookFits'
  BY <1>t, <1>1, <1>2, EntriesStay, LookStays DEF OneIdInv
<1>5. RowsFit' /\ ReadingsFit'
  BY <1>t, <1>1, <1>2, RowsStay, ReadingsStay DEF OneIdInv
<1> QED BY <1>1, <1>2, <1>3, <1>4, <1>5 DEF OneIdState, OneIdInv

LEMMA OneIdHourly ==
    ASSUME OneIdState, HourlyRun
    PROVE  OneIdState'
<1>t. IdentityTypeOK /\ OneIdInv
  BY DEF OneIdState
<1>1. /\ IdentityTypeOK'
      /\ UNCHANGED <<at, named, excused, progress, entries, listed_names, found, look, station, batch, manifest, seenAs>>
  BY <1>t, HourlyTyped
<1>2. NamesStep /\ NamesOwn' /\ SameNames /\ StationsStay /\ Good' = Good
  BY <1>t, <1>1, SameNamed, NamesStay, SameTables DEF OneIdInv, StationsStay, Good
<1>3. TablesFit' /\ OneStation' /\ SeenFits'
  BY <1>t, <1>1, <1>2, TablesStay, OneStationStays, SeenStays DEF OneIdInv
<1>4. EntriesFit' /\ LookFits'
  BY <1>t, <1>1, <1>2, EntriesStay, LookStays DEF OneIdInv
<1>5. RowsFit'
  BY <1>t, <1>1, <1>2, RowsStay DEF OneIdInv
<1>6. ReadingsFit'
  <2> SUFFICES ASSUME NEW d \in Good, NEW k \in Id, d \in readings'[k]
               PROVE  station[k] # None /\ k.name \in named[d]
    BY <1>1, <1>2 DEF ReadingsFit
  <2>1. readings'[k] = readings[k] \cup {e \in Answering : ScopeKey(at[e].name) = k}
    BY DEF HourlyRun
  <2>2. CASE d \in readings[k]
    BY <1>t, <2>2 DEF OneIdInv, ReadingsFit
  <2>3. CASE d \in Answering /\ ScopeKey(at[d].name) = k
    <3>1. d \in Listed /\ manifest[at[d].name] # None
      BY <2>3 DEF Answering
    <3>2. at[d].name \in Name /\ at[d].name \in named[d]
      BY <1>t, <3>1, ListedIs DEF OneIdInv, NamesOwn, Listed
    <3>3. KeyOf(at[d].name, manifest[at[d].name]) = k
      BY <2>3 DEF ScopeKey, KeyOf
    <3> QED BY <1>t, <3>1, <3>2, <3>3 DEF OneIdInv, RowsFit
  <2> QED BY <2>1, <2>2, <2>3
<1> QED BY <1>1, <1>2, <1>3, <1>4, <1>5, <1>6 DEF OneIdState, OneIdInv

LEMMA OneIdCurate ==
    ASSUME OneIdState, NEW c \in Edit, NEW k \in Id, Curate(c, k)
    PROVE  OneIdState'
<1>t. IdentityTypeOK /\ OneIdInv
  BY DEF OneIdState
<1>1. /\ IdentityTypeOK'
      /\ UNCHANGED <<at, named, excused, progress, entries, listed_names, found, look, batch, manifest, readings, seenAs>>
      /\ station[k] # None /\ batch[k] = None /\ station'[k] \in Station
      /\ \A j \in Id : j # k => station'[j] = station[j]
      /\ station'[k].name = station[k].name /\ station'[k].site = station[k].site
  BY <1>t, CurateTyped
<1>2. \A j \in Id : /\ station'[j] # None <=> station[j] # None
                    /\ station'[j].name = station[j].name /\ station'[j].site = station[j].site
  BY <1>1, NotNone
<1>3. SameNames /\ StationsStay
  <2>1. \A j \in Id : /\ Seen(j)' # None <=> Seen(j) # None
                      /\ Seen(j)'.name = Seen(j).name /\ Seen(j)'.site = Seen(j).site
    BY <1>1, <1>2 DEF Seen
  <2> QED BY <1>2, <2>1 DEF SameNames, StationsStay, Stations
<1>4. NamesStep /\ NamesOwn' /\ Good' = Good /\ \A n : Used(n)' <=> Used(n)
  BY <1>t, <1>1, SameNamed, NamesStay DEF OneIdInv, Good
<1>5. TablesFit'
  <2>1. \A j \in Id : station[j] # None => RowFits(j, station[j])
    BY <1>t DEF OneIdInv, TablesFit
  <2>2. \A j \in Id : station'[j] # None => RowFits(j, station[j])'
    BY <1>1, <1>2, <1>4, <2>1 DEF RowFits
  <2>3. \A j \in Id : batch[j] # None => RowFits(j, batch[j].row) /\ batch[j].row.name \in named[batch[j].device]
    BY <1>t DEF OneIdInv, TablesFit
  <2>4. \A j \in Id : batch[j] # None => RowFits(j, batch[j].row)'
    BY <1>1, <1>4, <2>3 DEF RowFits
  <2> QED BY <1>1, <2>2, <2>3, <2>4 DEF TablesFit
<1>6. OneStation'
  BY <1>t, <1>3, <1>4, OneStationStays DEF OneIdInv
<1>7. SeenFits'
  BY <1>t, <1>1, <1>2, <1>4 DEF OneIdInv, SeenFits
<1>8. EntriesFit' /\ LookFits'
  BY <1>t, <1>1, <1>3, <1>4, EntriesStay, LookStays DEF OneIdInv
<1>9. RowsFit' /\ ReadingsFit'
  BY <1>t, <1>1, <1>3, <1>4, RowsStay, ReadingsStay DEF OneIdInv
<1> QED BY <1>1, <1>4, <1>5, <1>6, <1>7, <1>8, <1>9 DEF OneIdState, OneIdInv

\* What the run is about to do with an entry of a newcomer, as it reads the city.
LEMMA CityFits ==
    ASSUME OneIdState, ReadCity, NEW d \in Listed, ByNative(at[d].name) = {}
    PROVE  /\ \A k \in Vanished(d), x \in Good' : k.name \in named[x] => x = d
           /\ d \in Good' => Vanished(d) = Ids(d)
<1>t. IdentityTypeOK /\ OneIdInv
  BY DEF OneIdState
<1>1. /\ batch = NoRows /\ excused' = excused \cup Confused /\ d \in Device /\ d \in Newcomers
      /\ Good' \subseteq Good
  BY <1>t DEF OneIdInv, EntriesFit, ReadCity, Newcomers, Listed, Good
<1>2. \A k \in Stations : k \in Id /\ Seen(k) = station[k] /\ station[k] # None /\ RowFits(k, Seen(k))
  <2>1. \A k \in Stations : k \in Id /\ batch[k] = None
    BY <1>1 DEF Stations, NoRows
  <2> QED BY <1>t, <2>1, StationRow, SeenIs DEF OneIdInv
<1>3. \A x \in Good : \A k \in Ids(x) : k \in Stations /\ seenAs[x] # None /\ Seen(k).name = seenAs[x].name
  BY <1>t, <1>2 DEF OneIdInv, SeenFits, Ids
<1>4. Vanished(d) \subseteq Stations
  BY DEF Vanished, VanishedAt
<1>5. \A x \in Device : seenAs[x] # None => seenAs[x].name \in named[x]
  BY <1>t DEF OneIdInv, NamesOwn
<1>6. \A x \in Good : x \in Device
  BY DEF Good
<1>7. CASE ~ Lost(d)
  <2>1. Vanished(d) = {} /\ seenAs[d] = None
    BY <1>7 DEF Lost
  <2>2. d \in Good' => Ids(d) = {}
    BY <1>1, <1>3, <2>1
  <2> QED BY <2>1, <2>2
<1>8. CASE Lost(d) /\ Followed(d)
  <2>1. PICK k \in Vanished(d) : Vanished(d) = {k} /\ Seen(k).name = seenAs[d].name
    BY <1>8 DEF Followed
  <2>2. k \in Stations /\ k \in Id /\ Seen(k).name \in named[d] /\ RowFits(k, Seen(k)) /\ Seen(k).name \in Name
    BY <1>t, <1>1, <1>2, <1>4, <1>5, <1>8, <2>1, RowNames DEF Followed
  <2>3. \A x \in Good : k.name \in named[x] => x = d
    BY <1>t, <1>1, <1>6, <2>2 DEF RowFits, OneIdInv, NamesOwn
  <2>4. d \in Good => Ids(d) = {k}
    <3>1. d \in Good => k \in Ids(d)
      BY <2>2 DEF RowFits, Ids
    <3> QED BY <1>t, <3>1 DEF OneIdInv, OneStation
  <2> QED BY <1>1, <2>1, <2>3, <2>4
<1>9. CASE Lost(d) /\ ~ Followed(d)
  <2>1. {d} \cup Mistakable(d) \subseteq excused'
    BY <1>1, <1>9 DEF Confused
  <2>2. d \notin Good' /\ \A x \in Mistakable(d) : x \notin Good'
    BY <2>1 DEF Good
  <2>3. ASSUME NEW k \in Vanished(d), NEW x \in Good', k.name \in named[x] PROVE FALSE
    <3>1. x \in Good /\ x \in Device /\ k \in Stations /\ k \in Ids(x)
      BY <1>1, <1>4, <1>6, <2>3 DEF Ids
    <3>2. seenAs[x] # None /\ Seen(k).name = seenAs[x].name
      BY <1>3, <3>1
    <3>3. k \in ByNative(seenAs[x].name)
      BY <3>1, <3>2 DEF ByNative
    <3>4. x \in Mistakable(d)
      BY <2>3, <3>1, <3>2, <3>3 DEF Mistakable
    <3> QED BY <2>2, <3>4
  <2> QED BY <2>2, <2>3
<1> QED BY <1>7, <1>8, <1>9

LEMMA OneIdReadCity ==
    ASSUME OneIdState, ReadCity
    PROVE  OneIdState'
<1>t. IdentityTypeOK /\ OneIdInv
  BY DEF OneIdState
<1>1. /\ IdentityTypeOK' /\ UNCHANGED <<at, named, found, look, station, batch, manifest, readings, seenAs>>
      /\ progress = "idle" /\ progress' = "upserting" /\ excused \subseteq excused'
      /\ entries' = {[name |-> at[d].name, site |-> at[d].site, device |-> d] : d \in Listed}
      /\ listed_names' = {at[d].name : d \in Listed}
  BY <1>t, ReadCityTyped DEF ReadCity
<1>2. NamesStep /\ NamesOwn' /\ SameNames /\ StationsStay
  BY <1>t, <1>1, SameNamed, NamesStay, SameTables DEF OneIdInv, StationsStay
<1>3. TablesFit' /\ OneStation' /\ SeenFits'
  BY <1>t, <1>1, <1>2, TablesStay, OneStationStays, SeenStays DEF OneIdInv
<1>4. LookFits'
  BY <1>t, <1>1 DEF OneIdInv, EntriesFit, LookFits
<1>5. RowsFit' /\ ReadingsFit'
  BY <1>t, <1>1, <1>2, RowsStay, ReadingsStay DEF OneIdInv
<1>6. ASSUME NEW e \in entries'
      PROVE  e.name \in listed_names' /\ e.name \in named'[e.device] /\ VanishFits(e)'
  <2>1. PICK d \in Listed : e = [name |-> at[d].name, site |-> at[d].site, device |-> d]
    BY <1>1
  <2>2. e.name = at[d].name /\ e.site = at[d].site /\ e.device = d /\ d \in Device
    BY <2>1 DEF Listed
  <2>3. e.name \in listed_names' /\ e.name \in named'[d]
    BY <1>t, <1>1, <2>2 DEF OneIdInv, NamesOwn, Listed
  <2>4. ByNative(e.name)' = ByNative(at[d].name) /\ VanishedAt(e.site, listed_names)' = Vanished(d)
    <3>1. ByNative(e.name)' = ByNative(e.name)
      BY <1>2, SameLooks
    <3>2. PICK ns : ns = listed_names'
      OBVIOUS
    <3>3. VanishedAt(e.site, ns)' = VanishedAt(e.site, ns)
      BY <1>2, SameLooks
    <3>4. VanishedAt(e.site, listed_names)' = VanishedAt(e.site, ns)'
      BY <3>2 DEF VanishedAt
    <3>5. VanishedAt(e.site, ns) = Vanished(d)
      BY <1>1, <2>2, <3>2 DEF Vanished
    <3> QED BY <2>2, <3>1, <3>3, <3>4, <3>5
  <2>5. Ids(d)' = Ids(d)
    BY <1>1, <1>2, SameLooks DEF Ids
  <2>6. ByNative(at[d].name) = {} =>
          /\ \A k \in Vanished(d), x \in Good' : k.name \in named'[x] => x = d
          /\ d \in Good' => Vanished(d) = Ids(d)'
    BY <1>1, <2>5, CityFits
  <2>7. VanishFits(e)'
    <3>1. e.device' = d
      BY <2>2
    <3>2. d \in Good' => Vanished(d) = Ids(e.device)' \/ ByNative(at[d].name) # {}
      BY <1>1, <2>2, <2>6 DEF Ids
    <3> QED BY <2>2, <2>4, <2>6, <3>2 DEF VanishFits
  <2> QED BY <2>2, <2>3, <2>7
<1>7. \A e, f \in entries' : e.name = f.name \/ e.device = f.device => e = f
  <2>1. \A d, x \in Listed : at[d].name = at[x].name => d = x
    BY <1>t DEF OneIdInv, NamesOwn
  <2> QED BY <1>1, <2>1
<1>8. EntriesFit'
  BY <1>1, <1>6, <1>7 DEF EntriesFit
<1> QED BY <1>1, <1>2, <1>3, <1>4, <1>5, <1>8 DEF OneIdState, OneIdInv

-----------------------------------------------------------------------------
(* Upserts.                                                                  *)

\* What an entry may be looked up as.
MayBe(e, k) ==
    /\ k = None => ComputedId(e) \in Stations
    /\ k # None =>
          /\ Used(k.name)
          /\ k \in Stations => Seen(k).name = e.name \/ Seen(k).name \notin listed_names
          /\ \A d \in Good : k.name \in named[d] <=> d = e.device
          /\ e.device \in Good => Ids(e.device) \subseteq {k}

LEMMA LookingFits ==
    ASSUME OneIdState, NEW e \in Entry, NEW k \in Id \cup {None}, Looking(e, k), MayBe(e, k), IdentityTypeOK'
    PROVE  OneIdState'
<1>t. IdentityTypeOK /\ OneIdInv
  BY DEF OneIdState
<1>1. /\ UNCHANGED <<at, named, progress, entries, listed_names, found, station, batch, manifest, readings, seenAs, excused>>
      /\ progress = "upserting" /\ e \in entries /\ look'.entry = e /\ look'.id = k
  BY DEF Looking, provider
<1>2. NamesStep /\ NamesOwn' /\ SameNames /\ StationsStay
  BY <1>t, <1>1, SameNamed, NamesStay, SameTables DEF OneIdInv, StationsStay
<1>3. TablesFit' /\ OneStation' /\ SeenFits'
  BY <1>t, <1>1, <1>2, TablesStay, OneStationStays, SeenStays DEF OneIdInv
<1>4. EntriesFit' /\ RowsFit' /\ ReadingsFit'
  BY <1>t, <1>1, <1>2, EntriesStay, RowsStay, ReadingsStay DEF OneIdInv
<1>5. LookFits'
  <2>1. MayBe(e, k)'
    BY <1>1 DEF MayBe, Used, Users, Good, Ids, Stations, Seen, ComputedId
  <2> QED BY <1>1, <2>1 DEF LookFits, MayBe, Ids, Seen, ComputedId
<1> QED BY <1>2, <1>3, <1>4, <1>5 DEF OneIdState, OneIdInv

LEMMA OneIdLook ==
    ASSUME OneIdState, NEW e \in Entry,
           LookNative(e) \/ LookConflict(e) \/ LookRenamed(e) \/ LookNew(e)
    PROVE  OneIdState'
<1>t. IdentityTypeOK /\ OneIdInv
  BY DEF OneIdState
<1>1. IdentityTypeOK'
  BY <1>t, LookTyped
<1>2. e \in entries /\ e.name \in Name /\ e.device \in Device
  BY <1>t, LookTyped DEF Entry
<1>3. e.name \in named[e.device] /\ e.name \in listed_names /\ VanishFits(e)
  BY <1>t, <1>2 DEF OneIdInv, EntriesFit
<1>4. \A d \in Good : e.name \in named[d] <=> d = e.device
  BY <1>t, <1>2, <1>3 DEF OneIdInv, NamesOwn
<1>5. Used(e.name)
  BY <1>2, <1>3 DEF Used, Users
<1>6. ComputedId(e) \in Id /\ ComputedId(e).name = e.name
  BY DEF ComputedId, Id, Place, Entry
<1>7. Stations \subseteq Id /\ (\A k \in Id : k # None) /\ \A k \in Stations : RowFits(k, Seen(k))
  BY <1>t, NotNone, StationsAre, StationRow DEF Id, OneIdInv
<1>8. ASSUME NEW k \in ByNative(e.name), Looking(e, k) PROVE OneIdState'
  <2>1. k \in Stations /\ Seen(k).name = e.name /\ k \in Id /\ k # None
    BY <1>7 DEF ByNative
  <2>2. Used(k.name) /\ \A d \in Good : k.name \in named[d] <=> d = e.device
    BY <1>4, <1>7, <2>1 DEF RowFits
  <2>3. e.device \in Good => Ids(e.device) \subseteq {k}
    BY <1>t, <2>1, <2>2 DEF OneIdInv, OneStation, Ids
  <2>4. MayBe(e, k)
    BY <2>1, <2>2, <2>3 DEF MayBe
  <2> QED BY <1>1, <1>8, <2>1, <2>4, LookingFits
<1>9. ASSUME LookConflict(e) PROVE OneIdState'
  <2>1. MayBe(e, None) /\ Looking(e, None)
    BY <1>9 DEF LookConflict, MayBe
  <2> QED BY <1>1, <2>1, LookingFits
<1>10. ASSUME NEW k \in RenameSource(e), Looking(e, k), ByNative(e.name) = {} PROVE OneIdState'
  <2>1. k \in VanishedAt(e.site, listed_names)
    BY <1>10 DEF RenameSource
  <2>2. k \in Stations /\ k \in Id /\ k # None /\ Seen(k).name \notin listed_names /\ Used(k.name)
    BY <1>7, <2>1 DEF VanishedAt, RowFits
  <2>3. /\ \A d \in Good : k.name \in named[d] => d = e.device
        /\ e.device \in Good => k \in Ids(e.device)
    BY <1>3, <1>10, <2>1 DEF VanishFits
  <2>4. /\ \A d \in Good : k.name \in named[d] <=> d = e.device
        /\ e.device \in Good => Ids(e.device) \subseteq {k}
    BY <1>t, <2>3 DEF Ids, OneIdInv, OneStation
  <2>5. MayBe(e, k)
    BY <2>2, <2>4 DEF MayBe
  <2> QED BY <1>1, <1>10, <2>2, <2>5, LookingFits
<1>11. ASSUME LookNew(e) PROVE OneIdState'
  <2>1. Looking(e, ComputedId(e)) /\ ByNative(e.name) = {} /\ RenameSource(e) = {} /\ ComputedId(e) \notin Stations
    BY <1>11 DEF LookNew
  <2>2. e.device \in Good => Ids(e.device) = {}
    <3> SUFFICES ASSUME e.device \in Good, NEW k \in Ids(e.device) PROVE FALSE
      OBVIOUS
    <3>1. Ids(e.device) = {k}
      BY <1>t DEF OneIdInv, OneStation
    <3>2. VanishedAt(e.site, listed_names) = {k}
      BY <1>3, <2>1, <3>1 DEF VanishFits
    <3> QED BY <2>1, <3>2, FS_Singleton DEF RenameSource
  <2>3. MayBe(e, ComputedId(e))
    BY <1>4, <1>5, <1>6, <1>7, <2>1, <2>2 DEF MayBe
  <2> QED BY <1>1, <1>6, <2>1, <2>3, LookingFits
<1> QED BY <1>8, <1>9, <1>10, <1>11 DEF LookNative, LookRenamed

\* The row of a device that can be followed goes to the manifest with its own id.
LEMMA UpsertedFits ==
    ASSUME OneIdState, NEW k \in Id \cup {None}, Upserted(k), excused \subseteq excused',
           Stations \subseteq Stations',
           LET n == look.entry.name
               key == KeyOf(n, [site |-> look.entry.site, id |-> k])
           IN  \A d \in Good' : n \in named[d] => key \in Stations' /\ key.name \in named[d]
    PROVE  RowsFit'
<1>t. IdentityTypeOK /\ OneIdInv
  BY DEF OneIdState
<1>1. /\ look # None /\ found' = [found EXCEPT ![look.entry.name] = [site |-> look.entry.site, id |-> k]]
      /\ manifest' = manifest /\ named' = named /\ station' = station
  BY DEF Upserted, provider
<1>2. /\ look.entry.name \in Name /\ look.entry.device \in Device /\ look.entry.name \in named[look.entry.device]
  BY <1>t, <1>1, LookedIs DEF OneIdInv, LookFits, EntriesFit
<1>3. NamesStep /\ StationsStay /\ \A n : Used(n)' <=> Used(n)
  BY <1>1, SameNamed DEF StationsStay
<1>4. ASSUME NEW n \in Name, found'[n] # None
      PROVE  Used(n)' /\ \A d \in Good' : n \in named'[d] => KeyOf(n, found'[n]) \in Ids(d)'
  <2>1. CASE n = look.entry.name
    <3>1. found'[n] = [site |-> look.entry.site, id |-> k]
      BY <1>t, <1>1, <2>1 DEF IdentityTypeOK
    <3>2. Used(n)
      BY <1>2, <2>1 DEF Used, Users
    <3> QED BY <1>1, <1>3, <2>1, <3>1, <3>2 DEF Ids
  <2>2. CASE n # look.entry.name
    <3>1. found'[n] = found[n]
      BY <1>t, <1>1, <2>2 DEF IdentityTypeOK
    <3>2. Used(n) /\ \A d \in Good : n \in named[d] => KeyOf(n, found[n]) \in Ids(d)
      BY <1>t, <1>4, <3>1 DEF OneIdInv, RowsFit
    <3> QED BY <1>1, <1>3, <3>1, <3>2 DEF Ids, NamesStep
  <2> QED BY <2>1, <2>2
<1> QED BY <1>t, <1>1, <1>3, <1>4, ManifestStays DEF OneIdInv, RowsFit, KeyOf

LEMMA OneIdUpsertedNone ==
    ASSUME OneIdState, Conflict \/ UpsertFails
    PROVE  OneIdState'
<1>t. IdentityTypeOK /\ OneIdInv
  BY DEF OneIdState
<1>1. /\ Upserted(None) /\ look # None /\ look' = None /\ entries' \subseteq entries /\ IdentityTypeOK'
      /\ UNCHANGED <<at, named, progress, listed_names, station, batch, manifest, readings, seenAs>>
      /\ excused \subseteq excused'
      /\ (look.id = None /\ excused' = excused) \/ excused' = excused \cup {look.entry.device}
  BY <1>t, UpsertedNoneTyped DEF Conflict, UpsertFails, Upserted
<1>2. NamesStep /\ NamesOwn' /\ SameNames /\ StationsStay /\ Stations' = Stations
  BY <1>t, <1>1, SameNamed, NamesStay, SameTables, SameLooks DEF OneIdInv, StationsStay
<1>3. TablesFit' /\ OneStation' /\ SeenFits'
  BY <1>t, <1>1, <1>2, TablesStay, OneStationStays, SeenStays DEF OneIdInv
<1>4. EntriesFit' /\ LookFits' /\ ReadingsFit'
  <2>1. progress # "idle"
    BY <1>t, <1>1 DEF OneIdInv, EntriesFit
  <2> QED BY <1>t, <1>1, <1>2, <2>1, EntriesStay, ReadingsStay DEF OneIdInv, LookFits
<1>5. RowsFit'
  <2> DEFINE n == look.entry.name
             key == KeyOf(n, [site |-> look.entry.site, id |-> None])
  <2>1. key = ComputedId(look.entry) /\ key.name = n
    BY DEF KeyOf, ComputedId
  <2>2. n \in Name /\ look.entry.device \in Device /\ n \in named[look.entry.device]
    BY <1>t, <1>1, LookedIs DEF OneIdInv, LookFits, EntriesFit
  <2>3. ASSUME NEW d \in Good', n \in named[d] PROVE key \in Stations'
    <3>1. d \in Good /\ d \notin excused'
      BY <1>2 DEF NamesStep, Good
    <3>2. d = look.entry.device
      BY <1>t, <2>2, <2>3, <3>1 DEF OneIdInv, NamesOwn
    <3>3. look.id = None
      BY <1>1, <3>1, <3>2
    <3> QED BY <1>t, <1>1, <1>2, <2>1, <3>3 DEF OneIdInv, LookFits
  <2> HIDE DEF key
  <2>4. \A d \in Good' : n \in named[d] => key \in Stations' /\ key.name \in named[d]
    BY <2>1, <2>3
  <2> QED BY <1>1, <1>2, <2>4, UpsertedFits DEF key
<1> QED BY <1>1, <1>2, <1>3, <1>4, <1>5 DEF OneIdState, OneIdInv

LEMMA OneIdWrite ==
    ASSUME OneIdState, Write
    PROVE  OneIdState'
<1>0. PICK k, e0 : k = look.id /\ e0 = look.entry
  OBVIOUS
<1>t. IdentityTypeOK /\ OneIdInv
  BY DEF OneIdState
<1>1. /\ Upserted(k) /\ look # None /\ k # None /\ k \in Id /\ look' = None /\ IdentityTypeOK'
      /\ entries' = entries \ {e0}
      /\ batch'[k] # None /\ \A j \in Id : j # k => batch'[j] = batch[j]
      /\ UNCHANGED <<at, named, progress, listed_names, station, manifest, readings, seenAs, excused>>
  BY <1>t, <1>0, WriteTyped DEF Write, Upserted
<1>2. batch'[k].row.name = e0.name /\ batch'[k].row.site = e0.site /\ batch'[k].device = e0.device
  BY <1>t, <1>0, <1>1 DEF Write, IdentityTypeOK
<1>3. /\ e0 \in entries /\ e0.name \in Name /\ e0.device \in Device
      /\ e0.name \in listed_names /\ e0.name \in named[e0.device]
      /\ Used(k.name) /\ k.name \in Name
      /\ k \in Stations => Seen(k).name = e0.name \/ Seen(k).name \notin listed_names
      /\ \A d \in Good : k.name \in named[d] <=> d = e0.device
      /\ e0.device \in Good => Ids(e0.device) \subseteq {k}
  BY <1>t, <1>0, <1>1, LookedIs, IdName DEF OneIdInv, LookFits, EntriesFit
<1>4. NamesStep /\ NamesOwn' /\ StationsStay /\ Good' = Good /\ (\A n : Used(n)' <=> Used(n))
  BY <1>t, <1>1, SameNamed, NamesStay DEF OneIdInv, StationsStay, Good
<1>5. /\ Stations \subseteq Id /\ Stations' = Stations \cup {k}
      /\ \A j \in Id : j # k => Seen(j)' = Seen(j)
      /\ Seen(k)'.name = e0.name /\ Seen(k)'.site = e0.site
  <2>1. Stations \subseteq Id /\ \A j \in Id : j \in Stations <=> station[j] # None \/ batch[j] # None
    BY <1>t, StationsAre
  <2>2. Stations' \subseteq Id /\ \A j \in Id : j \in Stations' <=> station'[j] # None \/ batch'[j] # None
    <3>1. IdentityTypeOK' => Stations' \subseteq Id /\ \A j \in Id : j \in Stations' <=> Seen(j)' # None
      BY DEF Stations
    <3>2. ASSUME NEW j \in Id PROVE Seen(j)' # None <=> station'[j] # None \/ batch'[j] # None
      <4>1. batch'[j] # None => batch'[j].row # None
        <5>1. batch'[j] \in Pending \cup {None}
          BY <1>1 DEF IdentityTypeOK
        <5> QED BY <5>1, NotNone DEF Pending
      <4> QED BY <4>1 DEF Seen
    <3> QED BY <1>1, <3>1, <3>2
  <2> QED BY <1>1, <1>2, <2>1, <2>2 DEF Seen
<1>6. /\ \A d \in Good : d # e0.device => Ids(d)' = Ids(d)
      /\ \A d \in Good : Ids(d) \subseteq Ids(d)'
      /\ e0.device \in Good => Ids(e0.device)' = {k}
  <2>1. \A d : Ids(d)' = Ids(d) \cup (IF k.name \in named[d] THEN {k} ELSE {})
    BY <1>1, <1>5 DEF Ids
  <2> QED BY <1>3, <2>1
<1>7. \A d \in Good : e0.name \in named[d] <=> d = e0.device
  BY <1>t, <1>3 DEF OneIdInv, NamesOwn
<1>8. TablesFit'
  <2>1. \A j \in Id : station[j] # None => RowFits(j, station[j])'
    BY <1>t, <1>1, <1>4 DEF OneIdInv, TablesFit, RowFits
  <2>2. \A j \in Id : j # k /\ batch[j] # None =>
            RowFits(j, batch[j].row)' /\ batch'[j].row.name \in named'[batch'[j].device]
    <3>1. PICK b : b = batch
      OBVIOUS
    <3>2. \A j \in Id : j # k => batch'[j] = b[j]
      BY <1>1, <3>1
    <3>3. \A j \in Id : b[j] # None => RowFits(j, b[j].row)' /\ b[j].row.name \in named[b[j].device]
      BY <1>t, <1>1, <1>4, <3>1 DEF OneIdInv, TablesFit, RowFits
    <3> QED BY <1>1, <3>1, <3>2, <3>3 DEF RowFits
  <2>3. RowFits(k, batch[k].row)' /\ batch'[k].row.name \in named'[batch'[k].device]
    <3>1. Used(e0.name)
      BY <1>3 DEF Used, Users
    <3>2. Used(k.name)' /\ Used(e0.name)'
      BY <1>3, <1>4, <3>1
    <3>3. \A d \in Good' : e0.name \in named'[d] <=> k.name \in named'[d]
      BY <1>1, <1>3, <1>4, <1>7
    <3>4. PICK r : r = batch'[k].row
      OBVIOUS
    <3>5. RowFits(k, r)'
      BY <1>2, <3>2, <3>3, <3>4 DEF RowFits
    <3> QED BY <1>1, <1>2, <1>3, <3>4, <3>5 DEF RowFits
  <2> QED BY <1>1, <2>1, <2>2, <2>3 DEF TablesFit
<1>9. OneStation' /\ SeenFits'
  <2>1. SeenFits'
    BY <1>t, <1>1, <1>4, SeenStays DEF OneIdInv
  <2>2. \A d \in Good : \A i, j \in Ids(d)' : i = j
    BY <1>t, <1>6 DEF OneIdInv, OneStation
  <2> QED BY <1>4, <2>1, <2>2 DEF OneStation
<1>10. ASSUME NEW e \in entries' PROVE VanishFits(e)'
  <2>1. /\ e \in entries /\ e.name # e0.name /\ e.device # e0.device /\ e.name \in listed_names /\ VanishFits(e)
    BY <1>t, <1>1, <1>3, <1>10 DEF OneIdInv, EntriesFit
  <2>2. ByNative(e.name)' = {} => ByNative(e.name) = {}
    BY <1>3, <1>5, <2>1 DEF ByNative
  <2>3. VanishedAt(e.site, listed_names)' = VanishedAt(e.site, listed_names) \ {k}
    BY <1>1, <1>3, <1>5 DEF VanishedAt
  <2>4. ASSUME ByNative(e.name) = {}
        PROVE  /\ \A j \in VanishedAt(e.site, listed_names)', d \in Good : j.name \in named[d] => d = e.device
               /\ e.device \in Good => VanishedAt(e.site, listed_names)' = Ids(e.device)'
    <3>1. /\ \A j \in VanishedAt(e.site, listed_names), d \in Good : j.name \in named[d] => d = e.device
          /\ e.device \in Good => VanishedAt(e.site, listed_names) = Ids(e.device)
      BY <2>1, <2>4 DEF VanishFits
    <3>2. e.device \in Good => k \notin Ids(e.device) /\ Ids(e.device)' = Ids(e.device)
      <4>1. PICK d : d = e.device
        OBVIOUS
      <4>2. d \in Good => k \notin Ids(d) /\ Ids(d)' = Ids(d)
        BY <1>3, <1>6, <2>1, <4>1 DEF Ids
      <4> QED BY <4>1, <4>2 DEF Ids
    <3> QED BY <2>3, <3>1, <3>2
  <2> QED BY <1>1, <1>4, <2>2, <2>4 DEF VanishFits
<1>11. EntriesFit' /\ LookFits'
  <2>1. progress # "idle"
    BY <1>t, <1>1 DEF OneIdInv, EntriesFit
  <2> QED BY <1>t, <1>1, <1>10, <2>1 DEF OneIdInv, EntriesFit, LookFits
<1>12. RowsFit' /\ ReadingsFit'
  <2> DEFINE key == KeyOf(e0.name, [site |-> e0.site, id |-> k])
  <2>1. key = k
    BY <1>1 DEF KeyOf
  <2>2. \A d \in Good' : e0.name \in named[d] => key \in Stations' /\ key.name \in named[d]
    BY <1>3, <1>4, <1>5, <1>7, <2>1
  <2> HIDE DEF key
  <2>3. RowsFit'
    BY <1>0, <1>1, <1>5, <2>2, UpsertedFits DEF key
  <2> QED BY <1>t, <1>1, <1>4, <2>3, ReadingsStay DEF OneIdInv
<1> QED BY <1>1, <1>4, <1>8, <1>9, <1>11, <1>12 DEF OneIdState, OneIdInv

-----------------------------------------------------------------------------
(* Ends of batches and runs.                                                 *)

LEMMA NotBatched ==
    ASSUME OneIdState, NEW d \in Good, d \notin Batched, NEW k \in Ids(d)
    PROVE  k \in Id /\ batch[k] = None /\ station[k] # None
<1>t. IdentityTypeOK /\ OneIdInv /\ d \in Device
  BY DEF OneIdState, Good
<1>1. k \in Stations /\ k \in Id /\ k.name \in named[d]
  BY DEF Ids, Stations
<1>2. batch[k] = None
  <2> SUFFICES ASSUME batch[k] # None PROVE FALSE
    OBVIOUS
  <2>1. /\ batch[k].row.name \in Name /\ batch[k].device \in Device
        /\ batch[k].row.name \in named[batch[k].device] /\ RowFits(k, batch[k].row)
    BY <1>t, <1>1, RowNames DEF OneIdInv, TablesFit
  <2>2. batch[k].row.name \in named[d]
    BY <1>1, <2>1 DEF RowFits
  <2>3. d = batch[k].device
    BY <1>t, <2>1, <2>2 DEF OneIdInv, NamesOwn
  <2> QED BY <1>1, <1>t, <2>3 DEF Batched
<1> QED BY <1>t, <1>1, <1>2, StationsAre

LEMMA OneIdCommit ==
    ASSUME OneIdState, Commit
    PROVE  OneIdState'
<1>t. IdentityTypeOK /\ OneIdInv
  BY DEF OneIdState
<1>1. /\ IdentityTypeOK' /\ progress = "upserting" /\ look = None /\ batch' = NoRows
      /\ \A k \in Id : station'[k] = Seen(k)
      /\ UNCHANGED <<at, named, progress, entries, listed_names, found, look, manifest, readings, excused>>
      /\ seenAs' = [d \in Device |-> IF d \in Batched THEN WrittenAs(d) ELSE seenAs[d]]
  BY <1>t, CommitTyped DEF Commit, run
<1>2. NamesStep /\ Good' = Good /\ (\A n : Used(n)' <=> Used(n)) /\ Good \subseteq Device
  BY <1>1, SameNamed DEF Good
<1>3. SameNames /\ StationsStay
  <2>1. \A k \in Id : Seen(k)' = Seen(k)
    BY <1>1 DEF Seen, NoRows
  <2>2. StationsStay
    BY <1>t, <1>1, SeenIs DEF StationsStay
  <2> QED BY <2>1, <2>2 DEF SameNames, Stations
<1>4. ASSUME NEW d \in Batched
      PROVE  \E k \in Id : /\ batch[k] # None /\ batch[k].device = d
                           /\ seenAs'[d].name = batch[k].row.name /\ seenAs'[d] # None
                           /\ batch[k].row.name \in named[d]
  <2> DEFINE k == CHOOSE k \in Id : batch[k] # None /\ batch[k].device = d
  <2>1. k \in Id /\ batch[k] # None /\ batch[k].device = d /\ d \in Device
    BY <1>4 DEF Batched
  <2>2. batch[k].row.name \in named[d]
    BY <1>t, <2>1 DEF OneIdInv, TablesFit
  <2>3. seenAs'[d] = [name |-> batch[k].row.name, site |-> batch[k].row.site]
    BY <1>1, <1>4, <2>1 DEF WrittenAs
  <2>4. batch[k].row.name \in Name /\ batch[k].row.site \in Site
    BY <1>t, <2>1, RowNames DEF Station
  <2> HIDE DEF k
  <2>5. seenAs'[d] \in Place
    BY <2>3, <2>4 DEF Place
  <2> QED BY <2>1, <2>2, <2>3, <2>5, NotNone
<1>5. NamesOwn'
  <2>1. \A d \in Device : seenAs'[d] # None => seenAs'[d].name \in named[d]
    <3>1. \A d \in Device : d \in Batched => seenAs'[d].name \in named[d]
      BY <1>4
    <3>2. \A d \in Device : d \notin Batched => seenAs'[d] = seenAs[d]
      BY <1>1
    <3> QED BY <1>t, <3>1, <3>2 DEF OneIdInv, NamesOwn
  <2>2. Listed' = Listed
    BY <1>1 DEF Listed
  <2> QED BY <1>t, <1>1, <1>2, <2>1, <2>2 DEF OneIdInv, NamesOwn
<1>6. TablesFit'
  <2>1. ASSUME NEW k \in Id, station'[k] # None PROVE RowFits(k, station[k])'
    <3>1. k \in Stations /\ station'[k] = Seen(k)
      BY <1>1, <2>1 DEF Stations
    <3>2. PICK r : r = Seen(k)
      OBVIOUS
    <3>3. RowFits(k, r)
      BY <1>t, <3>1, <3>2, StationRow DEF OneIdInv
    <3> QED BY <1>1, <1>2, <3>1, <3>2, <3>3 DEF RowFits
  <2>2. \A k \in Id : batch'[k] = None
    BY <1>1 DEF NoRows
  <2> QED BY <2>1, <2>2 DEF TablesFit
<1>7. OneStation'
  BY <1>t, <1>2, <1>3, OneStationStays DEF OneIdInv
<1>8. SeenFits'
  <2> SUFFICES ASSUME NEW d \in Good, NEW k \in Id, station'[k] # None, k.name \in named[d]
               PROVE  seenAs'[d] # None /\ station'[k].name = seenAs'[d].name
    BY <1>1, <1>2 DEF SeenFits
  <2>1. k \in Ids(d) /\ station'[k] = Seen(k) /\ d \in Device
    BY <1>1, <1>2 DEF Ids, Stations
  <2>2. CASE d \in Batched
    <3>1. PICK j \in Id : /\ batch[j] # None /\ batch[j].device = d
                          /\ seenAs'[d].name = batch[j].row.name /\ seenAs'[d] # None
                          /\ batch[j].row.name \in named[d]
      BY <1>4, <2>2
    <3>2. Seen(j) = batch[j].row /\ j \in Stations /\ RowFits(j, batch[j].row)
      BY <1>t, <3>1, SeenIs DEF OneIdInv, TablesFit
    <3>3. j \in Ids(d)
      BY <3>1, <3>2 DEF RowFits, Ids
    <3>4. j = k
      BY <1>t, <2>1, <3>3 DEF OneIdInv, OneStation
    <3> QED BY <2>1, <3>1, <3>2, <3>4
  <2>3. CASE d \notin Batched
    <3>1. batch[k] = None /\ station[k] # None
      BY <2>1, <2>3, NotBatched
    <3>2. Seen(k) = station[k] /\ seenAs'[d] = seenAs[d]
      BY <1>1, <2>1, <2>3, <3>1 DEF Seen
    <3> QED BY <1>t, <2>1, <3>1, <3>2 DEF OneIdInv, SeenFits
  <2> QED BY <2>2, <2>3
<1>9. EntriesFit' /\ LookFits'
  BY <1>t, <1>1, <1>2, <1>3, EntriesStay, LookStays DEF OneIdInv
<1>10. RowsFit' /\ ReadingsFit'
  BY <1>t, <1>1, <1>2, <1>3, RowsStay, ReadingsStay DEF OneIdInv
<1> QED BY <1>1, <1>5, <1>6, <1>7, <1>8, <1>9, <1>10 DEF OneIdState, OneIdInv

\* A batch that is rolled back leaves what was committed.
LEMMA RolledBack ==
    ASSUME OneIdState, IdentityTypeOK', batch' = NoRows, entries' = {}, look' = None, excused \subseteq excused',
           UNCHANGED <<at, named, station, manifest, readings, seenAs>>,
           found' = Nowhere \/ (found' = found /\ Batched \subseteq excused')
    PROVE  OneIdState'
<1>t. IdentityTypeOK /\ OneIdInv
  BY DEF OneIdState
<1>1. NamesStep /\ NamesOwn' /\ StationsStay /\ (\A n : Used(n)' <=> Used(n)) /\ Good' \subseteq Good
  BY <1>t, SameNamed, NamesStay DEF OneIdInv, StationsStay, Good
<1>2. /\ \A k \in Id : batch'[k] = None
      /\ \A k \in Id : station[k] # None <=> k \in Stations'
      /\ Stations' \subseteq Stations
  <2>1. \A k \in Id : batch'[k] = None
    BY DEF NoRows
  <2>2. Stations' \subseteq Id /\ \A k \in Id : k \in Stations' <=> station[k] # None
    BY <2>1 DEF Stations, Seen
  <2> QED BY <1>t, <2>1, <2>2, StationsAre
<1>3. TablesFit'
  BY <1>t, <1>1, <1>2 DEF OneIdInv, TablesFit, RowFits
<1>4. OneStation' /\ SeenFits'
  <2>1. SeenFits'
    BY <1>t, <1>1, SeenStays DEF OneIdInv
  <2>2. \A d : Ids(d)' \subseteq Ids(d)
    BY <1>2 DEF Ids
  <2> QED BY <1>t, <1>1, <2>1, <2>2 DEF OneIdInv, OneStation
<1>5. EntriesFit' /\ LookFits'
  BY DEF EntriesFit, LookFits
<1>6. RowsFit'
  <2>1. ASSUME NEW n \in Name, found'[n] # None
        PROVE  Used(n)' /\ \A d \in Good' : n \in named'[d] => KeyOf(n, found'[n]) \in Ids(d)'
    <3>1. found' = found /\ Batched \subseteq excused'
      BY <2>1 DEF Nowhere
    <3>2. Used(n)' /\ \A d \in Good' : n \in named[d] => KeyOf(n, found[n]) \in Ids(d) /\ d \in Good /\ d \notin Batched
      BY <1>t, <1>1, <2>1, <3>1 DEF OneIdInv, RowsFit, Good
    <3>3. ASSUME NEW d \in Good', n \in named[d] PROVE KeyOf(n, found[n]) \in Ids(d)'
      <4>1. PICK k : k = KeyOf(n, found[n])
        OBVIOUS
      <4>2. k \in Ids(d) /\ k \in Id /\ station[k] # None
        BY <3>2, <3>3, <4>1, NotBatched
      <4>3. k \in Ids(d)'
        BY <1>2, <4>2 DEF Ids
      <4> QED BY <4>1, <4>3
    <3> QED BY <3>1, <3>2, <3>3
  <2> QED BY <1>t, <1>1, <2>1, ManifestStays DEF OneIdInv, RowsFit, KeyOf
<1>7. ReadingsFit'
  BY <1>t, <1>1, ReadingsStay DEF OneIdInv
<1> QED BY <1>1, <1>3, <1>4, <1>5, <1>6, <1>7 DEF OneIdState, OneIdInv

LEMMA OneIdPublish ==
    ASSUME OneIdState, PublishManifest
    PROVE  OneIdState'
<1>t. IdentityTypeOK /\ OneIdInv
  BY DEF OneIdState
<1>1. /\ IdentityTypeOK' /\ entries = {} /\ Batched = {} /\ look = None
      /\ manifest' = [n \in Name |-> IF found[n] # None THEN found[n] ELSE manifest[n]]
      /\ found' = Nowhere
      /\ UNCHANGED <<at, named, entries, look, station, batch, readings, seenAs, excused>>
  BY <1>t, EndsTyped DEF PublishManifest, provider
<1>2. \A k \in Id : batch[k] = None
  BY <1>t, <1>1, RowNames DEF Batched
<1>3. batch = NoRows
  BY <1>t, <1>2 DEF IdentityTypeOK, NoRows
<1>4. NamesStep /\ NamesOwn' /\ SameNames /\ StationsStay /\ Good' = Good /\ Good \subseteq Device
  BY <1>t, <1>1, SameNamed, NamesStay, SameTables DEF OneIdInv, StationsStay, Good
<1>5. TablesFit' /\ OneStation' /\ SeenFits' /\ ReadingsFit'
  BY <1>t, <1>1, <1>4, TablesStay, OneStationStays, SeenStays, ReadingsStay DEF OneIdInv
<1>6. EntriesFit' /\ LookFits'
  BY <1>1, <1>3 DEF EntriesFit, LookFits
<1>7. RowsFit'
  <2>1. ASSUME NEW n \in Name, manifest'[n] # None
        PROVE  /\ Used(n)'
               /\ \A d \in Good' : n \in named'[d] =>
                     LET k == KeyOf(n, manifest'[n]) IN station'[k] # None /\ k.name \in named'[d]
    <3>1. CASE found[n] # None
      <4>1. manifest'[n] = found[n]
        BY <1>1, <3>1
      <4>2. Used(n) /\ \A d \in Good : n \in named[d] => KeyOf(n, found[n]) \in Ids(d)
        BY <1>t, <3>1 DEF OneIdInv, RowsFit
      <4>3. \A d \in Good : \A k \in Ids(d) : station[k] # None /\ k.name \in named[d]
        BY <1>1, NotBatched DEF Ids
      <4> QED BY <1>1, <1>4, <4>1, <4>2, <4>3 DEF NamesStep
    <3>2. CASE found[n] = None
      <4>1. manifest'[n] = manifest[n]
        BY <1>1, <3>2
      <4> QED BY <1>t, <1>4, <2>1, <4>1, ManifestStays DEF OneIdInv
    <3> QED BY <3>1, <3>2
  <2> QED BY <1>1, <2>1 DEF RowsFit, Nowhere, KeyOf
<1> QED BY <1>1, <1>4, <1>5, <1>6, <1>7 DEF OneIdState, OneIdInv

LEMMA OneIdStep == OneIdState /\ [IdentityNext]_identityVars => OneIdState'
<1> SUFFICES ASSUME OneIdState, [IdentityNext]_identityVars PROVE OneIdState'
  OBVIOUS
<1>t. IdentityTypeOK /\ OneIdInv
  BY DEF OneIdState
<1>1. CASE UNCHANGED identityVars
  <2>1. /\ UNCHANGED <<at, changes, named, faults, progress, entries, listed_names, found, look, edited, raced,
                       station, batch, manifest, readings, seenAs, excused>>
        /\ IdentityTypeOK'
    BY <1>t, <1>1, IdentityVarsUnchanged DEF IdentityTypeOK
  <2>2. NamesStep /\ NamesOwn' /\ SameNames /\ StationsStay
    BY <1>t, <2>1, SameNamed, NamesStay, SameTables DEF OneIdInv, StationsStay
  <2>3. TablesFit' /\ OneStation' /\ SeenFits' /\ ReadingsFit'
    BY <1>t, <2>1, <2>2, TablesStay, OneStationStays, SeenStays, ReadingsStay DEF OneIdInv
  <2>4. EntriesFit' /\ LookFits' /\ RowsFit'
    BY <1>t, <2>1, <2>2, EntriesStay, LookStays, RowsStay DEF OneIdInv
  <2> QED BY <2>1, <2>2, <2>3, <2>4 DEF OneIdState, OneIdInv
<1>2. CASE CommitFails
  <2>1. IdentityTypeOK' /\ look' = None
    BY <1>t, <1>2, EndsTyped
  <2> QED BY <1>2, <2>1, RolledBack DEF CommitFails, provider
<1>3. CASE RunCrashes
  <2>1. IdentityTypeOK'
    BY <1>t, <1>3, EndsTyped
  <2> QED BY <1>3, <2>1, RolledBack DEF RunCrashes, provider
<1> QED BY <1>1, <1>2, <1>3, OneIdProvider, OneIdHourly, OneIdReadCity, OneIdLook, OneIdWrite, OneIdUpsertedNone,
           OneIdCommit, OneIdPublish, OneIdCurate DEF IdentityNext, UpsertStation

\* However devices come, go, move and are renamed, whatever fails and however long
\* the lists are, a device that discovery can follow has its readings under one id,
\* and no other such device has readings there.  (upsert_station, _build_scope_key)
THEOREM HistoryNotSplit == IdentitySpec => []OneIdPerDevice
<1>1. OneIdState => OneIdPerDevice
  <2> SUFFICES ASSUME OneIdState, NEW d \in Good
               PROVE  /\ Cardinality(Homes(d)) <= 1
                      /\ \A e \in Good \ {d} : Homes(d) \cap Homes(e) = {}
    BY DEF OneIdPerDevice, Good
  <2>t. IdentityTypeOK /\ OneIdInv /\ Good \subseteq Device
    BY DEF OneIdState, Good
  <2>1. \A e \in Good : \A k \in Homes(e) : k \in Id /\ k \in Ids(e) /\ k.name \in Name /\ k.name \in named[e]
    BY <2>t, StationsAre, IdName DEF OneIdInv, ReadingsFit, Homes, Ids
  <2>2. Homes(d) = {} \/ \E k : Homes(d) = {k}
    BY <2>t, <2>1 DEF OneIdInv, OneStation
  <2>3. Cardinality(Homes(d)) <= 1
    <3>1. Cardinality({}) = 0 /\ \A k : Cardinality({k}) = 1
      BY FS_EmptySet, FS_Singleton
    <3>2. Cardinality(Homes(d)) \in {0, 1}
      BY <2>2, <3>1
    <3> QED BY <3>2
  <2>4. \A e \in Good \ {d} : Homes(d) \cap Homes(e) = {}
    BY <2>t, <2>1 DEF OneIdInv, NamesOwn
  <2> QED BY <2>3, <2>4
<1> QED BY <1>1, OneIdInitially, OneIdStep, PTL DEF IdentitySpec

\* The conflict that is merged after all needs a device discovery cannot follow:
\* the readings of any other one go to a station no second device holds, whether
\* the manifest has an id for it or not.  (_build_scope_key)
THEOREM OwnStationOnly ==
    IdentitySpec => [][\A d \in Device \ excused, k \in Id :
                          d \in readings'[k] \ readings[k] => Holders(k) \subseteq {d}]_identityVars
<1>1. ASSUME OneIdState, HourlyRun, NEW d \in Good, NEW k \in Id, d \in readings'[k] \ readings[k]
      PROVE  Holders(k) \subseteq {d}
  <2>t. IdentityTypeOK /\ NamesOwn /\ TablesFit /\ RowsFit /\ d \in Device
    BY <1>1 DEF OneIdState, OneIdInv, Good
  <2>1. d \in Answering /\ ScopeKey(at[d].name) = k
    BY <1>1 DEF HourlyRun
  <2>2. at[d] # None /\ manifest[at[d].name] # None /\ at[d].name \in Name /\ at[d].name \in named[d]
    BY <2>t, <2>1 DEF Answering, Listed, NamesOwn, IdentityTypeOK, Place
  <2>3. ScopeKey(at[d].name) = KeyOf(at[d].name, manifest[at[d].name])
    BY DEF ScopeKey, KeyOf
  <2>4. station[k] # None /\ k.name \in named[d]
    BY <1>1, <2>t, <2>1, <2>2, <2>3 DEF RowsFit
  <2>5. station[k].name \in Name /\ station[k].name \in named[d]
    BY <1>1, <2>t, <2>4, RowNames DEF TablesFit, RowFits
  <2>6. ASSUME NEW e \in Holders(k) PROVE e = d
    <3>1. e \in Device /\ station[k].name \in named[e]
      BY <2>t, <2>6 DEF Holders, NamesOwn
    <3> QED BY <1>1, <2>t, <2>5, <3>1 DEF NamesOwn
  <2> QED BY <2>6
<1>2. ASSUME OneIdState, [IdentityNext]_identityVars, NEW d \in Device \ excused, NEW k \in Id,
             d \in readings'[k] \ readings[k]
      PROVE  Holders(k) \subseteq {d}
  <2>1. readings' # readings
    BY <1>2
  <2>2. HourlyRun
    BY <1>2, <2>1 DEF IdentityNext, UpsertStation, ProviderChanges, Appear, Disappear, Rename, Move, Changes,
       ReadCity, LookNative, LookConflict, LookRenamed, LookNew, Looking, Write, Conflict, UpsertFails,
       Upserted, Commit, CommitFails, PublishManifest, RunCrashes, Curate, identityVars
  <2> QED BY <1>1, <1>2, <2>2 DEF Good
<1> DEFINE A == \A d \in Device \ excused, k \in Id :
                   d \in readings'[k] \ readings[k] => Holders(k) \subseteq {d}
<1>3. OneIdState /\ [IdentityNext]_identityVars => [A]_identityVars
  BY <1>2
<1> HIDE DEF A
<1>4. IdentitySpec => [][A]_identityVars
  BY <1>3, OneIdInitially, OneIdStep, PTL DEF IdentitySpec
<1> QED BY <1>4 DEF A
=============================================================================
