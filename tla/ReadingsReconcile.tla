-------------------------- MODULE ReadingsReconcile --------------------------
(***************************************************************************)
(* How runs write one row of readings                                      *)
(* (apps/api/app/ingestion/reconcile.py, merge_qc of validation.py).       *)
(*                                                                         *)
(* A writer is one transaction at READ COMMITTED: it selects what the row  *)
(* holds, decides the new quality state from that, and upserts the values  *)
(* over whatever the row holds by then.  The upsert keeps its row lock to  *)
(* the commit, so for one row the two are one step; another writer may     *)
(* commit between a select and its upsert, and so may a curator, whose     *)
(* verdict that writer then does not know.  The rows to write are fixed    *)
(* before the select, which does not look at them: Upsert chooses them.    *)
(*                                                                         *)
(* A validation flag is named by the field it is about; Units is the flag  *)
(* units_unexpected of OpenAQ, which is not a validation flag.             *)
(***************************************************************************)
EXTENDS Integers

CONSTANTS
    Writer,         \* runs that may write the row at the same time
    Field,          \* measured fields
    Primary,        \* PRIMARY_FIELDS
    Value,          \* values a field may have
    UnitsDiffer,    \* writers whose provider reports an unexpected unit
    Units,          \* the flag units_unexpected
    NoValue         \* NULL

ASSUME ConstantsAssumption ==
    /\ Primary \subseteq Field
    /\ UnitsDiffer \subseteq Writer
    /\ Units \notin Field
    /\ NoValue \notin Value

VARIABLES
    row,        \* the row of readings; its state is "none" while there is none
    phase,      \* where a writer is in its transaction
    seen,       \* quality state and flags of the row as the writer selected it
    behind      \* ghost: writers that selected before the row was curated as it is

reconcileVars == <<row, phase, seen, behind>>

Flag == Field \cup {Units}
Curated == {"OK", "SUSPECT"}
State == Curated \cup {"none", "raw", "INVALID"}
Quality == [state : State, flags : SUBSET Flag]
Row == [vals : [Field -> Value \cup {NoValue}], state : State, flags : SUBSET Flag]
NoRow == [vals |-> [f \in Field |-> NoValue], state |-> "none", flags |-> {}]
NothingSeen == [state |-> "none", flags |-> {}]

\* The type of the state.
TypeOK ==
    /\ row \in Row
    /\ phase \in [Writer -> {"idle", "selected"}]
    /\ seen \in [Writer -> Quality]
    /\ behind \subseteq Writer

\* There may be no row yet, or one a reviewer or an older adapter left curated.
ReconcileInit ==
    /\ row \in {NoRow} \cup [vals : [Field -> Value \cup {NoValue}], state : Curated, flags : {{}}]
    /\ phase = [w \in Writer |-> "idle"]
    /\ seen = [w \in Writer |-> NothingSeen]
    /\ behind = {}

(***************************************************************************)
(* The rows to write.                                                      *)
(***************************************************************************)

\* What validation leaves of one payload row: a field is given, not given, or
\* quarantined with its flag.
Validated(w) ==
    {[vals |-> [f \in Field |-> IF f \in bad THEN NoValue ELSE v[f]],
      flags |-> bad \cup (IF w \in UnitsDiffer THEN {Units} ELSE {})] :
        v \in [Field -> Value \cup {NoValue}], bad \in SUBSET Field}

Present(p) == {f \in Field : p.vals[f] # NoValue}

\* dedupe_rows: two rows of one hour; the first value wins, the flags are joined.
Deduped(p, q) ==
    [vals |-> [f \in Field |-> IF p.vals[f] # NoValue THEN p.vals[f] ELSE q.vals[f]],
     flags |-> p.flags \cup q.flags]

\* What a writer may bring for the hour, duplicates included.
Incoming == [w \in Writer |-> {Deduped(p, q) : p, q \in Validated(w)}]

(***************************************************************************)
(* The merge.                                                              *)
(***************************************************************************)

\* Operators Name_Slip are seeded mistakes: Name with a plausible bug in it.
StateForFlags(flags) == IF flags \cap Primary # {} THEN "INVALID" ELSE "raw"

\* Invalid by something else than validation.
Foreign(q) == q.state = "INVALID" /\ ~(q.flags \subseteq Field)

Merged_NoCurated(q, p) ==
    LET remaining == (q.flags \ Present(p)) \cup p.flags
    IN  IF Foreign(q) THEN [state |-> "INVALID", flags |-> q.flags \cup p.flags]
        ELSE [state |-> StateForFlags(remaining), flags |-> remaining]

Merged_AnyFlag(q, p) ==
    LET remaining == (q.flags \ Present(p)) \cup p.flags
    IN  IF q.state \in Curated THEN [state |-> q.state, flags |-> q.flags \cup p.flags]
        ELSE IF Foreign(q) THEN [state |-> "INVALID", flags |-> q.flags \cup p.flags]
        ELSE [state |-> IF remaining # {} THEN "INVALID" ELSE "raw", flags |-> remaining]

Merged_FlagsOnce(q, p) ==
    LET remaining == IF q.flags = {} THEN p.flags ELSE q.flags \ Present(p)
    IN  IF q.state \in Curated THEN [state |-> q.state, flags |-> q.flags \cup p.flags]
        ELSE IF Foreign(q) THEN [state |-> "INVALID", flags |-> q.flags \cup p.flags]
        ELSE [state |-> StateForFlags(remaining), flags |-> remaining]

Merged_NeverHeals(q, p) ==
    LET remaining == q.flags \cup p.flags
    IN  IF q.state \in Curated THEN [state |-> q.state, flags |-> remaining]
        ELSE [state |-> StateForFlags(remaining), flags |-> remaining]

\* merge_qc: the quality of a row that had quality q when p is written to it.
Merged(q, p) ==
    LET remaining == (q.flags \ Present(p)) \cup p.flags
    IN  IF q.state \in Curated THEN [state |-> q.state, flags |-> q.flags \cup p.flags]
        ELSE IF Foreign(q) THEN [state |-> "INVALID", flags |-> q.flags \cup p.flags]
        ELSE [state |-> StateForFlags(remaining), flags |-> remaining]

Written_Overwrites(r, q, p) ==
    [vals |-> p.vals, state |-> Merged(q, p).state, flags |-> Merged(q, p).flags]

\* The upsert: a value is kept unless there is a new one, the quality is replaced.
Written(r, q, p) ==
    [vals |-> [f \in Field |-> IF p.vals[f] # NoValue THEN p.vals[f] ELSE r.vals[f]],
     state |-> Merged(q, p).state,
     flags |-> Merged(q, p).flags]

QualityOf(r) == [state |-> r.state, flags |-> r.flags]

(***************************************************************************)
(* The writers.                                                            *)
(***************************************************************************)

Selected == {w \in Writer : phase[w] = "selected"}

Select(w) ==
    /\ phase[w] = "idle"
    /\ phase' = [phase EXCEPT ![w] = "selected"]
    /\ seen' = [seen EXCEPT ![w] = QualityOf(row)]
    /\ UNCHANGED <<row, behind>>

Done(w) ==
    /\ phase' = [phase EXCEPT ![w] = "idle"]
    /\ seen' = [seen EXCEPT ![w] = NothingSeen]

Upsert(w) ==
    /\ phase[w] = "selected"
    /\ \E p \in Incoming[w] : row' = Written(row, seen[w], p)
    /\ behind' = CASE row'.state \notin Curated -> {}
                   [] row'.state = row.state -> behind \ {w}
                   [] OTHER -> Selected \ {w}
    /\ Done(w)

\* The transaction is rolled back, or its instance dies.
Rollback(w) ==
    /\ phase[w] = "selected"
    /\ behind' = behind \ {w}
    /\ Done(w)
    /\ UNCHANGED row

\* A curator -- "BAM QC, exports QC", a reviewer's UPDATE -- commits a verdict on
\* the row, between any two steps of the writers.
Judge(state) ==
    /\ row.state \notin {"none", state}
    /\ row' = [row EXCEPT !.state = state]
    /\ behind' = Selected
    /\ UNCHANGED <<phase, seen>>

ReconcileNext ==
    \/ \E w \in Writer : Select(w) \/ Upsert(w) \/ Rollback(w)
    \/ \E state \in Curated : Judge(state)

ReconcileSpec == ReconcileInit /\ [][ReconcileNext]_reconcileVars

(***************************************************************************)
(* Properties.                                                             *)
(***************************************************************************)

\* However selects and upserts of several runs interleave, a sparse payload never
\* removes a value another run stored (build_upsert_sql; "never writes NULL over
\* a value").
ValuesSurvive == [][\A f \in Field : row.vals[f] # NoValue => row'.vals[f] # NoValue]_reconcileVars

\* A curated state is lost only to another verdict, or to a writer that selected
\* the row before it was curated so: a run that meets the verdict keeps it, however
\* many runs wrote in between.  A run in flight does replace it, since the upsert
\* sets the state it decided from its earlier select (reconcile.py:308), against
\* "curated states are never downgraded by raw ingest".  It may also bring back a
\* verdict that another such run has just replaced.  (merge_qc, build_upsert_sql)
CuratedStays ==
    [][row.state \in Curated /\ row'.state # row.state =>
          \/ UNCHANGED <<phase, seen>> /\ row'.state \in Curated
          \/ \E w \in behind : phase'[w] # phase[w]]_reconcileVars

\* The state and the flags come from one decision, however stale, so a state that
\* is not curated is always explained by the flags stored with it.
FlagsExplainState ==
    row.state \in {"raw", "INVALID"} => row.state = StateForFlags(row.flags)

\* Writing the same rows again changes nothing, whatever earlier races left in the
\* row: a replayed window counts as unchanged.
ReplayIsIdle ==
    \A w \in Writer : \A p \in Incoming[w] :
        LET once == Written(row, QualityOf(row), p)
        IN  Written(once, QualityOf(once), p) = once

\* A field that earlier payloads, or a race between two runs, left flagged is
\* cleared by the next undisturbed write that has a valid value for it, and the row
\* is raw again once no primary field is flagged.
CleanWriteHeals ==
    \A w \in Writer : \A p \in Validated(w) :
        LET next == Written(row, QualityOf(row), p)
        IN  row.state \notin Curated /\ ~Foreign(row) =>
                /\ next.flags \cap Present(p) = {}
                /\ (row.flags \cup p.flags) \cap Primary \subseteq Present(p) => next.state = "raw"

\* What normalize.py says of a unit other than micrograms per cubic metre: it
\* "makes the row INVALID".  The write path drops that state; no run checks this.
UnexpectedUnitsAreInvalid ==
    Units \in row.flags /\ (\E f \in Primary : row.vals[f] # NoValue) => row.state # "raw"
=============================================================================
