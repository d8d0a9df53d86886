---------------------------- MODULE IngestLease -----------------------------
(***************************************************************************)
(* The distributed lease of a scheduled ingestion task                     *)
(* (apps/api/app/ingestion/leases.py over the table ops.ingest_leases).    *)
(*                                                                         *)
(* Each statement is one transaction of PostgreSQL on the row of a lease   *)
(* key, so it is one action.  Time is relative: `left` is expires_at minus *)
(* now(), counted in ticks and held at -1 once the lease has expired, so   *)
(* the SQL test expires_at < now() is left < 0.  The client can lose the   *)
(* answer of a statement that did commit; that is what the `applied`       *)
(* argument of the ...Error actions stands for.                            *)
(***************************************************************************)
EXTENDS Integers, FiniteSets

CONSTANTS
    Key,        \* lease keys <task>:<provider>:<scope>
    Holder,     \* holder ids; one per run, they contain the run id
    Process,    \* instances; one LeaseManager object each
    KeyOf,      \* the key a run asks for
    ProcOf,     \* the process a run executes in
    Required,   \* Required[p]: the `required` argument (TRUE in every task)
    TTL,        \* INGEST_LEASE_TTL_S in ticks
    MaxFence,   \* bound on the fence counter of a row
    NoRow       \* there is no row for the key

\* A row of ops.ingest_leases: its holder, its fence and the time it has left.
Remaining == -1 .. TTL
Row == [holder : Holder, fence : 1 .. MaxFence, left : Remaining]

ASSUME ConstantsAssumption ==
    /\ KeyOf \in [Holder -> Key]
    /\ ProcOf \in [Holder -> Process]
    /\ Required \in [Process -> BOOLEAN]
    /\ TTL \in Nat
    /\ MaxFence \in Nat \ {0}
    /\ NoRow \notin Row

VARIABLES
    row,        \* row[k]: the row of key k in ops.ingest_leases
    pc,         \* pc[h]: where run h stands
    fence,      \* fence[h]: Lease.fence of the lease object run h was given
    view,       \* view[h]: time left on the lease as the run was last told
    degraded    \* degraded[p]: LeaseManager._degraded of process p

vars == <<row, pc, fence, view, degraded>>

\* "new": before acquire; "held": has a real lease; "synthetic": has the
\* stand-in lease of a degraded manager; "over": skipped, failed, released
\* or crashed.
RunState == {"new", "held", "synthetic", "over"}
TypeOK ==
    /\ row \in [Key -> Row \cup {NoRow}]
    /\ pc \in [Holder -> RunState]
    /\ fence \in [Holder -> 0 .. MaxFence]
    /\ view \in [Holder -> Remaining]
    /\ degraded \in [Process -> BOOLEAN]

Init ==
    /\ row = [k \in Key |-> NoRow]
    /\ pc = [h \in Holder |-> "new"]
    /\ fence = [h \in Holder |-> 0]
    /\ view = [h \in Holder |-> -1]
    /\ degraded = [p \in Process |-> FALSE]

-----------------------------------------------------------------------------
\* The three statements.  Operators Name_Slip are seeded mistakes: what a slip
\* in Name would look like.  No action uses them.

\* ON CONFLICT DO UPDATE ... WHERE expires_at < now(): only a lapsed row.
Stealable_WhileLive(k) == row[k] # NoRow /\ row[k].left <= 0
Stealable(k) == row[k] # NoRow /\ row[k].left < 0
CanAcquire_Always(k) == TRUE
CanAcquire_NeverSteals(k) == row[k] = NoRow
CanAcquire(k) == row[k] = NoRow \/ Stealable(k)

\* The row ACQUIRE_SQL leaves behind.  DELETE on release forgets the fence,
\* so a fresh insert starts again at 1.
AcquiredRow(h, k) ==
    [holder |-> h,
     fence  |-> IF row[k] = NoRow THEN 1 ELSE row[k].fence + 1,
     left   |-> TTL]

\* WHERE lease_key = :key AND fence = :fence AND holder = :holder
Matches_FenceOnly(h) ==
    LET r == row[KeyOf[h]] IN r # NoRow /\ r.fence = fence[h]
Matches(h) ==
    LET r == row[KeyOf[h]] IN
    r # NoRow /\ r.holder = h /\ r.fence = fence[h]

\* SET expires_at = now() + ttl
Refreshed(k) == [row[k] EXCEPT !.left = TTL]

\* MaxFence bounds the counter of a row that is stolen again and again.
BelowBound(k) == row[k] # NoRow => row[k].fence < MaxFence

-----------------------------------------------------------------------------
\* acquire() is granted: inserted, or stolen from an expired holder.
Acquire(h) ==
    LET k == KeyOf[h] IN
    /\ pc[h] = "new"
    /\ ~degraded[ProcOf[h]]
    /\ CanAcquire(k)
    /\ BelowBound(k)
    /\ row' = [row EXCEPT ![k] = AcquiredRow(h, k)]
    /\ fence' = [fence EXCEPT ![h] = AcquiredRow(h, k).fence]
    /\ view' = [view EXCEPT ![h] = TTL]
    /\ pc' = [pc EXCEPT ![h] = "held"]
    /\ UNCHANGED degraded

\* acquire() returns None: a live row is there, the run is skipped.
AcquireDenied(h) ==
    /\ pc[h] = "new"
    /\ ~degraded[ProcOf[h]]
    /\ ~CanAcquire(KeyOf[h])
    /\ pc' = [pc EXCEPT ![h] = "over"]
    /\ UNCHANGED <<row, fence, view, degraded>>

\* acquire() raises inside.  The statement may have committed all the same.
\* A required manager re-raises and the run fails without a lease; otherwise
\* the manager degrades for good and hands out a synthetic lease.
AcquireError(h, applied) ==
    LET k == KeyOf[h] IN
    /\ pc[h] = "new"
    /\ ~degraded[ProcOf[h]]
    /\ applied => CanAcquire(k) /\ BelowBound(k)
    /\ row' = IF applied THEN [row EXCEPT ![k] = AcquiredRow(h, k)] ELSE row
    /\ pc' = [pc EXCEPT ![h] = IF Required[ProcOf[h]] THEN "over" ELSE "synthetic"]
    /\ degraded' = IF Required[ProcOf[h]] THEN degraded
                   ELSE [degraded EXCEPT ![ProcOf[h]] = TRUE]
    /\ UNCHANGED <<fence, view>>

\* acquire() of a manager that degraded earlier.
AcquireSynthetic(h) ==
    /\ pc[h] = "new"
    /\ degraded[ProcOf[h]]
    /\ pc' = [pc EXCEPT ![h] = "synthetic"]
    /\ UNCHANGED <<row, fence, view, degraded>>

\* renew(): extends the row if it is still this run's, even when it has
\* expired and nobody has stolen it; otherwise returns False and does nothing.
\* A degraded manager answers True without touching the row.
Renew(h) ==
    /\ pc[h] = "held"
    /\ IF Matches(h) /\ ~degraded[ProcOf[h]]
       THEN /\ row' = [row EXCEPT ![KeyOf[h]] = Refreshed(KeyOf[h])]
            /\ view' = [view EXCEPT ![h] = TTL]
       ELSE UNCHANGED <<row, view>>
    /\ UNCHANGED <<pc, fence, degraded>>

\* renew() fails after the UPDATE committed: the run is told False.
RenewError(h) ==
    /\ pc[h] = "held"
    /\ ~degraded[ProcOf[h]]
    /\ Matches(h)
    /\ row' = [row EXCEPT ![KeyOf[h]] = Refreshed(KeyOf[h])]
    /\ UNCHANGED <<pc, fence, view, degraded>>

\* release(): DELETE of the row if it is still this run's.  A synthetic lease
\* or a manager that degraded in the meantime returns without a statement.
Release(h) ==
    /\ pc[h] \in {"held", "synthetic"}
    /\ row' = IF pc[h] = "held" /\ ~degraded[ProcOf[h]] /\ Matches(h)
              THEN [row EXCEPT ![KeyOf[h]] = NoRow] ELSE row
    /\ pc' = [pc EXCEPT ![h] = "over"]
    /\ view' = [view EXCEPT ![h] = -1]
    /\ UNCHANGED <<fence, degraded>>

\* The process dies with the lease, or the DELETE fails (it is only logged):
\* the row stays until its TTL.
Abandon(h) ==
    /\ pc[h] \in {"held", "synthetic"}
    /\ pc' = [pc EXCEPT ![h] = "over"]
    /\ view' = [view EXCEPT ![h] = -1]
    /\ UNCHANGED <<row, fence, degraded>>

\* A new run: its id, and so its holder id, is not in the table.
NewRun(h) ==
    /\ pc[h] = "over"
    /\ row[KeyOf[h]] # NoRow => row[KeyOf[h]].holder # h
    /\ pc' = [pc EXCEPT ![h] = "new"]
    /\ fence' = [fence EXCEPT ![h] = 0]
    /\ UNCHANGED <<row, view, degraded>>

\* One tick of the clock, down to "expired".
Older(n) == IF n < 0 THEN n ELSE n - 1
Tick ==
    /\ row' = [k \in Key |-> IF row[k] = NoRow THEN NoRow
                             ELSE [row[k] EXCEPT !.left = Older(row[k].left)]]
    /\ view' = [h \in Holder |-> Older(view[h])]
    /\ UNCHANGED <<pc, fence, degraded>>

Next ==
    \/ \E h \in Holder :
          \/ Acquire(h)
          \/ AcquireDenied(h)
          \/ \E applied \in BOOLEAN : AcquireError(h, applied)
          \/ AcquireSynthetic(h)
          \/ Renew(h)
          \/ RenewError(h)
          \/ Release(h)
          \/ Abandon(h)
          \/ NewRun(h)
    \/ Tick

Spec == Init /\ [][Next]_vars

\* The clock runs, Cloud Scheduler keeps starting runs, and the database does
\* not answer with an error every single time a run could have had the lease.
\* Nothing is assumed of releases or renewals.
Fairness ==
    /\ WF_vars(Tick)
    /\ \A h \in Holder : WF_vars(NewRun(h))
    /\ \A h \in Holder : SF_vars(Acquire(h))
    /\ \A h \in Holder : WF_vars(AcquireSynthetic(h))

FairSpec == Spec /\ Fairness

-----------------------------------------------------------------------------
\* A run is entitled to its key while the lease it was given has not expired
\* by its own reckoning.
Entitled(h) == pc[h] = "held" /\ view[h] >= 0

\* Inductive core: an entitled run's lease is the row, with at least as much
\* time left as the run believes.
EntitledOwnsRow ==
    \A h \in Holder : Entitled(h) => Matches(h) /\ view[h] <= row[KeyOf[h]].left

\* Two copies of one job never both hold an unexpired lease, whatever stale
\* runs, crashes, lost answers and restarted fences do (leases.py:12-13, "a
\* stale holder cannot touch a lease it lost").
OneEntitledRun ==
    \A h, g \in Holder :
       Entitled(h) /\ Entitled(g) /\ KeyOf[h] = KeyOf[g] => h = g

\* An unexpired row disappears or changes hands only by an act of the run it
\* names, whose state changes in the same step (leases.py:60, 66, 70).
OnlyItsHolderEndsALiveLease ==
    [][\A k \in Key :
          row[k] # NoRow /\ row[k].left >= 0 =>
             \/ row'[k] # NoRow /\ row'[k].holder = row[k].holder
             \/ pc'[row[k].holder] # pc[row[k].holder]]_vars

\* A job is never locked out for good: whatever crashed while holding its
\* lease, some later run of the key gets it (leases.py:12, "an expired lease is
\* stolen atomically"; 119, "it will expire on its own").
NeverLockedOut ==
    \A k \in Key :
       []<>(\/ \E h \in Holder : KeyOf[h] = k /\ pc[h] \in {"held", "synthetic"}
            \/ ~BelowBound(k)
            \/ \A h \in Holder : KeyOf[h] # k)

\* The table implements the abstract exclusion of LeaseExclusion.
EntitledRuns == [k \in Key |-> {h \in Holder : KeyOf[h] = k /\ Entitled(h)}]
Exclusion == INSTANCE LeaseExclusion WITH entitled <- EntitledRuns
ImplementsExclusion == Exclusion!Spec
=============================================================================
