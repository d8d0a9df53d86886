---------------------------- MODULE ProviderQuota ----------------------------
(***************************************************************************)
(* The shared request budget of one provider credential                    *)
(* (apps/api/app/ingestion/quota.py over ops.provider_quota), and the      *)
(* waiting loop of its callers (reserve_or_wait).                          *)
(*                                                                         *)
(* A reservation is one transaction.  now() is the time the transaction    *)
(* began, so it is split in two: Begin fixes the windows it will spend     *)
(* from, Answer is its commit.  Its row locks are held to the commit, so   *)
(* everything in between is one step.  Windows are named by their age:     *)
(* used[0] is the row of the current minute, used[1] that of the minute    *)
(* before.  Time advances in slots, SlotsPerMinute to a minute.            *)
(***************************************************************************)
EXTENDS Integers, FiniteSets

CONSTANTS
    Call,           \* concurrent callers of reserve_or_wait
    Process,        \* instances, one PostgresQuota object each
    ProcOf,         \* the instance a caller runs in
    Required,       \* Required[p]: the `required` argument
    MinuteLimit,    \* MinuteLimit[p]: limit_per_min as configured in p
    HourLimit,      \* HourLimit[p]: limit_per_hour, 0 for None
    SlotsPerMinute,
    MinutesPerHour,
    MaxWait,        \* max_wait_s in slots
    TxAge,          \* minute boundaries one transaction may straddle
    Keep            \* oldest window that is followed; the GC keeps longer ones

ASSUME ConstantsAssumption ==
    /\ ProcOf \in [Call -> Process]
    /\ Required \in [Process -> BOOLEAN]
    /\ MinuteLimit \in [Process -> Nat]
    /\ HourLimit \in [Process -> Nat]
    /\ SlotsPerMinute \in Nat \ {0}
    /\ MinutesPerHour \in Nat \ {0}
    /\ MaxWait \in Nat
    /\ TxAge \in Nat
    /\ Keep \in Nat
    /\ TxAge < Keep

VARIABLES
    slot,       \* slot of the current minute
    minute,     \* minute of the current hour
    used,       \* used[a]: `used` of the minute row of age a; 0 for no row
    hused,      \* hused[a]: the same of the hour row
    spent,      \* ghost: reservations of metered callers that passed every check
    hspent,     \* ghost: those that passed the hour check, by hour
    pc,         \* state of a caller
    tx,         \* its transaction: ages of its windows, time to the next ones
    wake,       \* slots left of its sleep
    waited,     \* `waited` of reserve_or_wait
    degraded    \* PostgresQuota._degraded

vars == <<slot, minute, used, hused, spent, hspent, pc, tx, wake, waited, degraded>>

CallState == {"idle", "asking", "waiting", "granted", "exhausted", "failed"}
Settled == {"granted", "exhausted", "failed"}
Age == 0 .. Keep
Larger(a, b) == IF a >= b THEN a ELSE b
Smaller(a, b) == IF a <= b THEN a ELSE b
NoTx == [minute |-> 0, hour |-> 0, untilMinute |-> 0, untilHour |-> 0]

TypeOK ==
    /\ slot \in 0 .. SlotsPerMinute - 1
    /\ minute \in 0 .. MinutesPerHour - 1
    /\ used \in [Age -> Nat]
    /\ hused \in [Age -> Nat]
    /\ spent \in [Age -> Nat]
    /\ hspent \in [Age -> Nat]
    /\ pc \in [Call -> CallState]
    /\ tx \in [Call -> [minute : 0 .. TxAge, hour : 0 .. TxAge,
                        untilMinute : 0 .. SlotsPerMinute,
                        untilHour : 0 .. SlotsPerMinute * MinutesPerHour]]
    /\ wake \in [Call -> 0 .. SlotsPerMinute]
    /\ waited \in [Call -> 0 .. MaxWait]
    /\ degraded \in [Process -> BOOLEAN]

Init ==
    /\ slot = 0
    /\ minute = 0
    /\ used = [a \in Age |-> 0]
    /\ hused = [a \in Age |-> 0]
    /\ spent = [a \in Age |-> 0]
    /\ hspent = [a \in Age |-> 0]
    /\ pc = [c \in Call |-> "idle"]
    /\ tx = [c \in Call |-> NoTx]
    /\ wake = [c \in Call |-> 0]
    /\ waited = [c \in Call |-> 0]
    /\ degraded = [p \in Process |-> FALSE]

-----------------------------------------------------------------------------
\* The statements of one transaction.  Operators Name_Slip are seeded
\* mistakes: what a slip in Name would look like.  No action uses them.

\* max(1, int(limit_per_min)): a limit of 0 still lets one request through.
PerMinute(c) == Larger(1, MinuteLimit[ProcOf[c]])
PerHour(c) == HourLimit[ProcOf[c]]
\* `elif limit_per_hour:` -- no hour budget is asked for at all when it is 0.
HasHour(c) == PerHour(c) > 0

\* WHERE q.used < EXCLUDED.quota_limit, the caller's limit and not the row's.
MinuteFree(c) == used[tx[c].minute] < PerMinute(c)
HourFree(c) == hused[tx[c].hour] < PerHour(c)
Passes(c) == MinuteFree(c) /\ (HasHour(c) => HourFree(c))

\* The minute slot is spent even when the hour check then denies the request.
SpendsMinute(c) == MinuteFree(c)
SpendsHour_BeforeMinute(c) == HasHour(c) /\ HourFree(c)
SpendsHour(c) == MinuteFree(c) /\ HasHour(c) /\ HourFree(c)

Bumped(f, a, b) == IF b THEN [f EXCEPT ![a] = @ + 1] ELSE f

\* The committed transaction of c.
Committed(c) ==
    /\ used' = Bumped(used, tx[c].minute, SpendsMinute(c))
    /\ hused' = Bumped(hused, tx[c].hour, SpendsHour(c))
    /\ spent' = Bumped(spent, tx[c].minute, Passes(c))
    /\ hspent' = Bumped(hspent, tx[c].hour, Passes(c) /\ HasHour(c))

\* reserve_or_wait returns or raises: its local variables are gone.
Returned(c) ==
    /\ tx' = [tx EXCEPT ![c] = NoTx]
    /\ waited' = [waited EXCEPT ![c] = 0]

\* Sleep before the next try: to the end of the minute, and after a denial by
\* the hour a whole minute or to the end of the hour, whichever is sooner
\* (min(retry_in, 60)).
Delay(c) == IF MinuteFree(c) THEN Smaller(tx[c].untilHour, SlotsPerMinute)
            ELSE tx[c].untilMinute

-----------------------------------------------------------------------------
\* reserve() is entered with a live table: the transaction begins, now() is set.
Begin(c) ==
    /\ pc[c] = "idle" \/ (pc[c] = "waiting" /\ wake[c] = 0)
    /\ ~degraded[ProcOf[c]]
    /\ pc' = [pc EXCEPT ![c] = "asking"]
    /\ tx' = [tx EXCEPT ![c] =
                 [minute |-> 0, hour |-> 0,
                  untilMinute |-> SlotsPerMinute - slot,
                  untilHour |-> (MinutesPerHour - minute) * SlotsPerMinute - slot]]
    /\ UNCHANGED <<slot, minute, used, hused, spent, hspent, wake, waited, degraded>>

\* reserve() of a degraded object grants without a statement.
BeginUnmetered(c) ==
    /\ pc[c] = "idle" \/ (pc[c] = "waiting" /\ wake[c] = 0)
    /\ degraded[ProcOf[c]]
    /\ pc' = [pc EXCEPT ![c] = "granted"]
    /\ Returned(c)
    /\ UNCHANGED <<slot, minute, used, hused, spent, hspent, wake, degraded>>

\* The transaction commits and both checks passed.
Grant(c) ==
    /\ pc[c] = "asking"
    /\ Passes(c)
    /\ Committed(c)
    /\ pc' = [pc EXCEPT ![c] = "granted"]
    /\ Returned(c)
    /\ UNCHANGED <<slot, minute, wake, degraded>>

\* The transaction commits, a check failed, and there is time left to wait.
DenyAndSleep_ForgetWaited(c) ==
    /\ pc[c] = "asking"
    /\ ~Passes(c)
    /\ waited[c] + Delay(c) <= MaxWait
    /\ Committed(c)
    /\ pc' = [pc EXCEPT ![c] = "waiting"]
    /\ wake' = [wake EXCEPT ![c] = Delay(c)]
    /\ tx' = [tx EXCEPT ![c] = NoTx]
    /\ UNCHANGED <<slot, minute, waited, degraded>>
DenyAndSleep(c) ==
    /\ pc[c] = "asking"
    /\ ~Passes(c)
    /\ waited[c] + Delay(c) <= MaxWait
    /\ Committed(c)
    /\ pc' = [pc EXCEPT ![c] = "waiting"]
    /\ wake' = [wake EXCEPT ![c] = Delay(c)]
    /\ waited' = [waited EXCEPT ![c] = @ + Delay(c)]
    /\ tx' = [tx EXCEPT ![c] = NoTx]
    /\ UNCHANGED <<slot, minute, degraded>>

\* The transaction commits, a check failed, and the wait budget is used up.
DenyAndGiveUp(c) ==
    /\ pc[c] = "asking"
    /\ ~Passes(c)
    /\ waited[c] + Delay(c) > MaxWait
    /\ Committed(c)
    /\ pc' = [pc EXCEPT ![c] = "exhausted"]
    /\ Returned(c)
    /\ UNCHANGED <<slot, minute, wake, degraded>>

\* The caller sees an error; the transaction may have committed all the same.
\* A required object raises QuotaUnavailable; the other degrades for good and
\* grants.
OnError(c) ==
    IF Required[ProcOf[c]]
    THEN /\ pc' = [pc EXCEPT ![c] = "failed"]
         /\ UNCHANGED degraded
    ELSE /\ pc' = [pc EXCEPT ![c] = "granted"]
         /\ degraded' = [degraded EXCEPT ![ProcOf[c]] = TRUE]

Error(c, committed) ==
    /\ pc[c] = "asking"
    /\ IF committed THEN Committed(c) ELSE UNCHANGED <<used, hused, spent, hspent>>
    /\ OnError(c)
    /\ Returned(c)
    /\ UNCHANGED <<slot, minute, wake>>

\* The caller goes on to its next request.
NextRequest(c) ==
    /\ pc[c] \in Settled
    /\ pc' = [pc EXCEPT ![c] = "idle"]
    /\ UNCHANGED <<slot, minute, used, hused, spent, hspent, tx, wake, waited, degraded>>

\* RunRecorder.finish deletes rows older than the retention (7 days in the
\* code, so no window a transaction can still touch).
Collected_NoInterval(a) == TRUE
Collected(a) == a > TxAge
QuotaGC ==
    /\ used' = [a \in Age |-> IF Collected(a) THEN 0 ELSE used[a]]
    /\ hused' = [a \in Age |-> IF Collected(a) THEN 0 ELSE hused[a]]
    /\ UNCHANGED <<slot, minute, spent, hspent, pc, tx, wake, waited, degraded>>

\* One slot passes.  At a boundary every window gets one older.
Shifted(f, roll) ==
    IF roll THEN [a \in Age |-> IF a = 0 THEN 0 ELSE f[a - 1]] ELSE f
LastSlot == slot = SlotsPerMinute - 1
LastMinute == LastSlot /\ minute = MinutesPerHour - 1
Tick ==
    /\ LastSlot => \A c \in Call : pc[c] = "asking" => tx[c].minute < TxAge
    /\ slot' = (slot + 1) % SlotsPerMinute
    /\ minute' = IF LastSlot THEN (minute + 1) % MinutesPerHour ELSE minute
    /\ used' = Shifted(used, LastSlot)
    /\ spent' = Shifted(spent, LastSlot)
    /\ hused' = Shifted(hused, LastMinute)
    /\ hspent' = Shifted(hspent, LastMinute)
    /\ tx' = [c \in Call |->
                IF pc[c] # "asking" THEN tx[c]
                ELSE [tx[c] EXCEPT !.minute = IF LastSlot THEN @ + 1 ELSE @,
                                   !.hour = IF LastMinute THEN @ + 1 ELSE @]]
    /\ wake' = [c \in Call |-> IF wake[c] = 0 THEN 0 ELSE wake[c] - 1]
    /\ UNCHANGED <<pc, waited, degraded>>

Next ==
    \/ \E c \in Call :
          \/ Begin(c)
          \/ BeginUnmetered(c)
          \/ Grant(c)
          \/ DenyAndSleep(c)
          \/ DenyAndGiveUp(c)
          \/ \E committed \in BOOLEAN : Error(c, committed)
          \/ NextRequest(c)
    \/ QuotaGC
    \/ Tick

Spec == Init /\ [][Next]_vars

\* The clock runs (strongly: the bound TxAge may stop Tick for a moment), a
\* sleeping caller wakes, and the database answers.
Answered(c) == Grant(c) \/ DenyAndSleep(c) \/ DenyAndGiveUp(c)
Fairness ==
    /\ SF_vars(Tick)
    /\ \A c \in Call : WF_vars(Begin(c) \/ BeginUnmetered(c)) /\ WF_vars(Answered(c))
FairSpec == Spec /\ Fairness

-----------------------------------------------------------------------------
\* "at most quota_limit grants can succeed per window across the whole fleet"
\* (quota.py:15-16), counting also those whose answer was lost.  Instances may
\* be configured with different limits during a roll-out: no window is then
\* spent beyond the largest of them.
MinuteBudget ==
    \A a \in Age : spent[a] > 0 =>
       \E c \in Call : spent[a] <= PerMinute(c)

\* The same for the hour, among the callers that have an hour limit.
HourBudget ==
    \A a \in Age : hspent[a] > 0 =>
       \E c \in Call : hspent[a] <= PerHour(c)

\* Both: no window of either kind is overspent.
WindowBudgets == MinuteBudget /\ HourBudget

\* Inductive core: a row a transaction can still touch counts at least what was
\* spent from its window, so the WHERE clause bounds the ghosts too.
RowsCountSpending ==
    \A a \in 0 .. TxAge : spent[a] <= used[a] /\ hspent[a] <= hused[a]

\* A required instance never sends an unmetered request (quota.py:20-22).
Unmetered(c) == pc[c] = "granted" /\ degraded[ProcOf[c]]
RequiredIsMetered == \A c \in Call : Unmetered(c) => ~Required[ProcOf[c]]

\* The minute slot wasted by an hour denial "is harmless" (quota.py:118): with
\* one configuration in force a caller is denied only when the requests that
\* went through really used up its minute or its hour.
OneConfiguration ==
    \A p, q \in Process : MinuteLimit[p] = MinuteLimit[q] /\ HourLimit[p] = HourLimit[q]
WasteIsHarmless ==
    [][\A c \in Call :
          OneConfiguration /\ pc[c] = "asking" /\ pc'[c] \in {"waiting", "exhausted"} =>
             \/ spent[tx[c].minute] >= PerMinute(c)
             \/ HasHour(c) /\ hspent[tx[c].hour] >= PerHour(c)]_vars

\* reserve_or_wait always ends: each sleep uses up some of max_wait_s.
EveryCallSettles ==
    \A c \in Call : pc[c] \in {"asking", "waiting"} ~> pc[c] \in Settled
=============================================================================
