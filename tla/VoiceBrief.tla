----------------------------- MODULE VoiceBrief -----------------------------
(***************************************************************************)
(* The spoken air quality brief of one API instance                        *)
(* (apps/api/app/services/voice_brief.py): a paid synthesis per reading,   *)
(* kept in a small cache, behind a dictionary of asyncio locks that is     *)
(* cleaned up by whoever leaves, and a daily allowance.                    *)
(*                                                                         *)
(* Coroutines change over at an await, and awaiting a free lock is none.   *)
(* A lock that is released is open until the visitor it woke gets to run,  *)
(* so the clean-up after a release always finds it open and drops the      *)
(* entry of the reading -- even when others still wait on the lock, and    *)
(* even when the entry is already the lock of somebody else.               *)
(***************************************************************************)
EXTENDS Integers, FiniteSets, Sequences

CONSTANTS
    Visitor,        \* requests for a brief
    Reading,        \* the rounded readings they are about
    ReadingOf,      \* ReadingOf[v]: the reading v asks for
    SynthLimit,     \* VOICE_DAILY_SYNTH_LIMIT
    LastVoiceDay,   \* days that are followed
    NoLock

ASSUME VoiceAssumption ==
    /\ IsFiniteSet(Visitor)
    /\ ReadingOf \in [Visitor -> Reading]
    /\ SynthLimit \in Nat
    /\ LastVoiceDay \in Nat
    /\ NoLock \notin Visitor

VARIABLES
    today,          \* the UTC date
    spendDay,       \* _spend["day"]
    spendCount,     \* _spend["count"]
    recorded,       \* readings whose recording is in _cache
    lockFor,        \* lockFor[k]: the entry of reading k in _locks
    lock,           \* lock[v]: the lock v works with
    locked,         \* the locks that are taken
    queue,          \* queue[l]: the visitors waiting for l, first come first
    visit,          \* where a visitor stands
    started,        \* ghost: the day its synthesis was counted on
    paid,           \* ghost: syntheses counted on a day and not failed
    crossed,        \* ghost: those that failed on a later day than they began
    failed,         \* ghost: failed[k]: syntheses of k that failed
    displaced       \* ghost: visitors of k that were refused after they had
                    \* waited, and dropped the entry of another lock

spend == <<spendDay, spendCount, started, paid, crossed, failed>>
locks == <<lockFor, lock, locked, queue, displaced>>
voiceVars == <<today, spend, recorded, locks, visit>>

\* A lock is named by the visitor who created it.
VoiceDay == 0 .. LastVoiceDay
Visit == {"new", "waiting", "synthesising", "served", "refused"}

VoiceTypeOK ==
    /\ today \in VoiceDay
    /\ spendDay \in VoiceDay
    /\ spendCount \in 0 .. SynthLimit
    /\ recorded \subseteq Reading
    /\ lockFor \in [Reading -> Visitor \union {NoLock}]
    /\ lock \in [Visitor -> Visitor]
    /\ locked \subseteq Visitor
    /\ queue \in [Visitor -> Seq(Visitor)]
    /\ visit \in [Visitor -> Visit]
    /\ started \in [Visitor -> VoiceDay]
    /\ paid \in [VoiceDay -> Nat]
    /\ crossed \in [VoiceDay -> Nat]
    /\ failed \in [Reading -> Nat]
    /\ displaced \in [Reading -> Nat]

VoiceInit ==
    /\ today = 0
    /\ spendDay = 0
    /\ spendCount = 0
    /\ recorded = {}
    /\ lockFor = [k \in Reading |-> NoLock]
    /\ lock = [v \in Visitor |-> v]
    /\ locked = {}
    /\ queue = [l \in Visitor |-> <<>>]
    /\ visit = [v \in Visitor |-> "new"]
    /\ started = [v \in Visitor |-> 0]
    /\ paid = [d \in VoiceDay |-> 0]
    /\ crossed = [d \in VoiceDay |-> 0]
    /\ failed = [k \in Reading |-> 0]
    /\ displaced = [k \in Reading |-> 0]

Becomes(v, state) == visit' = [visit EXCEPT ![v] = state]

-----------------------------------------------------------------------------
\* The allowance.  Operators Name_Slip are seeded mistakes; no action uses
\* them.

CountToday == IF spendDay = today THEN spendCount ELSE 0

\* _within_daily_cap forgets the day before and counts one paid synthesis.
WithinDailyCap_OffByOne == CountToday <= SynthLimit
WithinDailyCap == CountToday < SynthLimit

Pay(v) ==
    /\ spendDay' = today
    /\ spendCount' = CountToday + 1
    /\ started' = [started EXCEPT ![v] = today]
    /\ paid' = [paid EXCEPT ![today] = @ + 1]
    /\ UNCHANGED <<crossed, failed>>

CapReached ==
    /\ spendDay' = today
    /\ spendCount' = CountToday
    /\ UNCHANGED <<started, paid, crossed, failed>>

\* _refund takes one off the count of whatever day _spend is about now.
Refund(v) ==
    /\ spendCount' = IF spendCount > 0 THEN spendCount - 1 ELSE 0
    /\ UNCHANGED <<spendDay, started>>
    /\ paid' = [paid EXCEPT ![started[v]] = @ - 1]
    /\ crossed' = IF spendDay # started[v]
                  THEN [crossed EXCEPT ![spendDay] = @ + 1] ELSE crossed
    /\ failed' = [failed EXCEPT ![ReadingOf[v]] = @ + 1]

-----------------------------------------------------------------------------
\* The lock of a reading.

\* The lock v is to use: the entry of its reading, or one it creates.
EntryOf_PerVisitor(v) == v
EntryOf(v) == IF lockFor[ReadingOf[v]] = NoLock THEN v ELSE lockFor[ReadingOf[v]]

\* Inside the lock: nothing is left to do when the reading was recorded in the
\* meantime, or the allowance is used up; otherwise a synthesis is paid for.
Outcome(v) ==
    CASE ReadingOf[v] \in recorded -> "served"
      [] ReadingOf[v] \notin recorded /\ WithinDailyCap -> "synthesising"
      [] OTHER -> "refused"

Account(v) ==
    CASE Outcome(v) = "served" -> UNCHANGED spend
      [] Outcome(v) = "synthesising" -> Pay(v)
      [] OTHER -> CapReached

\* `if not lock.locked(): _locks.pop(b, None)`, right after the release.
Dropped(v, entries) == [entries EXCEPT ![ReadingOf[v]] = NoLock]

\* A visitor comes in; it need not wait for a lock that is free and that nobody
\* waits for.
Served(v) ==
    /\ visit[v] = "new"
    /\ ReadingOf[v] \in recorded
    /\ Becomes(v, "served")
    /\ UNCHANGED <<today, spend, recorded, locks>>

Enter(v) ==
    LET l == EntryOf(v) IN
    /\ visit[v] = "new"
    /\ ReadingOf[v] \notin recorded
    /\ l \notin locked /\ queue[l] = <<>>
    /\ lock' = [lock EXCEPT ![v] = l]
    /\ Account(v)
    /\ Becomes(v, Outcome(v))
    /\ IF Outcome(v) = "synthesising"
       THEN /\ locked' = locked \union {l}
            /\ lockFor' = [lockFor EXCEPT ![ReadingOf[v]] = l]
       ELSE /\ UNCHANGED locked
            /\ lockFor' = Dropped(v, lockFor)
    /\ UNCHANGED <<today, recorded, queue, displaced>>

Wait(v) ==
    LET l == EntryOf(v) IN
    /\ visit[v] = "new"
    /\ ReadingOf[v] \notin recorded
    /\ l \in locked \/ queue[l] # <<>>
    /\ lock' = [lock EXCEPT ![v] = l]
    /\ queue' = [queue EXCEPT ![l] = Append(@, v)]
    /\ Becomes(v, "waiting")
    /\ UNCHANGED <<today, spend, recorded, lockFor, locked, displaced>>

\* The release woke the first in the queue; it runs when the lock is open.
Woken(v) == visit[v] = "waiting" /\ lock[v] \notin locked /\ Head(queue[lock[v]]) = v

Resume(v) ==
    LET l == lock[v] IN
    /\ Woken(v)
    /\ queue' = [queue EXCEPT ![l] = Tail(@)]
    /\ Account(v)
    /\ Becomes(v, Outcome(v))
    /\ IF Outcome(v) = "synthesising"
       THEN locked' = locked \union {l} /\ UNCHANGED lockFor
       ELSE UNCHANGED locked /\ lockFor' = Dropped(v, lockFor)
    /\ displaced' = IF Outcome(v) = "refused" /\ lockFor[ReadingOf[v]] # NoLock
                    THEN [displaced EXCEPT ![ReadingOf[v]] = @ + 1] ELSE displaced
    /\ UNCHANGED <<today, recorded, lock>>

Release(v) ==
    /\ locked' = locked \ {lock[v]}
    /\ lockFor' = Dropped(v, lockFor)
    /\ UNCHANGED <<lock, queue, displaced>>

Finish(v) ==
    /\ visit[v] = "synthesising"
    /\ recorded' = recorded \union {ReadingOf[v]}
    /\ Becomes(v, "served")
    /\ Release(v)
    /\ UNCHANGED <<today, spend>>

\* VoiceUnavailable: no key, the model failed, or its 30 s are over.
Failure(v) ==
    /\ visit[v] = "synthesising"
    /\ Refund(v)
    /\ Becomes(v, "refused")
    /\ Release(v)
    /\ UNCHANGED <<today, recorded>>

-----------------------------------------------------------------------------
\* A recording is too old, or the least recently used of too many.  A visitor
\* that was woken runs in the next turn of the event loop, before that happens.
Forget(k) ==
    /\ k \in recorded
    /\ ~ \E v \in Visitor : ReadingOf[v] = k /\ Woken(v)
    /\ recorded' = recorded \ {k}
    /\ UNCHANGED <<today, spend, locks, visit>>

VoiceMidnight ==
    /\ today < LastVoiceDay
    /\ today' = today + 1
    /\ UNCHANGED <<spend, recorded, locks, visit>>

Attend(v) ==
    \/ Served(v) \/ Enter(v) \/ Wait(v) \/ Resume(v)
    \/ Finish(v) \/ Failure(v)

VoiceNext ==
    \/ \E v \in Visitor : Attend(v)
    \/ \E k \in Reading : Forget(k)
    \/ VoiceMidnight

VoiceSpec == VoiceInit /\ [][VoiceNext]_voiceVars

-----------------------------------------------------------------------------
(* What the voice brief relies on.                                         *)

\* "Visitors asking for the same reading at once wait for one synthesis."  They
\* do until a synthesis fails: the one that fails drops the entry of a lock
\* others still wait for, so a newcomer and the next in the queue both synthesise.
\* If the next in the queue is refused, for the allowance is used up, it drops the
\* entry of the newcomer's lock; on the next day the rest of the queue and another
\* newcomer join in.  Each failure and each such refusal lets in at most one more.
\* (brief_audio)
Synthesising(k) == {v \in Visitor : visit[v] = "synthesising" /\ ReadingOf[v] = k}
OneSynthesisPerReading ==
    \A k \in Reading : Cardinality(Synthesising(k)) <= 1 + failed[k] + displaced[k]

\* "Paid syntheses per instance per UTC day": those of a day that did not fail
\* exceed VOICE_DAILY_SYNTH_LIMIT by no more than the failures refunded to that
\* day by syntheses that began on an earlier one.  (_within_daily_cap, _refund)
PaidWithinLimit ==
    \A d \in VoiceDay : paid[d] <= SynthLimit + crossed[d]
=============================================================================
