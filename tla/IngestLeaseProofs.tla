-------------------------- MODULE IngestLeaseProofs --------------------------
(***************************************************************************)
(* Proofs about IngestLease, for every set of runs, keys and processes,    *)
(* every TTL and both values of `required`.  The argument is one           *)
(* invariant, EntitledOwnsRow: a run whose lease has not expired is the    *)
(* run its row names, under the row's fence.  A row names one run, so two  *)
(* entitled runs of a key are the same; and a row that names a live run    *)
(* can neither be stolen nor be matched by anybody else.                   *)
(***************************************************************************)
EXTENDS IngestLease, TLAPS

IInv == TypeOK /\ EntitledOwnsRow

\* The row an acquire writes is a row of the table.
LEMMA AcquiredRowType ==
    ASSUME TypeOK, NEW h \in Holder, NEW k \in Key, BelowBound(k)
    PROVE  /\ AcquiredRow(h, k) \in Row
           /\ AcquiredRow(h, k) # NoRow
           /\ AcquiredRow(h, k).holder = h
           /\ AcquiredRow(h, k).fence \in 1 .. MaxFence
           /\ AcquiredRow(h, k).left = TTL
<1>1. row[k] # NoRow => row[k].fence \in 1 .. MaxFence
  BY DEF TypeOK, Row
<1>2. (IF row[k] = NoRow THEN 1 ELSE row[k].fence + 1) \in 1 .. MaxFence
  BY <1>1, ConstantsAssumption DEF BelowBound
<1>3. AcquiredRow(h, k) \in Row
  BY <1>2, ConstantsAssumption DEF AcquiredRow, Row, Remaining
<1>4. AcquiredRow(h, k) # NoRow
  BY <1>3, ConstantsAssumption
<1> QED
  BY <1>2, <1>3, <1>4 DEF AcquiredRow

\* Setting the remaining time of a row keeps the rest of it.
LEMMA LeftUpdate ==
    ASSUME TypeOK, NEW k \in Key, row[k] # NoRow, NEW n \in Remaining
    PROVE  /\ [row[k] EXCEPT !.left = n] \in Row
           /\ [row[k] EXCEPT !.left = n] # NoRow
           /\ [row[k] EXCEPT !.left = n].holder = row[k].holder
           /\ [row[k] EXCEPT !.left = n].fence = row[k].fence
           /\ [row[k] EXCEPT !.left = n].left = n
<1>1. row[k] \in Row
  BY DEF TypeOK
<1>2. [row[k] EXCEPT !.left = n] \in Row
  BY <1>1 DEF Row
<1> QED
  BY <1>1, <1>2, ConstantsAssumption DEF Row

\* A tick keeps remaining times in range and in order.
LEMMA OlderType ==
    ASSUME NEW n \in Remaining, NEW l \in Remaining
    PROVE  /\ Older(n) \in Remaining
           /\ Older(n) >= 0 => n >= 0
           /\ Older(n) >= 0 /\ n <= l => Older(n) <= Older(l)
BY ConstantsAssumption DEF Older, Remaining

LEMMA InitOK == Init => IInv
BY ConstantsAssumption
DEF Init, IInv, TypeOK, EntitledOwnsRow, Entitled, RunState, Remaining

-----------------------------------------------------------------------------
LEMMA TypeStep == TypeOK /\ [Next]_vars => TypeOK'
<1> SUFFICES ASSUME TypeOK, [Next]_vars PROVE TypeOK'
  OBVIOUS
<1> USE ConstantsAssumption
<1>1. ASSUME NEW h \in Holder, Acquire(h) PROVE TypeOK'
  <2>1. KeyOf[h] \in Key /\ TTL \in Remaining
    BY DEF Remaining
  <2>2. AcquiredRow(h, KeyOf[h]) \in Row
        /\ AcquiredRow(h, KeyOf[h]).fence \in 0 .. MaxFence
    BY <1>1, <2>1, AcquiredRowType DEF Acquire
  <2> QED
    BY <1>1, <2>1, <2>2 DEF TypeOK, Acquire, RunState
<1>2. ASSUME NEW h \in Holder, AcquireDenied(h) PROVE TypeOK'
  BY <1>2 DEF TypeOK, AcquireDenied, RunState
<1>3. ASSUME NEW h \in Holder, NEW applied \in BOOLEAN, AcquireError(h, applied)
      PROVE TypeOK'
  <2>1. applied => AcquiredRow(h, KeyOf[h]) \in Row
    BY <1>3, AcquiredRowType DEF AcquireError
  <2>2. row' \in [Key -> Row \cup {NoRow}]
    BY <1>3, <2>1 DEF TypeOK, AcquireError
  <2>3. pc' \in [Holder -> RunState] /\ degraded' \in [Process -> BOOLEAN]
    BY <1>3 DEF TypeOK, AcquireError, RunState
  <2> QED
    BY <1>3, <2>2, <2>3 DEF TypeOK, AcquireError
<1>4. ASSUME NEW h \in Holder, AcquireSynthetic(h) PROVE TypeOK'
  BY <1>4 DEF TypeOK, AcquireSynthetic, RunState
<1>5. ASSUME NEW h \in Holder, Renew(h) \/ RenewError(h) PROVE TypeOK'
  <2>1. KeyOf[h] \in Key /\ TTL \in Remaining
    BY DEF Remaining
  <2>2. Matches(h) => [row[KeyOf[h]] EXCEPT !.left = TTL] \in Row
    BY <2>1, LeftUpdate DEF Matches
  <2>2a. Matches(h) => Refreshed(KeyOf[h]) \in Row
    BY <2>2 DEF Refreshed
  <2>3. row' \in [Key -> Row \cup {NoRow}]
    BY <1>5, <2>1, <2>2a DEF TypeOK, Renew, RenewError
  <2>4. view' \in [Holder -> Remaining]
    BY <1>5, <2>1 DEF TypeOK, Renew, RenewError
  <2> QED
    BY <1>5, <2>3, <2>4 DEF TypeOK, Renew, RenewError
<1>6. ASSUME NEW h \in Holder, Release(h) \/ Abandon(h) PROVE TypeOK'
  BY <1>6 DEF TypeOK, Release, Abandon, RunState, Remaining
<1>7. ASSUME NEW h \in Holder, NewRun(h) PROVE TypeOK'
  BY <1>7 DEF TypeOK, NewRun, RunState
<1>8. CASE Tick
  <2>1. \A k \in Key : row[k] # NoRow =>
           [row[k] EXCEPT !.left = Older(row[k].left)] \in Row
    <3> SUFFICES ASSUME NEW k \in Key, row[k] # NoRow
                 PROVE  [row[k] EXCEPT !.left = Older(row[k].left)] \in Row
      OBVIOUS
    <3>1. Older(row[k].left) \in Remaining
      BY OlderType DEF TypeOK, Row
    <3> QED
      BY <3>1, LeftUpdate
  <2>2. \A h \in Holder : Older(view[h]) \in Remaining
    BY OlderType DEF TypeOK
  <2> QED
    BY <1>8, <2>1, <2>2 DEF TypeOK, Tick
<1>9. CASE UNCHANGED vars
  BY <1>9 DEF TypeOK, vars
<1> QED
  BY <1>1, <1>2, <1>3, <1>4, <1>5, <1>6, <1>7, <1>8, <1>9 DEF Next

\* Every reachable state is well typed (state of leases.py and its table).
THEOREM TypeCorrect == Spec => []TypeOK
<1>1. Init => TypeOK
  BY InitOK DEF IInv
<1> QED
  BY <1>1, TypeStep, PTL DEF Spec

-----------------------------------------------------------------------------
\* The row of an entitled run can be neither acquired nor matched by another.
LEMMA EntitledRowIsSafe ==
    ASSUME IInv, NEW g \in Holder, Entitled(g)
    PROVE  /\ row[KeyOf[g]] # NoRow
           /\ row[KeyOf[g]].holder = g
           /\ row[KeyOf[g]].fence = fence[g]
           /\ view[g] <= row[KeyOf[g]].left
           /\ view[g] \in 0 .. TTL
           /\ ~CanAcquire(KeyOf[g])
           /\ \A h \in Holder : h # g /\ KeyOf[h] = KeyOf[g] => ~Matches(h)
<1>1. KeyOf[g] \in Key
  BY ConstantsAssumption
<1>2. Matches(g) /\ view[g] <= row[KeyOf[g]].left
  BY DEF IInv, EntitledOwnsRow
<1>3. row[KeyOf[g]] # NoRow /\ row[KeyOf[g]].left \in Remaining
  BY <1>1, <1>2 DEF Matches, IInv, TypeOK, Row
<1>4. view[g] \in 0 .. TTL
  BY ConstantsAssumption DEF IInv, TypeOK, Entitled, Remaining
<1>5. ~CanAcquire(KeyOf[g])
  BY <1>2, <1>3, <1>4, ConstantsAssumption DEF CanAcquire, Stealable, Remaining
<1> QED
  BY <1>2, <1>3, <1>4, <1>5 DEF Matches

\* What EntitledOwnsRow asks of one run.
Backed(g) == Entitled(g) => Matches(g) /\ view[g] <= row[KeyOf[g]].left

\* A run whose state, fence and view do not change stays backed when its row
\* does not change or it is another run that acts.
LEMMA BackedStep ==
    ASSUME IInv, [Next]_vars, NEW g \in Holder
    PROVE  Backed(g)'
<1> USE ConstantsAssumption
<1> SUFFICES ASSUME Entitled(g)'
             PROVE  Matches(g)' /\ view'[g] <= row'[KeyOf[g]].left
  BY DEF Backed
<1>t. TypeOK /\ KeyOf[g] \in Key /\ TTL \in Remaining
  BY DEF IInv, Remaining
<1>i. IInv
  OBVIOUS
<1>1. ASSUME NEW h \in Holder, Acquire(h)
      PROVE  Matches(g)' /\ view'[g] <= row'[KeyOf[g]].left
  <2>1. KeyOf[h] \in Key
    OBVIOUS
  <2>2. CASE g = h
    <3>1. /\ row'[KeyOf[g]] = AcquiredRow(h, KeyOf[h])
          /\ fence'[g] = AcquiredRow(h, KeyOf[h]).fence
          /\ view'[g] = TTL
      BY <1>1, <1>t, <2>1, <2>2 DEF Acquire, TypeOK
    <3>2. /\ AcquiredRow(h, KeyOf[h]) # NoRow
          /\ AcquiredRow(h, KeyOf[h]).holder = h
          /\ AcquiredRow(h, KeyOf[h]).left = TTL
      BY <1>1, <1>t, <2>1, AcquiredRowType DEF Acquire
    <3> QED
      BY <3>1, <3>2, <2>2 DEF Matches
  <2>3. CASE g # h
    <3>1. Entitled(g) /\ fence'[g] = fence[g] /\ view'[g] = view[g]
      BY <1>1, <1>t, <2>3 DEF Acquire, Entitled, TypeOK
    <3>2. KeyOf[g] # KeyOf[h]
      BY <1>1, <1>i, <3>1, EntitledRowIsSafe DEF Acquire
    <3>3. row'[KeyOf[g]] = row[KeyOf[g]]
      BY <1>1, <1>t, <3>2 DEF Acquire, TypeOK
    <3> QED
      BY <1>i, <3>1, <3>3, EntitledRowIsSafe DEF Matches
  <2> QED
    BY <2>2, <2>3
<1>2. ASSUME NEW h \in Holder, NEW applied \in BOOLEAN, AcquireError(h, applied)
      PROVE  Matches(g)' /\ view'[g] <= row'[KeyOf[g]].left
  <2>1. Entitled(g) /\ fence'[g] = fence[g] /\ view'[g] = view[g]
    BY <1>2, <1>t DEF AcquireError, Entitled, TypeOK
  <2>2. row'[KeyOf[g]] = row[KeyOf[g]]
    <3>1. applied => KeyOf[g] # KeyOf[h]
      BY <1>2, <1>i, <2>1, EntitledRowIsSafe DEF AcquireError
    <3> QED
      BY <1>2, <1>t, <3>1 DEF AcquireError, TypeOK
  <2> QED
    BY <1>i, <2>1, <2>2, EntitledRowIsSafe DEF Matches
<1>3. ASSUME NEW h \in Holder, Renew(h) \/ RenewError(h)
      PROVE  Matches(g)' /\ view'[g] <= row'[KeyOf[g]].left
  <2>2. CASE UNCHANGED <<row, view>>
    <3>1. Entitled(g) /\ fence' = fence
      BY <1>3, <2>2 DEF Renew, RenewError, Entitled
    <3> QED
      BY <1>i, <2>2, <3>1, EntitledRowIsSafe DEF Matches
  <2>3. CASE ~UNCHANGED <<row, view>>
    <3>1. /\ Matches(h) /\ fence' = fence /\ pc' = pc
          /\ row' = [row EXCEPT ![KeyOf[h]] = Refreshed(KeyOf[h])]
          /\ view' = view \/ view' = [view EXCEPT ![h] = TTL]
      BY <1>3, <2>3 DEF Renew, RenewError
    <3>2. /\ Refreshed(KeyOf[h]) # NoRow
          /\ Refreshed(KeyOf[h]).holder = row[KeyOf[h]].holder
          /\ Refreshed(KeyOf[h]).fence = row[KeyOf[h]].fence
          /\ Refreshed(KeyOf[h]).left = TTL
      BY <1>t, <3>1, LeftUpdate DEF Refreshed, Matches
    <3>3. CASE g = h
      <4>1. row'[KeyOf[g]] = Refreshed(KeyOf[h])
        BY <1>t, <3>1, <3>3 DEF TypeOK
      <4>2. view'[g] \in Remaining
        BY <1>t, <3>1, <3>3 DEF TypeOK
      <4> QED
        BY <3>1, <3>2, <3>3, <4>1, <4>2 DEF Matches, Remaining
    <3>4. CASE g # h
      <4>1. Entitled(g) /\ view'[g] = view[g]
        BY <1>t, <3>1, <3>4 DEF Entitled, TypeOK
      <4>2. KeyOf[g] # KeyOf[h]
        BY <1>i, <3>1, <3>4, <4>1, EntitledRowIsSafe
      <4>3. row'[KeyOf[g]] = row[KeyOf[g]]
        BY <1>t, <3>1, <4>2 DEF TypeOK
      <4> QED
        BY <1>i, <3>1, <4>1, <4>3, EntitledRowIsSafe DEF Matches
    <3> QED
      BY <3>3, <3>4
  <2> QED
    BY <2>2, <2>3
<1>4. ASSUME NEW h \in Holder, Release(h) \/ Abandon(h)
      PROVE  Matches(g)' /\ view'[g] <= row'[KeyOf[g]].left
  <2>1. g # h
    BY <1>4, <1>t DEF Release, Abandon, Entitled, TypeOK
  <2>2. Entitled(g) /\ view'[g] = view[g] /\ fence' = fence
    BY <1>4, <1>t, <2>1 DEF Release, Abandon, Entitled, TypeOK
  <2>3. row'[KeyOf[g]] = row[KeyOf[g]]
    <3>1. CASE row' = row
      BY <3>1
    <3>2. CASE row' # row
      <4>1. Matches(h) /\ row' = [row EXCEPT ![KeyOf[h]] = NoRow]
        BY <1>4, <3>2 DEF Release, Abandon
      <4>2. KeyOf[g] # KeyOf[h]
        BY <1>i, <2>1, <2>2, <4>1, EntitledRowIsSafe
      <4> QED
        BY <1>t, <4>1, <4>2 DEF TypeOK
    <3> QED
      BY <3>1, <3>2
  <2> QED
    BY <1>i, <2>2, <2>3, EntitledRowIsSafe DEF Matches
<1>5. ASSUME NEW h \in Holder,
             AcquireDenied(h) \/ AcquireSynthetic(h) \/ NewRun(h)
      PROVE  Matches(g)' /\ view'[g] <= row'[KeyOf[g]].left
  <2>1. Entitled(g) /\ g # h /\ UNCHANGED <<row, view>>
    BY <1>5, <1>t
    DEF AcquireDenied, AcquireSynthetic, NewRun, Entitled, TypeOK
  <2>2. fence'[g] = fence[g]
    BY <1>5, <1>t, <2>1 DEF AcquireDenied, AcquireSynthetic, NewRun, TypeOK
  <2> QED
    BY <1>i, <2>1, <2>2, EntitledRowIsSafe DEF Matches
<1>6. CASE Tick
  <2>1. view[g] \in Remaining /\ view'[g] = Older(view[g])
    BY <1>6, <1>t DEF Tick, TypeOK
  <2>2. Entitled(g) /\ fence' = fence
    BY <1>6, <2>1, OlderType DEF Tick, Entitled
  <2>3. row[KeyOf[g]] # NoRow /\ row[KeyOf[g]].left \in Remaining
    BY <1>i, <1>t, <2>2, EntitledRowIsSafe DEF TypeOK, Row
  <2> DEFINE n == Older(row[KeyOf[g]].left)
  <2>4. n \in Remaining /\ view'[g] <= n
    BY <1>i, <2>1, <2>2, <2>3, OlderType, EntitledRowIsSafe DEF Entitled
  <2>5. row'[KeyOf[g]] = [row[KeyOf[g]] EXCEPT !.left = n]
    BY <1>6, <1>t, <2>3 DEF Tick
  <2> HIDE DEF n
  <2>6. /\ row'[KeyOf[g]] # NoRow
        /\ row'[KeyOf[g]].holder = row[KeyOf[g]].holder
        /\ row'[KeyOf[g]].fence = row[KeyOf[g]].fence
        /\ row'[KeyOf[g]].left = n
    BY <1>t, <2>3, <2>4, <2>5, LeftUpdate
  <2> QED
    BY <1>i, <2>2, <2>4, <2>6, EntitledRowIsSafe DEF Matches
<1>7. CASE UNCHANGED vars
  <2>1. Entitled(g) /\ UNCHANGED <<row, view, fence>>
    BY <1>7 DEF vars, Entitled
  <2> QED
    BY <1>i, <2>1, EntitledRowIsSafe DEF Matches
<1> QED
  BY <1>1, <1>2, <1>3, <1>4, <1>5, <1>6, <1>7 DEF Next

LEMMA IInvStep == IInv /\ [Next]_vars => IInv'
<1> SUFFICES ASSUME IInv, [Next]_vars PROVE IInv'
  OBVIOUS
<1>1. TypeOK'
  BY TypeStep DEF IInv
<1>2. \A g \in Holder : Backed(g)'
  BY BackedStep
<1> QED
  BY <1>1, <1>2 DEF IInv, EntitledOwnsRow, Backed

LEMMA IInvHolds == Spec => []IInv
BY InitOK, IInvStep, PTL DEF Spec

\* An unexpired lease is the row of its key (leases.py:66, 70: the WHERE
\* clauses keep it that way).
THEOREM EntitlementIsBacked == Spec => []EntitledOwnsRow
<1>1. IInv => EntitledOwnsRow
  BY DEF IInv
<1> QED
  BY <1>1, IInvHolds, PTL

\* Two copies of a job never both hold an unexpired lease (leases.py:4-13).
THEOREM MutualExclusion == Spec => []OneEntitledRun
<1>1. IInv => OneEntitledRun
  <2> SUFFICES ASSUME IInv, NEW h \in Holder, NEW g \in Holder,
                      Entitled(h), Entitled(g), KeyOf[h] = KeyOf[g]
               PROVE  h = g
    BY DEF OneEntitledRun
  <2> QED
    BY EntitledRowIsSafe
<1> QED
  BY <1>1, IInvHolds, PTL

-----------------------------------------------------------------------------
\* What one step does to an unexpired row.
LiveRowKept(k) ==
    row[k] # NoRow /\ row[k].left >= 0 =>
       \/ row'[k] # NoRow /\ row'[k].holder = row[k].holder
       \/ pc'[row[k].holder] # pc[row[k].holder]

LEMMA LiveRowStep ==
    ASSUME TypeOK, [Next]_vars, NEW k \in Key
    PROVE  LiveRowKept(k)
<1> USE ConstantsAssumption
<1> SUFFICES ASSUME row[k] # NoRow, row[k].left >= 0, row'[k] # row[k]
             PROVE  \/ row'[k] # NoRow /\ row'[k].holder = row[k].holder
                    \/ pc'[row[k].holder] # pc[row[k].holder]
  BY DEF LiveRowKept
<1>t. row[k] \in Row /\ row[k].left \in Remaining /\ ~CanAcquire(k)
  BY DEF TypeOK, Row, CanAcquire, Stealable, Remaining
<1>1. ASSUME NEW h \in Holder,
             Acquire(h) \/ \E applied \in BOOLEAN : AcquireError(h, applied)
      PROVE  FALSE
  <2>1. \/ row' = row
        \/ /\ CanAcquire(KeyOf[h])
           /\ row' = [row EXCEPT ![KeyOf[h]] = AcquiredRow(h, KeyOf[h])]
    BY <1>1 DEF Acquire, AcquireError
  <2> QED
    BY <1>t, <2>1 DEF TypeOK
<1>2. ASSUME NEW h \in Holder, Renew(h) \/ RenewError(h)
      PROVE  row'[k] # NoRow /\ row'[k].holder = row[k].holder
  <2>1. k = KeyOf[h] /\ row'[k] = Refreshed(k)
    BY <1>2 DEF Renew, RenewError, TypeOK
  <2>2. TTL \in Remaining
    BY DEF Remaining
  <2> QED
    BY <2>1, <2>2, LeftUpdate DEF Refreshed
<1>3. ASSUME NEW h \in Holder, Release(h)
      PROVE  pc'[row[k].holder] # pc[row[k].holder]
  <2>1. k = KeyOf[h] /\ Matches(h)
    BY <1>3 DEF Release, TypeOK
  <2> QED
    BY <1>3, <2>1 DEF Release, Matches, TypeOK
<1>4. CASE Tick
  <2>1. row'[k] = [row[k] EXCEPT !.left = Older(row[k].left)]
    BY <1>4 DEF Tick
  <2>2. Older(row[k].left) \in Remaining
    BY <1>t, OlderType
  <2> QED
    BY <2>1, <2>2, LeftUpdate
<1>5. ASSUME NEW h \in Holder,
             \/ AcquireDenied(h) \/ AcquireSynthetic(h) \/ Abandon(h)
             \/ NewRun(h) \/ UNCHANGED vars
      PROVE  FALSE
  BY <1>5 DEF AcquireDenied, AcquireSynthetic, Abandon, NewRun, vars
<1>6. CASE UNCHANGED vars
  BY <1>6 DEF vars
<1> QED
  BY <1>1, <1>2, <1>3, <1>4, <1>5, <1>6 DEF Next

\* An unexpired row ends only by an act of the run it names.
THEOREM LiveLeaseEndsByItsHolder == Spec => OnlyItsHolderEndsALiveLease
<1>1. TypeOK /\ [Next]_vars =>
         [\A k \in Key :
            row[k] # NoRow /\ row[k].left >= 0 =>
               \/ row'[k] # NoRow /\ row'[k].holder = row[k].holder
               \/ pc'[row[k].holder] # pc[row[k].holder]]_vars
  BY LiveRowStep DEF LiveRowKept
<1> QED
  BY <1>1, TypeCorrect, PTL DEF Spec, OnlyItsHolderEndsALiveLease

-----------------------------------------------------------------------------
\* A step that entitles nobody anew is a Lapse of the abstract exclusion.
LEMMA LapseStep ==
    ASSUME \A g \in Holder : Entitled(g)' => Entitled(g)
    PROVE  Exclusion!Lapse
BY DEF Exclusion!Lapse, EntitledRuns

\* A step that entitles only h, while no run of its key is, is a Grant.
LEMMA GrantStep ==
    ASSUME NEW h \in Holder, Entitled(h)',
           \A g \in Holder : g # h => (Entitled(g)' <=> Entitled(g)),
           \A g \in Holder : KeyOf[g] = KeyOf[h] => ~Entitled(g)
    PROVE  Exclusion!Grant(KeyOf[h], h)
<1>1. KeyOf[h] \in Key
  BY ConstantsAssumption
<1>2. EntitledRuns[KeyOf[h]] = {}
  BY <1>1 DEF EntitledRuns
<1>3. \A k \in Key :
         {g \in Holder : KeyOf[g] = k /\ Entitled(g)'} =
         IF k = KeyOf[h] THEN {h}
         ELSE {g \in Holder : KeyOf[g] = k /\ Entitled(g)}
  OBVIOUS
<1>4. EntitledRuns' = [EntitledRuns EXCEPT ![KeyOf[h]] = {h}]
  BY <1>3 DEF EntitledRuns
<1> QED
  BY <1>2, <1>4 DEF Exclusion!Grant

LEMMA ExclusionStep ==
    ASSUME IInv, [Next]_vars
    PROVE  Exclusion!Next \/ UNCHANGED EntitledRuns
<1> USE ConstantsAssumption
<1>i. IInv /\ TypeOK
  BY DEF IInv
<1>1. ASSUME NEW h \in Holder, Acquire(h) PROVE Exclusion!Next
  <2>1. KeyOf[h] \in Key /\ Entitled(h)'
    BY <1>1, <1>i DEF Acquire, Entitled, TypeOK
  <2>2. \A g \in Holder : g # h => (Entitled(g)' <=> Entitled(g))
    BY <1>1, <1>i DEF Acquire, Entitled, TypeOK
  <2>3. \A g \in Holder : KeyOf[g] = KeyOf[h] => ~Entitled(g)
    BY <1>1, <1>i, EntitledRowIsSafe DEF Acquire
  <2> QED
    BY <2>1, <2>2, <2>3, GrantStep DEF Exclusion!Next
<1>2. ASSUME NEW h \in Holder, Renew(h) \/ RenewError(h)
      PROVE  Exclusion!Next \/ UNCHANGED EntitledRuns
  <2>1. KeyOf[h] \in Key /\ pc' = pc
    BY <1>2 DEF Renew, RenewError
  <2>2. CASE view' = view
    BY <2>1, <2>2 DEF EntitledRuns, Entitled
  <2>3. CASE view' # view
    <3>1. Matches(h) /\ pc[h] = "held" /\ view' = [view EXCEPT ![h] = TTL]
      BY <1>2, <2>3 DEF Renew, RenewError
    <3>2. Entitled(h)'
      BY <2>1, <3>1, <1>i DEF Entitled, TypeOK
    <3>3. \A g \in Holder : g # h => (Entitled(g)' <=> Entitled(g))
      BY <2>1, <3>1, <1>i DEF Entitled, TypeOK
    <3>4. \A g \in Holder : g # h /\ KeyOf[g] = KeyOf[h] => ~Entitled(g)
      BY <3>1, <1>i, EntitledRowIsSafe
    <3>5. CASE Entitled(h)
      <4>1. \A g \in Holder : Entitled(g)' <=> Entitled(g)
        BY <3>2, <3>3, <3>5
      <4> QED
        BY <4>1 DEF EntitledRuns
    <3>6. CASE ~Entitled(h)
      BY <2>1, <3>2, <3>3, <3>4, <3>6, GrantStep DEF Exclusion!Next
    <3> QED
      BY <3>5, <3>6
  <2> QED
    BY <2>2, <2>3
<1>3. ASSUME NEW h \in Holder,
             \/ AcquireDenied(h) \/ AcquireSynthetic(h) \/ NewRun(h)
             \/ Release(h) \/ Abandon(h)
             \/ \E applied \in BOOLEAN : AcquireError(h, applied)
      PROVE  Exclusion!Next
  <2>1. \A g \in Holder : Entitled(g)' => Entitled(g)
    BY <1>3, <1>i
    DEF AcquireDenied, AcquireSynthetic, NewRun, Release, Abandon,
        AcquireError, Entitled, TypeOK
  <2> QED
    BY <2>1, LapseStep DEF Exclusion!Next
<1>4. CASE Tick
  <2>1. \A g \in Holder : Entitled(g)' => Entitled(g)
    BY <1>4, <1>i, OlderType DEF Tick, Entitled, TypeOK
  <2> QED
    BY <2>1, LapseStep DEF Exclusion!Next
<1>5. CASE UNCHANGED vars
  BY <1>5 DEF vars, EntitledRuns, Entitled
<1> QED
  BY <1>1, <1>2, <1>3, <1>4, <1>5 DEF Next

\* The table and its three statements implement the abstract exclusion.
THEOREM ExclusionImplemented == Spec => ImplementsExclusion
<1>1. Init => Exclusion!Init
  BY DEF Init, Exclusion!Init, EntitledRuns, Entitled
<1>2. IInv /\ [Next]_vars => [Exclusion!Next]_EntitledRuns
  BY ExclusionStep
<1> QED
  BY <1>1, <1>2, IInvHolds, PTL DEF Spec, ImplementsExclusion, Exclusion!Spec
=============================================================================
