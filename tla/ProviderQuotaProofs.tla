------------------------- MODULE ProviderQuotaProofs -------------------------
(***************************************************************************)
(* Proofs about ProviderQuota, for every fleet, every configuration of     *)
(* limits and every clock granularity.  A reservation passes only while    *)
(* the row of its window is below the caller's limit, and the row counts   *)
(* at least what was spent from the window (RowsCountSpending): so one     *)
(* more does not exceed that limit.  The rows a transaction can still      *)
(* touch are never collected, which is what keeps the row that large.      *)
(* The other way round (WasteInv), a row that is full was filled by        *)
(* requests that passed, or its hour was.                                  *)
(***************************************************************************)
EXTENDS ProviderQuota, TLAPS

DegradedIsPublic == \A p \in Process : degraded[p] => ~Required[p]

\* A transaction has crossed no more hours than minutes.
TxOrdered == \A c \in Call : tx[c].hour <= tx[c].minute

IInv ==
    /\ TypeOK
    /\ TxOrdered
    /\ RowsCountSpending
    /\ MinuteBudget
    /\ HourBudget
    /\ DegradedIsPublic

Ring == [Age -> Nat]
TxType == [minute : 0 .. TxAge, hour : 0 .. TxAge,
           untilMinute : 0 .. SlotsPerMinute,
           untilHour : 0 .. SlotsPerMinute * MinutesPerHour]

\* Incrementing one window of a ring.
LEMMA BumpedRing ==
    ASSUME NEW f \in Ring, NEW a \in Age, NEW b \in BOOLEAN
    PROVE  /\ Bumped(f, a, b) \in Ring
           /\ \A x \in Age : x # a => Bumped(f, a, b)[x] = f[x]
           /\ b => Bumped(f, a, b)[a] = f[a] + 1
           /\ ~b => Bumped(f, a, b)[a] = f[a]
BY DEF Bumped, Ring

\* Ageing a ring by one window.
LEMMA ShiftedRing ==
    ASSUME NEW f \in Ring, NEW r \in BOOLEAN
    PROVE  /\ Shifted(f, r) \in Ring
           /\ ~r => Shifted(f, r) = f
           /\ r => /\ Shifted(f, r)[0] = 0
                   /\ \A x \in Age \ {0} : x - 1 \in Age /\ Shifted(f, r)[x] = f[x - 1]
<1>1. \A x \in Age \ {0} : x - 1 \in Age
  BY ConstantsAssumption DEF Age
<1>2. 0 \in Age
  BY ConstantsAssumption DEF Age
<1> QED
  BY <1>1, <1>2 DEF Shifted, Ring

\* The limits are numbers, and the windows of a transaction are followed.
LEMMA Limits ==
    ASSUME TypeOK, NEW c \in Call
    PROVE  /\ PerMinute(c) \in Nat
           /\ PerHour(c) \in Nat
           /\ tx[c].minute \in Age
           /\ tx[c].hour \in Age
           /\ tx[c].minute \in 0 .. TxAge
           /\ tx[c].hour \in 0 .. TxAge
<1>1. MinuteLimit[ProcOf[c]] \in Nat /\ HourLimit[ProcOf[c]] \in Nat
  BY ConstantsAssumption
<1>2. PerMinute(c) \in Nat /\ PerHour(c) \in Nat
  BY <1>1 DEF PerMinute, PerHour, Larger
<1>3. tx[c].minute \in 0 .. TxAge /\ tx[c].hour \in 0 .. TxAge
  BY DEF TypeOK
<1>4. 0 .. TxAge \subseteq Age
  BY ConstantsAssumption DEF Age
<1> QED
  BY <1>2, <1>3, <1>4

\* The time a denied caller sleeps is a number of slots, at most a minute.
LEMMA DelayType ==
    ASSUME TypeOK, NEW c \in Call
    PROVE  Delay(c) \in 0 .. SlotsPerMinute
<1>1. /\ tx[c].untilMinute \in 0 .. SlotsPerMinute
      /\ tx[c].untilHour \in 0 .. SlotsPerMinute * MinutesPerHour
  BY DEF TypeOK
<1>2. /\ SlotsPerMinute \in Nat
      /\ SlotsPerMinute * MinutesPerHour \in Nat
  BY ConstantsAssumption
<1>3. tx[c].untilHour \in Nat
  BY <1>1, <1>2
<1> QED
  BY <1>1, <1>2, <1>3 DEF Delay, Smaller

LEMMA NoTxType == NoTx \in TxType
BY ConstantsAssumption DEF NoTx, TxType

-----------------------------------------------------------------------------
\* What a committed reservation does to the four rings.
LEMMA CommitKeepsBudgets ==
    ASSUME IInv, NEW c \in Call, Committed(c)
    PROVE  /\ used' \in Ring /\ hused' \in Ring
           /\ spent' \in Ring /\ hspent' \in Ring
           /\ RowsCountSpending'
           /\ MinuteBudget'
           /\ HourBudget'
<1> DEFINE m == tx[c].minute
           h == tx[c].hour
<1>t. /\ used \in Ring /\ hused \in Ring /\ spent \in Ring /\ hspent \in Ring
      /\ TypeOK
  BY DEF IInv, TypeOK, Ring
<1>l. /\ m \in Age /\ h \in Age
      /\ m \in 0 .. TxAge /\ h \in 0 .. TxAge
      /\ PerMinute(c) \in Nat /\ PerHour(c) \in Nat
  BY <1>t, Limits
<1>a. 0 .. TxAge \subseteq Age
  BY ConstantsAssumption DEF Age
<1>b. /\ SpendsMinute(c) \in BOOLEAN /\ SpendsHour(c) \in BOOLEAN
      /\ Passes(c) \in BOOLEAN /\ HasHour(c) \in BOOLEAN
  BY DEF SpendsMinute, SpendsHour, Passes, HasHour, MinuteFree, HourFree
<1>c. /\ used' = Bumped(used, m, SpendsMinute(c))
      /\ hused' = Bumped(hused, h, SpendsHour(c))
      /\ spent' = Bumped(spent, m, Passes(c))
      /\ hspent' = Bumped(hspent, h, Passes(c) /\ HasHour(c))
  BY DEF Committed
<1>p. /\ Passes(c) => SpendsMinute(c) /\ used[m] < PerMinute(c)
      /\ Passes(c) /\ HasHour(c) => SpendsHour(c) /\ hused[h] < PerHour(c)
  BY DEF Passes, SpendsMinute, SpendsHour, MinuteFree, HourFree
<1>r. spent[m] <= used[m] /\ hspent[h] <= hused[h]
  BY <1>l DEF IInv, RowsCountSpending
<1> HIDE DEF m, h
<1>1. used' \in Ring /\ hused' \in Ring /\ spent' \in Ring /\ hspent' \in Ring
  BY <1>t, <1>l, <1>b, <1>c, BumpedRing
<1>2. \A x \in Age : x # m => used'[x] = used[x] /\ spent'[x] = spent[x]
  BY <1>t, <1>c DEF Bumped, Ring
<1>3. \A x \in Age : x # h => hused'[x] = hused[x] /\ hspent'[x] = hspent[x]
  BY <1>t, <1>c DEF Bumped, Ring
<1>4. /\ Passes(c) => used'[m] = used[m] + 1 /\ spent'[m] = spent[m] + 1
      /\ ~Passes(c) => used'[m] >= used[m] /\ spent'[m] = spent[m]
  <2>1. used[m] \in Nat /\ spent[m] \in Nat
    BY <1>t, <1>l DEF Ring
  <2> QED
    BY <1>t, <1>l, <1>c, <1>p, <2>1 DEF Bumped, Ring
<1>5. /\ Passes(c) /\ HasHour(c) =>
            hused'[h] = hused[h] + 1 /\ hspent'[h] = hspent[h] + 1
      /\ ~(Passes(c) /\ HasHour(c)) => hused'[h] >= hused[h] /\ hspent'[h] = hspent[h]
  <2>1. hused[h] \in Nat /\ hspent[h] \in Nat
    BY <1>t, <1>l DEF Ring
  <2> QED
    BY <1>t, <1>l, <1>c, <1>p, <2>1 DEF Bumped, Ring
<1>n. /\ used[m] \in Nat /\ spent[m] \in Nat /\ hused[h] \in Nat /\ hspent[h] \in Nat
      /\ used'[m] \in Nat /\ hused'[h] \in Nat
  BY <1>t, <1>l, <1>1 DEF Ring
<1>6. RowsCountSpending'
  <2> SUFFICES ASSUME NEW x \in 0 .. TxAge
               PROVE  spent'[x] <= used'[x] /\ hspent'[x] <= hused'[x]
    BY DEF RowsCountSpending
  <2>1. x \in Age /\ spent[x] <= used[x] /\ hspent[x] <= hused[x]
    BY <1>a DEF IInv, RowsCountSpending
  <2>2. spent'[x] <= used'[x]
    BY <2>1, <1>2, <1>4, <1>r, <1>n
  <2>3. hspent'[x] <= hused'[x]
    BY <2>1, <1>3, <1>5, <1>r, <1>n
  <2> QED
    BY <2>2, <2>3
<1>7. MinuteBudget'
  <2> SUFFICES ASSUME NEW x \in Age, spent'[x] > 0
               PROVE  \E d \in Call : spent'[x] <= PerMinute(d)
    BY DEF MinuteBudget, PerMinute
  <2>1. CASE x = m /\ Passes(c)
    BY <2>1, <1>4, <1>p, <1>r, <1>n, <1>l
  <2>2. CASE ~(x = m /\ Passes(c))
    BY <2>2, <1>2, <1>4 DEF IInv, MinuteBudget
  <2> QED
    BY <2>1, <2>2
<1>8. HourBudget'
  <2> SUFFICES ASSUME NEW x \in Age, hspent'[x] > 0
               PROVE  \E d \in Call : hspent'[x] <= PerHour(d)
    BY DEF HourBudget, PerHour
  <2>1. CASE x = h /\ Passes(c) /\ HasHour(c)
    BY <2>1, <1>5, <1>p, <1>r, <1>n, <1>l
  <2>2. CASE ~(x = h /\ Passes(c) /\ HasHour(c))
    BY <2>2, <1>3, <1>5 DEF IInv, HourBudget
  <2> QED
    BY <2>1, <2>2
<1> QED
  BY <1>1, <1>6, <1>7, <1>8

-----------------------------------------------------------------------------
LEMMA InitOK == Init => IInv
<1> SUFFICES ASSUME Init PROVE IInv
  OBVIOUS
<1>1. TypeOK
  BY ConstantsAssumption, NoTxType DEF Init, TypeOK, CallState, TxType
<1>2. /\ TxOrdered /\ RowsCountSpending
      /\ MinuteBudget /\ HourBudget /\ DegradedIsPublic
  BY ConstantsAssumption
  DEF Init, TxOrdered, NoTx, RowsCountSpending, MinuteBudget, HourBudget, DegradedIsPublic, Age
<1> QED
  BY <1>1, <1>2 DEF IInv

\* A step that leaves the rings and the degraded flags alone keeps everything
\* but the types.
LEMMA RingsUnchanged ==
    ASSUME IInv, UNCHANGED <<used, hused, spent, hspent, degraded>>,
           TypeOK', TxOrdered'
    PROVE  IInv'
BY DEF IInv, RowsCountSpending, MinuteBudget, HourBudget, DegradedIsPublic,
       PerMinute, PerHour

\* The end of a transaction, committed or not.
LEMMA EndOfTransaction ==
    ASSUME IInv, NEW c \in Call,
           \/ Committed(c)
           \/ UNCHANGED <<used, hused, spent, hspent>>
    PROVE  /\ used' \in Ring /\ hused' \in Ring
           /\ spent' \in Ring /\ hspent' \in Ring
           /\ RowsCountSpending' /\ MinuteBudget' /\ HourBudget'
<1>1. CASE Committed(c)
  BY <1>1, CommitKeepsBudgets
<1>2. CASE UNCHANGED <<used, hused, spent, hspent>>
  BY <1>2 DEF IInv, TypeOK, Ring, RowsCountSpending, MinuteBudget, HourBudget,
              PerMinute, PerHour
<1> QED
  BY <1>1, <1>2

LEMMA TickStep == IInv /\ Tick => IInv'
<1> SUFFICES ASSUME IInv, Tick PROVE IInv'
  OBVIOUS
<1> USE ConstantsAssumption
<1>t. /\ TypeOK
      /\ used \in Ring /\ hused \in Ring /\ spent \in Ring /\ hspent \in Ring
      /\ LastSlot \in BOOLEAN /\ LastMinute \in BOOLEAN
  BY DEF IInv, TypeOK, Ring, LastSlot, LastMinute
<1>1. /\ used' \in Ring /\ hused' \in Ring /\ spent' \in Ring /\ hspent' \in Ring
  BY <1>t, ShiftedRing DEF Tick
<1>2. slot' \in 0 .. SlotsPerMinute - 1 /\ minute' \in 0 .. MinutesPerHour - 1
  <2>1. slot \in Nat /\ minute \in 0 .. MinutesPerHour - 1
    BY <1>t DEF TypeOK
  <2>2. slot' = (slot + 1) % SlotsPerMinute
    BY DEF Tick
  <2>3. slot' \in 0 .. SlotsPerMinute - 1
    BY <2>1, <2>2
  <2>4. (minute + 1) % MinutesPerHour \in 0 .. MinutesPerHour - 1
    BY <2>1
  <2> QED
    BY <2>1, <2>3, <2>4 DEF Tick
<1>3. \A c \in Call : tx'[c] \in TxType /\ tx'[c].hour <= tx'[c].minute
  <2> SUFFICES ASSUME NEW c \in Call
               PROVE  tx'[c] \in TxType /\ tx'[c].hour <= tx'[c].minute
    OBVIOUS
  <2>1. tx[c] \in TxType /\ tx[c].hour <= tx[c].minute
    BY <1>t DEF TypeOK, TxType, IInv, TxOrdered
  <2>2. tx[c].minute \in 0 .. TxAge /\ tx[c].hour \in 0 .. TxAge
    BY <2>1 DEF TxType
  <2>3. CASE pc[c] # "asking"
    BY <2>1, <2>3 DEF Tick
  <2>4. CASE pc[c] = "asking"
    <3> DEFINE mm == IF LastSlot THEN tx[c].minute + 1 ELSE tx[c].minute
               hh == IF LastMinute THEN tx[c].hour + 1 ELSE tx[c].hour
    <3>1. tx'[c] = [tx[c] EXCEPT !.minute = mm, !.hour = hh]
      BY <2>4 DEF Tick
    <3>2. LastSlot => tx[c].minute < TxAge
      BY <2>4 DEF Tick
    <3>3. mm \in 0 .. TxAge /\ hh \in 0 .. TxAge /\ hh <= mm
      BY <2>1, <2>2, <3>2 DEF LastMinute
    <3> HIDE DEF mm, hh
    <3> QED
      BY <2>1, <3>1, <3>3 DEF TxType
  <2> QED
    BY <2>3, <2>4
<1>4. tx' \in [Call -> TxType]
  <2>1. tx' = [c \in Call |-> tx'[c]]
    BY DEF Tick
  <2> QED
    BY <1>3, <2>1
<1>5. wake' \in [Call -> 0 .. SlotsPerMinute]
  <2>1. ASSUME NEW c \in Call
        PROVE  (IF wake[c] = 0 THEN 0 ELSE wake[c] - 1) \in 0 .. SlotsPerMinute
    <3>1. wake[c] \in 0 .. SlotsPerMinute
      BY <1>t DEF TypeOK
    <3> QED
      BY <3>1
  <2> QED
    BY <2>1 DEF Tick
<1>s. /\ spent' = Shifted(spent, LastSlot) /\ hspent' = Shifted(hspent, LastMinute)
      /\ used' = Shifted(used, LastSlot) /\ hused' = Shifted(hused, LastMinute)
  BY DEF Tick
<1>6. TypeOK'
  BY <1>t, <1>1, <1>2, <1>4, <1>5 DEF TypeOK, Tick, Ring, TxType
<1>7. RowsCountSpending'
  <2> SUFFICES ASSUME NEW x \in 0 .. TxAge
               PROVE  spent'[x] <= used'[x] /\ hspent'[x] <= hused'[x]
    BY DEF RowsCountSpending
  <2>1. x \in Age /\ (x # 0 => x - 1 \in 0 .. TxAge)
    BY DEF Age
  <2>2. spent'[x] <= used'[x]
    <3>1. CASE ~LastSlot
      BY <1>s, <3>1 DEF Shifted, IInv, RowsCountSpending
    <3>2. CASE LastSlot
      BY <1>s, <2>1, <3>2 DEF Shifted, IInv, RowsCountSpending
    <3> QED
      BY <3>1, <3>2
  <2>3. hspent'[x] <= hused'[x]
    <3>1. CASE ~LastMinute
      BY <1>s, <3>1 DEF Shifted, IInv, RowsCountSpending
    <3>2. CASE LastMinute
      BY <1>s, <2>1, <3>2 DEF Shifted, IInv, RowsCountSpending
    <3> QED
      BY <3>1, <3>2
  <2> QED
    BY <2>2, <2>3
<1>8. MinuteBudget'
  <2> SUFFICES ASSUME NEW x \in Age, spent'[x] > 0
               PROVE  \E d \in Call : spent'[x] <= PerMinute(d)
    BY DEF MinuteBudget, PerMinute
  <2>1. x # 0 => x - 1 \in Age
    BY DEF Age
  <2>2. \E y \in Age : spent'[x] = spent[y]
    BY <1>s, <2>1 DEF Shifted
  <2> QED
    BY <2>2 DEF IInv, MinuteBudget
<1>9. HourBudget'
  <2> SUFFICES ASSUME NEW x \in Age, hspent'[x] > 0
               PROVE  \E d \in Call : hspent'[x] <= PerHour(d)
    BY DEF HourBudget, PerHour
  <2>1. x # 0 => x - 1 \in Age
    BY DEF Age
  <2>2. \E y \in Age : hspent'[x] = hspent[y]
    BY <1>s, <2>1 DEF Shifted
  <2> QED
    BY <2>2 DEF IInv, HourBudget
<1>10. DegradedIsPublic'
  BY DEF Tick, IInv, DegradedIsPublic
<1> QED
  BY <1>3, <1>6, <1>7, <1>8, <1>9, <1>10 DEF IInv, TxOrdered

LEMMA GCStep == IInv /\ QuotaGC => IInv'
<1> SUFFICES ASSUME IInv, QuotaGC PROVE IInv'
  OBVIOUS
<1> USE ConstantsAssumption
<1>1. used' \in Ring /\ hused' \in Ring
  BY DEF IInv, TypeOK, Ring, QuotaGC
<1>2. \A x \in 0 .. TxAge : used'[x] = used[x] /\ hused'[x] = hused[x]
  BY DEF QuotaGC, Collected, Age
<1>3. TypeOK'
  BY <1>1 DEF IInv, TypeOK, QuotaGC, Ring
<1>4. RowsCountSpending'
  BY <1>2 DEF IInv, RowsCountSpending, QuotaGC
<1>5. TxOrdered' /\ MinuteBudget' /\ HourBudget' /\ DegradedIsPublic'
  BY DEF IInv, TxOrdered, MinuteBudget, HourBudget, DegradedIsPublic, QuotaGC,
         PerMinute, PerHour
<1> QED
  BY <1>3, <1>4, <1>5 DEF IInv

\* The steps of one caller.
LEMMA CallStep ==
    ASSUME IInv, NEW c \in Call,
           \/ Begin(c) \/ BeginUnmetered(c) \/ NextRequest(c)
           \/ Grant(c) \/ DenyAndSleep(c) \/ DenyAndGiveUp(c)
           \/ \E committed \in BOOLEAN : Error(c, committed)
    PROVE  IInv'
<1> USE ConstantsAssumption
<1>t. TypeOK /\ ProcOf[c] \in Process
  BY DEF IInv
<1>e. tx' = [tx EXCEPT ![c] = NoTx] =>
         /\ tx' \in [Call -> TxType]
         /\ TxOrdered'
  <2> SUFFICES ASSUME tx' = [tx EXCEPT ![c] = NoTx]
               PROVE  tx' \in [Call -> TxType] /\ TxOrdered'
    OBVIOUS
  <2>1. tx \in [Call -> TxType]
    BY <1>t DEF TypeOK, TxType
  <2>2. NoTx.hour <= NoTx.minute
    BY DEF NoTx
  <2> QED
    BY <2>1, <2>2, NoTxType DEF IInv, TxOrdered
<1>1. CASE Begin(c)
  <2> DEFINE new == [minute |-> 0, hour |-> 0,
                     untilMinute |-> SlotsPerMinute - slot,
                     untilHour |-> (MinutesPerHour - minute) * SlotsPerMinute - slot]
  <2>1. SlotsPerMinute - slot \in 0 .. SlotsPerMinute
    BY <1>t DEF TypeOK
  <2>2. (MinutesPerHour - minute) * SlotsPerMinute - slot
           \in 0 .. SlotsPerMinute * MinutesPerHour
    <3> DEFINE n == MinutesPerHour - minute
               k == n - 1
    <3>1. /\ n \in Nat /\ k \in Nat /\ minute \in Nat
          /\ n * SlotsPerMinute = k * SlotsPerMinute + SlotsPerMinute
      BY <1>t DEF TypeOK
    <3>2. /\ k * SlotsPerMinute \in Nat
          /\ minute * SlotsPerMinute \in Nat
          /\ SlotsPerMinute * MinutesPerHour = n * SlotsPerMinute + minute * SlotsPerMinute
      BY <3>1
    <3>3. slot \in 0 .. SlotsPerMinute - 1
      BY <1>t DEF TypeOK
    <3>4. /\ n * SlotsPerMinute - slot >= 0
          /\ n * SlotsPerMinute - slot <= SlotsPerMinute * MinutesPerHour
          /\ n * SlotsPerMinute - slot \in Int
          /\ SlotsPerMinute * MinutesPerHour \in Int
      <4> HIDE DEF n, k
      <4>1. n * SlotsPerMinute \in Nat
        BY <3>1
      <4> QED
        BY <2>1, <3>1, <3>2, <3>3, <4>1
    <3> QED
      BY <3>4
  <2>3. new \in TxType /\ new.hour <= new.minute
    BY <2>1, <2>2 DEF TxType
  <2>4. tx' = [tx EXCEPT ![c] = new]
    BY <1>1 DEF Begin
  <2> HIDE DEF new
  <2>5. tx' \in [Call -> TxType] /\ TxOrdered'
    BY <2>3, <2>4, <1>t DEF TypeOK, TxType, IInv, TxOrdered
  <2>6. TypeOK'
    BY <1>1, <1>t, <2>5 DEF TypeOK, TxType, Begin, CallState
  <2> QED
    BY <1>1, <2>5, <2>6, RingsUnchanged DEF Begin
<1>2. CASE BeginUnmetered(c)
  <2>1. TypeOK'
    BY <1>2, <1>t, <1>e DEF TypeOK, TxType, BeginUnmetered, CallState, Returned
  <2> QED
    BY <1>2, <2>1, <1>e, RingsUnchanged DEF BeginUnmetered, Returned
<1>3. CASE NextRequest(c)
  <2>1. TypeOK'
    BY <1>3, <1>t DEF TypeOK, NextRequest, CallState
  <2> QED
    BY <1>3, <2>1, RingsUnchanged DEF NextRequest, IInv, TxOrdered
<1>4. CASE Grant(c) \/ DenyAndGiveUp(c) \/ \E committed \in BOOLEAN : Error(c, committed)
  <2>1. /\ \/ Committed(c)
           \/ UNCHANGED <<used, hused, spent, hspent>>
        /\ tx' = [tx EXCEPT ![c] = NoTx]
        /\ waited' = [waited EXCEPT ![c] = 0]
        /\ UNCHANGED <<slot, minute, wake>>
    BY <1>4 DEF Grant, DenyAndGiveUp, Error, Returned
  <2>2. pc' \in [Call -> CallState]
    BY <1>4, <1>t DEF TypeOK, Grant, DenyAndGiveUp, Error, OnError, CallState
  <2>3. degraded' \in [Process -> BOOLEAN] /\ DegradedIsPublic'
    BY <1>4, <1>t DEF TypeOK, Grant, DenyAndGiveUp, Error, OnError, IInv, DegradedIsPublic
  <2>4. /\ used' \in Ring /\ hused' \in Ring /\ spent' \in Ring /\ hspent' \in Ring
    BY <2>1, EndOfTransaction
  <2>5. waited' \in [Call -> 0 .. MaxWait]
    BY <1>t, <2>1 DEF TypeOK
  <2>6. TypeOK'
    BY <1>t, <1>e, <2>1, <2>2, <2>3, <2>4, <2>5 DEF TypeOK, Ring, TxType
  <2> QED
    BY <1>e, <2>1, <2>3, <2>6, EndOfTransaction DEF IInv
<1>5. CASE DenyAndSleep(c)
  <2>1. /\ Committed(c)
        /\ tx' = [tx EXCEPT ![c] = NoTx]
        /\ UNCHANGED <<slot, minute, degraded>>
    BY <1>5 DEF DenyAndSleep
  <2>2. Delay(c) \in 0 .. SlotsPerMinute
    BY <1>t, DelayType
  <2>3. waited' \in [Call -> 0 .. MaxWait]
    <3>1. waited[c] + Delay(c) \in 0 .. MaxWait
      BY <1>5, <1>t, <2>2 DEF DenyAndSleep, TypeOK
    <3>2. waited' = [waited EXCEPT ![c] = waited[c] + Delay(c)]
      BY <1>5 DEF DenyAndSleep
    <3> QED
      BY <1>t, <3>1, <3>2 DEF TypeOK
  <2>4. pc' \in [Call -> CallState] /\ wake' \in [Call -> 0 .. SlotsPerMinute]
    BY <1>5, <1>t, <2>2 DEF TypeOK, DenyAndSleep, CallState
  <2>5. TypeOK'
    BY <1>t, <1>e, <2>1, <2>3, <2>4, EndOfTransaction DEF TypeOK, Ring, TxType
  <2>6. DegradedIsPublic'
    BY <2>1 DEF IInv, DegradedIsPublic
  <2> QED
    BY <1>e, <2>1, <2>5, <2>6, EndOfTransaction DEF IInv
<1> QED
  BY <1>1, <1>2, <1>3, <1>4, <1>5

LEMMA IInvStep == IInv /\ [Next]_vars => IInv'
<1> SUFFICES ASSUME IInv, [Next]_vars PROVE IInv'
  OBVIOUS
<1>1. CASE UNCHANGED vars
  <2>1. TypeOK' /\ TxOrdered'
    BY <1>1 DEF IInv, TypeOK, TxOrdered, vars
  <2> QED
    BY <1>1, <2>1, RingsUnchanged DEF vars
<1> QED
  BY <1>1, CallStep, GCStep, TickStep DEF Next

LEMMA IInvHolds == Spec => []IInv
BY InitOK, IInvStep, PTL DEF Spec

\* Every reachable state is well typed.
THEOREM TypeCorrect == Spec => []TypeOK
<1>1. IInv => TypeOK
  BY DEF IInv
<1> QED
  BY <1>1, IInvHolds, PTL

\* No minute and no hour is spent beyond a limit in force (quota.py:15-16, 117-129).
THEOREM BudgetsHold == Spec => []WindowBudgets
<1>1. IInv => WindowBudgets
  BY DEF IInv, WindowBudgets
<1> QED
  BY <1>1, IInvHolds, PTL

\* A required instance sends nothing unmetered (quota.py:20-22).
THEOREM RequiredMetered == Spec => []RequiredIsMetered
<1>1. IInv => RequiredIsMetered
  BY ConstantsAssumption DEF IInv, RequiredIsMetered, Unmetered, DegradedIsPublic
<1> QED
  BY <1>1, IInvHolds, PTL

\* A row still within reach counts what was spent in its window, so no clean-up
\* or lost answer hands budget out again (quota.py:94-108, runs.py:342).
THEOREM RowsCount == Spec => []RowsCountSpending
<1>1. IInv => RowsCountSpending
  BY DEF IInv
<1> QED
  BY <1>1, IInvHolds, PTL

-----------------------------------------------------------------------------
(***************************************************************************)
(* The minute slot that a denial by the hour wastes.  Minute a, counted    *)
(* back from the current one, is in hour h; a minute row that counts more  *)
(* than was spent is in an hour that is used up.                           *)
(***************************************************************************)

InHour(n, a, h) ==
    /\ h * MinutesPerHour <= a + (MinutesPerHour - 1) - n
    /\ a + (MinutesPerHour - 1) - n < h * MinutesPerHour + MinutesPerHour

HourUsedUp(f, h) == \A c \in Call : HasHour(c) /\ f[h] >= PerHour(c)

TxInHour == \A c \in Call : pc[c] = "asking" => InHour(minute, tx[c].minute, tx[c].hour)
HourRowsCount == \A a \in Age : hused[a] <= hspent[a]
WasteIsByHour ==
    OneConfiguration => \A a \in Age : used[a] > spent[a] => \E h \in 0 .. a : InHour(minute, a, h) /\ HourUsedUp(hspent, h)

WasteInv == IInv /\ TxInHour /\ HourRowsCount /\ WasteIsByHour

\* A minute is in one hour.
LEMMA HourIsUnique ==
    ASSUME TypeOK, NEW a \in Nat, NEW h \in Nat, NEW k \in Nat, InHour(minute, a, h), InHour(minute, a, k)
    PROVE  h = k
<1> DEFINE M == MinutesPerHour
           x == a + (M - 1) - minute
<1>1. M \in Nat \ {0} /\ minute \in 0 .. M - 1 /\ x \in Int
  BY ConstantsAssumption DEF TypeOK
<1>2. /\ h * M <= x /\ x < h * M + M
      /\ k * M <= x /\ x < k * M + M
  BY DEF InHour
<1> HIDE DEF M, x
<1>3. ASSUME NEW i \in Nat, NEW j \in Nat, i < j PROVE i * M + M <= j * M
  <2>1. PICK d \in Nat : j = i + 1 + d
    <3>1. j - i - 1 \in Nat /\ j = i + 1 + (j - i - 1)
      BY <1>3
    <3> QED BY <3>1
  <2>2. j * M = i * M + M + d * M /\ d * M \in Nat /\ i * M \in Nat
    BY <1>1, <2>1
  <2> QED BY <1>1, <2>2
<1>4. h * M \in Nat /\ k * M \in Nat
  BY <1>1
<1>5. ~ (h < k)
  <2> SUFFICES ASSUME h < k PROVE FALSE
    OBVIOUS
  <2>1. h * M + M <= k * M
    BY <1>3
  <2> QED BY <1>1, <1>2, <1>4, <2>1
<1>6. ~ (k < h)
  <2> SUFFICES ASSUME k < h PROVE FALSE
    OBVIOUS
  <2>1. k * M + M <= h * M
    BY <1>3
  <2> QED BY <1>1, <1>2, <1>4, <2>1
<1> QED BY <1>5, <1>6

\* Minutes and hours age together.
LEMMA HourAges ==
    ASSUME TypeOK, Tick, NEW a \in Nat, NEW h \in Nat, InHour(minute, a, h)
    PROVE  InHour(minute', IF LastSlot THEN a + 1 ELSE a, IF LastMinute THEN h + 1 ELSE h)
<1> DEFINE M == MinutesPerHour
<1>1. M \in Nat \ {0} /\ minute \in 0 .. M - 1 /\ minute \in Nat
  BY ConstantsAssumption DEF TypeOK
<1>2. h * M \in Nat /\ (h + 1) * M = h * M + M
  BY <1>1
<1>3. h * M <= a + (M - 1) - minute /\ a + (M - 1) - minute < h * M + M
  BY DEF InHour
<1>4. minute' = IF LastSlot THEN (minute + 1) % M ELSE minute
  BY DEF Tick
<1>5. CASE ~ LastSlot
  BY <1>3, <1>4, <1>5 DEF LastMinute, InHour
<1>6. CASE LastSlot /\ ~ LastMinute
  <2>1. minute + 1 \in 0 .. M - 1
    BY <1>1, <1>6 DEF LastMinute
  <2>2. minute' = minute + 1
    <3> HIDE DEF M
    <3> QED BY <1>1, <1>4, <1>6, <2>1
  <2>3. (a + 1) + (M - 1) - minute' = a + (M - 1) - minute
    <3> HIDE DEF M
    <3> QED BY <1>1, <2>2
  <2>4. h * M <= (a + 1) + (M - 1) - minute' /\ (a + 1) + (M - 1) - minute' < h * M + M
    BY <1>3, <2>3
  <2> QED BY <1>6, <2>4 DEF InHour
<1>7. CASE LastMinute
  <2>1. LastSlot /\ minute = M - 1
    BY <1>7 DEF LastMinute
  <2>2. minute' = 0
    <3>1. minute' = M % M
      BY <1>1, <1>4, <2>1
    <3> HIDE DEF M
    <3> QED BY <1>1, <3>1
  <2>3. (h + 1) * M <= (a + 1) + (M - 1) - minute' /\ (a + 1) + (M - 1) - minute' < (h + 1) * M + M
    <3> HIDE DEF M
    <3> QED BY <1>1, <1>2, <1>3, <2>1, <2>2
  <2> QED BY <1>7, <2>1, <2>3 DEF InHour
<1> QED BY <1>5, <1>6, <1>7

\* A step of c leaves the transactions of others, and those of c that go on.
LEMMA OthersKeepHour ==
    ASSUME WasteInv, NEW c \in Call, minute' = minute,
           \A d \in Call : d # c => pc'[d] = pc[d] /\ tx'[d] = tx[d],
           pc'[c] = "asking" => InHour(minute', tx'[c].minute, tx'[c].hour)
    PROVE  TxInHour'
BY DEF WasteInv, TxInHour, InHour

\* A committed transaction wastes a minute slot only of a used-up hour.
LEMMA CommitWaste ==
    ASSUME WasteInv, NEW c \in Call, pc[c] = "asking", Committed(c), minute' = minute
    PROVE  HourRowsCount' /\ WasteIsByHour'
<1> DEFINE m == tx[c].minute
           h == tx[c].hour
<1>t. /\ used \in Ring /\ hused \in Ring /\ spent \in Ring /\ hspent \in Ring
      /\ TypeOK /\ IInv
  BY DEF WasteInv, IInv, TypeOK, Ring
<1>l. m \in Age /\ h \in Age /\ h \in 0 .. m /\ PerMinute(c) \in Nat /\ PerHour(c) \in Nat
  BY <1>t, Limits DEF IInv, TxOrdered
<1>b. /\ SpendsMinute(c) \in BOOLEAN /\ SpendsHour(c) \in BOOLEAN
      /\ Passes(c) \in BOOLEAN /\ HasHour(c) \in BOOLEAN
  BY DEF SpendsMinute, SpendsHour, Passes, HasHour, MinuteFree, HourFree
<1>c. /\ used' = Bumped(used, m, SpendsMinute(c))
      /\ hused' = Bumped(hused, h, SpendsHour(c))
      /\ spent' = Bumped(spent, m, Passes(c))
      /\ hspent' = Bumped(hspent, h, Passes(c) /\ HasHour(c))
  BY DEF Committed
<1>p. /\ SpendsHour(c) <=> Passes(c) /\ HasHour(c)
      /\ Passes(c) => SpendsMinute(c)
      /\ SpendsMinute(c) /\ ~ Passes(c) => HasHour(c) /\ hused[h] >= PerHour(c)
  BY <1>t, <1>l DEF Passes, SpendsMinute, SpendsHour, MinuteFree, HourFree, Ring
<1>i. InHour(minute, m, h)
  BY DEF WasteInv, TxInHour
<1> HIDE DEF m, h
<1>1. /\ \A x \in Age : used'[x] = IF x = m /\ SpendsMinute(c) THEN used[x] + 1 ELSE used[x]
      /\ \A x \in Age : spent'[x] = IF x = m /\ Passes(c) THEN spent[x] + 1 ELSE spent[x]
  BY <1>t, <1>c DEF Bumped, Ring
<1>2. /\ \A x \in Age : hused'[x] = IF x = h /\ Passes(c) /\ HasHour(c) THEN hused[x] + 1 ELSE hused[x]
      /\ \A x \in Age : hspent'[x] = IF x = h /\ Passes(c) /\ HasHour(c) THEN hspent[x] + 1 ELSE hspent[x]
  BY <1>t, <1>c, <1>p DEF Bumped, Ring
<1>n. \A x \in Age : used[x] \in Nat /\ spent[x] \in Nat /\ hused[x] \in Nat /\ hspent[x] \in Nat
  BY <1>t DEF Ring
<1>3. HourRowsCount'
  <2>1. \A x \in Age : hused[x] <= hspent[x]
    BY DEF WasteInv, HourRowsCount
  <2> QED BY <1>2, <1>n, <2>1 DEF HourRowsCount
<1>4. ASSUME OneConfiguration, NEW x \in Age, used'[x] > spent'[x]
      PROVE  \E k \in 0 .. x : InHour(minute', x, k) /\ HourUsedUp(hspent', k)
  <2>1. \A k \in Age : HourUsedUp(hspent, k) => HourUsedUp(hspent', k)
    <3> SUFFICES ASSUME NEW k \in Age, HourUsedUp(hspent, k), NEW d \in Call
                 PROVE  HasHour(d) /\ hspent'[k] >= PerHour(d)
      BY DEF HourUsedUp, HasHour, PerHour
    <3>1. HasHour(d) /\ hspent[k] >= PerHour(d) /\ PerHour(d) \in Nat
      BY <1>t, Limits DEF HourUsedUp
    <3> QED BY <1>2, <1>n, <3>1
  <2>2. \A k : InHour(minute, x, k) => InHour(minute', x, k)
    BY DEF InHour
  <2>3. CASE used[x] > spent[x]
    <3>1. PICK k \in 0 .. x : InHour(minute, x, k) /\ HourUsedUp(hspent, k)
      BY <1>4, <2>3 DEF WasteInv, WasteIsByHour
    <3>2. k \in Age
      BY ConstantsAssumption DEF Age
    <3> QED BY <2>1, <2>2, <3>1, <3>2
  <2>4. CASE ~ (used[x] > spent[x])
    <3>1. x = m /\ SpendsMinute(c) /\ ~ Passes(c)
      BY <1>1, <1>4, <1>n, <1>p, <2>4
    <3>2. HasHour(c) /\ hspent[h] >= PerHour(c)
      <4>1. hused[h] <= hspent[h]
        BY <1>l DEF WasteInv, HourRowsCount
      <4> QED BY <1>l, <1>n, <1>p, <3>1, <4>1
    <3>3. \A d \in Call : PerHour(d) = PerHour(c)
      BY <1>4, ConstantsAssumption DEF OneConfiguration, PerHour
    <3>4. HourUsedUp(hspent, h)
      BY <3>2, <3>3 DEF HourUsedUp, HasHour
    <3> QED BY <1>i, <1>l, <2>1, <2>2, <3>1, <3>4
  <2> QED BY <2>3, <2>4
<1> QED BY <1>3, <1>4 DEF WasteIsByHour, OneConfiguration

LEMMA WasteInitially == Init => WasteInv
<1> SUFFICES ASSUME Init PROVE WasteInv
  OBVIOUS
<1>1. TxInHour /\ HourRowsCount /\ WasteIsByHour
  BY ConstantsAssumption DEF Init, TxInHour, HourRowsCount, WasteIsByHour, Age
<1> QED BY <1>1, InitOK DEF WasteInv

LEMMA WasteTick == WasteInv /\ Tick => WasteInv'
<1> SUFFICES ASSUME WasteInv, Tick PROVE WasteInv'
  OBVIOUS
<1>t. /\ used \in Ring /\ hused \in Ring /\ spent \in Ring /\ hspent \in Ring
      /\ LastSlot \in BOOLEAN /\ LastMinute \in BOOLEAN
      /\ TypeOK /\ IInv
  BY DEF WasteInv, IInv, TypeOK, Ring, LastSlot, LastMinute
<1>a. /\ \A x \in Age : x \in Nat
      /\ 0 \in Age /\ \A x \in Age \ {0} : x - 1 \in Age /\ x - 1 \in Nat /\ (x - 1) + 1 = x
  BY ConstantsAssumption DEF Age
<1>1. /\ spent' = Shifted(spent, LastSlot) /\ hspent' = Shifted(hspent, LastMinute)
      /\ used' = Shifted(used, LastSlot) /\ hused' = Shifted(hused, LastMinute)
  BY DEF Tick
<1>2. IInv'
  BY <1>t, TickStep
<1>3. TxInHour'
  <2> SUFFICES ASSUME NEW c \in Call, pc'[c] = "asking" PROVE InHour(minute', tx'[c].minute, tx'[c].hour)
    BY DEF TxInHour, InHour
  <2>1. pc[c] = "asking"
    BY DEF Tick
  <2>2. tx[c] \in TxType /\ InHour(minute, tx[c].minute, tx[c].hour) /\ tx[c].minute \in Nat /\ tx[c].hour \in Nat
    BY <1>t, <2>1, ConstantsAssumption DEF TypeOK, TxType, WasteInv, TxInHour
  <2>3. /\ tx'[c].minute = IF LastSlot THEN tx[c].minute + 1 ELSE tx[c].minute
        /\ tx'[c].hour = IF LastMinute THEN tx[c].hour + 1 ELSE tx[c].hour
    BY <2>1, <2>2 DEF Tick, TxType
  <2> QED BY <1>t, <2>2, <2>3, HourAges
<1>4. HourRowsCount'
  <2> SUFFICES ASSUME NEW x \in Age PROVE hused'[x] <= hspent'[x]
    BY DEF HourRowsCount
  <2>1. \A y \in Age : hused[y] <= hspent[y]
    BY DEF WasteInv, HourRowsCount
  <2>2. CASE ~ LastMinute
    BY <1>1, <2>1, <2>2 DEF Shifted
  <2>3. CASE LastMinute
    BY <1>1, <1>a, <2>1, <2>3 DEF Shifted
  <2> QED BY <2>2, <2>3
<1>5. WasteIsByHour'
  <2> SUFFICES ASSUME OneConfiguration, NEW x \in Age, used'[x] > spent'[x]
               PROVE  \E k \in 0 .. x : InHour(minute', x, k) /\ HourUsedUp(hspent', k)
    BY DEF WasteIsByHour, OneConfiguration
  <2> DEFINE y == IF LastSlot THEN x - 1 ELSE x
  <2>1. y \in Age /\ x = (IF LastSlot THEN y + 1 ELSE y) /\ used[y] > spent[y] /\ y \in Nat /\ x \in Nat
    <3>1. CASE ~ LastSlot
      BY <1>1, <1>a, <3>1 DEF Shifted
    <3>2. CASE LastSlot
      <4>1. x # 0
        BY <1>1, <1>a, <3>2 DEF Shifted
      <4> QED BY <1>1, <1>a, <3>2, <4>1 DEF Shifted
    <3> QED BY <3>1, <3>2
  <2> HIDE DEF y
  <2>2. PICK k \in 0 .. y : InHour(minute, y, k) /\ HourUsedUp(hspent, k)
    BY <2>1 DEF WasteInv, WasteIsByHour
  <2>3. k \in Nat /\ k \in Age
    BY <2>1, ConstantsAssumption DEF Age
  <2> DEFINE j == IF LastMinute THEN k + 1 ELSE k
  <2>4. InHour(minute', x, j)
    BY <1>t, <2>1, <2>2, <2>3, HourAges
  <2>5. j \in 0 .. x /\ j \in Age
    <3>1. LastMinute => LastSlot
      BY DEF LastMinute
    <3>2. j \in 0 .. x
      BY <2>1, <2>3, <3>1
    <3> QED BY <3>2, ConstantsAssumption DEF Age
  <2>6. hspent'[j] = hspent[k]
    <3>1. CASE ~ LastMinute
      BY <1>1, <3>1 DEF Shifted
    <3>2. CASE LastMinute
      BY <1>1, <2>3, <2>5, <3>2 DEF Shifted
    <3> QED BY <3>1, <3>2
  <2>7. HourUsedUp(hspent', j)
    BY <2>2, <2>6 DEF HourUsedUp, HasHour, PerHour
  <2> QED BY <2>4, <2>5, <2>7
<1> QED BY <1>2, <1>3, <1>4, <1>5 DEF WasteInv

LEMMA WasteCall ==
    ASSUME WasteInv, NEW c \in Call,
           \/ Begin(c) \/ BeginUnmetered(c) \/ NextRequest(c)
           \/ Grant(c) \/ DenyAndSleep(c) \/ DenyAndGiveUp(c)
           \/ \E committed \in BOOLEAN : Error(c, committed)
    PROVE  WasteInv'
<1>t. TypeOK /\ IInv
  BY DEF WasteInv, IInv
<1>1. IInv'
  BY <1>t, CallStep
<1>2. /\ minute' = minute
      /\ \A d \in Call : d # c => pc'[d] = pc[d] /\ tx'[d] = tx[d]
  BY <1>t DEF TypeOK, Begin, BeginUnmetered, NextRequest, Grant, DenyAndSleep, DenyAndGiveUp, Error, OnError, Returned
<1>3. pc'[c] = "asking" => InHour(minute, tx'[c].minute, tx'[c].hour)
  <2>1. CASE Begin(c)
    <3>1. tx'[c].minute = 0 /\ tx'[c].hour = 0
      BY <1>t, <2>1 DEF Begin, TypeOK
    <3>2. MinutesPerHour \in Nat \ {0} /\ minute \in 0 .. MinutesPerHour - 1
      BY <1>t, ConstantsAssumption DEF TypeOK
    <3> QED BY <3>1, <3>2 DEF InHour
  <2>2. CASE ~ Begin(c)
    BY <1>t, <2>2 DEF TypeOK, BeginUnmetered, NextRequest, Grant, DenyAndSleep, DenyAndGiveUp, Error, OnError
  <2> QED BY <2>1, <2>2
<1>4. TxInHour'
  BY <1>2, <1>3, OthersKeepHour
<1>5. HourRowsCount' /\ WasteIsByHour'
  <2>1. CASE Committed(c) /\ pc[c] = "asking"
    BY <1>2, <2>1, CommitWaste
  <2>2. CASE UNCHANGED <<used, hused, spent, hspent>>
    BY <1>2, <2>2 DEF WasteInv, HourRowsCount, WasteIsByHour, InHour, HourUsedUp, OneConfiguration, HasHour, PerHour
  <2> QED BY <2>1, <2>2 DEF Begin, BeginUnmetered, NextRequest, Grant, DenyAndSleep, DenyAndGiveUp, Error
<1> QED BY <1>1, <1>4, <1>5 DEF WasteInv

LEMMA WasteGC == WasteInv /\ QuotaGC => WasteInv'
<1> SUFFICES ASSUME WasteInv, QuotaGC PROVE WasteInv'
  OBVIOUS
<1>1. IInv'
  BY GCStep DEF WasteInv
<1>2. /\ \A x \in Age : used[x] \in Nat /\ spent[x] \in Nat /\ hused[x] \in Nat /\ hspent[x] \in Nat
      /\ \A x \in Age : used'[x] \in {0, used[x]} /\ hused'[x] \in {0, hused[x]}
      /\ UNCHANGED <<minute, spent, hspent, pc, tx>>
  BY DEF WasteInv, IInv, TypeOK, QuotaGC
<1>3. TxInHour'
  BY <1>2 DEF WasteInv, TxInHour, InHour
<1>4. HourRowsCount'
  BY <1>2 DEF WasteInv, HourRowsCount
<1>5. WasteIsByHour'
  <2>1. \A x \in Age : used'[x] > spent'[x] => used[x] > spent[x]
    BY <1>2
  <2> QED BY <1>2, <2>1 DEF WasteInv, WasteIsByHour, InHour, HourUsedUp, OneConfiguration, HasHour, PerHour
<1> QED BY <1>1, <1>3, <1>4, <1>5 DEF WasteInv

LEMMA WasteStep == WasteInv /\ [Next]_vars => WasteInv'
<1> SUFFICES ASSUME WasteInv, [Next]_vars PROVE WasteInv'
  OBVIOUS
<1>1. CASE UNCHANGED vars
  BY <1>1, IInvStep DEF vars, WasteInv, TxInHour, HourRowsCount, WasteIsByHour, InHour, HourUsedUp, OneConfiguration,
                        HasHour, PerHour
<1> QED BY <1>1, WasteCall, WasteGC, WasteTick DEF Next

\* With one configuration in force, whatever slots denials by the hour wasted, a
\* caller is denied only when its minute or its hour was spent (quota.py:118).
THEOREM WasteHarmless == Spec => WasteIsHarmless
<1> DEFINE A == \A c \in Call :
          OneConfiguration /\ pc[c] = "asking" /\ pc'[c] \in {"waiting", "exhausted"} =>
             \/ spent[tx[c].minute] >= PerMinute(c)
             \/ HasHour(c) /\ hspent[tx[c].hour] >= PerHour(c)
<1>1. WasteInv /\ [Next]_vars => [A]_vars
  <2> SUFFICES ASSUME WasteInv, Next, OneConfiguration, NEW c \in Call, pc[c] = "asking",
                      pc'[c] \in {"waiting", "exhausted"}
               PROVE  \/ spent[tx[c].minute] >= PerMinute(c)
                      \/ HasHour(c) /\ hspent[tx[c].hour] >= PerHour(c)
    OBVIOUS
  <2> DEFINE m == tx[c].minute
             h == tx[c].hour
  <2>t. TypeOK /\ IInv
    BY DEF WasteInv, IInv
  <2>1. ~ Passes(c)
    BY <2>t DEF Next, TypeOK, Begin, BeginUnmetered, NextRequest, Grant, DenyAndSleep, DenyAndGiveUp, Error, OnError,
                QuotaGC, Tick
  <2>2. /\ m \in Age /\ h \in Age /\ m \in Nat /\ h \in Nat /\ PerMinute(c) \in Nat /\ PerHour(c) \in Nat
        /\ used[m] \in Nat /\ spent[m] \in Nat /\ hused[h] \in Nat /\ hspent[h] \in Nat /\ hused[h] <= hspent[h]
    BY <2>t, Limits, ConstantsAssumption DEF TypeOK, WasteInv, HourRowsCount
  <2>3. CASE MinuteFree(c)
    BY <2>1, <2>2, <2>3 DEF Passes, HourFree
  <2>4. CASE ~ MinuteFree(c) /\ spent[m] >= used[m]
    BY <2>2, <2>4 DEF MinuteFree
  <2>5. CASE used[m] > spent[m]
    <3>1. PICK k \in 0 .. m : InHour(minute, m, k) /\ HourUsedUp(hspent, k)
      BY <2>2, <2>5 DEF WasteInv, WasteIsByHour
    <3>2. InHour(minute, m, h)
      BY DEF WasteInv, TxInHour
    <3>3. k \in Nat
      BY <2>2
    <3>4. k = h
      BY <2>t, <2>2, <3>1, <3>2, <3>3, HourIsUnique
    <3> QED BY <3>1, <3>4 DEF HourUsedUp
  <2> QED BY <2>2, <2>3, <2>4, <2>5
<1> QED BY <1>1, WasteInitially, WasteStep, PTL DEF Spec, WasteIsHarmless
=============================================================================
