--------------------------- MODULE CopilotChatProofs ---------------------------
(***************************************************************************)
(* Proofs about CopilotChat, for every set of requests, addresses and      *)
(* sessions and every limit.  A turn is inside the lock exactly while the  *)
(* lock names it, so nobody writes the history it was started with; two    *)
(* turns that stand on one session object at a time know each other (met), *)
(* so whatever one of them leaves there the other may see.                 *)
(***************************************************************************)
EXTENDS CopilotChat, FiniteSetTheorems, TLAPS

\* What the end of a task leaves of its locals.
LEMMA EndType ==
    ASSUME TypeOK, NEW r \in Request, End(r)
    PROVE  /\ pc' \in [Request -> PC]
           /\ asked' \in [Request -> Day]
           /\ attempt' \in [Request -> 1 .. Models]
           /\ object' \in [Request -> Request]
           /\ base' \in [Request -> Seq(Request)]
           /\ met' \in [Request -> SUBSET Request]
<1>1. 0 \in Day /\ 1 \in 1 .. Models /\ "ended" \in PC /\ <<>> \in Seq(Request)
  BY ConstantsAssumption DEF Day, PC
<1> QED
  BY <1>1 DEF End, Goto, TypeOK

LEMMA ReleasedType ==
    ASSUME TypeOK, NEW r \in Request
    PROVE  Released(r) \in [Request -> Request \union {None}]
BY DEF Released, TypeOK

LEMMA RecentType ==
    ASSUME NEW turns \in Seq(Request)
    PROVE  Recent(turns) \in Seq(Request)
<1>1. Len(turns) \in Nat /\ MaxHistory \in Nat \ {0}
  BY ConstantsAssumption
<1>2. \A k \in 1 .. Len(turns) : turns[k] \in Request
  OBVIOUS
<1> DEFINE m == IF Len(turns) > MaxHistory THEN Len(turns) - MaxHistory + 1 ELSE 1
<1>3. m \in 1 .. Len(turns) + 1
  BY <1>1
<1>4. Recent(turns) = SubSeq(turns, m, Len(turns))
  BY DEF Recent
<1> HIDE DEF m
<1> QED
  BY <1>1, <1>2, <1>3, <1>4

LEMMA CountType ==
    ASSUME TypeOK, NEW r \in Request, Count(r)
    PROVE  /\ requests' \in [Day -> [Scope -> Nat]]
           /\ counted' \in [Request -> Day \union {None}]
<1>1. asked[r] \in Day /\ Global \in Scope /\ IpOf[r] \in Scope
  BY ConstantsAssumption DEF TypeOK, Scope, Global
<1>2. counted' \in [Request -> Day \union {None}]
  BY <1>1 DEF Count, TypeOK
<1>5. requests' \in [Day -> [Scope -> Nat]]
  BY <1>1 DEF Count, TypeOK
<1> QED
  BY <1>2, <1>5

-----------------------------------------------------------------------------
\* Every action keeps the types.
LEMMA TypeStep == TypeOK /\ [Next]_vars => TypeOK'
<1> SUFFICES ASSUME TypeOK, [Next]_vars PROVE TypeOK'
  OBVIOUS
<1> USE ConstantsAssumption
<1>1. ASSUME NEW r \in Request, Arrive(r) PROVE TypeOK'
  BY <1>1 DEF Arrive, TypeOK, Goto, PC, budget, sessions, Day
<1>2. ASSUME NEW r \in Request, Admit(r) PROVE TypeOK'
  BY <1>2, CountType DEF Admit, TypeOK, Goto, PC, sessions
<1>3. ASSUME NEW r \in Request, Deny(r) PROVE TypeOK'
  BY <1>3, EndType DEF Deny, TypeOK, budget
<1>4. ASSUME NEW r \in Request, Unavailable(r) PROVE TypeOK'
  BY <1>4, EndType, CountType DEF Unavailable, TypeOK
<1>5. ASSUME NEW r \in Request, Open(r) PROVE TypeOK'
  <2> DEFINE o == IF store[SessionOf[r]] = None THEN r ELSE store[SessionOf[r]]
  <2>1. o \in Request /\ SessionOf[r] \in Session
    BY DEF TypeOK
  <2>2. store' \in [Session -> Request \union {None}] /\ object' \in [Request -> Request]
    BY <1>5, <2>1 DEF Open, TypeOK
  <2>3. context' \in [Request -> [Fields -> Request \union {None}]]
    <3>1. [f \in Fields |-> CASE f \in Copied(r) -> r
                            [] f \in Cleared(r) -> None
                            [] OTHER -> context[o][f]] \in [Fields -> Request \union {None}]
      BY <2>1 DEF TypeOK
    <3> QED
      BY <1>5, <2>1, <3>1 DEF Open, TypeOK
  <2>4. Sharing(o) \subseteq Request
    BY DEF Sharing
  <2>5. met' \in [Request -> SUBSET Request]
    BY <1>5, <2>4 DEF Open, TypeOK
  <2>6. pc' \in [Request -> PC]
    BY <1>5 DEF Open, TypeOK, Goto, PC
  <2> QED
    BY <1>5, <2>2, <2>3, <2>5, <2>6 DEF Open, TypeOK, budget
<1>6. ASSUME NEW r \in Request, Start(r) PROVE TypeOK'
  <2>1. object[r] \in Request /\ history[object[r]] \in Seq(Request) /\ <<>> \in Seq(Request)
    BY DEF TypeOK
  <2>2. base' \in [Request -> Seq(Request)]
    BY <1>6, <2>1 DEF Start, TypeOK
  <2>3. holder' \in [Request -> Request \union {None}]
    BY <1>6, <2>1 DEF Start, TypeOK
  <2>4. pc' \in [Request -> PC]
    BY <1>6 DEF Start, TypeOK, Goto, PC
  <2> QED
    BY <1>6, <2>2, <2>3, <2>4 DEF Start, TypeOK, budget
<1>7. ASSUME NEW r \in Request, UseTool(r) PROVE TypeOK'
  <2>1. PICK written \in Tools :
            context' = [context EXCEPT ![object[r]] =
                           [f \in Fields |-> IF f \in written THEN r ELSE @[f]]]
    BY <1>7 DEF UseTool
  <2>2. [f \in Fields |-> IF f \in written THEN r ELSE context[object[r]][f]]
            \in [Fields -> Request \union {None}]
    BY DEF TypeOK
  <2>3. context' \in [Request -> [Fields -> Request \union {None}]]
    BY <2>1, <2>2 DEF TypeOK
  <2> QED
    BY <1>7, <2>3 DEF UseTool, TypeOK, budget
<1>8. ASSUME NEW r \in Request, Answer(r) PROVE TypeOK'
  <2>1. base[r] \in Seq(Request) /\ r \in Request /\ object[r] \in Request /\ "recording" \in PC
    BY DEF TypeOK, PC
  <2>4. Append(base[r], r) \in Seq(Request)
    BY <2>1
  <2>2. Recent(Append(base[r], r)) \in Seq(Request)
    BY <2>4, RecentType
  <2>3. history' \in [Request -> Seq(Request)]
    BY <1>8, <2>1, <2>2 DEF Answer, TypeOK
  <2> QED
    BY <1>8, <2>1, <2>3 DEF Answer, TypeOK, Goto, budget
<1>9. ASSUME NEW r \in Request, FallBack(r) PROVE TypeOK'
  <2>1. attempt[r] + 1 \in 1 .. Models
    BY <1>9 DEF FallBack, TypeOK
  <2>2. attempt' \in [Request -> 1 .. Models]
    BY <1>9, <2>1 DEF FallBack, TypeOK
  <2>3. pc' \in [Request -> PC]
    BY <1>9 DEF FallBack, TypeOK, Goto, PC
  <2> QED
    BY <1>9, <2>2, <2>3, ReleasedType DEF FallBack, TypeOK, budget
<1>10. ASSUME NEW r \in Request, Fail(r) PROVE TypeOK'
  BY <1>10, EndType, ReleasedType DEF Fail, TypeOK, Leave, budget
<1>11. ASSUME NEW r \in Request, Record(r) PROVE TypeOK'
  <2>1. tokens' \in [Day -> Nat]
    <3>1. ASSUME NEW d \in asked[r] .. day, NEW cost \in 0 .. MaxCost,
                 tokens' = [tokens EXCEPT ![d] = @ + cost]
          PROVE  tokens' \in [Day -> Nat]
      <4>1. d \in Day /\ cost \in Nat
        BY ConstantsAssumption DEF TypeOK, Day
      <4> QED
        BY <3>1, <4>1 DEF TypeOK
    <3> QED
      BY <1>11, <3>1 DEF Record, TypeOK
  <2> QED
    BY <1>11, <2>1, EndType, ReleasedType DEF Record, TypeOK, Leave
<1>12. ASSUME NEW r \in Request, Disconnect(r) PROVE TypeOK'
  BY <1>12, EndType, ReleasedType DEF Disconnect, TypeOK, Leave, budget
<1>13. ASSUME NEW s \in Session, Expire(s) PROVE TypeOK'
  BY <1>13 DEF Expire, TypeOK, Goto, PC, budget, sessions, Day
<1>14. ASSUME Midnight PROVE TypeOK'
  BY <1>14 DEF Midnight, TypeOK, Day, sessions
<1>15. ASSUME UNCHANGED vars PROVE TypeOK'
  BY <1>15 DEF vars, TypeOK
<1> QED
  BY <1>1, <1>2, <1>3, <1>4, <1>5, <1>6, <1>7, <1>8, <1>9, <1>10, <1>11, <1>12, <1>13, <1>14, <1>15 DEF Next, Serve, Reserve, Run

-----------------------------------------------------------------------------
\* The lock of a session object names the turn that is inside it.
Inside(r) == pc[r] \in {"running", "recording"}
Locking ==
    \A r \in Request :
        /\ Inside(r) => holder[object[r]] = r
        /\ \A o \in Request : holder[o] = r => Inside(r) /\ object[r] = o

\* What a run was started with is still what its session holds.
BaseIsCurrent ==
    \A r \in Request : pc[r] = "running" =>
        base[r] = IF r \in Briefing THEN <<>> ELSE history[object[r]]

\* A turn gives back no lock but its own.
LEMMA ReleasedLock ==
    ASSUME TypeOK, Locking, NEW r \in Request
    PROVE  \A o \in Request :
               Released(r)[o] = IF holder[o] = r THEN None ELSE holder[o]
BY DEF TypeOK, Locking, Released

\* What a task leaves behind when it ends: the others' locals.
LEMMA OthersStay ==
    ASSUME TypeOK, NEW r \in Request, End(r)
    PROVE  /\ pc'[r] = "ended"
           /\ \A q \in Request \ {r} :
                 /\ pc'[q] = pc[q] /\ asked'[q] = asked[q]
                 /\ object'[q] = object[q] /\ base'[q] = base[q]
                 /\ met'[q] = met[q]
BY DEF TypeOK, End, Goto

LEMMA LeaveLocking ==
    ASSUME TypeOK, Locking, NEW r \in Request, Leave(r)
    PROVE  Locking'
<1>1. \A o \in Request : holder'[o] = IF holder[o] = r THEN None ELSE holder[o]
  BY ReleasedLock DEF Leave
<1>2. /\ pc'[r] = "ended"
      /\ \A q \in Request \ {r} : pc'[q] = pc[q] /\ object'[q] = object[q]
  BY OthersStay DEF Leave
<1>3. \A q \in Request : object[q] \in Request
  BY DEF TypeOK
<1> QED
  BY <1>1, <1>2, <1>3, ConstantsAssumption DEF Locking, Inside

\* Taking, keeping and giving back the lock.
LEMMA LockingStep == TypeOK /\ Locking /\ TypeOK' /\ [Next]_vars => Locking'
<1> SUFFICES ASSUME TypeOK, Locking, TypeOK', [Next]_vars PROVE Locking'
  OBVIOUS
<1> USE ConstantsAssumption DEF Locking, Inside
<1>1. ASSUME NEW r \in Request, Arrive(r) PROVE Locking'
  BY <1>1 DEF Arrive, TypeOK, Goto, End, Leave, Released, budget, sessions
<1>2. ASSUME NEW r \in Request, Admit(r) PROVE Locking'
  BY <1>2 DEF Admit, TypeOK, Goto, End, Leave, Released, budget, sessions
<1>3. ASSUME NEW r \in Request, Deny(r) PROVE Locking'
  BY <1>3 DEF Deny, TypeOK, Goto, End, Leave, Released, budget, sessions
<1>4. ASSUME NEW r \in Request, Unavailable(r) PROVE Locking'
  BY <1>4 DEF Unavailable, TypeOK, Goto, End, Leave, Released, budget, sessions
<1>5. ASSUME NEW r \in Request, Open(r) PROVE Locking'
  <2>1. /\ pc[r] = "reserved" /\ pc'[r] = "waiting" /\ holder' = holder
        /\ \A q \in Request \ {r} : pc'[q] = pc[q] /\ object'[q] = object[q]
    BY <1>5 DEF Open, TypeOK, Goto
  <2>2. \A q \in Request : object[q] \in Request
    BY DEF TypeOK
  <2> QED
    BY <2>1, <2>2
<1>6. ASSUME NEW r \in Request, Start(r) PROVE Locking'
  <2>1. /\ pc[r] = "waiting" /\ pc'[r] = "running" /\ object' = object
        /\ \A q \in Request \ {r} : pc'[q] = pc[q]
        /\ object[r] \in Request
        /\ holder[object[r]] = None /\ holder'[object[r]] = r
        /\ \A o \in Request \ {object[r]} : holder'[o] = holder[o]
    BY <1>6 DEF Start, TypeOK, Goto
  <2>2. \A q \in Request : object[q] \in Request
    BY DEF TypeOK
  <2> QED
    BY <2>1, <2>2
<1>7. ASSUME NEW r \in Request, UseTool(r) PROVE Locking'
  BY <1>7 DEF UseTool, TypeOK, Goto, End, Leave, Released, budget, sessions
<1>8. ASSUME NEW r \in Request, Answer(r) PROVE Locking'
  BY <1>8 DEF Answer, TypeOK, Goto, End, Leave, Released, budget, sessions
<1>9. ASSUME NEW r \in Request, FallBack(r) PROVE Locking'
  <2>1. /\ pc'[r] = "waiting" /\ object' = object
        /\ \A q \in Request \ {r} : pc'[q] = pc[q]
        /\ holder' = Released(r)
    BY <1>9 DEF FallBack, TypeOK, Goto
  <2>2. \A o \in Request : holder'[o] = IF holder[o] = r THEN None ELSE holder[o]
    BY <2>1, ReleasedLock
  <2>3. \A q \in Request : object[q] \in Request
    BY DEF TypeOK
  <2> QED
    BY <2>1, <2>2, <2>3
<1>10. ASSUME NEW r \in Request, Fail(r) PROVE Locking'
  BY <1>10, LeaveLocking DEF Fail
<1>11. ASSUME NEW r \in Request, Record(r) PROVE Locking'
  BY <1>11, LeaveLocking DEF Record
<1>12. ASSUME NEW r \in Request, Disconnect(r) PROVE Locking'
  BY <1>12, LeaveLocking DEF Disconnect
<1>13. ASSUME NEW s \in Session, Expire(s) PROVE Locking'
  BY <1>13 DEF Expire, TypeOK, Goto, End, Leave, Released, budget, sessions
<1>14. ASSUME Midnight PROVE Locking'
  BY <1>14 DEF Midnight, TypeOK, Goto, End, Leave, Released, budget, sessions
<1>15. ASSUME UNCHANGED vars PROVE Locking'
  BY <1>15 DEF vars, TypeOK, Goto, End, Leave, Released, budget, sessions
<1> QED
  BY <1>1, <1>2, <1>3, <1>4, <1>5, <1>6, <1>7, <1>8, <1>9, <1>10, <1>11, <1>12, <1>13, <1>14, <1>15 DEF Next, Serve, Reserve, Run

\* Only the turn inside the lock writes the history.
LEMMA BaseStep == TypeOK /\ Locking /\ BaseIsCurrent /\ TypeOK' /\ [Next]_vars => BaseIsCurrent'
<1> SUFFICES ASSUME TypeOK, Locking, BaseIsCurrent, TypeOK', [Next]_vars PROVE BaseIsCurrent'
  OBVIOUS
<1> USE ConstantsAssumption DEF Locking, Inside, BaseIsCurrent
<1>1. ASSUME NEW r \in Request, Arrive(r) PROVE BaseIsCurrent'
  BY <1>1 DEF Arrive, TypeOK, Goto, End, Leave, Released, budget, sessions
<1>2. ASSUME NEW r \in Request, Admit(r) PROVE BaseIsCurrent'
  BY <1>2 DEF Admit, TypeOK, Goto, End, Leave, Released, budget, sessions
<1>3. ASSUME NEW r \in Request, Deny(r) PROVE BaseIsCurrent'
  BY <1>3 DEF Deny, TypeOK, Goto, End, Leave, Released, budget, sessions
<1>4. ASSUME NEW r \in Request, Unavailable(r) PROVE BaseIsCurrent'
  BY <1>4 DEF Unavailable, TypeOK, Goto, End, Leave, Released, budget, sessions
<1>5. ASSUME NEW r \in Request, Open(r) PROVE BaseIsCurrent'
  BY <1>5 DEF Open, TypeOK, Goto, End, Leave, Released, budget, sessions
<1>6. ASSUME NEW r \in Request, Start(r) PROVE BaseIsCurrent'
  BY <1>6 DEF Start, TypeOK, Goto, End, Leave, Released, budget, sessions
<1>7. ASSUME NEW r \in Request, UseTool(r) PROVE BaseIsCurrent'
  BY <1>7 DEF UseTool, TypeOK, Goto, End, Leave, Released, budget, sessions
<1>8. ASSUME NEW r \in Request, Answer(r) PROVE BaseIsCurrent'
  <2>1. /\ pc[r] = "running" /\ pc'[r] = "recording"
        /\ object' = object /\ base' = base /\ object[r] \in Request
        /\ \A q \in Request \ {r} : pc'[q] = pc[q]
        /\ \A o \in Request \ {object[r]} : history'[o] = history[o]
    BY <1>8 DEF Answer, TypeOK, Goto
  <2>2. \A q \in Request \ {r} : pc[q] = "running" =>
            object[q] \in Request \ {object[r]}
    BY <2>1 DEF TypeOK
  <2> QED
    BY <2>1, <2>2
<1>9. ASSUME NEW r \in Request, FallBack(r) PROVE BaseIsCurrent'
  BY <1>9, SMTT(60) DEF FallBack, TypeOK, Goto, End, Leave, Released, budget, sessions
<1>10. ASSUME NEW r \in Request, Fail(r) PROVE BaseIsCurrent'
  BY <1>10, SMTT(60) DEF Fail, TypeOK, Goto, End, Leave, Released, budget, sessions
<1>11. ASSUME NEW r \in Request, Record(r) PROVE BaseIsCurrent'
  BY <1>11, OthersStay DEF Record, Leave
<1>12. ASSUME NEW r \in Request, Disconnect(r) PROVE BaseIsCurrent'
  BY <1>12, SMTT(60) DEF Disconnect, TypeOK, Goto, End, Leave, Released, budget, sessions
<1>13. ASSUME NEW s \in Session, Expire(s) PROVE BaseIsCurrent'
  BY <1>13 DEF Expire, TypeOK, Goto, End, Leave, Released, budget, sessions
<1>14. ASSUME Midnight PROVE BaseIsCurrent'
  BY <1>14 DEF Midnight, TypeOK, Goto, End, Leave, Released, budget, sessions
<1>15. ASSUME UNCHANGED vars PROVE BaseIsCurrent'
  BY <1>15 DEF vars, TypeOK, Goto, End, Leave, Released, budget, sessions
<1> QED
  BY <1>1, <1>2, <1>3, <1>4, <1>5, <1>6, <1>7, <1>8, <1>9, <1>10, <1>11, <1>12, <1>13, <1>14, <1>15 DEF Next, Serve, Reserve, Run

-----------------------------------------------------------------------------
\* A step of the system writes a history only as the turn that holds it.
LEMMA HistoryStep ==
    ASSUME TypeOK, BaseIsCurrent, [Next]_vars, NEW o \in Request, history'[o] # history[o]
    PROVE  \E r \in Request : pc[r] = "running" /\ Extends(o, r)
<1>1. ASSUME NEW r \in Request, Answer(r)
      PROVE  pc[r] = "running" /\ Extends(o, r)
  <2>1. o = object[r]
    BY <1>1 DEF Answer, TypeOK
  <2>2. history'[o] = Recent(Append(base[r], r)) /\ pc[r] = "running"
    BY <1>1, <2>1 DEF Answer, TypeOK
  <2> QED
    BY <2>1, <2>2 DEF BaseIsCurrent, Extends
<1>2. ASSUME ~ \E r \in Request : Answer(r) PROVE history' = history
  <2>1. ASSUME NEW r \in Request, Arrive(r) \/ Serve(r) \/ UseTool(r) \/ Disconnect(r)
        PROVE  history' = history
    BY <1>2, <2>1 DEF Arrive, Serve, Reserve, Run, Admit, Deny, Unavailable, Open, Start,
       UseTool, FallBack, Fail, Record, Disconnect, Leave, sessions
  <2>2. ASSUME NEW t \in Session, Expire(t) PROVE history' = history
    BY <2>2 DEF Expire
  <2>3. Midnight => history' = history
    BY DEF Midnight, sessions
  <2>4. UNCHANGED vars => history' = history
    BY DEF vars
  <2> QED
    BY <2>1, <2>2, <2>3, <2>4 DEF Next
<1> QED
  BY <1>1, <1>2

-----------------------------------------------------------------------------
\* Turns on one session object at a time know each other.
Acquainted ==
    \A q, r \in Request :
        /\ pc[q] \in OnSession /\ pc[r] \in OnSession
        /\ q # r /\ object[q] = object[r]
        => q \in met[r]

\* What a turn finds in its session from the moment it opens it.
Explained(who, f, r) ==
    who \in {r} \union met[r] \union (IF f \in Cleared(r) THEN {None} ELSE {})
OwnContext ==
    \A r \in Request : pc[r] \in OnSession =>
        \A f \in Copied(r) \union Cleared(r) : Explained(context[object[r]][f], f, r)

\* What opening a session does to it and to the turns already there.
LEMMA OpenFacts ==
    ASSUME TypeOK, NEW r \in Request, Open(r)
    PROVE  \E o \in Request :
             /\ pc[r] = "reserved" /\ pc'[r] = "waiting" /\ object'[r] = o
             /\ \A q \in Request \ {r} : pc'[q] = pc[q] /\ object'[q] = object[q]
             /\ \A f \in Fields : \/ context'[o][f] = r
                                  \/ f \in Cleared(r) /\ context'[o][f] = None
                                  \/ /\ f \notin Copied(r) \union Cleared(r)
                                     /\ context'[o][f] = context[o][f]
             /\ \A x \in Request \ {o} : context'[x] = context[x]
             /\ \A q \in Request : met[q] \subseteq met'[q]
             /\ \A q \in Sharing(o) : q \in met'[r]
             /\ \A q \in Sharing(o) \ {r} : r \in met'[q]
<1> DEFINE o == IF store[SessionOf[r]] = None THEN r ELSE store[SessionOf[r]]
<1>1. o \in Request
  BY ConstantsAssumption DEF TypeOK
<1>2. /\ pc[r] = "reserved" /\ pc'[r] = "waiting" /\ object'[r] = o
      /\ \A q \in Request \ {r} : pc'[q] = pc[q] /\ object'[q] = object[q]
  BY DEF Open, TypeOK, Goto
<1>3. \A x \in Request \ {o} : context'[x] = context[x]
  BY <1>1 DEF Open, TypeOK
<1>8. ASSUME NEW f \in Fields
      PROVE  \/ context'[o][f] = r
             \/ f \in Cleared(r) /\ context'[o][f] = None
             \/ f \notin Copied(r) \union Cleared(r) /\ context'[o][f] = context[o][f]
  <2>1. context'[o] = [x \in Fields |-> CASE x \in Copied(r) -> r
                                          [] x \in Cleared(r) -> None
                                          [] OTHER -> context[o][x]]
    BY <1>1 DEF Open, TypeOK
  <2>2. CASE f \in Copied(r) /\ f \notin Cleared(r)
    BY <2>1, <2>2
  <2>3. CASE f \notin Copied(r) /\ f \in Cleared(r)
    BY <2>1, <2>3
  <2>4. CASE f \notin Copied(r) \union Cleared(r)
    BY <2>1, <2>4
  <2>5. ~ (f \in Copied(r) /\ f \in Cleared(r))
    BY ConstantsAssumption DEF Copied, Cleared, Places
  <2> QED
    BY <2>2, <2>3, <2>4, <2>5
<1>4. Sharing(o) \subseteq Request
  BY DEF Sharing
<1>5. met' = [q \in Request |-> CASE q = r -> met[r] \union Sharing(o)
                                 [] q \in Sharing(o) -> met[q] \union {r}
                                 [] OTHER -> met[q]]
  BY DEF Open
<1>6. r \notin Sharing(o)
  BY <1>2 DEF Sharing, OnSession
<1> HIDE DEF o
<1>7. /\ met'[r] = met[r] \union Sharing(o)
      /\ \A q \in Sharing(o) : met'[q] = met[q] \union {r}
      /\ \A q \in Request : q # r /\ q \notin Sharing(o) => met'[q] = met[q]
  BY <1>4, <1>5, <1>6, ZenonT(30)
<1> QED
  BY <1>1, <1>2, <1>3, <1>4, <1>7, <1>8

\* The fields a selection speaks of.
LEMMA FieldsOf == \A r \in Request : Copied(r) \union Cleared(r) \subseteq Fields
BY ConstantsAssumption DEF Copied, Cleared, Fields, Places

\* Opening a session introduces a turn to those already there.
LEMMA AcquaintedStep == TypeOK /\ Acquainted /\ TypeOK' /\ [Next]_vars => Acquainted'
<1> SUFFICES ASSUME TypeOK, Acquainted, TypeOK', [Next]_vars PROVE Acquainted'
  OBVIOUS
<1> USE ConstantsAssumption DEF Acquainted
<1>1. ASSUME NEW r \in Request, Arrive(r) PROVE Acquainted'
  <2>1. object' = object /\ met' = met /\ pc'[r] \notin OnSession
    BY <1>1 DEF Arrive, TypeOK, Goto, OnSession, sessions
  <2>2. \A q \in Request \ {r} : pc'[q] = pc[q]
    BY <1>1 DEF Arrive, TypeOK, Goto
  <2> QED
    BY <2>1, <2>2
<1>2. ASSUME NEW r \in Request, Admit(r) PROVE Acquainted'
  BY <1>2 DEF Admit, TypeOK, Goto, OnSession, budget, sessions
<1>3. ASSUME NEW r \in Request, Deny(r) PROVE Acquainted'
  BY <1>3, OthersStay DEF Deny, OnSession
<1>4. ASSUME NEW r \in Request, Unavailable(r) PROVE Acquainted'
  BY <1>4, OthersStay DEF Unavailable, OnSession
<1>5. ASSUME NEW r \in Request, Open(r) PROVE Acquainted'
  <2>1. PICK o \in Request :
             /\ pc[r] = "reserved" /\ pc'[r] = "waiting" /\ object'[r] = o
             /\ \A q \in Request \ {r} : pc'[q] = pc[q] /\ object'[q] = object[q]
             /\ \A f \in Fields : \/ context'[o][f] = r
                                  \/ f \in Cleared(r) /\ context'[o][f] = None
                                  \/ /\ f \notin Copied(r) \union Cleared(r)
                                     /\ context'[o][f] = context[o][f]
             /\ \A x \in Request \ {o} : context'[x] = context[x]
             /\ \A q \in Request : met[q] \subseteq met'[q]
             /\ \A q \in Sharing(o) : q \in met'[r]
             /\ \A q \in Sharing(o) \ {r} : r \in met'[q]
    BY <1>5, OpenFacts
  <2>2. \A q \in Request \ {r} : pc[q] \in OnSession /\ object[q] = o => q \in Sharing(o)
    BY DEF Sharing
  <2>3. ASSUME NEW q \in Request, NEW p \in Request, pc'[q] \in OnSession,
               pc'[p] \in OnSession, q # p, object'[q] = object'[p]
        PROVE  q \in met'[p]
    <3>1. CASE p = r
      BY <2>1, <2>2, <2>3, <3>1
    <3>2. CASE q = r
      BY <2>1, <2>2, <2>3, <3>2
    <3>3. CASE p # r /\ q # r
      BY <2>1, <2>3, <3>3
    <3> QED
      BY <3>1, <3>2, <3>3
  <2> QED
    BY <2>3
<1>6. ASSUME NEW r \in Request, Start(r) PROVE Acquainted'
  <2>1. /\ object' = object /\ met' = met /\ pc[r] \in OnSession
        /\ \A q \in Request \ {r} : pc'[q] = pc[q]
    BY <1>6 DEF Start, TypeOK, Goto, OnSession
  <2> QED
    BY <2>1
<1>7. ASSUME NEW r \in Request, UseTool(r) PROVE Acquainted'
  BY <1>7 DEF UseTool, TypeOK, Goto, OnSession, budget, sessions
<1>8. ASSUME NEW r \in Request, Answer(r) PROVE Acquainted'
  <2>1. /\ object' = object /\ met' = met /\ pc[r] \in OnSession
        /\ \A q \in Request \ {r} : pc'[q] = pc[q]
    BY <1>8 DEF Answer, TypeOK, Goto, OnSession
  <2> QED
    BY <2>1
<1>9. ASSUME NEW r \in Request, FallBack(r) PROVE Acquainted'
  <2>1. /\ object' = object /\ met' = met /\ pc[r] \in OnSession
        /\ \A q \in Request \ {r} : pc'[q] = pc[q]
    BY <1>9 DEF FallBack, TypeOK, Goto, OnSession
  <2> QED
    BY <2>1
<1>10. ASSUME NEW r \in Request, Fail(r) PROVE Acquainted'
  BY <1>10, OthersStay DEF Fail, Leave, OnSession
<1>11. ASSUME NEW r \in Request, Record(r) PROVE Acquainted'
  BY <1>11, OthersStay DEF Record, Leave, OnSession
<1>12. ASSUME NEW r \in Request, Disconnect(r) PROVE Acquainted'
  BY <1>12, OthersStay DEF Disconnect, Leave, OnSession
<1>13. ASSUME NEW s \in Session, Expire(s) PROVE Acquainted'
  BY <1>13 DEF Expire, TypeOK, Goto, OnSession, budget, sessions
<1>14. ASSUME Midnight PROVE Acquainted'
  BY <1>14 DEF Midnight, TypeOK, Goto, OnSession, budget, sessions
<1>15. ASSUME UNCHANGED vars PROVE Acquainted'
  BY <1>15 DEF vars, TypeOK, Goto, OnSession, budget, sessions
<1> QED
  BY <1>1, <1>2, <1>3, <1>4, <1>5, <1>6, <1>7, <1>8, <1>9, <1>10, <1>11, <1>12, <1>13, <1>14, <1>15 DEF Next, Serve, Reserve, Run

\* Only turns that share the session write its context.
LEMMA ContextStep == TypeOK /\ Acquainted /\ OwnContext /\ TypeOK' /\ [Next]_vars => OwnContext'
<1> SUFFICES ASSUME TypeOK, Acquainted, OwnContext, TypeOK', [Next]_vars PROVE OwnContext'
  OBVIOUS
<1> USE ConstantsAssumption DEF OwnContext
<1>1. ASSUME NEW r \in Request, Arrive(r) PROVE OwnContext'
  BY <1>1 DEF Arrive, TypeOK, Goto, OnSession, budget, sessions, Explained
<1>2. ASSUME NEW r \in Request, Admit(r) PROVE OwnContext'
  BY <1>2 DEF Admit, TypeOK, Goto, OnSession, budget, sessions, Explained
<1>3. ASSUME NEW r \in Request, Deny(r) PROVE OwnContext'
  BY <1>3, OthersStay DEF Deny, OnSession, Explained
<1>4. ASSUME NEW r \in Request, Unavailable(r) PROVE OwnContext'
  BY <1>4, OthersStay DEF Unavailable, OnSession, Explained
<1>5. ASSUME NEW r \in Request, Open(r) PROVE OwnContext'
  <2>1. PICK o \in Request :
             /\ pc[r] = "reserved" /\ pc'[r] = "waiting" /\ object'[r] = o
             /\ \A q \in Request \ {r} : pc'[q] = pc[q] /\ object'[q] = object[q]
             /\ \A f \in Fields : \/ context'[o][f] = r
                                  \/ f \in Cleared(r) /\ context'[o][f] = None
                                  \/ /\ f \notin Copied(r) \union Cleared(r)
                                     /\ context'[o][f] = context[o][f]
             /\ \A x \in Request \ {o} : context'[x] = context[x]
             /\ \A q \in Request : met[q] \subseteq met'[q]
             /\ \A q \in Sharing(o) : q \in met'[r]
             /\ \A q \in Sharing(o) \ {r} : r \in met'[q]
    BY <1>5, OpenFacts
  <2>2. \A q \in Request \ {r} : pc[q] \in OnSession /\ object[q] = o => q \in Sharing(o)
    BY DEF Sharing
  <2>3. ASSUME NEW p \in Request, pc'[p] \in OnSession
        PROVE  \A f \in Copied(p) \union Cleared(p) :
                   Explained(context[object[p]][f], f, p)'
    <3> SUFFICES ASSUME NEW f \in Copied(p) \union Cleared(p)
                 PROVE  context'[object'[p]][f] \in {p} \union met'[p]
                            \union (IF f \in Cleared(p) THEN {None} ELSE {})
      BY DEF Explained
    <3>0. f \in Fields
      BY FieldsOf
    <3>1. CASE p = r
      BY <2>1, <3>0, <3>1
    <3>2. CASE p # r /\ object[p] = o
      <4>1. pc[p] \in OnSession /\ p \in Sharing(o) /\ r \in met'[p] /\ met[p] \subseteq met'[p]
            /\ object'[p] = o
        BY <2>1, <2>2, <2>3, <3>2
      <4>2. context[o][f] \in {p} \union met[p]
                            \union (IF f \in Cleared(p) THEN {None} ELSE {})
        BY <3>2, <4>1 DEF Explained
      <4>3. CASE f \in Cleared(r) /\ context'[o][f] = None
        \* Only the date is cleared, and it is claimed only by those who clear it.
        <5>1. f = "date" /\ (f \in Copied(p) \union Cleared(p) => f \in Cleared(p))
          BY <4>3, ConstantsAssumption DEF Cleared, Copied, Places
        <5> QED
          BY <4>1, <4>3, <5>1
      <4>4. CASE context'[o][f] = r
        BY <4>1, <4>4
      <4>5. CASE context'[o][f] = context[o][f]
        BY <4>1, <4>2, <4>5
      <4> QED
        BY <2>1, <3>0, <4>3, <4>4, <4>5
    <3>3. CASE p # r /\ object[p] # o
      <4>1. /\ object'[p] = object[p] /\ object[p] \in Request \ {o}
            /\ pc[p] \in OnSession /\ met[p] \subseteq met'[p]
        BY <2>1, <2>3, <3>3 DEF TypeOK
      <4>2. context[object[p]][f] \in {p} \union met[p]
                                    \union (IF f \in Cleared(p) THEN {None} ELSE {})
        BY <4>1 DEF Explained
      <4> QED
        BY <2>1, <4>1, <4>2
    <3> QED
      BY <3>1, <3>2, <3>3
  <2> QED
    BY <2>3
<1>6. ASSUME NEW r \in Request, Start(r) PROVE OwnContext'
  <2>1. /\ object' = object /\ met' = met /\ context' = context
        /\ pc[r] \in OnSession /\ \A q \in Request \ {r} : pc'[q] = pc[q]
    BY <1>6 DEF Start, TypeOK, Goto, OnSession
  <2> QED
    BY <2>1 DEF Explained
<1>7. ASSUME NEW r \in Request, UseTool(r) PROVE OwnContext'
  <2>1. PICK written \in Tools :
            context' = [context EXCEPT ![object[r]] =
                           [f \in Fields |-> IF f \in written THEN r ELSE @[f]]]
    BY <1>7 DEF UseTool
  <2>2. /\ object' = object /\ met' = met /\ pc' = pc /\ pc[r] \in OnSession
        /\ object[r] \in Request
        /\ \A f \in Fields : context'[object[r]][f] \in {r, context[object[r]][f]}
        /\ \A x \in Request \ {object[r]} : context'[x] = context[x]
    BY <1>7, <2>1 DEF UseTool, TypeOK, OnSession
  <2>3. \A p \in Request : pc[p] \in OnSession /\ object[p] = object[r] => r \in {p} \union met[p]
    BY <2>2 DEF Acquainted
  <2>4. \A p \in Request : object[p] \in Request
    BY DEF TypeOK
  <2>5. ASSUME NEW p \in Request, pc[p] \in OnSession, NEW f \in Copied(p) \union Cleared(p)
        PROVE  context'[object[p]][f] \in {p} \union met[p]
                   \union (IF f \in Cleared(p) THEN {None} ELSE {})
    <3>1. /\ f \in Fields
          /\ context[object[p]][f] \in {p} \union met[p]
                 \union (IF f \in Cleared(p) THEN {None} ELSE {})
      BY <2>5, FieldsOf DEF Explained
    <3> QED
      BY <2>2, <2>3, <2>4, <2>5, <3>1
  <2> QED
    BY <2>2, <2>5 DEF Explained
<1>8. ASSUME NEW r \in Request, Answer(r) PROVE OwnContext'
  BY <1>8 DEF Answer, TypeOK, Goto, OnSession, budget, sessions, Explained
<1>9. ASSUME NEW r \in Request, FallBack(r) PROVE OwnContext'
  BY <1>9 DEF FallBack, TypeOK, Goto, OnSession, budget, sessions, Explained
<1>10. ASSUME NEW r \in Request, Fail(r) PROVE OwnContext'
  BY <1>10, OthersStay DEF Fail, Leave, OnSession, Explained
<1>11. ASSUME NEW r \in Request, Record(r) PROVE OwnContext'
  BY <1>11, OthersStay DEF Record, Leave, OnSession, Explained
<1>12. ASSUME NEW r \in Request, Disconnect(r) PROVE OwnContext'
  BY <1>12, OthersStay DEF Disconnect, Leave, OnSession, Explained
<1>13. ASSUME NEW s \in Session, Expire(s) PROVE OwnContext'
  BY <1>13 DEF Expire, TypeOK, Goto, OnSession, budget, sessions, Explained
<1>14. ASSUME Midnight PROVE OwnContext'
  BY <1>14 DEF Midnight, TypeOK, Goto, OnSession, budget, sessions, Explained
<1>15. ASSUME UNCHANGED vars PROVE OwnContext'
  BY <1>15 DEF vars, TypeOK, Goto, OnSession, budget, sessions, Explained
<1> QED
  BY <1>1, <1>2, <1>3, <1>4, <1>5, <1>6, <1>7, <1>8, <1>9, <1>10, <1>11, <1>12, <1>13, <1>14, <1>15 DEF Next, Serve, Reserve, Run

-----------------------------------------------------------------------------
\* The rows and the requests they were spent on.
RowsCount ==
    \A d \in Day, s \in Scope : requests[d][s] = Cardinality(CountedOn(d, s))
WithinLimits ==
    /\ \A d \in Day : ~ Exceeds(requests[d][Global], GlobalLimit)
    /\ \A d \in Day, i \in Ip : ~ Exceeds(requests[d][i], IpLimit)
CountedWhenServed ==
    \A r \in Request :
        /\ pc[r] \in OnSession \union {"reserved"} => counted[r] # None
        /\ pc[r] \in {"new", "asking"} => counted[r] = None
Counted == RowsCount /\ WithinLimits /\ CountedWhenServed

\* One request more, in the row of everybody and in that of its address.
LEMMA CountKeepsRows ==
    ASSUME TypeOK, RowsCount, WithinLimits, NEW r \in Request, counted[r] = None,
           ~ Over(r), Count(r)
    PROVE  RowsCount' /\ WithinLimits'
<1> DEFINE a == asked[r]
           mine == {Global, IpOf[r]}
<1>1. a \in Day /\ Global \in Scope /\ IpOf[r] \in Ip /\ IpOf[r] \in Scope /\ Global \notin Ip
  BY ConstantsAssumption DEF TypeOK, Scope, Global
<1>2. \A d \in Day, s \in Scope : requests'[d][s] =
          IF d = a /\ s \in mine THEN requests[d][s] + 1 ELSE requests[d][s]
  BY <1>1 DEF Count, TypeOK
<1>3. counted' = [counted EXCEPT ![r] = a]
  BY DEF Count
<1>4. a # None
  BY <1>1, ConstantsAssumption DEF Day
<1> HIDE DEF a
<1>5. ASSUME NEW d \in Day, NEW s \in Scope
      PROVE  requests'[d][s] = Cardinality(CountedOn(d, s)')
  <2>0. /\ IsFiniteSet(CountedOn(d, s)) /\ r \notin CountedOn(d, s)
        /\ requests[d][s] = Cardinality(CountedOn(d, s))
    <3>1. CountedOn(d, s) \subseteq Request
      BY DEF CountedOn, Counts
    <3>2. d # None
      BY ConstantsAssumption DEF Day
    <3>3. r \notin CountedOn(d, s)
      BY <3>2 DEF CountedOn
    <3> QED
      BY <3>1, <3>3, ConstantsAssumption, FS_Subset DEF RowsCount
  <2>1. CASE d = a /\ s \in mine
    <3>1. CountedOn(d, s)' = CountedOn(d, s) \union {r}
      BY <1>3, <2>1 DEF CountedOn, Counts, TypeOK
    <3> QED
      <4>1. Cardinality(CountedOn(d, s) \union {r}) = Cardinality(CountedOn(d, s)) + 1
        BY <2>0, FS_AddElement
      <4>2. requests'[d][s] = requests[d][s] + 1
        BY <1>2, <2>1
      <4> QED
        BY <2>0, <3>1, <4>1, <4>2
  <2>2. CASE ~ (d = a /\ s \in mine)
    <3>1. CountedOn(d, s)' = CountedOn(d, s)
      BY <1>3, <1>4, <2>0, <2>2 DEF CountedOn, Counts, TypeOK
    <3> QED
      BY <1>2, <2>0, <2>2, <3>1
  <2> QED
    BY <2>1, <2>2
<1>6. /\ ~ Exceeds(requests[a][Global] + 1, GlobalLimit)
      /\ ~ Exceeds(requests[a][IpOf[r]] + 1, IpLimit)
  BY DEF Over, GlobalOver, IpOver, a
<1>7. WithinLimits'
  <2>1. ASSUME NEW d \in Day PROVE ~ Exceeds(requests'[d][Global], GlobalLimit)
    BY <1>1, <1>2, <1>6 DEF WithinLimits
  <2>2. ASSUME NEW d \in Day, NEW i \in Ip PROVE ~ Exceeds(requests'[d][i], IpLimit)
    <3>1. i \in Scope /\ i # Global
      BY <1>1 DEF Scope
    <3> QED
      BY <1>2, <1>6, <3>1 DEF WithinLimits
  <2> QED
    BY <2>1, <2>2 DEF WithinLimits, Exceeds
<1> QED
  BY <1>5, <1>7 DEF RowsCount

LEMMA SameRows ==
    ASSUME RowsCount, WithinLimits, UNCHANGED <<requests, counted>>
    PROVE  RowsCount' /\ WithinLimits'
BY DEF RowsCount, WithinLimits, CountedOn, Counts, Exceeds

\* A denied request costs nobody anything; a served one was counted.
LEMMA CountedStep == TypeOK /\ Counted /\ TypeOK' /\ [Next]_vars => Counted'
<1> SUFFICES ASSUME TypeOK, Counted, TypeOK', [Next]_vars PROVE Counted'
  OBVIOUS
<1> USE ConstantsAssumption DEF Counted, CountedWhenServed
<1>1. ASSUME NEW r \in Request, Arrive(r) PROVE Counted'
  BY <1>1, SameRows DEF Arrive, TypeOK, Goto, OnSession, budget, sessions
<1>2. ASSUME NEW r \in Request, Admit(r) PROVE Counted'
  <2>1. /\ counted[r] = None /\ ~ Over(r) /\ Count(r) /\ asked[r] \in Day
        /\ pc'[r] = "reserved" /\ \A q \in Request \ {r} : pc'[q] = pc[q]
        /\ counted'[r] = asked[r] /\ \A q \in Request \ {r} : counted'[q] = counted[q]
    BY <1>2 DEF Admit, Goto, TypeOK, Count
  <2>2. RowsCount' /\ WithinLimits'
    BY <2>1, CountKeepsRows
  <2>3. asked[r] # None
    BY <2>1 DEF Day
  <2> QED
    BY <2>1, <2>2, <2>3
<1>3. ASSUME NEW r \in Request, Deny(r) PROVE Counted'
  BY <1>3, SameRows, OthersStay DEF Deny, OnSession, budget
<1>4. ASSUME NEW r \in Request, Unavailable(r) PROVE Counted'
  BY <1>4, SameRows, OthersStay, CountKeepsRows DEF Unavailable, OnSession, Count, TypeOK
<1>5. ASSUME NEW r \in Request, Open(r) PROVE Counted'
  BY <1>5, SameRows DEF Open, TypeOK, Goto, OnSession, budget, sessions
<1>6. ASSUME NEW r \in Request, Start(r) PROVE Counted'
  BY <1>6, SameRows DEF Start, TypeOK, Goto, OnSession, budget, sessions
<1>7. ASSUME NEW r \in Request, UseTool(r) PROVE Counted'
  BY <1>7, SameRows DEF UseTool, TypeOK, Goto, OnSession, budget, sessions
<1>8. ASSUME NEW r \in Request, Answer(r) PROVE Counted'
  BY <1>8, SameRows DEF Answer, TypeOK, Goto, OnSession, budget, sessions
<1>9. ASSUME NEW r \in Request, FallBack(r) PROVE Counted'
  BY <1>9, SameRows DEF FallBack, TypeOK, Goto, OnSession, budget, sessions
<1>10. ASSUME NEW r \in Request, Fail(r) PROVE Counted'
  BY <1>10, SameRows, OthersStay DEF Fail, Leave, OnSession, budget
<1>11. ASSUME NEW r \in Request, Record(r) PROVE Counted'
  BY <1>11, SameRows, OthersStay DEF Record, Leave, OnSession
<1>12. ASSUME NEW r \in Request, Disconnect(r) PROVE Counted'
  BY <1>12, SameRows, OthersStay DEF Disconnect, Leave, OnSession, budget
<1>13. ASSUME NEW s \in Session, Expire(s) PROVE Counted'
  BY <1>13, SameRows DEF Expire, TypeOK, Goto, OnSession, budget, sessions
<1>14. ASSUME Midnight PROVE Counted'
  BY <1>14, SameRows DEF Midnight, TypeOK, Goto, OnSession, budget, sessions
<1>15. ASSUME UNCHANGED vars PROVE Counted'
  BY <1>15, SameRows DEF vars
<1> QED
  BY <1>1, <1>2, <1>3, <1>4, <1>5, <1>6, <1>7, <1>8, <1>9, <1>10, <1>11, <1>12, <1>13, <1>14, <1>15 DEF Next, Serve, Reserve, Run

-----------------------------------------------------------------------------
\* Requests that may still add to the tokens of day d: those in flight, except
\* the ones that read day d or a later day and are not admitted yet or not
\* concerned with d.
Pending(d) ==
    {r \in Request : /\ pc[r] \in Serving
                     /\ asked[r] <= d
                     /\ ~ (pc[r] = "asking" /\ asked[r] = d)}
InService == {r \in Request : pc[r] \in Serving}

Clock ==
    /\ \A r \in Request : asked[r] <= day
    /\ \A d \in Day : d > day => tokens[d] = 0
ServiceBound == Cardinality(InService) <= InFlight
\* Once the cap is reached, what the pending requests may still cost is set aside.
SetAside(d) ==
    tokens[d] + MaxCost * Cardinality(Pending(d)) < TokenCap + MaxCost * InFlight
Reached(d) == tokens[d] < TokenCap \/ SetAside(d)
Spending == TokenCap > 0 => \A d \in Day : Reached(d)

LEMMA FiniteService ==
    /\ IsFiniteSet(InService)
    /\ Cardinality(InService) \in Nat
    /\ \A d : /\ IsFiniteSet(Pending(d))
             /\ Cardinality(Pending(d)) \in Nat
             /\ Cardinality(Pending(d)) <= Cardinality(InService)
<1>1. InService \subseteq Request /\ \A d : Pending(d) \subseteq InService
  BY DEF InService, Pending
<1>2. IsFiniteSet(InService)
  BY <1>1, ConstantsAssumption, FS_Subset
<1> QED
  BY <1>1, <1>2, FS_Subset, FS_CardinalityType

LEMMA ClockStep == TypeOK /\ Clock /\ TypeOK' /\ [Next]_vars => Clock'
<1> SUFFICES ASSUME TypeOK, Clock, TypeOK', [Next]_vars PROVE Clock'
  OBVIOUS
<1> USE ConstantsAssumption DEF Clock
<1>1. ASSUME NEW r \in Request, Arrive(r) PROVE Clock'
  BY <1>1 DEF Arrive, TypeOK, Goto, budget, sessions, Day
<1>2. ASSUME NEW r \in Request, Admit(r) PROVE Clock'
  BY <1>2 DEF Admit, TypeOK, Goto, budget, sessions, Day
<1>3. ASSUME NEW r \in Request, Deny(r) PROVE Clock'
  BY <1>3, OthersStay DEF Deny, budget, End, TypeOK, Day
<1>4. ASSUME NEW r \in Request, Unavailable(r) PROVE Clock'
  BY <1>4, OthersStay DEF Unavailable, End, TypeOK, Day
<1>5. ASSUME NEW r \in Request, Open(r) PROVE Clock'
  BY <1>5 DEF Open, TypeOK, Goto, budget, sessions, Day
<1>6. ASSUME NEW r \in Request, Start(r) PROVE Clock'
  BY <1>6 DEF Start, TypeOK, Goto, budget, sessions, Day
<1>7. ASSUME NEW r \in Request, UseTool(r) PROVE Clock'
  BY <1>7 DEF UseTool, TypeOK, Goto, budget, sessions, Day
<1>8. ASSUME NEW r \in Request, Answer(r) PROVE Clock'
  <2>1. \A q \in Request : asked'[q] \in {asked[q], day} /\ day \in Int
    BY <1>8 DEF Answer, TypeOK, Day
  <2> QED
    BY <1>8, <2>1 DEF Answer, budget
<1>9. ASSUME NEW r \in Request, FallBack(r) PROVE Clock'
  BY <1>9 DEF FallBack, TypeOK, Goto, budget, sessions, Day
<1>10. ASSUME NEW r \in Request, Fail(r) PROVE Clock'
  BY <1>10, OthersStay DEF Fail, Leave, budget, End, TypeOK, Day
<1>11. ASSUME NEW r \in Request, Record(r) PROVE Clock'
  <2>1. \A q \in Request : asked'[q] <= day'
    BY <1>11, OthersStay DEF Record, Leave, End, TypeOK, Day
  <2>2. ASSUME NEW d \in asked[r] .. day, NEW cost \in 0 .. MaxCost,
               tokens' = [tokens EXCEPT ![d] = @ + cost]
        PROVE  \A e \in Day : e > day => tokens'[e] = 0
    <3>1. \A e \in Day : e > day => e # d
      BY DEF TypeOK, Day
    <3> QED
      BY <2>2, <3>1 DEF TypeOK
  <2> QED
    BY <1>11, <2>1, <2>2 DEF Record
<1>12. ASSUME NEW r \in Request, Disconnect(r) PROVE Clock'
  BY <1>12, OthersStay DEF Disconnect, Leave, budget, End, TypeOK, Day
<1>13. ASSUME NEW s \in Session, Expire(s) PROVE Clock'
  BY <1>13 DEF Expire, TypeOK, Goto, budget, sessions, Day
<1>14. ASSUME Midnight PROVE Clock'
  BY <1>14 DEF Midnight, TypeOK, Day, sessions
<1>15. ASSUME UNCHANGED vars PROVE Clock'
  BY <1>15 DEF vars
<1> QED
  BY <1>1, <1>2, <1>3, <1>4, <1>5, <1>6, <1>7, <1>8, <1>9, <1>10, <1>11, <1>12, <1>13, <1>14, <1>15 DEF Next, Serve, Reserve, Run

\* Requests that are not served any more leave room for others.
LEMMA ServiceShrinks ==
    ASSUME ServiceBound, InService' \subseteq InService
    PROVE  ServiceBound'
<1>1. /\ IsFiniteSet(InService) /\ Cardinality(InService) \in Nat
      /\ Cardinality(InService') <= Cardinality(InService)
      /\ Cardinality(InService') \in Nat
  BY FiniteService, FS_Subset, FS_CardinalityType
<1> QED
  BY <1>1, ConstantsAssumption DEF ServiceBound

LEMMA ServiceStep == TypeOK /\ ServiceBound /\ TypeOK' /\ [Next]_vars => ServiceBound'
<1> SUFFICES ASSUME TypeOK, ServiceBound, TypeOK', [Next]_vars PROVE ServiceBound'
  OBVIOUS
<1> USE ConstantsAssumption DEF Serving, OnSession
<1>1. ASSUME NEW r \in Request, Arrive(r) PROVE ServiceBound'
  <2>1. Cardinality(InService) < InFlight /\ r \notin InService
    BY <1>1 DEF Arrive, InService, Serving, OnSession
  <2>2. InService' = InService \union {r}
    BY <1>1 DEF Arrive, InService, Serving, Goto, TypeOK
  <2>3. Cardinality(InService') = Cardinality(InService) + 1
    BY <2>1, <2>2, FiniteService, FS_AddElement
  <2> QED
    BY <2>1, <2>3, FiniteService DEF ServiceBound
<1>2. ASSUME NEW r \in Request, Admit(r) PROVE ServiceBound'
  BY <1>2, ServiceShrinks DEF Admit, InService, TypeOK, Goto, sessions
<1>3. ASSUME NEW r \in Request, Deny(r) PROVE ServiceBound'
  BY <1>3, ServiceShrinks, OthersStay DEF Deny, InService
<1>4. ASSUME NEW r \in Request, Unavailable(r) PROVE ServiceBound'
  BY <1>4, ServiceShrinks, OthersStay DEF Unavailable, InService
<1>5. ASSUME NEW r \in Request, Open(r) PROVE ServiceBound'
  BY <1>5, ServiceShrinks DEF Open, InService, TypeOK, Goto, sessions
<1>6. ASSUME NEW r \in Request, Start(r) PROVE ServiceBound'
  BY <1>6, ServiceShrinks DEF Start, InService, TypeOK, Goto, sessions
<1>7. ASSUME NEW r \in Request, UseTool(r) PROVE ServiceBound'
  BY <1>7, ServiceShrinks DEF UseTool, InService, TypeOK, Goto, sessions
<1>8. ASSUME NEW r \in Request, Answer(r) PROVE ServiceBound'
  BY <1>8, ServiceShrinks DEF Answer, InService, TypeOK, Goto, sessions
<1>9. ASSUME NEW r \in Request, FallBack(r) PROVE ServiceBound'
  BY <1>9, ServiceShrinks DEF FallBack, InService, TypeOK, Goto, sessions
<1>10. ASSUME NEW r \in Request, Fail(r) PROVE ServiceBound'
  BY <1>10, ServiceShrinks, OthersStay DEF Fail, Leave, InService
<1>11. ASSUME NEW r \in Request, Record(r) PROVE ServiceBound'
  BY <1>11, ServiceShrinks, OthersStay DEF Record, Leave, InService
<1>12. ASSUME NEW r \in Request, Disconnect(r) PROVE ServiceBound'
  BY <1>12, ServiceShrinks, OthersStay DEF Disconnect, Leave, InService
<1>13. ASSUME NEW s \in Session, Expire(s) PROVE ServiceBound'
  BY <1>13, ServiceShrinks DEF Expire, InService, TypeOK, Goto, sessions
<1>14. ASSUME Midnight PROVE ServiceBound'
  BY <1>14, ServiceShrinks DEF Midnight, InService, TypeOK, Goto, sessions
<1>15. ASSUME UNCHANGED vars PROVE ServiceBound'
  BY <1>15, ServiceShrinks DEF vars, InService
<1> QED
  BY <1>1, <1>2, <1>3, <1>4, <1>5, <1>6, <1>7, <1>8, <1>9, <1>10, <1>11, <1>12, <1>13, <1>14, <1>15 DEF Next, Serve, Reserve, Run

LEMMA TimesMonotone ==
    ASSUME NEW k \in Nat, NEW x \in Nat, NEW y \in Nat, x <= y
    PROVE  k * x \in Nat /\ k * y \in Nat /\ k * x <= k * y
OBVIOUS

LEMMA TimesSuccessor ==
    ASSUME NEW k \in Nat, NEW x \in Nat
    PROVE  k * (x + 1) = k * x + k /\ k * x \in Nat /\ k * (x + 1) \in Nat
OBVIOUS

\* A day on which nothing is recorded and nobody becomes pending.
LEMMA QuietDay ==
    ASSUME NEW d \in Day, TypeOK, TypeOK', Reached(d), tokens'[d] = tokens[d],
           Pending(d)' \subseteq Pending(d)
    PROVE  Reached(d)'
<1>1. /\ Cardinality(Pending(d)) \in Nat /\ Cardinality(Pending(d)') \in Nat
      /\ Cardinality(Pending(d)') <= Cardinality(Pending(d))
  BY FiniteService, FS_Subset, FS_CardinalityType
<1>2. /\ MaxCost * Cardinality(Pending(d)') <= MaxCost * Cardinality(Pending(d))
      /\ MaxCost * Cardinality(Pending(d)') \in Nat
      /\ MaxCost * Cardinality(Pending(d)) \in Nat
  BY <1>1, TimesMonotone, ConstantsAssumption
<1>3. tokens[d] \in Nat /\ TokenCap \in Nat /\ MaxCost \in Nat /\ InFlight \in Nat
  BY ConstantsAssumption DEF TypeOK
<1>4. MaxCost * InFlight \in Nat
  BY <1>3
<1> DEFINE x == MaxCost * Cardinality(Pending(d)')
           y == MaxCost * Cardinality(Pending(d))
           z == MaxCost * InFlight
<1>5. /\ tokens[d] < TokenCap \/ tokens[d] + y < TokenCap + z
      /\ x <= y /\ x \in Nat /\ y \in Nat /\ z \in Nat
  BY <1>2, <1>4 DEF Reached, SetAside
<1> HIDE DEF x, y, z
<1>6. tokens[d] < TokenCap \/ tokens[d] + x < TokenCap + z
  BY <1>3, <1>5
<1> QED
  BY <1>6 DEF Reached, SetAside, x, z

\* A turn records what it cost, and is not pending any more.
LEMMA Billing ==
    ASSUME NEW d \in Day, TypeOK, TypeOK', ServiceBound, Reached(d), NEW r \in Pending(d),
           NEW cost \in 0 .. MaxCost, tokens'[d] = tokens[d] + cost,
           Pending(d)' = Pending(d) \ {r}
    PROVE  Reached(d)'
<1> DEFINE n == Cardinality(Pending(d)')
<1>1. /\ n \in Nat /\ Cardinality(Pending(d)) = n + 1
  <2>1. IsFiniteSet(Pending(d)')
    BY FiniteService, FS_Subset
  <2>2. Pending(d) = Pending(d)' \union {r} /\ r \notin Pending(d)'
    OBVIOUS
  <2> QED
    BY <2>1, <2>2, FS_AddElement, FS_CardinalityType
<1>2. n + 1 <= InFlight /\ InFlight \in Nat
  BY <1>1, FiniteService, ConstantsAssumption DEF ServiceBound
<1>3. tokens[d] \in Nat /\ TokenCap \in Nat /\ MaxCost \in Nat /\ cost \in Nat /\ cost <= MaxCost
  BY ConstantsAssumption DEF TypeOK
<1> HIDE DEF n
<1>4. /\ MaxCost * (n + 1) = MaxCost * n + MaxCost /\ MaxCost * n \in Nat
      /\ MaxCost * (n + 1) <= MaxCost * InFlight
      /\ MaxCost * InFlight \in Nat
  <2>1. MaxCost \in Nat /\ n \in Nat /\ n + 1 \in Nat
    BY <1>1, ConstantsAssumption
  <2>2. MaxCost * (n + 1) <= MaxCost * InFlight /\ MaxCost * InFlight \in Nat
    BY <1>2, <2>1, TimesMonotone
  <2> QED
    BY <2>1, <2>2, TimesSuccessor
<1> DEFINE x == MaxCost * n
           z == MaxCost * InFlight
<1>5. /\ tokens[d] < TokenCap \/ tokens[d] + (x + MaxCost) < TokenCap + z
      /\ x + MaxCost <= z /\ x \in Nat /\ z \in Nat
  BY <1>1, <1>4 DEF Reached, SetAside
<1> HIDE DEF x, z
<1>6. tokens[d] + cost + x < TokenCap + z
  BY <1>3, <1>5
<1> QED
  BY <1>6 DEF Reached, SetAside, x, z, n

LEMMA SpendStep ==
    TypeOK /\ Clock /\ ServiceBound /\ Spending /\ TypeOK' /\ [Next]_vars => Spending'
<1> SUFFICES ASSUME TypeOK, Clock, ServiceBound, TypeOK', [Next]_vars,
                    TokenCap > 0, NEW d \in Day, Reached(d)
             PROVE  Reached(d)'
  BY DEF Spending
<1> USE ConstantsAssumption DEF Serving, OnSession
<1>1. ASSUME NEW r \in Request, Arrive(r) PROVE Reached(d)'
  <2>1. CASE d > day
    BY <1>1, <2>1 DEF Arrive, Clock, Reached, budget
  <2>2. CASE ~ (d > day)
    <3>1. /\ pc[r] = "new" /\ pc'[r] = "asking" /\ asked'[r] = day
          /\ d \in Int /\ day \in Int /\ d <= day
          /\ \A q \in Request \ {r} : pc'[q] = pc[q] /\ asked'[q] = asked[q]
      BY <1>1, <2>2 DEF Arrive, TypeOK, Goto, Day
    <3>2. Pending(d)' \subseteq Pending(d)
      BY <3>1 DEF Pending
    <3> QED
      BY <1>1, <3>2, QuietDay DEF Arrive, budget
  <2> QED
    BY <2>1, <2>2
<1>2. ASSUME NEW r \in Request, Admit(r) PROVE Reached(d)'
  <2>1. CASE asked[r] = d
    <3>1. ~ (tokens[d] >= TokenCap) /\ tokens' = tokens
      BY <1>2, <2>1 DEF Admit, Over, GlobalOver
    <3>2. tokens[d] \in Nat
      BY DEF TypeOK
    <3> QED
      BY <3>1, <3>2 DEF Reached
  <2>2. CASE asked[r] # d
    BY <1>2, <2>2, QuietDay DEF Admit, Pending, TypeOK, Goto, sessions
  <2> QED
    BY <2>1, <2>2
<1>3. ASSUME NEW r \in Request, Deny(r) PROVE Reached(d)'
  BY <1>3, QuietDay, OthersStay DEF Deny, budget, Pending
<1>4. ASSUME NEW r \in Request, Unavailable(r) PROVE Reached(d)'
  BY <1>4, QuietDay, OthersStay DEF Unavailable, Pending
<1>5. ASSUME NEW r \in Request, Open(r) PROVE Reached(d)'
  BY <1>5, QuietDay DEF Open, Pending, TypeOK, Goto, budget, sessions
<1>6. ASSUME NEW r \in Request, Start(r) PROVE Reached(d)'
  BY <1>6, QuietDay DEF Start, Pending, TypeOK, Goto, budget, sessions
<1>7. ASSUME NEW r \in Request, UseTool(r) PROVE Reached(d)'
  BY <1>7, QuietDay DEF UseTool, Pending, TypeOK, Goto, budget, sessions
<1>8. ASSUME NEW r \in Request, Answer(r) PROVE Reached(d)'
  <2>1. asked[r] <= day /\ asked'[r] = day /\ pc[r] = "running" /\ pc'[r] = "recording"
        /\ asked[r] \in Int /\ day \in Int /\ d \in Int
    BY <1>8 DEF Answer, Clock, TypeOK, Day, Goto
  <2>2. \A q \in Request \ {r} : pc'[q] = pc[q] /\ asked'[q] = asked[q]
    BY <1>8 DEF Answer, TypeOK, Goto
  <2>3. Pending(d)' \subseteq Pending(d)
    BY <2>1, <2>2 DEF Pending
  <2> QED
    BY <1>8, <2>3, QuietDay DEF Answer, budget
<1>9. ASSUME NEW r \in Request, FallBack(r) PROVE Reached(d)'
  BY <1>9, QuietDay DEF FallBack, Pending, TypeOK, Goto, budget, sessions
<1>10. ASSUME NEW r \in Request, Fail(r) PROVE Reached(d)'
  BY <1>10, QuietDay, OthersStay DEF Fail, Leave, budget, Pending
<1>11. ASSUME NEW r \in Request, Record(r) PROVE Reached(d)'
  <2>1. /\ r \notin Pending(d)' /\ Pending(d)' = Pending(d) \ {r}
    BY <1>11, OthersStay DEF Record, Leave, Pending
  <2>2. ASSUME NEW e \in asked[r] .. day, NEW cost \in 0 .. MaxCost,
               tokens' = [tokens EXCEPT ![e] = @ + cost]
        PROVE  Reached(d)'
    <3>1. CASE d = e
      <4>1. r \in Pending(d)
        BY <1>11, <3>1 DEF Record, Pending, TypeOK, Day
      <4> QED
        BY <2>1, <2>2, <3>1, <4>1, Billing DEF TypeOK
    <3>2. CASE d # e
      BY <2>1, <2>2, <3>2, QuietDay DEF TypeOK
    <3> QED
      BY <3>1, <3>2
  <2> QED
    BY <1>11, <2>1, <2>2, QuietDay DEF Record
<1>12. ASSUME NEW r \in Request, Disconnect(r) PROVE Reached(d)'
  BY <1>12, QuietDay, OthersStay DEF Disconnect, Leave, budget, Pending
<1>13. ASSUME NEW s \in Session, Expire(s) PROVE Reached(d)'
  BY <1>13, QuietDay DEF Expire, Pending, TypeOK, Goto, budget, sessions
<1>14. ASSUME Midnight PROVE Reached(d)'
  BY <1>14, QuietDay DEF Midnight, Pending, TypeOK, Goto, budget, sessions
<1>15. ASSUME UNCHANGED vars PROVE Reached(d)'
  BY <1>15, QuietDay DEF vars, Pending
<1> QED
  BY <1>1, <1>2, <1>3, <1>4, <1>5, <1>6, <1>7, <1>8, <1>9, <1>10, <1>11, <1>12, <1>13, <1>14, <1>15 DEF Next, Serve, Reserve, Run

-----------------------------------------------------------------------------
LEMMA TypeInit == Init => TypeOK
<1>1. 0 \in Day /\ 1 \in 1 .. Models /\ "new" \in PC /\ <<>> \in Seq(Request)
  BY ConstantsAssumption DEF Day, PC
<1> QED
  BY <1>1 DEF Init, TypeOK

\* Every reachable state is well typed.  (CopilotChat)
THEOREM TypeCorrect == Spec => []TypeOK
BY TypeInit, TypeStep, PTL DEF Spec

IInv ==
    /\ TypeOK
    /\ Locking
    /\ BaseIsCurrent
    /\ Acquainted
    /\ OwnContext
    /\ Counted
    /\ Clock
    /\ ServiceBound
    /\ Spending

LEMMA IInvInit == Init => IInv
<1> SUFFICES ASSUME Init PROVE IInv
  OBVIOUS
<1>1. TypeOK
  BY TypeInit
<1>2. Locking /\ BaseIsCurrent /\ Acquainted /\ OwnContext
  BY ConstantsAssumption DEF Init, Locking, Inside, BaseIsCurrent, Acquainted, OwnContext, OnSession
<1>3. InService = {}
  BY DEF Init, InService, Serving, OnSession
<1>4. ServiceBound
  BY <1>3, FS_EmptySet, ConstantsAssumption DEF ServiceBound
<1>5. Clock
  BY <1>1 DEF Init, Clock, Day, TypeOK
<1>6. Spending
  BY DEF Init, Spending, Reached
<1>7. \A d \in Day, s \in Scope : CountedOn(d, s) = {}
  BY ConstantsAssumption DEF Init, CountedOn, Counts, Day
<1>8. RowsCount
  BY <1>7, FS_EmptySet DEF Init, RowsCount
<1>9. WithinLimits
  BY ConstantsAssumption DEF Init, WithinLimits, Exceeds, Scope, Global
<1>10. CountedWhenServed
  BY DEF Init, CountedWhenServed, OnSession
<1> QED
  BY <1>1, <1>2, <1>4, <1>5, <1>6, <1>8, <1>9, <1>10 DEF IInv, Counted

LEMMA IInvStep == IInv /\ [Next]_vars => IInv'
BY TypeStep, LockingStep, BaseStep, AcquaintedStep, ContextStep, CountedStep,
   ClockStep, ServiceStep, SpendStep DEF IInv

LEMMA Invariance == Spec => []IInv
BY IInvInit, IInvStep, PTL DEF Spec

\* The counters hold exactly the requests they were spent on and exceed no
\* limit, for any number of instances and requests.  (reserve)
THEOREM AdmissionsCounted == Spec => []AdmissionsAreCounted
<1>1. IInv => AdmissionsAreCounted
  BY DEF IInv, AdmissionsAreCounted, Counted, RowsCount, WithinLimits, CountedWhenServed
<1> QED
  BY <1>1, Invariance, PTL

\* The tokens recorded on a day pass the cap by less than what the requests in
\* flight cost.  (reserve, record_tokens)
THEOREM SpendBounded == Spec => []SpendIsBounded
<1>1. IInv => SpendIsBounded
  <2> SUFFICES ASSUME IInv, TokenCap > 0, NEW d \in Day
               PROVE  tokens[d] < TokenCap + MaxCost * InFlight
    BY DEF SpendIsBounded
  <2>1. Reached(d) /\ tokens[d] \in Nat
    BY DEF IInv, Spending, TypeOK
  <2>2. /\ MaxCost * InFlight \in Nat /\ TokenCap \in Nat
        /\ MaxCost * Cardinality(Pending(d)) \in Nat
    BY FiniteService, ConstantsAssumption, TimesSuccessor
  <2> DEFINE x == MaxCost * Cardinality(Pending(d))
             z == MaxCost * InFlight
  <2>3. x \in Nat /\ z \in Nat /\ (tokens[d] < TokenCap \/ tokens[d] + x < TokenCap + z)
    BY <2>1, <2>2 DEF Reached, SetAside
  <2> HIDE DEF x, z
  <2>4. tokens[d] < TokenCap + z
    BY <2>1, <2>2, <2>3
  <2> QED
    BY <2>4 DEF z
<1> QED
  BY <1>1, Invariance, PTL

\* A turn finds in its session, in every field its selection speaks of and in the
\* date if it is a chat, only what it put there or what a turn that overlaps it did;
\* the fields its selection leaves alone are not claimed.
\* (_begin_turn, _apply_context, _update_session)
THEOREM TurnContextOwn == Spec => []TurnContextIsItsOwn
<1>1. IInv => TurnContextIsItsOwn
  BY DEF IInv, OwnContext, Explained, OnSession, TurnContextIsItsOwn
<1> QED
  BY <1>1, Invariance, PTL

\* No turn overwrites what another one added to the history.  (session.lock)
THEOREM HistoryKept == Spec => HistoryIsNotOverwritten
<1>1. IInv /\ [Next]_vars =>
        [\A o \in Request : history'[o] # history[o] =>
            \E r \in Request : pc[r] = "running" /\ Extends(o, r)]_vars
  BY HistoryStep DEF IInv
<1> QED
  BY <1>1, Invariance, PTL DEF Spec, HistoryIsNotOverwritten

\* A turn that ends, fails, falls back or is cancelled leaves no lock behind: who waits
\* for a session that is taken waits for a turn that is running or recording on it.
THEOREM NoLockIsOrphaned ==
    Spec => [](\A r \in Request : pc[r] = "waiting" /\ holder[object[r]] # None =>
                  \E q \in Request : /\ pc[q] \in {"running", "recording"}
                                     /\ object[q] = object[r] /\ holder[object[r]] = q)
<1>1. ASSUME IInv, NEW r \in Request, holder[object[r]] # None
      PROVE  \E q \in Request : /\ pc[q] \in {"running", "recording"}
                                /\ object[q] = object[r] /\ holder[object[r]] = q
  <2>1. object[r] \in Request /\ holder[object[r]] \in Request
    BY <1>1 DEF IInv, TypeOK
  <2> QED BY <1>1, <2>1 DEF IInv, Locking, Inside
<1> DEFINE I == \A r \in Request : pc[r] = "waiting" /\ holder[object[r]] # None =>
                   \E q \in Request : /\ pc[q] \in {"running", "recording"}
                                      /\ object[q] = object[r] /\ holder[object[r]] = q
<1>2. IInv => I
  BY <1>1
<1> HIDE DEF I
<1>3. Spec => []I
  BY <1>2, Invariance, PTL
<1> QED BY <1>3 DEF I
=============================================================================
