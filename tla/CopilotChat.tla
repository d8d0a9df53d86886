----------------------------- MODULE CopilotChat -----------------------------
(***************************************************************************)
(* A turn of the public copilot, from its reservation to its last token    *)
(* (apps/api/app/routers/copilot.py over services/copilot/budget.py and    *)
(* context.py): the daily counters of ops.copilot_usage, which all         *)
(* instances share, and the sessions an instance keeps in memory, each     *)
(* with its asyncio.Lock, its history and the context -- the client's      *)
(* selection, the focus, a past date -- its turns leave behind.             *)
(*                                                                         *)
(* Coroutines run one at a time and change over at an await, so what the   *)
(* code does between two awaits is one action.  A reservation is one       *)
(* transaction that holds the row of the global scope until it commits.    *)
(***************************************************************************)
EXTENDS Integers, FiniteSets, Sequences

CONSTANTS
    Request,        \* requests, each with the task that serves it
    Ip,             \* client addresses
    IpOf,           \* IpOf[r]: the address r comes from
    Session,        \* session ids, each with the instance that serves it
    SessionOf,      \* SessionOf[r]: the session r names
    Briefing,       \* requests to /copilot/briefing; the others are chats
    Place,          \* Place[r]: what r's SelectionContext is about; one of Places
    Tools,          \* for each tool, the context fields it may write
    GlobalLimit,    \* COPILOT_GLOBAL_DAILY_REQUESTS, 0 for none
    IpLimit,        \* COPILOT_IP_DAILY_LIMIT, 0 for none
    TokenCap,       \* COPILOT_GLOBAL_DAILY_TOKENS, 0 for none
    MaxCost,        \* most tokens one completed run reports
    InFlight,       \* requests all instances serve at a time
    Models,         \* length of MODEL_FALLBACK_CHAIN
    MaxHistory,     \* MAX_HISTORY, in turns
    LastDay,        \* days that are followed
    None

\* What a SelectionContext can be: none is sent; the whole country; a city; a
\* station, with or without its name; or a location the session cannot use.
Places == {"none", "national", "city", "station", "nameless", "unusable"}
\* What a session tells the next prompt.  "view" is the part a SelectionContext
\* always replaces: model, pollutant, tz and active_layers.
Fields == {"view", "focus_type", "city", "station", "station_name", "date"}
\* _update_session writes no view and no focused_station_name.
ToolFields == {"focus_type", "city", "station", "date"}

ASSUME ConstantsAssumption ==
    /\ IsFiniteSet(Request)
    /\ IpOf \in [Request -> Ip]
    /\ SessionOf \in [Request -> Session]
    /\ Briefing \subseteq Request
    /\ Place \in [Request -> Places]
    /\ Tools \subseteq SUBSET ToolFields
    /\ GlobalLimit \in Nat
    /\ IpLimit \in Nat
    /\ TokenCap \in Nat
    /\ MaxCost \in Nat
    /\ InFlight \in Nat
    /\ Models \in Nat \ {0}
    /\ MaxHistory \in Nat \ {0}
    /\ LastDay \in Nat
    /\ None \notin Request
    /\ None \notin Ip
    /\ None \notin 0 .. LastDay

VARIABLES
    day,        \* the UTC date
    requests,   \* requests[d][s]: the row of day d and scope s; 0 for no row
    tokens,     \* tokens[d]: its tokens in the global scope
    pc,         \* where a request stands
    asked,      \* the date its last _today() can have returned
    attempt,    \* models it has tried
    counted,    \* ghost: the day whose counters hold it, None for none
    store,      \* store[s]: the session object an instance holds for s
    object,     \* the session object r works on
    holder,     \* holder[o]: the request inside `async with session.lock`
    base,       \* the message_history its run was started with
    history,    \* history[o]: the turns of message_history
    context,    \* context[o][f]: whose turn set field f of the session
    met         \* ghost: requests that shared its session while both ran

\* A session object is named by the request that created it.
budget == <<day, requests, tokens, counted>>
sessions == <<store, object, holder, base, history, context, met>>
vars == <<day, requests, tokens, pc, asked, attempt, counted, store, object,
          holder, base, history, context, met>>

Day == 0 .. LastDay
Global == None
Scope == Ip \union {Global}
PC == {"new", "asking", "reserved", "waiting", "running", "recording", "ended"}
OnSession == {"waiting", "running", "recording"}
Serving == {"asking", "reserved"} \union OnSession

TypeOK ==
    /\ day \in Day
    /\ requests \in [Day -> [Scope -> Nat]]
    /\ tokens \in [Day -> Nat]
    /\ pc \in [Request -> PC]
    /\ asked \in [Request -> Day]
    /\ attempt \in [Request -> 1 .. Models]
    /\ counted \in [Request -> Day \union {None}]
    /\ store \in [Session -> Request \union {None}]
    /\ object \in [Request -> Request]
    /\ holder \in [Request -> Request \union {None}]
    /\ base \in [Request -> Seq(Request)]
    /\ history \in [Request -> Seq(Request)]
    /\ context \in [Request -> [Fields -> Request \union {None}]]
    /\ met \in [Request -> SUBSET Request]

Init ==
    /\ day = 0
    /\ requests = [d \in Day |-> [s \in Scope |-> 0]]
    /\ tokens = [d \in Day |-> 0]
    /\ pc = [r \in Request |-> "new"]
    /\ asked = [r \in Request |-> 0]
    /\ attempt = [r \in Request |-> 1]
    /\ counted = [r \in Request |-> None]
    /\ store = [s \in Session |-> None]
    /\ object = [r \in Request |-> r]
    /\ holder = [r \in Request |-> None]
    /\ base = [r \in Request |-> <<>>]
    /\ history = [r \in Request |-> <<>>]
    /\ context = [r \in Request |-> [f \in Fields |-> None]]
    /\ met = [r \in Request |-> {}]

Goto(r, state) == pc' = [pc EXCEPT ![r] = state]
\* The task of r is over, and its locals are gone.
End(r) ==
    /\ Goto(r, "ended")
    /\ asked' = [asked EXCEPT ![r] = 0]
    /\ attempt' = [attempt EXCEPT ![r] = 1]
    /\ object' = [object EXCEPT ![r] = r]
    /\ base' = [base EXCEPT ![r] = <<>>]
    /\ met' = [met EXCEPT ![r] = {}]
Chat == Request \ Briefing

-----------------------------------------------------------------------------
\* The reservation.  Operators Name_Slip are seeded mistakes; no action uses
\* them.

\* _today() is read before the transaction: midnight may pass in between.
Arrive(r) ==
    /\ pc[r] = "new"
    /\ Cardinality({q \in Request : pc[q] \in Serving}) < InFlight
    /\ asked' = [asked EXCEPT ![r] = day]
    /\ Goto(r, "asking")
    /\ UNCHANGED <<budget, attempt, sessions>>

Exceeds(n, limit) == limit > 0 /\ n > limit

GlobalOver_SpendsTheCap(r) ==
    \/ Exceeds(requests[asked[r]][Global] + 1, GlobalLimit)
    \/ TokenCap > 0 /\ tokens[asked[r]] > TokenCap
GlobalOver(r) ==
    \/ Exceeds(requests[asked[r]][Global] + 1, GlobalLimit)
    \/ TokenCap > 0 /\ tokens[asked[r]] >= TokenCap
IpOver(r) == Exceeds(requests[asked[r]][IpOf[r]] + 1, IpLimit)
Over(r) == GlobalOver(r) \/ IpOver(r)

\* The committed transaction of an admitted request.
Count(r) ==
    /\ requests' = [requests EXCEPT ![asked[r]] =
                        [s \in Scope |-> IF s \in {Global, IpOf[r]} THEN @[s] + 1 ELSE @[s]]]
    /\ counted' = [counted EXCEPT ![r] = asked[r]]

Admit(r) ==
    /\ pc[r] = "asking"
    /\ ~ Over(r)
    /\ Count(r)
    /\ Goto(r, "reserved")
    /\ UNCHANGED <<day, tokens, asked, attempt, sessions>>

\* 429.  In the global scope the increment is undone and committed, in the
\* scope of the address the exception rolls both increments back.
Deny_KeepsGlobal(r) ==
    /\ pc[r] = "asking"
    /\ Over(r)
    /\ requests' = [requests EXCEPT ![asked[r]][Global] =
                        IF GlobalOver(r) THEN @ ELSE @ + 1]
    /\ End(r)
    /\ UNCHANGED <<day, tokens, counted, store, holder, history, context>>
Deny(r) ==
    /\ pc[r] = "asking"
    /\ Over(r)
    /\ End(r)
    /\ UNCHANGED <<budget, store, holder, history, context>>

\* 503: the database fails, or commits and loses its answer.
Unavailable(r) ==
    /\ pc[r] = "asking"
    /\ \/ UNCHANGED <<requests, counted>>
       \/ ~ Over(r) /\ Count(r)
    /\ End(r)
    /\ UNCHANGED <<day, tokens, store, holder, history, context>>

-----------------------------------------------------------------------------
\* The turn.

Sharing(o) == {q \in Request : pc[q] \in OnSession /\ object[q] = o}

\* _apply_context: the fields r's selection replaces.  The others stay as an
\* earlier turn left them: no selection clears a field, and only the view is
\* replaced by every one.
Copied(r) ==
    CASE Place[r] = "none" -> {}
      [] Place[r] = "unusable" -> {"view"}
      [] Place[r] = "national" -> {"view", "focus_type"}
      [] Place[r] = "city" -> {"view", "focus_type", "city"}
      [] Place[r] = "nameless" -> {"view", "focus_type", "station"}
      [] Place[r] = "station" -> {"view", "focus_type", "station", "station_name"}
\* _begin_turn: a chat forgets the date of the turn before, a briefing does not.
Cleared(r) == IF r \in Chat THEN {"date"} ELSE {}

\* The session is looked up or created, and prepared for the turn -- before the
\* lock.  object' is the session object, found in the store or created as r.
Open_WithoutNewTurn(r) ==
    /\ pc[r] = "reserved"
    /\ LET o == IF store[SessionOf[r]] = None THEN r ELSE store[SessionOf[r]]
       IN  /\ store' = [store EXCEPT ![SessionOf[r]] = o]
           /\ object' = [object EXCEPT ![r] = o]
           /\ context' = [context EXCEPT ![o] =
                              [f \in Fields |-> IF f \in Copied(r) THEN r ELSE @[f]]]
           /\ met' = [q \in Request |-> CASE q = r -> met[r] \union Sharing(o)
                                          [] q \in Sharing(o) -> met[q] \union {r}
                                          [] OTHER -> met[q]]
    /\ Goto(r, "waiting")
    /\ UNCHANGED <<budget, asked, attempt, holder, base, history>>
Open(r) ==
    /\ pc[r] = "reserved"
    /\ LET o == IF store[SessionOf[r]] = None THEN r ELSE store[SessionOf[r]]
       IN  /\ store' = [store EXCEPT ![SessionOf[r]] = o]
           /\ object' = [object EXCEPT ![r] = o]
           /\ context' = [context EXCEPT ![o] =
                              [f \in Fields |-> CASE f \in Copied(r) -> r
                                                  [] f \in Cleared(r) -> None
                                                  [] OTHER -> @[f]]]
           /\ met' = [q \in Request |-> CASE q = r -> met[r] \union Sharing(o)
                                          [] q \in Sharing(o) -> met[q] \union {r}
                                          [] OTHER -> met[q]]
    /\ Goto(r, "waiting")
    /\ UNCHANGED <<budget, asked, attempt, holder, base, history>>

\* The lock is taken and the run is started with the history of the session; a
\* briefing starts with none.
Start_Unlocked(r) ==
    /\ pc[r] = "waiting"
    /\ holder' = [holder EXCEPT ![object[r]] = r]
    /\ base' = [base EXCEPT ![r] = IF r \in Briefing THEN <<>> ELSE history[object[r]]]
    /\ Goto(r, "running")
    /\ UNCHANGED <<budget, asked, attempt, store, object, history, context, met>>
Start(r) ==
    /\ pc[r] = "waiting"
    /\ holder[object[r]] = None
    /\ holder' = [holder EXCEPT ![object[r]] = r]
    /\ base' = [base EXCEPT ![r] = IF r \in Briefing THEN <<>> ELSE history[object[r]]]
    /\ Goto(r, "running")
    /\ UNCHANGED <<budget, asked, attempt, store, object, history, context, met>>

\* _update_session: a tool moves the focus, or anchors the turn to a past date.
UseTool(r) ==
    /\ pc[r] = "running"
    /\ \E written \in Tools :
           context' = [context EXCEPT ![object[r]] =
                          [f \in Fields |-> IF f \in written THEN r ELSE @[f]]]
    /\ UNCHANGED <<budget, pc, asked, attempt, store, object, holder, base,
                   history, met>>

\* set_history keeps the most recent part of what the run started with and adds.
Recent(turns) ==
    SubSeq(turns, IF Len(turns) > MaxHistory THEN Len(turns) - MaxHistory + 1 ELSE 1,
           Len(turns))

\* The stream ends: history is replaced, and the usage is about to be recorded.
Answer(r) ==
    /\ pc[r] = "running"
    /\ history' = [history EXCEPT ![object[r]] = Recent(Append(base[r], r))]
    /\ asked' = [asked EXCEPT ![r] = day]
    /\ Goto(r, "recording")
    /\ UNCHANGED <<budget, attempt, store, object, holder, base, context, met>>

Released_OnlyAfterAnswer(r) ==
    IF pc[r] = "recording" THEN [holder EXCEPT ![object[r]] = None] ELSE holder
Released(r) ==
    IF holder[object[r]] = r THEN [holder EXCEPT ![object[r]] = None] ELSE holder

\* The task leaves the session, whose lock it gives back if it holds it.
Leave(r) ==
    /\ holder' = Released(r)
    /\ End(r)
    /\ UNCHANGED <<store, history, context>>

\* record_tokens, which reads the date anew; the UPDATE finds no row when
\* nobody reserved on that day, and an error is only logged.
Record(r) ==
    /\ pc[r] = "recording"
    /\ \/ \E d \in asked[r] .. day, cost \in 0 .. MaxCost :
              /\ requests[d][Global] > 0
              /\ tokens' = [tokens EXCEPT ![d] = @ + cost]
       \/ UNCHANGED tokens
    /\ Leave(r)
    /\ UNCHANGED <<day, requests, counted>>

\* A quota error, or a model that is gone: the lock is given back, and asked for
\* again with the next model of the chain.
FallBack(r) ==
    /\ pc[r] = "running"
    /\ attempt[r] < Models
    /\ attempt' = [attempt EXCEPT ![r] = @ + 1]
    /\ holder' = Released(r)
    /\ Goto(r, "waiting")
    /\ UNCHANGED <<budget, asked, store, object, base, history, context, met>>

\* The run fails: an error, or more data than RUN_LIMITS allows.
Fail(r) ==
    /\ pc[r] = "running"
    /\ Leave(r)
    /\ UNCHANGED budget

\* The client goes away; its task is cancelled, wherever it is on the session.
Disconnect(r) ==
    /\ pc[r] \in OnSession
    /\ Leave(r)
    /\ UNCHANGED budget

-----------------------------------------------------------------------------
\* The session is dropped by somebody's get_or_create_session: it was idle for
\* SESSION_IDLE_TTL, is older than SESSION_MAX_AGE, or one of MAX_SESSIONS too
\* many.  Requests that hold the object keep it.
Expire(s) ==
    /\ store[s] # None
    /\ store' = [store EXCEPT ![s] = None]
    /\ UNCHANGED <<budget, pc, asked, attempt, object, holder, base, history,
                   context, met>>

Midnight ==
    /\ day < LastDay
    /\ day' = day + 1
    /\ UNCHANGED <<requests, tokens, counted, pc, asked, attempt, sessions>>

Reserve(r) == Admit(r) \/ Deny(r) \/ Unavailable(r)
Run(r) == Answer(r) \/ FallBack(r) \/ Fail(r)
Serve(r) == Reserve(r) \/ Open(r) \/ Start(r) \/ Run(r) \/ Record(r)

Next ==
    \/ \E r \in Request : Arrive(r) \/ Serve(r) \/ UseTool(r) \/ Disconnect(r)
    \/ \E s \in Session : Expire(s)
    \/ Midnight

Spec == Init /\ [][Next]_vars

\* The event loop runs every task that can run, and a run of a model ends, by
\* its answer, its limits or its HTTP timeout.
FairSpec == Spec /\ \A r \in Request : WF_vars(Serve(r))
-----------------------------------------------------------------------------
(* What the copilot relies on.                                             *)

\* The counters say exactly whom they were spent on: a denied request costs
\* neither its address nor the others anything, one that was told the budget is
\* unavailable may have been counted but was never served, and no limit is
\* exceeded however the reservations of the instances interleave.  (reserve)
Counts(s) == {r \in Request : s \in {Global, IpOf[r]}}
CountedOn(d, s) == {r \in Counts(s) : counted[r] = d}

AdmissionsAreCounted ==
    /\ \A d \in Day, s \in Scope :
           requests[d][s] = Cardinality(CountedOn(d, s))
    /\ \A d \in Day : ~ Exceeds(requests[d][Global], GlobalLimit)
    /\ \A d \in Day, i \in Ip : ~ Exceeds(requests[d][i], IpLimit)
    /\ \A r \in Request : pc[r] \in OnSession \union {"reserved"} => counted[r] # None

\* Tokens are compared with the cap before a turn and added after it, by another
\* transaction and perhaps on another day: the recorded spending of a day can
\* pass the cap, but only by what the requests in flight when it was reached
\* still cost.  (reserve, record_tokens)
SpendIsBounded ==
    TokenCap > 0 =>
        \A d \in Day : tokens[d] < TokenCap + MaxCost * InFlight

\* "A past date set by last turn's tools must not silently anchor this turn",
\* nor may an earlier selection pass for the one this turn was sent with: the
\* date a chat finds, and every field its selection speaks of, is its own or that
\* of a request whose turn overlapped its own (the session is prepared before its
\* lock is taken).  Nothing is said of fields the selection leaves alone: a turn
\* about the whole country still finds the city and station of an ended one.  A
\* briefing does not begin a turn and may find an old date.
\* (_apply_context, _begin_turn, _update_session)
TurnContextIsItsOwn ==
    \A r \in Request : pc[r] = "running" =>
        \A f \in Copied(r) \union Cleared(r) :
            context[object[r]][f] \in {r} \union met[r]
                                      \union (IF f \in Cleared(r) THEN {None} ELSE {})

\* "Two concurrent requests on the same id cannot interleave their history
\* writes": a turn is appended to the history as it stands when the turn ends.
\* Only a briefing, which starts without a history, drops the turns before it.
\* (CopilotSession.lock, set_history)
Extends(o, r) ==
    history'[o] = Recent(Append(IF r \in Briefing THEN <<>> ELSE history[o], r))
HistoryIsNotOverwritten ==
    [][\A o \in Request : history'[o] # history[o] =>
          \E r \in Request : pc[r] = "running" /\ Extends(o, r)]_vars

\* Every request that arrives is answered, refused or failed: a turn that ends,
\* in whatever way, gives the session to the next one.  (copilot_chat)
EveryRequestEnds ==
    \A r \in Request : (pc[r] = "asking") ~> (pc[r] = "ended")
=============================================================================
