-------------------------- MODULE StationIngestProofs --------------------------
(***************************************************************************)
(* Proofs about a run of the station ingestion, for any task objects,      *)
(* stations and concurrency.                                               *)
(***************************************************************************)
EXTENDS StationIngest, FiniteSetTheorems, TLAPS

Working == {"fetch", "write"}
Closing == {"close", "release"}

AllOut(r) == \A s \in Listed : r.got[s] = "out"

\* Nothing is decided about a run before it is closed.
Undecided(r) ==
    /\ r.pc \notin Closing => r.status = "running" /\ r.why = "none" /\ ~r.wrote /\ ~r.misread
    /\ r.pc \notin Working \cup Closing => AllOut(r) /\ ~r.cut
    /\ r.pc = "write" => r.counted /\ \A s \in Listed : r.got[s] \notin {"todo", "asked"}

\* A station is skipped because another one was denied.
SkippedForDenied(r) ==
    (\E s \in Listed : r.got[s] = "skipped") => \E s \in Listed : r.got[s] = "denied"

\* A run that is closed and was not cancelled was decided by what it did.
Decided(r) ==
    r.pc \in Closing /\ ~r.cut =>
        /\ r.status \in {"running", "failed", "skipped"}
        /\ r.status = "running" => r.counted /\ r.wrote /\ \A s \in Listed : r.got[s] \in {"out", "rows", "failed"}
        /\ r.status = "skipped" => AllOut(r)
        /\ (\E s \in Listed : r.got[s] = "denied") => (r.wrote <=> r.why = "provider_auth")

\* What its record says, on top of that.
Told(r, c) ==
    /\ c # "none" => r.pc = "release"
    /\ ~r.cut =>
        /\ c = "success" =>
            /\ r.wrote
            /\ \A s \in Listed : r.got[s] \in {"out", "rows"}
            /\ \E s \in Listed : r.got[s] = "rows"
        /\ c = "partial" =>
            /\ r.wrote
            /\ \E s \in Listed : r.got[s] = "rows"
            /\ \E s \in Listed : r.got[s] = "failed"
        /\ c = "skipped" => AllOut(r)

\* Requests on their way, with those that were denied, never exceed the semaphore.
Exposed(r) == {s \in Listed : r.got[s] \in {"asked", "denied"}}
Contained(r) == Cardinality(Exposed(r)) <= Concurrency

\* An object that is not reused knows of an unreadable manifest from its own run.
Own(r, u) == Reused = {} => (u \/ r.why = "manifest_unreadable" => r.misread)

Good(r, c, u) ==
    /\ Undecided(r) /\ SkippedForDenied(r) /\ Decided(r)
    /\ Told(r, c) /\ Contained(r) /\ Own(r, u)

IInv == TypeOK /\ \A t \in Task : Good(run[t], record[t], unreadable[t])

-----------------------------------------------------------------------------
(* Frames.                                                                   *)

Becomes(t, r, c, u) ==
    /\ r \in Run /\ c \in Final \cup {"none"} /\ u \in BOOLEAN
    /\ run' = [run EXCEPT ![t] = r]
    /\ record' = [record EXCEPT ![t] = c]
    /\ unreadable' = [unreadable EXCEPT ![t] = u]

LEMMA Step ==
    ASSUME NEW t \in Task, IInv,
           NEW r, NEW c, NEW u, Good(r, c, u), Becomes(t, r, c, u),
           stored' \in SUBSET Hourly,
           entitled' \in [{Job} -> SUBSET Task]
    PROVE  IInv'
<1> USE DEF Becomes
<1>1. TypeOK'
  BY DEF IInv, TypeOK
<1>2. ASSUME NEW o \in Task
      PROVE  Good(run'[o], record'[o], unreadable'[o])
  <2>1. CASE o = t
    <3>1. run'[o] = r /\ record'[o] = c /\ unreadable'[o] = u
      BY <2>1 DEF IInv, TypeOK
    <3> QED BY <3>1
  <2>2. CASE o # t
    <3>1. run'[o] = run[o] /\ record'[o] = record[o] /\ unreadable'[o] = unreadable[o]
      BY <2>2 DEF IInv, TypeOK
    <3> QED BY <3>1 DEF IInv
  <2> QED BY <2>1, <2>2
<1> QED BY <1>1, <1>2 DEF IInv

\* A step of a run that has no record yet and leaves its object alone.
LEMMA RunStep ==
    ASSUME NEW t \in Task, IInv,
           NEW r \in Run, Good(r, record[t], unreadable[t]),
           run' = [run EXCEPT ![t] = r],
           UNCHANGED <<record, unreadable>>,
           stored' \in SUBSET Hourly,
           entitled' \in [{Job} -> SUBSET Task]
    PROVE  IInv'
<1>1. TypeOK'
  BY DEF IInv, TypeOK
<1>2. ASSUME NEW o \in Task
      PROVE  Good(run'[o], record[o], unreadable[o])
  <2>1. CASE o = t
    BY <2>1 DEF IInv, TypeOK
  <2>2. CASE o # t
    BY <2>2 DEF IInv, TypeOK
  <2> QED BY <2>1, <2>2
<1> QED BY <1>1, <1>2 DEF IInv

LEMMA Facts ==
    ASSUME NEW t \in Task, IInv
    PROVE  /\ run[t] \in Run
           /\ record[t] \in Final \cup {"none"}
           /\ unreadable[t] \in BOOLEAN
           /\ Good(run[t], record[t], unreadable[t])
           /\ stored \in SUBSET Hourly
           /\ entitled \in [{Job} -> SUBSET Task]
BY DEF IInv, TypeOK

\* The requests that are exposed can only be those that were before.
LEMMA ContainedShrinks ==
    ASSUME NEW r, NEW q, Contained(r), Exposed(q) \subseteq Exposed(r)
    PROVE  Contained(q)
<1>1. IsFiniteSet(Exposed(r))
  BY ConstantsAssumption, FS_Subset DEF Exposed
<1>2. Cardinality(Exposed(q)) <= Cardinality(Exposed(r))
  BY <1>1, FS_Subset
<1>3. Cardinality(Exposed(q)) \in Nat /\ Cardinality(Exposed(r)) \in Nat
  BY <1>1, FS_Subset, FS_CardinalityType
<1> QED BY <1>2, <1>3, ConstantsAssumption DEF Contained

LEMMA NothingExposed ==
    ASSUME NEW q, Exposed(q) = {}
    PROVE  Contained(q)
BY FS_EmptySet, ConstantsAssumption DEF Contained

LEMMA IdleGood ==
    /\ Idle \in Run /\ NewRun \in Run
    /\ \A u \in BOOLEAN : (Reused = {} => ~u) => Good(Idle, "none", u) /\ Good(NewRun, "none", u)
<1>1. Idle \in Run /\ NewRun \in Run
  BY DEF Idle, NewRun, Run, Phase, Final, Fetch
<1>2. Exposed(Idle) = {} /\ Exposed(NewRun) = {}
  BY DEF Exposed, Idle, NewRun
<1>3. Contained(Idle) /\ Contained(NewRun)
  BY <1>2, NothingExposed
<1> QED
  BY <1>1, <1>3 DEF Good, Undecided, SkippedForDenied, Decided, Told, Own, AllOut, Idle, NewRun, Working, Closing

LEMMA LeaseType ==
    ASSUME NEW t \in Task, entitled \in [{Job} -> SUBSET Task],
           MaybeGranted(t) \/ MaybeReleased(t) \/ Lease!Grant(Job, t)
    PROVE  entitled' \in [{Job} -> SUBSET Task]
BY DEF MaybeGranted, MaybeReleased, Lease!Grant

-----------------------------------------------------------------------------
(* The steps of a run.                                                       *)

\* The run is over: its object is idle, and clean unless it is reused.
LEMMA Ends ==
    ASSUME NEW t \in Task, IInv,
           Over(t) \/ (/\ run' = [run EXCEPT ![t] = Idle]
                       /\ record' = [record EXCEPT ![t] = "none"]
                       /\ unreadable' = [unreadable EXCEPT ![t] = FALSE]),
           stored' \in SUBSET Hourly,
           entitled' \in [{Job} -> SUBSET Task]
    PROVE  IInv'
<1>1. PICK u \in BOOLEAN : /\ unreadable' = [unreadable EXCEPT ![t] = u]
                           /\ Reused = {} => ~u
  BY Facts DEF Over
<1>2. run' = [run EXCEPT ![t] = Idle] /\ record' = [record EXCEPT ![t] = "none"]
  BY DEF Over
<1>3. Good(Idle, "none", u) /\ Idle \in Run
  BY <1>1, IdleGood
<1>4. Becomes(t, Idle, "none", u)
  BY <1>1, <1>2, <1>3 DEF Becomes
<1> HIDE DEF Over
<1> QED BY <1>3, <1>4, Step

\* A run that is at work goes on to its closing.
LEMMA Closes ==
    ASSUME NEW t \in Task, IInv, run[t].pc \in {"lease", "load"} \cup Working,
           NEW r \in Run, r.pc = "close", r.got = run[t].got,
           Decided(r), Own(r, unreadable[t]),
           run' = [run EXCEPT ![t] = r],
           UNCHANGED <<record, unreadable>>,
           stored' \in SUBSET Hourly,
           entitled' \in [{Job} -> SUBSET Task]
    PROVE  IInv'
<1> USE DEF Working, Closing
<1>1. Good(run[t], record[t], unreadable[t]) /\ record[t] = "none"
  BY Facts DEF Good, Told
<1>2. Contained(r)
  BY <1>1, ContainedShrinks DEF Good, Exposed
<1>3. Undecided(r) /\ SkippedForDenied(r) /\ Told(r, record[t])
  BY <1>1 DEF Good, Undecided, SkippedForDenied, Told
<1>4. Good(r, record[t], unreadable[t])
  BY <1>2, <1>3 DEF Good
<1> QED BY <1>4, RunStep

\* What Fail leaves of a run that has asked no station, or that could not write.
LEMMA FailCloses ==
    ASSUME NEW t \in Task, IInv, run[t].pc \in {"lease", "load", "write"},
           NEW why \in {"manifest_unreadable", "other"}, Fail(t, why),
           why = "manifest_unreadable" => unreadable[t],
           UNCHANGED <<record, unreadable>>,
           stored' \in SUBSET Hourly,
           entitled' \in [{Job} -> SUBSET Task]
    PROVE  IInv'
<1> DEFINE r == [run[t] EXCEPT !.pc = "close", !.status = "failed", !.why = why]
<1>0. run[t] \in Run
  BY Facts
<1>1. r \in Run
  BY <1>0 DEF Run, Phase, Final
<1>2. run' = [run EXCEPT ![t] = r]
  BY DEF Fail
<1>3. /\ r.pc = "close" /\ r.got = run[t].got /\ r.status = "failed" /\ r.why = why
      /\ r.wrote = run[t].wrote /\ r.misread = run[t].misread
  BY Facts DEF Run
<1>4. Decided(r)
  BY <1>3, Facts DEF Good, Undecided, Decided, Working, Closing, AllOut
<1>5. Own(r, unreadable[t])
  BY <1>3, Facts DEF Good, Own
<1> HIDE DEF r
<1> QED BY <1>1, <1>2, <1>3, <1>4, <1>5, Closes DEF Working

LEMMA Starting ==
    ASSUME NEW t \in Task, IInv, Begin(t) \/ Start(t) \/ Acquire(t)
    PROVE  IInv'
<1>1. CASE Begin(t)
  <2>1. run' = [run EXCEPT ![t] = NewRun] /\ UNCHANGED <<record, unreadable, stored, entitled>>
    BY <1>1 DEF Begin
  <2>2. record[t] = "none" /\ (Reused = {} => ~unreadable[t]) /\ unreadable[t] \in BOOLEAN
    BY <1>1, Facts DEF Begin, At, Good, Told, Undecided, Own, Working, Closing
  <2>3. Good(NewRun, record[t], unreadable[t]) /\ NewRun \in Run
    BY <2>2, IdleGood
  <2> QED BY <2>1, <2>3, Facts, RunStep
<1>2. CASE Start(t) \/ Acquire(t)
  <2>1. PICK r \in Run :
          /\ run' = [run EXCEPT ![t] = r]
          /\ r.pc \in {"lease", "load"} /\ r.status = run[t].status /\ r.why = run[t].why
          /\ r.got = run[t].got /\ r.wrote = run[t].wrote /\ r.cut = run[t].cut
          /\ r.misread = run[t].misread
    <3>1. CASE Start(t)
      <4> DEFINE r == [run[t] EXCEPT !.pc = "lease"]
      <4>0. run[t] \in Run
        BY Facts
      <4>1. r \in Run
        BY <4>0 DEF Run, Phase
      <4> QED BY <3>1, <4>0, <4>1 DEF Start, Run
    <3>2. CASE Acquire(t)
      <4> DEFINE r == [run[t] EXCEPT !.pc = "load", !.leased = TRUE]
      <4>0. run[t] \in Run
        BY Facts
      <4>1. r \in Run
        BY <4>0 DEF Run, Phase
      <4> QED BY <3>2, <4>0, <4>1 DEF Acquire, Run
    <3> QED BY <1>2, <3>1, <3>2
  <2>2. run[t].pc \in {"start", "lease"} /\ UNCHANGED <<record, unreadable, stored>>
    BY <1>2 DEF Start, Acquire, At
  <2>3. entitled' \in [{Job} -> SUBSET Task]
    BY <1>2, Facts, LeaseType DEF Start, Acquire
  <2>4. Good(run[t], record[t], unreadable[t])
    BY Facts
  <2>5. Contained(r)
    BY <2>1, <2>4, ContainedShrinks DEF Good, Exposed
  <2>6. Good(r, record[t], unreadable[t])
    BY <2>1, <2>2, <2>4, <2>5
       DEF Good, Undecided, SkippedForDenied, Decided, Told, Own, AllOut, Working, Closing
  <2> QED BY <2>1, <2>2, <2>3, <2>6, Facts, RunStep
<1> QED BY <1>1, <1>2

LEMMA LeaseAnswers ==
    ASSUME NEW t \in Task, IInv, Denied(t) \/ LeaseError(t) \/ QuotaDown(t)
    PROVE  IInv'
<1>1. CASE Denied(t)
  <2> DEFINE r == [run[t] EXCEPT !.pc = "close", !.status = "skipped", !.why = "lease_held"]
  <2>0. run[t] \in Run /\ run[t].pc = "lease" /\ Good(run[t], record[t], unreadable[t])
    BY <1>1, Facts DEF Denied, At
  <2>1. r \in Run
    BY <2>0 DEF Run, Phase, Final
  <2>2. run' = [run EXCEPT ![t] = r] /\ UNCHANGED <<record, unreadable, stored, entitled>>
    BY <1>1 DEF Denied
  <2>3. /\ r.pc = "close" /\ r.got = run[t].got /\ r.status = "skipped" /\ r.why = "lease_held"
        /\ r.misread = run[t].misread
    BY <2>0 DEF Run
  <2>4. Decided(r)
    BY <2>0, <2>3 DEF Good, Undecided, Decided, Working, Closing, AllOut
  <2>5. Own(r, unreadable[t])
    BY <2>0, <2>3 DEF Good, Own
  <2> HIDE DEF r
  <2> QED BY <2>0, <2>1, <2>2, <2>3, <2>4, <2>5, Facts, Closes
<1>2. CASE LeaseError(t)
  <2>1. run[t].pc = "lease" /\ Fail(t, "other") /\ UNCHANGED <<record, unreadable, stored>>
    BY <1>2 DEF LeaseError, At
  <2>2. entitled' \in [{Job} -> SUBSET Task]
    BY <1>2, Facts, LeaseType DEF LeaseError
  <2> QED BY <2>1, <2>2, Facts, FailCloses
<1>3. CASE QuotaDown(t)
  BY <1>3, Facts, FailCloses DEF QuotaDown, At
<1> QED BY <1>1, <1>2, <1>3

LEMMA Polls ==
    ASSUME NEW t \in Task, IInv, NEW stations \in SUBSET Listed, Poll(t, stations)
    PROVE  IInv'
<1> DEFINE g == [s \in Listed |-> IF s \in stations THEN "todo" ELSE "out"]
           r == [run[t] EXCEPT !.pc = "fetch", !.got = g]
<1>1. CASE unreadable[t] /\ Fail(t, "manifest_unreadable")
  BY <1>1, Facts, FailCloses DEF Poll, At
<1>2. CASE Fail(t, "other")
  BY <1>2, Facts, FailCloses DEF Poll, At
<1>3. CASE run' = [run EXCEPT ![t] = r]
  <2>0. run[t] \in Run /\ run[t].pc = "load" /\ Good(run[t], record[t], unreadable[t])
    BY Facts DEF Poll, At
  <2>1. g \in [Listed -> Fetch] /\ \A s \in Listed : g[s] \in {"todo", "out"}
    BY DEF Fetch
  <2> HIDE DEF g
  <2>2. r \in Run
    BY <2>0, <2>1 DEF Run, Phase
  <2>3. /\ r.pc = "fetch" /\ r.got = g /\ r.status = run[t].status /\ r.why = run[t].why
        /\ r.wrote = run[t].wrote /\ r.cut = run[t].cut /\ r.misread = run[t].misread
    BY <2>0 DEF Run
  <2> HIDE DEF r
  <2>4. Exposed(r) = {}
    BY <2>1, <2>3 DEF Exposed
  <2>5. Contained(r)
    BY <2>4, NothingExposed
  <2>6. Good(r, record[t], unreadable[t])
    BY <2>0, <2>1, <2>3, <2>5
       DEF Good, Undecided, SkippedForDenied, Decided, Told, Own, AllOut, Working, Closing
  <2> QED BY <1>3, <2>2, <2>6, Facts, RunStep DEF Poll
<1> QED BY <1>1, <1>2, <1>3 DEF Poll

LEMMA Loading ==
    ASSUME NEW t \in Task, IInv, LoadManifest(t) \/ LoadNothing(t) \/ LoadUnreadable(t)
    PROVE  IInv'
<1>1. CASE LoadManifest(t) \/ LoadNothing(t)
  <2>1. \E stations \in SUBSET Listed : Poll(t, stations)
    BY <1>1 DEF LoadManifest, LoadNothing, Hourly
  <2> QED BY <2>1, Polls
<1>2. CASE LoadUnreadable(t)
  <2> DEFINE r == [run[t] EXCEPT !.pc = "close", !.status = "failed",
                                 !.why = "manifest_unreadable", !.misread = TRUE]
  <2>0. run[t] \in Run /\ run[t].pc = "load" /\ Good(run[t], record[t], unreadable[t])
    BY <1>2, Facts DEF LoadUnreadable, At
  <2>1. r \in Run
    BY <2>0 DEF Run, Phase, Final
  <2>2. /\ r.pc = "close" /\ r.got = run[t].got /\ r.status = "failed"
        /\ r.wrote = run[t].wrote /\ r.misread
    BY <2>0 DEF Run
  <2>3. run' = [run EXCEPT ![t] = r] /\ unreadable' = [unreadable EXCEPT ![t] = TRUE]
    BY <1>2 DEF LoadUnreadable
  <2> HIDE DEF r
  <2>4. record[t] = "none"
    BY <2>0 DEF Good, Told
  <2>5. record' = [record EXCEPT ![t] = record[t]] /\ UNCHANGED <<stored, entitled>>
    BY <1>2, Facts DEF LoadUnreadable, IInv, TypeOK
  <2>6. Contained(r)
    BY <2>0, <2>2, ContainedShrinks DEF Good, Exposed
  <2>7. Good(r, record[t], TRUE)
    BY <2>0, <2>2, <2>4, <2>6
       DEF Good, Undecided, SkippedForDenied, Decided, Told, Own, AllOut, Working, Closing
  <2>8. Becomes(t, r, record[t], TRUE)
    BY <2>1, <2>3, <2>5, Facts DEF Becomes
  <2> QED BY <2>5, <2>7, <2>8, Facts, Step
<1> QED BY <1>1, <1>2

\* A station moves on; what is shown of the run is what its stages are.
LEMMA MovesOn ==
    ASSUME NEW t \in Task, IInv, NEW s \in Listed, NEW stage \in Fetch, Moves(t, s, stage),
           run[t].pc = "fetch",
           stage = "skipped" => Rejected(t),
           run[t].got[s] # "denied",
           Contained([run[t] EXCEPT !.got[s] = stage])
    PROVE  IInv'
<1> DEFINE r == [run[t] EXCEPT !.got[s] = stage]
<1>0. run[t] \in Run /\ Good(run[t], record[t], unreadable[t])
  BY Facts
<1>1. run[t].got \in [Listed -> Fetch]
  BY <1>0 DEF Run
<1>2. r \in Run
  BY <1>0, <1>1 DEF Run
<1>3. run' = [run EXCEPT ![t] = r] /\ UNCHANGED <<record, unreadable, stored, entitled>>
  BY DEF Moves
<1>4. /\ r.pc = "fetch" /\ r.status = run[t].status /\ r.why = run[t].why
      /\ r.wrote = run[t].wrote /\ r.cut = run[t].cut /\ r.misread = run[t].misread
      /\ r.got = [run[t].got EXCEPT ![s] = stage]
  BY <1>0 DEF Run
<1>5. Contained(r)
  OBVIOUS
<1> HIDE DEF r
<1>6. \A o \in Listed : r.got[o] = IF o = s THEN stage ELSE run[t].got[o]
  BY <1>1, <1>4
<1>7. SkippedForDenied(r)
  <2>1. CASE \E o \in Listed : run[t].got[o] = "denied"
    BY <1>6, <2>1 DEF SkippedForDenied
  <2>2. CASE \A o \in Listed : run[t].got[o] # "denied"
    <3>1. stage # "skipped" /\ \A o \in Listed : run[t].got[o] # "skipped"
      BY <1>0, <2>2 DEF Rejected, In, Good, SkippedForDenied
    <3> QED BY <1>6, <3>1 DEF SkippedForDenied
  <2> QED BY <2>1, <2>2
<1>8. Good(r, record[t], unreadable[t])
  BY <1>0, <1>4, <1>5, <1>7 DEF Good, Undecided, Decided, Told, Own, Working, Closing
<1> QED BY <1>2, <1>3, <1>8, Facts, RunStep

LEMMA Asking ==
    ASSUME NEW t \in Task, IInv, NEW s \in Listed, Ask(t, s)
    PROVE  IInv'
<1> DEFINE r == [run[t] EXCEPT !.got[s] = "asked"]
<1>0. run[t] \in Run /\ run[t].pc = "fetch" /\ run[t].got[s] = "todo"
  BY Facts DEF Ask, At
<1>1. run[t].got \in [Listed -> Fetch]
  BY <1>0 DEF Run
<1>2. r.got = [run[t].got EXCEPT ![s] = "asked"]
  BY <1>0 DEF Run
<1>3. Exposed(r) = In(t, {"asked"}) \cup {s}
  <2>1. In(t, {"denied"}) = {}
    BY DEF Ask, Rejected
  <2> QED BY <1>1, <1>2, <2>1 DEF Exposed, In
<1>4. IsFiniteSet(In(t, {"asked"})) /\ s \notin In(t, {"asked"})
  BY <1>0, ConstantsAssumption, FS_Subset DEF In
<1>5. Cardinality(Exposed(r)) = Cardinality(In(t, {"asked"})) + 1
  BY <1>3, <1>4, FS_AddElement
<1>6. Cardinality(In(t, {"asked"})) < Concurrency /\ Cardinality(In(t, {"asked"})) \in Nat
  BY <1>4, FS_CardinalityType DEF Ask
<1>7. Contained(r)
  BY <1>5, <1>6, ConstantsAssumption DEF Contained
<1> QED BY <1>0, <1>7, MovesOn DEF Ask, Fetch

LEMMA Answering ==
    ASSUME NEW t \in Task, IInv, NEW s \in Listed,
           NEW stage \in {"rows", "failed", "denied", "skipped"},
           \/ stage = "skipped" /\ SkipStation(t, s)
           \/ stage # "skipped" /\ Answer(t, s, stage)
    PROVE  IInv'
<1> DEFINE r == [run[t] EXCEPT !.got[s] = stage]
<1>0. /\ run[t] \in Run /\ run[t].pc = "fetch" /\ run[t].got[s] \in {"todo", "asked"}
      /\ Moves(t, s, stage) /\ (stage = "skipped" => Rejected(t))
      /\ stage # "skipped" => run[t].got[s] = "asked"
  BY Facts DEF SkipStation, Answer, At
<1>1. run[t].got \in [Listed -> Fetch]
  BY <1>0 DEF Run
<1>2. r.got = [run[t].got EXCEPT ![s] = stage]
  BY <1>0 DEF Run
<1>3. Exposed(r) \subseteq Exposed(run[t])
  BY <1>0, <1>1, <1>2 DEF Exposed
<1>4. Contained(r)
  BY <1>3, Facts, ContainedShrinks DEF Good
<1> QED BY <1>0, <1>4, MovesOn DEF Fetch

LEMMA Gathering ==
    ASSUME NEW t \in Task, IInv, Gathered(t)
    PROVE  IInv'
<1> DEFINE r == [run[t] EXCEPT !.pc = "write", !.counted = TRUE]
<1>0. run[t] \in Run /\ run[t].pc = "fetch" /\ Good(run[t], record[t], unreadable[t])
  BY Facts DEF Gathered, At
<1>1. r \in Run
  BY <1>0 DEF Run, Phase
<1>2. run' = [run EXCEPT ![t] = r] /\ UNCHANGED <<record, unreadable, stored, entitled>>
  BY DEF Gathered
<1>3. /\ r.pc = "write" /\ r.counted /\ r.got = run[t].got /\ r.status = run[t].status
      /\ r.why = run[t].why /\ r.wrote = run[t].wrote /\ r.cut = run[t].cut /\ r.misread = run[t].misread
  BY <1>0 DEF Run
<1> HIDE DEF r
<1>4. \A s \in Listed : r.got[s] \notin {"todo", "asked"}
  BY <1>3 DEF Gathered, In
<1>5. Contained(r)
  BY <1>0, <1>3, ContainedShrinks DEF Good, Exposed
<1>6. Good(r, record[t], unreadable[t])
  BY <1>0, <1>3, <1>4, <1>5
     DEF Good, Undecided, SkippedForDenied, Decided, Told, Own, Working, Closing
<1> QED BY <1>1, <1>2, <1>6, Facts, RunStep

LEMMA Writing ==
    ASSUME NEW t \in Task, IInv, Write(t)
    PROVE  IInv'
<1> DEFINE st == Judged(t).status
           wh == Judged(t).why
           r == [run[t] EXCEPT !.pc = "close", !.wrote = TRUE, !.status = st, !.why = wh]
<1>0. /\ run[t] \in Run /\ run[t].pc = "write" /\ Good(run[t], record[t], unreadable[t])
      /\ run[t].status = "running" /\ run[t].why = "none" /\ run[t].counted
      /\ \A s \in Listed : run[t].got[s] \notin {"todo", "asked"}
      /\ run[t].got \in [Listed -> Fetch]
  BY Facts DEF Write, At, Good, Undecided, Working, Closing, Run
<1>1. \/ (\E s \in Listed : run[t].got[s] = "denied") /\ st = "failed" /\ wh = "provider_auth"
      \/ (\A s \in Listed : run[t].got[s] # "denied") /\ st = "running" /\ wh = "none"
  BY <1>0 DEF Judged, Rejected, In
<1> HIDE DEF st, wh
<1>2. r \in Run
  BY <1>0, <1>1 DEF Run, Phase, Final
<1>3. run' = [run EXCEPT ![t] = r] /\ UNCHANGED <<record, unreadable, entitled>>
  BY DEF Write, st, wh
<1>4. /\ r.pc = "close" /\ r.got = run[t].got /\ r.status = st /\ r.why = wh
      /\ r.wrote /\ r.counted = run[t].counted /\ r.misread = run[t].misread
  BY <1>0 DEF Run
<1> HIDE DEF r
<1>5. (\A s \in Listed : run[t].got[s] # "denied")
         => \A s \in Listed : run[t].got[s] \in {"out", "rows", "failed"}
  BY <1>0 DEF Good, SkippedForDenied, Fetch
<1>6. Decided(r)
  BY <1>0, <1>1, <1>4, <1>5 DEF Decided, AllOut
<1>7. Own(r, unreadable[t])
  BY <1>0, <1>1, <1>4 DEF Good, Own
<1>8. stored' \in SUBSET Hourly
  BY Facts DEF Write, In
<1> QED BY <1>0, <1>2, <1>3, <1>4, <1>6, <1>7, <1>8, Facts, Closes DEF Working

LEMMA Recording ==
    ASSUME NEW t \in Task, IInv, Close(t)
    PROVE  IInv'
<1> DEFINE r == [run[t] EXCEPT !.pc = "release"]
<1>0. /\ run[t] \in Run /\ run[t].pc = "close" /\ Good(run[t], record[t], unreadable[t])
      /\ record[t] = "none" /\ run[t].got \in [Listed -> Fetch]
  BY Facts DEF Close, At, Good, Told, Run
<1>1. r \in Run
  BY <1>0 DEF Run, Phase
<1>2. run' = [run EXCEPT ![t] = r] /\ UNCHANGED <<unreadable, stored, entitled>>
  BY DEF Close
<1>3. /\ r.pc = "release" /\ r.counted = run[t].counted /\ r.got = run[t].got
      /\ r.status = run[t].status /\ r.why = run[t].why /\ r.wrote = run[t].wrote
      /\ r.cut = run[t].cut /\ r.misread = run[t].misread
  BY <1>0 DEF Run
<1> HIDE DEF r
<1>4. PICK c \in {"none", Finished(t)} : record' = [record EXCEPT ![t] = c]
  BY <1>0, Facts DEF Close, Recorded, IInv, TypeOK
<1>5. Undecided(r) /\ SkippedForDenied(r) /\ Decided(r) /\ Own(r, unreadable[t])
  BY <1>0, <1>3 DEF Good, Undecided, SkippedForDenied, Decided, Own, AllOut, Working, Closing
<1>6. Contained(r)
  BY <1>0, <1>3, ContainedShrinks DEF Good, Exposed
<1>7. ~r.cut => Finished(t) \in Final /\ Told(r, Finished(t))
  <2> SUFFICES ASSUME ~r.cut
               PROVE  Finished(t) \in Final /\ Told(r, Finished(t))
    OBVIOUS
  <2>1. CASE run[t].status = "running"
    <3>1. /\ run[t].counted /\ r.wrote
          /\ \A s \in Listed : r.got[s] \in {"out", "rows", "failed"}
      BY <2>1, <1>3, <1>5 DEF Decided, Closing
    <3>2. Finished(t) = Classified(t)
      BY <2>1 DEF Finished
    <3>3. /\ \A s \in Listed : run[t].got[s] \in {"out", "rows", "failed"}
          /\ In(t, Fetch \ {"out"}) = In(t, {"rows", "failed"})
          /\ In(t, {"failed", "denied"}) = In(t, {"failed"})
          /\ In(t, {"rows", "failed", "denied"}) = In(t, {"rows", "failed"})
      BY <3>1, <1>3 DEF In, Fetch
    <3>4. CASE In(t, {"rows", "failed"}) = {}
      <4>1. Finished(t) = "failed"
        BY <3>2, <3>3, <3>4 DEF Classified
      <4> QED BY <4>1, <1>3 DEF Told, Final
    <3>5. CASE In(t, {"rows", "failed"}) # {} /\ In(t, {"failed"}) = {}
      <4>1. Finished(t) = "success"
        BY <3>2, <3>3, <3>5 DEF Classified
      <4>2. \A s \in Listed : r.got[s] \in {"out", "rows"}
        BY <3>3, <3>5, <1>3 DEF In
      <4>3. \E s \in Listed : r.got[s] = "rows"
        BY <3>5, <1>3 DEF In
      <4> QED BY <4>1, <4>2, <4>3, <3>1, <1>3 DEF Told, Final
    <3>6. CASE In(t, {"failed"}) # {} /\ In(t, {"failed"}) # In(t, {"rows", "failed"})
      <4>1. Finished(t) = "partial"
        BY <3>1, <3>2, <3>3, <3>6 DEF Classified, In
      <4>2. \E s \in Listed : r.got[s] = "rows"
        BY <3>6, <1>3 DEF In
      <4>3. \E s \in Listed : r.got[s] = "failed"
        BY <3>6, <1>3 DEF In
      <4> QED BY <4>1, <4>2, <4>3, <3>1, <1>3 DEF Told, Final
    <3>7. CASE In(t, {"failed"}) # {} /\ In(t, {"failed"}) = In(t, {"rows", "failed"})
      <4>1. Finished(t) = "failed"
        BY <3>1, <3>2, <3>3, <3>7 DEF Classified
      <4> QED BY <4>1, <1>3 DEF Told, Final
    <3> QED BY <3>4, <3>5, <3>6, <3>7
  <2>2. CASE run[t].status # "running"
    <3>1. Finished(t) = r.status /\ r.status \in {"failed", "skipped"}
      BY <2>2, <1>3, <1>5 DEF Finished, Decided, Closing
    <3> QED BY <3>1, <1>3, <1>5 DEF Told, Decided, Final, Closing
  <2> QED BY <2>1, <2>2
<1>8. Finished(t) \in Final
  BY <1>0 DEF Finished, Classified, Run, Final
<1>9. Told(r, c) /\ c \in Final \cup {"none"}
  BY <1>3, <1>4, <1>7, <1>8 DEF Told
<1>10. Good(r, c, unreadable[t])
  BY <1>5, <1>6, <1>9 DEF Good
<1>11. Becomes(t, r, c, unreadable[t])
  BY <1>1, <1>2, <1>4, <1>9, Facts DEF Becomes, IInv, TypeOK
<1> QED BY <1>2, <1>10, <1>11, Facts, Step

\* Where a run is cancelled, or lost, with all it knows.
LEMMA Interrupted ==
    ASSUME NEW t \in Task, IInv, Release(t) \/ CancelOutside(t) \/ Die(t)
    PROVE  IInv'
<1>1. stored' \in SUBSET Hourly
  BY Facts DEF Release, CancelOutside, Die
<1>2. entitled' \in [{Job} -> SUBSET Task]
  BY Facts, LeaseType DEF Release, CancelOutside, Die
<1>3. CASE Release(t) \/ CancelOutside(t)
  <2>1. Over(t)
    BY <1>3 DEF Release, CancelOutside
  <2> QED BY <1>1, <1>2, <2>1, Ends
<1>4. CASE Die(t)
  BY <1>1, <1>2, <1>4, Ends DEF Die
<1> QED BY <1>3, <1>4

LEMMA Cancelling ==
    ASSUME NEW t \in Task, IInv, CancelInside(t)
    PROVE  IInv'
<1> DEFINE r == [run[t] EXCEPT !.pc = "close", !.cut = TRUE]
<1>0. /\ run[t] \in Run /\ run[t].pc \in {"lease", "load", "fetch", "write"}
      /\ Good(run[t], record[t], unreadable[t])
  BY Facts DEF CancelInside
<1>1. r \in Run
  BY <1>0 DEF Run, Phase
<1>2. run' = [run EXCEPT ![t] = r] /\ UNCHANGED <<record, unreadable>>
  BY DEF CancelInside
<1>3. r.pc = "close" /\ r.got = run[t].got /\ r.cut /\ r.why = run[t].why /\ r.misread = run[t].misread
  BY <1>0 DEF Run
<1> HIDE DEF r
<1>4. Decided(r) /\ Own(r, unreadable[t])
  BY <1>0, <1>3 DEF Good, Decided, Own
<1>5. stored' \in SUBSET Hourly
  BY Facts DEF CancelInside, In
<1>6. entitled' \in [{Job} -> SUBSET Task]
  BY Facts, LeaseType DEF CancelInside
<1> QED BY <1>0, <1>1, <1>2, <1>3, <1>4, <1>5, <1>6, Closes DEF Working

-----------------------------------------------------------------------------
(* The invariant.                                                            *)

LEMMA InitIInv == Init => IInv
<1> SUFFICES ASSUME Init PROVE IInv
  OBVIOUS
<1>1. TypeOK
  BY IdleGood DEF Init, TypeOK, Lease!Init
<1>2. \A t \in Task : Good(run[t], record[t], unreadable[t])
  BY IdleGood DEF Init
<1> QED BY <1>1, <1>2 DEF IInv

LEMMA NextIInv == IInv /\ [Next]_vars => IInv'
<1> SUFFICES ASSUME IInv, [Next]_vars PROVE IInv'
  OBVIOUS
<1>1. CASE Expire \/ Hour \/ UNCHANGED vars
  <2>1. TypeOK' /\ UNCHANGED <<run, record, unreadable>>
    BY <1>1 DEF IInv, TypeOK, Expire, Hour, vars
  <2> QED BY <2>1 DEF IInv
<1>2. ASSUME NEW t \in Task, Progress(t)
      PROVE  IInv'
  <2>1. CASE Begin(t) \/ Start(t) \/ Acquire(t)
    BY <2>1, Starting
  <2>2. CASE Denied(t)
    BY <2>2, LeaseAnswers
  <2>3. CASE LoadManifest(t)
    BY <2>3, Loading
  <2>4. ASSUME NEW s \in Listed, Ask(t, s) \/ SkipStation(t, s) \/ Answer(t, s, "rows")
        PROVE  IInv'
    BY <2>4, Asking, Answering
  <2>5. CASE Gathered(t) \/ Write(t) \/ Close(t) \/ Release(t)
    BY <2>5, Gathering, Writing, Recording, Interrupted
  <2> QED BY <1>2, <2>1, <2>2, <2>3, <2>4, <2>5 DEF Progress
<1>3. ASSUME NEW t \in Task, Failure(t)
      PROVE  IInv'
  <2>1. CASE LeaseError(t) \/ QuotaDown(t)
    BY <2>1, LeaseAnswers
  <2>2. CASE LoadNothing(t) \/ LoadUnreadable(t)
    BY <2>2, Loading
  <2>3. ASSUME NEW s \in Listed, Answer(t, s, "failed") \/ Answer(t, s, "denied")
        PROVE  IInv'
    BY <2>3, Answering
  <2>4. CASE WriteFails(t)
    BY <2>4, Facts, FailCloses DEF WriteFails, At
  <2>5. CASE CancelInside(t)
    BY <2>5, Cancelling
  <2>6. CASE CancelOutside(t) \/ Die(t)
    BY <2>6, Interrupted
  <2> QED BY <1>3, <2>1, <2>2, <2>3, <2>4, <2>5, <2>6 DEF Failure
<1> QED BY <1>1, <1>2, <1>3 DEF Next

LEMMA SpecIInv == Spec => []IInv
BY InitIInv, NextIInv, PTL DEF Spec

-----------------------------------------------------------------------------
(* The properties.                                                           *)

\* The state of the runs, their records and the lease is always well typed.
THEOREM TypeCorrect == Spec => []TypeOK
BY SpecIInv, PTL DEF IInv

\* The record of a run that was not cancelled tells what happened, whichever
\* requests overlapped or failed (classify).
THEOREM RecordTrue == Spec => []RecordTellsWhatHappened
<1>1. IInv => RecordTellsWhatHappened
  BY DEF IInv, Good, Told, RecordTellsWhatHappened, Polled, In, Fetch, AllOut
<1> QED BY <1>1, SpecIInv, PTL

\* A run that ends on a rejected credential has written what it fetched.
THEOREM FetchedKept == Spec => []FetchedIsKept
<1>1. IInv => FetchedIsKept
  BY DEF IInv, Good, Decided, Closing, FetchedIsKept, In, At
<1> QED BY <1>1, SpecIInv, PTL

\* At most Concurrency requests of a run meet a rejected credential, for any number
\* of stations (_fetch_one).
THEOREM RejectionContained == Spec => []RejectionIsContained
<1>1. IInv => RejectionIsContained
  <2> SUFFICES ASSUME IInv, NEW t \in Task
               PROVE  Cardinality(In(t, {"denied"})) <= Concurrency
    BY DEF RejectionIsContained
  <2>1. In(t, {"denied"}) \subseteq Exposed(run[t]) /\ IsFiniteSet(Exposed(run[t]))
    BY ConstantsAssumption, FS_Subset DEF In, Exposed
  <2>2. Cardinality(Exposed(run[t])) <= Concurrency
    BY Facts DEF Good, Contained
  <2>3. /\ Cardinality(In(t, {"denied"})) <= Cardinality(Exposed(run[t]))
        /\ Cardinality(In(t, {"denied"})) \in Nat /\ Cardinality(Exposed(run[t])) \in Nat
    BY <2>1, FS_Subset, FS_CardinalityType
  <2> QED BY <2>2, <2>3, ConstantsAssumption
<1> QED BY <1>1, SpecIInv, PTL

\* With a task object for every request, a run that fails as manifest_unreadable has
\* itself read a manifest it could not parse.
THEOREM UnreadableOwn == ASSUME Reused = {} PROVE Spec => []UnreadableIsOwn
<1>1. IInv => UnreadableIsOwn
  BY DEF IInv, Good, Own, UnreadableIsOwn
<1> QED BY <1>1, SpecIInv, PTL

\* Whatever is cancelled, dies, fails or expires, the jobs use their lease within the
\* promise of LeaseExclusion, which the table keeps (IngestLease): a run becomes
\* entitled only when no run is, answers that are lost included.
THEOREM LeaseUsedAsPromised == Spec => Lease!Spec
<1>1. Init => Lease!Init
  BY DEF Init
<1>2. IInv /\ [Next]_vars => [Lease!Next]_entitled
  <2> SUFFICES ASSUME IInv, [Next]_vars, entitled' # entitled
               PROVE  Lease!Lapse \/ \E t \in Task : Lease!Grant(Job, t)
    BY DEF Lease!Next
  <2>1. entitled \in [{Job} -> SUBSET Task]
    BY DEF IInv, TypeOK
  <2>2. CASE Expire
    BY <2>1, <2>2 DEF Expire, Lease!Lapse
  <2>3. ASSUME NEW t \in Task, MaybeReleased(t) PROVE Lease!Lapse
    BY <2>1, <2>3 DEF MaybeReleased, Lease!Lapse
  <2>4. ASSUME NEW t \in Task, MaybeGranted(t) PROVE Lease!Grant(Job, t)
    BY <2>4 DEF MaybeGranted
  <2>5. ASSUME NEW t \in Task, Progress(t) PROVE Lease!Lapse \/ Lease!Grant(Job, t)
    BY <2>3, <2>5 DEF Progress, Begin, Start, Acquire, Denied, LoadManifest, Poll, Ask, SkipStation, Answer,
       Moves, Gathered, Write, Close, Release
  <2>6. ASSUME NEW t \in Task, Failure(t) PROVE Lease!Lapse \/ Lease!Grant(Job, t)
    BY <2>3, <2>4, <2>6 DEF Failure, LeaseError, QuotaDown, LoadNothing, Poll, LoadUnreadable, Answer, Moves,
       WriteFails, CancelInside, CancelOutside, Die
  <2>7. CASE UNCHANGED vars \/ Hour
    BY <2>7 DEF vars, Hour
  <2> QED BY <2>2, <2>5, <2>6, <2>7 DEF Next
<1> QED BY <1>1, <1>2, SpecIInv, PTL DEF Spec, Lease!Spec
=============================================================================
