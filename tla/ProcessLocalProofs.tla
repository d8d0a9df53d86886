------------------------- MODULE ProcessLocalProofs -------------------------
(***************************************************************************)
(* Proofs about the three parts that MC_ProcessLocal instantiates: the     *)
(* rows of a payload, and the two caches an API instance keeps beside its  *)
(* requests.                                                               *)
(***************************************************************************)
EXTENDS VoiceBrief, BlobCache, IqairRows, FiniteSetTheorems, FunctionTheorems,
        SequenceTheorems, TLAPS

(***************************************************************************)
(* The rows of a payload (IqairRows).  Everything rests on one fact about  *)
(* a bucket: Sound says which reports its values came from and what its    *)
(* provenance then is.  Merging a report and filling from one keep it,     *)
(* however long the lists are and whatever their order.                    *)
(***************************************************************************)

Rec(f, v) == [field |-> f, value |-> v]

\* The instant of a past report that lands in the hour h after s hours.
Earlier(h, s) == [hour |-> h - s, minute |-> 0]

\* Past weather may come to lie in the hour of the current weather.
Replaceable(part, h, H, W) == part = "w" /\ h = W /\ (Shift("w") = 1 => h # H)

\* What is true of a value of the bucket of hour h, when H is the anchor, W the
\* hour of the current weather and T what was told.
SoundValue(f, h, b, H, W, T) ==
    LET v == b.vals[f]
        part == PartOf(f)
    IN  v # Nothing =>
          /\ Rec(f, v) \in T
          /\ Landing(Rec(f, v)) = h
          /\ f \in b.filled => v.from = "history" /\ b.overlap[part] = v.at
          /\ f \notin b.filled => b.src[part] # Nothing
          /\ f \notin b.filled /\ Shift(part) = 1 /\ h = H => v.from = "current"
          /\ v.from = "current" => b.src[part] = v.at /\ b.shift[part] = 0
          /\ f \notin b.filled /\ v.from = "history" =>
                \/ b.src[part] = v.at /\ b.shift[part] = Shift(part)
                \/ Replaceable(part, h, H, W)

\* What is true of the provenance of a part: it is the current report's, or a
\* past one's.
SoundPart(part, h, b, H, W) ==
    /\ b.src[part] # Nothing <=> b.shift[part] # Nothing
    /\ b.src[part] # Nothing =>
          \/ b.shift[part] = 0 /\ h = (IF part = "p" THEN H ELSE W)
          \/ /\ b.src[part] = Earlier(h, Shift(part)) /\ b.shift[part] = Shift(part)
             /\ Shift(part) = 1 => h # H
    /\ b.overlap[part] # Nothing => h = H /\ b.overlap[part] = Earlier(h, 1)

Sound(h, b, H, W, T) ==
    /\ \A f \in Measure : SoundValue(f, h, b, H, W, T)
    /\ \A f \in b.filled : h = H /\ Shift(PartOf(f)) = 1 /\ b.overlap[PartOf(f)] # Nothing
    /\ \A part \in Part : SoundPart(part, h, b, H, W)

Buckets == \A h \in BucketHour : Sound(h, bucket[h], anchor, observed, told)

\* Every report has left a value in the bucket of its hour.
Kept == section # "done" =>
    \A r \in told : Landing(r) \in made /\ bucket[Landing(r)].vals[r.field] # Nothing

\* The current pollution is the anchor's, and current weather is read once.
CurrentOnce ==
    /\ \A r \in told : r.value.from = "current" /\ PartOf(r.field) = "p" => r.value.at.hour = anchor
    /\ section = "current_pollution" => told = {} /\ bucket = [h \in BucketHour |-> NewBucket]
    /\ section = "current_weather" =>
          /\ \A r \in told : PartOf(r.field) = "p"
          /\ \A h \in BucketHour : bucket[h].filled = {} /\ bucket[h].src["w"] = Nothing

\* After validation, a row is what was good of its bucket.
Rows == section = "done" =>
    \A r \in told : Accepted(Landing(r)) =>
        /\ Landing(r) \in made
        /\ \/ bucket[Landing(r)].vals[r.field] # Nothing
           \/ \E o \in told : o.field = r.field /\ Landing(o) = Landing(r) /\ ~o.value.good

IqairInv == IqairTypeOK /\ Buckets /\ Kept /\ CurrentOnce /\ CurrentStands /\ Rows

-----------------------------------------------------------------------------
(* Reports.                                                                  *)

\* The values vs all come from one report, of the instant t, about a part.
Report(vs, part, from, t) ==
    /\ vs \in [Measure -> Reported \cup {Nothing}]
    /\ \A f \in Measure : vs[f] # Nothing =>
          PartOf(f) = part /\ vs[f] \in Reported /\ vs[f].from = from /\ vs[f].at = t

LEMMA ReportValues ==
    ASSUME NEW part \in Part, NEW from \in {"current", "history"}, NEW t \in Instant,
           NEW fields, \A f \in fields : PartOf(f) = part, NEW said \in Said(fields)
    PROVE  Report(Values(said, from, t), part, from, t)
<1> DEFINE vs == Values(said, from, t)
<1>1. vs \in [Measure -> Reported \cup {Nothing}]
  BY DEF Values, Reported
<1>2. ASSUME NEW f \in Measure, vs[f] # Nothing
      PROVE  /\ f \in fields
             /\ vs[f] = [from |-> from, at |-> t, good |-> said[f] = "good"]
  <2>1. DOMAIN said = fields
    BY DEF Said
  <2> QED BY <1>2, <2>1 DEF Values
<1>3. ASSUME NEW f \in Measure, vs[f] # Nothing
      PROVE  PartOf(f) = part /\ vs[f] \in Reported /\ vs[f].from = from /\ vs[f].at = t
  <2>1. f \in fields /\ vs[f] = [from |-> from, at |-> t, good |-> said[f] = "good"]
    BY <1>2, <1>3
  <2> HIDE DEF vs
  <2> QED BY <2>1 DEF Reported
<1> QED BY <1>1, <1>3 DEF Report

\* What a Tell adds.
LEMMA Told ==
    ASSUME NEW vs \in [Measure -> Reported \cup {Nothing}], Tell(vs),
           told \subseteq [field : Measure, value : Reported]
    PROVE  /\ told' \subseteq [field : Measure, value : Reported]
           /\ told \subseteq told'
           /\ \A f \in Measure : vs[f] # Nothing => Rec(f, vs[f]) \in told'
           /\ \A r \in told' : r \in told \/ (vs[r.field] # Nothing /\ r.value = vs[r.field] /\ r.field \in Measure)
BY DEF Tell, Rec

LEMMA NewIsSound ==
    ASSUME NEW h, NEW H, NEW W, NEW T
    PROVE  Sound(h, NewBucket, H, W, T) /\ NewBucket \in Bucket
BY IqairAssumption DEF Sound, SoundValue, SoundPart, NewBucket, Bucket, Part

LEMMA SoundMore ==
    ASSUME NEW h, NEW b, NEW H, NEW W, NEW T, NEW U, T \subseteq U, Sound(h, b, H, W, T)
    PROVE  Sound(h, b, H, W, U)
BY DEF Sound, SoundValue

\* Before any weather is read the hour of the current weather does not matter.
LEMMA SoundAnyWeather ==
    ASSUME NEW h, NEW b, NEW H, NEW W, NEW V, NEW T, Sound(h, b, H, W, T),
           b.filled = {}, b.src["w"] = Nothing
    PROVE  Sound(h, b, H, V, T)
<1>1. ASSUME NEW f \in Measure PROVE SoundValue(f, h, b, H, V, T)
  <2>1. SoundValue(f, h, b, H, W, T)
    BY DEF Sound
  <2> QED BY <2>1 DEF SoundValue, Replaceable
<1>2. ASSUME NEW part \in Part PROVE SoundPart(part, h, b, H, V)
  <2>1. SoundPart(part, h, b, H, W)
    BY DEF Sound
  <2> QED BY <2>1 DEF SoundPart, Part
<1> QED BY <1>1, <1>2 DEF Sound

-----------------------------------------------------------------------------
(* A report is merged into a bucket, or fills it.                            *)

LEMMA JoinedFields ==
    ASSUME NEW b \in Bucket, NEW part \in Part, NEW t \in Instant, NEW s \in {0, 1},
           NEW vs \in [Measure -> Reported \cup {Nothing}]
    PROVE  /\ Joined(b, part, vs, t, s) \in Bucket
           /\ Joined(b, part, vs, t, s).filled = b.filled
           /\ Joined(b, part, vs, t, s).overlap = b.overlap
           /\ \A f \in Measure : Joined(b, part, vs, t, s).vals[f] = IF vs[f] # Nothing THEN vs[f] ELSE b.vals[f]
           /\ \A q \in Part :
                /\ Joined(b, part, vs, t, s).src[q] =
                     IF q = part /\ b.src[q] = Nothing THEN t ELSE b.src[q]
                /\ Joined(b, part, vs, t, s).shift[q] =
                     IF q = part /\ b.shift[q] = Nothing THEN s ELSE b.shift[q]
BY DEF Joined, Default, Bucket

LEMMA FilledFields ==
    ASSUME NEW b \in Bucket, NEW part \in Part, NEW t \in Instant,
           NEW vs \in [Measure -> Reported \cup {Nothing}]
    PROVE  /\ Filled(b, part, vs, t) \in Bucket
           /\ Filled(b, part, vs, t).filled = b.filled \cup {f \in Measure : vs[f] # Nothing /\ b.vals[f] = Nothing}
           /\ Filled(b, part, vs, t).src = b.src
           /\ Filled(b, part, vs, t).shift = b.shift
           /\ \A f \in Measure : Filled(b, part, vs, t).vals[f] = IF b.vals[f] = Nothing THEN vs[f] ELSE b.vals[f]
           /\ \A q \in Part : Filled(b, part, vs, t).overlap[q] =
                     IF q = part /\ b.overlap[q] = Nothing THEN t ELSE b.overlap[q]
BY DEF Filled, Default, Bucket

\* A merge keeps a bucket sound: a current report comes first and is not moved;
\* a past one is moved by the policy, and not to the anchor.
LEMMA JoinedIsSound ==
    ASSUME NEW h \in Nat, NEW b \in Bucket, NEW H, NEW W, NEW T, NEW part \in Part, NEW t \in Instant,
           NEW s \in {0, 1}, NEW from \in {"current", "history"}, NEW vs,
           LastHour \in Nat,
           Report(vs, part, from, t), Sound(h, b, H, W, T), t.hour + s = h,
           \A f \in Measure : vs[f] # Nothing => Rec(f, vs[f]) \in T,
           \/ /\ from = "current" /\ s = 0 /\ h = (IF part = "p" THEN H ELSE W)
              /\ b.src[part] = Nothing /\ b.filled = {}
           \/ /\ from = "history" /\ s = Shift(part) /\ t = Earlier(h, s)
              /\ Shift(part) = 1 => h # H
    PROVE  Sound(h, Joined(b, part, vs, t, s), H, W, T)
<1> DEFINE c == Joined(b, part, vs, t, s)
<1> USE DEF Report
<1>1. /\ c.filled = b.filled /\ c.overlap = b.overlap
      /\ \A f \in Measure : c.vals[f] = IF vs[f] # Nothing THEN vs[f] ELSE b.vals[f]
      /\ \A q \in Part : /\ c.src[q] = IF q = part /\ b.src[q] = Nothing THEN t ELSE b.src[q]
                         /\ c.shift[q] = IF q = part /\ b.shift[q] = Nothing THEN s ELSE b.shift[q]
  BY JoinedFields
<1>2. t # Nothing /\ s # Nothing /\ t.hour \in Nat
  BY IqairAssumption DEF Instant, ReportHour
<1>3. \A q \in Part : b.src[q] # Nothing <=> b.shift[q] # Nothing
  BY DEF Sound, SoundPart
<1> HIDE DEF c
<1>4. ASSUME NEW f \in Measure, c.vals[f] # Nothing PROVE SoundValue(f, h, c, H, W, T)
  <2>1. PartOf(f) \in Part
    BY DEF PartOf, Part
  <2>2. CASE vs[f] # Nothing
    <3>1. /\ c.vals[f] = vs[f] /\ PartOf(f) = part /\ vs[f].from = from /\ vs[f].at = t
      BY <1>1, <2>2
    <3>2. c.src[part] # Nothing /\ (b.src[part] = Nothing => c.src[part] = t /\ c.shift[part] = s)
      BY <1>1, <1>2, <1>3
    <3>3. Landing(Rec(f, vs[f])) = h
      BY <3>1 DEF Landing, Rec
    <3>4. f \notin b.filled
      BY <3>1 DEF Sound
    <3>5. from = "current" => c.src[part] = t /\ c.shift[part] = 0
      BY <3>2
    <3>6. from = "history" => \/ c.src[part] = t /\ c.shift[part] = Shift(part)
                             \/ Replaceable(part, h, H, W)
      <4>1. CASE b.src[part] = Nothing
        BY <3>2, <4>1
      <4>2. CASE b.src[part] # Nothing
        <5>1. c.src[part] = b.src[part] /\ c.shift[part] = b.shift[part]
          BY <1>1, <1>3, <4>2
        <5>2. SoundPart(part, h, b, H, W)
          BY DEF Sound
        <5>3. CASE b.src[part] = Earlier(h, Shift(part)) /\ b.shift[part] = Shift(part)
          BY <5>1, <5>3
        <5>4. CASE h = (IF part = "p" THEN H ELSE W)
          BY <4>2, <5>4 DEF Replaceable, Shift, Part
        <5> QED BY <4>2, <5>2, <5>3, <5>4 DEF SoundPart
      <4> QED BY <4>1, <4>2
    <3> QED BY <2>2, <1>1, <3>1, <3>2, <3>3, <3>4, <3>5, <3>6 DEF SoundValue
  <2>3. CASE vs[f] = Nothing
    <3>1. SoundValue(f, h, b, H, W, T) /\ c.vals[f] = b.vals[f]
      BY <1>1, <2>3 DEF Sound
    <3>2. b.src[PartOf(f)] # Nothing =>
            c.src[PartOf(f)] = b.src[PartOf(f)] /\ c.shift[PartOf(f)] = b.shift[PartOf(f)]
      BY <1>1, <1>3, <2>1
    <3>3. f \notin b.filled => b.src[PartOf(f)] # Nothing
      BY <1>4, <3>1 DEF SoundValue
    <3>4. f \in b.filled => c.vals[f].from = "history"
      BY <1>4, <3>1 DEF SoundValue
    <3> QED BY <1>1, <3>1, <3>2, <3>3, <3>4 DEF SoundValue
  <2> QED BY <2>2, <2>3
<1>5. ASSUME NEW q \in Part PROVE SoundPart(q, h, c, H, W)
  <2>1. SoundPart(q, h, b, H, W)
    BY DEF Sound
  <2>2. CASE q = part /\ b.src[q] = Nothing
    <3>1. c.src[q] = t /\ c.shift[q] = s /\ c.overlap = b.overlap
      BY <1>1, <1>3, <2>2
    <3> QED BY <1>2, <2>1, <2>2, <3>1 DEF SoundPart
  <2>3. CASE ~(q = part /\ b.src[q] = Nothing)
    <3>1. c.src[q] = b.src[q] /\ c.shift[q] = b.shift[q] /\ c.overlap = b.overlap
      BY <1>1, <1>3, <2>3
    <3> QED BY <2>1, <3>1 DEF SoundPart
  <2> QED BY <2>2, <2>3
<1>6. \A f \in c.filled : h = H /\ Shift(PartOf(f)) = 1 /\ c.overlap[PartOf(f)] # Nothing
  BY <1>1 DEF Sound
<1>7. \A f \in Measure : SoundValue(f, h, c, H, W, T)
  BY <1>4 DEF SoundValue
<1>8. Sound(h, c, H, W, T)
  BY <1>5, <1>6, <1>7 DEF Sound
<1> QED BY <1>8 DEF c

\* The entry of the hour before the anchor keeps the anchor's bucket sound.
LEMMA FilledIsSound ==
    ASSUME NEW h \in Nat, NEW b \in Bucket, NEW W, NEW T, NEW part \in Part, NEW t \in Instant, NEW vs,
           Report(vs, part, "history", t), Sound(h, b, h, W, T), t.hour + 1 = h, Shift(part) = 1, t = Earlier(h, 1),
           \A f \in Measure : vs[f] # Nothing => Rec(f, vs[f]) \in T
    PROVE  Sound(h, Filled(b, part, vs, t), h, W, T)
<1> DEFINE c == Filled(b, part, vs, t)
<1> USE DEF Report
<1>1. /\ c.filled = b.filled \cup {f \in Measure : vs[f] # Nothing /\ b.vals[f] = Nothing}
      /\ c.src = b.src /\ c.shift = b.shift
      /\ \A f \in Measure : c.vals[f] = IF b.vals[f] = Nothing THEN vs[f] ELSE b.vals[f]
      /\ \A q \in Part : c.overlap[q] = IF q = part /\ b.overlap[q] = Nothing THEN t ELSE b.overlap[q]
  BY FilledFields
<1>2. t # Nothing /\ t.hour \in Nat
  BY IqairAssumption DEF Instant, ReportHour
<1> HIDE DEF c
<1>4. ASSUME NEW f \in Measure, c.vals[f] # Nothing PROVE SoundValue(f, h, c, h, W, T)
  <2>1. PartOf(f) \in Part
    BY DEF PartOf, Part
  <2>2. CASE b.vals[f] = Nothing
    <3>1. c.vals[f] = vs[f] /\ vs[f] # Nothing /\ f \in c.filled
      BY <1>1, <1>4, <2>2
    <3>2. PartOf(f) = part /\ vs[f].from = "history" /\ vs[f].at = t
      BY <3>1
    <3>3. Landing(Rec(f, vs[f])) = h
      BY <3>2 DEF Landing, Rec
    <3>4. c.overlap[part] = t
      <4>1. b.overlap[part] # Nothing => b.overlap[part] = Earlier(h, 1)
        BY DEF Sound, SoundPart
      <4> QED BY <1>1, <4>1
    <3> QED BY <3>1, <3>2, <3>3, <3>4 DEF SoundValue
  <2>3. CASE b.vals[f] # Nothing
    <3>1. SoundValue(f, h, b, h, W, T) /\ c.vals[f] = b.vals[f] /\ (f \in c.filled <=> f \in b.filled)
      BY <1>1, <2>3 DEF Sound
    <3>2. f \in b.filled => c.overlap[PartOf(f)] = b.overlap[PartOf(f)]
      <4>1. f \in b.filled => b.overlap[PartOf(f)] # Nothing
        BY DEF Sound
      <4> QED BY <1>1, <2>1, <4>1
    <3> QED BY <1>1, <3>1, <3>2 DEF SoundValue
  <2> QED BY <2>2, <2>3
<1>5. ASSUME NEW q \in Part PROVE SoundPart(q, h, c, h, W)
  <2>1. SoundPart(q, h, b, h, W)
    BY DEF Sound
  <2>2. c.overlap[q] # Nothing => c.overlap[q] = Earlier(h, 1)
    BY <1>1, <1>2, <2>1 DEF SoundPart
  <2> QED BY <1>1, <2>1, <2>2 DEF SoundPart
<1>6. ASSUME NEW f \in c.filled PROVE Shift(PartOf(f)) = 1 /\ c.overlap[PartOf(f)] # Nothing
  <2>1. PartOf(f) \in Part
    BY DEF PartOf, Part
  <2>2. CASE f \in b.filled
    <3>1. Shift(PartOf(f)) = 1 /\ b.overlap[PartOf(f)] # Nothing
      BY <2>2 DEF Sound
    <3> QED BY <1>1, <1>2, <2>1, <3>1
  <2>3. CASE f \notin b.filled
    <3>1. PartOf(f) = part
      BY <1>1, <1>6, <2>3
    <3> QED BY <1>1, <1>2, <3>1
  <2> QED BY <2>2, <2>3
<1>7. \A f \in Measure : SoundValue(f, h, c, h, W, T)
  BY <1>4 DEF SoundValue
<1>8. Sound(h, c, h, W, T)
  BY <1>5, <1>6, <1>7 DEF Sound
<1> QED BY <1>8 DEF c

-----------------------------------------------------------------------------
(* The state after a report was read.                                        *)

LEMMA Fields ==
    /\ Measure = Pollution \cup Weather
    /\ \A f \in Pollution : PartOf(f) = "p"
    /\ \A f \in Weather : PartOf(f) = "w"
BY IqairAssumption DEF PartOf, Measure

\* A new bucket of the hour h that keeps what it has and takes what is told.
Absorbs(h, vs) ==
    /\ h \in BucketHour
    /\ bucket' \in [BucketHour -> Bucket]
    /\ made' = made \cup {h}
    /\ \A k \in BucketHour : k # h => bucket'[k] = bucket[k]
    /\ \A f \in Measure :
          /\ vs[f] # Nothing \/ bucket[h].vals[f] # Nothing => bucket'[h].vals[f] # Nothing
          /\ vs[f] = Nothing => bucket'[h].vals[f] = bucket[h].vals[f]

LEMMA MergeAbsorbs ==
    ASSUME IqairTypeOK, NEW part \in Part, NEW t \in Instant, NEW s \in {0, 1}, NEW h \in BucketHour,
           NEW vs \in [Measure -> Reported \cup {Nothing}], Merge(part, vs, t, s, h)
    PROVE  Absorbs(h, vs) /\ bucket'[h] = Joined(bucket[h], part, vs, t, s)
<1>1. bucket \in [BucketHour -> Bucket] /\ bucket[h] \in Bucket
  BY DEF IqairTypeOK
<1>2. bucket' = [bucket EXCEPT ![h] = Joined(bucket[h], part, vs, t, s)] /\ made' = made \cup {h}
  BY DEF Merge
<1>3. /\ Joined(bucket[h], part, vs, t, s) \in Bucket
      /\ \A f \in Measure : Joined(bucket[h], part, vs, t, s).vals[f]
                              = IF vs[f] # Nothing THEN vs[f] ELSE bucket[h].vals[f]
  BY <1>1, JoinedFields
<1> QED BY <1>1, <1>2, <1>3 DEF Absorbs

LEMMA FillAbsorbs ==
    ASSUME IqairTypeOK, NEW part \in Part, NEW t \in Instant, anchor # Nothing,
           NEW vs \in [Measure -> Reported \cup {Nothing}], Fill(part, vs, t)
    PROVE  Absorbs(anchor, vs) /\ bucket'[anchor] = Filled(bucket[anchor], part, vs, t)
<1>1. bucket \in [BucketHour -> Bucket] /\ anchor \in BucketHour /\ bucket[anchor] \in Bucket
  BY IqairAssumption DEF IqairTypeOK, ReportHour, BucketHour
<1>2. bucket' = [bucket EXCEPT ![anchor] = Filled(bucket[anchor], part, vs, t)] /\ made' = made \cup {anchor}
  BY DEF Fill
<1>3. /\ Filled(bucket[anchor], part, vs, t) \in Bucket
      /\ \A f \in Measure : Filled(bucket[anchor], part, vs, t).vals[f]
                              = IF bucket[anchor].vals[f] = Nothing THEN vs[f] ELSE bucket[anchor].vals[f]
  BY <1>1, FilledFields
<1> QED BY <1>1, <1>2, <1>3 DEF Absorbs

LEMMA SoundBuckets ==
    ASSUME policy' = policy, \A k \in BucketHour : Sound(k, bucket'[k], anchor', observed', told')
    PROVE  Buckets'
BY DEF Buckets, Sound, SoundValue, SoundPart, Shift, Landing, Replaceable

\* One sound bucket more makes all sound.
LEMMA BucketsKept ==
    ASSUME NEW h \in BucketHour, NEW vs \in [Measure -> Reported \cup {Nothing}], Absorbs(h, vs), Tell(vs),
           told \subseteq [field : Measure, value : Reported], policy' = policy,
           \A k \in BucketHour : Sound(k, bucket[k], anchor', observed', told),
           Sound(h, bucket'[h], anchor', observed', told')
    PROVE  Buckets'
<1>1. ASSUME NEW k \in BucketHour PROVE Sound(k, bucket'[k], anchor', observed', told')
  <2>1. told \subseteq told'
    BY Told
  <2>2. Sound(k, bucket[k], anchor', observed', told')
    BY <2>1, SoundMore
  <2> QED BY <2>2 DEF Absorbs
<1> QED BY <1>1, SoundBuckets

LEMMA KeptAfter ==
    ASSUME IqairTypeOK, Kept, section # "done", NEW h \in BucketHour, NEW part \in Part,
           NEW from \in {"current", "history"}, NEW t \in Instant, NEW vs, Report(vs, part, from, t),
           h = t.hour + (IF from = "history" THEN Shift(part) ELSE 0),
           Absorbs(h, vs), Tell(vs), policy' = policy
    PROVE  Kept'
<1>1. ASSUME NEW r \in told' PROVE Landing(r) \in made' /\ bucket'[Landing(r)].vals[r.field] # Nothing
  <2>1. vs \in [Measure -> Reported \cup {Nothing}] /\ told \subseteq [field : Measure, value : Reported]
    BY DEF Report, IqairTypeOK
  <2>2. CASE r \in told
    <3>1. Landing(r) \in made /\ bucket[Landing(r)].vals[r.field] # Nothing /\ r.field \in Measure
      BY <2>1, <2>2 DEF Kept
    <3>2. made \subseteq BucketHour
      BY DEF IqairTypeOK
    <3> QED BY <3>1, <3>2 DEF Absorbs
  <2>3. CASE r \notin told
    <3>1. vs[r.field] # Nothing /\ r.value = vs[r.field] /\ r.field \in Measure
      BY <2>1, <2>3, Told
    <3>2. Landing(r) = h
      BY <3>1 DEF Report, Landing
    <3> QED BY <3>1, <3>2 DEF Absorbs
  <2> QED BY <2>2, <2>3
<1> QED BY <1>1 DEF Kept, Landing, Shift

LEMMA AbsorbedType ==
    ASSUME IqairTypeOK, NEW h \in BucketHour, NEW vs \in [Measure -> Reported \cup {Nothing}],
           Absorbs(h, vs), Tell(vs)
    PROVE  /\ bucket' \in [BucketHour -> Bucket] /\ made' \subseteq BucketHour
           /\ told' \subseteq [field : Measure, value : Reported]
BY Told DEF Absorbs, IqairTypeOK

-----------------------------------------------------------------------------
(* The steps.                                                                *)

LEMMA InitHolds == IqairInit => IqairInv
<1> SUFFICES ASSUME IqairInit PROVE IqairInv
  OBVIOUS
<1>1. NewBucket \in Bucket /\ \A h \in BucketHour : Sound(h, bucket[h], anchor, observed, told)
  BY NewIsSound DEF IqairInit
<1>2. IqairTypeOK
  <2>1. bucket \in [BucketHour -> Bucket]
    BY <1>1 DEF IqairInit
  <2>2. 0 \in 0 .. MaxReports
    BY IqairAssumption
  <2> QED BY <2>1, <2>2 DEF IqairInit, IqairTypeOK, Section
<1>3. Kept /\ CurrentOnce /\ CurrentStands /\ Rows
  BY DEF IqairInit, Kept, CurrentOnce, CurrentStands, Rows
<1> QED BY <1>1, <1>2, <1>3 DEF IqairInv, Buckets

\* A step that reads nothing.
LEMMA Skip ==
    ASSUME IqairInv, UNCHANGED <<policy, anchor, bucket, made, told, observed>>,
           section # "done", section' \in Section \ {"done", "current_pollution"}, length' \in 0 .. MaxReports,
           section' = "current_weather" => section = "current_pollution"
    PROVE  IqairInv'
<1>1. IqairTypeOK'
  BY DEF IqairInv, IqairTypeOK
<1>2. Buckets'
  <2>1. \A k \in BucketHour : Sound(k, bucket[k], anchor, observed, told)
    BY DEF IqairInv, Buckets
  <2>2. bucket' = bucket /\ anchor' = anchor /\ observed' = observed /\ told' = told /\ policy' = policy
    OBVIOUS
  <2>3. \A k \in BucketHour : Sound(k, bucket'[k], anchor', observed', told')
    BY <2>1, <2>2
  <2> QED BY <2>2, <2>3, SoundBuckets
<1>3. Kept' /\ CurrentStands' /\ Rows'
  BY DEF IqairInv, Kept, CurrentStands, Rows, Shift, Landing
<1>4. CurrentOnce'
  <2>1. CurrentOnce /\ NewBucket.filled = {} /\ NewBucket.src["w"] = Nothing
    BY DEF IqairInv, NewBucket, Part
  <2>2. section = "current_pollution" =>
          told = {} /\ \A h \in BucketHour : bucket[h].filled = {} /\ bucket[h].src["w"] = Nothing
    BY <2>1 DEF CurrentOnce
  <2> QED BY <2>1, <2>2 DEF CurrentOnce
<1> QED BY <1>1, <1>2, <1>3, <1>4 DEF IqairInv

LEMMA CurrentPollutionKeeps == ASSUME IqairInv, CurrentPollution PROVE IqairInv'
<1>1. PICK t \in Instant, said \in Said(Pollution) :
        /\ anchor' = t.hour
        /\ Merge("p", Values(said, "current", t), t, 0, t.hour)
        /\ Tell(Values(said, "current", t))
  BY DEF CurrentPollution
<1> DEFINE vs == Values(said, "current", t)
<1>2. t.hour \in ReportHour /\ t.hour \in BucketHour /\ t.hour \in Nat
  BY IqairAssumption DEF Instant, ReportHour, BucketHour
<1>3. Report(vs, "p", "current", t)
  BY <1>2, ReportValues, Fields DEF Part
<1> HIDE DEF vs
<1>4. IqairTypeOK /\ told = {} /\ bucket = [h \in BucketHour |-> NewBucket] /\ section' = "current_weather"
      /\ observed' = observed /\ policy' = policy /\ length' = length /\ section # "done"
  BY DEF IqairInv, CurrentOnce, CurrentPollution
<1>5. vs \in [Measure -> Reported \cup {Nothing}]
  BY <1>3 DEF Report
<1>6. Absorbs(t.hour, vs) /\ bucket'[t.hour] = Joined(bucket[t.hour], "p", vs, t, 0)
  BY <1>1, <1>2, <1>4, <1>5, MergeAbsorbs DEF vs, Part
<1>7. Tell(vs)
  BY <1>1 DEF vs
<1>8. \A f \in Measure : vs[f] # Nothing => Rec(f, vs[f]) \in told'
  BY <1>4, <1>5, <1>7, Told
<1>9. Sound(t.hour, bucket'[t.hour], anchor', observed', told')
  <2>1. NewBucket \in Bucket /\ Sound(t.hour, NewBucket, anchor', observed', told') /\ bucket[t.hour] = NewBucket
    BY <1>2, <1>4, NewIsSound
  <2>2. NewBucket.src["p"] = Nothing /\ NewBucket.filled = {}
    BY DEF NewBucket, Part
  <2>3. Sound(t.hour, Joined(NewBucket, "p", vs, t, 0), anchor', observed', told')
    BY <1>1, <1>2, <1>3, <1>8, <2>1, <2>2, JoinedIsSound, IqairAssumption DEF Part
  <2> QED BY <1>6, <2>1, <2>3
<1>10. Buckets'
  <2>1. \A k \in BucketHour : Sound(k, bucket[k], anchor', observed', told)
    BY <1>4, NewIsSound
  <2> QED BY <1>2, <1>4, <1>5, <1>6, <1>7, <1>9, <2>1, BucketsKept DEF IqairTypeOK
<1>11. Kept'
  <2>1. Kept
    BY DEF IqairInv
  <2>2. "p" \in Part /\ "current" \in {"current", "history"} /\ "current" # "history" /\ t.hour = t.hour + 0
    BY <1>2 DEF Part
  <2> QED BY <1>2, <1>3, <1>4, <1>6, <1>7, <2>1, <2>2, KeptAfter
<1>12. \A r \in told' : r.field \in Measure /\ r.value = vs[r.field] /\ vs[r.field] # Nothing
                        /\ r.value.from = "current" /\ r.value.at = t /\ PartOf(r.field) = "p"
  <2>1. told \subseteq [field : Measure, value : Reported]
    BY <1>4
  <2>2. \A r \in told' : vs[r.field] # Nothing /\ r.value = vs[r.field] /\ r.field \in Measure
    BY <1>4, <1>5, <1>7, <2>1, Told
  <2> QED BY <1>3, <2>2 DEF Report
<1>13. CurrentOnce'
  <2>1. ASSUME NEW h \in BucketHour PROVE bucket'[h].filled = {} /\ bucket'[h].src["w"] = Nothing
    <3>1. NewBucket.filled = {} /\ NewBucket.src["w"] = Nothing /\ NewBucket \in Bucket
      BY NewIsSound DEF NewBucket, Part
    <3>2. CASE h = t.hour
      <4>1. bucket[t.hour] = NewBucket /\ "p" \in Part /\ "w" \in Part /\ 0 \in {0, 1}
        BY <1>2, <1>4 DEF Part
      <4>2. Joined(NewBucket, "p", vs, t, 0).filled = {} /\ Joined(NewBucket, "p", vs, t, 0).src["w"] = Nothing
        BY <1>5, <3>1, <4>1, JoinedFields
      <4> QED BY <1>6, <3>2, <4>1, <4>2
    <3>3. CASE h # t.hour
      BY <1>4, <1>6, <3>1, <3>3 DEF Absorbs
    <3> QED BY <3>2, <3>3
  <2> QED BY <1>1, <1>4, <1>12, <2>1 DEF CurrentOnce
<1>14. CurrentStands'
  <2>1. \A f \in Measure : vs[f] # Nothing => bucket'[t.hour].vals[f] = vs[f]
    <3>1. bucket[t.hour] \in Bucket /\ "p" \in Part /\ 0 \in {0, 1}
      BY <1>2, <1>4 DEF Part, IqairTypeOK
    <3> QED BY <1>5, <1>6, <3>1, JoinedFields
  <2> QED BY <1>12, <2>1 DEF CurrentStands
<1>15. Rows'
  BY <1>4 DEF Rows
<1>16. IqairTypeOK'
  BY <1>1, <1>2, <1>4, <1>5, <1>6, <1>7, AbsorbedType DEF IqairTypeOK, Section
<1> QED BY <1>10, <1>11, <1>13, <1>14, <1>15, <1>16 DEF IqairInv

LEMMA CurrentWeatherKeeps == ASSUME IqairInv, CurrentWeather PROVE IqairInv'
<1>1. PICK t \in Instant \cup (IF anchor = Nothing THEN {} ELSE {[hour |-> anchor, minute |-> 0]}),
           said \in Said(Weather) :
        /\ Merge("w", Values(said, "current", t), t, 0, t.hour) /\ Tell(Values(said, "current", t))
        /\ observed' = t.hour
  BY DEF CurrentWeather
<1> DEFINE vs == Values(said, "current", t)
<1>2. t \in Instant /\ t.hour \in ReportHour /\ t.hour \in BucketHour /\ t.hour \in Nat
  BY IqairAssumption DEF Instant, ReportHour, BucketHour, IqairInv, IqairTypeOK
<1>3. Report(vs, "w", "current", t)
  BY <1>2, ReportValues, Fields DEF Part
<1>4. /\ IqairTypeOK /\ Kept /\ CurrentOnce /\ CurrentStands /\ Buckets
      /\ section = "current_weather" /\ section' = "pollution_history"
      /\ policy' = policy /\ length' = length /\ anchor' = anchor
  BY DEF IqairInv, CurrentWeather
<1>5. vs \in [Measure -> Reported \cup {Nothing}]
  BY <1>3 DEF Report
<1> HIDE DEF vs
<1>6. Absorbs(t.hour, vs) /\ bucket'[t.hour] = Joined(bucket[t.hour], "w", vs, t, 0)
  BY <1>1, <1>2, <1>4, <1>5, MergeAbsorbs DEF vs, Part
<1>7. Tell(vs)
  BY <1>1 DEF vs
<1>8. /\ told \subseteq [field : Measure, value : Reported]
      /\ told \subseteq told' /\ \A f \in Measure : vs[f] # Nothing => Rec(f, vs[f]) \in told'
  BY <1>4, <1>5, <1>7, Told DEF IqairTypeOK
<1>9. bucket[t.hour] \in Bucket /\ bucket[t.hour].filled = {} /\ bucket[t.hour].src["w"] = Nothing
  BY <1>2, <1>4 DEF CurrentOnce, IqairTypeOK
<1>10. Buckets'
  <2>1. \A k \in BucketHour : Sound(k, bucket[k], anchor', observed', told)
    BY <1>4, SoundAnyWeather DEF Buckets, CurrentOnce
  <2>2. Sound(t.hour, bucket[t.hour], anchor', observed', told')
    BY <1>2, <1>8, <2>1, SoundMore
  <2>3. Sound(t.hour, bucket'[t.hour], anchor', observed', told')
    BY <1>1, <1>2, <1>3, <1>6, <1>8, <1>9, <2>2, JoinedIsSound, IqairAssumption DEF Part
  <2> QED BY <1>2, <1>4, <1>5, <1>6, <1>7, <1>8, <2>1, <2>3, BucketsKept
<1>11. Kept'
  <2>1. "w" \in Part /\ "current" \in {"current", "history"} /\ "current" # "history" /\ t.hour = t.hour + 0
    BY <1>2 DEF Part
  <2> QED BY <1>2, <1>3, <1>4, <1>6, <1>7, <2>1, KeptAfter
<1>12. \A r \in told' : r \in told \/ (/\ r.field \in Measure /\ r.value = vs[r.field] /\ vs[r.field] # Nothing
                        /\ r.value.from = "current" /\ r.value.at = t /\ PartOf(r.field) = "w")
  BY <1>3, <1>5, <1>7, <1>8, Told DEF Report
<1>13. CurrentOnce'
  BY <1>4, <1>12 DEF CurrentOnce
<1>14. ASSUME NEW r \in told', r.value.from = "current",
              PartOf(r.field) = "w" => Shift("w") = 1 /\ r.value.at.hour = anchor
       PROVE  bucket'[r.value.at.hour].vals[r.field] = r.value
  <2>1. \A f \in Measure : vs[f] # Nothing => bucket'[t.hour].vals[f] = vs[f]
    BY <1>2, <1>5, <1>6, <1>9, JoinedFields DEF Part
  <2>2. CASE r \notin told
    BY <1>12, <1>14, <2>1, <2>2
  <2>3. CASE r \in told
    <3>1. r.field \in Measure /\ PartOf(r.field) = "p" /\ r.value.at.hour \in BucketHour
          /\ bucket[r.value.at.hour].vals[r.field] = r.value
      <4>1. r \in [field : Measure, value : Reported] /\ PartOf(r.field) = "p"
        BY <1>4, <1>8, <2>3 DEF CurrentOnce
      <4>2. r.value.at.hour \in BucketHour
        BY <4>1, IqairAssumption DEF Reported, Instant, ReportHour, BucketHour
      <4> QED BY <1>4, <1>14, <2>3, <4>1, <4>2 DEF CurrentStands
    <3>2. vs[r.field] = Nothing
      BY <1>3, <3>1 DEF Report
    <3> QED BY <1>6, <3>1, <3>2 DEF Absorbs
  <2> QED BY <2>2, <2>3
<1>15. CurrentStands'
  BY <1>4, <1>14 DEF CurrentStands, Shift
<1>16. Rows'
  BY <1>4 DEF Rows
<1>17. IqairTypeOK'
  BY <1>1, <1>2, <1>4, <1>5, <1>6, <1>7, AbsorbedType DEF IqairTypeOK, Section
<1> QED BY <1>10, <1>11, <1>13, <1>15, <1>16, <1>17 DEF IqairInv

\* Reading a past report, of either list.
LEMMA PastKeeps ==
    ASSUME IqairInv, NEW part \in Part, NEW fields, \A f \in fields : PartOf(f) = part,
           NEW t \in Instant, t.minute = 0, Past(part, fields, t), section \in {"pollution_history", "weather_history"},
           length' \in 0 .. MaxReports, UNCHANGED <<policy, section, anchor, observed>>
    PROVE  IqairInv'
<1>1. PICK said \in Said(fields) :
        /\ IF (part = "w" => Shift("w") # 0) /\ IsOverlap(t.hour)
           THEN Fill(part, Values(said, "history", t), t)
           ELSE Merge(part, Values(said, "history", t), t, Shift(part), t.hour + Shift(part))
        /\ Tell(Values(said, "history", t))
  BY DEF Past
<1> DEFINE vs == Values(said, "history", t)
           h == t.hour + Shift(part)
<1>2. t.hour \in ReportHour /\ h \in BucketHour /\ h \in Nat /\ Shift(part) \in {0, 1} /\ t.hour \in Nat
  <2>1. t.hour \in ReportHour /\ t.hour \in Nat /\ t.hour <= LastHour
    BY IqairAssumption DEF Instant, ReportHour
  <2>2. Shift(part) \in {0, 1}
    BY DEF Shift
  <2>3. Shift(part) \in Int /\ 0 <= Shift(part) /\ Shift(part) <= 1
    BY ONLY <2>2
  <2> QED BY <2>1, <2>2, <2>3, IqairAssumption DEF BucketHour
<1>3. Report(vs, part, "history", t)
  BY <1>2, ReportValues
<1>4. IqairTypeOK /\ Kept /\ CurrentOnce /\ CurrentStands /\ Buckets
  BY DEF IqairInv
<1>5. vs \in [Measure -> Reported \cup {Nothing}] /\ Tell(vs)
  BY <1>1, <1>3 DEF Report
<1>6. /\ told \subseteq [field : Measure, value : Reported]
      /\ told \subseteq told' /\ \A f \in Measure : vs[f] # Nothing => Rec(f, vs[f]) \in told'
      /\ \A r \in told' : r \in told \/ (r.field \in Measure /\ r.value = vs[r.field] /\ r.value.from = "history")
  <2>1. told \subseteq [field : Measure, value : Reported]
    BY <1>4 DEF IqairTypeOK
  <2> QED BY <1>3, <1>5, <2>1, Told DEF Report
<1>7. bucket[h] \in Bucket /\ Sound(h, bucket[h], anchor, observed, told')
  BY <1>2, <1>4, <1>6, SoundMore DEF Buckets, IqairTypeOK
<1>8. anchor = Nothing \/ anchor \in Nat
  BY <1>4, IqairAssumption DEF IqairTypeOK, ReportHour
<1>9. /\ Absorbs(h, vs)
      /\ Sound(h, bucket'[h], anchor, observed, told')
      /\ h = anchor /\ Shift(part) = 1 =>
           \A f \in Measure : bucket[h].vals[f] # Nothing => bucket'[h].vals[f] = bucket[h].vals[f]
  <2>1. CASE (part = "w" => Shift("w") # 0) /\ IsOverlap(t.hour)
    <3>1. Shift(part) = 1 /\ anchor # Nothing
      BY <2>1 DEF IsOverlap, Shift, Part
    <3>2. anchor = h /\ h = t.hour + 1
      BY <1>2, <1>8, <2>1, <3>1 DEF IsOverlap
    <3>3. Fill(part, vs, t)
      BY <1>1, <2>1
    <3> HIDE DEF vs, h
    <3>4. Absorbs(h, vs) /\ bucket'[h] = Filled(bucket[h], part, vs, t)
      BY <1>4, <1>5, <3>1, <3>2, <3>3, FillAbsorbs
    <3>0. t = Earlier(h, 1)
      BY <1>2, <3>2 DEF Earlier, Instant
    <3>5. Sound(h, Filled(bucket[h], part, vs, t), h, observed, told')
      BY <1>2, <1>3, <1>6, <1>7, <3>1, <3>2, <3>0, FilledIsSound
    <3>6. \A f \in Measure : bucket[h].vals[f] # Nothing => bucket'[h].vals[f] = bucket[h].vals[f]
      BY <1>5, <1>7, <3>4, FilledFields
    <3> QED BY <3>2, <3>4, <3>5, <3>6
  <2>2. CASE ~((part = "w" => Shift("w") # 0) /\ IsOverlap(t.hour))
    <3>1. Shift(part) = 1 => h # anchor
      <4>1. SUFFICES ASSUME Shift(part) = 1, h = anchor PROVE FALSE
        OBVIOUS
      <4>2. anchor # Nothing /\ anchor - t.hour = 1
        BY <1>2, <4>1, IqairAssumption
      <4>3. part = "w" => Shift("w") # 0
        BY <4>1
      <4> QED BY <2>2, <4>2, <4>3 DEF IsOverlap
    <3>2. Merge(part, vs, t, Shift(part), h)
      BY <1>1, <2>2
    <3>3. t.hour + Shift(part) = h
      OBVIOUS
    <3> HIDE DEF vs, h
    <3>4. Absorbs(h, vs) /\ bucket'[h] = Joined(bucket[h], part, vs, t, Shift(part))
      BY <1>2, <1>4, <1>5, <3>2, MergeAbsorbs
    <3>0. t = Earlier(h, Shift(part))
      BY <1>2, <3>3 DEF Earlier, Instant
    <3>5. Sound(h, Joined(bucket[h], part, vs, t, Shift(part)), anchor, observed, told')
      BY <1>2, <1>3, <1>6, <1>7, <3>1, <3>3, <3>0, JoinedIsSound, IqairAssumption
    <3> QED BY <3>1, <3>4, <3>5
  <2> QED BY <2>1, <2>2
<1> HIDE DEF vs
<1>10. Buckets'
  <2>1. \A k \in BucketHour : Sound(k, bucket[k], anchor', observed', told)
    BY <1>4 DEF Buckets
  <2> HIDE DEF h
  <2> QED BY <1>2, <1>5, <1>6, <1>9, <2>1, BucketsKept
<1>11. Kept'
  <2>1. h = t.hour + (IF "history" = "history" THEN Shift(part) ELSE 0)
    OBVIOUS
  <2>2. "history" \in {"current", "history"} /\ section # "done"
    OBVIOUS
  <2> HIDE DEF h
  <2> QED BY <1>2, <1>3, <1>4, <1>5, <1>9, <2>1, <2>2, KeptAfter
<1> HIDE DEF h
<1>12. CurrentOnce'
  BY <1>4, <1>6 DEF CurrentOnce
<1>13. ASSUME NEW r \in told', r.value.from = "current",
              PartOf(r.field) = "w" => Shift("w") = 1 /\ r.value.at.hour = anchor
       PROVE  bucket'[r.value.at.hour].vals[r.field] = r.value
  <2>1. r \in told
    BY <1>6, <1>13
  <2>2. r \in [field : Measure, value : Reported]
    BY <1>6, <2>1
  <2>3. r.value.at.hour \in BucketHour
    BY <2>2, IqairAssumption DEF Reported, Instant, ReportHour, BucketHour
  <2>4. bucket[r.value.at.hour].vals[r.field] = r.value /\ r.value # Nothing
    BY <1>4, <1>13, <2>1, <2>2, IqairAssumption DEF CurrentStands
  <2>5. r.value.at.hour = anchor /\ Shift(PartOf(r.field)) = 1
    <3>1. PartOf(r.field) \in {"p", "w"}
      BY DEF PartOf
    <3>2. CASE PartOf(r.field) = "p"
      BY <1>4, <1>13, <2>1, <3>2 DEF CurrentOnce, Shift
    <3>3. CASE PartOf(r.field) = "w"
      BY <1>13, <3>3
    <3> QED BY <3>1, <3>2, <3>3
  <2>6. CASE r.value.at.hour # h \/ vs[r.field] = Nothing
    BY <1>9, <2>2, <2>3, <2>4, <2>6 DEF Absorbs
  <2>7. CASE r.value.at.hour = h /\ vs[r.field] # Nothing
    <3>1. PartOf(r.field) = part
      BY <1>3, <2>2, <2>7 DEF Report
    <3> QED BY <1>9, <2>2, <2>4, <2>5, <2>7, <3>1
  <2> QED BY <2>6, <2>7
<1>14. CurrentStands'
  BY <1>13 DEF CurrentStands, Shift
<1>15. Rows'
  BY DEF Rows
<1>16. IqairTypeOK'
  <2>1. /\ bucket' \in [BucketHour -> Bucket] /\ made' \subseteq BucketHour
        /\ told' \subseteq [field : Measure, value : Reported]
    BY <1>2, <1>4, <1>5, <1>9, AbsorbedType
  <2> QED BY <1>4, <2>1 DEF IqairTypeOK
<1> QED BY <1>10, <1>11, <1>12, <1>14, <1>15, <1>16 DEF IqairInv

LEMMA HourInstant == ASSUME NEW t \in Instant PROVE norm_hour(t) \in Instant /\ norm_hour(t).minute = 0
BY IqairAssumption DEF Instant, norm_hour

LEMMA PollutionHistoryKeeps == ASSUME IqairInv, PollutionHistory PROVE IqairInv'
<1>1. PICK t \in Instant : Past("p", Pollution, norm_hour(t))
  BY DEF PollutionHistory
<1>2. length' \in 0 .. MaxReports
  BY IqairAssumption DEF PollutionHistory, IqairInv, IqairTypeOK
<1>3. "p" \in Part
  BY DEF Part
<1> QED BY <1>1, <1>2, <1>3, HourInstant, Fields, PastKeeps DEF PollutionHistory

LEMMA WeatherHistoryKeeps == ASSUME IqairInv, WeatherHistory PROVE IqairInv'
<1>1. PICK t \in Instant : Past("w", Weather, norm_hour(t))
  BY DEF WeatherHistory
<1>2. length' \in 0 .. MaxReports
  BY IqairAssumption DEF WeatherHistory, IqairInv, IqairTypeOK
<1>3. "w" \in Part
  BY DEF Part
<1> QED BY <1>1, <1>2, <1>3, HourInstant, Fields, PastKeeps DEF WeatherHistory

\* Taking faulty values out keeps a bucket sound.
LEMMA QuarantinedIsSound ==
    ASSUME NEW h, NEW b \in Bucket, NEW H, NEW W, NEW T, Sound(h, b, H, W, T)
    PROVE  /\ Quarantined(b) \in Bucket /\ Sound(h, Quarantined(b), H, W, T)
           /\ \A f \in Measure : Quarantined(b).vals[f] =
                IF b.vals[f] # Nothing /\ b.vals[f].good THEN b.vals[f] ELSE Nothing
<1> DEFINE c == Quarantined(b)
<1>1. /\ c \in Bucket /\ c.src = b.src /\ c.shift = b.shift /\ c.overlap = b.overlap /\ c.filled = b.filled
      /\ \A f \in Measure : c.vals[f] = IF b.vals[f] # Nothing /\ b.vals[f].good THEN b.vals[f] ELSE Nothing
  BY DEF Quarantined, Bucket
<1> HIDE DEF c
<1>2. \A f \in Measure : SoundValue(f, h, c, H, W, T)
  BY <1>1 DEF Sound, SoundValue
<1>3. \A part \in Part : SoundPart(part, h, c, H, W)
  BY <1>1 DEF Sound, SoundPart
<1>4. Sound(h, c, H, W, T)
  BY <1>1, <1>2, <1>3 DEF Sound
<1> QED BY <1>1, <1>4 DEF c

LEMMA ValidateKeeps == ASSUME IqairInv, Validate PROVE IqairInv'
<1>1. /\ IqairTypeOK /\ Buckets /\ Kept /\ CurrentOnce /\ CurrentStands
      /\ section # "done" /\ section' = "done"
      /\ UNCHANGED <<policy, anchor, length, told, observed>>
      /\ made' = {h \in made : Accepted(h)}
      /\ bucket' = [h \in BucketHour |-> IF h \in made' THEN Quarantined(bucket[h]) ELSE NewBucket]
  BY DEF IqairInv, Validate
<1>2. ASSUME NEW h \in BucketHour
      PROVE  /\ bucket'[h] \in Bucket /\ Sound(h, bucket'[h], anchor', observed', told')
             /\ h \in made' => \A f \in Measure : bucket'[h].vals[f] =
                  IF bucket[h].vals[f] # Nothing /\ bucket[h].vals[f].good THEN bucket[h].vals[f] ELSE Nothing
  <2>1. bucket[h] \in Bucket /\ Sound(h, bucket[h], anchor, observed, told)
    BY <1>1 DEF IqairTypeOK, Buckets
  <2>2. CASE h \in made'
    BY <1>1, <2>1, <2>2, QuarantinedIsSound
  <2>3. CASE h \notin made'
    BY <1>1, <2>3, NewIsSound
  <2> QED BY <2>2, <2>3
<1>3. Buckets'
  BY <1>1, <1>2, SoundBuckets
<1>4. IqairTypeOK'
  <2>1. bucket' \in [BucketHour -> Bucket]
    BY <1>1, <1>2
  <2>2. made' \subseteq BucketHour
    BY <1>1 DEF IqairTypeOK
  <2> QED BY <1>1, <2>1, <2>2 DEF IqairTypeOK, Section
<1>5. Kept' /\ CurrentOnce'
  BY <1>1 DEF Kept, CurrentOnce
<1>6. ASSUME NEW r \in told
      PROVE  /\ r.field \in Measure /\ r.value \in Reported /\ Landing(r) \in BucketHour
             /\ Landing(r) \in made /\ bucket[Landing(r)].vals[r.field] # Nothing
             /\ r.value.from = "current" => Landing(r) = r.value.at.hour
  <2>1. r.field \in Measure /\ r.value \in Reported
    BY <1>1 DEF IqairTypeOK
  <2>2. Landing(r) \in made /\ bucket[Landing(r)].vals[r.field] # Nothing
    BY <1>1 DEF Kept
  <2>3. r.value.from = "current" => Landing(r) = r.value.at.hour
    BY <2>1, IqairAssumption DEF Landing, Reported, Instant, ReportHour
  <2> QED BY <1>1, <2>1, <2>2, <2>3 DEF IqairTypeOK
<1>7. ASSUME NEW r \in told, r.value.from = "current",
             PartOf(r.field) = "w" => Shift("w") = 1 /\ r.value.at.hour = anchor,
             r.value.good /\ Accepted(r.value.at.hour)
      PROVE  bucket'[r.value.at.hour].vals[r.field] = r.value
  <2>1. bucket[r.value.at.hour].vals[r.field] = r.value
    BY <1>1, <1>7 DEF CurrentStands
  <2>2. r.value.at.hour \in made' /\ r.value.at.hour \in BucketHour
    BY <1>1, <1>6, <1>7
  <2>3. r.value # Nothing
    BY <1>6, IqairAssumption
  <2> QED BY <1>2, <1>6, <1>7, <2>1, <2>2, <2>3
<1>8. CurrentStands'
  <2>1. told' = told /\ policy' = policy /\ anchor' = anchor /\ section' = "done"
    BY <1>1
  <2> QED BY <1>7, <2>1 DEF CurrentStands, Shift, Accepted
<1>9. ASSUME NEW r \in told, Accepted(Landing(r))
      PROVE  /\ Landing(r) \in made'
             /\ \/ bucket'[Landing(r)].vals[r.field] # Nothing
                \/ \E o \in told : o.field = r.field /\ Landing(o) = Landing(r) /\ ~o.value.good
  <2> DEFINE v == bucket[Landing(r)].vals[r.field]
             o == Rec(r.field, v)
  <2>1. Landing(r) \in made' /\ v # Nothing
    BY <1>1, <1>6, <1>9
  <2>2. CASE v.good
    <3>1. bucket'[Landing(r)].vals[r.field] = v
      BY <1>2, <1>6, <2>1, <2>2
    <3> QED BY <2>1, <3>1
  <2>3. CASE ~v.good
    <3>1. SoundValue(r.field, Landing(r), bucket[Landing(r)], anchor, observed, told)
      BY <1>1, <1>6 DEF Buckets, Sound
    <3>2. o \in told /\ Landing(o) = Landing(r) /\ o.field = r.field /\ o.value = v
      BY <2>1, <3>1 DEF SoundValue, Rec
    <3> QED BY <2>1, <2>3, <3>2
  <2> QED BY <2>2, <2>3
<1>10. Rows'
  <2>1. told' = told /\ policy' = policy
    BY <1>1
  <2> QED BY <1>9, <2>1 DEF Rows, Landing, Shift, Accepted
<1> QED BY <1>3, <1>4, <1>5, <1>8, <1>10 DEF IqairInv

LEMMA NextPayloadKeeps == ASSUME IqairInv, NextPayload PROVE IqairInv'
<1>1. /\ IqairTypeOK /\ section' = "current_pollution" /\ told' = {} /\ anchor' = Nothing /\ made' = {}
      /\ observed' = Nothing
      /\ bucket' = [h \in BucketHour |-> NewBucket] /\ length' = length
      /\ policy' \in {"iqair_station_v1", "iqair_city_v1"}
  BY DEF IqairInv, NextPayload
<1>2. NewBucket \in Bucket
  BY NewIsSound
<1>3. bucket' \in [BucketHour -> Bucket]
  BY <1>1, <1>2
<1>4. IqairTypeOK'
  BY <1>1, <1>3 DEF IqairTypeOK, Section
<1>5. Buckets'
  <2>1. /\ NewBucket.filled = {} /\ \A f \in Measure : NewBucket.vals[f] = Nothing
        /\ \A part \in Part : /\ NewBucket.src[part] = Nothing /\ NewBucket.overlap[part] = Nothing
                             /\ NewBucket.shift[part] = Nothing
        /\ Nothing # 0 /\ Nothing # 1
    BY IqairAssumption DEF NewBucket
  <2>2. \A h \in BucketHour : bucket'[h] = NewBucket
    BY <1>1
  <2> QED BY <2>1, <2>2 DEF Buckets, Sound, SoundValue, SoundPart
<1>6. Kept' /\ CurrentOnce' /\ CurrentStands' /\ Rows'
  BY <1>1 DEF Kept, CurrentOnce, CurrentStands, Rows
<1> QED BY <1>4, <1>5, <1>6 DEF IqairInv

LEMMA StepHolds == IqairInv /\ [IqairNext]_iqairVars => IqairInv'
<1> SUFFICES ASSUME IqairInv, [IqairNext]_iqairVars PROVE IqairInv'
  OBVIOUS
<1>1. CASE NoCurrentPollution
  <2>1. length' \in 0 .. MaxReports
    BY <1>1 DEF NoCurrentPollution, IqairInv, IqairTypeOK
  <2> QED BY <1>1, <2>1, Skip DEF NoCurrentPollution, Section
<1>2. CASE NoCurrentWeather
  <2>1. length' \in 0 .. MaxReports
    BY <1>2 DEF NoCurrentWeather, IqairInv, IqairTypeOK
  <2> QED BY <1>2, <2>1, Skip DEF NoCurrentWeather, Section
<1>3. CASE EndOfHistory
  <2>1. length' \in 0 .. MaxReports
    BY <1>3, IqairAssumption DEF EndOfHistory
  <2> QED BY <1>3, <2>1, Skip DEF EndOfHistory, Section
<1>4. CASE UNCHANGED iqairVars
  <2>1. IqairTypeOK' /\ Kept' /\ CurrentOnce' /\ CurrentStands' /\ Rows'
    BY <1>4 DEF iqairVars, IqairInv, IqairTypeOK, Kept, CurrentOnce, CurrentStands, Rows, Shift, Landing
  <2>2. \A k \in BucketHour : Sound(k, bucket'[k], anchor', observed', told')
    BY <1>4 DEF iqairVars, IqairInv, Buckets
  <2>3. Buckets'
    BY <1>4, <2>2, SoundBuckets DEF iqairVars
  <2> QED BY <2>1, <2>3 DEF IqairInv
<1> QED
  BY <1>1, <1>2, <1>3, <1>4, CurrentPollutionKeeps, CurrentWeatherKeeps, PollutionHistoryKeeps,
     WeatherHistoryKeeps, ValidateKeeps, NextPayloadKeeps DEF IqairNext

LEMMA IqairInvariant == IqairSpec => []IqairInv
BY InitHolds, StepHolds, PTL DEF IqairSpec

-----------------------------------------------------------------------------
(* Theorems.                                                                 *)

\* Every reachable state of the extraction is well typed.
THEOREM IqairTypeCorrect == IqairSpec => []IqairTypeOK
<1>1. IqairInv => IqairTypeOK
  BY DEF IqairInv
<1> QED BY <1>1, IqairInvariant, PTL

\* An hour the provider reported a good value for has a value it reported for that
\* hour, for lists of any length in any order.
THEOREM NothingLost == IqairSpec => []NothingReportedIsLost
<1>1. ASSUME IqairInv PROVE NothingReportedIsLost
  <2>1. SUFFICES ASSUME section = "done", NEW r \in told, Accepted(Landing(r)),
                        \A o \in told : o.field = r.field /\ Landing(o) = Landing(r) => o.value.good
                 PROVE  /\ Landing(r) \in made
                        /\ LET v == bucket[Landing(r)].vals[r.field]
                           IN  /\ Rec(r.field, v) \in told
                               /\ Landing(Rec(r.field, v)) = Landing(r)
    BY DEF NothingReportedIsLost, Rec
  <2>2. Landing(r) \in made /\ bucket[Landing(r)].vals[r.field] # Nothing
    BY <1>1, <2>1 DEF IqairInv, Rows
  <2>3. r.field \in Measure /\ Landing(r) \in BucketHour
    BY <1>1, <2>1, <2>2 DEF IqairInv, IqairTypeOK
  <2>4. SoundValue(r.field, Landing(r), bucket[Landing(r)], anchor, observed, told)
    BY <1>1, <2>3 DEF IqairInv, Buckets, Sound
  <2> QED BY <2>2, <2>4 DEF SoundValue
<1> QED BY <1>1, IqairInvariant, PTL

\* History replaces no current pollution, and no current weather of the anchor's hour
\* under a policy that moves the weather.
THEOREM CurrentNotReplaced == IqairSpec => []CurrentStands
<1>1. IqairInv => CurrentStands
  BY DEF IqairInv
<1> QED BY <1>1, IqairInvariant, PTL

\* For payloads of any length and order, the provenance of a row gives the exact
\* timestamp and shift of the report each value came from, weather that a past
\* report put into the hour of the current weather excepted.
THEOREM ProvenanceTrue == IqairSpec => []ProvenanceExplains
<1>1. ASSUME IqairInv PROVE ProvenanceExplains
  <2>1. SUFFICES ASSUME NEW h \in made, NEW f \in Measure, bucket[h].vals[f] # Nothing
                 PROVE  LET b == bucket[h]
                            v == b.vals[f]
                            part == PartOf(f)
                        IN  \/ /\ f \in b.filled
                               /\ v.from = "history" /\ b.overlap[part] = v.at /\ v.at.hour + 1 = h
                            \/ /\ f \notin b.filled
                               /\ b.src[part] = v.at /\ v.at.hour + b.shift[part] = h
                            \/ /\ part = "w" /\ v.from = "history" /\ f \notin b.filled /\ h = observed
                               /\ Shift("w") = 1 => h # anchor
    BY DEF ProvenanceExplains
  <2> DEFINE b == bucket[h]
             v == b.vals[f]
             part == PartOf(f)
  <2>2. h \in BucketHour /\ b \in Bucket
    BY <1>1 DEF IqairInv, IqairTypeOK
  <2>3. Sound(h, b, anchor, observed, told)
    BY <1>1, <2>2 DEF IqairInv, Buckets
  <2>4. SoundValue(f, h, b, anchor, observed, told)
    BY <2>3 DEF Sound
  <2>5. v.from \in {"current", "history"}
    BY <2>1, <2>2 DEF Bucket, Reported
  <2>6. v.at.hour + (IF v.from = "history" THEN Shift(part) ELSE 0) = h
    BY <2>1, <2>4 DEF SoundValue, Landing, Rec
  <2>7. CASE f \in b.filled
    <3>1. Shift(part) = 1 /\ v.from = "history" /\ b.overlap[part] = v.at
      BY <2>1, <2>3, <2>4, <2>7 DEF Sound, SoundValue
    <3> QED BY <2>6, <2>7, <3>1
  <2>8. CASE f \notin b.filled /\ v.from = "current"
    <3>1. b.src[part] = v.at /\ b.shift[part] = 0
      BY <2>1, <2>4, <2>8 DEF SoundValue
    <3> QED BY <2>6, <2>8, <3>1
  <2>9. CASE f \notin b.filled /\ v.from = "history"
    <3>1. \/ b.src[part] = v.at /\ b.shift[part] = Shift(part)
          \/ Replaceable(part, h, anchor, observed)
      BY <2>1, <2>4, <2>9 DEF SoundValue
    <3> QED BY <2>6, <2>9, <3>1 DEF Replaceable
  <2> QED BY <2>5, <2>7, <2>8, <2>9
<1> QED BY <1>1, IqairInvariant, PTL

(***************************************************************************)
(* The voice brief (VoiceBrief).  A lock of a reading is live while it is  *)
(* taken or somebody whom no recording will serve waits for it.  Those     *)
(* that are not the entry of the reading are extra: only a failure, or a   *)
(* refusal that drops the entry of another lock, makes one.                *)
(***************************************************************************)

Going(d) == {v \in Visitor : visit[v] = "synthesising" /\ started[v] = d}

\* The allowance of a day: what was paid is in the count, or was refunded to it
\* by another day's failure.
Counted ==
    /\ spendDay <= today
    /\ \A d \in VoiceDay : d > spendDay => paid[d] = 0
    /\ paid[spendDay] <= spendCount + crossed[spendDay]
    /\ \A d \in VoiceDay : Cardinality(Going(d)) <= paid[d]

\* Who synthesises has a lock of its reading for itself.
Holding ==
    /\ \A v \in Visitor : visit[v] = "synthesising" => lock[v] \in locked
    /\ \A l \in locked : \E v \in Visitor : visit[v] = "synthesising" /\ lock[v] = l
    /\ \A v, w \in Visitor :
          visit[v] = "synthesising" /\ visit[w] = "synthesising" /\ lock[v] = lock[w] => v = w
    /\ \A v \in Visitor : visit[v] \in {"waiting", "synthesising"} => ReadingOf[lock[v]] = ReadingOf[v]
    /\ \A v \in Visitor : visit[v] = "new" => v \notin locked /\ queue[v] = <<>>

\* A queue holds those who wait for its lock, each once.
Queueing ==
    /\ \A l \in Visitor : \A i \in 1 .. Len(queue[l]) :
          visit[queue[l][i]] = "waiting" /\ lock[queue[l][i]] = l
    /\ \A l \in Visitor : \A i, j \in 1 .. Len(queue[l]) : queue[l][i] = queue[l][j] => i = j
    /\ \A v \in Visitor : visit[v] = "waiting" => \E i \in 1 .. Len(queue[lock[v]]) : queue[lock[v]][i] = v

\* The entry of a reading is a taken lock, and there is none beside a recording.
Entries ==
    /\ \A k \in Reading : lockFor[k] # NoLock => lockFor[k] \in locked /\ ReadingOf[lockFor[k]] = k
    /\ \A k \in recorded : lockFor[k] = NoLock

Live(k) == {l \in Visitor : ReadingOf[l] = k /\ (l \in locked \/ (queue[l] # <<>> /\ k \notin recorded))}
Extra(k) == Live(k) \ {lockFor[k]}
ExtraIsPaidFor == \A k \in Reading : Cardinality(Extra(k)) <= failed[k] + displaced[k]

VoiceInv == VoiceTypeOK /\ Counted /\ PaidWithinLimit /\ Holding /\ Queueing /\ Entries /\ ExtraIsPaidFor

-----------------------------------------------------------------------------
LEMMA VoiceVarsUnchanged == UNCHANGED voiceVars => UNCHANGED <<today, spendDay, spendCount, recorded,
        lockFor, lock, locked, queue, visit, started, paid, crossed, failed, displaced>>
BY DEF voiceVars, spend, locks

\* The sizes of subsets.
LEMMA NoMore ==
    ASSUME NEW S, NEW T, IsFiniteSet(S), T \subseteq S
    PROVE  /\ Cardinality(S) \in Nat /\ IsFiniteSet(T)
           /\ Cardinality(T) \in Nat /\ Cardinality(T) <= Cardinality(S)
BY FS_Subset, FS_CardinalityType

LEMMA OneMore ==
    ASSUME NEW S, NEW T, NEW x, IsFiniteSet(S), T \subseteq S \cup {x}
    PROVE  /\ Cardinality(S) \in Nat /\ IsFiniteSet(T)
           /\ Cardinality(T) \in Nat /\ Cardinality(T) <= Cardinality(S) + 1
<1>1. Cardinality(S) \in Nat
  BY FS_CardinalityType
<1>2. IsFiniteSet(S \cup {x}) /\ Cardinality(S \cup {x}) <= Cardinality(S) + 1
  BY <1>1, FS_AddElement
<1>3. IsFiniteSet(T) /\ Cardinality(T) <= Cardinality(S \cup {x})
  BY <1>2, NoMore
<1>4. Cardinality(T) \in Nat /\ Cardinality(S \cup {x}) \in Nat
  BY <1>2, <1>3, FS_CardinalityType
<1> QED BY <1>1, <1>2, <1>3, <1>4

LEMMA OneLess ==
    ASSUME NEW S, NEW T, NEW x \in S, IsFiniteSet(S), T \subseteq S \ {x}
    PROVE  /\ Cardinality(S) \in Nat /\ IsFiniteSet(T)
           /\ Cardinality(T) \in Nat /\ Cardinality(T) <= Cardinality(S) - 1
<1>1. Cardinality(S) \in Nat
  BY FS_CardinalityType
<1>2. IsFiniteSet(S \ {x}) /\ Cardinality(S \ {x}) = Cardinality(S) - 1
  BY <1>1, FS_RemoveElement
<1>3. IsFiniteSet(T) /\ Cardinality(T) <= Cardinality(S \ {x})
  BY <1>2, NoMore
<1>4. Cardinality(T) \in Nat
  BY <1>3, FS_CardinalityType
<1> QED BY <1>1, <1>2, <1>3, <1>4

LEMMA VoiceInitially == VoiceInit => VoiceInv
<1> SUFFICES ASSUME VoiceInit PROVE VoiceInv
  OBVIOUS
<1> USE VoiceAssumption DEF VoiceInit
<1>1. VoiceTypeOK
  BY EmptySeq DEF VoiceTypeOK, VoiceDay, Visit
<1>2. \A d \in VoiceDay : Going(d) = {}
  BY DEF Going
<1>3. \A k \in Reading : Extra(k) = {}
  BY DEF Extra, Live
<1>4. Counted
  <2>1. Cardinality({}) = 0
    BY FS_EmptySet
  <2>2. ASSUME NEW d \in VoiceDay PROVE Cardinality(Going(d)) <= paid[d]
    <3>1. paid[d] = 0
      OBVIOUS
    <3>2. Cardinality(Going(d)) = 0
      BY <1>2, <2>1
    <3> QED BY <3>1, <3>2
  <2>3. spendDay \in VoiceDay /\ paid[spendDay] <= spendCount + crossed[spendDay]
    BY DEF VoiceDay
  <2> QED BY <2>2, <2>3 DEF Counted
<1>5. PaidWithinLimit
  BY DEF PaidWithinLimit, VoiceDay
<1>6. Holding
  BY DEF Holding
<1>7. Queueing
  BY EmptySeq DEF Queueing
<1>8. Entries
  BY DEF Entries
<1>9. ExtraIsPaidFor
  <2>1. Cardinality({}) = 0
    BY FS_EmptySet
  <2>2. ASSUME NEW k \in Reading PROVE Cardinality(Extra(k)) <= failed[k] + displaced[k]
    <3>1. failed[k] + displaced[k] = 0
      OBVIOUS
    <3>2. Cardinality(Extra(k)) = 0
      BY <1>3, <2>1
    <3> QED BY <3>1, <3>2
  <2> QED BY <2>2 DEF ExtraIsPaidFor
<1> QED BY <1>1, <1>4, <1>5, <1>6, <1>7, <1>8, <1>9 DEF VoiceInv

-----------------------------------------------------------------------------
\* The numbers of the allowance, as the arithmetic steps need them.
LEMMA Numbers ==
    ASSUME VoiceTypeOK
    PROVE  /\ SynthLimit \in Nat /\ spendCount \in Nat /\ spendCount <= SynthLimit
           /\ VoiceDay \subseteq Nat /\ today \in VoiceDay /\ spendDay \in VoiceDay
           /\ \A d \in VoiceDay : paid[d] \in Nat /\ crossed[d] \in Nat
           /\ CountToday \in Nat /\ CountToday <= SynthLimit
BY VoiceAssumption DEF VoiceTypeOK, VoiceDay, CountToday

(* The allowance.                                                            *)

\* What a visitor does to the allowance when the lock is his.
LEMMA AccountKeepsType ==
    ASSUME VoiceTypeOK, NEW v \in Visitor, Account(v)
    PROVE  /\ spendDay' \in VoiceDay /\ spendCount' \in 0 .. SynthLimit
           /\ started' \in [Visitor -> VoiceDay]
           /\ paid' \in [VoiceDay -> Nat] /\ crossed' = crossed /\ failed' = failed
           /\ Outcome(v) \in {"served", "synthesising", "refused"}
<1>0. /\ today \in VoiceDay /\ spendDay \in VoiceDay /\ spendCount \in 0 .. SynthLimit /\ SynthLimit \in Nat
      /\ started \in [Visitor -> VoiceDay] /\ paid \in [VoiceDay -> Nat]
  BY VoiceAssumption DEF VoiceTypeOK
<1>a. CountToday \in 0 .. SynthLimit
  BY <1>0 DEF CountToday
<1>1. CASE Outcome(v) = "served"
  BY <1>0, <1>1 DEF Account, spend
<1>2. CASE Outcome(v) = "synthesising"
  <2>1. Pay(v) /\ WithinDailyCap
    BY <1>2 DEF Account, Outcome
  <2>2. spendDay' \in VoiceDay /\ spendCount' \in 0 .. SynthLimit
    <3>1. CountToday < SynthLimit /\ spendDay' = today /\ spendCount' = CountToday + 1
      BY <2>1 DEF Pay, WithinDailyCap
    <3> QED BY <1>0, <1>a, <3>1
  <2>3. started' \in [Visitor -> VoiceDay]
    <3>1. started' = [started EXCEPT ![v] = today]
      BY <2>1 DEF Pay
    <3> QED BY <1>0, <3>1
  <2>4. paid' \in [VoiceDay -> Nat]
    <3>1. paid' = [paid EXCEPT ![today] = @ + 1]
      BY <2>1 DEF Pay
    <3> QED BY <1>0, <3>1
  <2>5. crossed' = crossed /\ failed' = failed
    BY <2>1 DEF Pay
  <2> QED BY <1>2, <2>2, <2>3, <2>4, <2>5
<1>3. CASE Outcome(v) \notin {"served", "synthesising"}
  <2>1. CapReached /\ Outcome(v) = "refused"
    BY <1>3 DEF Account, Outcome
  <2>2. spendDay' = today /\ spendCount' = CountToday /\ UNCHANGED <<started, paid, crossed, failed>>
    BY <2>1 DEF CapReached
  <2> QED BY <1>0, <1>a, <2>1, <2>2
<1> QED BY <1>1, <1>2, <1>3

LEMMA AccountIsCounted ==
    ASSUME VoiceInv, NEW v \in Visitor, visit[v] # "synthesising",
           Account(v), Becomes(v, Outcome(v)), today' = today
    PROVE  Counted' /\ PaidWithinLimit'
<1> USE VoiceAssumption DEF VoiceInv
<1>0. /\ VoiceTypeOK /\ Counted /\ PaidWithinLimit
      /\ spendDay' \in VoiceDay /\ paid' \in [VoiceDay -> Nat] /\ started' \in [Visitor -> VoiceDay]
  BY AccountKeepsType
<1>a. \A d \in VoiceDay : IsFiniteSet(Going(d)) /\ Cardinality(Going(d)) \in Nat
  BY FS_Subset, FS_CardinalityType DEF Going
<1>1. CASE Outcome(v) # "synthesising"
  <2>1. paid' = paid /\ crossed' = crossed /\ started' = started
    BY <1>1 DEF Account, CapReached, spend, Outcome
  <2>2. \A d \in VoiceDay : Going(d)' = Going(d)
    BY <1>0, <1>1, <2>1 DEF Going, Becomes, VoiceTypeOK
  <2>3. \/ spendDay' = spendDay /\ spendCount' = spendCount
        \/ spendDay' = today /\ spendCount' = CountToday
    BY <1>1 DEF Account, CapReached, spend, Outcome
  <2>4. CASE spendDay' = spendDay /\ spendCount' = spendCount
    BY <1>0, <2>1, <2>2, <2>4 DEF Counted, PaidWithinLimit
  <2>5. CASE spendDay' = today /\ spendCount' = CountToday /\ spendDay # today
    <3>1. spendDay < today /\ paid[today] = 0
      BY <1>0, <2>5, Numbers DEF Counted
    <3>2. \A d \in VoiceDay : d > today => paid[d] = 0
      BY <1>0, <3>1, Numbers DEF Counted
    <3>3. paid[today] <= CountToday + crossed[today]
      BY <1>0, <3>1, Numbers
    <3>4. today <= today /\ today \in VoiceDay
      BY <1>0, Numbers
    <3> QED BY <1>0, <2>1, <2>2, <2>5, <3>2, <3>3, <3>4 DEF Counted, PaidWithinLimit
  <2>6. CASE spendDay' = today /\ spendCount' = CountToday /\ spendDay = today
    BY <1>0, <2>1, <2>2, <2>6 DEF Counted, PaidWithinLimit, CountToday
  <2> QED BY <2>3, <2>4, <2>5, <2>6
<1>2. CASE Outcome(v) = "synthesising"
  <2>1. Pay(v) /\ WithinDailyCap
    BY <1>2 DEF Account, Outcome
  <2>2. /\ today \in VoiceDay
        /\ paid'[today] = paid[today] + 1 /\ crossed' = crossed
        /\ \A d \in VoiceDay : d # today => paid'[d] = paid[d]
        /\ spendDay' = today /\ spendCount' = CountToday + 1
    BY <1>0, <2>1 DEF Pay, VoiceTypeOK
  <2>3. paid[today] <= CountToday + crossed[today] /\ CountToday < SynthLimit
    <3>1. CASE spendDay = today
      BY <1>0, <2>1, <3>1 DEF Counted, CountToday, WithinDailyCap
    <3>2. CASE spendDay # today
      <4>1. spendDay < today /\ paid[today] = 0
        BY <1>0, <3>2, Numbers DEF Counted
      <4> QED BY <1>0, <2>1, <4>1, Numbers DEF WithinDailyCap
    <3> QED BY <3>1, <3>2
  <2>4. \A d \in VoiceDay : d # today => Going(d)' \subseteq Going(d)
    BY <1>0, <1>2, <2>1 DEF Going, Becomes, Pay, VoiceTypeOK
  <2>5. Going(today)' \subseteq Going(today) \cup {v}
    BY <1>0, <1>2, <2>1 DEF Going, Becomes, Pay, VoiceTypeOK
  <2>6. ASSUME NEW d \in VoiceDay PROVE Cardinality(Going(d)') <= paid'[d]
    <3>1. CASE d = today
      <4>1. IsFiniteSet(Going(d)) /\ Going(d)' \subseteq Going(d) \cup {v}
        BY <1>a, <2>5, <3>1
      <4>2. Cardinality(Going(d)') <= Cardinality(Going(d)) + 1 /\ Cardinality(Going(d)') \in Nat
        BY <4>1, OneMore
      <4> QED BY <1>0, <1>a, <2>2, <3>1, <4>2, Numbers DEF Counted
    <3>2. CASE d # today
      <4>1. Cardinality(Going(d)') <= Cardinality(Going(d)) /\ Cardinality(Going(d)') \in Nat
        BY <1>a, <2>4, <3>2, FS_Subset, FS_CardinalityType
      <4> QED BY <1>0, <1>a, <2>2, <3>2, <4>1, Numbers DEF Counted
    <3> QED BY <3>1, <3>2
  <2>7. spendDay' <= today' /\ \A d \in VoiceDay : d > spendDay' => paid'[d] = 0
    <3>1. spendDay <= today /\ \A d \in VoiceDay : d > spendDay => paid[d] = 0
      BY <1>0 DEF Counted
    <3>2. spendDay \in Nat /\ today \in Nat /\ VoiceDay \subseteq Nat
      BY <1>0 DEF VoiceTypeOK, VoiceDay
    <3> QED BY <1>0, <2>2, <3>1, <3>2
  <2>8. paid'[spendDay'] <= spendCount' + crossed'[spendDay']
    BY <1>0, <2>2, <2>3, Numbers
  <2>9. \A d \in VoiceDay : paid'[d] <= SynthLimit + crossed'[d]
    BY <1>0, <2>2, <2>3, Numbers DEF PaidWithinLimit
  <2> QED BY <2>6, <2>7, <2>8, <2>9 DEF Counted, PaidWithinLimit
<1> QED BY <1>1, <1>2

LEMMA RefundIsCounted ==
    ASSUME VoiceInv, NEW v \in Visitor, visit[v] = "synthesising",
           Refund(v), Becomes(v, "refused"), today' = today
    PROVE  /\ Counted' /\ PaidWithinLimit'
           /\ spendCount' \in 0 .. SynthLimit /\ paid' \in [VoiceDay -> Nat]
           /\ crossed' \in [VoiceDay -> Nat] /\ failed' \in [Reading -> Nat]
<1> USE VoiceAssumption DEF VoiceInv
<1> DEFINE s == started[v]
<1>0. VoiceTypeOK /\ Counted /\ PaidWithinLimit /\ s \in VoiceDay /\ spendDay \in VoiceDay /\ started' = started
  BY DEF VoiceTypeOK, Refund
<1>a. \A d \in VoiceDay : IsFiniteSet(Going(d)) /\ Cardinality(Going(d)) \in Nat
  BY FS_Subset, FS_CardinalityType DEF Going
<1>1. v \in Going(s)
  BY DEF Going
<1>2. Cardinality(Going(s)) > 0
  <2>1. Going(s) # {}
    BY <1>1
  <2> QED BY <1>0, <1>a, <2>1, FS_EmptySet
<1>3. paid[s] \in Nat /\ paid[s] >= 1
  BY <1>0, <1>a, <1>2 DEF Counted, VoiceTypeOK
<1>4. paid' = [paid EXCEPT ![s] = paid[s] - 1] /\ paid' \in [VoiceDay -> Nat]
  BY <1>0, <1>3 DEF Refund, VoiceTypeOK
<1>5. /\ spendCount' \in 0 .. SynthLimit
      /\ crossed' \in [VoiceDay -> Nat] /\ failed' \in [Reading -> Nat]
  <2>1. spendCount' \in 0 .. SynthLimit
    BY <1>0, Numbers DEF Refund
  <2>2. crossed' \in [VoiceDay -> Nat]
    BY <1>0 DEF Refund, VoiceTypeOK
  <2>3. failed' \in [Reading -> Nat]
    BY DEF Refund, VoiceTypeOK, VoiceInv
  <2> QED BY <2>1, <2>2, <2>3
<1>6. \A d \in VoiceDay : crossed'[d] >= crossed[d] /\ crossed[d] \in Nat /\ crossed'[d] \in Nat
  <2>1. ASSUME NEW d \in VoiceDay PROVE crossed'[d] >= crossed[d] /\ crossed[d] \in Nat /\ crossed'[d] \in Nat
    <3>1. crossed[d] \in Nat /\ crossed'[d] \in Nat
      BY <1>0, <1>5 DEF VoiceTypeOK
    <3>2. crossed'[d] = crossed[d] \/ crossed'[d] = crossed[d] + 1
      BY <1>0 DEF Refund, VoiceTypeOK
    <3> QED BY <3>1, <3>2
  <2> QED BY <2>1
<1>7. Going(s)' = Going(s) \ {v} /\ \A d \in VoiceDay : d # s => Going(d)' = Going(d)
  BY <1>0 DEF Going, Becomes, VoiceTypeOK
<1>8. ASSUME NEW d \in VoiceDay PROVE Cardinality(Going(d)') <= paid'[d]
  <2>1. CASE d = s
    <3>1. Cardinality(Going(s)') <= Cardinality(Going(s)) - 1 /\ Cardinality(Going(s)') \in Nat
      <4>1. IsFiniteSet(Going(s)) /\ v \in Going(s) /\ Going(s)' \subseteq Going(s) \ {v}
        BY <1>0, <1>1, <1>7, <1>a
      <4> HIDE DEF s
      <4> QED BY <4>1, OneLess
    <3>2. paid'[s] = paid[s] - 1
      BY <1>0, <1>4 DEF VoiceTypeOK
    <3> QED BY <1>0, <1>a, <1>3, <2>1, <3>1, <3>2 DEF Counted
  <2>2. CASE d # s
    BY <1>0, <1>4, <1>7, <2>2 DEF Counted, VoiceTypeOK
  <2> QED BY <2>1, <2>2
<1>9. spendDay' = spendDay /\ \A d \in VoiceDay : d > spendDay => paid'[d] = 0
  BY <1>0, <1>3, <1>4 DEF Counted, VoiceTypeOK, Refund, VoiceDay
<1>10. paid'[spendDay] <= spendCount' + crossed'[spendDay]
  <2>1. CASE spendDay = s
    BY <1>0, <1>3, <1>4, <2>1 DEF Counted, VoiceTypeOK, Refund, VoiceDay
  <2>2. CASE spendDay # s
    <3>1. paid'[spendDay] = paid[spendDay] /\ crossed'[spendDay] = crossed[spendDay] + 1
      BY <1>0, <1>4, <2>2 DEF VoiceTypeOK, Refund
    <3>2. spendCount' >= spendCount - 1
      BY <1>0 DEF VoiceTypeOK, Refund
    <3> QED BY <1>0, <1>5, <1>6, <3>1, <3>2, Numbers DEF Counted
  <2> QED BY <2>1, <2>2
<1>11. \A d \in VoiceDay : paid'[d] <= SynthLimit + crossed'[d]
  <2>1. \A d \in VoiceDay : paid'[d] <= paid[d] /\ paid'[d] \in Nat
    BY <1>0, <1>3, <1>4 DEF VoiceTypeOK
  <2> QED BY <1>0, <1>6, <2>1, Numbers DEF PaidWithinLimit
<1>12. spendDay' <= today'
  BY <1>0, <1>9 DEF Counted
<1> QED BY <1>4, <1>5, <1>8, <1>9, <1>10, <1>11, <1>12 DEF Counted, PaidWithinLimit

\* Nothing is paid or refunded.
LEMMA StillCounted ==
    ASSUME VoiceInv, UNCHANGED <<spendDay, spendCount, started, paid, crossed>>,
           today' \in VoiceDay, today' >= today,
           \A v \in Visitor : visit'[v] = "synthesising" => visit[v] = "synthesising"
    PROVE  Counted' /\ PaidWithinLimit'
<1>0. VoiceTypeOK /\ Counted /\ PaidWithinLimit
  BY DEF VoiceInv
<1>1. PaidWithinLimit'
  BY <1>0 DEF PaidWithinLimit
<1>2. ASSUME NEW d \in VoiceDay PROVE Cardinality(Going(d)') <= paid'[d]
  <2>1. Going(d)' \subseteq Going(d)
    BY DEF Going
  <2>2. IsFiniteSet(Going(d)) /\ Cardinality(Going(d)) \in Nat
    BY VoiceAssumption, FS_Subset, FS_CardinalityType DEF Going
  <2>3. Cardinality(Going(d)') <= Cardinality(Going(d)) /\ Cardinality(Going(d)') \in Nat
    BY <2>1, <2>2, FS_Subset, FS_CardinalityType
  <2> QED BY <1>0, <2>2, <2>3 DEF Counted, VoiceTypeOK
<1> QED BY <1>0, <1>1, <1>2 DEF Counted, VoiceTypeOK, VoiceDay

-----------------------------------------------------------------------------
(* The locks.                                                                *)

\* Extra locks are finitely many, and what a step does to a reading is one of
\* four things.
LEMMA ExtraKept ==
    ASSUME VoiceInv, NEW k \in Reading, failed'[k] \in Nat, displaced'[k] \in Nat,
           failed'[k] >= failed[k], displaced'[k] >= displaced[k],
           \/ Extra(k)' \subseteq Extra(k)
           \/ /\ \E l : Extra(k)' \subseteq Extra(k) \cup {l}
              /\ failed'[k] + displaced'[k] >= failed[k] + displaced[k] + 1
           \/ \E m : \E l \in Extra(k) : Extra(k)' \subseteq (Extra(k) \cup {m}) \ {l}
    PROVE  Cardinality(Extra(k)') <= failed'[k] + displaced'[k]
<1>1. IsFiniteSet(Extra(k)) /\ Cardinality(Extra(k)) \in Nat
  <2>1. Extra(k) \subseteq Visitor
    BY DEF Extra, Live
  <2> QED BY <2>1, VoiceAssumption, NoMore, FS_CardinalityType
<1>2. Cardinality(Extra(k)) <= failed[k] + displaced[k] /\ failed[k] \in Nat /\ displaced[k] \in Nat
  BY DEF VoiceInv, ExtraIsPaidFor, VoiceTypeOK
<1>3. CASE Extra(k)' \subseteq Extra(k)
  <2>1. Cardinality(Extra(k)') <= Cardinality(Extra(k)) /\ Cardinality(Extra(k)') \in Nat
    BY <1>1, <1>3, NoMore
  <2> QED BY <1>1, <1>2, <2>1
<1>4. CASE /\ \E l : Extra(k)' \subseteq Extra(k) \cup {l}
           /\ failed'[k] + displaced'[k] >= failed[k] + displaced[k] + 1
  <2>1. PICK l : Extra(k)' \subseteq Extra(k) \cup {l}
    BY <1>4
  <2>2. Cardinality(Extra(k)') <= Cardinality(Extra(k)) + 1 /\ Cardinality(Extra(k)') \in Nat
    BY <1>1, <2>1, OneMore
  <2> QED BY <1>1, <1>2, <1>4, <2>2
<1>5. CASE \E m : \E l \in Extra(k) : Extra(k)' \subseteq (Extra(k) \cup {m}) \ {l}
  <2>1. PICK m : \E l \in Extra(k) : Extra(k)' \subseteq (Extra(k) \cup {m}) \ {l}
    BY <1>5
  <2>2. PICK l \in Extra(k) : Extra(k)' \subseteq (Extra(k) \cup {m}) \ {l}
    BY <2>1
  <2> DEFINE S == Extra(k) \cup {m}
  <2>3. IsFiniteSet(S) /\ Cardinality(S) <= Cardinality(Extra(k)) + 1
    BY <1>1, OneMore
  <2>4. l \in S /\ Extra(k)' \subseteq S \ {l}
    BY <2>2
  <2> HIDE DEF S
  <2>5. /\ Cardinality(S) \in Nat /\ Cardinality(Extra(k)') \in Nat
        /\ Cardinality(Extra(k)') <= Cardinality(S) - 1
    BY <2>3, <2>4, OneLess
  <2> QED BY <1>1, <1>2, <2>3, <2>5
<1> QED BY <1>3, <1>4, <1>5

\* What is under way.
LEMMA EntryIsTaken ==
    ASSUME VoiceInv, NEW v \in Visitor, visit[v] = "new"
    PROVE  /\ EntryOf(v) \in Visitor /\ ReadingOf[EntryOf(v)] = ReadingOf[v]
           /\ lockFor[ReadingOf[v]] = NoLock => EntryOf(v) = v /\ v \notin locked /\ queue[v] = <<>>
           /\ lockFor[ReadingOf[v]] # NoLock => EntryOf(v) = lockFor[ReadingOf[v]] /\ EntryOf(v) \in locked
BY VoiceAssumption DEF VoiceInv, VoiceTypeOK, EntryOf, Entries, Holding

LEMMA ServedKeeps ==
    ASSUME VoiceInv, NEW v \in Visitor, Served(v)
    PROVE  VoiceInv'
<1> USE VoiceAssumption DEF VoiceInv, Served, Becomes, spend, locks
<1>1. VoiceTypeOK'
  BY DEF VoiceTypeOK, Visit
<1>2. Counted' /\ PaidWithinLimit'
  <2>1. today' \in VoiceDay /\ today' >= today
    BY Numbers
  <2>2. \A w \in Visitor : visit'[w] = "synthesising" => visit[w] = "synthesising"
    BY DEF VoiceTypeOK
  <2> QED BY <2>1, <2>2, StillCounted
<1>3. Holding'
  BY DEF Holding, VoiceTypeOK
<1>4. Queueing'
  <2>1. \A w \in Visitor : visit[w] = "waiting" <=> visit'[w] = "waiting"
    BY DEF VoiceTypeOK
  <2>2. \A l \in Visitor : \A i \in 1 .. Len(queue[l]) : queue[l][i] \in Visitor
    BY ElementOfSeq DEF VoiceTypeOK
  <2> QED BY <2>1, <2>2 DEF Queueing
<1>5. Entries'
  BY DEF Entries
<1>6. ExtraIsPaidFor'
  BY DEF ExtraIsPaidFor, Extra, Live
<1> QED BY <1>1, <1>2, <1>3, <1>4, <1>5, <1>6

LEMMA EnterKeeps ==
    ASSUME VoiceInv, NEW v \in Visitor, Enter(v)
    PROVE  VoiceInv'
<1> DEFINE k == ReadingOf[v]
<1> USE VoiceAssumption DEF VoiceInv
<1>0. /\ visit[v] = "new" /\ k \notin recorded /\ k \in Reading
      /\ today' = today /\ recorded' = recorded /\ queue' = queue /\ displaced' = displaced
      /\ Account(v) /\ Becomes(v, Outcome(v))
      /\ VoiceTypeOK /\ Counted /\ Holding /\ Queueing /\ Entries /\ ExtraIsPaidFor
      /\ v \notin locked /\ queue[v] = <<>>
  BY DEF Enter, Holding
<1>1. lockFor[k] = NoLock /\ EntryOf(v) = v
  BY <1>0, EntryIsTaken DEF Enter
<1>2. lock' = [lock EXCEPT ![v] = v]
  BY <1>1 DEF Enter
<1>3. /\ spendDay' \in VoiceDay /\ spendCount' \in 0 .. SynthLimit
      /\ started' \in [Visitor -> VoiceDay]
      /\ paid' \in [VoiceDay -> Nat] /\ crossed' = crossed /\ failed' = failed
  BY <1>0, AccountKeepsType
<1>4. Outcome(v) \in {"synthesising", "refused"}
  BY <1>0 DEF Outcome
<1>5. visit' \in [Visitor -> Visit] /\ \A w \in Visitor : visit'[w] = IF w = v THEN Outcome(v) ELSE visit[w]
  BY <1>0, <1>4 DEF Becomes, VoiceTypeOK, Visit
<1>6. lock' \in [Visitor -> Visitor] /\ \A w \in Visitor : lock'[w] = IF w = v THEN v ELSE lock[w]
  BY <1>0, <1>2 DEF VoiceTypeOK
<1>7. \/ /\ Outcome(v) = "synthesising" /\ locked' = locked \cup {v} /\ lockFor' = [lockFor EXCEPT ![k] = v]
      \/ /\ Outcome(v) = "refused" /\ locked' = locked /\ lockFor' = lockFor
  <2>1. Outcome(v) # "synthesising" => lockFor' = Dropped(v, lockFor) /\ locked' = locked
    BY DEF Enter
  <2>2. Dropped(v, lockFor) = lockFor
    BY <1>0, <1>1 DEF Dropped, VoiceTypeOK
  <2> QED BY <1>1, <1>4, <2>1, <2>2 DEF Enter
<1>8. VoiceTypeOK'
  <2>1. locked' \subseteq Visitor /\ lockFor' \in [Reading -> Visitor \cup {NoLock}]
    BY <1>0, <1>7 DEF VoiceTypeOK
  <2> QED BY <1>0, <1>3, <1>5, <1>6, <2>1 DEF VoiceTypeOK
<1>9. Counted' /\ PaidWithinLimit'
  BY <1>0, AccountIsCounted
<1>10. Holding'
  <2>1. \A w \in Visitor : visit[w] = "synthesising" => lock[w] # v
    BY <1>0 DEF Holding
  <2>2. locked' = IF Outcome(v) = "synthesising" THEN locked \cup {v} ELSE locked
    BY <1>7
  <2>3. \A w \in Visitor : visit'[w] = "synthesising" => lock'[w] \in locked'
    BY <1>0, <1>4, <1>5, <1>6, <2>2 DEF Holding
  <2>4. ASSUME NEW l \in locked' PROVE \E w \in Visitor : visit'[w] = "synthesising" /\ lock'[w] = l
    <3>1. CASE l \in locked
      BY <1>0, <1>5, <1>6, <3>1 DEF Holding
    <3>2. CASE l \notin locked
      BY <1>5, <1>6, <2>2, <2>4, <3>2
    <3> QED BY <3>1, <3>2
  <2>5. \A w, u \in Visitor :
          visit'[w] = "synthesising" /\ visit'[u] = "synthesising" /\ lock'[w] = lock'[u] => w = u
    BY <1>0, <1>5, <1>6, <2>1 DEF Holding
  <2>6. \A w \in Visitor : visit'[w] \in {"waiting", "synthesising"} => ReadingOf[lock'[w]] = ReadingOf[w]
    BY <1>0, <1>5, <1>6 DEF Holding
  <2>7. \A w \in Visitor : visit'[w] = "new" => w \notin locked' /\ queue'[w] = <<>>
    BY <1>0, <1>4, <1>5, <2>2 DEF Holding
  <2> QED BY <2>3, <2>4, <2>5, <2>6, <2>7 DEF Holding
<1>11. Queueing'
  <2>1. \A w \in Visitor : visit'[w] = "waiting" <=> visit[w] = "waiting"
    BY <1>0, <1>4, <1>5
  <2>2. \A w \in Visitor : visit[w] = "waiting" => lock'[w] = lock[w]
    BY <1>0, <1>6
  <2>3. \A l \in Visitor : \A i \in 1 .. Len(queue[l]) : queue[l][i] \in Visitor
    BY <1>0, ElementOfSeq DEF VoiceTypeOK
  <2> QED BY <1>0, <2>1, <2>2, <2>3 DEF Queueing
<1>12. Entries'
  <2>1. \A j \in Reading : lockFor'[j] = IF j = k /\ Outcome(v) = "synthesising" THEN v ELSE lockFor[j]
    BY <1>0, <1>7 DEF VoiceTypeOK
  <2>2. locked \subseteq locked' /\ (Outcome(v) = "synthesising" => v \in locked')
    BY <1>7
  <2>3. \A j \in recorded : j # k
    BY <1>0
  <2> QED BY <1>0, <2>1, <2>2, <2>3 DEF Entries, VoiceTypeOK
<1>13. ASSUME NEW j \in Reading PROVE Extra(j)' \subseteq Extra(j)
  <2>1. v \notin Live(j)
    BY <1>0 DEF Live
  <2>2. Live(j)' \subseteq Live(j) \cup (IF j = k /\ Outcome(v) = "synthesising" THEN {v} ELSE {})
    BY <1>0, <1>7 DEF Live
  <2>3. lockFor'[j] = IF j = k /\ Outcome(v) = "synthesising" THEN v ELSE lockFor[j]
    BY <1>0, <1>7 DEF VoiceTypeOK
  <2>4. NoLock \notin Live(j)
    BY DEF Live
  <2> QED BY <1>1, <2>1, <2>2, <2>3, <2>4 DEF Extra
<1>14. ExtraIsPaidFor'
  <2> SUFFICES ASSUME NEW j \in Reading PROVE Cardinality(Extra(j)') <= failed'[j] + displaced'[j]
    BY DEF ExtraIsPaidFor
  <2>1. failed'[j] = failed[j] /\ displaced'[j] = displaced[j] /\ failed[j] \in Nat /\ displaced[j] \in Nat
    BY <1>0, <1>3 DEF VoiceTypeOK
  <2> QED BY <1>13, <2>1, ExtraKept
<1> QED BY <1>8, <1>9, <1>10, <1>11, <1>12, <1>14

LEMMA WaitKeeps ==
    ASSUME VoiceInv, NEW v \in Visitor, Wait(v)
    PROVE  VoiceInv'
<1> DEFINE l == EntryOf(v)
<1> USE VoiceAssumption DEF VoiceInv
<1>0. /\ VoiceTypeOK /\ Counted /\ Holding /\ Queueing /\ Entries /\ ExtraIsPaidFor
      /\ visit[v] = "new"
      /\ UNCHANGED <<today, spendDay, spendCount, started, paid, crossed, failed,
                     recorded, lockFor, locked, displaced>>
      /\ l \in Visitor
  BY EntryIsTaken DEF Wait, spend
<1>1. l \in locked /\ ReadingOf[l] = ReadingOf[v]
  BY <1>0, EntryIsTaken DEF Wait
<1>2. l # v
  BY <1>0, <1>1 DEF Holding
<1>3. visit' \in [Visitor -> Visit] /\ \A w \in Visitor : visit'[w] = IF w = v THEN "waiting" ELSE visit[w]
  BY <1>0 DEF Wait, Becomes, VoiceTypeOK, Visit
<1>4. lock' \in [Visitor -> Visitor] /\ \A w \in Visitor : lock'[w] = IF w = v THEN l ELSE lock[w]
  BY <1>0 DEF Wait, VoiceTypeOK
<1>5. /\ queue' \in [Visitor -> Seq(Visitor)] /\ queue'[l] = Append(queue[l], v)
      /\ \A m \in Visitor : m # l => queue'[m] = queue[m]
  <2>1. queue[l] \in Seq(Visitor) /\ Append(queue[l], v) \in Seq(Visitor)
    BY <1>0, AppendProperties DEF VoiceTypeOK
  <2> QED BY <1>0, <2>1 DEF Wait, VoiceTypeOK
<1>6. /\ Len(queue[l]) \in Nat /\ Len(queue'[l]) = Len(queue[l]) + 1
      /\ \A i \in 1 .. Len(queue[l]) : queue'[l][i] = queue[l][i]
      /\ queue'[l][Len(queue[l]) + 1] = v /\ queue'[l] # <<>>
  <2> DEFINE q == queue[l]
  <2>1. q \in Seq(Visitor) /\ queue'[l] = Append(q, v)
    BY <1>0, <1>5 DEF VoiceTypeOK
  <2>2. /\ Len(q) \in Nat /\ Len(Append(q, v)) = Len(q) + 1 /\ Append(q, v) # <<>>
        /\ \A i \in 1 .. Len(q) : Append(q, v)[i] = q[i]
        /\ Append(q, v)[Len(q) + 1] = v
    <3> HIDE DEF q
    <3> QED BY <2>1, AppendProperties, LenProperties
  <2> QED BY <2>1, <2>2
<1>7. VoiceTypeOK'
  BY <1>0, <1>3, <1>4, <1>5 DEF VoiceTypeOK
<1>8. Counted' /\ PaidWithinLimit'
  <2>1. today' \in VoiceDay /\ today' >= today
    BY <1>0, Numbers
  <2>2. \A w \in Visitor : visit'[w] = "synthesising" => visit[w] = "synthesising"
    BY <1>3
  <2> QED BY <1>0, <2>1, <2>2, StillCounted
<1>9. Holding'
  <2>1. \A w \in Visitor : visit'[w] = "synthesising" <=> visit[w] = "synthesising"
    BY <1>0, <1>3
  <2>2. \A w \in Visitor : visit[w] = "synthesising" => lock'[w] = lock[w]
    BY <1>0, <1>4
  <2>3. \A w \in Visitor : visit'[w] = "new" => visit[w] = "new" /\ w # v /\ w # l
    BY <1>0, <1>1, <1>3 DEF Holding
  <2>4. \A w \in Visitor : visit'[w] \in {"waiting", "synthesising"} => ReadingOf[lock'[w]] = ReadingOf[w]
    BY <1>0, <1>1, <1>3, <1>4 DEF Holding
  <2>5. \A w \in Visitor : visit'[w] = "new" => w \notin locked' /\ queue'[w] = <<>>
    BY <1>0, <1>5, <2>3 DEF Holding
  <2> QED BY <1>0, <2>1, <2>2, <2>4, <2>5 DEF Holding
<1>10. Queueing'
  <2>1. \A m \in Visitor : \A i \in 1 .. Len(queue[m]) :
           queue[m][i] \in Visitor /\ queue[m][i] # v
    <3>1. \A m \in Visitor : \A i \in 1 .. Len(queue[m]) : queue[m][i] \in Visitor
      BY <1>0, ElementOfSeq DEF VoiceTypeOK
    <3>2. \A m \in Visitor : \A i \in 1 .. Len(queue[m]) : visit[queue[m][i]] = "waiting"
      BY <1>0 DEF Queueing
    <3> QED BY <1>0, <3>1, <3>2
  <2>2. ASSUME NEW m \in Visitor, NEW i \in 1 .. Len(queue'[m])
        PROVE  visit'[queue'[m][i]] = "waiting" /\ lock'[queue'[m][i]] = m
    <3>1. CASE m # l
      <4>1. queue'[m] = queue[m] /\ i \in 1 .. Len(queue[m])
        BY <1>5, <2>2, <3>1
      <4> QED BY <1>0, <1>3, <1>4, <2>1, <4>1 DEF Queueing
    <3>2. CASE m = l /\ i = Len(queue[l]) + 1
      BY <1>3, <1>4, <1>6, <3>2
    <3>3. CASE m = l /\ i \in 1 .. Len(queue[l])
      BY <1>0, <1>3, <1>4, <1>6, <2>1, <3>3 DEF Queueing
    <3> QED BY <1>6, <2>2, <3>1, <3>2, <3>3
  <2>3. ASSUME NEW m \in Visitor, NEW i \in 1 .. Len(queue'[m]), NEW j \in 1 .. Len(queue'[m]),
               queue'[m][i] = queue'[m][j]
        PROVE  i = j
    <3>1. CASE m # l
      <4>1. queue'[m] = queue[m] /\ i \in 1 .. Len(queue[m]) /\ j \in 1 .. Len(queue[m])
        BY <1>5, <2>3, <3>1
      <4>2. \A a, b \in 1 .. Len(queue[m]) : queue[m][a] = queue[m][b] => a = b
        BY <1>0 DEF Queueing
      <4>3. queue[m][i] = queue[m][j]
        BY <2>3, <4>1
      <4> QED BY <4>1, <4>2, <4>3
    <3>2. CASE m = l
      <4>1. i \in 1 .. Len(queue[l]) \/ i = Len(queue[l]) + 1
        BY <1>6, <3>2
      <4>2. j \in 1 .. Len(queue[l]) \/ j = Len(queue[l]) + 1
        BY <1>6, <3>2
      <4>3. \A a, b \in 1 .. Len(queue[l]) : queue[l][a] = queue[l][b] => a = b
        BY <1>0 DEF Queueing
      <4>4. \A a \in 1 .. Len(queue[l]) : queue'[l][a] = queue[l][a] /\ queue'[l][a] # v
        BY <1>0, <1>6, <2>1
      <4>5. queue'[l][i] = queue'[l][j] /\ queue'[l][Len(queue[l]) + 1] = v
        BY <1>6, <2>3, <3>2
      <4> HIDE DEF l
      <4> QED BY <4>1, <4>2, <4>3, <4>4, <4>5
    <3> QED BY <3>1, <3>2
  <2>4. ASSUME NEW w \in Visitor, visit'[w] = "waiting"
        PROVE  \E i \in 1 .. Len(queue'[lock'[w]]) : queue'[lock'[w]][i] = w
    <3>1. CASE w = v
      <4>1. lock'[w] = l /\ Len(queue[l]) + 1 \in 1 .. Len(queue'[l])
        BY <1>4, <1>6, <3>1
      <4> QED BY <1>6, <3>1, <4>1
    <3>2. CASE w # v
      <4>1. visit[w] = "waiting" /\ lock'[w] = lock[w] /\ lock[w] \in Visitor
        BY <1>0, <1>3, <1>4, <2>4, <3>2 DEF VoiceTypeOK
      <4>2. PICK i \in 1 .. Len(queue[lock[w]]) : queue[lock[w]][i] = w
        BY <1>0, <4>1 DEF Queueing
      <4>3. CASE lock[w] # l
        BY <1>5, <4>1, <4>2, <4>3
      <4>4. CASE lock[w] = l
        <5>1. i \in 1 .. Len(queue'[l]) /\ queue'[l][i] = w
          BY <1>6, <4>2, <4>4
        <5> QED BY <4>1, <4>4, <5>1
      <4> QED BY <4>3, <4>4
    <3> QED BY <3>1, <3>2
  <2> QED BY <2>2, <2>3, <2>4 DEF Queueing
<1>11. Entries'
  BY <1>0 DEF Entries
<1>12. ASSUME NEW j \in Reading PROVE Extra(j)' \subseteq Extra(j)
  BY <1>0, <1>1, <1>5 DEF Extra, Live
<1>13. ExtraIsPaidFor'
  <2> SUFFICES ASSUME NEW j \in Reading PROVE Cardinality(Extra(j)') <= failed'[j] + displaced'[j]
    BY DEF ExtraIsPaidFor
  <2>1. failed'[j] = failed[j] /\ displaced'[j] = displaced[j] /\ failed[j] \in Nat /\ displaced[j] \in Nat
    BY <1>0 DEF VoiceTypeOK
  <2> QED BY <1>12, <2>1, ExtraKept
<1> QED BY <1>7, <1>8, <1>9, <1>10, <1>11, <1>13

LEMMA ResumeKeeps ==
    ASSUME VoiceInv, NEW v \in Visitor, Resume(v)
    PROVE  VoiceInv'
<1> DEFINE l == lock[v]
           k == ReadingOf[v]
<1> USE VoiceAssumption DEF VoiceInv
<1>0. /\ VoiceTypeOK /\ Counted /\ Holding /\ Queueing /\ Entries /\ ExtraIsPaidFor
      /\ visit[v] = "waiting" /\ l \in Visitor /\ l \notin locked /\ k \in Reading
      /\ ReadingOf[l] = k /\ Head(queue[l]) = v
      /\ today' = today /\ recorded' = recorded /\ lock' = lock
      /\ Account(v) /\ Becomes(v, Outcome(v))
  BY DEF Resume, Woken, VoiceTypeOK, Holding
<1>1. /\ spendDay' \in VoiceDay /\ spendCount' \in 0 .. SynthLimit
      /\ started' \in [Visitor -> VoiceDay]
      /\ paid' \in [VoiceDay -> Nat] /\ crossed' = crossed /\ failed' = failed
      /\ Outcome(v) \in {"served", "synthesising", "refused"}
  BY <1>0, AccountKeepsType
<1>2. visit' \in [Visitor -> Visit] /\ \A w \in Visitor : visit'[w] = IF w = v THEN Outcome(v) ELSE visit[w]
  BY <1>0, <1>1 DEF Becomes, VoiceTypeOK, Visit
<1>3. /\ queue[l] \in Seq(Visitor) /\ queue[l] # <<>> /\ Len(queue[l]) \in Nat
      /\ queue[l][1] = v
  <2>1. queue[l] \in Seq(Visitor)
    BY <1>0 DEF VoiceTypeOK
  <2>2. \E i \in 1 .. Len(queue[l]) : queue[l][i] = v
    BY <1>0 DEF Queueing
  <2>3. queue[l] # <<>>
    BY <2>1, <2>2, EmptySeq
  <2> HIDE DEF l
  <2> QED BY <1>0, <2>1, <2>3, LenProperties
<1>4. /\ queue' \in [Visitor -> Seq(Visitor)] /\ queue'[l] = Tail(queue[l])
      /\ \A m \in Visitor : m # l => queue'[m] = queue[m]
  <2>1. Tail(queue[l]) \in Seq(Visitor)
    BY <1>3, HeadTailProperties
  <2> QED BY <1>0, <2>1 DEF Resume, VoiceTypeOK
<1>5. /\ Len(queue'[l]) = Len(queue[l]) - 1 /\ Len(queue[l]) >= 1
      /\ \A i \in 1 .. Len(queue'[l]) : queue'[l][i] = queue[l][i + 1]
  <2> DEFINE q == queue[l]
  <2>1. q \in Seq(Visitor) /\ q # <<>> /\ queue'[l] = Tail(q)
    BY <1>3, <1>4
  <2>2. Len(Tail(q)) = Len(q) - 1 /\ \A i \in 1 .. Len(Tail(q)) : Tail(q)[i] = q[i + 1]
    <3> HIDE DEF q
    <3> QED BY <2>1, HeadTailProperties
  <2>3. Len(q) >= 1
    <3> HIDE DEF q
    <3> QED BY <2>1, EmptySeq
  <2> QED BY <2>1, <2>2, <2>3
<1>6. /\ locked' = IF Outcome(v) = "synthesising" THEN locked \cup {l} ELSE locked
      /\ lockFor' \in [Reading -> Visitor \cup {NoLock}]
      /\ \A j \in Reading : lockFor'[j] = IF j = k /\ Outcome(v) # "synthesising" THEN NoLock ELSE lockFor[j]
  BY <1>0 DEF Resume, Dropped, VoiceTypeOK
<1>7. /\ displaced' \in [Reading -> Nat]
      /\ \A j \in Reading : displaced'[j] = IF j = k /\ Outcome(v) = "refused" /\ lockFor[k] # NoLock
                                            THEN displaced[j] + 1 ELSE displaced[j]
  <2> DEFINE more == Outcome(v) = "refused" /\ lockFor[k] # NoLock
  <2>1. displaced' = IF more THEN [displaced EXCEPT ![k] = @ + 1] ELSE displaced
    BY DEF Resume
  <2>2. displaced \in [Reading -> Nat]
    BY <1>0 DEF VoiceTypeOK
  <2> HIDE DEF more
  <2>3. /\ displaced' \in [Reading -> Nat]
        /\ \A j \in Reading : displaced'[j] = IF j = k /\ more THEN displaced[j] + 1 ELSE displaced[j]
    BY <1>0, <2>1, <2>2
  <2> QED BY <2>3 DEF more
<1>8. VoiceTypeOK'
  <2>1. locked' \subseteq Visitor
    BY <1>0, <1>6 DEF VoiceTypeOK
  <2> QED BY <1>0, <1>1, <1>2, <1>4, <1>6, <1>7, <2>1 DEF VoiceTypeOK
<1>9. Counted' /\ PaidWithinLimit'
  BY <1>0, AccountIsCounted
<1>10. Holding'
  <2>1. \A w \in Visitor : visit[w] = "synthesising" => lock[w] # l
    BY <1>0 DEF Holding
  <2>2. \A w \in Visitor : visit'[w] = "synthesising" => lock'[w] \in locked'
    BY <1>0, <1>2, <1>6 DEF Holding
  <2>3. ASSUME NEW m \in locked' PROVE \E w \in Visitor : visit'[w] = "synthesising" /\ lock'[w] = m
    <3>1. CASE m \in locked
      BY <1>0, <1>2, <3>1 DEF Holding
    <3>2. CASE m \notin locked
      BY <1>0, <1>2, <1>6, <2>3, <3>2
    <3> QED BY <3>1, <3>2
  <2>4. \A w, u \in Visitor :
          visit'[w] = "synthesising" /\ visit'[u] = "synthesising" /\ lock'[w] = lock'[u] => w = u
    BY <1>0, <1>2, <2>1 DEF Holding
  <2>5. \A w \in Visitor : visit'[w] \in {"waiting", "synthesising"} => ReadingOf[lock'[w]] = ReadingOf[w]
    BY <1>0, <1>2 DEF Holding
  <2>6. \A w \in Visitor : visit'[w] = "new" => w \notin locked' /\ queue'[w] = <<>>
    <3> SUFFICES ASSUME NEW w \in Visitor, visit'[w] = "new" PROVE w \notin locked' /\ queue'[w] = <<>>
      OBVIOUS
    <3>1. visit[w] = "new"
      BY <1>0, <1>1, <1>2
    <3>2. w # l
      BY <1>0, <1>3, <3>1 DEF Holding
    <3> QED BY <1>0, <1>4, <1>6, <3>1, <3>2 DEF Holding
  <2> QED BY <2>2, <2>3, <2>4, <2>5, <2>6 DEF Holding
<1>11. Queueing'
  <2>1. \A m \in Visitor : \A i \in 1 .. Len(queue[m]) : queue[m][i] \in Visitor
    BY <1>0, ElementOfSeq DEF VoiceTypeOK
  <2>2. \A i \in 1 .. Len(queue'[l]) : i + 1 \in 1 .. Len(queue[l]) /\ queue[l][i + 1] # v
    <3> SUFFICES ASSUME NEW i \in 1 .. Len(queue'[l]) PROVE i + 1 \in 1 .. Len(queue[l]) /\ queue[l][i + 1] # v
      OBVIOUS
    <3>1. i + 1 \in 1 .. Len(queue[l]) /\ 1 \in 1 .. Len(queue[l]) /\ i + 1 # 1
      BY <1>3, <1>5
    <3> QED BY <1>0, <1>3, <3>1 DEF Queueing
  <2>3. \A m \in Visitor : m # l => \A i \in 1 .. Len(queue[m]) : queue[m][i] # v
    BY <1>0 DEF Queueing
  <2>4. ASSUME NEW m \in Visitor, NEW i \in 1 .. Len(queue'[m])
        PROVE  visit'[queue'[m][i]] = "waiting" /\ lock'[queue'[m][i]] = m
    <3>1. CASE m # l
      <4>1. queue'[m] = queue[m] /\ i \in 1 .. Len(queue[m]) /\ queue[m][i] # v
        BY <1>4, <2>3, <2>4, <3>1
      <4> QED BY <1>0, <1>2, <2>1, <4>1 DEF Queueing
    <3>2. CASE m = l
      <4>1. queue'[m][i] = queue[l][i + 1] /\ i + 1 \in 1 .. Len(queue[l]) /\ queue[l][i + 1] # v
        BY <1>5, <2>2, <2>4, <3>2
      <4> QED BY <1>0, <1>2, <2>1, <3>2, <4>1 DEF Queueing
    <3> QED BY <3>1, <3>2
  <2>5. ASSUME NEW m \in Visitor, NEW i \in 1 .. Len(queue'[m]), NEW j \in 1 .. Len(queue'[m]),
               queue'[m][i] = queue'[m][j]
        PROVE  i = j
    <3>1. CASE m # l
      <4>1. queue'[m] = queue[m] /\ i \in 1 .. Len(queue[m]) /\ j \in 1 .. Len(queue[m])
        BY <1>4, <2>5, <3>1
      <4>2. \A a, b \in 1 .. Len(queue[m]) : queue[m][a] = queue[m][b] => a = b
        BY <1>0 DEF Queueing
      <4>3. queue[m][i] = queue[m][j]
        BY <2>5, <4>1
      <4> QED BY <4>1, <4>2, <4>3
    <3>2. CASE m = l
      <4>1. queue[l][i + 1] = queue[l][j + 1] /\ i + 1 \in 1 .. Len(queue[l]) /\ j + 1 \in 1 .. Len(queue[l])
        BY <1>5, <2>2, <2>5, <3>2
      <4>2. i + 1 = j + 1
        BY <1>0, <4>1 DEF Queueing
      <4> QED BY <4>2
    <3> QED BY <3>1, <3>2
  <2>6. ASSUME NEW w \in Visitor, visit'[w] = "waiting"
        PROVE  \E i \in 1 .. Len(queue'[lock'[w]]) : queue'[lock'[w]][i] = w
    <3>1. visit[w] = "waiting" /\ w # v /\ lock'[w] = lock[w] /\ lock[w] \in Visitor
      BY <1>0, <1>1, <1>2, <2>6 DEF VoiceTypeOK
    <3>2. PICK i \in 1 .. Len(queue[lock[w]]) : queue[lock[w]][i] = w
      BY <1>0, <3>1 DEF Queueing
    <3>3. CASE lock[w] # l
      BY <1>4, <3>1, <3>2, <3>3
    <3>4. CASE lock[w] = l
      <4>1. i # 1
        BY <1>3, <3>1, <3>2, <3>4
      <4>2. i - 1 \in 1 .. Len(queue'[l]) /\ (i - 1) + 1 = i
        BY <1>3, <1>5, <3>2, <3>4, <4>1
      <4>3. queue'[l][i - 1] = w
        BY <1>5, <3>2, <3>4, <4>2
      <4> QED BY <3>1, <3>4, <4>2, <4>3
    <3> QED BY <3>3, <3>4
  <2> QED BY <2>4, <2>5, <2>6 DEF Queueing
<1>12. Entries'
  <2>1. \A j \in Reading : lockFor'[j] # NoLock => lockFor'[j] = lockFor[j]
    BY <1>6
  <2>2. locked \subseteq locked'
    BY <1>6
  <2>3. \A j \in recorded : j \in Reading
    BY <1>0 DEF VoiceTypeOK
  <2> QED BY <1>0, <1>6, <2>1, <2>2, <2>3 DEF Entries
<1>13. ASSUME NEW j \in Reading PROVE Live(j)' \subseteq Live(j)
  <2>1. Outcome(v) = "synthesising" => k \notin recorded
    BY DEF Outcome
  <2>2. \A m \in Visitor : queue'[m] # <<>> => queue[m] # <<>>
    BY <1>3, <1>4
  <2> QED BY <1>0, <1>3, <1>6, <2>1, <2>2 DEF Live
<1>14. ExtraIsPaidFor'
  <2> SUFFICES ASSUME NEW j \in Reading PROVE Cardinality(Extra(j)') <= failed'[j] + displaced'[j]
    BY DEF ExtraIsPaidFor
  <2>1. /\ failed'[j] = failed[j] /\ failed[j] \in Nat /\ displaced[j] \in Nat /\ displaced'[j] \in Nat
        /\ displaced'[j] >= displaced[j]
    <3>1. failed[j] \in Nat /\ displaced[j] \in Nat /\ displaced'[j] \in Nat
      BY <1>0, <1>7 DEF VoiceTypeOK
    <3> QED BY <1>1, <1>7, <3>1
  <2>2. CASE lockFor'[j] = lockFor[j]
    <3>1. Extra(j)' \subseteq Extra(j)
      BY <1>13, <2>2 DEF Extra
    <3> QED BY <2>1, <3>1, ExtraKept
  <2>3. CASE lockFor'[j] # lockFor[j]
    <3>1. j = k /\ Outcome(v) # "synthesising" /\ lockFor[k] # NoLock
      BY <1>6, <2>3
    <3>2. Outcome(v) = "refused"
      <4>1. Outcome(v) = "served" => k \in recorded
        BY DEF Outcome
      <4> QED BY <1>0, <1>1, <3>1, <4>1 DEF Entries
    <3>3. failed'[j] + displaced'[j] >= failed[j] + displaced[j] + 1
      BY <1>7, <2>1, <3>1, <3>2
    <3>4. Extra(j)' \subseteq Extra(j) \cup {lockFor[j]}
      BY <1>13 DEF Extra
    <3> QED BY <2>1, <3>3, <3>4, ExtraKept
  <2> QED BY <2>2, <2>3
<1> QED BY <1>8, <1>9, <1>10, <1>11, <1>12, <1>14

\* A synthesis ends, well or not.
LEMMA ReleaseKeeps ==
    ASSUME VoiceInv, NEW v \in Visitor, visit[v] = "synthesising", Release(v), today' = today,
           NEW end \in {"served", "refused"}, Becomes(v, end),
           \/ end = "served" /\ recorded' = recorded \cup {ReadingOf[v]}
           \/ end = "refused" /\ recorded' = recorded /\ failed' = [failed EXCEPT ![ReadingOf[v]] = @ + 1]
    PROVE  Holding' /\ Queueing' /\ Entries' /\ visit' \in [Visitor -> Visit]
           /\ lockFor' \in [Reading -> Visitor \cup {NoLock}] /\ locked' \subseteq Visitor
           /\ (failed' = failed \/ end = "refused" => ExtraIsPaidFor')
<1> DEFINE l == lock[v]
           k == ReadingOf[v]
<1> USE VoiceAssumption DEF VoiceInv
<1>0. /\ VoiceTypeOK /\ Holding /\ Queueing /\ Entries /\ ExtraIsPaidFor
      /\ l \in locked /\ l \in Visitor /\ ReadingOf[l] = k /\ k \in Reading
      /\ locked' = locked \ {l} /\ lock' = lock /\ queue' = queue /\ displaced' = displaced
  BY DEF Release, VoiceTypeOK, Holding
<1>1. visit' \in [Visitor -> Visit] /\ \A w \in Visitor : visit'[w] = IF w = v THEN end ELSE visit[w]
  BY <1>0 DEF Becomes, VoiceTypeOK, Visit
<1>2. /\ lockFor' \in [Reading -> Visitor \cup {NoLock}]
      /\ \A j \in Reading : lockFor'[j] = IF j = k THEN NoLock ELSE lockFor[j]
  BY <1>0 DEF Release, Dropped, VoiceTypeOK
<1>3. locked' \subseteq Visitor
  BY <1>0 DEF VoiceTypeOK
<1>4. Holding'
  <2>1. \A w \in Visitor : visit'[w] = "synthesising" => visit[w] = "synthesising" /\ w # v
    BY <1>1
  <2>2. \A w \in Visitor : visit'[w] = "synthesising" => lock'[w] \in locked'
    BY <1>0, <2>1 DEF Holding
  <2>3. ASSUME NEW m \in locked' PROVE \E w \in Visitor : visit'[w] = "synthesising" /\ lock'[w] = m
    <3>1. PICK w \in Visitor : visit[w] = "synthesising" /\ lock[w] = m
      BY <1>0, <2>3 DEF Holding
    <3>2. w # v
      BY <1>0, <2>3, <3>1
    <3> QED BY <1>0, <1>1, <3>1, <3>2
  <2>4. \A w, u \in Visitor :
          visit'[w] = "synthesising" /\ visit'[u] = "synthesising" /\ lock'[w] = lock'[u] => w = u
    BY <1>0, <2>1 DEF Holding
  <2>5. \A w \in Visitor : visit'[w] \in {"waiting", "synthesising"} => ReadingOf[lock'[w]] = ReadingOf[w]
    BY <1>0, <1>1 DEF Holding
  <2>6. \A w \in Visitor : visit'[w] = "new" => w \notin locked' /\ queue'[w] = <<>>
    BY <1>0, <1>1 DEF Holding
  <2> QED BY <2>2, <2>3, <2>4, <2>5, <2>6 DEF Holding
<1>5. Queueing'
  <2>1. \A w \in Visitor : visit'[w] = "waiting" <=> visit[w] = "waiting"
    BY <1>1
  <2>2. \A m \in Visitor : \A i \in 1 .. Len(queue[m]) : queue[m][i] \in Visitor
    BY <1>0, ElementOfSeq DEF VoiceTypeOK
  <2> QED BY <1>0, <2>1, <2>2 DEF Queueing
<1>6. Entries'
  <2>1. \A j \in Reading : lockFor'[j] # NoLock => lockFor'[j] = lockFor[j] /\ j # k
    BY <1>2
  <2>2. \A m \in locked : ReadingOf[m] # k => m \in locked'
    BY <1>0
  <2>3. recorded' \subseteq recorded \cup {k} /\ recorded \subseteq Reading
    BY <1>0 DEF VoiceTypeOK
  <2> QED BY <1>0, <1>2, <2>1, <2>2, <2>3 DEF Entries
<1>7. ASSUME NEW j \in Reading PROVE Live(j)' \subseteq Live(j)
  BY <1>0 DEF Live
<1>8. ASSUME failed' = failed \/ end = "refused" PROVE ExtraIsPaidFor'
  <2> SUFFICES ASSUME NEW j \in Reading PROVE Cardinality(Extra(j)') <= failed'[j] + displaced'[j]
    BY DEF ExtraIsPaidFor
  <2>0. failed[j] \in Nat /\ displaced[j] \in Nat
    BY <1>0 DEF VoiceTypeOK
  <2>1. CASE lockFor'[j] = lockFor[j]
    <3>1. Extra(j)' \subseteq Extra(j)
      BY <1>7, <2>1 DEF Extra
    <3>2. failed'[j] \in Nat /\ failed'[j] >= failed[j]
      <4>1. failed \in [Reading -> Nat]
        BY <1>0 DEF VoiceTypeOK
      <4>2. CASE failed' = failed
        BY <2>0, <4>2
      <4>3. CASE failed' # failed
        <5>1. failed' = [failed EXCEPT ![k] = @ + 1]
          BY <1>8, <4>3
        <5> QED BY <2>0, <4>1, <5>1
      <4> QED BY <4>2, <4>3
    <3> QED BY <1>0, <2>0, <3>1, <3>2, ExtraKept
  <2>2. CASE lockFor'[j] # lockFor[j] /\ end = "refused"
    <3>1. j = k
      BY <1>2, <2>2
    <3>2. failed'[j] = failed[j] + 1
      BY <1>0, <2>2, <3>1 DEF VoiceTypeOK
    <3>3. Extra(j)' \subseteq Extra(j) \cup {lockFor[j]}
      BY <1>7 DEF Extra
    <3> QED BY <1>0, <2>0, <3>2, <3>3, ExtraKept
  <2>3. CASE lockFor'[j] # lockFor[j] /\ end = "served"
    <3>1. j = k /\ k \in recorded' /\ failed'[j] = failed[j]
      BY <1>2, <1>8, <2>3
    <3>2. l \notin Live(j)' /\ l \in Live(j)
      BY <1>0, <3>1 DEF Live
    <3>3. CASE lockFor[j] = l
      <4>1. Extra(j)' \subseteq Extra(j)
        BY <1>7, <3>2, <3>3 DEF Extra
      <4> QED BY <1>0, <2>0, <3>1, <4>1, ExtraKept
    <3>4. CASE lockFor[j] # l
      <4>1. l \in Extra(j) /\ Extra(j)' \subseteq (Extra(j) \cup {lockFor[j]}) \ {l}
        BY <1>7, <3>2, <3>4 DEF Extra
      <4>2. \E m : \E x \in Extra(j) : Extra(j)' \subseteq (Extra(j) \cup {m}) \ {x}
        BY <4>1
      <4>3. failed'[j] \in Nat /\ failed'[j] >= failed[j] /\ displaced'[j] \in Nat /\ displaced'[j] >= displaced[j]
        BY <1>0, <2>0, <3>1
      <4> HIDE DEF l, k
      <4> QED BY <4>2, <4>3, ExtraKept
    <3> QED BY <3>3, <3>4
  <2> QED BY <2>1, <2>2, <2>3
<1> QED BY <1>1, <1>2, <1>3, <1>4, <1>5, <1>6, <1>8

LEMMA FinishKeeps ==
    ASSUME VoiceInv, NEW v \in Visitor, Finish(v)
    PROVE  VoiceInv'
<1> USE VoiceAssumption
<1>0. /\ visit[v] = "synthesising" /\ Release(v) /\ Becomes(v, "served") /\ today' = today
      /\ recorded' = recorded \cup {ReadingOf[v]}
      /\ UNCHANGED <<spendDay, spendCount, started, paid, crossed, failed>>
      /\ VoiceTypeOK /\ UNCHANGED <<lock, queue, displaced>>
  BY DEF Finish, spend, Release, VoiceInv
<1>1. Holding' /\ Queueing' /\ Entries' /\ ExtraIsPaidFor' /\ visit' \in [Visitor -> Visit]
      /\ lockFor' \in [Reading -> Visitor \cup {NoLock}] /\ locked' \subseteq Visitor
  BY <1>0, ReleaseKeeps
<1>2. VoiceTypeOK'
  BY <1>0, <1>1 DEF VoiceTypeOK
<1>3. Counted' /\ PaidWithinLimit'
  <2>1. today' \in VoiceDay /\ today' >= today
    BY <1>0, Numbers
  <2>2. \A w \in Visitor : visit'[w] = "synthesising" => visit[w] = "synthesising"
    BY <1>0 DEF Becomes, VoiceTypeOK
  <2> QED BY <1>0, <2>1, <2>2, StillCounted
<1> QED BY <1>1, <1>2, <1>3 DEF VoiceInv

LEMMA FailureKeeps ==
    ASSUME VoiceInv, NEW v \in Visitor, Failure(v)
    PROVE  VoiceInv'
<1> USE VoiceAssumption
<1>0. /\ visit[v] = "synthesising" /\ Release(v) /\ Becomes(v, "refused") /\ today' = today
      /\ recorded' = recorded /\ Refund(v) /\ failed' = [failed EXCEPT ![ReadingOf[v]] = @ + 1]
      /\ UNCHANGED <<spendDay, started>>
      /\ VoiceTypeOK /\ UNCHANGED <<lock, queue, displaced>>
  BY DEF Failure, Release, Refund, VoiceInv
<1>1. Holding' /\ Queueing' /\ Entries' /\ ExtraIsPaidFor' /\ visit' \in [Visitor -> Visit]
      /\ lockFor' \in [Reading -> Visitor \cup {NoLock}] /\ locked' \subseteq Visitor
  BY <1>0, ReleaseKeeps
<1>2. /\ Counted' /\ PaidWithinLimit'
      /\ spendCount' \in 0 .. SynthLimit /\ paid' \in [VoiceDay -> Nat]
      /\ crossed' \in [VoiceDay -> Nat] /\ failed' \in [Reading -> Nat]
  BY <1>0, RefundIsCounted
<1>3. VoiceTypeOK'
  BY <1>0, <1>1, <1>2 DEF VoiceTypeOK
<1> QED BY <1>1, <1>2, <1>3 DEF VoiceInv

LEMMA ForgetKeeps ==
    ASSUME VoiceInv, NEW k \in Reading, Forget(k)
    PROVE  VoiceInv'
<1> USE VoiceAssumption DEF VoiceInv
<1>0. /\ VoiceTypeOK /\ Counted /\ Holding /\ Queueing /\ Entries /\ ExtraIsPaidFor
      /\ recorded' = recorded \ {k}
      /\ UNCHANGED <<today, spendDay, spendCount, started, paid, crossed, failed,
                     lockFor, lock, locked, queue, displaced, visit>>
      /\ ~ \E v \in Visitor : ReadingOf[v] = k /\ Woken(v)
  BY DEF Forget, spend, locks
<1>1. VoiceTypeOK'
  BY <1>0 DEF VoiceTypeOK
<1>2. Counted' /\ PaidWithinLimit'
  <2>1. today' \in VoiceDay /\ today' >= today
    BY <1>0, Numbers
  <2> QED BY <1>0, <2>1, StillCounted
<1>3. Holding' /\ Queueing' /\ Entries'
  BY <1>0 DEF Holding, Queueing, Entries
<1>4. ASSUME NEW j \in Reading PROVE Live(j)' \subseteq Live(j)
  <2>1. CASE j # k
    BY <1>0, <2>1 DEF Live
  <2>2. CASE j = k
    <3> SUFFICES ASSUME NEW l \in Visitor, ReadingOf[l] = k, l \notin locked, queue[l] # <<>>
                 PROVE  FALSE
      BY <1>0, <2>2 DEF Live
    <3> DEFINE q == queue[l]
    <3>1. q \in Seq(Visitor) /\ q # <<>>
      BY <1>0 DEF VoiceTypeOK
    <3>2. Head(q) = q[1] /\ q[1] \in Visitor /\ 1 \in 1 .. Len(q)
      <4> HIDE DEF q
      <4>1. Len(q) \in Nat \ {0}
        BY <3>1, EmptySeq
      <4>2. 1 \in 1 .. Len(q)
        BY <4>1
      <4> QED BY <3>1, <4>2, ElementOfSeq
    <3>3. visit[q[1]] = "waiting" /\ lock[q[1]] = l
      BY <1>0, <3>2 DEF Queueing
    <3>4. ReadingOf[q[1]] = k
      BY <1>0, <3>2, <3>3 DEF Holding
    <3>5. Woken(q[1])
      BY <3>2, <3>3 DEF Woken
    <3> QED BY <1>0, <3>2, <3>4, <3>5
  <2> QED BY <2>1, <2>2
<1>5. ExtraIsPaidFor'
  <2> SUFFICES ASSUME NEW j \in Reading PROVE Cardinality(Extra(j)') <= failed'[j] + displaced'[j]
    BY DEF ExtraIsPaidFor
  <2>1. failed[j] \in Nat /\ displaced[j] \in Nat
    BY <1>0 DEF VoiceTypeOK
  <2>2. Extra(j)' \subseteq Extra(j)
    BY <1>0, <1>4 DEF Extra
  <2> QED BY <1>0, <2>1, <2>2, ExtraKept
<1> QED BY <1>1, <1>2, <1>3, <1>5

LEMMA MidnightKeeps ==
    ASSUME VoiceInv, VoiceMidnight
    PROVE  VoiceInv'
<1>0. /\ VoiceTypeOK /\ Counted /\ Holding /\ Queueing /\ Entries /\ ExtraIsPaidFor
      /\ today < LastVoiceDay /\ today' = today + 1
      /\ UNCHANGED <<recorded, spendDay, spendCount, started, paid, crossed, failed,
                     lockFor, lock, locked, queue, displaced, visit>>
  BY DEF VoiceMidnight, spend, locks, VoiceInv
<1>1. VoiceTypeOK' /\ today' \in VoiceDay /\ today' >= today
  BY <1>0, VoiceAssumption DEF VoiceTypeOK, VoiceDay
<1>2. Counted' /\ PaidWithinLimit'
  BY <1>0, <1>1, StillCounted
<1>3. Holding' /\ Queueing' /\ Entries' /\ ExtraIsPaidFor'
  BY <1>0 DEF Holding, Queueing, Entries, ExtraIsPaidFor, Extra, Live
<1> QED BY <1>1, <1>2, <1>3 DEF VoiceInv

-----------------------------------------------------------------------------
(* The theorems.                                                             *)

LEMMA VoiceStepKeeps == VoiceInv /\ [VoiceNext]_voiceVars => VoiceInv'
<1> SUFFICES ASSUME VoiceInv, [VoiceNext]_voiceVars PROVE VoiceInv'
  OBVIOUS
<1>1. ASSUME NEW v \in Visitor, Attend(v) PROVE VoiceInv'
  BY <1>1, ServedKeeps, EnterKeeps, WaitKeeps, ResumeKeeps, FinishKeeps, FailureKeeps DEF Attend
<1>2. ASSUME NEW k \in Reading, Forget(k) PROVE VoiceInv'
  BY <1>2, ForgetKeeps
<1>3. CASE VoiceMidnight
  BY <1>3, MidnightKeeps
<1>4. CASE UNCHANGED voiceVars
  <2>1. VoiceTypeOK' /\ Counted' /\ PaidWithinLimit'
    BY <1>4, VoiceVarsUnchanged DEF VoiceInv, VoiceTypeOK, Counted, Going, PaidWithinLimit
  <2>2. Holding' /\ Entries' /\ ExtraIsPaidFor'
    BY <1>4, VoiceVarsUnchanged DEF VoiceInv, Holding, Entries, ExtraIsPaidFor, Extra, Live
  <2>3. Queueing'
    BY <1>4, VoiceVarsUnchanged DEF VoiceInv, Queueing
  <2> QED BY <2>1, <2>2, <2>3 DEF VoiceInv
<1> QED BY <1>1, <1>2, <1>3, <1>4 DEF VoiceNext

LEMMA VoiceInvariant == VoiceSpec => []VoiceInv
BY VoiceInitially, VoiceStepKeeps, PTL DEF VoiceSpec

\* The variables keep their types: in particular a refund never takes the count
\* of a day below nothing.
THEOREM VoiceTypeCorrect == VoiceSpec => []VoiceTypeOK
<1>1. VoiceInv => VoiceTypeOK
  BY DEF VoiceInv
<1> QED BY <1>1, VoiceInvariant, PTL

\* "Paid syntheses per instance per UTC day": no order of visits, failures and
\* midnights passes the limit but by the refunds of another day's failures.
\* (_within_daily_cap, _refund)
THEOREM PaidIsLimited == VoiceSpec => []PaidWithinLimit
<1>1. VoiceInv => PaidWithinLimit
  BY DEF VoiceInv
<1> QED BY <1>1, VoiceInvariant, PTL

\* Visitors of one reading wait for one synthesis, but for one more per failure
\* and per refusal that drops the entry of a lock in use, for any number of
\* visitors.  (brief_audio)
THEOREM SynthesesShared == VoiceSpec => []OneSynthesisPerReading
<1>1. VoiceInv => OneSynthesisPerReading
  <2> SUFFICES ASSUME VoiceInv, NEW k \in Reading
               PROVE  Cardinality(Synthesising(k)) <= 1 + failed[k] + displaced[k]
    BY DEF OneSynthesisPerReading
  <2> DEFINE S == Synthesising(k)
             f == [v \in S |-> lock[v]]
  <2>1. \A v \in S : v \in Visitor /\ visit[v] = "synthesising" /\ ReadingOf[v] = k
    BY DEF Synthesising
  <2>2. \A v \in S : lock[v] \in Live(k)
    BY <2>1 DEF VoiceInv, VoiceTypeOK, Holding, Live
  <2>3. \A v, w \in S : lock[v] = lock[w] => v = w
    BY <2>1 DEF VoiceInv, Holding
  <2>4. IsFiniteSet(Extra(k)) /\ Live(k) \subseteq Extra(k) \cup {lockFor[k]}
    <3>1. Extra(k) \subseteq Visitor
      BY DEF Extra, Live
    <3>2. Live(k) \subseteq Extra(k) \cup {lockFor[k]}
      BY DEF Extra
    <3> QED BY <3>1, <3>2, VoiceAssumption, NoMore
  <2>5. /\ Cardinality(Extra(k)) \in Nat /\ IsFiniteSet(Live(k))
        /\ Cardinality(Live(k)) \in Nat /\ Cardinality(Live(k)) <= Cardinality(Extra(k)) + 1
    BY <2>4, OneMore
  <2>6. f \in Injection(S, Live(k))
    <3> HIDE DEF S
    <3> QED BY <2>2, <2>3 DEF Injection, IsInjective
  <2>7. IsFiniteSet(S) /\ Cardinality(S) <= Cardinality(Live(k))
    <3> HIDE DEF S, f
    <3> QED BY <2>5, <2>6, FS_Injection
  <2>8. Cardinality(S) \in Nat
    <3> HIDE DEF S
    <3> QED BY <2>7, FS_CardinalityType
  <2>9. failed[k] \in Nat /\ displaced[k] \in Nat /\ Cardinality(Extra(k)) <= failed[k] + displaced[k]
    BY DEF VoiceInv, VoiceTypeOK, ExtraIsPaidFor
  <2> HIDE DEF S
  <2>10. Cardinality(S) <= 1 + failed[k] + displaced[k]
    BY <2>5, <2>7, <2>8, <2>9
  <2> QED BY <2>10 DEF S
<1> QED BY <1>1, VoiceInvariant, PTL

\* No wake-up is lost with the entries that are dropped: whoever waits for a lock
\* waits for a synthesis of its own reading, or for one that was woken and runs next.
THEOREM SomebodyComes ==
    VoiceSpec => [](\A v \in Visitor : visit[v] = "waiting" =>
                       \E w \in Visitor : /\ lock[w] = lock[v] /\ ReadingOf[w] = ReadingOf[v]
                                          /\ visit[w] = "synthesising" \/ Woken(w))
<1>1. ASSUME VoiceInv, NEW v \in Visitor, visit[v] = "waiting"
      PROVE  \E w \in Visitor : /\ lock[w] = lock[v] /\ ReadingOf[w] = ReadingOf[v]
                                /\ visit[w] = "synthesising" \/ Woken(w)
  <2>1. VoiceTypeOK /\ Holding /\ Queueing /\ lock[v] \in Visitor /\ queue[lock[v]] \in Seq(Visitor)
    BY <1>1 DEF VoiceInv, VoiceTypeOK
  <2>2. CASE lock[v] \in locked
    <3>1. PICK w \in Visitor : visit[w] = "synthesising" /\ lock[w] = lock[v]
      BY <2>1, <2>2 DEF Holding
    <3>2. ReadingOf[w] = ReadingOf[v]
      BY <1>1, <2>1, <3>1 DEF Holding
    <3> QED BY <3>1, <3>2
  <2>3. CASE lock[v] \notin locked
    <3>1. PICK i \in 1 .. Len(queue[lock[v]]) : queue[lock[v]][i] = v
      BY <1>1, <2>1 DEF Queueing
    <3>2. Len(queue[lock[v]]) \in Nat /\ 1 \in 1 .. Len(queue[lock[v]])
      BY <2>1, <3>1
    <3>3. /\ queue[lock[v]][1] \in Visitor /\ queue[lock[v]][1] = Head(queue[lock[v]])
          /\ visit[queue[lock[v]][1]] = "waiting" /\ lock[queue[lock[v]][1]] = lock[v]
      BY <2>1, <3>2 DEF Queueing
    <3>4. Woken(queue[lock[v]][1])
      BY <2>3, <3>3 DEF Woken
    <3>5. ReadingOf[queue[lock[v]][1]] = ReadingOf[v]
      BY <1>1, <2>1, <3>3 DEF Holding
    <3> QED BY <3>3, <3>4, <3>5
  <2> QED BY <2>2, <2>3
<1> DEFINE I == \A v \in Visitor : visit[v] = "waiting" =>
                   \E w \in Visitor : /\ lock[w] = lock[v] /\ ReadingOf[w] = ReadingOf[v]
                                      /\ visit[w] = "synthesising" \/ Woken(w)
<1>2. VoiceInv => I
  BY <1>1
<1> HIDE DEF I
<1>3. VoiceSpec => []I
  BY <1>2, VoiceInvariant, PTL
<1> QED BY <1>3 DEF I

(***************************************************************************)
(* The blob cache (BlobCache).  Before(s, a, b) says that a was used less  *)
(* recently than b; a reader whose file is cached has seen every object    *)
(* used since, so when its object is the oldest of more than MaxFiles, it  *)
(* has seen MaxFiles others.                                               *)
(***************************************************************************)

Distinct(s) == \A i, j \in 1 .. Len(s) : s[i] = s[j] => i = j
Before(s, a, b) == \E i, j \in 1 .. Len(s) : i < j /\ s[i] = a /\ s[j] = b

\* A file that was cached: its download ended well.
Finished(f) == f \in Reader /\ stage[f] \in {"reading", "done"} /\ f \notin orphans

Cache ==
    /\ Distinct(files)
    /\ \A k \in Key : fileOf[k] # NoFile <=> Cached(k)
    /\ \A k \in Key : Cached(k) => Finished(fileOf[k]) /\ KeyOf[fileOf[k]] = k

Readers ==
    /\ \A r \in Reader : IsFiniteSet(since[r])
    /\ \A r \in Reader : stage[r] = "reading" => Finished(given[r]) /\ KeyOf[given[r]] = KeyOf[r]
    /\ \A r \in Reader : stage[r] = "reading" /\ fileOf[KeyOf[r]] = given[r] =>
          \A x \in Key : Before(files, KeyOf[r], x) => x \in since[r]

Leftovers ==
    /\ \A r \in orphans : stage[r] = "done"
    /\ \A r \in lost : stage[r] \in {"reading", "done"}

BlobInv == BlobTypeOK /\ Cache /\ Readers /\ Leftovers /\ DiskIsAccountedFor /\ ReadersOutliveEviction

-----------------------------------------------------------------------------
(* Sequences without repetition.                                             *)

LEMMA Members ==
    ASSUME NEW S, NEW s \in Seq(S)
    PROVE  /\ Len(s) \in Nat /\ \A i \in 1 .. Len(s) : s[i] \in S
           /\ ToSet(s) \subseteq S
           /\ \A x : x \in ToSet(s) <=> \E i \in 1 .. Len(s) : s[i] = x
           /\ s # <<>> <=> Len(s) > 0
BY LenProperties, ElementOfSeq, EmptySeq DEF ToSet

\* A use moves nothing but the object used.
LEMMA WithoutMember ==
    ASSUME NEW S, NEW s \in Seq(S), Distinct(s), NEW k \in ToSet(s)
    PROVE  LET t == Without(s, k) IN
           /\ t \in Seq(S) /\ Len(t) = Len(s) - 1 /\ Distinct(t)
           /\ ToSet(t) = ToSet(s) \ {k}
           /\ \A a, b : Before(t, a, b) => Before(s, a, b)
<1> DEFINE n == CHOOSE i \in 1 .. Len(s) : s[i] = k
           front == SubSeq(s, 1, n - 1)
           back == SubSeq(s, n + 1, Len(s))
           t == front \o back
           at(i) == IF i < n THEN i ELSE i + 1
<1>0. Len(s) \in Nat /\ \A i \in 1 .. Len(s) : s[i] \in S
  BY Members
<1>1. n \in 1 .. Len(s) /\ s[n] = k
  <2>1. \E i \in 1 .. Len(s) : s[i] = k
    BY Members
  <2> QED BY <2>1
<1>2. Without(s, k) = t
  BY DEF Without, RemoveAt
<1> HIDE DEF n
<1>3. front \in Seq(S) /\ Len(front) = n - 1 /\ \A i \in 1 .. n - 1 : front[i] = s[i]
  <2>1. n - 1 \in Int /\ 1 \in Int /\ \A i \in 1 .. n - 1 : s[i] \in S
    BY <1>0, <1>1
  <2>2. /\ front \in Seq(S) /\ Len(front) = IF 1 <= n - 1 THEN (n - 1) - 1 + 1 ELSE 0
        /\ \A i \in 1 .. (n - 1) - 1 + 1 : front[i] = s[1 + i - 1]
    BY <2>1, SubSeqProperties
  <2> HIDE DEF front
  <2> QED BY <1>1, <2>2
<1>4. /\ back \in Seq(S) /\ Len(back) = Len(s) - n
      /\ \A i \in 1 .. Len(s) - n : back[i] = s[n + i]
  <2>1. n + 1 \in Int /\ Len(s) \in Int /\ \A i \in n + 1 .. Len(s) : s[i] \in S
    BY <1>0, <1>1
  <2>2. /\ back \in Seq(S) /\ Len(back) = IF n + 1 <= Len(s) THEN Len(s) - (n + 1) + 1 ELSE 0
        /\ \A i \in 1 .. Len(s) - (n + 1) + 1 : back[i] = s[(n + 1) + i - 1]
    BY <2>1, SubSeqProperties
  <2> HIDE DEF back
  <2> QED BY <1>0, <1>1, <2>2
<1> HIDE DEF front, back
<1>5. /\ t \in Seq(S) /\ Len(t) = Len(s) - 1
      /\ \A i \in 1 .. Len(s) - 1 : t[i] = s[at(i)]
  <2>1. /\ t \in Seq(S) /\ Len(t) = Len(front) + Len(back)
        /\ \A i \in 1 .. Len(front) + Len(back) : t[i] = IF i <= Len(front) THEN front[i] ELSE back[i - Len(front)]
    BY <1>3, <1>4, ConcatProperties
  <2> HIDE DEF t
  <2>2. Len(t) = Len(s) - 1
    BY <1>0, <1>1, <1>3, <1>4, <2>1
  <2>3. ASSUME NEW i \in 1 .. Len(s) - 1 PROVE t[i] = s[at(i)]
    <3>1. i \in 1 .. Len(front) + Len(back) /\ t[i] = IF i <= Len(front) THEN front[i] ELSE back[i - Len(front)]
      BY <1>0, <1>1, <1>3, <1>4, <2>1
    <3>2. CASE i < n
      BY <1>1, <1>3, <3>1, <3>2
    <3>3. CASE ~ (i < n)
      <4>1. i - (n - 1) \in 1 .. Len(s) - n /\ n + (i - (n - 1)) = i + 1 /\ ~ (i <= n - 1)
        BY <1>0, <1>1, <3>3
      <4> QED BY <1>3, <1>4, <3>1, <3>3, <4>1
    <3> QED BY <3>2, <3>3
  <2> QED BY <2>1, <2>2, <2>3
<1> HIDE DEF t
<1>6. \A i, j \in 1 .. Len(s) - 1 : at(i) \in 1 .. Len(s) /\ at(i) # n /\ (i < j => at(i) < at(j)) /\ (at(i) = at(j) => i = j)
  BY <1>0, <1>1
<1>7. \A m \in 1 .. Len(s) : m # n => \E i \in 1 .. Len(s) - 1 : at(i) = m
  <2> SUFFICES ASSUME NEW m \in 1 .. Len(s), m # n
               PROVE  \E i \in 1 .. Len(s) - 1 : at(i) = m
    OBVIOUS
  <2>1. CASE m < n
    BY <1>0, <1>1, <2>1
  <2>2. CASE m > n
    <3>1. m - 1 \in 1 .. Len(s) - 1 /\ at(m - 1) = m
      BY <1>0, <1>1, <2>2
    <3> QED BY <3>1
  <2> QED BY <1>0, <1>1, <2>1, <2>2
<1> HIDE DEF at
<1>8. Distinct(t)
  BY <1>5, <1>6 DEF Distinct
<1>9. ToSet(t) = ToSet(s) \ {k}
  <2>1. ASSUME NEW x \in ToSet(t) PROVE x \in ToSet(s) \ {k}
    <3>1. PICK i \in 1 .. Len(s) - 1 : t[i] = x
      BY <1>5, Members
    <3>2. at(i) \in 1 .. Len(s) /\ at(i) # n /\ s[at(i)] = x
      BY <1>5, <1>6, <3>1
    <3>3. x # k
      BY <1>1, <3>2 DEF Distinct
    <3> QED BY <3>2, <3>3, Members
  <2>2. ASSUME NEW x \in ToSet(s) \ {k} PROVE x \in ToSet(t)
    <3>1. PICK m \in 1 .. Len(s) : s[m] = x /\ m # n
      BY <1>1, Members
    <3>2. PICK i \in 1 .. Len(s) - 1 : at(i) = m
      BY <1>7, <3>1
    <3>3. i \in 1 .. Len(t) /\ t[i] = x
      BY <1>5, <3>1, <3>2
    <3> QED BY <1>5, <3>3, Members
  <2> QED BY <2>1, <2>2
<1>10. \A a, b : Before(t, a, b) => Before(s, a, b)
  <2> SUFFICES ASSUME NEW a, NEW b, NEW i \in 1 .. Len(t), NEW j \in 1 .. Len(t),
                      i < j, t[i] = a, t[j] = b
               PROVE  Before(s, a, b)
    BY DEF Before
  <2>1. at(i) \in 1 .. Len(s) /\ at(j) \in 1 .. Len(s) /\ at(i) < at(j)
    BY <1>5, <1>6
  <2>2. s[at(i)] = a /\ s[at(j)] = b
    BY <1>5
  <2> QED BY <2>1, <2>2 DEF Before
<1> QED BY <1>2, <1>5, <1>8, <1>9, <1>10

LEMMA WithoutIs ==
    ASSUME NEW S, NEW s \in Seq(S), Distinct(s), NEW k
    PROVE  LET t == Without(s, k) IN
           /\ t \in Seq(S) /\ Len(t) <= Len(s) /\ Distinct(t)
           /\ k \in ToSet(s) => Len(t) = Len(s) - 1
           /\ ToSet(t) = ToSet(s) \ {k}
           /\ \A a, b : Before(t, a, b) => Before(s, a, b)
<1>0. Len(s) \in Nat
  BY Members
<1>1. CASE k \in ToSet(s)
  BY <1>0, <1>1, WithoutMember
<1>2. CASE k \notin ToSet(s)
  BY <1>0, <1>2 DEF Without
<1> QED BY <1>1, <1>2

LEMMA AppendIs ==
    ASSUME NEW S, NEW s \in Seq(S), Distinct(s), NEW k \in S, k \notin ToSet(s)
    PROVE  LET t == Append(s, k) IN
           /\ t \in Seq(S) /\ Len(t) = Len(s) + 1 /\ Distinct(t) /\ t # <<>>
           /\ ToSet(t) = ToSet(s) \cup {k}
           /\ \A a, b : Before(t, a, b) => a # k /\ (Before(s, a, b) \/ b = k)
<1> DEFINE t == Append(s, k)
<1>1. /\ t \in Seq(S) /\ Len(t) = Len(s) + 1 /\ t # <<>>
      /\ \A i \in 1 .. Len(s) : t[i] = s[i]
      /\ t[Len(s) + 1] = k /\ Len(s) \in Nat
  BY AppendProperties, Members
<1> HIDE DEF t
<1>2. \A i \in 1 .. Len(t) : i \in 1 .. Len(s) \/ i = Len(s) + 1
  BY <1>1
<1>3. \A i \in 1 .. Len(s) : s[i] # k /\ i \in 1 .. Len(t) /\ i < Len(s) + 1
  <2>1. \A i \in 1 .. Len(s) : s[i] # k
    BY Members
  <2> QED BY <1>1, <2>1
<1>4. Distinct(t)
  BY <1>1, <1>2, <1>3 DEF Distinct
<1>5. ToSet(t) = ToSet(s) \cup {k}
  <2>1. \A x : x \in ToSet(t) <=> \E i \in 1 .. Len(t) : t[i] = x
    BY <1>1, Members
  <2>2. \A x : x \in ToSet(s) <=> \E i \in 1 .. Len(s) : s[i] = x
    BY Members
  <2>3. Len(s) + 1 \in 1 .. Len(t)
    BY <1>1
  <2> QED BY <1>1, <1>2, <1>3, <2>1, <2>2, <2>3
<1>6. ASSUME NEW a, NEW b, Before(t, a, b) PROVE a # k /\ (Before(s, a, b) \/ b = k)
  <2>1. PICK i, j \in 1 .. Len(t) : i < j /\ t[i] = a /\ t[j] = b
    BY <1>6 DEF Before
  <2>2. i \in 1 .. Len(s)
    BY <1>1, <2>1
  <2> QED BY <1>1, <1>2, <1>3, <2>1, <2>2 DEF Before
<1> QED BY <1>1, <1>4, <1>5, <1>6 DEF t

LEMMA TailIs ==
    ASSUME NEW S, NEW s \in Seq(S), Distinct(s), s # <<>>
    PROVE  LET t == Tail(s) IN
           /\ t \in Seq(S) /\ Len(t) = Len(s) - 1 /\ Distinct(t)
           /\ Head(s) \in ToSet(s)
           /\ ToSet(t) = ToSet(s) \ {Head(s)}
           /\ \A a, b : Before(t, a, b) => Before(s, a, b)
           /\ \A b \in ToSet(t) : Before(s, Head(s), b)
<1> DEFINE t == Tail(s)
<1>1. /\ t \in Seq(S) /\ Len(t) = Len(s) - 1 /\ \A i \in 1 .. Len(t) : t[i] = s[i + 1]
      /\ Len(s) \in Nat /\ Len(s) > 0 /\ Head(s) = s[1]
  BY HeadTailProperties, Members
<1> HIDE DEF t
<1>2. \A i \in 1 .. Len(t) : i + 1 \in 1 .. Len(s) /\ i + 1 # 1 /\ 1 < i + 1
  BY <1>1
<1>3. \A m \in 1 .. Len(s) : m # 1 => m - 1 \in 1 .. Len(t) /\ (m - 1) + 1 = m
  BY <1>1
<1>4. 1 \in 1 .. Len(s)
  BY <1>1
<1>5. Distinct(t)
  BY <1>1, <1>2 DEF Distinct
<1>6. /\ \A x : x \in ToSet(t) <=> \E i \in 1 .. Len(t) : t[i] = x
      /\ \A x : x \in ToSet(s) <=> \E i \in 1 .. Len(s) : s[i] = x
  BY <1>1, Members
<1>7. ToSet(t) = ToSet(s) \ {Head(s)}
  <2>1. ASSUME NEW x \in ToSet(t) PROVE x \in ToSet(s) \ {Head(s)}
    <3>1. PICK i \in 1 .. Len(t) : t[i] = x
      BY <1>6
    <3>2. s[i + 1] = x /\ i + 1 \in 1 .. Len(s) /\ i + 1 # 1
      BY <1>1, <1>2, <3>1
    <3>3. x # s[1]
      BY <1>4, <3>2 DEF Distinct
    <3> QED BY <1>1, <1>6, <3>2, <3>3
  <2>2. ASSUME NEW x \in ToSet(s) \ {Head(s)} PROVE x \in ToSet(t)
    <3>1. PICK m \in 1 .. Len(s) : s[m] = x
      BY <1>6
    <3>2. m - 1 \in 1 .. Len(t) /\ t[m - 1] = x
      BY <1>1, <1>3, <3>1
    <3> QED BY <1>6, <3>2
  <2> QED BY <2>1, <2>2
<1>8. \A a, b : Before(t, a, b) => Before(s, a, b)
  <2> SUFFICES ASSUME NEW a, NEW b, NEW i \in 1 .. Len(t), NEW j \in 1 .. Len(t),
                      i < j, t[i] = a, t[j] = b
               PROVE  Before(s, a, b)
    BY DEF Before
  <2>1. i + 1 \in 1 .. Len(s) /\ j + 1 \in 1 .. Len(s) /\ i + 1 < j + 1
    BY <1>2
  <2> QED BY <1>1, <2>1 DEF Before
<1>9. ASSUME NEW b \in ToSet(t) PROVE Before(s, Head(s), b)
  <2>1. PICK i \in 1 .. Len(t) : t[i] = b
    BY <1>6
  <2> QED BY <1>1, <1>2, <1>4, <2>1 DEF Before
<1>10. Head(s) \in ToSet(s)
  BY <1>1, <1>4, <1>6
<1> QED BY <1>1, <1>5, <1>7, <1>8, <1>9, <1>10 DEF t

\* As many objects as places.
LEMMA DistinctSize ==
    ASSUME NEW S, NEW s \in Seq(S), Distinct(s)
    PROVE  IsFiniteSet(ToSet(s)) /\ Cardinality(ToSet(s)) = Len(s)
<1> DEFINE T == ToSet(s)
           f == [i \in 1 .. Len(s) |-> s[i]]
<1>1. Len(s) \in Nat /\ \A x : x \in T <=> \E i \in 1 .. Len(s) : s[i] = x
  BY Members
<1>2. f \in Bijection(1 .. Len(s), T)
  <2> HIDE DEF T
  <2>1. f \in [1 .. Len(s) -> T]
    BY <1>1
  <2>2. \A i, j \in 1 .. Len(s) : f[i] = f[j] => i = j
    BY DEF Distinct
  <2>3. \A x \in T : \E i \in 1 .. Len(s) : f[i] = x
    BY <1>1
  <2> QED BY <2>1, <2>2, <2>3 DEF Bijection, Injection, Surjection, IsInjective
<1>3. IsFiniteSet(1 .. Len(s)) /\ Cardinality(1 .. Len(s)) = Len(s)
  BY <1>1, FS_Interval
<1> HIDE DEF f, T
<1>4. IsFiniteSet(T) /\ Cardinality(T) = Len(s)
  BY <1>2, <1>3, FS_Bijection DEF ExistsBijection
<1> QED BY <1>4 DEF T

-----------------------------------------------------------------------------
LEMMA BlobVarsUnchanged == UNCHANGED cacheVars => UNCHANGED <<published, files, fileOf, absent, disk,
        stage, given, since, orphans, lost>>
BY DEF cacheVars

LEMMA BlobInitially == BlobInit => BlobInv
<1> SUFFICES ASSUME BlobInit PROVE BlobInv
  OBVIOUS
<1> USE BlobAssumption DEF BlobInit
<1>0. Len(files) = 0 /\ ToSet(files) = {}
  BY EmptySeq DEF ToSet
<1>1. BlobTypeOK
  BY EmptySeq DEF BlobTypeOK, Stage
<1>2. Cache
  BY <1>0 DEF Cache, Distinct, Cached
<1>3. Readers
  BY FS_EmptySet DEF Readers
<1>4. Leftovers
  BY DEF Leftovers
<1>5. DiskIsAccountedFor
  BY <1>0 DEF DiskIsAccountedFor
<1>6. ReadersOutliveEviction
  BY DEF ReadersOutliveEviction
<1> QED BY <1>1, <1>2, <1>3, <1>4, <1>5, <1>6 DEF BlobInv

\* What is said of a file when the stages change, but for those that have one.
LEMMA FinishedStays ==
    ASSUME NEW r \in Reader, BlobTypeOK, NEW s \in Stage, Moves(r, s), orphans' \subseteq orphans \cup {r},
           stage[r] \notin {"reading", "done"} \/ (s \in {"reading", "done"} /\ r \notin orphans' \ orphans)
    PROVE  /\ \A f : Finished(f) => Finished(f)'
           /\ stage' \in [Reader -> Stage]
           /\ \A q \in Reader : stage'[q] = IF q = r THEN s ELSE stage[q]
BY DEF Finished, Moves, BlobTypeOK

\* The steps of a request that hand out no path, and leave the cached files.
LEMMA NoPathKeeps ==
    ASSUME BlobInv, NEW r \in Reader, NEW s \in Stage, s # "reading", Moves(r, s),
           \/ stage[r] \notin {"reading", "done"}
           \/ stage[r] = "reading" /\ s = "done" /\ orphans' = orphans,
           UNCHANGED <<files, fileOf, given, since, lost>>,
           absent' \in Seq(Key), published' \subseteq Key,
           \/ s # "fetching" /\ disk' = disk /\ stage[r] # "fetching" /\ orphans' = orphans
           \/ s # "fetching" /\ disk' = disk /\ stage[r] = "fetching" /\ s = "done" /\ orphans' = orphans \cup {r}
           \/ s = "fetching" /\ disk' = disk \cup {r} /\ orphans' = orphans
    PROVE  BlobInv'
<1> USE DEF BlobInv
<1>0. orphans' \subseteq orphans \cup {r}
  OBVIOUS
<1>1. /\ \A f : Finished(f) => Finished(f)'
      /\ stage' \in [Reader -> Stage]
      /\ \A q \in Reader : stage'[q] = IF q = r THEN s ELSE stage[q]
  BY <1>0, FinishedStays
<1>2. BlobTypeOK'
  BY <1>1 DEF BlobTypeOK
<1>3. Cache'
  BY <1>1 DEF Cache, Cached
<1>4. Readers'
  BY <1>1 DEF Readers
<1>5. Leftovers'
  BY <1>1 DEF Leftovers, BlobTypeOK
<1>6. DiskIsAccountedFor'
  <2>1. Len(files') <= MaxFiles
    BY DEF DiskIsAccountedFor
  <2>2. {fileOf'[k] : k \in ToSet(files')} = {fileOf[k] : k \in ToSet(files)}
    OBVIOUS
  <2>3. r \notin lost \/ (stage[r] = "reading" /\ s = "done")
    BY DEF Leftovers
  <2> DEFINE F == {q \in Reader : stage[q] = "fetching"}
             C == {fileOf[k] : k \in ToSet(files)}
  <2>4. disk = (C \cup F \cup orphans) \ lost
    BY DEF DiskIsAccountedFor
  <2>5. F' = IF s = "fetching" THEN F \cup {r} ELSE F \ {r}
    BY <1>1
  <2>6. stage[r] = "fetching" <=> r \in F
    OBVIOUS
  <2> HIDE DEF F, C
  <2>7. disk' = (C \cup F' \cup orphans') \ lost
    BY <2>3, <2>4, <2>5, <2>6
  <2> QED BY <2>1, <2>2, <2>7 DEF DiskIsAccountedFor, F, C
<1>7. ReadersOutliveEviction'
  <2>1. disk \subseteq disk'
    OBVIOUS
  <2> QED BY <1>1, <2>1 DEF ReadersOutliveEviction
<1> QED BY <1>2, <1>3, <1>4, <1>5, <1>6, <1>7

LEMMA RememberedType ==
    ASSUME BlobTypeOK, NEW k \in Key
    PROVE  Remembered(k) \in Seq(Key)
<1> DEFINE longer == IF k \in ToSet(absent) THEN absent ELSE Append(absent, k)
<1>1. longer \in Seq(Key)
  BY AppendProperties DEF BlobTypeOK
<1>2. Remembered(k) = IF Len(longer) > MaxAbsent THEN Tail(longer) ELSE longer
  BY DEF Remembered
<1>3. Len(longer) > MaxAbsent => Tail(longer) \in Seq(Key)
  <2> HIDE DEF longer
  <2> SUFFICES ASSUME Len(longer) > MaxAbsent PROVE Tail(longer) \in Seq(Key)
    OBVIOUS
  <2>1. longer # <<>>
    BY <1>1, BlobAssumption, Members
  <2> QED BY <1>1, <2>1, HeadTailProperties
<1> QED BY <1>1, <1>2, <1>3

LEMMA QuietStepsKeep ==
    ASSUME BlobInv, NEW r \in Reader,
           KnownMissing(r) \/ Found(r) \/ NotFound(r) \/ Breaks(r) \/ Opened(r)
    PROVE  BlobInv'
<1> USE DEF BlobInv
<1>0. BlobTypeOK /\ KeyOf[r] \in Key /\ absent \in Seq(Key) /\ published \subseteq Key
      /\ "done" \in Stage /\ "fetching" \in Stage
  BY BlobAssumption DEF BlobTypeOK, Stage
<1>1. CASE KnownMissing(r)
  BY <1>0, <1>1, NoPathKeeps DEF KnownMissing
<1>2. CASE Found(r)
  BY <1>0, <1>2, NoPathKeeps DEF Found
<1>3. CASE NotFound(r)
  BY <1>0, <1>3, NoPathKeeps, RememberedType DEF NotFound
<1>4. CASE Breaks(r)
  BY <1>0, <1>4, NoPathKeeps DEF Breaks
<1>5. CASE Opened(r)
  BY <1>0, <1>5, NoPathKeeps DEF Opened
<1> QED BY <1>1, <1>2, <1>3, <1>4, <1>5

LEMMA MissKeeps ==
    ASSUME BlobInv, NEW r \in Reader, Miss(r)
    PROVE  BlobInv'
<1> DEFINE k == KeyOf[r]
<1> USE DEF BlobInv
<1>0. /\ BlobTypeOK /\ Cache /\ Readers /\ Leftovers /\ k \in Key /\ files \in Seq(Key) /\ Distinct(files)
      /\ stage[r] = "new" /\ files' = Without(files, k) /\ fileOf' = [fileOf EXCEPT ![k] = NoFile]
      /\ Moves(r, "looking") /\ "looking" \in Stage
      /\ UNCHANGED <<published, absent, disk, given, since, orphans, lost>>
      /\ ~ (Cached(k) /\ fileOf[k] \in disk)
  BY BlobAssumption DEF BlobTypeOK, Miss, Stage, Cache
<1>1. /\ \A f : Finished(f) => Finished(f)'
      /\ stage' \in [Reader -> Stage]
      /\ \A q \in Reader : stage'[q] = IF q = r THEN "looking" ELSE stage[q]
  BY <1>0, FinishedStays
<1>2. /\ files' \in Seq(Key) /\ Len(files') <= Len(files) /\ Distinct(files')
      /\ ToSet(files') = ToSet(files) \ {k}
      /\ \A a, b : Before(files', a, b) => Before(files, a, b)
      /\ Len(files') \in Nat /\ Len(files) \in Nat
  BY <1>0, WithoutIs, Members
<1>3. fileOf' \in [Key -> Reader \cup {NoFile}] /\ \A x \in Key : fileOf'[x] = IF x = k THEN NoFile ELSE fileOf[x]
  BY <1>0 DEF BlobTypeOK
<1>4. BlobTypeOK'
  BY <1>0, <1>1, <1>2, <1>3 DEF BlobTypeOK
<1>5. Cache'
  BY <1>0, <1>1, <1>2, <1>3 DEF Cache, Cached
<1>6. Readers'
  <2>1. \A q \in Reader : IsFiniteSet(since'[q])
    BY <1>0 DEF Readers
  <2>2. ASSUME NEW q \in Reader, stage'[q] = "reading"
        PROVE  /\ Finished(given[q])' /\ KeyOf[given'[q]] = KeyOf[q]
               /\ fileOf'[KeyOf[q]] = given'[q] =>
                     \A x \in Key : Before(files', KeyOf[q], x) => x \in since'[q]
    <3>1. stage[q] = "reading" /\ Finished(given[q]) /\ KeyOf[given[q]] = KeyOf[q] /\ KeyOf[q] \in Key
      BY <1>0, <1>1, <2>2, BlobAssumption DEF Readers
    <3>2. given[q] # NoFile
      BY <3>1, BlobAssumption DEF Finished
    <3>3. fileOf'[KeyOf[q]] = given[q] => fileOf[KeyOf[q]] = given[q]
      BY <1>3, <3>1, <3>2
    <3> QED BY <1>0, <1>1, <1>2, <3>1, <3>3 DEF Readers
  <2> QED BY <1>0, <2>1, <2>2 DEF Readers
<1>7. Leftovers'
  BY <1>0, <1>1 DEF Leftovers, BlobTypeOK
<1>8. DiskIsAccountedFor'
  <2> DEFINE F == {q \in Reader : stage[q] = "fetching"}
             C == {fileOf[x] : x \in ToSet(files)}
             D == {fileOf'[x] : x \in ToSet(files')}
  <2>1. disk = (C \cup F \cup orphans) \ lost
    BY DEF DiskIsAccountedFor
  <2>2. F' = F
    BY <1>0, <1>1
  <2>3. ToSet(files) \subseteq Key
    BY <1>0, Members
  <2>4. D = {fileOf[x] : x \in ToSet(files) \ {k}}
    BY <1>2, <1>3, <2>3
  <2>5. C \subseteq D \cup {fileOf[k]} /\ D \subseteq C /\ (k \notin ToSet(files) => D = C)
    BY <2>4
  <2>6. k \in ToSet(files) => fileOf[k] \notin disk
    BY <1>0 DEF Cached
  <2> HIDE DEF F, C, D
  <2>7. disk = (D \cup F \cup orphans) \ lost
    BY <2>1, <2>5, <2>6
  <2>8. Len(files') <= MaxFiles
    BY <1>2, BlobAssumption DEF DiskIsAccountedFor
  <2> QED BY <1>0, <2>2, <2>7, <2>8 DEF DiskIsAccountedFor, F, D
<1>9. ReadersOutliveEviction'
  BY <1>0, <1>1 DEF ReadersOutliveEviction
<1> QED BY <1>4, <1>5, <1>6, <1>7, <1>8, <1>9

-----------------------------------------------------------------------------
(* The steps that hand out a path.                                           *)

LEMMA GivenIs ==
    ASSUME BlobInv, NEW r \in Reader, stage[r] \in {"new", "fetching"}, NEW path \in Reader, Given(r, path),
           UNCHANGED orphans
    PROVE  /\ given' \in [Reader -> Reader \cup {NoFile}] /\ given'[r] = path
           /\ since' \in [Reader -> SUBSET Key] /\ since'[r] = {}
           /\ stage' \in [Reader -> Stage] /\ stage'[r] = "reading"
           /\ \A q \in Reader : IsFiniteSet(since'[q])
           /\ \A f : Finished(f) => Finished(f)' /\ f # r
           /\ r \notin orphans /\ r \notin lost
           /\ \A q \in Reader : q # r => /\ given'[q] = given[q] /\ stage'[q] = stage[q] /\ since[q] \subseteq since'[q]
                                         /\ stage[q] = "reading" /\ KeyOf[q] # KeyOf[r] => KeyOf[r] \in since'[q]
                                         /\ Cardinality(since'[q]) >= Cardinality(since[q])
                                         /\ Cardinality(since[q]) \in Nat /\ Cardinality(since'[q]) \in Nat
<1> DEFINE k == KeyOf[r]
<1> USE DEF BlobInv
<1>0. /\ BlobTypeOK /\ k \in Key /\ \A q \in Reader : IsFiniteSet(since[q]) /\ since[q] \subseteq Key
      /\ since' = [q \in Reader |-> IF q = r THEN {}
                     ELSE IF stage[q] = "reading" /\ KeyOf[q] # k THEN since[q] \cup {k} ELSE since[q]]
      /\ Moves(r, "reading") /\ "reading" \in Stage
  BY BlobAssumption DEF BlobTypeOK, Readers, Given, Stage
<1>1. /\ given' \in [Reader -> Reader \cup {NoFile}] /\ given'[r] = path
      /\ \A q \in Reader : q # r => given'[q] = given[q]
  BY DEF BlobTypeOK, Given
<1>2. /\ stage' \in [Reader -> Stage] /\ stage'[r] = "reading"
      /\ \A q \in Reader : q # r => stage'[q] = stage[q]
      /\ \A f : Finished(f) => Finished(f)'
  BY <1>0, FinishedStays
<1>3. /\ \A f : Finished(f) => f # r
      /\ r \notin orphans /\ r \notin lost
  BY DEF Finished, Leftovers
<1>4. since' \in [Reader -> SUBSET Key] /\ since'[r] = {}
  BY <1>0
<1>5. ASSUME NEW q \in Reader, q # r
      PROVE  /\ since[q] \subseteq since'[q] /\ IsFiniteSet(since'[q])
             /\ stage[q] = "reading" /\ KeyOf[q] # k => k \in since'[q]
             /\ Cardinality(since'[q]) >= Cardinality(since[q])
             /\ Cardinality(since[q]) \in Nat /\ Cardinality(since'[q]) \in Nat
  <2>1. IsFiniteSet(since[q]) /\ IsFiniteSet(since[q] \cup {k})
    BY <1>0, FS_AddElement
  <2>2. since'[q] = IF stage[q] = "reading" /\ KeyOf[q] # k THEN since[q] \cup {k} ELSE since[q]
    BY <1>0, <1>5
  <2>3. since[q] \subseteq since'[q] /\ IsFiniteSet(since'[q])
    BY <2>1, <2>2
  <2>4. Cardinality(since[q]) <= Cardinality(since'[q]) /\ Cardinality(since[q]) \in Nat /\ Cardinality(since'[q]) \in Nat
    BY <2>3, FS_Subset, FS_CardinalityType
  <2> QED BY <2>2, <2>3, <2>4
<1>6. IsFiniteSet(since'[r])
  BY <1>4, FS_EmptySet
<1> QED BY <1>0, <1>1, <1>2, <1>3, <1>4, <1>5, <1>6

\* A path that is cached: Hit and Yield.
LEMMA UseKeeps ==
    ASSUME BlobInv, NEW r \in Reader, Hit(r) \/ Yield(r)
    PROVE  BlobInv'
<1> DEFINE k == KeyOf[r]
           path == fileOf[k]
<1> USE DEF BlobInv
<1>0. /\ BlobTypeOK /\ Cache /\ Readers /\ Leftovers /\ DiskIsAccountedFor /\ ReadersOutliveEviction
      /\ k \in Key /\ files \in Seq(Key) /\ Distinct(files) /\ stage[r] \in {"new", "fetching"}
      /\ Cached(k) /\ files' = MovedToEnd(files, k) /\ Given(r, path)
      /\ UNCHANGED <<published, fileOf, absent, orphans, lost>>
      /\ \/ stage[r] = "new" /\ disk' = disk /\ path \in disk
         \/ stage[r] = "fetching" /\ disk' = disk \ {r}
  BY BlobAssumption DEF BlobTypeOK, Cache, Hit, Yield
<1>1. Finished(path) /\ KeyOf[path] = k /\ path \in Reader
  BY <1>0 DEF Cache, Finished
<1>2. /\ given' \in [Reader -> Reader \cup {NoFile}] /\ given'[r] = path
      /\ since' \in [Reader -> SUBSET Key] /\ since'[r] = {}
      /\ stage' \in [Reader -> Stage] /\ stage'[r] = "reading"
      /\ \A q \in Reader : IsFiniteSet(since'[q])
      /\ \A f : Finished(f) => Finished(f)' /\ f # r
      /\ r \notin orphans /\ r \notin lost
      /\ \A q \in Reader : q # r => /\ given'[q] = given[q] /\ stage'[q] = stage[q] /\ since[q] \subseteq since'[q]
                                    /\ stage[q] = "reading" /\ KeyOf[q] # k => k \in since'[q]
                                    /\ Cardinality(since'[q]) >= Cardinality(since[q])
                                    /\ Cardinality(since[q]) \in Nat /\ Cardinality(since'[q]) \in Nat
  BY <1>0, <1>1, GivenIs
<1> DEFINE front == Without(files, k)
<1>3. /\ front \in Seq(Key) /\ Len(front) = Len(files) - 1 /\ Distinct(front) /\ ToSet(front) = ToSet(files) \ {k}
      /\ \A a, b : Before(front, a, b) => Before(files, a, b)
  BY <1>0, WithoutIs DEF Cached
<1>4. /\ files' \in Seq(Key) /\ Len(files') = Len(files) /\ Distinct(files') /\ ToSet(files') = ToSet(files)
      /\ \A a, b : Before(files', a, b) => a # k /\ (Before(files, a, b) \/ b = k)
  <2>1. files' = Append(front, k) /\ k \notin ToSet(front) /\ Len(files) \in Nat
    BY <1>0, <1>3, Members DEF MovedToEnd
  <2> HIDE DEF front
  <2> DEFINE s == Append(front, k)
  <2>2. /\ s \in Seq(Key) /\ Len(s) = Len(front) + 1 /\ Distinct(s)
        /\ ToSet(s) = ToSet(front) \cup {k}
        /\ \A a, b : Before(s, a, b) => a # k /\ (Before(front, a, b) \/ b = k)
    BY <1>0, <1>3, <2>1, AppendIs
  <2> HIDE DEF s
  <2>3. files' = s
    BY <2>1 DEF s
  <2>4. k \in ToSet(files)
    BY <1>0 DEF Cached
  <2>5. Len(s) = Len(files)
    BY <1>3, <2>1, <2>2
  <2>6. ToSet(s) = ToSet(files)
    BY <1>3, <2>2, <2>4
  <2>7. \A a, b : Before(s, a, b) => a # k /\ (Before(files, a, b) \/ b = k)
    BY <1>3, <2>2
  <2> QED BY <2>2, <2>3, <2>5, <2>6, <2>7
<1>5. BlobTypeOK'
  BY <1>0, <1>2, <1>4 DEF BlobTypeOK
<1>6. Cache'
  BY <1>0, <1>2, <1>4 DEF Cache, Cached
<1>7. Readers'
  <2>1. ASSUME NEW q \in Reader, stage'[q] = "reading"
        PROVE  /\ Finished(given[q])' /\ KeyOf[given'[q]] = KeyOf[q]
               /\ fileOf'[KeyOf[q]] = given'[q] =>
                     \A x \in Key : Before(files', KeyOf[q], x) => x \in since'[q]
    <3>1. CASE q = r
      BY <1>1, <1>2, <1>4, <3>1
    <3>2. CASE q # r
      <4>1. stage[q] = "reading" /\ Finished(given[q]) /\ KeyOf[given[q]] = KeyOf[q] /\ given'[q] = given[q]
            /\ since[q] \subseteq since'[q] /\ (KeyOf[q] # k => k \in since'[q])
        BY <1>0, <1>2, <2>1, <3>2 DEF Readers
      <4>2. ASSUME fileOf'[KeyOf[q]] = given'[q], NEW x \in Key, Before(files', KeyOf[q], x)
            PROVE  x \in since'[q]
        <5>1. KeyOf[q] # k /\ (Before(files, KeyOf[q], x) \/ x = k)
          BY <1>4, <4>2
        <5>2. Before(files, KeyOf[q], x) => x \in since[q]
          BY <1>0, <4>1, <4>2 DEF Readers
        <5> QED BY <4>1, <5>1, <5>2
      <4>3. Finished(given[q])'
        BY <1>2, <4>1
      <4> QED BY <4>1, <4>2, <4>3
    <3> QED BY <3>1, <3>2
  <2> QED BY <1>2, <2>1 DEF Readers
<1>8. Leftovers'
  BY <1>0, <1>2 DEF Leftovers, BlobTypeOK
<1>9. DiskIsAccountedFor'
  <2> DEFINE F == {q \in Reader : stage[q] = "fetching"}
             C == {fileOf[x] : x \in ToSet(files)}
  <2>1. disk = (C \cup F \cup orphans) \ lost /\ Len(files) <= MaxFiles
    BY <1>0 DEF DiskIsAccountedFor
  <2>2. F' = F \ {r} /\ (r \in F <=> stage[r] = "fetching")
    BY <1>2
  <2>3. C' = C
    BY <1>0, <1>4
  <2>4. r \notin C
    <3>1. \A x \in ToSet(files) : x \in Key /\ Finished(fileOf[x])
      BY <1>0, Members DEF Cache, Cached
    <3> QED BY <1>2, <3>1
  <2> HIDE DEF F, C
  <2>5. disk' = (C \cup F' \cup orphans) \ lost
    BY <1>0, <1>2, <2>1, <2>2, <2>4
  <2> QED BY <1>0, <1>4, <2>1, <2>3, <2>5 DEF DiskIsAccountedFor, F, C
<1>10. ReadersOutliveEviction'
  <2> SUFFICES ASSUME NEW q \in Reader, stage'[q] = "reading", given'[q] \notin disk' \cup lost'
               PROVE  Cardinality(since'[q]) >= MaxFiles
    BY DEF ReadersOutliveEviction
  <2>1. CASE q = r
    <3>1. path \in {fileOf[x] : x \in ToSet(files)}
      BY <1>0 DEF Cached
    <3>2. path \in disk \cup lost
      BY <1>0, <3>1 DEF DiskIsAccountedFor
    <3> QED BY <1>0, <1>1, <1>2, <2>1, <3>2
  <2>2. CASE q # r
    <3>1. stage[q] = "reading" /\ given'[q] = given[q] /\ given[q] # r
      BY <1>0, <1>2, <2>2 DEF Readers
    <3>2. given[q] \notin disk \cup lost
      BY <1>0, <3>1
    <3>3. Cardinality(since[q]) >= MaxFiles
      BY <1>0, <3>1, <3>2 DEF ReadersOutliveEviction
    <3> QED BY <1>2, <2>2, <3>3, BlobAssumption
  <2> QED BY <2>1, <2>2
<1> QED BY <1>5, <1>6, <1>7, <1>8, <1>9, <1>10

\* A file that is stored, and the oldest that goes: its readers have seen every
\* other object that is cached.
LEMMA StoreKeeps ==
    ASSUME BlobInv, NEW r \in Reader, Store(r)
    PROVE  BlobInv'
<1> DEFINE k == KeyOf[r]
           longer == Append(files, k)
           full == Len(longer) > MaxFiles
           old == Head(longer)
<1> USE DEF BlobInv
<1>0. /\ BlobTypeOK /\ Cache /\ Readers /\ Leftovers /\ DiskIsAccountedFor /\ ReadersOutliveEviction
      /\ k \in Key /\ files \in Seq(Key) /\ Distinct(files) /\ stage[r] = "fetching" /\ k \notin ToSet(files)
      /\ files' = (IF full THEN Tail(longer) ELSE longer)
      /\ fileOf' = [x \in Key |-> CASE x = k /\ (full => old # k) -> r
                                    [] full /\ x = old -> NoFile
                                    [] OTHER -> fileOf[x]]
      /\ disk' = (IF full THEN disk \ {fileOf[old]} ELSE disk)
      /\ Given(r, r)
      /\ UNCHANGED <<published, absent, orphans, lost>>
  BY BlobAssumption DEF BlobTypeOK, Cache, Store, Cached
<1>1. /\ longer \in Seq(Key) /\ Len(longer) = Len(files) + 1 /\ Distinct(longer) /\ longer # <<>>
      /\ ToSet(longer) = ToSet(files) \cup {k}
      /\ \A a, b : Before(longer, a, b) => a # k /\ (Before(files, a, b) \/ b = k)
      /\ Len(files) \in Nat /\ Len(files) <= MaxFiles
  BY <1>0, AppendIs, Members DEF DiskIsAccountedFor
<1> HIDE DEF longer
<1> DEFINE rest == Tail(longer)
<1>2. /\ rest \in Seq(Key) /\ Len(rest) = Len(files) /\ Distinct(rest)
      /\ old \in ToSet(longer)
      /\ ToSet(rest) = ToSet(longer) \ {old}
      /\ \A a, b : Before(rest, a, b) => Before(longer, a, b)
      /\ \A b \in ToSet(rest) : Before(longer, old, b)
  <2>1. /\ rest \in Seq(Key) /\ Len(rest) = Len(longer) - 1 /\ Distinct(rest)
        /\ old \in ToSet(longer)
        /\ ToSet(rest) = ToSet(longer) \ {old}
        /\ \A a, b : Before(rest, a, b) => Before(longer, a, b)
        /\ \A b \in ToSet(rest) : Before(longer, old, b)
    BY <1>1, TailIs
  <2>2. Len(longer) - 1 = Len(files)
    BY <1>1
  <2> QED BY <2>1, <2>2
<1> HIDE DEF rest, old
<1>3. ASSUME full
      PROVE  old # k /\ old \in ToSet(files) /\ old \in Key
  <2>1. Len(rest) > 0 /\ 1 \in 1 .. Len(rest)
    BY <1>1, <1>2, <1>3, BlobAssumption
  <2>2. rest[1] \in ToSet(rest)
    BY <1>2, <2>1, Members
  <2>3. Before(longer, old, rest[1])
    BY <1>2, <2>2
  <2>4. old # k
    BY <1>1, <2>3
  <2>5. old \in ToSet(files)
    BY <1>1, <1>2, <2>4
  <2>6. ToSet(files) \subseteq Key
    BY <1>0, Members
  <2> QED BY <2>4, <2>5, <2>6
<1> DEFINE dropped == IF full THEN {old} ELSE {}
<1>4. /\ files' \in Seq(Key) /\ Distinct(files') /\ Len(files') <= MaxFiles
      /\ ToSet(files') = (ToSet(files) \cup {k}) \ dropped
      /\ \A a, b : Before(files', a, b) => a # k /\ (Before(files, a, b) \/ b = k)
  <2>1. CASE full
    <3>1. files' = rest
      BY <1>0, <2>1 DEF rest, old
    <3> QED BY <1>1, <1>2, <2>1, <3>1
  <2>2. CASE ~ full
    <3>1. files' = longer
      BY <1>0, <2>2
    <3>2. Len(longer) <= MaxFiles
      BY <1>1, <2>2, BlobAssumption
    <3> QED BY <1>1, <2>2, <3>1, <3>2
  <2> QED BY <2>1, <2>2
<1>5. /\ fileOf' \in [Key -> Reader \cup {NoFile}]
      /\ \A x \in Key : fileOf'[x] = IF x = k THEN r ELSE IF x \in dropped THEN NoFile ELSE fileOf[x]
      /\ k \notin dropped
      /\ disk' = disk \ {fileOf[x] : x \in dropped}
  <2>1. CASE full
    <3>1. dropped = {old} /\ old # k
      BY <1>3, <2>1
    <3> HIDE DEF full, dropped
    <3> QED BY <1>0, <2>1, <3>1 DEF BlobTypeOK
  <2>2. CASE ~ full
    <3>1. dropped = {}
      BY <2>2
    <3> HIDE DEF full, dropped
    <3> QED BY <1>0, <2>2, <3>1 DEF BlobTypeOK
  <2> QED BY <2>1, <2>2
<1>6. /\ dropped \subseteq ToSet(files) /\ dropped \subseteq Key
      /\ \A x \in dropped : full /\ x = old
  BY <1>3
<1> HIDE DEF dropped
<1>7. /\ given' \in [Reader -> Reader \cup {NoFile}] /\ given'[r] = r
      /\ since' \in [Reader -> SUBSET Key] /\ since'[r] = {}
      /\ stage' \in [Reader -> Stage] /\ stage'[r] = "reading"
      /\ \A q \in Reader : IsFiniteSet(since'[q])
      /\ \A f : Finished(f) => Finished(f)' /\ f # r
      /\ r \notin orphans /\ r \notin lost
      /\ \A q \in Reader : q # r => /\ given'[q] = given[q] /\ stage'[q] = stage[q] /\ since[q] \subseteq since'[q]
                                    /\ stage[q] = "reading" /\ KeyOf[q] # k => k \in since'[q]
                                    /\ Cardinality(since'[q]) >= Cardinality(since[q])
                                    /\ Cardinality(since[q]) \in Nat /\ Cardinality(since'[q]) \in Nat
  BY <1>0, GivenIs
<1>8. Finished(r)'
  BY <1>0, <1>7 DEF Finished
<1>9. /\ ToSet(files) \subseteq Key
      /\ \A x \in ToSet(files) : Finished(fileOf[x]) /\ KeyOf[fileOf[x]] = x /\ fileOf[x] # NoFile
  <2>1. ToSet(files) \subseteq Key
    BY <1>0, Members
  <2> QED BY <1>0, <2>1 DEF Cache, Cached
<1>10. r # NoFile
  BY BlobAssumption
<1>11. BlobTypeOK'
  BY <1>0, <1>4, <1>5, <1>7 DEF BlobTypeOK
<1>12. Cache'
  <2>1. ASSUME NEW x \in Key
        PROVE  (fileOf'[x] # NoFile <=> x \in ToSet(files')) /\ (x \in ToSet(files') => Finished(fileOf[x])' /\ KeyOf[fileOf'[x]] = x)
    <3>1. CASE x = k
      BY <1>4, <1>5, <1>8, <1>10, <3>1
    <3>2. CASE x \in dropped
      BY <1>4, <1>5, <3>2
    <3>3. CASE x # k /\ x \notin dropped
      <4>1. fileOf'[x] = fileOf[x] /\ (x \in ToSet(files') <=> x \in ToSet(files))
        BY <1>4, <1>5, <3>3
      <4>2. fileOf[x] # NoFile <=> x \in ToSet(files)
        BY <1>0 DEF Cache, Cached
      <4>3. x \in ToSet(files) => Finished(fileOf[x]) /\ Finished(fileOf[x])' /\ KeyOf[fileOf[x]] = x
        BY <1>7, <1>9, <4>1
      <4> QED BY <4>1, <4>2, <4>3
    <3> QED BY <3>1, <3>2, <3>3
  <2> QED BY <1>4, <2>1 DEF Cache, Cached
<1>13. Readers'
  <2>1. ASSUME NEW q \in Reader, stage'[q] = "reading"
        PROVE  /\ Finished(given[q])' /\ KeyOf[given'[q]] = KeyOf[q]
               /\ fileOf'[KeyOf[q]] = given'[q] =>
                     \A x \in Key : Before(files', KeyOf[q], x) => x \in since'[q]
    <3>1. CASE q = r
      <4>1. Finished(given[q])'
        BY <1>7, <1>8, <3>1
      <4> QED BY <1>4, <1>7, <3>1, <4>1
    <3>2. CASE q # r
      <4>1. stage[q] = "reading" /\ Finished(given[q]) /\ KeyOf[given[q]] = KeyOf[q] /\ given'[q] = given[q]
            /\ since[q] \subseteq since'[q] /\ (KeyOf[q] # k => k \in since'[q]) /\ given[q] # r
            /\ given[q] # NoFile /\ KeyOf[q] \in Key
        BY <1>0, <1>7, <2>1, <3>2, BlobAssumption DEF Readers, Finished
      <4>2. ASSUME fileOf'[KeyOf[q]] = given'[q], NEW x \in Key, Before(files', KeyOf[q], x)
            PROVE  x \in since'[q]
        <5>1. KeyOf[q] # k /\ (Before(files, KeyOf[q], x) \/ x = k)
          BY <1>4, <4>2
        <5>2. fileOf[KeyOf[q]] = given[q]
          BY <1>5, <4>1, <4>2, <5>1
        <5>3. Before(files, KeyOf[q], x) => x \in since[q]
          BY <1>0, <4>1, <5>2 DEF Readers
        <5> QED BY <4>1, <5>1, <5>3
      <4>3. Finished(given[q])'
        BY <1>7, <4>1
      <4> QED BY <4>1, <4>2, <4>3
    <3> QED BY <3>1, <3>2
  <2> QED BY <1>7, <2>1 DEF Readers
<1>14. Leftovers'
  BY <1>0, <1>7 DEF Leftovers, BlobTypeOK
<1>15. DiskIsAccountedFor'
  <2> DEFINE F == {q \in Reader : stage[q] = "fetching"}
             C == {fileOf[x] : x \in ToSet(files)}
             D == {fileOf[x] : x \in dropped}
             C2 == {fileOf'[x] : x \in ToSet(files')}
  <2>1. disk = (C \cup F \cup orphans) \ lost
    BY <1>0 DEF DiskIsAccountedFor
  <2>2. F' = F \ {r} /\ r \in F
    BY <1>0, <1>7
  <2>3. r \notin C
    BY <1>7, <1>9
  <2>4. C2 = (C \ D) \cup {r}
    <3>1. ASSUME NEW f \in C2 PROVE f \in (C \ D) \cup {r}
      <4>1. PICK x \in ToSet(files') : f = fileOf'[x]
        BY <3>1
      <4>2. x \notin dropped /\ (x \in ToSet(files) \/ x = k) /\ x \in Key
        BY <1>0, <1>4, <1>9, <4>1
      <4>3. CASE x = k
        BY <1>0, <1>5, <4>1, <4>3
      <4>4. CASE x # k
        <5>1. f = fileOf[x] /\ x \in ToSet(files) /\ KeyOf[f] = x
          BY <1>5, <1>9, <4>1, <4>2, <4>4
        <5>2. \A z \in dropped : KeyOf[fileOf[z]] = z
          BY <1>6, <1>9
        <5> QED BY <4>2, <5>1, <5>2
      <4> QED BY <4>3, <4>4
    <3>2. ASSUME NEW f \in (C \ D) \cup {r} PROVE f \in C2
      <4>1. CASE f = r
        <5>1. k \in ToSet(files') /\ fileOf'[k] = r
          BY <1>0, <1>4, <1>5
        <5> QED BY <4>1, <5>1
      <4>2. CASE f # r
        <5>1. PICK x \in ToSet(files) : f = fileOf[x] /\ x \notin dropped
          BY <3>2, <4>2
        <5>2. x \in ToSet(files') /\ x # k /\ x \in Key
          BY <1>0, <1>4, <1>9, <5>1
        <5>3. fileOf'[x] = f
          BY <1>5, <5>1, <5>2
        <5> QED BY <5>2, <5>3
      <4> QED BY <4>1, <4>2
    <3> QED BY <3>1, <3>2
  <2>5. \A f \in D : f \in C /\ f \notin F /\ f \notin orphans
    <3>1. \A x \in dropped : x \in ToSet(files) /\ Finished(fileOf[x])
      BY <1>6, <1>9
    <3> QED BY <3>1 DEF Finished
  <2>6. disk' = disk \ D
    BY <1>5
  <2> HIDE DEF F, C, D, C2
  <2>7. disk' = (C2 \cup F' \cup orphans') \ lost'
    BY <1>0, <1>7, <2>1, <2>2, <2>4, <2>5, <2>6
  <2> QED BY <1>4, <2>7 DEF DiskIsAccountedFor, F, C2
<1>16. ReadersOutliveEviction'
  <2> SUFFICES ASSUME NEW q \in Reader, stage'[q] = "reading", given'[q] \notin disk' \cup lost'
               PROVE  Cardinality(since'[q]) >= MaxFiles
    BY DEF ReadersOutliveEviction
  <2>1. q # r
    <3>1. r \in disk
      BY <1>0, <1>7 DEF DiskIsAccountedFor
    <3>2. \A x \in dropped : fileOf[x] # r
      BY <1>6, <1>7, <1>9
    <3> QED BY <1>5, <1>7, <3>1, <3>2
  <2>2. /\ stage[q] = "reading" /\ given'[q] = given[q] /\ KeyOf[given[q]] = KeyOf[q] /\ given[q] \notin lost
        /\ since[q] \subseteq since'[q] /\ (KeyOf[q] # k => k \in since'[q])
    BY <1>0, <1>7, <2>1 DEF Readers
  <2>3. CASE given[q] \notin disk
    <3>1. Cardinality(since[q]) >= MaxFiles
      BY <1>0, <2>2, <2>3 DEF ReadersOutliveEviction
    <3> QED BY <1>7, <2>1, <3>1, BlobAssumption
  <2>4. CASE given[q] \in disk
    <3>1. full /\ given[q] = fileOf[old] /\ KeyOf[q] = old
      <4>1. PICK x \in dropped : given[q] = fileOf[x]
        BY <1>0, <1>5, <2>2, <2>4
      <4> QED BY <1>6, <1>9, <2>2, <4>1
    <3>2. \A b \in Key : Before(files, old, b) => b \in since[q]
      BY <1>0, <2>2, <3>1 DEF Readers
    <3>3. ToSet(rest) \subseteq since'[q]
      <4> SUFFICES ASSUME NEW b \in ToSet(rest) PROVE b \in since'[q]
        OBVIOUS
      <4>1. Before(files, old, b) \/ b = k
        BY <1>1, <1>2
      <4>2. b \in Key
        BY <1>2, Members
      <4>3. old # k
        BY <1>3, <3>1
      <4> QED BY <2>2, <3>1, <3>2, <4>1, <4>2, <4>3
    <3>4. Cardinality(ToSet(rest)) = Len(files)
      BY <1>2, DistinctSize
    <3>5. Cardinality(ToSet(rest)) <= Cardinality(since'[q])
      BY <1>7, <3>3, FS_Subset
    <3>6. Len(files) >= MaxFiles
      BY <1>1, <3>1, BlobAssumption
    <3> QED BY <1>1, <1>7, <2>1, <3>4, <3>5, <3>6, BlobAssumption
  <2> QED BY <2>3, <2>4
<1> QED BY <1>11, <1>12, <1>13, <1>14, <1>15, <1>16

-----------------------------------------------------------------------------
LEMMA PublishKeeps ==
    ASSUME BlobInv, NEW k \in Key, Publish(k)
    PROVE  BlobInv'
<1> USE DEF BlobInv
<1>0. published' \subseteq Key /\ UNCHANGED <<files, fileOf, absent, disk, stage, given, since, orphans, lost>>
  BY DEF Publish, BlobTypeOK
<1>1. BlobTypeOK'
  BY <1>0 DEF BlobTypeOK
<1>2. Cache'
  BY <1>0 DEF Cache, Cached, Finished
<1>3. Readers'
  BY <1>0 DEF Readers, Finished
<1>4. Leftovers'
  BY <1>0 DEF Leftovers
<1>5. DiskIsAccountedFor' /\ ReadersOutliveEviction'
  BY <1>0 DEF DiskIsAccountedFor, ReadersOutliveEviction
<1> QED BY <1>1, <1>2, <1>3, <1>4, <1>5

LEMMA LoseKeeps ==
    ASSUME BlobInv, NEW f \in Reader, Lose(f)
    PROVE  BlobInv'
<1> USE DEF BlobInv
<1>0. /\ disk' = disk \ {f} /\ lost' = lost \cup {f} /\ f \in disk /\ stage[f] # "fetching"
      /\ UNCHANGED <<published, files, fileOf, absent, stage, given, since, orphans>>
  BY DEF Lose
<1>1. BlobTypeOK'
  BY <1>0 DEF BlobTypeOK
<1>2. Cache'
  BY <1>0 DEF Cache, Cached, Finished
<1>3. Readers'
  BY <1>0 DEF Readers, Finished
<1>4. Leftovers'
  <2>1. f \in {fileOf[k] : k \in ToSet(files)} \/ f \in orphans
    BY <1>0 DEF DiskIsAccountedFor
  <2>2. \A k \in ToSet(files) : Finished(fileOf[k])
    BY Members DEF Cache, Cached, BlobTypeOK
  <2>3. stage[f] \in {"reading", "done"}
    BY <2>1, <2>2 DEF Finished, Leftovers
  <2> QED BY <1>0, <2>3 DEF Leftovers
<1>5. DiskIsAccountedFor'
  BY <1>0 DEF DiskIsAccountedFor
<1>6. ReadersOutliveEviction'
  BY <1>0 DEF ReadersOutliveEviction
<1> QED BY <1>1, <1>2, <1>3, <1>4, <1>5, <1>6

LEMMA BlobStepKeeps == BlobInv /\ [BlobNext]_cacheVars => BlobInv'
<1> SUFFICES ASSUME BlobInv, [BlobNext]_cacheVars PROVE BlobInv'
  OBVIOUS
<1>1. CASE UNCHANGED cacheVars
  <2>1. UNCHANGED <<published, files, fileOf, absent, disk, stage, given, since, orphans, lost>>
    BY <1>1, BlobVarsUnchanged
  <2> QED BY <2>1 DEF BlobInv, BlobTypeOK, Cache, Cached, Readers, Leftovers, Finished, DiskIsAccountedFor,
                      ReadersOutliveEviction
<1>2. ASSUME NEW r \in Reader, Request(r) PROVE BlobInv'
  BY <1>2, QuietStepsKeep, MissKeeps, UseKeeps, StoreKeeps DEF Request
<1>3. CASE \E k \in Key : Publish(k)
  BY <1>3, PublishKeeps
<1>4. CASE \E f \in Reader : Lose(f)
  BY <1>4, LoseKeeps
<1> QED BY <1>1, <1>2, <1>3, <1>4 DEF BlobNext

LEMMA BlobInvariant == BlobSpec => []BlobInv
BY BlobInitially, BlobStepKeeps, PTL DEF BlobSpec

\* The state of the cache has its type, whatever the threads do.  (BoundedBlobCache)
THEOREM BlobTypeCorrect == BlobSpec => []BlobTypeOK
<1>1. BlobInv => BlobTypeOK
  BY DEF BlobInv
<1> QED BY <1>1, BlobInvariant, PTL

\* At most max_files entries, and no file in /tmp but theirs, those being
\* downloaded, and what failed downloads left.  (get_or_download)
THEOREM DiskAccounted == BlobSpec => []DiskIsAccountedFor
<1>1. BlobInv => DiskIsAccountedFor
  BY DEF BlobInv
<1> QED BY <1>1, BlobInvariant, PTL

\* A path that was handed out is good until max_files other objects were used,
\* for any number of threads and objects.  (get_or_download)
THEOREM ReadersOutlive == BlobSpec => []ReadersOutliveEviction
<1>1. BlobInv => ReadersOutliveEviction
  BY DEF BlobInv
<1> QED BY <1>1, BlobInvariant, PTL
=============================================================================
