------------------------------ MODULE IqairRows ------------------------------
(***************************************************************************)
(* From one IQAir payload to the rows of a station or a city               *)
(* (extract_iqair_rows of apps/api/app/ingestion/temporal.py,              *)
(* normalize_envelope of extract.py, validate_reading of validation.py).   *)
(*                                                                         *)
(* A payload has a current report and lists of past ones, each in a part   *)
(* about pollution and a part about weather.  They are read one after      *)
(* another into one bucket per hour; a policy says how many hours a past   *)
(* report is moved forward.  The lists come in no particular order and may *)
(* name an hour twice.  Validation then drops hours outside the window and *)
(* quarantines faulty values.                                              *)
(*                                                                         *)
(* What a report says of a field is abstracted to which report said it and *)
(* whether validation accepts it; told is a history variable.  A report    *)
(* that is missing and one whose timestamp cannot be parsed are one: both  *)
(* leave nothing.  Notes, units and the archive are left out.              *)
(***************************************************************************)
EXTENDS Integers

CONSTANTS
    Pollution,      \* POLLUTION_FIELDS
    Weather,        \* WEATHER_FIELDS
    Numeric,        \* NUMERIC_FIELDS, whose values are validated
    LastHour,       \* the last hour a report may name
    Minutes,        \* the minutes it may name
    Now,            \* the instant of the validation
    Backfill,       \* backfill_hours
    MaxReports,     \* bound on the length of a list
    Nothing         \* None

ReportHour == 0 .. LastHour
Instant == [hour : ReportHour, minute : Minutes]
Reported == [from : {"current", "history"}, at : Instant, good : BOOLEAN]

ASSUME IqairAssumption ==
    /\ Pollution \cap Weather = {}
    /\ LastHour \in Nat
    /\ Minutes \subseteq 0 .. 59 /\ 0 \in Minutes
    /\ Now \in [hour : Nat, minute : 0 .. 59]
    /\ Backfill \in Nat /\ MaxReports \in Nat
    /\ Nothing \notin Reported \cup Instant \cup Nat

VARIABLES
    policy,     \* policy_id of the TemporalPolicy
    section,    \* the part of the payload that is read next
    anchor,     \* H, the hour of the current pollution
    bucket,     \* _Bucket by hour
    made,       \* hours that have a bucket; after validation, that have a row
    length,     \* reports read of the list that is being read
    told,       \* ghost: what the payload said: fields and values
    observed    \* ghost: the hour of the current weather

iqairVars == <<policy, section, anchor, bucket, made, length, told, observed>>

Part == {"p", "w"}
Measure == Pollution \cup Weather
PartOf(f) == IF f \in Pollution THEN "p" ELSE "w"
BucketHour == 0 .. LastHour + 1
Section == {"current_pollution", "current_weather", "pollution_history",
            "weather_history", "validation", "done"}

\* src_ts["p"] and src_ts["p_overlap"] are src["p"] and overlap["p"].
Bucket == [vals : [Measure -> Reported \cup {Nothing}],
           src : [Part -> Instant \cup {Nothing}],
           overlap : [Part -> Instant \cup {Nothing}],
           shift : [Part -> {0, 1, Nothing}],
           filled : SUBSET Measure]

NewBucket == [vals |-> [f \in Measure |-> Nothing],
              src |-> [part \in Part |-> Nothing],
              overlap |-> [part \in Part |-> Nothing],
              shift |-> [part \in Part |-> Nothing],
              filled |-> {}]

IqairTypeOK ==
    /\ policy \in {"iqair_station_v1", "iqair_city_v1"}
    /\ section \in Section
    /\ anchor \in ReportHour \cup {Nothing}
    /\ bucket \in [BucketHour -> Bucket]
    /\ made \subseteq BucketHour
    /\ length \in 0 .. MaxReports
    /\ told \subseteq [field : Measure, value : Reported]
    /\ observed \in ReportHour \cup {Nothing}

IqairInit ==
    /\ policy \in {"iqair_station_v1", "iqair_city_v1"}
    /\ section = "current_pollution"
    /\ anchor = Nothing
    /\ bucket = [h \in BucketHour |-> NewBucket]
    /\ made = {}
    /\ length = 0
    /\ told = {}
    /\ observed = Nothing

(***************************************************************************)
(* Reports, buckets and hours.                                             *)
(***************************************************************************)

\* A report may lack a field, or have a value that validation will not accept.
Said(fields) ==
    {said \in [fields -> {"absent", "good", "faulty"}] :
        \A f \in fields : said[f] = "faulty" => f \in Numeric}

\* pollution_fields, weather_fields.
Values(said, from, t) ==
    [f \in Measure |->
        IF f \in DOMAIN said /\ said[f] # "absent"
        THEN [from |-> from, at |-> t, good |-> said[f] = "good"]
        ELSE Nothing]

Tell(values) ==
    told' = told \cup {[field |-> f, value |-> values[f]] : f \in {g \in Measure : values[g] # Nothing}}

norm_hour(t) == [t EXCEPT !.minute = 0]

\* history_pollution_shift_hours and history_weather_shift_hours.
Shift(part) == IF part = "w" /\ policy = "iqair_station_v1" THEN 0 ELSE 1

\* is_overlap, of an hour: the tolerance of ten minutes does not reach another one.
IsOverlap(h) == anchor # Nothing /\ anchor - h = 1

\* Operators Name_Slip are seeded mistakes: Name with a plausible bug in it.
Default_Latest(v, other) == other

\* setdefault.
Default(v, other) == IF v # Nothing THEN v ELSE other

\* A bucket after merge, and the provenance of the part.
Joined(b, part, values, t, shift) ==
    [b EXCEPT !.vals = [f \in Measure |-> IF values[f] # Nothing THEN values[f] ELSE @[f]],
              !.src[part] = Default(@, t),
              !.shift[part] = Default(@, shift)]

Filled_Over(b, part, values, t) ==
    [b EXCEPT !.vals = [f \in Measure |-> IF values[f] # Nothing THEN values[f] ELSE @[f]],
              !.filled = @ \cup {f \in Measure : values[f] # Nothing /\ b.vals[f] = Nothing},
              !.overlap[part] = Default(@, t)]

\* The same with fill_only and mark_history.
Filled(b, part, values, t) ==
    [b EXCEPT !.vals = [f \in Measure |-> IF @[f] = Nothing THEN values[f] ELSE @[f]],
              !.filled = @ \cup {f \in Measure : values[f] # Nothing /\ b.vals[f] = Nothing},
              !.overlap[part] = Default(@, t)]

\* The report at t becomes part of the bucket of hour h.
Merge(part, values, t, shift, h) ==
    /\ made' = made \cup {h}
    /\ bucket' = [bucket EXCEPT ![h] = Joined(@, part, values, t, shift)]

Fill_Skipped(part, values, t) == UNCHANGED <<bucket, made>>

\* The entry of the hour before the current one fills what the current report lacks.
Fill(part, values, t) ==
    /\ made' = made \cup {anchor}
    /\ bucket' = [bucket EXCEPT ![anchor] = Filled(@, part, values, t)]

(***************************************************************************)
(* extract_iqair_rows.                                                     *)
(***************************************************************************)

\* Without a timestamp there is no anchor and no row.
NoCurrentPollution ==
    /\ section = "current_pollution"
    /\ section' = "current_weather"
    /\ UNCHANGED <<policy, anchor, bucket, made, length, told, observed>>

CurrentPollution ==
    /\ section = "current_pollution"
    /\ \E t \in Instant, said \in Said(Pollution) :
         LET values == Values(said, "current", t)
         IN  /\ anchor' = t.hour
             /\ Merge("p", values, t, 0, t.hour)
             /\ Tell(values)
    /\ section' = "current_weather"
    /\ UNCHANGED <<policy, length, observed>>

NoCurrentWeather ==
    /\ section = "current_weather"
    /\ section' = "pollution_history"
    /\ UNCHANGED <<policy, anchor, bucket, made, length, told, observed>>

\* A current weather without a timestamp is taken for the anchor's.
CurrentWeather ==
    /\ section = "current_weather"
    /\ \E t \in Instant \cup (IF anchor = Nothing THEN {} ELSE {[hour |-> anchor, minute |-> 0]}),
          said \in Said(Weather) :
         LET values == Values(said, "current", t)
         IN  /\ Merge("w", values, t, 0, t.hour)
             /\ Tell(values)
             /\ observed' = t.hour
    /\ section' = "pollution_history"
    /\ UNCHANGED <<policy, anchor, length>>

\* One report of a list.  Weather that the policy does not move has no overlap.
Past(part, fields, t) ==
    \E said \in Said(fields) :
        LET values == Values(said, "history", t)
        IN  /\ IF (part = "w" => Shift("w") # 0) /\ IsOverlap(t.hour)
               THEN Fill(part, values, t)
               ELSE Merge(part, values, t, Shift(part), t.hour + Shift(part))
            /\ Tell(values)

PollutionHistory ==
    /\ section = "pollution_history" /\ length < MaxReports
    /\ \E t \in Instant : Past("p", Pollution, norm_hour(t))
    /\ length' = length + 1
    /\ UNCHANGED <<policy, section, anchor, observed>>

WeatherHistory ==
    /\ section = "weather_history" /\ length < MaxReports
    /\ \E t \in Instant : Past("w", Weather, norm_hour(t))
    /\ length' = length + 1
    /\ UNCHANGED <<policy, section, anchor, observed>>

EndOfHistory ==
    /\ \/ section = "pollution_history" /\ section' = "weather_history"
       \/ section = "weather_history" /\ section' = "validation"
    /\ length' = 0
    /\ UNCHANGED <<policy, anchor, bucket, made, told, observed>>

(***************************************************************************)
(* normalize_envelope and validate_reading.                                *)
(***************************************************************************)

\* Neither later than an hour from now nor before the cutoff.
Accepted(h) ==
    /\ h <= Now.hour + 1
    /\ h > Now.hour - Backfill \/ (h = Now.hour - Backfill /\ Now.minute = 0)

Quarantined(b) ==
    [b EXCEPT !.vals = [f \in Measure |-> IF @[f] # Nothing /\ @[f].good THEN @[f] ELSE Nothing]]

Validate ==
    /\ section = "validation"
    /\ made' = {h \in made : Accepted(h)}
    /\ bucket' = [h \in BucketHour |-> IF h \in made' THEN Quarantined(bucket[h]) ELSE NewBucket]
    /\ section' = "done"
    /\ UNCHANGED <<policy, anchor, length, told, observed>>

\* The rows are handed on, and the next station's payload is read.
NextPayload ==
    /\ section = "done"
    /\ policy' \in {"iqair_station_v1", "iqair_city_v1"}
    /\ section' = "current_pollution"
    /\ anchor' = Nothing
    /\ bucket' = [h \in BucketHour |-> NewBucket]
    /\ made' = {}
    /\ told' = {}
    /\ observed' = Nothing
    /\ UNCHANGED length

IqairNext ==
    \/ NoCurrentPollution \/ CurrentPollution
    \/ NoCurrentWeather \/ CurrentWeather
    \/ PollutionHistory \/ WeatherHistory \/ EndOfHistory
    \/ Validate \/ NextPayload

IqairSpec == IqairInit /\ [][IqairNext]_iqairVars

(***************************************************************************)
(* Properties.                                                             *)
(***************************************************************************)

\* The hour a report is about, under the policy.
Landing(r) ==
    r.value.at.hour + (IF r.value.from = "history" THEN Shift(PartOf(r.field)) ELSE 0)

\* An hour for which the payload had a good value of a field, in the window of the
\* validation, has a value the payload reported for that hour, whatever the order
\* and however often hours are named: "a history value for that hour" is no longer
\* lost (temporal.py).  Not so if it also reported a faulty one, which the
\* overlap entry does not replace and validation then takes out.
NothingReportedIsLost ==
    section = "done" =>
        \A r \in told :
            LET h == Landing(r)
                v == bucket[h].vals[r.field]
                rivals == {o \in told : o.field = r.field /\ Landing(o) = h}
            IN  Accepted(h) /\ (\A o \in rivals : o.value.good) =>
                    h \in made /\ [field |-> r.field, value |-> v] \in rivals

\* History never replaces a current value ("current wins over the overlap"): not
\* pollution, and not weather that the policy moves and that is of the anchor's
\* hour.  Other current weather can be replaced, by the entry of its own hour
\* or, when its hour is not the anchor's, of the one before.
CurrentStands ==
    \A r \in told :
        /\ r.value.from = "current"
        /\ PartOf(r.field) = "w" => Shift("w") = 1 /\ r.value.at.hour = anchor
        /\ section = "done" => r.value.good /\ Accepted(r.value.at.hour)
        => bucket[r.value.at.hour].vals[r.field] = r.value

\* The provenance of a row gives for every value the timestamp of the report it
\* came from and how far that was moved, "so it can be ... reversed without a
\* refetch" (temporal.py).  Not so for weather that a past report put into the
\* hour of the current weather: src_ts and shift_h then stay the current report's.
\* The station policy does so with the entry of that very hour.
ProvenanceExplains ==
    \A h \in made, f \in Measure :
        LET b == bucket[h]
            v == b.vals[f]
            part == PartOf(f)
        IN  v # Nothing =>
                \/ /\ f \in b.filled
                   /\ v.from = "history" /\ b.overlap[part] = v.at /\ v.at.hour + 1 = h
                \/ /\ f \notin b.filled
                   /\ b.src[part] = v.at /\ v.at.hour + b.shift[part] = h
                \/ /\ part = "w" /\ v.from = "history" /\ f \notin b.filled /\ h = observed
                   /\ Shift("w") = 1 => h # anchor
=============================================================================
