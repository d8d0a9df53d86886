---------------------------- MODULE MC_ProcessLocal ----------------------------
(* Small instances of three parts of one process: the two caches an API        *)
(* instance keeps beside its requests, and the rows of a payload.  They share  *)
(* no state, so a behaviour moves one of them.                                 *)
EXTENDS VoiceBrief, BlobCache, IqairRows, TLC

CONSTANTS v1, v2, v3, v4, v5, v6, rain, haze, r1, r2, r3, r4, x, y, z, pm25, weather_icon

FiveAboutHaze == [v \in Visitor |-> IF v = v6 THEN rain ELSE haze]
\* Visitors about one reading are alike: they come in an order of ours.
Arrival == <<v1, v2, v3, v4, v5>>
InOrder ==
    \A i \in 1 .. Len(Arrival) - 1 :
       visit[Arrival[i]] = "new" => visit[Arrival[i + 1]] = "new"

TwoForX == [r \in Reader |-> CASE r = r2 -> y [] r = r3 -> z [] OTHER -> x]
TwentyPastOne == [hour |-> 1, minute |-> 20]

VARIABLE focus

vars == <<focus, voiceVars, cacheVars, iqairVars>>
Init ==
    /\ focus \in {"voice", "blobs", "rows"}
    /\ VoiceInit /\ BlobInit /\ IqairInit
    /\ focus # "blobs" => published = {}
    /\ focus # "rows" => policy = "iqair_city_v1"

VoiceStep == focus = "voice" /\ VoiceNext /\ InOrder' /\ UNCHANGED <<focus, cacheVars, iqairVars>>
BlobStep == focus = "blobs" /\ BlobNext /\ UNCHANGED <<focus, voiceVars, iqairVars>>
RowStep == focus = "rows" /\ IqairNext /\ UNCHANGED <<focus, voiceVars, cacheVars>>
Next == VoiceStep \/ BlobStep \/ RowStep

Spec == Init /\ [][Next]_vars
=============================================================================
