\* Six visitors, five about one reading, an allowance of two syntheses a day;
\* four raster requests for three objects, a cache of two files;
\* payloads about three hours with lists of two reports, and a cutoff of one hour.
CONSTANTS
    v1 = v1  v2 = v2  v3 = v3  v4 = v4  v5 = v5  v6 = v6  rain = rain  haze = haze
    r1 = r1  r2 = r2  r3 = r3  r4 = r4  x = x  y = y  z = z
    pm25 = pm25  weather_icon = weather_icon
    Visitor = {v1, v2, v3, v4, v5, v6}
    Reading = {rain, haze}
    ReadingOf <- FiveAboutHaze
    SynthLimit = 2
    LastVoiceDay = 1
    NoLock = NoLock
    Reader = {r1, r2, r3, r4}
    Key = {x, y, z}
    KeyOf <- TwoForX
    MaxFiles = 2
    MaxAbsent = 1
    NoFile = NoFile
    Pollution = {pm25}
    Weather = {weather_icon}
    Numeric = {pm25}
    LastHour = 2
    Minutes = {0, 20}
    Now <- TwentyPastOne
    Backfill = 1
    MaxReports = 2
    Nothing = Nothing
SPECIFICATION Spec
INVARIANTS OneSynthesisPerReading PaidWithinLimit DiskIsAccountedFor ReadersOutliveEviction
INVARIANTS NothingReportedIsLost CurrentStands ProvenanceExplains
CHECK_DEADLOCK FALSE
