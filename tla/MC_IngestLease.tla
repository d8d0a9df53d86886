--------------------------- MODULE MC_IngestLease ---------------------------
(* Small instances of IngestLease: four runs of one job in two processes,  *)
(* the number it takes to expire, steal, release and insert anew.           *)
EXTENDS IngestLease

CONSTANTS k1, a, b, c, d, p1, p2

OneKey == [h \in Holder |-> k1]
TwoProcs == [h \in Holder |-> IF h \in {a, c} THEN p1 ELSE p2]
OnePublic == [p \in Process |-> p = p1]
=============================================================================
