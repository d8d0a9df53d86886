-------------------------- MODULE MC_StationIngest --------------------------
(* Small instances of StationIngest.                                          *)
EXTENDS StationIngest

CONSTANTS h, w, s1, s2
=============================================================================
