--------------------------- MODULE MC_ProviderQuota ---------------------------
(* A small instance of ProviderQuota: two callers in two instances, minutes   *)
(* of one slot, hours of three minutes.                                       *)
EXTENDS ProviderQuota, TLC

CONSTANTS a, b, p, q

TwoProcs == [x \in Call |-> IF x = a THEN p ELSE q]
OnePublic == [x \in Process |-> x = p]
One == [x \in Process |-> 1]
Two == [x \in Process |-> 2]
=============================================================================
