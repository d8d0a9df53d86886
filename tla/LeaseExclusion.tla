--------------------------- MODULE LeaseExclusion ---------------------------
(***************************************************************************)
(* What ops.ingest_leases promises to one scheduled job, without saying    *)
(* how: at any moment at most one run of a lease key is entitled to work,  *)
(* entitlement is granted only when nobody has it, and it can end at any   *)
(* time (release, crash of the run, expiry of the lease).                  *)
(***************************************************************************)
EXTENDS FiniteSets

CONSTANTS Key, Holder

VARIABLE entitled     \* entitled[k]: the runs that may act for lease key k

Init == entitled = [k \in Key |-> {}]

\* A run becomes the one entitled to k; nobody may be at that time.
Grant(k, h) ==
    /\ entitled[k] = {}
    /\ entitled' = [entitled EXCEPT ![k] = {h}]

\* Entitlement ends, possibly for several keys at once (time passes for all).
Lapse ==
    /\ entitled' \in [Key -> SUBSET Holder]
    /\ \A k \in Key : entitled'[k] \subseteq entitled[k]

Next == Lapse \/ \E k \in Key, h \in Holder : Grant(k, h)

Spec == Init /\ [][Next]_entitled

\* No two runs are ever entitled to the same key.
Exclusive == \A k \in Key : \A h, g \in entitled[k] : h = g
=============================================================================
