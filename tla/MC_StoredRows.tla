---------------------------- MODULE MC_StoredRows ----------------------------
(* Small instances of what db.py and reconcile.py store: the row of an hour    *)
(* (one primary field, one other), and the stations of one city of two         *)
(* devices.  The two share no state, so a behaviour moves one of them.         *)
EXTENDS ReadingsReconcile, StationIdentity, TLC

CONSTANTS Focus, w1, w2, pm25, o3, d1, d2, n1, n2, n3, x1, x2, c1

Alike == Permutations(Device) \cup Permutations(Name) \cup Permutations(Site)

VARIABLE focus

vars == <<focus, reconcileVars, identityVars>>
Init ==
    /\ focus \in Focus
    /\ ReconcileInit /\ IdentityInit
    /\ focus # "readings" => row = NoRow

ReadingsStep == focus = "readings" /\ ReconcileNext /\ UNCHANGED <<focus, identityVars>>
StationsStep == focus = "stations" /\ IdentityNext /\ UNCHANGED <<focus, reconcileVars>>
Next == ReadingsStep \/ StationsStep

Spec == Init /\ [][Next]_vars
=============================================================================
