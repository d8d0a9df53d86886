-------------------------- MODULE MC_StationManifest --------------------------
(* Small instances of StationManifest: two instances, and two stations in two *)
(* cities of two states.                                                      *)
EXTENDS StationManifest, TLC

CONSTANTS i, j, s, t, c, d, A, B

OneCity == [x \in Station |-> c]
OneEach == [x \in Station |-> IF x = s THEN c ELSE d]
TwoStates == [x \in City |-> IF x = c THEN A ELSE B]
Nationwide == {State}
Overlapping == {State, {A}}
SameInstance == Permutations({i, j})
=============================================================================
