--------------------------------- MODULE MCLocks ---------------------------------
EXTENDS Locks, TLC

CONSTANTS v1, v2, s, t, x, y, z, a, b, d

OneVolume == (a :> v1) @@ (b :> v1) @@ (d :> v1)
TwoVolumes == (a :> v1) @@ (b :> v2)
Alike == Permutations({s, t}) \cup Permutations({x, y}) \cup Permutations({a, b})
=============================================================================
