---------------------------- MODULE MCSpawnPins -----------------------------
(* Model checking the spawn records: viewers, spawns and sessions are each *)
(* interchangeable.                                                        *)
EXTENDS SpawnPins, TLC

Symmetry == Permutations(Viewers) \cup Permutations(Spawns) \cup Permutations(Sessions)
=============================================================================
