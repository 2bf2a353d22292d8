--------------------------- MODULE MCKillGesture ---------------------------
(* Model checking the kill gesture: sessions are interchangeable.          *)
EXTENDS KillGesture, TLC

Symmetry == Permutations(Keys)
=============================================================================
