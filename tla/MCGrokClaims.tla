---------------------------- MODULE MCGrokClaims ----------------------------
(* Model checking the Grok lookups: viewers are interchangeable, and so    *)
(* are folders.                                                            *)
EXTENDS GrokClaims, TLC

Symmetry == Permutations(Viewers) \cup Permutations(Folders)
=============================================================================
