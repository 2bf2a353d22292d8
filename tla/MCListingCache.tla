--------------------------- MODULE MCListingCache ---------------------------
(* Model checking the shared listing cache: viewers are interchangeable.   *)
EXTENDS ListingCache, TLC

Symmetry == Permutations(Viewers)
=============================================================================
