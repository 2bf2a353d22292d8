------------------------ MODULE MCEmbeddedTerminals ------------------------
(* Model checking the embedded terminals: sessions are interchangeable.    *)
EXTENDS EmbeddedTerminals, TLC

Symmetry == Permutations(Sessions)
=============================================================================
