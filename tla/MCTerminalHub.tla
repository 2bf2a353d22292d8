--------------------------- MODULE MCTerminalHub ---------------------------
(* Model checking the terminal hub *)
EXTENDS TerminalHub, TLC

Symmetry == Permutations(Clients) \cup Permutations(Keys)
=============================================================================
