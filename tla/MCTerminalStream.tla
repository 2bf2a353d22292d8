-------------------------- MODULE MCTerminalStream --------------------------
(* Model checking the way of output to the phones *)
EXTENDS TerminalStream, TLC

Symmetry == Permutations(Sockets)
=============================================================================
