--------------------------- MODULE MCTerminalInput ---------------------------
(* TerminalInput for the sockets and bounds of the configuration *)
EXTENDS TerminalInput, TLC

Symmetry == Permutations(Sockets)
=============================================================================
