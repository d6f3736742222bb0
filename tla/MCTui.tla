-------------------------------- MODULE MCTui --------------------------------
EXTENDS Tui, TLC

Symmetry == Permutations(Server) \cup Permutations(Target)
=============================================================================
