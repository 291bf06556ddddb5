------------------------------- MODULE MCTsh -------------------------------
EXTENDS Tsh, TLC
PidSymmetry == Permutations(Pids)
=============================================================================
