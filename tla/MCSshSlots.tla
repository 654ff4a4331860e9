----------------------------- MODULE MCSshSlots -----------------------------
EXTENDS SshSlots, TLC

Symmetry == Permutations(Owners) \union Permutations(SignOuts)
=============================================================================
