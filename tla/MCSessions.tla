----------------------------- MODULE MCSessions -----------------------------
EXTENDS Sessions, TLC

Symmetry == Permutations(Tokens) \union Permutations(Requests)
============================================================================
