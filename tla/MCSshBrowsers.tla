---------------------------- MODULE MCSshBrowsers ----------------------------
EXTENDS SshBrowsers, TLC

Symmetry == Permutations(Owners)
=============================================================================
