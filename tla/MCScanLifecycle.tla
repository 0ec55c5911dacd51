-------------------------- MODULE MCScanLifecycle --------------------------
EXTENDS ScanLifecycle, TLC

Symmetry == Permutations(Workers)

=============================================================================
