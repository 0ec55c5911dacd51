---------------------------- MODULE MCSandboxes ----------------------------
EXTENDS Sandboxes, TLC

CONSTANTS r1, r2, h1, h2

\* Two workers, one call each.
TwoRuns == (r1 :> h1) @@ (r2 :> h2)
=============================================================================
