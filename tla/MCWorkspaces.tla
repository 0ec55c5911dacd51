--------------------------- MODULE MCWorkspaces ---------------------------
EXTENDS Workspaces, TLC

CONSTANTS t1, t2, h1, h2

TwoHosts == (t1 :> h1) @@ (t2 :> h2)

\* A scan and an enrichment (twice as long by default).
ScanAndEnrichment == (t1 :> ScanTimeout) @@ (t2 :> 2 * ScanTimeout)
=============================================================================
