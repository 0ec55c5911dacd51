--------------------------- MODULE MCSiteAnalysis ---------------------------
EXTENDS SiteAnalysis
=============================================================================
