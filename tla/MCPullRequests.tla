-------------------------- MODULE MCPullRequests --------------------------
EXTENDS PullRequests
=============================================================================
