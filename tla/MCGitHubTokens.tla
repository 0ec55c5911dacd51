-------------------------- MODULE MCGitHubTokens --------------------------
EXTENDS GitHubTokens, TLC

Symmetry == Permutations(Requests) \union Permutations(States)
=============================================================================
