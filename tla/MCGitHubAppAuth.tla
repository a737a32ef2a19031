-------------------------- MODULE MCGitHubAppAuth --------------------------
EXTENDS GitHubAppAuth

\* West of Greenwich, on it, and east by less and by more than the life of a
\* token.
AuthZones == {-2, 0, 1, 5}
=============================================================================
