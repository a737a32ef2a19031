----------------------------- MODULE MCSiteLint -----------------------------
(***************************************************************************)
(* Callers for the model checker: default keys, one key used for two urls, *)
(* a baseline that exists, will exist or never does.                       *)
(***************************************************************************)
EXTENDS SiteLint

CONSTANTS j1, j2, u1, u2, k

Plain == [key |-> None, url |-> u1, base |-> None]
Compared == [key |-> None, url |-> u1, base |-> j1]
Keyed(u) == [key |-> k, url |-> u, base |-> None]

\* Two keys: a content-derived one with a baseline, and one of the caller's
\* own under which two different urls are asked for.
MCRequests == {Compared, Keyed(u1), Keyed(u2)}

\* Only content-derived keys.
MCDerived == {Plain, Compared}
=============================================================================
