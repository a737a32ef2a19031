-------------------------- MODULE MCReleaseButler --------------------------
(***************************************************************************)
(* Callers for the model checker: two files of one name in different       *)
(* directories, asked for together in a published release, files of two    *)
(* names in a draft, and a dry run, all of one tag.                        *)
(***************************************************************************)
EXTENDS ReleaseButler, TLC

CONSTANTS p1, p2, p3, a, b, v1

MCNameOf == (p1 :> a) @@ (p2 :> a) @@ (p3 :> b)

Release(assets, draft, dry) ==
    [tag |-> v1, assets |-> assets, draft |-> draft, dry |-> dry, manifest |-> TRUE]

MCRequests == {Release(<<p1, p2>>, FALSE, FALSE), Release(<<p1, p3>>, TRUE, FALSE),
               Release(<<p1>>, FALSE, TRUE)}
=============================================================================
