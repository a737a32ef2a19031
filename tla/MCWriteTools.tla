---------------------------- MODULE MCWriteTools ----------------------------
(***************************************************************************)
(* Clients for the model checker: an issue and a release on an allowlisted *)
(* repo, the release also as a dry run and as a draft, an export, and an   *)
(* issue elsewhere.                                                        *)
(***************************************************************************)
EXTENDS WriteTools

CONSTANTS home, other, x

Ask(t, r) == [tool |-> t, repo |-> r, item |-> x, draft |-> FALSE, dry |-> FALSE]
Issue(r) == Ask("create_issue", r)
Release == Ask("create_release", home)
Draft == [Release EXCEPT !.draft = TRUE]
DryRun == [Release EXCEPT !.dry = TRUE]
Export == Ask("export_report", None)

MCIntents == {Issue(home), Issue(other), Release, Draft, DryRun, Export}
MCFewIntents == {Issue(home), Release}
=============================================================================
