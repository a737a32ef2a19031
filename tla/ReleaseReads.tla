---------------------------- MODULE ReleaseReads ----------------------------
(***************************************************************************)
(* Release notes (releasebutler.generate_notes): the range is taken from   *)
(* one listing of the releases and its commits from a later comparison,    *)
(* while others push commits, publish, draft and delete releases and move  *)
(* tags.                                                                   *)
(*                                                                         *)
(* Commits are numbered by their dates; Reach gives what git log shows of  *)
(* each, on whatever branch it is.  The releases are listed in the order   *)
(* GitHub has them in, which need not be that of the history: backports,   *)
(* prereleases and drafts are among them.  A draft may name a tag that     *)
(* does not exist, or that another release names too.                      *)
(*                                                                         *)
(* A step of a call is one request to GitHub.  Module Runtime composes     *)
(* them: a call leaves here at pc "log".                                   *)
(***************************************************************************)
EXTENDS Calls, Naturals, Sequences, FiniteSets, SequencesExt

CONSTANTS
    Tags,
    Commits, Reach,     \* Reach: [Commits -> the commits in its history, itself one]
    FirstReleases, FirstTagged, FirstHead,  \* what there is when the service starts
    ListedReleases,     \* list_releases: one page of 30
    CompareLimit,       \* GitHub compares up to 250 commits on one page
    MaxReleases         \* bound: releases at a time

ASSUME ReleaseReadsAssumption ==
    /\ None \notin Tags /\ None \notin Commits
    /\ Commits \subseteq Nat /\ IsFiniteSet(Commits)
    /\ Reach \in [Commits -> SUBSET Commits]
    /\ FirstReleases \in Seq(Tags) /\ FirstTagged \in [Tags -> Commits \cup {None}]
    /\ FirstHead \in Commits
    /\ ListedReleases \in Nat /\ CompareLimit \in Nat

VARIABLES
    releases,   \* the tag names of the releases, as they are listed
    tagged,     \* [Tags -> commit, None where there is no such tag]
    head,       \* the newest commit of the default branch
    wasAt       \* history: [Tags -> every commit the tag was at]

releaseVars == <<releases, tagged, head, wasAt>>

ReleaseReadsInit ==
    /\ releases = FirstReleases /\ tagged = FirstTagged /\ head = FirstHead
    /\ wasAt = [t \in Tags |-> {FirstTagged[t]} \ {None}]

-----------------------------------------------------------------------------
(* generate_notes                                                          *)

ReleasePage(list) == SubSeq(list, 1, IF Len(list) < ListedReleases THEN Len(list) ELSE ListedReleases)

\* _find_previous_tag: the one listed after it.
PreviousTag(list, to) ==
    LET named == {n \in DOMAIN list : list[n] = to} IN
    IF named = {} \/ Min(named) = Len(list) THEN None ELSE list[Min(named) + 1]

\* to_tag, else tag, else the release listed first.
ResolvedTo(r, list) ==
    IF r.to # None THEN r.to ELSE IF r.tag # None THEN r.tag
    ELSE IF list = <<>> THEN None ELSE Head(list)

ResolvedFrom(r, list) ==
    IF r.from # None THEN r.from ELSE PreviousTag(list, ResolvedTo(r, list))

\* max(1, min(fallback_window or window or 20, 100))
Window(r) ==
    LET asked == IF r.fallback \notin {None, 0} THEN r.fallback
                 ELSE IF r.window # 0 THEN r.window ELSE 20 IN
    IF asked < 1 THEN 1 ELSE IF asked > 100 THEN 100 ELSE asked

Notes(range, commits, fallback) ==
    [from |-> range.from, to |-> range.to, commits |-> commits, fallback |-> fallback]

\* The newest n of a set of commits.
Newest(S, n) == {c \in S : Cardinality({d \in S : d > c}) < n}

\* The range is fixed by one listing; with half a range there is nothing to compare.
ListReleases(p) ==
    LET r == at[p].req
        page == ReleasePage(releases)
        range == [from |-> ResolvedFrom(r, page), to |-> ResolvedTo(r, page)] IN
    /\ at[p].pc = "generate_notes"
    /\ Step(p, IF None \in {range.from, range.to} THEN "commits" ELSE "compare", range)
    /\ UNCHANGED releaseVars

Between(base, tip) == Reach[tip] \ Reach[base]

\* Mutation: base and head change places.
CompareSwapped(p) ==
    LET range == at[p].got
        base == tagged[range.from]
        tip == tagged[range.to] IN
    /\ at[p].pc = "compare"
    /\ IF None \in {base, tip}
       THEN Step(p, "commits", range)
       ELSE Step(p, "log", Notes(range, Newest(Between(tip, base), CompareLimit), FALSE))
    /\ UNCHANGED releaseVars

\* compare_commits: what the head has and the base has not, as far as one page
\* goes; 404 without the tags.
CompareCommits(p) ==
    LET range == at[p].got
        base == tagged[range.from]
        tip == tagged[range.to] IN
    /\ at[p].pc = "compare"
    /\ IF None \in {base, tip}
       THEN Step(p, "commits", range)
       ELSE Step(p, "log", Notes(range, Newest(Between(base, tip), CompareLimit), FALSE))
    /\ UNCHANGED releaseVars

\* list_commits after no compare or a failed one: the newest of the default
\* branch, whatever the tag.
ListCommits(p) ==
    /\ at[p].pc = "commits"
    /\ Step(p, "log", Notes(at[p].got, Newest(Reach[head], Window(at[p].req)), TRUE))
    /\ UNCHANGED releaseVars

ReleaseReadsHandle(p) == ListReleases(p) \/ CompareCommits(p) \/ ListCommits(p)

-----------------------------------------------------------------------------
(* GitHub                                                                  *)

Push ==
    /\ head' \in {c \in Commits : c # head /\ head \in Reach[c]}
    /\ UNCHANGED <<at, releases, tagged, wasAt>>

\* A release appears somewhere in the list; its tag exists, is put on some
\* commit, or is left out (a draft).
Publish(t) ==
    /\ Len(releases) < MaxReleases
    /\ \E n \in 1 .. Len(releases) + 1 : releases' = InsertAt(releases, n, t)
    /\ IF tagged[t] # None
       THEN UNCHANGED <<tagged, wasAt>>
       ELSE \E c \in Commits \cup {None} :
            /\ tagged' = [tagged EXCEPT ![t] = c]
            /\ wasAt' = [wasAt EXCEPT ![t] = @ \cup ({c} \ {None})]
    /\ UNCHANGED <<at, head>>

\* A release is deleted, with its tag or without it.
Unpublish(n) ==
    /\ releases' = RemoveAt(releases, n)
    /\ tagged' \in {tagged, [tagged EXCEPT ![releases[n]] = None]}
    /\ UNCHANGED <<at, head, wasAt>>

ReleaseReadsWorld ==
    Push \/ (\E t \in Tags : Publish(t)) \/ (\E n \in DOMAIN releases : Unpublish(n))
=============================================================================
