--------------------------- MODULE ReleaseButler ---------------------------
(***************************************************************************)
(* releasebutler.create_release once the write gate has let it through:    *)
(* the local files are validated and hashed one by one, the release is     *)
(* created on GitHub (with the retries of GitHubClient._request), then each *)
(* file is read again and uploaded (once, without retries) and whatever    *)
(* goes wrong with it is collected.  Meanwhile others change the files,    *)
(* requests and responses are lost and the process may die.  The API       *)
(* process handles one call at a time.                                     *)
(*                                                                         *)
(* A sha256 is the content it is of.  A release is known by the request    *)
(* that made it, the call and its attempt: GitHub gives each an id.        *)
(***************************************************************************)
EXTENDS Naturals, Sequences, FiniteSets

CONSTANTS
    Paths, Contents,    \* local files and what may be in them
    NameOf,             \* [Paths -> the file's name, its asset name on GitHub]
    Requests,           \* the [tag, assets, draft, dry, manifest] callers send
    None,               \* no file, no release, no manifest
    MaxCalls,           \* bound: create_release calls
    MaxFaults,          \* bound: lost messages, refusals, unreadable files, crashes
    MaxEdits            \* bound: changes of the files

Tags == {r.tag : r \in Requests}
Names == {NameOf[p] : p \in Paths}
Checks == [path : Paths, name : Names, sha : Contents]
Assets == [name : Names, content : Contents, by : Nat]
Releases == [tag : Tags, draft : BOOLEAN, assets : SUBSET Assets]

\* tenacity: stop_after_attempt(3)
MaxAttempts == 3

\* The requests that may make a release.
Attempts == (1 .. MaxCalls) \X (1 .. MaxAttempts)

ASSUME ReleaseAssumption ==
    /\ \A r \in Requests : r.assets \in Seq(Paths) /\ r.draft \in BOOLEAN
    /\ None \notin Contents /\ None \notin Releases
    /\ MaxCalls \in Nat /\ MaxFaults \in Nat /\ MaxEdits \in Nat

VARIABLES
    disk,       \* [Paths -> Contents, or None where there is no file]
    releases,   \* on GitHub: [Attempts -> [tag, draft, assets] or None]
    at,         \* the call being handled
    results,    \* every result create_release returned
    changed,    \* history: files changed since the call began
    died,       \* history: calls in which the process died
    calls, faults, edits

vars == <<disk, releases, at, results, changed, died, calls, faults, edits>>

Idle == [pc |-> "idle", call |-> 0, req |-> None, i |-> 1, attempt |-> 1,
         release |-> None, url |-> FALSE, checks |-> <<>>, uploaded |-> <<>>, failed |-> <<>>]

Init ==
    /\ disk \in [Paths -> Contents \cup {None}]
    /\ releases = [x \in Attempts |-> None]
    /\ at = Idle /\ results = {} /\ changed = {} /\ died = {}
    /\ calls = 0 /\ faults = 0 /\ edits = 0

Fault == faults < MaxFaults /\ faults' = faults + 1

\* The call ends with an exception, JSON-RPC error -32000.
Raises == at' = Idle

-----------------------------------------------------------------------------
(* Validation                                                              *)

CreateRelease(r) ==
    /\ at.pc = "idle" /\ calls < MaxCalls
    /\ calls' = calls + 1
    /\ at' = [Idle EXCEPT !.pc = "validate", !.call = calls', !.req = r]
    /\ changed' = {}
    /\ UNCHANGED <<disk, releases, results, died, faults, edits>>

\* Mutation: a missing file is skipped.
ValidateSkipping ==
    /\ at.pc = "validate" /\ at.i <= Len(at.req.assets)
    /\ LET p == at.req.assets[at.i] IN
       IF disk[p] = None
       THEN at' = [at EXCEPT !.i = @ + 1]
       ELSE at' = [at EXCEPT !.i = @ + 1,
                    !.checks = Append(@, [path |-> p, name |-> NameOf[p], sha |-> disk[p]])]
    /\ UNCHANGED <<disk, releases, results, changed, died, calls, faults, edits>>

\* _validate_assets, one round of its loop.
Validate ==
    /\ at.pc = "validate" /\ at.i <= Len(at.req.assets)
    /\ LET p == at.req.assets[at.i] IN
       IF disk[p] = None
       THEN at' = [at EXCEPT !.i = @ + 1, !.failed = Append(@, p)]
       ELSE at' = [at EXCEPT !.i = @ + 1,
                    !.checks = Append(@, [path |-> p, name |-> NameOf[p], sha |-> disk[p]])]
    /\ UNCHANGED <<disk, releases, results, changed, died, calls, faults, edits>>

\* read_bytes raises: no permission, or the file went away after exists().
ValidateRaises ==
    /\ at.pc = "validate" /\ at.i <= Len(at.req.assets)
    /\ Fault /\ Raises
    /\ UNCHANGED <<disk, releases, results, changed, died, calls, edits>>

Result == [call |-> at.call, req |-> at.req, release |-> at.release,
           manifest |-> IF at.req.manifest THEN at.checks ELSE <<>>,
           uploaded |-> at.uploaded, failed |-> at.failed, changed |-> changed]

Returns == results' = results \cup {Result} /\ at' = Idle

\* A dry run ends here.
Validated ==
    /\ at.pc = "validate" /\ at.i > Len(at.req.assets)
    /\ IF at.req.dry
       THEN Returns
       ELSE at' = [at EXCEPT !.pc = "create", !.i = 1] /\ UNCHANGED results
    /\ UNCHANGED <<disk, releases, changed, died, calls, faults, edits>>

-----------------------------------------------------------------------------
(* The release                                                             *)

Id == <<at.call, at.attempt>>

Published(t) ==
    {x \in Attempts : releases[x] # None /\ releases[x].tag = t /\ ~releases[x].draft}

\* GitHub takes one published release of a tag, and any number of drafts.
Taken == ~at.req.draft /\ Published(at.req.tag) # {}

Created ==
    /\ ~Taken
    /\ releases' = [releases EXCEPT ![Id] =
                      [tag |-> at.req.tag, draft |-> at.req.draft, assets |-> {}]]

CreateDone ==
    /\ at.pc = "create"
    /\ Created
    /\ \E url \in BOOLEAN : at' = [at EXCEPT !.pc = "upload", !.release = Id, !.url = url]
    /\ UNCHANGED <<disk, results, changed, died, calls, faults, edits>>

\* Mutation: the assets go to the release that has the tag already.
CreateAdopting ==
    /\ at.pc = "create" /\ Taken
    /\ \E x \in Published(at.req.tag) :
          at' = [at EXCEPT !.pc = "upload", !.release = x, !.url = TRUE]
    /\ UNCHANGED <<disk, releases, results, changed, died, calls, faults, edits>>

\* GitHub answers 400 or above, always when the tag is taken.
CreateRejected ==
    /\ at.pc = "create" /\ Raises
    /\ IF Taken THEN UNCHANGED faults ELSE Fault
    /\ UNCHANGED <<disk, releases, results, changed, died, calls, edits>>

\* Mutation: one attempt too many.
CreateLostFourTimes ==
    /\ at.pc = "create" /\ Fault
    /\ UNCHANGED releases \/ Created
    /\ IF at.attempt <= MaxAttempts THEN at' = [at EXCEPT !.attempt = @ + 1] ELSE Raises
    /\ UNCHANGED <<disk, results, changed, died, calls, edits>>

\* httpx.HTTPError before or after the release came to be.  The next attempt
\* meets it when it is published, and makes a second one when it is a draft.
CreateLost ==
    /\ at.pc = "create" /\ Fault
    /\ UNCHANGED releases \/ Created
    /\ IF at.attempt < MaxAttempts THEN at' = [at EXCEPT !.attempt = @ + 1] ELSE Raises
    /\ UNCHANGED <<disk, results, changed, died, calls, edits>>

-----------------------------------------------------------------------------
(* The uploads                                                             *)

Uploading == at.pc = "upload" /\ at.i <= Len(at.checks)
Path == at.checks[at.i].path
Name == at.checks[at.i].name

\* The request can succeed: there is an upload_url and a file to open, and the
\* release has no asset of the name (GitHub refuses a second one).
Possible ==
    /\ at.url /\ disk[Path] # None
    /\ \A a \in releases[at.release].assets : a.name # Name

\* Mutation: the file that is uploaded is the next one.
AttachedOffByOne ==
    LET q == at.checks[IF at.i < Len(at.checks) THEN at.i + 1 ELSE at.i].path IN
    releases' = [releases EXCEPT ![at.release].assets =
        @ \cup {[name |-> Name, content |-> disk[q], by |-> at.call]}]

\* The asset is on GitHub, with what the file holds now.
Attached ==
    releases' = [releases EXCEPT ![at.release].assets =
        @ \cup {[name |-> Name, content |-> disk[Path], by |-> at.call]}]

UploadDone ==
    /\ Uploading /\ Possible
    /\ Attached
    /\ at' = [at EXCEPT !.i = @ + 1, !.uploaded = Append(@, Name)]
    /\ UNCHANGED <<disk, results, changed, died, calls, faults, edits>>

\* Mutation: a failed upload ends the call.
UploadFailsAll ==
    /\ Uploading
    /\ IF Possible THEN Fault /\ (UNCHANGED releases \/ Attached)
                   ELSE UNCHANGED <<faults, releases>>
    /\ Raises
    /\ UNCHANGED <<disk, results, changed, died, calls, edits>>

\* Mutation: an upload counts as done whatever came of it.
UploadFailsUnseen ==
    /\ Uploading
    /\ IF Possible THEN Fault /\ (UNCHANGED releases \/ Attached)
                   ELSE UNCHANGED <<faults, releases>>
    /\ at' = [at EXCEPT !.i = @ + 1, !.uploaded = Append(@, Name)]
    /\ UNCHANGED <<disk, results, changed, died, calls, edits>>

\* Any exception: collected, and the loop goes on.  A response that was lost
\* leaves an asset that is reported as failed.
UploadFails ==
    /\ Uploading
    /\ IF Possible THEN Fault /\ (UNCHANGED releases \/ Attached)
                   ELSE UNCHANGED <<faults, releases>>
    /\ at' = [at EXCEPT !.i = @ + 1, !.failed = Append(@, Path)]
    /\ UNCHANGED <<disk, results, changed, died, calls, edits>>

Finish ==
    /\ at.pc = "upload" /\ at.i > Len(at.checks)
    /\ Returns
    /\ UNCHANGED <<disk, releases, changed, died, calls, faults, edits>>

-----------------------------------------------------------------------------
(* The rest of the world                                                   *)

\* A file is written, rewritten or removed.
Edit(p) ==
    /\ edits < MaxEdits /\ edits' = edits + 1
    /\ \E c \in (Contents \cup {None}) \ {disk[p]} : disk' = [disk EXCEPT ![p] = c]
    /\ changed' = IF at.pc = "idle" THEN changed ELSE changed \cup {p}
    /\ UNCHANGED <<releases, at, results, died, calls, faults>>

Crash ==
    /\ at.pc # "idle" /\ Fault /\ Raises
    /\ died' = died \cup {at.call}
    /\ UNCHANGED <<disk, releases, results, changed, calls, edits>>

Next ==
    \/ \E r \in Requests : CreateRelease(r)
    \/ Validate \/ ValidateRaises \/ Validated
    \/ CreateDone \/ CreateRejected \/ CreateLost
    \/ UploadDone \/ UploadFails \/ Finish
    \/ \E p \in Paths : Edit(p)
    \/ Crash

Spec == Init /\ [][Next]_vars

-----------------------------------------------------------------------------
(* Properties                                                              *)

Handled ==
    [pc : {"idle", "validate", "create", "upload"}, call : 0 .. MaxCalls,
     req : Requests \cup {None}, i : Nat, attempt : 1 .. MaxAttempts,
     release : Attempts \cup {None}, url : BOOLEAN, checks : Seq(Checks),
     uploaded : Seq(Names), failed : Seq(Paths)]

TypeOK ==
    /\ disk \in [Paths -> Contents \cup {None}]
    /\ releases \in [Attempts -> {None} \cup Releases]
    /\ at \in Handled
    /\ results \subseteq [call : Nat, req : Requests, release : Attempts \cup {None},
                          manifest : Seq(Checks), uploaded : Seq(Names), failed : Seq(Paths),
                          changed : SUBSET Paths]
    /\ changed \subseteq Paths /\ died \subseteq Nat
    /\ calls \in 0 .. MaxCalls /\ faults \in Nat /\ edits \in Nat

Occurrences(s, Test(_)) == Cardinality({n \in 1 .. Len(s) : Test(s[n])})

\* Every file that was asked for has one outcome: it is in uploaded_assets or
\* in failed_assets, as often as it was asked for, whatever else went wrong.
EveryAssetReported ==
    \A r \in results : ~r.req.dry =>
        \A m \in Names :
            Occurrences(r.req.assets, LAMBDA p : NameOf[p] = m) =
                Occurrences(r.uploaded, LAMBDA x : x = m)
                    + Occurrences(r.failed, LAMBDA p : NameOf[p] = m)

\* What is reported as uploaded is on GitHub, in the release that the result
\* names; that release was made by this call and is what the call asked for.
UploadsAreThere ==
    \A r \in results : \A n \in 1 .. Len(r.uploaded) :
        /\ r.release[1] = r.call /\ releases[r.release] # None
        /\ releases[r.release].tag = r.req.tag /\ releases[r.release].draft = r.req.draft
        /\ \E a \in releases[r.release].assets : a.name = r.uploaded[n]

\* The provenance manifest gives the hash of what was uploaded, unless the file
\* was changed during the call: it is made from the first read, the upload
\* from a second one.
ManifestIsOfUpload ==
    \A r \in results :
        LET of(m) == {n \in 1 .. Len(r.manifest) : r.manifest[n].name = m} IN
        \A x \in Attempts : releases[x] # None =>
            \A a \in {y \in releases[x].assets : y.by = r.call /\ of(y.name) # {}} :
                \E n \in of(a.name) :
                    r.manifest[n].sha = a.content \/ r.manifest[n].path \in r.changed

\* Assets are only ever added to a release that the same call made, and of the
\* releases a retried call made to one only.
OwnReleaseOnly ==
    \A x \in Attempts : releases[x] # None =>
        /\ \A a \in releases[x].assets : a.by = x[1]
        /\ releases[x].assets # {} =>
              \A y \in Attempts : (y[1] = x[1] /\ y # x /\ releases[y] # None) =>
                  releases[y].assets = {}

\* A release is one that a result names, or the work of a call that is still at
\* it or died.  What is left are empty releases: the published one of a call
\* that raised and reported nothing, and drafts whose response was lost.
ReleasesAreReported ==
    \A x \in Attempts : releases[x] # None =>
        \/ \E r \in results : r.release = x
        \/ at.call = x[1] \/ x[1] \in died
        \/ /\ releases[x].assets = {}
           /\ releases[x].draft \/ \A r \in results : r.call # x[1]
=============================================================================
