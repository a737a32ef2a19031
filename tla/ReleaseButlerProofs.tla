------------------------- MODULE ReleaseButlerProofs -------------------------
(***************************************************************************)
(* create_release, for every set of files, requests and tags and any       *)
(* number of calls, faults and changed files.                              *)
(*                                                                         *)
(* The invariant has a part about results and releases, and a part about   *)
(* the call in hand: while it creates its release, all there is of its own *)
(* is empty, drafts that lost responses left; from then on every asset of  *)
(* that release is one of the files it validated, its other ones stay      *)
(* empty, and what it hashed is what is on the disk, but for files that    *)
(* were changed meanwhile.                                                 *)
(***************************************************************************)
EXTENDS ReleaseButler, FiniteSetTheorems, TLAPS

Numbered ==
    /\ \A r \in results : r.call \in 1 .. calls
    /\ \A x \in Attempts : releases[x] # None => x[1] \in 1 .. calls

Past ==
    /\ Numbered /\ OwnReleaseOnly /\ UploadsAreThere /\ ManifestIsOfUpload
    /\ ReleasesAreReported

\* What was hashed is what is on the disk.
Hashed ==
    \A n \in 1 .. Len(at.checks) :
        disk[at.checks[n].path] = at.checks[n].sha \/ at.checks[n].path \in changed

\* The releases that the call in hand made.
Owns(x) == releases[x] # None /\ x[1] = at.call

\* A call that is uploading, to one of its releases.
Uploads ==
    /\ at.release \in Attempts /\ Owns(at.release)
    /\ releases[at.release].tag = at.req.tag /\ releases[at.release].draft = at.req.draft
    /\ \A x \in Attempts : Owns(x) /\ x # at.release =>
          releases[x].assets = {} /\ releases[x].draft
    /\ \A n \in 1 .. Len(at.uploaded) :
          \E a \in releases[at.release].assets : a.name = at.uploaded[n]
    /\ \A a \in releases[at.release].assets : \E n \in 1 .. Len(at.checks) :
          /\ at.checks[n].name = a.name
          /\ at.checks[n].sha = a.content \/ at.checks[n].path \in changed

\* What a call that is creating its release made of it so far: nothing, or what
\* its lost responses told of, which is empty and of what it is asked for.
Creates ==
    \A x \in Attempts : Owns(x) =>
        /\ releases[x].assets = {}
        /\ releases[x].tag = at.req.tag /\ releases[x].draft = at.req.draft

InHand ==
    /\ at.call = calls /\ calls > 0 /\ at.req \in Requests /\ at.i > 0
    /\ \A r \in results : r.call # at.call
    /\ Hashed
    /\ at.pc # "upload" => at.uploaded = <<>>
    /\ at.pc # "validate" => ~at.req.dry
    /\ at.pc = "validate" => \A x \in Attempts : ~Owns(x)
    /\ at.pc = "create" => Creates
    /\ at.pc = "upload" => Uploads

Present == IF at.pc = "idle" THEN at = Idle ELSE InHand

IInv == TypeOK /\ Past /\ Present

-----------------------------------------------------------------------------

\* The constants and the types of what is read most.
LEMMA Types ==
    ASSUME TypeOK
    PROVE  /\ MaxCalls \in Nat /\ calls \in Nat /\ calls \in 0 .. MaxCalls
           /\ at.call \in Nat /\ at.i \in Nat /\ at.checks \in Seq(Checks)
           /\ Len(at.checks) \in Nat /\ Len(at.uploaded) \in Nat /\ Len(at.failed) \in Nat
           /\ at.uploaded \in Seq(Names) /\ at.failed \in Seq(Paths)
           /\ \A n \in 1 .. Len(at.checks) :
                 /\ at.checks[n] \in Checks /\ at.checks[n].path \in Paths
                 /\ at.checks[n].name \in Names /\ at.checks[n].sha \in Contents
           /\ \A x \in Attempts :
                 x[1] \in Nat /\ (releases[x] # None => releases[x] \in Releases)
<1>1. /\ MaxCalls \in Nat /\ calls \in Nat /\ calls \in 0 .. MaxCalls
      /\ at.call \in Nat /\ at.i \in Nat /\ at.checks \in Seq(Checks)
      /\ at.uploaded \in Seq(Names) /\ at.failed \in Seq(Paths)
  BY ReleaseAssumption DEF TypeOK, Handled, ReleaseAssumption
<1>2. \A n \in 1 .. Len(at.checks) : at.checks[n] \in Checks
  BY <1>1
<1>3. \A n \in 1 .. Len(at.checks) :
          /\ at.checks[n].path \in Paths
          /\ at.checks[n].name \in Names /\ at.checks[n].sha \in Contents
  BY <1>2 DEF Checks
<1>4. \A x \in Attempts : x[1] \in Nat /\ (releases[x] # None => releases[x] \in Releases)
  BY DEF TypeOK, Attempts
<1> QED BY <1>1, <1>2, <1>3, <1>4

\* An idle server handles no call.
LEMMA IdleHandled == Idle \in Handled
  BY ReleaseAssumption DEF Idle, Handled, MaxAttempts, ReleaseAssumption

\* Before any call.
LEMMA InitIInv == Init => IInv
<1> SUFFICES ASSUME Init PROVE IInv
  OBVIOUS
<1>1. /\ at = Idle /\ results = {} /\ changed = {} /\ died = {}
      /\ calls = 0 /\ faults = 0 /\ edits = 0 /\ disk \in [Paths -> Contents \cup {None}]
      /\ releases = [x \in Attempts |-> None]
  BY DEF Init
<1>2. at \in Handled
  BY <1>1, IdleHandled
<1>3. TypeOK
  BY <1>1, <1>2, ReleaseAssumption DEF TypeOK, ReleaseAssumption
<1>4. Past
  BY <1>1 DEF Past, Numbered, OwnReleaseOnly, UploadsAreThere, ManifestIsOfUpload,
              ReleasesAreReported
<1>5. Present
  BY <1>1 DEF Present, Idle
<1> QED BY <1>3, <1>4, <1>5 DEF IInv

\* What a call leaves behind when it ends with no result: nothing that needs one.
Leaves(x) == releases[x].assets = {} \/ at.call \in died'

\* A step that leaves results and releases alone: they stay in order, and
\* reported unless the step ends a call that owns a release with assets.
LEMMA QuietPast ==
    ASSUME IInv, UNCHANGED <<releases, results>>, calls' \in Nat, calls <= calls',
           died \subseteq died',
           \/ at'.call = at.call
           \/ at.pc = "idle"
           \/ \A x \in Attempts : Owns(x) => Leaves(x)
    PROVE  Past'
<1>1. Numbered'
  BY Types DEF IInv, Past, Numbered
<1>2. OwnReleaseOnly' /\ UploadsAreThere' /\ ManifestIsOfUpload'
  BY DEF IInv, Past, OwnReleaseOnly, UploadsAreThere, ManifestIsOfUpload
<1>3. ReleasesAreReported'
  <2> SUFFICES ASSUME NEW x \in Attempts, releases[x] # None
               PROVE  \/ \E r \in results : r.release = x
                      \/ at'.call = x[1] \/ x[1] \in died'
                      \/ /\ releases[x].assets = {}
                         /\ releases[x].draft \/ \A r \in results : r.call # x[1]
    BY DEF ReleasesAreReported
  <2>1. \/ \E r \in results : r.release = x
        \/ at.call = x[1] \/ x[1] \in died
        \/ /\ releases[x].assets = {}
           /\ releases[x].draft \/ \A r \in results : r.call # x[1]
    BY DEF IInv, Past, ReleasesAreReported
  <2>2. CASE at'.call = at.call
    BY <2>1, <2>2
  <2>3. CASE at.pc = "idle"
    <3>1. at.call = 0 /\ x[1] > 0
      BY <2>3, Types DEF IInv, Present, Idle, Past, Numbered
    <3> QED BY <2>1, <3>1
  <2>4. CASE at.pc # "idle" /\ \A y \in Attempts : Owns(y) => Leaves(y)
    <3>1. \A r \in results : r.call # at.call
      BY <2>4 DEF IInv, Present, InHand
    <3> QED BY <2>1, <2>4, <3>1 DEF Owns, Leaves
  <2> QED BY <2>2, <2>3, <2>4
<1> QED BY <1>1, <1>2, <1>3 DEF Past

\* A call that ends with an exception, or with the process.
LEMMA EndedIInv ==
    ASSUME IInv, at.pc # "idle", Raises, UNCHANGED <<disk, releases, results, changed, calls, edits>>,
           faults' \in Nat, died' \in {died, died \cup {at.call}},
           \A x \in Attempts : Owns(x) => Leaves(x)
    PROVE  IInv'
<1>1. calls' \in Nat /\ calls <= calls' /\ died \subseteq died' /\ died' \subseteq Nat
  BY Types DEF IInv, TypeOK
<1>2. at' = Idle /\ at'.pc = "idle"
  BY DEF Raises, Idle
<1>3. at' \in Handled
  BY <1>2, IdleHandled
<1>4. TypeOK'
  BY <1>1, <1>3 DEF IInv, TypeOK
<1>5. Past'
  BY <1>1, QuietPast
<1>6. Present'
  BY <1>2 DEF Present
<1> QED BY <1>4, <1>5, <1>6 DEF IInv

\* The exceptions of validation, a release that is refused, a crash.
LEMMA RaisesIInv ==
    ASSUME IInv, ValidateRaises \/ CreateRejected \/ Crash
    PROVE  IInv'
<1>1. faults' \in Nat /\ died' \in {died, died \cup {at.call}} /\ at.pc # "idle" /\ Raises
      /\ UNCHANGED <<disk, releases, results, changed, calls, edits>>
  BY DEF IInv, TypeOK, Handled, ValidateRaises, CreateRejected, Crash, Fault
<1>2. \A x \in Attempts : Owns(x) => Leaves(x)
  BY DEF ValidateRaises, CreateRejected, Crash, IInv, Present, InHand, Creates, Leaves
<1> QED BY <1>1, <1>2, EndedIInv

\* A new call has a number of its own.
LEMMA CreateReleaseIInv ==
    ASSUME IInv, NEW r \in Requests, CreateRelease(r)
    PROVE  IInv'
<1>1. /\ at.pc = "idle" /\ calls' = calls + 1 /\ calls < MaxCalls /\ changed' = {}
      /\ UNCHANGED <<disk, releases, results, died, faults, edits>>
  BY DEF CreateRelease
<1>2. PICK c : c = calls + 1
  OBVIOUS
<1>3. at' = [Idle EXCEPT !.pc = "validate", !.call = c, !.req = r]
  BY <1>2 DEF CreateRelease
<1>4. /\ c \in Nat /\ calls \in Nat /\ c > 0 /\ calls <= c /\ calls' = c
      /\ c \in 0 .. MaxCalls
  BY <1>1, <1>2, Types DEF IInv
<1>5. /\ at'.pc = "validate" /\ at'.call = c /\ at'.req = r /\ at'.i = 1
      /\ at'.checks = <<>> /\ at'.uploaded = <<>>
  BY <1>3 DEF Idle
<1>6. at' \in Handled
  <2>1. at' = [pc |-> "validate", call |-> c, req |-> r, i |-> 1, attempt |-> 1,
               release |-> None, url |-> FALSE, checks |-> <<>>, uploaded |-> <<>>, failed |-> <<>>]
    BY <1>3 DEF Idle
  <2>2. <<>> \in Seq(Checks) /\ <<>> \in Seq(Names) /\ <<>> \in Seq(Paths) /\ 1 \in 1 .. MaxAttempts
    BY DEF MaxAttempts
  <2> QED BY <1>4, <2>1, <2>2 DEF Handled
<1>7. TypeOK'
  BY <1>1, <1>4, <1>6 DEF IInv, TypeOK
<1>8. Past'
  BY <1>1, <1>4, QuietPast
<1>9. \A n \in 1 .. calls : n # c
  BY <1>2, <1>4
<1>10. /\ \A x \in results' : x.call # c
       /\ \A y \in Attempts : releases'[y] # None => y[1] # c
  BY <1>1, <1>9 DEF IInv, Past, Numbered
<1>11. InHand'
  BY <1>4, <1>5, <1>10 DEF InHand, Hashed, Owns
<1> QED BY <1>5, <1>7, <1>8, <1>11 DEF IInv, Present

\* One round of _validate_assets.
LEMMA ValidateIInv ==
    ASSUME IInv, Validate
    PROVE  IInv'
<1> DEFINE p == at.req.assets[at.i]
           check == [path |-> p, name |-> NameOf[p], sha |-> disk[p]]
<1>1. /\ at.pc = "validate" /\ at.i <= Len(at.req.assets)
      /\ UNCHANGED <<disk, releases, results, changed, died, calls, faults, edits>>
  BY DEF Validate
<1>2. InHand /\ at.req \in Requests /\ at.i \in Nat /\ at.i > 0
  BY <1>1, Types DEF IInv, Present, InHand
<1>3. at.req.assets \in Seq(Paths)
  BY <1>2, ReleaseAssumption DEF ReleaseAssumption
<1>4. p \in Paths
  BY <1>1, <1>2, <1>3
<1>5. /\ at.checks \in Seq(Checks) /\ at.failed \in Seq(Paths) /\ Len(at.checks) \in Nat
      /\ at.i + 1 \in Nat /\ at.i + 1 > 0
  BY <1>2, Types DEF IInv
<1>6. disk[p] = None \/ check \in Checks
  <2>1. disk[p] \in Contents \cup {None} /\ NameOf[p] \in Names
    BY <1>4 DEF IInv, TypeOK, Handled, Names
  <2> QED BY <1>4, <2>1 DEF Checks
<1> HIDE DEF p
<1>7. \/ disk[p] = None /\ at' = [at EXCEPT !.i = @ + 1, !.failed = Append(@, p)]
      \/ disk[p] # None /\ at' = [at EXCEPT !.i = @ + 1, !.checks = Append(@, check)]
  BY DEF Validate, p
<1>8. check.path = p /\ check.sha = disk[p]
  OBVIOUS
<1> HIDE DEF check
<1>9. Append(at.failed, p) \in Seq(Paths)
  BY <1>4, <1>5
<1>10. disk[p] # None => Append(at.checks, check) \in Seq(Checks)
  BY <1>5, <1>6
<1>11. at' \in Handled
  <2>1. at \in Handled
    BY DEF IInv, TypeOK
  <2> QED BY <1>5, <1>7, <1>9, <1>10, <2>1 DEF Handled
<1>12. /\ at'.pc = "validate" /\ at'.call = at.call /\ at'.req = at.req /\ at'.i = at.i + 1
       /\ at'.uploaded = at.uploaded
       /\ at'.checks \in {at.checks, Append(at.checks, check)}
  BY <1>1, <1>7 DEF IInv, TypeOK, Handled
<1>13. Hashed'
  <2>1. Hashed
    BY <1>2 DEF InHand
  <2>2. CASE at'.checks = at.checks
    BY <1>1, <2>1, <2>2 DEF Hashed
  <2>3. CASE at'.checks = Append(at.checks, check)
    <3>1. \A n \in 1 .. Len(at'.checks) :
              \/ n \in 1 .. Len(at.checks) /\ at'.checks[n] = at.checks[n]
              \/ at'.checks[n] = check
      BY <1>5, <2>3
    <3> QED BY <1>1, <1>8, <2>1, <3>1 DEF Hashed
  <2> QED BY <1>12, <2>2, <2>3
<1>14. TypeOK'
  BY <1>1, <1>11 DEF IInv, TypeOK
<1>15. Past'
  <2>1. calls' \in Nat /\ calls <= calls'
    BY <1>1, Types DEF IInv
  <2> QED BY <1>1, <1>12, <2>1, QuietPast
<1>16. InHand'
  BY <1>1, <1>2, <1>5, <1>12, <1>13 DEF InHand, Owns
<1> QED BY <1>12, <1>14, <1>15, <1>16 DEF IInv, Present

\* A file is changed: what the call in hand hashed of it no longer counts.
LEMMA EditIInv ==
    ASSUME IInv, NEW p \in Paths, Edit(p)
    PROVE  IInv'
<1>1. PICK c \in Contents \cup {None} : disk' = [disk EXCEPT ![p] = c]
  BY DEF Edit
<1>2. /\ edits' = edits + 1
      /\ changed' = IF at.pc = "idle" THEN changed ELSE changed \cup {p}
      /\ UNCHANGED <<releases, at, results, died, calls, faults>>
  BY DEF Edit
<1>3. TypeOK'
  BY <1>1, <1>2 DEF IInv, TypeOK, Handled
<1>4. Past'
  <2>1. calls' \in Nat /\ calls <= calls'
    BY <1>2, Types DEF IInv
  <2> QED BY <1>2, <2>1, QuietPast
<1>5. CASE at.pc = "idle"
  BY <1>2, <1>3, <1>4, <1>5 DEF IInv, Present
<1>6. CASE at.pc # "idle"
  <2>1. InHand /\ changed' = changed \cup {p}
    BY <1>2, <1>6 DEF IInv, Present
  <2>2. \A q \in Paths : q = p \/ disk'[q] = disk[q]
    BY <1>1 DEF IInv, TypeOK, Handled
  <2>3. Hashed'
    <3>1. \A n \in 1 .. Len(at.checks) : at.checks[n].path \in Paths
      BY Types DEF IInv
    <3> QED BY <1>2, <2>1, <2>2, <3>1 DEF InHand, Hashed
  <2>4. (at.pc = "upload" => Uploads)'
    <3> SUFFICES ASSUME at.pc = "upload"
                 PROVE  Uploads'
      BY <1>2
    <3>1. Uploads
      BY <2>1 DEF InHand
    <3>3. \A a \in releases[at.release].assets : \E n \in 1 .. Len(at.checks) :
              /\ at.checks[n].name = a.name
              /\ at.checks[n].sha = a.content \/ at.checks[n].path \in changed'
      BY <2>1, <3>1 DEF Uploads
    <3> QED BY <1>2, <3>1, <3>3 DEF Uploads, Owns
  <2>5. InHand'
    BY <1>2, <2>1, <2>3, <2>4 DEF InHand, Owns, Creates
  <2> QED BY <1>2, <1>3, <1>4, <1>6, <2>5 DEF IInv, Present
<1> QED BY <1>5, <1>6

-----------------------------------------------------------------------------
(* The release                                                             *)

\* A new release: of the call in hand, as it is asked for, and empty.
LEMMA CreatedFacts ==
    ASSUME IInv, at.pc = "create", Created
    PROVE  /\ Id \in Attempts /\ Id[1] = at.call
           /\ releases'[Id] = [tag |-> at.req.tag, draft |-> at.req.draft, assets |-> {}]
           /\ releases'[Id] # None
           /\ \A x \in Attempts : x # Id => releases'[x] = releases[x]
           /\ releases' \in [Attempts -> {None} \cup Releases]
<1>1. at.call \in 1 .. MaxCalls /\ at.attempt \in 1 .. MaxAttempts
  BY Types DEF IInv, Present, InHand, TypeOK, Handled
<1>2. Id \in Attempts /\ Id[1] = at.call
  BY <1>1 DEF Id, Attempts
<1>3. releases \in [Attempts -> {None} \cup Releases]
  BY DEF IInv, TypeOK
<1>4. PICK new : new = [tag |-> at.req.tag, draft |-> at.req.draft, assets |-> {}]
  OBVIOUS
<1>5. new \in Releases
  <2>1. at.req \in Requests
    BY DEF IInv, Present, InHand
  <2>2. at.req.tag \in Tags /\ at.req.draft \in BOOLEAN
    BY <2>1, ReleaseAssumption DEF Tags, ReleaseAssumption
  <2> QED BY <1>4, <2>2 DEF Releases
<1>6. new # None
  BY <1>5, ReleaseAssumption DEF ReleaseAssumption
<1>7. releases' = [releases EXCEPT ![Id] = new]
  BY <1>4 DEF Created
<1> QED BY <1>2, <1>3, <1>4, <1>5, <1>6, <1>7

\* What a call that creates its release made is empty and as it is asked for.
LEMMA CreatedCreates ==
    ASSUME IInv, at.pc = "create", Created
    PROVE  /\ Creates
           /\ \A x \in Attempts : releases'[x] # None /\ x[1] = at.call =>
                 /\ releases'[x].assets = {}
                 /\ releases'[x].tag = at.req.tag /\ releases'[x].draft = at.req.draft
<1>1. Creates
  BY DEF IInv, Present, InHand
<1> QED BY <1>1, CreatedFacts DEF Creates, Owns

\* Results and releases stay in order: all earlier results are of other calls.
LEMMA CreatedPast ==
    ASSUME IInv, at.pc = "create", Created, UNCHANGED <<results, died, calls>>
    PROVE  Past'
<1>1. /\ Id \in Attempts /\ Id[1] = at.call /\ releases'[Id] # None
      /\ releases'[Id].assets = {}
      /\ \A x \in Attempts : x # Id => releases'[x] = releases[x]
  BY CreatedFacts
<1>2. /\ at.call \in 1 .. calls /\ \A r \in results : r.call # at.call
  BY Types DEF IInv, Present, InHand
<1>3. \A x \in Attempts : releases'[x] # None /\ x[1] = at.call => releases'[x].assets = {}
  BY CreatedCreates
<1>4. Numbered'
  BY <1>1, <1>2 DEF IInv, Past, Numbered
<1>5. OwnReleaseOnly'
  <2> SUFFICES ASSUME NEW x \in Attempts, releases'[x] # None
               PROVE  /\ \A a \in releases'[x].assets : a.by = x[1]
                      /\ releases'[x].assets # {} =>
                            \A y \in Attempts :
                                (y[1] = x[1] /\ y # x /\ releases'[y] # None) =>
                                    releases'[y].assets = {}
    BY DEF OwnReleaseOnly
  <2>1. CASE x[1] = at.call
    BY <1>3, <2>1
  <2>2. CASE x[1] # at.call
    <3>1. \A y \in Attempts : y[1] = x[1] => releases'[y] = releases[y]
      BY <1>1, <2>2
    <3> QED BY <3>1 DEF IInv, Past, OwnReleaseOnly
  <2> QED BY <2>1, <2>2
<1>6. UploadsAreThere'
  <2> SUFFICES ASSUME NEW r \in results, NEW n \in 1 .. Len(r.uploaded)
               PROVE  /\ r.release[1] = r.call /\ releases'[r.release] # None
                      /\ releases'[r.release].tag = r.req.tag
                      /\ releases'[r.release].draft = r.req.draft
                      /\ \E a \in releases'[r.release].assets : a.name = r.uploaded[n]
    BY DEF UploadsAreThere
  <2>1. /\ r.release[1] = r.call /\ releases[r.release] # None
        /\ releases[r.release].tag = r.req.tag /\ releases[r.release].draft = r.req.draft
        /\ \E a \in releases[r.release].assets : a.name = r.uploaded[n]
    BY DEF IInv, Past, UploadsAreThere
  <2>2. r.release # Id
    BY <1>1, <1>2, <2>1
  <2>3. releases'[r.release] = releases[r.release]
    BY <2>2 DEF Created
  <2> QED BY <2>1, <2>3
<1>7. ManifestIsOfUpload'
  <2> SUFFICES ASSUME NEW r \in results, NEW x \in Attempts, releases'[x] # None,
                      NEW a \in releases'[x].assets, a.by = r.call,
                      NEW k \in 1 .. Len(r.manifest), r.manifest[k].name = a.name
               PROVE  \E n \in {m \in 1 .. Len(r.manifest) : r.manifest[m].name = a.name} :
                         r.manifest[n].sha = a.content \/ r.manifest[n].path \in r.changed
    BY DEF ManifestIsOfUpload
  <2>1. x # Id
    BY <1>1
  <2>2. releases'[x] = releases[x]
    BY <1>1, <2>1
  <2> QED BY <2>2 DEF IInv, Past, ManifestIsOfUpload
<1>8. ASSUME NEW x \in Attempts, releases'[x] # None
      PROVE  \/ \E r \in results : r.release = x
             \/ at'.call = x[1] \/ x[1] \in died
             \/ /\ releases'[x].assets = {}
                /\ releases'[x].draft \/ \A r \in results : r.call # x[1]
  <2>1. CASE x[1] = at.call
    BY <1>2, <1>3, <1>8, <2>1
  <2>2. CASE x[1] # at.call
    <3>1. releases'[x] = releases[x]
      BY <1>1, <2>2
    <3> QED BY <1>8, <2>2, <3>1 DEF IInv, Past, ReleasesAreReported
  <2> QED BY <2>1, <2>2
<1>9. ReleasesAreReported'
  BY <1>8 DEF ReleasesAreReported
<1> QED BY <1>4, <1>5, <1>6, <1>7, <1>9 DEF Past

\* POST /releases is answered.
LEMMA CreateDoneIInv ==
    ASSUME IInv, CreateDone
    PROVE  IInv'
<1>1. /\ at.pc = "create" /\ Created
      /\ UNCHANGED <<disk, results, changed, died, calls, faults, edits>>
  BY DEF CreateDone
<1>9. PICK new : new = Id
  OBVIOUS
<1>2. PICK url \in BOOLEAN :
          at' = [at EXCEPT !.pc = "upload", !.release = new, !.url = url]
  BY <1>9 DEF CreateDone
<1>3. /\ at'.pc = "upload" /\ at'.call = at.call /\ at'.req = at.req /\ at'.i = at.i
      /\ at'.release = new /\ at'.checks = at.checks /\ at'.uploaded = at.uploaded
  BY <1>2 DEF IInv, TypeOK, Handled
<1>4. InHand
  BY <1>1 DEF IInv, Present
<1>5. TypeOK'
  <2>1. at' \in Handled
    <3>1. new \in Attempts
      BY <1>1, <1>9, CreatedFacts
    <3> QED BY <1>2, <3>1 DEF IInv, TypeOK, Handled
  <2>2. releases' \in [Attempts -> {None} \cup Releases]
    BY <1>1, CreatedFacts
  <2> QED BY <1>1, <2>1, <2>2 DEF IInv, TypeOK
<1>6. Past'
  BY <1>1, CreatedPast
<1>7. Uploads'
  <2>1. /\ new \in Attempts /\ new[1] = at.call /\ releases'[new] # None
        /\ releases'[new].assets = {}
        /\ releases'[new].tag = at.req.tag /\ releases'[new].draft = at.req.draft
    BY <1>1, <1>9, CreatedFacts
  <2>2. at.uploaded = <<>>
    BY <1>1, <1>4 DEF InHand
  <2>3. ASSUME NEW x \in Attempts, releases'[x] # None, x[1] = at.call, x # new
        PROVE  releases'[x].assets = {} /\ releases'[x].draft
    <3>1. releases'[x] = releases[x] /\ Owns(x)
      BY <1>1, <1>9, <2>3, CreatedFacts DEF Owns
    <3>2. /\ releases[x].assets = {}
          /\ releases[x].tag = at.req.tag /\ releases[x].draft = at.req.draft
      BY <1>1, <3>1, CreatedCreates DEF Creates
    <3>3. releases[x] # None /\ releases[x].draft \in BOOLEAN
      BY <3>1, Types DEF IInv, Owns, Releases
    <3>4. releases[x].draft
      BY <1>1, <3>2, <3>3 DEF Created, Taken, Published
    <3> QED BY <3>1, <3>2, <3>4
  <2> QED BY <1>3, <2>1, <2>2, <2>3 DEF Uploads, Owns
<1>8. InHand'
  BY <1>1, <1>3, <1>4, <1>7 DEF InHand, Hashed
<1> QED BY <1>3, <1>5, <1>6, <1>8 DEF IInv, Present

\* A request or its response is lost, after the last attempt or before it.
LEMMA CreateLostIInv ==
    ASSUME IInv, CreateLost
    PROVE  IInv'
<1>1. /\ at.pc = "create" /\ faults' = faults + 1
      /\ UNCHANGED releases \/ Created
      /\ UNCHANGED <<disk, results, changed, died, calls, edits>>
  BY DEF CreateLost, Fault
<1>2. InHand /\ faults' \in Nat
  BY <1>1 DEF IInv, Present, TypeOK, Handled
<1>3. releases' \in [Attempts -> {None} \cup Releases]
  <2>1. CASE UNCHANGED releases
    BY <2>1 DEF IInv, TypeOK
  <2>2. CASE Created
    BY <1>1, <2>2, CreatedFacts
  <2> QED BY <1>1, <2>1, <2>2
<1>4. /\ Creates
      /\ \A x \in Attempts : releases'[x] # None /\ x[1] = at.call =>
            /\ releases'[x].assets = {}
            /\ releases'[x].tag = at.req.tag /\ releases'[x].draft = at.req.draft
  <2>1. Creates
    BY <1>1, <1>2 DEF InHand
  <2>2. CASE UNCHANGED releases
    BY <2>1, <2>2 DEF Creates, Owns
  <2>3. CASE Created
    BY <1>1, <2>1, <2>3, CreatedCreates
  <2> QED BY <1>1, <2>1, <2>2, <2>3
<1>5. CASE Raises
  <2>1. CASE UNCHANGED releases
    BY <1>1, <1>2, <1>4, <1>5, <2>1, EndedIInv DEF Creates, Leaves
  <2>2. CASE Created
    <3>1. Past'
      BY <1>1, <2>2, CreatedPast
    <3>2. at' = Idle /\ at'.pc = "idle"
      BY <1>5 DEF Raises, Idle
    <3>3. at' \in Handled
      BY <3>2, IdleHandled
    <3>4. TypeOK'
      BY <1>1, <1>2, <1>3, <3>3 DEF IInv, TypeOK, Handled
    <3> QED BY <3>1, <3>2, <3>4 DEF IInv, Present
  <2> QED BY <1>1, <2>1, <2>2
<1>6. CASE at.attempt < MaxAttempts /\ at' = [at EXCEPT !.attempt = @ + 1]
  <2>1. /\ at'.pc = "create" /\ at'.call = at.call /\ at'.req = at.req /\ at'.i = at.i
        /\ at'.checks = at.checks /\ at'.uploaded = at.uploaded
    BY <1>1, <1>6 DEF IInv, TypeOK, Handled
  <2>2. at.attempt + 1 \in 1 .. MaxAttempts
    BY <1>6 DEF IInv, TypeOK, Handled, MaxAttempts
  <2>3. at' \in Handled
    BY <1>6, <2>2 DEF IInv, TypeOK, Handled
  <2>4. TypeOK'
    BY <1>1, <1>2, <1>3, <2>3 DEF IInv, TypeOK, Handled
  <2>5. Past'
    <3>1. CASE UNCHANGED releases
      <4>1. calls' \in Nat /\ calls <= calls'
        BY <1>1, Types DEF IInv
      <4> QED BY <1>1, <2>1, <3>1, <4>1, QuietPast
    <3>2. CASE Created
      BY <1>1, <3>2, CreatedPast
    <3> QED BY <1>1, <3>1, <3>2
  <2>6. InHand'
    BY <1>1, <1>2, <1>4, <2>1 DEF InHand, Hashed, Owns, Creates
  <2> QED BY <2>1, <2>4, <2>5, <2>6 DEF IInv, Present
<1> QED BY <1>5, <1>6 DEF CreateLost

-----------------------------------------------------------------------------
(* The uploads                                                             *)

\* One more asset of the release of the call in hand, and of no other.
LEMMA AttachedFacts ==
    ASSUME IInv, Uploading, Possible, Attached
    PROVE  /\ at.release \in Attempts /\ at.release[1] = at.call /\ Uploads
           /\ releases[at.release] # None /\ releases'[at.release] # None
           /\ releases'[at.release].tag = releases[at.release].tag
           /\ releases'[at.release].draft = releases[at.release].draft
           /\ releases'[at.release].assets = releases[at.release].assets
                  \cup {[name |-> Name, content |-> disk[Path], by |-> at.call]}
           /\ \A x \in Attempts : x # at.release => releases'[x] = releases[x]
           /\ releases' \in [Attempts -> {None} \cup Releases]
<1> DEFINE a == [name |-> Name, content |-> disk[Path], by |-> at.call]
<1>1. /\ at.release \in Attempts /\ at.call \in Nat /\ releases[at.release] # None
      /\ at.release[1] = at.call /\ Uploads
  BY Types DEF Uploading, IInv, Present, InHand, Uploads, Owns
<1>2. a \in Assets
  <2>1. at.i \in 1 .. Len(at.checks)
    BY Types DEF Uploading, IInv, Present, InHand
  <2>2. Path \in Paths /\ Name \in Names
    BY <2>1, Types DEF IInv, Path, Name
  <2>3. disk[Path] \in Contents
    BY <2>2 DEF Possible, IInv, TypeOK
  <2> QED BY <1>1, <2>2, <2>3 DEF Assets
<1>3. releases' = [releases EXCEPT ![at.release].assets = @ \cup {a}]
  BY DEF Attached
<1> HIDE DEF a
<1>4. releases \in [Attempts -> {None} \cup Releases]
  BY DEF IInv, TypeOK
<1>5. releases[at.release] \in Releases
  BY <1>1, <1>4
<1>6. /\ releases'[at.release] = [releases[at.release] EXCEPT !.assets = @ \cup {a}]
      /\ \A x \in Attempts : x # at.release => releases'[x] = releases[x]
  BY <1>1, <1>3, <1>4
<1>7. [releases[at.release] EXCEPT !.assets = @ \cup {a}] \in Releases
  BY <1>2, <1>5 DEF Releases
<1>8. releases' \in [Attempts -> {None} \cup Releases]
  BY <1>1, <1>3, <1>4, <1>6, <1>7
<1>9. releases'[at.release] # None
  BY <1>6, <1>7, ReleaseAssumption DEF ReleaseAssumption
<1>10. /\ releases'[at.release].tag = releases[at.release].tag
       /\ releases'[at.release].draft = releases[at.release].draft
       /\ releases'[at.release].assets = releases[at.release].assets \cup {a}
  BY <1>1, <1>5, <1>6 DEF Releases
<1> QED BY <1>1, <1>6, <1>8, <1>9, <1>10 DEF a

\* Results and releases stay in order: earlier results are of other calls.
LEMMA AttachedPast ==
    ASSUME IInv, Uploading, Possible, Attached, UNCHANGED <<results, died, calls>>,
           at'.call = at.call
    PROVE  Past'
<1>1. /\ at.release \in Attempts /\ at.release[1] = at.call /\ Uploads
      /\ releases[at.release] # None /\ releases'[at.release] # None
      /\ \A x \in Attempts : x # at.release => releases'[x] = releases[x]
  BY AttachedFacts
<1>2. releases'[at.release].assets = releases[at.release].assets
          \cup {[name |-> Name, content |-> disk[Path], by |-> at.call]}
  BY AttachedFacts
<1>3. \A a \in releases'[at.release].assets :
          a \in releases[at.release].assets \/ a.by = at.call
  BY <1>2
<1>4. /\ at.call \in 1 .. calls /\ (\A r \in results : r.call # at.call)
  BY Types DEF IInv, Present, InHand, Uploading
<1>7. Numbered'
  BY <1>1, <1>4 DEF IInv, Past, Numbered
<1>8. OwnReleaseOnly'
  <2> SUFFICES ASSUME NEW x \in Attempts, releases'[x] # None
               PROVE  /\ \A a \in releases'[x].assets : a.by = x[1]
                      /\ releases'[x].assets # {} =>
                            \A y \in Attempts :
                                (y[1] = x[1] /\ y # x /\ releases'[y] # None) =>
                                    releases'[y].assets = {}
    BY DEF OwnReleaseOnly
  <2>1. CASE x = at.release
    <3>1. \A a \in releases'[x].assets : a.by = x[1]
      BY <1>1, <1>3, <2>1 DEF IInv, Past, OwnReleaseOnly
    <3>2. ASSUME NEW y \in Attempts, y[1] = x[1], y # x, releases'[y] # None
          PROVE  releases'[y].assets = {}
      BY <1>1, <2>1, <3>2 DEF Uploads, Owns
    <3> QED BY <3>1, <3>2
  <2>2. CASE x # at.release
    <3>1. releases'[x] = releases[x]
      BY <1>1, <2>2
    <3>2. \A a \in releases'[x].assets : a.by = x[1]
      BY <3>1 DEF IInv, Past, OwnReleaseOnly
    <3>3. ASSUME releases'[x].assets # {},
                 NEW y \in Attempts, y[1] = x[1], y # x, releases'[y] # None
          PROVE  releases'[y].assets = {}
      <4>1. CASE y = at.release
        BY <1>1, <2>2, <3>1, <3>3, <4>1 DEF Uploads, Owns
      <4>2. CASE y # at.release
        BY <1>1, <3>1, <3>3, <4>2 DEF IInv, Past, OwnReleaseOnly
      <4> QED BY <4>1, <4>2
    <3> QED BY <3>2, <3>3
  <2> QED BY <2>1, <2>2
<1>9. UploadsAreThere'
  <2> SUFFICES ASSUME NEW r \in results, NEW n \in 1 .. Len(r.uploaded)
               PROVE  /\ r.release[1] = r.call /\ releases'[r.release] # None
                      /\ releases'[r.release].tag = r.req.tag
                      /\ releases'[r.release].draft = r.req.draft
                      /\ \E a \in releases'[r.release].assets : a.name = r.uploaded[n]
    BY DEF UploadsAreThere
  <2>1. /\ r.release[1] = r.call /\ releases[r.release] # None
        /\ releases[r.release].tag = r.req.tag /\ releases[r.release].draft = r.req.draft
        /\ \E a \in releases[r.release].assets : a.name = r.uploaded[n]
    BY DEF IInv, Past, UploadsAreThere
  <2>2. r.release # at.release
    BY <1>1, <1>4, <2>1
  <2>3. releases'[r.release] = releases[r.release]
    BY <2>2 DEF Attached
  <2> QED BY <2>1, <2>3
<1>10. ManifestIsOfUpload'
  <2> SUFFICES ASSUME NEW r \in results, NEW x \in Attempts, releases'[x] # None,
                      NEW a \in releases'[x].assets, a.by = r.call,
                      NEW k \in 1 .. Len(r.manifest), r.manifest[k].name = a.name
               PROVE  \E n \in {m \in 1 .. Len(r.manifest) : r.manifest[m].name = a.name} :
                         r.manifest[n].sha = a.content \/ r.manifest[n].path \in r.changed
    BY DEF ManifestIsOfUpload
  <2>1. a \in releases[x].assets /\ releases[x] # None
    <3>1. a.by # at.call
      BY <1>4
    <3> QED BY <1>1, <1>3, <3>1
  <2> QED BY <2>1 DEF IInv, Past, ManifestIsOfUpload
<1>11. ReleasesAreReported'
  <2> SUFFICES ASSUME NEW x \in Attempts, releases'[x] # None
               PROVE  \/ \E r \in results : r.release = x
                      \/ at.call = x[1] \/ x[1] \in died
                      \/ /\ releases'[x].assets = {}
                         /\ releases'[x].draft \/ \A r \in results : r.call # x[1]
    BY DEF ReleasesAreReported
  <2>1. CASE x = at.release
    BY <1>1, <2>1
  <2>2. CASE x # at.release
    BY <1>1, <2>2 DEF IInv, Past, ReleasesAreReported
  <2> QED BY <2>1, <2>2
<1> QED BY <1>7, <1>8, <1>9, <1>10, <1>11 DEF Past

\* One round of the upload loop, whatever came of it.
LEMMA UploadIInv ==
    ASSUME IInv, UploadDone \/ UploadFails
    PROVE  IInv'
<1>1. /\ Uploading /\ faults' \in Nat
      /\ UNCHANGED releases \/ (Possible /\ Attached)
      /\ UNCHANGED <<disk, results, changed, died, calls, edits>>
  BY DEF UploadDone, UploadFails, Fault, IInv, TypeOK, Handled
<1>2. \/ Attached /\ at' = [at EXCEPT !.i = @ + 1, !.uploaded = Append(@, Name)]
      \/ at' = [at EXCEPT !.i = @ + 1, !.failed = Append(@, Path)]
  BY DEF UploadDone, UploadFails
<1>3. InHand /\ Uploads /\ at.pc = "upload"
  BY <1>1 DEF Uploading, IInv, Present, InHand
<1>4. at.i \in 1 .. Len(at.checks) /\ at.i + 1 \in Nat /\ at.i + 1 > 0
  BY <1>1, <1>3, Types DEF Uploading, InHand, IInv
<1>5. Path \in Paths /\ Name \in Names
  BY <1>4, Types DEF IInv, Path, Name
<1>6. Append(at.uploaded, Name) \in Seq(Names) /\ Append(at.failed, Path) \in Seq(Paths)
  <2>1. at.uploaded \in Seq(Names) /\ at.failed \in Seq(Paths)
    BY Types DEF IInv
  <2> QED BY <1>5, <2>1
<1>7. at' \in Handled
  <2>1. at \in Handled
    BY DEF IInv, TypeOK
  <2> QED BY <1>2, <1>4, <1>6, <2>1 DEF Handled
<1>8. /\ at'.pc = "upload" /\ at'.call = at.call /\ at'.req = at.req /\ at'.i = at.i + 1
      /\ at'.checks = at.checks /\ at'.release = at.release
      /\ at'.uploaded = at.uploaded \/ (Attached /\ at'.uploaded = Append(at.uploaded, Name))
  BY <1>2, <1>3 DEF IInv, TypeOK, Handled
<1>9. releases' \in [Attempts -> {None} \cup Releases]
  <2>1. CASE UNCHANGED releases
    BY <2>1 DEF IInv, TypeOK, Handled
  <2>2. CASE Possible /\ Attached
    BY <1>1, <2>2, AttachedFacts
  <2> QED BY <1>1, <2>1, <2>2
<1>10. TypeOK'
  BY <1>1, <1>7, <1>9 DEF IInv, TypeOK, Handled
<1>11. Past'
  <2>1. CASE UNCHANGED releases
    <3>1. calls' \in Nat /\ calls <= calls'
      BY <1>1, Types DEF IInv
    <3> QED BY <1>1, <1>8, <2>1, <3>1, QuietPast
  <2>2. CASE Possible /\ Attached
    BY <1>1, <1>8, <2>2, AttachedPast
  <2> QED BY <1>1, <2>1, <2>2
<1>12. Uploads'
  <2> DEFINE old == releases[at.release].assets
             new == releases'[at.release].assets
             a == [name |-> Name, content |-> disk[Path], by |-> at.call]
  <2>1. /\ releases'[at.release] # None
        /\ releases'[at.release].tag = at.req.tag /\ releases'[at.release].draft = at.req.draft
        /\ \A x \in Attempts : x # at.release => releases'[x] = releases[x]
        /\ new = old \/ (Attached /\ new = old \cup {a})
        /\ Attached /\ Possible => new = old \cup {a}
    <3>1. CASE UNCHANGED releases /\ ~(Possible /\ Attached)
      BY <1>3, <3>1 DEF Uploads, Owns
    <3>2. CASE Possible /\ Attached
      BY <1>1, <1>3, <3>2, AttachedFacts DEF Uploads
    <3> QED BY <1>1, <3>1, <3>2
  <2>2. a.name = Name /\ a.content = disk[Path]
    OBVIOUS
  <2> HIDE DEF a
  <2>3. \A x \in old : \E n \in 1 .. Len(at.checks) :
            /\ at.checks[n].name = x.name
            /\ at.checks[n].sha = x.content \/ at.checks[n].path \in changed
    BY <1>3 DEF Uploads
  <2>4. /\ at.checks[at.i].name = Name
        /\ at.checks[at.i].sha = disk[Path] \/ at.checks[at.i].path \in changed
    BY <1>3, <1>4 DEF InHand, Hashed, Path, Name
  <2>5. \A x \in new : \E n \in 1 .. Len(at.checks) :
            /\ at.checks[n].name = x.name
            /\ at.checks[n].sha = x.content \/ at.checks[n].path \in changed
    BY <1>4, <2>1, <2>2, <2>3, <2>4
  <2>6. \A n \in 1 .. Len(at.uploaded) : \E x \in old : x.name = at.uploaded[n]
    BY <1>3 DEF Uploads
  <2>7. \A n \in 1 .. Len(at'.uploaded) : \E x \in new : x.name = at'.uploaded[n]
    <3>1. CASE at'.uploaded = at.uploaded
      BY <2>1, <2>6, <3>1
    <3>2. CASE Attached /\ at'.uploaded = Append(at.uploaded, Name)
      <4>1. CASE Possible
        <5>1. new = old \cup {a}
          BY <2>1, <3>2, <4>1
        <5>2. \A n \in 1 .. Len(at'.uploaded) :
                  \/ n \in 1 .. Len(at.uploaded) /\ at'.uploaded[n] = at.uploaded[n]
                  \/ at'.uploaded[n] = Name
          BY <3>2, Types DEF IInv
        <5> QED BY <2>2, <2>6, <5>1, <5>2
      <4>2. CASE ~Possible
        <5>1. UploadFails
          BY <4>2 DEF UploadDone
        <5>2. at' = [at EXCEPT !.i = @ + 1, !.failed = Append(@, Path)]
          BY <5>1 DEF UploadFails
        <5>3. at'.uploaded = at.uploaded
          BY <5>2 DEF IInv, TypeOK, Handled
        <5> QED BY <2>1, <2>6, <5>3
      <4> QED BY <4>1, <4>2
    <3> QED BY <1>8, <3>1, <3>2
  <2>8. /\ (at.release \in Attempts /\ Owns(at.release))'
        /\ (\A x \in Attempts : Owns(x) /\ x # at.release =>
               releases[x].assets = {} /\ releases[x].draft)'
    BY <1>3, <1>8, <2>1 DEF Uploads, Owns
  <2> QED BY <1>1, <1>8, <2>1, <2>5, <2>7, <2>8 DEF Uploads
<1>13. Hashed'
  BY <1>1, <1>3, <1>8 DEF InHand, Hashed
<1>14. InHand'
  BY <1>1, <1>3, <1>4, <1>8, <1>12, <1>13 DEF InHand
<1> QED BY <1>8, <1>10, <1>11, <1>14 DEF IInv, Present

\* The call returns: a dry run after validation, any other after its uploads.
LEMMA ReturnsIInv ==
    ASSUME IInv, Returns, (at.pc = "validate" /\ at.req.dry) \/ at.pc = "upload",
           UNCHANGED <<disk, releases, changed, died, calls, faults, edits>>
    PROVE  IInv'
<1>1. PICK r : r = Result
  OBVIOUS
<1>2. results' = results \cup {r} /\ at' = Idle /\ at'.pc = "idle"
  BY <1>1 DEF Returns, Idle
<1>3. InHand
  BY DEF IInv, Present
<1>4. /\ r.call = at.call /\ r.req = at.req /\ r.release = at.release /\ r.uploaded = at.uploaded /\ r.changed = changed
      /\ r.manifest = at.checks \/ r.manifest = <<>>
  BY <1>1 DEF Result
<1>5. r \in [call : Nat, req : Requests, release : Attempts \cup {None},
      manifest : Seq(Checks), uploaded : Seq(Names), failed : Seq(Paths),
      changed : SUBSET Paths]
  <2>1. /\ at.call \in Nat /\ at.checks \in Seq(Checks) /\ at.uploaded \in Seq(Names)
        /\ at.failed \in Seq(Paths) /\ at.req \in Requests /\ changed \in SUBSET Paths
        /\ at.release \in Attempts \cup {None}
        /\ <<>> \in Seq(Checks)
    BY <1>3, Types DEF IInv, TypeOK, Handled, InHand
  <2> QED BY <1>1, <2>1 DEF Result
<1>6. at' \in Handled
  BY <1>2, IdleHandled
<1>7. TypeOK'
  BY <1>2, <1>5, <1>6 DEF IInv, TypeOK, Handled
<1>8. r.call \in 1 .. calls
  BY <1>3, <1>4, Types DEF InHand, IInv
<1>9. Numbered'
  BY <1>2, <1>8 DEF IInv, Past, Numbered
<1>10. OwnReleaseOnly'
  BY DEF IInv, Past, OwnReleaseOnly
<1>11. UploadsAreThere'
  <2>1. \A n \in 1 .. Len(r.uploaded) :
           /\ r.release[1] = r.call /\ releases[r.release] # None
           /\ releases[r.release].tag = r.req.tag /\ releases[r.release].draft = r.req.draft
           /\ \E a \in releases[r.release].assets : a.name = r.uploaded[n]
    <3>1. CASE at.pc = "validate"
      BY <1>3, <1>4, <3>1 DEF InHand
    <3>2. CASE at.pc = "upload"
      BY <1>3, <1>4, <3>2 DEF InHand, Uploads, Owns
    <3> QED BY <3>1, <3>2
  <2> QED BY <1>2, <2>1 DEF IInv, Past, UploadsAreThere
<1>12. ManifestIsOfUpload'
  <2> SUFFICES ASSUME NEW y \in results', NEW x \in Attempts, releases[x] # None,
                      NEW a \in releases[x].assets, a.by = y.call,
                      NEW k \in 1 .. Len(y.manifest), y.manifest[k].name = a.name
               PROVE  \E n \in {m \in 1 .. Len(y.manifest) : y.manifest[m].name = a.name} :
                         y.manifest[n].sha = a.content \/ y.manifest[n].path \in y.changed
    BY DEF ManifestIsOfUpload
  <2>1. CASE y \in results
    BY <2>1 DEF IInv, Past, ManifestIsOfUpload
  <2>2. CASE y = r
    <3>1. y.manifest = at.checks
      BY <1>4, <2>2
    <3>2. Owns(x)
      BY <1>4, <2>2 DEF IInv, Past, OwnReleaseOnly, Owns
    <3>3. at.pc = "upload" /\ Uploads
      BY <1>3, <3>2 DEF InHand
    <3>4. x = at.release
      BY <3>2, <3>3 DEF Uploads
    <3> QED BY <1>4, <2>2, <3>1, <3>3, <3>4 DEF Uploads
  <2> QED BY <1>2, <2>1, <2>2
<1>13. ReleasesAreReported'
  <2> SUFFICES ASSUME NEW x \in Attempts, releases[x] # None
               PROVE  \/ \E y \in results' : y.release = x
                      \/ x[1] \in died
                      \/ /\ releases[x].assets = {}
                         /\ releases[x].draft \/ \A y \in results' : y.call # x[1]
    BY DEF ReleasesAreReported
  <2>1. CASE Owns(x)
    <3>1. Uploads
      BY <1>3, <2>1 DEF InHand
    <3>2. x = at.release \/ (releases[x].assets = {} /\ releases[x].draft)
      BY <2>1, <3>1 DEF Uploads
    <3> QED BY <1>2, <1>4, <3>2
  <2>2. CASE ~Owns(x)
    BY <1>2, <1>4, <2>2 DEF IInv, Past, ReleasesAreReported, Owns
  <2> QED BY <2>1, <2>2
<1>14. Past'
  BY <1>9, <1>10, <1>11, <1>12, <1>13 DEF Past
<1> QED BY <1>2, <1>7, <1>14 DEF IInv, Present

\* The end of validation: the call goes on to create its release, or was dry.
LEMMA ValidatedIInv ==
    ASSUME IInv, Validated
    PROVE  IInv'
<1>1. /\ at.pc = "validate"
      /\ UNCHANGED <<disk, releases, changed, died, calls, faults, edits>>
  BY DEF Validated
<1>2. CASE at.req.dry
  <2>1. Returns
    BY <1>2 DEF Validated
  <2> QED BY <1>1, <1>2, <2>1, ReturnsIInv
<1>3. CASE ~at.req.dry
  <2>1. at' = [at EXCEPT !.pc = "create", !.i = 1] /\ results' = results
    BY <1>3 DEF Validated
  <2>2. /\ at'.pc = "create" /\ at'.call = at.call /\ at'.req = at.req /\ at'.i = 1
        /\ at'.checks = at.checks /\ at'.uploaded = at.uploaded
    BY <2>1 DEF IInv, TypeOK, Handled
  <2>3. InHand
    BY <1>1 DEF IInv, Present
  <2>4. at' \in Handled
    BY <2>1 DEF IInv, TypeOK, Handled
  <2>5. TypeOK'
    BY <1>1, <2>1, <2>4 DEF IInv, TypeOK, Handled
  <2>6. Past'
    <3>1. calls' \in Nat /\ calls <= calls'
      BY <1>1, Types DEF IInv
    <3> QED BY <1>1, <2>1, <2>2, <3>1, QuietPast
  <2>7. InHand'
    BY <1>1, <1>3, <2>1, <2>2, <2>3 DEF InHand, Hashed, Owns, Creates
  <2> QED BY <2>2, <2>5, <2>6, <2>7 DEF IInv, Present
<1> QED BY <1>2, <1>3

LEMMA FinishIInv ==
    ASSUME IInv, Finish
    PROVE  IInv'
  BY ReturnsIInv DEF Finish

LEMMA StutterIInv ==
    ASSUME IInv, UNCHANGED vars
    PROVE  IInv'
<1>1. TypeOK'
  BY DEF vars, IInv, TypeOK, Handled
<1>2. Past'
  BY DEF vars, IInv, Past, Numbered, OwnReleaseOnly, UploadsAreThere, ManifestIsOfUpload,
         ReleasesAreReported
<1>3. Present'
  BY DEF vars, IInv, Present, InHand, Hashed, Owns, Creates, Uploads
<1> QED BY <1>1, <1>2, <1>3 DEF IInv

\* Every step keeps the invariant.
LEMMA NextIInv == IInv /\ [Next]_vars => IInv'
  BY CreateReleaseIInv, ValidateIInv, RaisesIInv, ValidatedIInv, CreateDoneIInv, CreateLostIInv,
     UploadIInv, FinishIInv, EditIInv, StutterIInv DEF Next

-----------------------------------------------------------------------------
(* Every file has one outcome                                              *)

\* Of the first k files asked for, those named m; of the files still to be
\* uploaded from the k-th on; of those uploaded; of those that failed.
Requested(m, k) == {n \in 1 .. k : NameOf[at.req.assets[n]] = m}
Ready(m, k) == {n \in k .. Len(at.checks) : at.checks[n].name = m}
Done(m) == {n \in 1 .. Len(at.uploaded) : at.uploaded[n] = m}
Lost(m) == {n \in 1 .. Len(at.failed) : NameOf[at.failed[n]] = m}

\* What was looked at so far is ready, uploaded or failed.
Balance(k, i) ==
    \A m \in Names : Cardinality(Requested(m, k)) =
        Cardinality(Ready(m, i)) + Cardinality(Done(m)) + Cardinality(Lost(m))

Named == \A n \in 1 .. Len(at.checks) : at.checks[n].name = NameOf[at.checks[n].path]

Balanced ==
    /\ Named
    /\ at.pc = "validate" => at.i <= Len(at.req.assets) + 1 /\ Balance(at.i - 1, 1)
    /\ at.pc = "create" => at.i = 1 /\ Balance(Len(at.req.assets), 1)
    /\ at.pc = "upload" =>
          at.i <= Len(at.checks) + 1 /\ Balance(Len(at.req.assets), at.i)

\* A result that gives every file one outcome.
Reported(r) ==
    \A m \in Names :
        Cardinality({n \in 1 .. Len(r.req.assets) : NameOf[r.req.assets[n]] = m}) =
            Cardinality({n \in 1 .. Len(r.uploaded) : r.uploaded[n] = m})
                + Cardinality({n \in 1 .. Len(r.failed) : NameOf[r.failed[n]] = m})

AllReported == \A r \in results : ~r.req.dry => Reported(r)

AInv == IInv /\ AllReported /\ (at.pc # "idle" => Balanced)

\* One element more, or none.
LEMMA Counted ==
    ASSUME NEW S, IsFiniteSet(S), NEW x, x \notin S, NEW T, NEW q, NEW m,
           T = IF q = m THEN S \cup {x} ELSE S
    PROVE  /\ Cardinality(T) = Cardinality(S) + (IF q = m THEN 1 ELSE 0)
           /\ Cardinality(S) \in Nat /\ Cardinality(T) \in Nat
<1>1. Cardinality(S) \in Nat
  BY FS_CardinalityType
<1>2. Cardinality(S \cup {x}) = Cardinality(S) + 1
  BY FS_AddElement
<1> QED BY <1>1, <1>2

\* The sets that are counted are finite.
LEMMA FiniteCounts ==
    ASSUME TypeOK, NEW m, NEW k \in Nat
    PROVE  /\ IsFiniteSet(Requested(m, k)) /\ Cardinality(Requested(m, k)) \in Nat
           /\ IsFiniteSet(Ready(m, k)) /\ Cardinality(Ready(m, k)) \in Nat
           /\ IsFiniteSet(Done(m)) /\ Cardinality(Done(m)) \in Nat
           /\ IsFiniteSet(Lost(m)) /\ Cardinality(Lost(m)) \in Nat
<1>1. /\ IsFiniteSet(1 .. k) /\ IsFiniteSet(k .. Len(at.checks))
      /\ IsFiniteSet(1 .. Len(at.uploaded)) /\ IsFiniteSet(1 .. Len(at.failed))
  <2>1. /\ 1 \in Int /\ k \in Int /\ Len(at.checks) \in Int
        /\ Len(at.uploaded) \in Int /\ Len(at.failed) \in Int
    BY Types
  <2>2. ASSUME NEW a \in Int, NEW b \in Int PROVE IsFiniteSet(a .. b)
    BY FS_Interval
  <2> QED BY <2>1, <2>2
<1>2. /\ Requested(m, k) \subseteq 1 .. k /\ Ready(m, k) \subseteq k .. Len(at.checks)
      /\ Done(m) \subseteq 1 .. Len(at.uploaded) /\ Lost(m) \subseteq 1 .. Len(at.failed)
  BY DEF Requested, Ready, Done, Lost
<1>3. /\ IsFiniteSet(Requested(m, k)) /\ IsFiniteSet(Ready(m, k))
      /\ IsFiniteSet(Done(m)) /\ IsFiniteSet(Lost(m))
  BY <1>1, <1>2, FS_Subset
<1> QED BY <1>3, FS_CardinalityType

\* A new call has looked at nothing.
LEMMA CreateReleaseBalanced ==
    ASSUME AInv, NEW r \in Requests, CreateRelease(r)
    PROVE  Balanced'
<1>1. PICK c : c = calls'
  OBVIOUS
<1>2. at' = [Idle EXCEPT !.pc = "validate", !.call = c, !.req = r]
  BY <1>1 DEF CreateRelease
<1>3. /\ at'.pc = "validate" /\ at'.i = 1 /\ at'.req = r
      /\ at'.checks = <<>> /\ at'.uploaded = <<>> /\ at'.failed = <<>>
  BY <1>2 DEF Idle
<1>4. Cardinality({}) = 0 /\ Len(r.assets) \in Nat
  BY FS_EmptySet, ReleaseAssumption DEF ReleaseAssumption
<1>5. \A m \in Names : /\ Requested(m, 0)' = {} /\ Ready(m, 1)' = {}
                       /\ Done(m)' = {} /\ Lost(m)' = {}
  BY <1>3 DEF Requested, Ready, Done, Lost
<1>6. Balance(0, 1)'
  <2>1. ASSUME NEW m \in Names
        PROVE  Cardinality(Requested(m, 0)') =
                  Cardinality(Ready(m, 1)') + Cardinality(Done(m)') + Cardinality(Lost(m)')
    <3>1. Cardinality(Lost(m)') = 0
      BY <1>4, <1>5
    <3>2. Cardinality(Requested(m, 0)') = 0
      BY <1>4, <1>5
    <3>3. Cardinality(Ready(m, 1)') = 0
      BY <1>4, <1>5
    <3>4. Cardinality(Done(m)') = 0
      BY <1>4, <1>5
    <3> QED BY <3>1, <3>2, <3>3, <3>4
  <2> QED BY <2>1 DEF Balance
<1>7. (at.i - 1 = 0)' /\ Named'
  BY <1>3 DEF Named
<1>8. Balance(at.i - 1, 1)'
  BY <1>6, <1>7 DEF Balance, Requested
<1> QED BY <1>3, <1>4, <1>7, <1>8 DEF Balanced

\* Validation makes each file ready or lets it fail.
LEMMA ValidateBalanced ==
    ASSUME AInv, Validate
    PROVE  Balanced'
<1> DEFINE p == at.req.assets[at.i]
           check == [path |-> p, name |-> NameOf[p], sha |-> disk[p]]
<1>1. /\ at.pc = "validate" /\ at.i <= Len(at.req.assets) /\ TypeOK /\ InHand /\ Balanced
  BY DEF Validate, AInv, IInv, Present
<1>2. /\ at.i \in Nat /\ at.i > 0 /\ at.i - 1 \in Nat /\ Named /\ Balance(at.i - 1, 1)
      /\ Len(at.checks) \in Nat /\ Len(at.failed) \in Nat
      /\ at.checks \in Seq(Checks) /\ at.failed \in Seq(Paths)
  BY <1>1, Types DEF InHand, Balanced
<1>3. Len(at.req.assets) \in Nat
  BY <1>1, ReleaseAssumption DEF ReleaseAssumption, InHand
<1>4. check.path = p /\ check.name = NameOf[p]
  OBVIOUS
<1>5. \/ at' = [at EXCEPT !.i = @ + 1, !.failed = Append(@, p)]
      \/ at' = [at EXCEPT !.i = @ + 1, !.checks = Append(@, check)]
  BY DEF Validate
<1> HIDE DEF check
<1>6. /\ at'.pc = "validate" /\ at'.i = at.i + 1 /\ at'.req = at.req /\ at'.uploaded = at.uploaded
      /\ \/ at'.failed = Append(at.failed, p) /\ at'.checks = at.checks
         \/ at'.failed = at.failed /\ at'.checks = Append(at.checks, check)
  BY <1>1, <1>5 DEF TypeOK, Handled
<1>7. Named'
  <2>1. CASE at'.checks = at.checks
    BY <1>2, <2>1 DEF Named
  <2>2. CASE at'.checks = Append(at.checks, check)
    <3>1. \A n \in 1 .. Len(at'.checks) :
              \/ n \in 1 .. Len(at.checks) /\ at'.checks[n] = at.checks[n]
              \/ at'.checks[n] = check
      BY <1>2, <2>2
    <3> QED BY <1>2, <1>4, <3>1 DEF Named
  <2> QED BY <1>6, <2>1, <2>2
<1>8. PICK i : i = at.i
  OBVIOUS
<1>9. ASSUME NEW m \in Names
      PROVE  Cardinality(Requested(m, i)') =
                Cardinality(Ready(m, 1)') + Cardinality(Done(m)') + Cardinality(Lost(m)')
  <2>1. Requested(m, i)' = IF NameOf[p] = m THEN Requested(m, i - 1) \cup {i}
                                            ELSE Requested(m, i - 1)
    <3>1. 1 .. i = (1 .. i - 1) \cup {i}
      BY <1>2, <1>8
    <3> QED BY <1>6, <1>8, <3>1 DEF Requested
  <2>2. i \notin Requested(m, i - 1)
    BY <1>2, <1>8 DEF Requested
  <2>3. /\ IsFiniteSet(Requested(m, i - 1)) /\ IsFiniteSet(Ready(m, 1)) /\ IsFiniteSet(Lost(m))
        /\ Cardinality(Ready(m, 1)) \in Nat /\ Cardinality(Done(m)) \in Nat
        /\ Cardinality(Lost(m)) \in Nat
    BY <1>1, <1>2, <1>8, FiniteCounts
  <2>4. /\ Cardinality(Requested(m, i)') =
              Cardinality(Requested(m, i - 1)) + (IF NameOf[p] = m THEN 1 ELSE 0)
        /\ Cardinality(Requested(m, i - 1)) \in Nat
    BY <2>1, <2>2, <2>3, Counted
  <2>5. Done(m)' = Done(m)
    BY <1>6 DEF Done
  <2>6. Cardinality(Requested(m, i - 1)) =
            Cardinality(Ready(m, 1)) + Cardinality(Done(m)) + Cardinality(Lost(m))
    BY <1>2, <1>8 DEF Balance
  <2>7. CASE at'.failed = Append(at.failed, p) /\ at'.checks = at.checks
    <3>1. Ready(m, 1)' = Ready(m, 1)
      BY <2>7 DEF Ready
    <3>2. /\ Len(at'.failed) = Len(at.failed) + 1 /\ at'.failed[Len(at.failed) + 1] = p
          /\ \A n \in 1 .. Len(at.failed) : at'.failed[n] = at.failed[n]
          /\ 1 .. Len(at.failed) + 1 = (1 .. Len(at.failed)) \cup {Len(at.failed) + 1}
      BY <1>2, <2>7
    <3>3. Lost(m)' = IF NameOf[p] = m THEN Lost(m) \cup {Len(at.failed) + 1} ELSE Lost(m)
      BY <3>2 DEF Lost
    <3>4. Len(at.failed) + 1 \notin Lost(m)
      BY <1>2 DEF Lost
    <3>5. Cardinality(Lost(m)') = Cardinality(Lost(m)) + (IF NameOf[p] = m THEN 1 ELSE 0)
      <4>1. PICK j : j = Len(at.failed) + 1
        OBVIOUS
      <4>2. IsFiniteSet(Lost(m)) /\ j \notin Lost(m)
            /\ Lost(m)' = IF NameOf[p] = m THEN Lost(m) \cup {j} ELSE Lost(m)
        BY <2>3, <3>3, <3>4, <4>1
      <4> QED BY <4>2, Counted
    <3> QED BY <2>3, <2>4, <2>5, <2>6, <3>1, <3>5
  <2>8. CASE at'.failed = at.failed /\ at'.checks = Append(at.checks, check)
    <3>1. Lost(m)' = Lost(m)
      BY <2>8 DEF Lost
    <3>2. /\ Len(at'.checks) = Len(at.checks) + 1 /\ at'.checks[Len(at.checks) + 1] = check
          /\ \A n \in 1 .. Len(at.checks) : at'.checks[n] = at.checks[n]
          /\ 1 .. Len(at.checks) + 1 = (1 .. Len(at.checks)) \cup {Len(at.checks) + 1}
      BY <1>2, <2>8
    <3>3. Ready(m, 1)' =
              IF NameOf[p] = m THEN Ready(m, 1) \cup {Len(at.checks) + 1} ELSE Ready(m, 1)
      BY <1>4, <3>2 DEF Ready
    <3>4. Len(at.checks) + 1 \notin Ready(m, 1)
      BY <1>2 DEF Ready
    <3>5. Cardinality(Ready(m, 1)') = Cardinality(Ready(m, 1)) + (IF NameOf[p] = m THEN 1 ELSE 0)
      <4>1. PICK j : j = Len(at.checks) + 1
        OBVIOUS
      <4>2. IsFiniteSet(Ready(m, 1)) /\ j \notin Ready(m, 1)
            /\ Ready(m, 1)' = IF NameOf[p] = m THEN Ready(m, 1) \cup {j} ELSE Ready(m, 1)
        BY <2>3, <3>3, <3>4, <4>1
      <4> QED BY <4>2, Counted
    <3> QED BY <2>3, <2>4, <2>5, <2>6, <3>1, <3>5
  <2> QED BY <1>6, <2>7, <2>8
<1>10. Balance(i, 1)'
  BY <1>9 DEF Balance
<1>11. (at.i - 1 = i)' /\ at'.i <= Len(at'.req.assets) + 1
  BY <1>1, <1>2, <1>3, <1>6, <1>8
<1>12. Balance(at.i - 1, 1)'
  BY <1>10, <1>11 DEF Balance, Requested
<1> QED BY <1>6, <1>7, <1>11, <1>12 DEF Balanced

\* An upload is done or fails.
LEMMA UploadBalanced ==
    ASSUME AInv, UploadDone \/ UploadFails
    PROVE  Balanced'
<1>1. /\ at.pc = "upload" /\ TypeOK /\ InHand /\ Balanced /\ at.i <= Len(at.checks)
  BY DEF UploadDone, UploadFails, Uploading, AInv, IInv, Present
<1>2. /\ at.i \in 1 .. Len(at.checks) /\ at.i \in Nat /\ Named
      /\ Len(at.checks) \in Nat /\ Len(at.failed) \in Nat /\ Len(at.uploaded) \in Nat
      /\ at.uploaded \in Seq(Names) /\ at.failed \in Seq(Paths)
      /\ Balance(Len(at.req.assets), at.i)
  BY <1>1, Types DEF InHand, Balanced
<1>3. Len(at.req.assets) \in Nat
  BY <1>1, ReleaseAssumption DEF ReleaseAssumption, InHand
<1>4. \/ at' = [at EXCEPT !.i = @ + 1, !.uploaded = Append(@, Name)]
      \/ at' = [at EXCEPT !.i = @ + 1, !.failed = Append(@, Path)]
  BY DEF UploadDone, UploadFails
<1>5. /\ at'.pc = "upload" /\ at'.i = at.i + 1 /\ at'.req = at.req /\ at'.checks = at.checks
      /\ \/ at'.failed = at.failed /\ at'.uploaded = Append(at.uploaded, Name)
         \/ at'.failed = Append(at.failed, Path) /\ at'.uploaded = at.uploaded
  BY <1>1, <1>4 DEF TypeOK, Handled
<1>6. at.checks[at.i].name = Name /\ NameOf[Path] = Name
  BY <1>2 DEF Name, Path, Named
<1>7. Named'
  BY <1>2, <1>5 DEF Named
<1>8. PICK i, k : i = at.i /\ k = Len(at.req.assets)
  OBVIOUS
<1>9. ASSUME NEW m \in Names
      PROVE  Cardinality(Requested(m, k)') =
                Cardinality(Ready(m, i + 1)') + Cardinality(Done(m)') + Cardinality(Lost(m)')
  <2>1. Requested(m, k)' = Requested(m, k) /\ Ready(m, i + 1)' = Ready(m, i + 1)
    BY <1>5 DEF Requested, Ready
  <2>2. Ready(m, i) = IF Name = m THEN Ready(m, i + 1) \cup {i} ELSE Ready(m, i + 1)
    <3>1. i .. Len(at.checks) = (i + 1 .. Len(at.checks)) \cup {i}
      BY <1>2, <1>8
    <3> QED BY <1>6, <1>8, <3>1 DEF Ready
  <2>3. i \notin Ready(m, i + 1) /\ i + 1 \in Nat
    BY <1>2, <1>8 DEF Ready
  <2>4. /\ IsFiniteSet(Ready(m, i + 1)) /\ IsFiniteSet(Done(m)) /\ IsFiniteSet(Lost(m))
        /\ Cardinality(Done(m)) \in Nat /\ Cardinality(Lost(m)) \in Nat
    BY <1>1, <2>3, FiniteCounts
  <2>5. /\ Cardinality(Ready(m, i)) =
              Cardinality(Ready(m, i + 1)) + (IF Name = m THEN 1 ELSE 0)
        /\ Cardinality(Ready(m, i + 1)) \in Nat
    BY <2>2, <2>3, <2>4, Counted
  <2>6. Cardinality(Requested(m, k)) =
            Cardinality(Ready(m, i)) + Cardinality(Done(m)) + Cardinality(Lost(m))
    BY <1>2, <1>8 DEF Balance
  <2>7. CASE at'.failed = at.failed /\ at'.uploaded = Append(at.uploaded, Name)
    <3>1. Lost(m)' = Lost(m)
      BY <2>7 DEF Lost
    <3>2. /\ Len(at'.uploaded) = Len(at.uploaded) + 1
          /\ at'.uploaded[Len(at.uploaded) + 1] = Name
          /\ \A n \in 1 .. Len(at.uploaded) : at'.uploaded[n] = at.uploaded[n]
          /\ 1 .. Len(at.uploaded) + 1 = (1 .. Len(at.uploaded)) \cup {Len(at.uploaded) + 1}
      BY <1>2, <2>7
    <3>3. Done(m)' = IF Name = m THEN Done(m) \cup {Len(at.uploaded) + 1} ELSE Done(m)
      BY <3>2 DEF Done
    <3>4. Len(at.uploaded) + 1 \notin Done(m)
      BY <1>2 DEF Done
    <3>5. Cardinality(Done(m)') = Cardinality(Done(m)) + (IF Name = m THEN 1 ELSE 0)
      <4>1. PICK j : j = Len(at.uploaded) + 1
        OBVIOUS
      <4>2. IsFiniteSet(Done(m)) /\ j \notin Done(m)
            /\ Done(m)' = IF Name = m THEN Done(m) \cup {j} ELSE Done(m)
        BY <2>4, <3>3, <3>4, <4>1
      <4> QED BY <4>2, Counted
    <3> QED BY <2>1, <2>4, <2>5, <2>6, <3>1, <3>5
  <2>8. CASE at'.failed = Append(at.failed, Path) /\ at'.uploaded = at.uploaded
    <3>1. Done(m)' = Done(m)
      BY <2>8 DEF Done
    <3>2. /\ Len(at'.failed) = Len(at.failed) + 1 /\ at'.failed[Len(at.failed) + 1] = Path
          /\ \A n \in 1 .. Len(at.failed) : at'.failed[n] = at.failed[n]
          /\ 1 .. Len(at.failed) + 1 = (1 .. Len(at.failed)) \cup {Len(at.failed) + 1}
      BY <1>2, <2>8
    <3>3. Lost(m)' = IF Name = m THEN Lost(m) \cup {Len(at.failed) + 1} ELSE Lost(m)
      BY <1>6, <3>2 DEF Lost
    <3>4. Len(at.failed) + 1 \notin Lost(m)
      BY <1>2 DEF Lost
    <3>5. Cardinality(Lost(m)') = Cardinality(Lost(m)) + (IF Name = m THEN 1 ELSE 0)
      <4>1. PICK j : j = Len(at.failed) + 1
        OBVIOUS
      <4>2. IsFiniteSet(Lost(m)) /\ j \notin Lost(m)
            /\ Lost(m)' = IF Name = m THEN Lost(m) \cup {j} ELSE Lost(m)
        BY <2>4, <3>3, <3>4, <4>1
      <4> QED BY <4>2, Counted
    <3> QED BY <2>1, <2>4, <2>5, <2>6, <3>1, <3>5
  <2> QED BY <1>5, <2>7, <2>8
<1>10. Balance(k, i + 1)'
  BY <1>9 DEF Balance
<1>11. (at.i = i + 1)' /\ (Len(at.req.assets) = k)' /\ at'.i <= Len(at'.checks) + 1
  BY <1>1, <1>2, <1>5, <1>8
<1>12. Balance(Len(at.req.assets), at.i)'
  BY <1>10, <1>11 DEF Balance, Requested, Ready
<1> QED BY <1>5, <1>7, <1>11, <1>12 DEF Balanced

\* A step that leaves the call's files and outcomes as they are.
LEMMA CarriedBalanced ==
    ASSUME AInv, at.pc # "idle",
           /\ at'.req = at.req /\ at'.checks = at.checks /\ at'.uploaded = at.uploaded
           /\ at'.failed = at.failed,
           \/ at'.pc = at.pc /\ at'.i = at.i
           \/ Validated /\ at'.pc = "create" /\ at'.i = 1
           \/ at.pc = "create" /\ at'.pc = "upload" /\ at'.i = at.i
    PROVE  Balanced'
<1>1. Balanced /\ InHand /\ TypeOK
  BY DEF AInv, IInv, Present
<1>2. Named'
  BY <1>1 DEF Balanced, Named
<1>3. \A k, i : Balance(k, i)' = Balance(k, i)
  BY DEF Balance, Requested, Ready, Done, Lost
<1>4. Len(at.req.assets) \in Nat /\ at.i \in Nat /\ Len(at.checks) \in Nat
  BY <1>1, Types, ReleaseAssumption DEF ReleaseAssumption, InHand
<1>5. PICK a, i, k : a = at.i - 1 /\ i = at.i /\ k = Len(at.req.assets)
  OBVIOUS
<1>6. CASE at'.pc = at.pc /\ at'.i = at.i
  <2>1. (at.i - 1 = a /\ at.i = i /\ Len(at.req.assets) = k)'
    BY <1>5, <1>6
  <2>2. /\ Balance(at.i - 1, 1)' = Balance(a, 1)' /\ Balance(Len(at.req.assets), 1)' = Balance(k, 1)'
        /\ Balance(Len(at.req.assets), at.i)' = Balance(k, i)'
    BY <2>1 DEF Balance, Requested, Ready, Done, Lost
  <2> QED BY <1>1, <1>2, <1>3, <1>5, <1>6, <2>1, <2>2 DEF Balanced
<1>7. CASE Validated /\ at'.pc = "create" /\ at'.i = 1
  <2>1. at.pc = "validate" /\ a = k
    BY <1>1, <1>4, <1>5, <1>7 DEF Validated, Balanced
  <2>2. Balance(k, 1)
    BY <1>1, <1>5, <2>1 DEF Balanced
  <2>3. Balance(Len(at.req.assets), 1)' = Balance(k, 1)'
    BY <1>5 DEF Balance, Requested, Ready, Done, Lost
  <2> QED BY <1>2, <1>3, <1>7, <2>2, <2>3 DEF Balanced
<1>8. CASE at.pc = "create" /\ at'.pc = "upload" /\ at'.i = at.i
  <2>1. Balance(k, 1) /\ i = 1
    BY <1>1, <1>5, <1>8 DEF Balanced
  <2>2. Balance(Len(at.req.assets), at.i)' = Balance(k, 1)'
    BY <1>5, <1>8, <2>1 DEF Balance, Requested, Ready, Done, Lost
  <2>3. at'.i <= Len(at'.checks) + 1
    BY <1>4, <1>5, <1>8, <2>1
  <2> QED BY <1>2, <1>3, <1>8, <2>1, <2>2, <2>3 DEF Balanced
<1> QED BY <1>6, <1>7, <1>8

\* The steps other than validation and upload.
LEMMA OtherBalanced ==
    ASSUME AInv, at.pc # "idle", at'.pc # "idle",
           \/ Validated \/ CreateDone \/ CreateLost \/ (\E p \in Paths : Edit(p))
           \/ UNCHANGED vars
    PROVE  Balanced'
<1>1. TypeOK
  BY DEF AInv, IInv
<1>2. Idle.pc = "idle"
  BY DEF Idle
<1>3. CASE Validated
  <2>1. at' = [at EXCEPT !.pc = "create", !.i = 1]
    BY <1>2, <1>3 DEF Validated, Returns
  <2> QED BY <1>1, <1>3, <2>1, CarriedBalanced DEF TypeOK, Handled
<1>4. CASE CreateDone
  <2>1. PICK url \in BOOLEAN : at' = [at EXCEPT !.pc = "upload", !.release = Id, !.url = url]
    BY <1>4 DEF CreateDone
  <2>2. at.pc = "create"
    BY <1>4 DEF CreateDone
  <2> QED BY <1>1, <2>1, <2>2, CarriedBalanced DEF TypeOK, Handled
<1>5. CASE CreateLost
  <2>1. at' = [at EXCEPT !.attempt = @ + 1]
    BY <1>2, <1>5 DEF CreateLost, Raises
  <2> QED BY <1>1, <2>1, CarriedBalanced DEF TypeOK, Handled
<1>6. CASE \E p \in Paths : Edit(p)
  BY <1>6, CarriedBalanced DEF Edit
<1>7. CASE UNCHANGED vars
  BY <1>7, CarriedBalanced DEF vars
<1> QED BY <1>3, <1>4, <1>5, <1>6, <1>7

\* When the last upload is over nothing is ready any more.
LEMMA FinishReported ==
    ASSUME AInv, Finish
    PROVE  AllReported'
<1>1. /\ at.pc = "upload" /\ at.i > Len(at.checks) /\ TypeOK /\ InHand /\ Balanced
      /\ results' = results \cup {Result}
  BY DEF Finish, Returns, AInv, IInv, Present
<1>2. /\ Balance(Len(at.req.assets), at.i) /\ at.i \in Nat /\ Len(at.checks) \in Nat
      /\ Len(at.req.assets) \in Nat
  BY <1>1, Types, ReleaseAssumption DEF Balanced, InHand, ReleaseAssumption
<1>3. PICK r : r = Result
  OBVIOUS
<1>4. r.req = at.req /\ r.uploaded = at.uploaded /\ r.failed = at.failed
  BY <1>3 DEF Result
<1>5. PICK k, i : k = Len(at.req.assets) /\ i = at.i
  OBVIOUS
<1>6. ASSUME NEW m \in Names
      PROVE  Cardinality(Requested(m, k)) = Cardinality(Done(m)) + Cardinality(Lost(m))
  <2>1. Ready(m, i) = {}
    BY <1>1, <1>2, <1>5 DEF Ready
  <2>2. Cardinality(Ready(m, i)) = 0
    BY <2>1, FS_EmptySet
  <2>3. Cardinality(Done(m)) \in Nat /\ Cardinality(Lost(m)) \in Nat
    BY <1>1, <1>2, FiniteCounts
  <2>4. Cardinality(Requested(m, k)) =
            Cardinality(Ready(m, i)) + Cardinality(Done(m)) + Cardinality(Lost(m))
    BY <1>2, <1>5 DEF Balance
  <2> QED BY <2>2, <2>3, <2>4
<1>7. Reported(r)
  BY <1>4, <1>5, <1>6 DEF Reported, Requested, Done, Lost
<1>8. \A x \in results' : x = r \/ x \in results
  BY <1>1, <1>3
<1> QED BY <1>7, <1>8 DEF AInv, AllReported

\* Any other step leaves the results alone or adds that of a dry run.
LEMMA OtherReported ==
    ASSUME AInv, [Next]_vars, ~Finish
    PROVE  AllReported'
<1>1. \/ results' = results
      \/ Validated /\ at.req.dry /\ results' = results \cup {Result}
  BY DEF Next, CreateRelease, Validate, ValidateRaises, Validated, Returns, CreateDone,
         CreateRejected, CreateLost, UploadDone, UploadFails, Edit, Crash, vars
<1>2. Result.req = at.req
  BY DEF Result
<1>3. \A r \in results' : r \in results \/ r.req.dry
  BY <1>1, <1>2
<1> QED BY <1>3 DEF AInv, AllReported

LEMMA NextAInv == AInv /\ [Next]_vars => AInv'
<1> SUFFICES ASSUME AInv, [Next]_vars PROVE AInv'
  OBVIOUS
<1>1. IInv'
  BY NextIInv DEF AInv
<1>2. AllReported'
  BY FinishReported, OtherReported
<1>3. ASSUME at'.pc # "idle" PROVE Balanced'
  <2>1. Idle.pc = "idle"
    BY DEF Idle
  <2>2. CASE \E r \in Requests : CreateRelease(r)
    BY <2>2, CreateReleaseBalanced
  <2>3. CASE Validate
    BY <2>3, ValidateBalanced
  <2>4. CASE UploadDone \/ UploadFails
    BY <2>4, UploadBalanced
  <2>5. CASE ValidateRaises \/ CreateRejected \/ Crash \/ Finish
    BY <1>3, <2>1, <2>5 DEF ValidateRaises, CreateRejected, Crash, Finish, Raises, Returns
  <2>6. CASE Validated \/ CreateDone \/ CreateLost
    BY <1>3, <2>6, OtherBalanced DEF Validated, CreateDone, CreateLost
  <2>7. CASE (\E p \in Paths : Edit(p)) \/ UNCHANGED vars
    <3>1. at' = at
      BY <2>7 DEF Edit, vars
    <3> QED BY <1>3, <2>7, <3>1, OtherBalanced
  <2> QED BY <2>2, <2>3, <2>4, <2>5, <2>6, <2>7 DEF Next
<1> QED BY <1>1, <1>2, <1>3 DEF AInv

-----------------------------------------------------------------------------
(* The theorems                                                            *)

\* The inductive invariant, and the balance of files and outcomes on top of it.
THEOREM ReleaseInvariant == Spec => []AInv
<1>1. Init => AInv
  BY InitIInv DEF Init, Idle, AInv, AllReported
<1> QED BY <1>1, NextAInv, PTL DEF Spec

\* Files, releases, results and the call in hand keep their types (TypeOK).
THEOREM ReleaseTypeOK == Spec => []TypeOK
<1>1. AInv => TypeOK
  BY DEF AInv, IInv
<1> QED BY <1>1, ReleaseInvariant, PTL

\* Every file asked for is reported once, as uploaded or as failed, however many
\* uploads fail (create_release's loops).
THEOREM ReleaseEveryAssetReported == Spec => []EveryAssetReported
<1>1. AInv => EveryAssetReported
  BY DEF AInv, AllReported, Reported, EveryAssetReported, Occurrences
<1> QED BY <1>1, ReleaseInvariant, PTL

\* What is reported as uploaded is on GitHub, in the release of the same call.
THEOREM ReleaseUploadsAreThere == Spec => []UploadsAreThere
<1>1. AInv => UploadsAreThere
  BY DEF AInv, IInv, Past
<1> QED BY <1>1, ReleaseInvariant, PTL

\* The manifest's hash is that of the asset on GitHub, unless the file changed
\* during the call (_provenance_manifest).
THEOREM ReleaseManifestIsOfUpload == Spec => []ManifestIsOfUpload
<1>1. AInv => ManifestIsOfUpload
  BY DEF AInv, IInv, Past
<1> QED BY <1>1, ReleaseInvariant, PTL

\* Assets are added only to the release that the same call created.
THEOREM ReleaseOwnReleaseOnly == Spec => []OwnReleaseOnly
<1>1. AInv => OwnReleaseOnly
  BY DEF AInv, IInv, Past
<1> QED BY <1>1, ReleaseInvariant, PTL

\* A release is reported, still in hand, of a call that died, or empty.
THEOREM ReleaseReleasesAreReported == Spec => []ReleasesAreReported
<1>1. AInv => ReleasesAreReported
  BY DEF AInv, IInv, Past
<1> QED BY <1>1, ReleaseInvariant, PTL
=============================================================================
