---------------------------- MODULE RuntimeProofs ----------------------------
(***************************************************************************)
(* The invariants of the runtime for any number of processes, calls,       *)
(* requests, credentials, artifacts, releases and failures.                *)
(*                                                                         *)
(* SecretsReadBack is first proved of the credential store alone.  IInv    *)
(* adds to it why a key that secrets depend on stays: once a credential    *)
(* was stored with the key file settled, the file has a key and no process *)
(* is past its exists() without having written, and none gets there again, *)
(* since the file exists from then on.  The runtime implements that store. *)
(*                                                                         *)
(* For ScansCarryTheirProfile and AnswersAreLogged, HandsOK says what a    *)
(* call has in hand at each step; TornOK says why a file is not whole.     *)
(*                                                                         *)
(* For AuditLens there are first the operators: what the loops over the    *)
(* files, the findings and the entries of an archive return for every      *)
(* input, by induction over their length.  The prover has no induction     *)
(* over formulas; the least number of a set (LeastNumber, from the theorem *)
(* that < is well founded) gives one over sets of numbers.  LensInv then   *)
(* says that a document is what it says from the request that made it on.  *)
(*                                                                         *)
(* NotesInv says of notes that were compared that they are of two commits  *)
(* their tags were at: then notes that meet add up, by sets alone.         *)
(***************************************************************************)
EXTENDS Runtime, SequenceTheorems, FiniteSetTheorems, WellFoundedInduction, TLAPS

\* Some credential was stored when no process was creating the key file.
Relied == \E n \in Names : secrets[n] # NoProfile /\ secrets[n].settled

IInv ==
    /\ CredentialsTypeOK
    /\ keyfile.key # 0 => keyfile.exists
    /\ Relied => Settled
    /\ SecretsReadBack

\* A volume without a key file satisfies the invariant.
LEMMA CredentialsInitIInv == CredentialsInit => IInv
  BY DEF CredentialsInit, IInv, CredentialsTypeOK, Relied, SecretsReadBack

\* exists(), for a process that starts: settled files exist, so it goes up.
LEMMA StartIInv ==
  ASSUME IInv, NEW p \in Procs, Start(p)
  PROVE  IInv'
  <1> USE DEF IInv, Start
  <1>1. CredentialsTypeOK'
    BY DEF CredentialsTypeOK
  <1>2. (keyfile.key # 0 => keyfile.exists)'
    OBVIOUS
  <1>3. (Relied => Settled)'
    <2> SUFFICES ASSUME Relied' PROVE Settled'
      OBVIOUS
    <2>1. Relied /\ Settled
      BY DEF Relied
    <2>2. boot' = [boot EXCEPT ![p] = "up"]
      BY <2>1 DEF Settled
    <2>3. QED
      BY <2>1, <2>2 DEF Settled, CredentialsTypeOK
  <1>4. SecretsReadBack'
    BY DEF SecretsReadBack, Undecipherable
  <1>5. QED
    BY <1>1, <1>2, <1>3, <1>4

\* The file is emptied only while nothing depends on it.
LEMMA OpenKeyFileIInv ==
  ASSUME IInv, NEW p \in Procs, OpenKeyFile(p)
  PROVE  IInv'
  <1> USE DEF IInv, OpenKeyFile
  <1>1. CredentialsTypeOK'
    BY DEF CredentialsTypeOK
  <1>2. ~Relied
    BY DEF Settled
  <1>3. ~Relied'
    BY <1>2 DEF Relied
  <1>4. SecretsReadBack'
    BY <1>3 DEF SecretsReadBack, Relied
  <1>5. QED
    BY <1>1, <1>3, <1>4

\* A new key is written only while nothing depends on the old one.
LEMMA WriteKeyIInv ==
  ASSUME IInv, NEW p \in Procs, WriteKey(p)
  PROVE  IInv'
  <1> USE DEF IInv, WriteKey
  <1>1. keys' \in Nat
    BY DEF CredentialsTypeOK
  <1>2. CredentialsTypeOK'
    BY <1>1 DEF CredentialsTypeOK
  <1>3. ~Relied
    BY DEF Settled
  <1>4. ~Relied'
    BY <1>3 DEF Relied
  <1>5. SecretsReadBack'
    BY <1>4 DEF SecretsReadBack, Relied
  <1>6. QED
    BY <1>2, <1>4, <1>5

\* The end of a process leaves the file as it is.
LEMMA StopIInv ==
  ASSUME IInv, NEW p \in Procs, Stop(p)
  PROVE  IInv'
  <1> USE DEF IInv, Stop
  <1>1. CredentialsTypeOK'
    BY DEF CredentialsTypeOK
  <1>2. (Relied => Settled)'
    BY DEF Relied, Settled, CredentialsTypeOK
  <1>3. SecretsReadBack'
    BY DEF SecretsReadBack, Undecipherable
  <1>4. QED
    BY <1>1, <1>2, <1>3

\* A credential is stored with the key the file holds.
LEMMA StoreIInv ==
  ASSUME IInv, NEW p \in Procs, NEW n \in Names, NEW v \in Profiles, Store(p, n, v)
  PROVE  IInv'
  <1> USE DEF IInv, Store
  <1> DEFINE row == [key |-> keyfile.key, profile |-> v, settled |-> Settled]
  <1>1. row \in [key : Nat, profile : Profiles, settled : BOOLEAN]
    BY DEF CredentialsTypeOK, Settled
  <1>2. CredentialsTypeOK'
    BY <1>1 DEF CredentialsTypeOK
  <1>3. secrets'[n] = row /\ \A m \in Names : m # n => secrets'[m] = secrets[m]
    BY DEF CredentialsTypeOK
  <1>4. Settled' <=> Settled
    BY DEF Settled
  <1>5. (Relied => Settled)'
    <2> SUFFICES ASSUME NEW m \in Names, secrets'[m] # NoProfile, secrets'[m].settled
                 PROVE  Settled
      BY <1>4 DEF Relied
    <2>1. CASE m = n
      BY <2>1, <1>3
    <2>2. CASE m # n
      BY <2>2, <1>3 DEF Relied
    <2>3. QED
      BY <2>1, <2>2
  <1>6. SecretsReadBack'
    <2> SUFFICES ASSUME NEW m \in Names, secrets'[m] # NoProfile, secrets'[m].settled
                 PROVE  secrets'[m].key = keyfile.key
      BY DEF SecretsReadBack, Undecipherable
    <2>1. CASE m = n
      BY <2>1, <1>3
    <2>2. CASE m # n
      BY <2>2, <1>3 DEF SecretsReadBack, Undecipherable
    <2>3. QED
      BY <2>1, <2>2
  <1>7. QED
    BY <1>2, <1>5, <1>6

\* Every step preserves the invariant.
LEMMA CredentialsNextIInv == IInv /\ [CredentialsNext]_credentialVars => IInv'
  <1> SUFFICES ASSUME IInv, [CredentialsNext]_credentialVars PROVE IInv'
    OBVIOUS
  <1>1. CASE CredentialsNext
    BY <1>1, StartIInv, OpenKeyFileIInv, WriteKeyIInv, StopIInv, StoreIInv DEF CredentialsNext
  <1>2. CASE UNCHANGED credentialVars
    BY <1>2 DEF credentialVars, IInv, CredentialsTypeOK, Relied, Settled, SecretsReadBack,
                Undecipherable
  <1>3. QED
    BY <1>1, <1>2

\* The inductive invariant of the credential store.
THEOREM CredentialsInvariant == CredentialsSpec => []IInv
  BY CredentialsInitIInv, CredentialsNextIInv, PTL DEF CredentialsSpec

\* A credential that was stored when no process was just creating the master
\* key can be decrypted ever after, for any number of processes that start,
\* stop and die at any moment.
THEOREM CredentialsReadBack == CredentialsSpec => []SecretsReadBack
  <1>1. IInv => SecretsReadBack
    BY DEF IInv
  <1>2. QED
    BY CredentialsInvariant, <1>1, PTL

\* Key file, processes and rows keep their types.
THEOREM CredentialsTypes == CredentialsSpec => []CredentialsTypeOK
  <1>1. IInv => CredentialsTypeOK
    BY DEF IInv
  <1>2. QED
    BY CredentialsInvariant, <1>1, PTL

-----------------------------------------------------------------------------
(* The runtime and the credential store                                    *)

\* What the runtime does to the credential store is a step of that store.
LEMMA NextImplementsCredentials == [Next]_vars => [CredentialsNext]_credentialVars
  <1> SUFFICES ASSUME [Next]_vars PROVE [CredentialsNext]_credentialVars
    OBVIOUS
  <1>1. CASE UNCHANGED vars
    BY <1>1 DEF vars
  <1>2. CASE GitHubChanges
    BY <1>2 DEF GitHubChanges
  <1>3. ASSUME NEW p \in Procs, \E r \in Requests \cup ParseRequests : Call(p, r)
        PROVE  UNCHANGED credentialVars
    BY <1>3 DEF Call
  <1>4. ASSUME NEW p \in Procs, Handle(p)
        PROVE  UNCHANGED credentialVars
    BY <1>4 DEF Handle, ScanPolicy, ScanLookup, ScanAdmit, ListReceipts, ReadOnly, LogPut,
                LogAppend
  <1>5. ASSUME NEW p \in Procs, CallRaises(p)
        PROVE  UNCHANGED credentialVars
    BY <1>5 DEF CallRaises
  <1>6. ASSUME NEW p \in Procs, Boot(p) \/ Crash(p) \/ StoreCredential(p)
        PROVE  CredentialsNext
    BY <1>6 DEF Boot, Crash, StoreCredential, CredentialsNext
  <1>7. QED
    BY <1>1, <1>2, <1>3, <1>4, <1>5, <1>6 DEF Next

\* Every behaviour of the runtime is one of the credential store.
THEOREM RuntimeImplementsCredentials == Spec => CredentialsSpec
  <1>1. Init => CredentialsInit
    BY DEF Init
  <1>2. QED
    BY <1>1, NextImplementsCredentials, PTL DEF Spec, CredentialsSpec

\* Whatever the tools do meanwhile: a credential stored when no process was
\* just creating the master key can be decrypted ever after.
THEOREM RuntimeSecretsReadBack == Spec => []SecretsReadBack
  BY RuntimeImplementsCredentials, CredentialsReadBack, PTL

-----------------------------------------------------------------------------
(* What calls have in hand                                                 *)

\* Every process has a call in hand, with its four fields.
Shaped ==
    /\ at = [p \in Procs |-> at[p]]
    /\ \A p \in Procs :
          at[p] = [pc |-> at[p].pc, call |-> at[p].call, req |-> at[p].req, got |-> at[p].got]

\* The tools that store a document of their own, and the steps they take.
Evidencing == {"fetch_evidence", "parse_findings"}
PutSteps == {"put", "put_open", "put_write"}
LogSteps == {"log", "log_open", "log_write", "append"}
EvidenceSteps == Evidencing \cup {"download"} \cup PutSteps \cup LogSteps

\* What a lookup of a name by a call may have found.
LookedUp(name, row, call) ==
    IF row = NoProfile
    THEN \A w \in stored : w.name = name => ~(w.calls < call)
    ELSE \E w \in stored : w.name = name /\ w.profile = row.profile

HandOK(p) ==
    LET c == at[p] IN
    /\ c.call \in 0 .. calls
    /\ c.pc \in {"start_scan", "lookup", "decrypt"} => c.req.auth \in Names \cup {None}
    /\ c.pc # "idle" /\ c.req.tool \in Evidencing =>
          c.pc \in EvidenceSteps /\ (c.pc \in LogSteps => c.got \in objects)
    /\ c.pc = "put_write" => c.got \in objects
    /\ c.pc \in {"log_write", "append"} => Output(p) \in objects
    /\ c.pc = "decrypt" => LookedUp(c.req.auth, c.got, c.call)

HandsOK == \A p \in Procs : HandOK(p)

StoredOK == calls \in Nat /\ stored \subseteq [name : Names, profile : Profiles, calls : 0 .. calls]

SecretsOK ==
    \A n \in Names :
        IF secrets[n] = NoProfile
        THEN \A w \in stored : w.name # n
        ELSE \E w \in stored : w.name = n /\ w.profile = secrets[n].profile

AdmittedOK == \A s \in admitted : s.call \in 0 .. calls

\* The audit row of an answer, and the files of what they refer to.
Filed ==
    \A a \in answers :
        /\ \E row \in audit :
              /\ row.call = a.call /\ row.req = a.req
              /\ row.ref = [tool |-> a.req.tool, output |-> Logged(a.req, a.output)]
              /\ row.ref \in objects
        /\ a.req.tool \in Evidencing => a.output \in objects

CallInv ==
    /\ Shaped /\ HandsOK /\ StoredOK /\ SecretsOK /\ AdmittedOK
    /\ ScansCarryTheirProfile /\ Filed

\* Why a file is not whole.
TornOK ==
    \A d \in torn : d \in interrupted \/ \E p \in Procs : Writing(p) /\ Document(p) = d

\* What a step does to the calls in hand.
LEMMA StepTaken ==
  ASSUME Shaped, NEW p \in Procs, NEW pc, NEW got, Step(p, pc, got)
  PROVE  /\ Shaped'
         /\ at'[p] = [pc |-> pc, call |-> at[p].call, req |-> at[p].req, got |-> got]
         /\ \A q \in Procs : q # p => at'[q] = at[q]
  <1> DEFINE next == [pc |-> pc, call |-> at[p].call, req |-> at[p].req, got |-> got]
  <1>1. PICK c, r, g, k : at[p] = [pc |-> c, call |-> k, req |-> r, got |-> g]
    BY DEF Shaped
  <1> DEFINE first == [at EXCEPT ![p] = [at[p] EXCEPT !.pc = pc]]
  <1>2. at' = [[at EXCEPT ![p].pc = pc] EXCEPT ![p].got = got]
    BY DEF Step
  <1>3. [at EXCEPT ![p].pc = pc] = first
    OBVIOUS
  <1>4. at' = [q \in Procs |-> IF q = p THEN next ELSE at[q]]
    <2>1. [at[p] EXCEPT !.pc = pc] = [pc |-> pc, call |-> k, req |-> r, got |-> g]
      BY <1>1
    <2>2. first = [q \in Procs |->
                     IF q = p THEN [pc |-> pc, call |-> k, req |-> r, got |-> g] ELSE at[q]]
      BY <2>1 DEF Shaped
    <2>3. at' = [first EXCEPT ![p] = [first[p] EXCEPT !.got = got]]
      BY <1>2, <1>3
    <2>4. first[p] = [pc |-> pc, call |-> k, req |-> r, got |-> g]
      BY <2>2
    <2>5. [first[p] EXCEPT !.got = got] = next
      BY <2>4, <1>1
    <2> HIDE DEF next
    <2>6. QED
      BY <2>2, <2>3, <2>5
  <1>5. at'[p] = next /\ \A q \in Procs : q # p => at'[q] = at[q]
    BY <1>4
  <1>6. at' = [q \in Procs |-> at'[q]]
    BY <1>4
  <1>7. ASSUME NEW q \in Procs
        PROVE  at'[q] = [pc |-> at'[q].pc, call |-> at'[q].call,
                         req |-> at'[q].req, got |-> at'[q].got]
    <2>1. CASE q = p
      BY <2>1, <1>5
    <2>2. CASE q # p
      BY <2>2, <1>5 DEF Shaped
    <2>3. QED
      BY <2>1, <2>2
  <1>8. QED
    BY <1>5, <1>6, <1>7 DEF Shaped

\* What the end of a call does to them.
LEMMA FailTaken ==
  ASSUME Shaped, NEW p \in Procs, Fails(p)
  PROVE  /\ Shaped' /\ at'[p] = Idle
         /\ \A q \in Procs : q # p => at'[q] = at[q]
  BY DEF Fails, Shaped, Idle

\* A step that neither looks up a credential nor stores, admits or logs.
Plain(p) ==
    /\ Shaped'
    /\ \A q \in Procs : q # p => at'[q] = at[q]
    /\ \/ at'[p] = Idle
       \/ /\ at'[p].req = at[p].req /\ at'[p].call = at[p].call /\ at[p].pc # "idle"
          /\ at'[p].pc \notin {"start_scan", "decrypt", "put_write"}
          /\ at'[p].pc = "lookup" => at[p].pc = "start_scan"
          /\ at[p].pc \in EvidenceSteps => at'[p].pc \in EvidenceSteps \ LogSteps
          /\ at[p].pc \notin EvidenceSteps => at'[p].pc \notin EvidenceSteps \ {"log"}

\* A step from one control point to another that is plain.
LEMMA PlainStep ==
  ASSUME Shaped, NEW p \in Procs, NEW pc, NEW got, Step(p, pc, got),
         at[p].pc # "idle", pc \notin {"start_scan", "decrypt", "put_write"},
         pc = "lookup" => at[p].pc = "start_scan",
         at[p].pc \in EvidenceSteps => pc \in EvidenceSteps \ LogSteps,
         at[p].pc \notin EvidenceSteps => pc \notin EvidenceSteps \ {"log"}
  PROVE  Plain(p)
  <1>1. /\ Shaped'
        /\ at'[p] = [pc |-> pc, call |-> at[p].call, req |-> at[p].req, got |-> got]
        /\ \A q \in Procs : q # p => at'[q] = at[q]
    BY StepTaken
  <1>2. at'[p].pc = pc /\ at'[p].call = at[p].call /\ at'[p].req = at[p].req
    BY <1>1
  <1>3. QED
    BY <1>1, <1>2 DEF Plain

\* The end of a call is plain.
LEMMA PlainFail ==
  ASSUME Shaped, NEW p \in Procs, Fails(p)
  PROVE  Plain(p)
  BY FailTaken DEF Plain

\* What any step may do to what calls rely on.
Grows ==
    /\ calls \in Nat /\ calls' \in Nat /\ calls <= calls'
    /\ objects \subseteq objects' /\ stored \subseteq stored'
    /\ \A w \in stored' \ stored : w.calls = calls

\* A step that leaves a call alone leaves what is known of it true.
LEMMA HandKept ==
  ASSUME NEW q \in Procs, HandOK(q), at'[q] = at[q], Grows
  PROVE  HandOK(q)'
  <1> DEFINE c == at[q]
  <1>1. c.call \in 0 .. calls' /\ at'[q] = c
    BY DEF HandOK, Grows
  <1>2. c.pc # "idle" /\ c.req.tool \in Evidencing =>
          c.pc \in EvidenceSteps /\ (c.pc \in LogSteps => c.got \in objects')
    BY DEF HandOK, Grows
  <1>3. /\ c.pc = "put_write" => c.got \in objects'
        /\ c.pc \in {"log_write", "append"} => Output(q)' \in objects'
    BY DEF HandOK, Grows, Output
  <1>4. c.pc = "decrypt" => LookedUp(c.req.auth, c.got, c.call)'
    <2> SUFFICES ASSUME c.pc = "decrypt" PROVE LookedUp(c.req.auth, c.got, c.call)'
      OBVIOUS
    <2>1. LookedUp(c.req.auth, c.got, c.call)
      BY DEF HandOK
    <2>2. \A w \in stored' \ stored : ~(w.calls < c.call)
      BY DEF HandOK, Grows
    <2>3. QED
      BY <2>1, <2>2, <1>1 DEF LookedUp, Grows
  <1>5. c.pc \in {"start_scan", "lookup", "decrypt"} => c.req.auth \in Names \cup {None}
    BY DEF HandOK
  <1>6. QED
    BY <1>1, <1>2, <1>3, <1>4, <1>5 DEF HandOK

\* A plain step keeps everything, if all it changes elsewhere is to add objects.
LEMMA PlainKeeps ==
  ASSUME CallInv, NEW p \in Procs, Plain(p), objects \subseteq objects',
         UNCHANGED <<secrets, audit, answers, admitted, calls, stored>>
  PROVE  CallInv'
  <1>1. Grows
    BY DEF Grows, CallInv, StoredOK
  <1>2. HandOK(p)'
    <2>1. CASE at'[p] = Idle
      <3>1. at'[p].pc = "idle" /\ at'[p].call = 0 /\ calls' \in Nat
        BY <2>1 DEF Idle, CallInv, StoredOK
      <3>2. QED
        BY <3>1 DEF HandOK
    <2>2. CASE at'[p] # Idle
      <3>1. HandOK(p) /\ at'[p].call \in 0 .. calls'
        BY <2>2 DEF CallInv, HandsOK, HandOK, Plain
      <3>2. at'[p].pc # "idle" /\ at'[p].req.tool \in Evidencing =>
              at'[p].pc \in EvidenceSteps /\ at'[p].pc \notin LogSteps
        BY <2>2, <3>1 DEF HandOK, Plain
      <3>3. at'[p].pc \in {"start_scan", "lookup", "decrypt"} =>
              at'[p].req.auth \in Names \cup {None}
        BY <2>2, <3>1 DEF HandOK, Plain
      <3>4. at'[p].pc \notin {"log_write", "append", "put_write", "decrypt"}
        BY <2>2 DEF Plain, EvidenceSteps, LogSteps
      <3>5. QED
        BY <3>1, <3>2, <3>3, <3>4 DEF HandOK
    <2>3. QED
      BY <2>1, <2>2
  <1>3. HandsOK'
    <2> SUFFICES ASSUME NEW q \in Procs PROVE HandOK(q)'
      BY DEF HandsOK
    <2>1. CASE q # p
      BY <2>1, <1>1, HandKept DEF CallInv, HandsOK, Plain
    <2>2. QED
      BY <2>1, <1>2
  <1>4. StoredOK' /\ SecretsOK' /\ AdmittedOK' /\ ScansCarryTheirProfile'
    BY DEF CallInv, StoredOK, SecretsOK, AdmittedOK, ScansCarryTheirProfile
  <1>5. Filed'
    BY DEF CallInv, Filed
  <1>6. Shaped'
    BY DEF Plain
  <1>7. QED
    BY <1>3, <1>4, <1>5, <1>6 DEF CallInv

\* So does a step that leaves all calls alone.
LEMMA OthersKeep ==
  ASSUME CallInv, UNCHANGED <<at, objects, secrets, audit, answers, admitted, calls, stored>>
  PROVE  CallInv'
  <1>1. HandsOK'
    <2> SUFFICES ASSUME NEW q \in Procs PROVE HandOK(q)'
      BY DEF HandsOK
    <2>1. Grows
      BY DEF Grows, CallInv, StoredOK
    <2>2. QED
      BY <2>1, HandKept DEF CallInv, HandsOK
  <1>2. StoredOK' /\ SecretsOK' /\ AdmittedOK' /\ ScansCarryTheirProfile'
    BY DEF CallInv, StoredOK, SecretsOK, AdmittedOK, ScansCarryTheirProfile
  <1>3. Filed' /\ Shaped'
    BY DEF CallInv, Filed, Shaped
  <1>4. QED
    BY <1>1, <1>2, <1>3 DEF CallInv

\* The steps of the tools that read GitHub are plain, but for PutDocument.
LEMMA AuditLensPlain ==
  ASSUME CallInv, NEW p \in Procs,
         ListRuns(p) \/ ListArtifacts(p) \/ Download(p) \/ ParseFindings(p)
  PROVE  Plain(p) /\ objects' = objects
  <1> USE DEF EvidenceSteps, PutSteps, LogSteps, Evidencing, CallInv, storeVars
  <1>1. CASE ListRuns(p)
    BY <1>1, PlainStep DEF ListRuns
  <1>2. CASE ListArtifacts(p)
    BY <1>2, PlainStep, PlainFail DEF ListArtifacts
  <1>3. CASE Download(p)
    BY <1>3, PlainStep, PlainFail DEF Download
  <1>4. CASE ParseFindings(p)
    BY <1>4, PlainStep, PlainFail DEF ParseFindings
  <1>5. QED
    BY <1>1, <1>2, <1>3, <1>4

\* All steps of Release Butler's reads are plain.
LEMMA ReleaseReadsPlain ==
  ASSUME CallInv, NEW p \in Procs, ReleaseReadsHandle(p)
  PROVE  Plain(p)
  <1> USE DEF EvidenceSteps, PutSteps, LogSteps, Evidencing, CallInv
  <1>4. CASE ListReleases(p)
    <2>1. PICK pc, got : pc \in {"commits", "compare"} /\ Step(p, pc, got)
      BY <1>4 DEF ListReleases
    <2>2. QED
      BY <1>4, <2>1, PlainStep DEF ListReleases
  <1>5. CASE CompareCommits(p)
    <2>1. at[p].pc = "compare"
      BY <1>5 DEF CompareCommits
    <2>2. (\E got : Step(p, "commits", got)) \/ (\E got : Step(p, "log", got))
      BY <1>5 DEF CompareCommits
    <2>3. ASSUME NEW got, Step(p, "commits", got)
          PROVE  Plain(p)
      BY <2>1, <2>3, PlainStep
    <2>4. ASSUME NEW got, Step(p, "log", got)
          PROVE  Plain(p)
      BY <2>1, <2>4, PlainStep
    <2>5. QED
      BY <2>2, <2>3, <2>4
  <1>6. CASE ListCommits(p)
    <2>1. PICK got : Step(p, "log", got)
      BY <1>6 DEF ListCommits
    <2>2. at[p].pc = "commits"
      BY <1>6 DEF ListCommits
    <2>3. QED
      BY <2>1, <2>2, PlainStep
  <1>7. QED
    BY <1>4, <1>5, <1>6 DEF ReleaseReadsHandle

\* A step of a put: what a call goes on with has a file.
LEMMA PutStepKeeps ==
  ASSUME CallInv, NEW p \in Procs, at[p].pc \in PutSteps \cup LogSteps,
         NEW pc \in PutSteps \cup LogSteps, Step(p, pc, at[p].got), objects \subseteq objects',
         pc \in LogSteps /\ at[p].req.tool \in Evidencing => at[p].got \in objects',
         pc = "put_write" => at[p].got \in objects',
         pc \in {"log_write", "append"} => Output(p) \in objects',
         UNCHANGED <<secrets, audit, answers, admitted, calls, stored>>
  PROVE  CallInv'
  <1>1. /\ Shaped'
        /\ at'[p] = [pc |-> pc, call |-> at[p].call, req |-> at[p].req, got |-> at[p].got]
        /\ \A q \in Procs : q # p => at'[q] = at[q]
    BY StepTaken DEF CallInv
  <1>2. /\ at'[p].pc = pc /\ at'[p].call = at[p].call /\ at'[p].req = at[p].req
        /\ at'[p].got = at[p].got
    BY <1>1
  <1>3. Grows
    BY DEF Grows, CallInv, StoredOK
  <1>4. HandOK(p)'
    <2>1. at'[p].call \in 0 .. calls'
      BY <1>2 DEF CallInv, HandsOK, HandOK
    <2>2. Output(p)' = Output(p)
      BY <1>2 DEF Output
    <2>3. QED
      BY <1>2, <2>1, <2>2 DEF HandOK, EvidenceSteps, PutSteps, LogSteps
  <1>5. HandsOK'
    BY <1>1, <1>3, <1>4, HandKept DEF CallInv, HandsOK
  <1>6. StoredOK' /\ SecretsOK' /\ AdmittedOK' /\ ScansCarryTheirProfile' /\ Filed'
    BY DEF CallInv, StoredOK, SecretsOK, AdmittedOK, ScansCarryTheirProfile, Filed
  <1>7. QED
    BY <1>1, <1>5, <1>6 DEF CallInv

\* A stored document has its file before the call goes on to the log.
LEMMA PutDocumentKeeps ==
  ASSUME CallInv, NEW p \in Procs, PutDocument(p),
         UNCHANGED <<secrets, audit, answers, admitted, calls, stored>>
  PROVE  CallInv'
  <1>1. CASE at[p].pc = "put" /\ Exists(p, at[p].got, "put_open", "log")
    BY <1>1, PutStepKeeps DEF Exists, storeVars, PutSteps, LogSteps
  <1>2. CASE at[p].pc = "put_open" /\ Open(p, at[p].got, "put_write")
    BY <1>2, PutStepKeeps DEF Open, PutSteps, LogSteps
  <1>3. CASE at[p].pc = "put_write" /\ Write(p, at[p].got, "log")
    <2>1. at[p].got \in objects
      BY <1>3 DEF CallInv, HandsOK, HandOK
    <2>2. QED
      BY <1>3, <2>1, PutStepKeeps DEF Write, PutSteps, LogSteps
  <1>4. QED
    BY <1>1, <1>2, <1>3 DEF PutDocument

\* A call begins: every tool has its own first step.
LEMMA CallKeeps ==
  ASSUME CallInv, NEW p \in Procs, NEW r \in Requests \cup ParseRequests, Call(p, r)
  PROVE  CallInv'
  <1> DEFINE c == [pc |-> r.tool, call |-> calls + 1, req |-> r, got |-> None]
  <1>1. /\ at' = [at EXCEPT ![p] = c] /\ calls' = calls + 1
        /\ UNCHANGED <<secrets, objects, audit, answers, admitted, stored>>
    BY DEF Call, credentialVars, storeVars
  <1>2. r.tool \in {"list_runs", "fetch_evidence", "parse_findings", "generate_notes",
                    "start_scan", "list_receipts", "core"}
    BY RuntimeAssumption DEF ParseRequests
  <1>3. r.tool = "start_scan" => r.auth \in Names \cup {None}
    BY RuntimeAssumption DEF ParseRequests
  <1>4. /\ Shaped' /\ at'[p] = c
        /\ \A q \in Procs : q # p => at'[q] = at[q]
    BY <1>1 DEF CallInv, Shaped
  <1>5. Grows
    BY <1>1 DEF Grows, CallInv, StoredOK
  <1>6. HandOK(p)'
    <2>1. at'[p].call \in 0 .. calls'
      BY <1>1, <1>4 DEF CallInv, StoredOK
    <2>2. at'[p].pc = r.tool /\ at'[p].req = r
      BY <1>4
    <2>3. QED
      BY <2>1, <2>2, <1>2, <1>3 DEF HandOK, EvidenceSteps, PutSteps, LogSteps, Evidencing
  <1>7. HandsOK'
    BY <1>4, <1>5, <1>6, HandKept DEF CallInv, HandsOK
  <1>8. StoredOK'
    BY <1>1 DEF CallInv, StoredOK
  <1>9. SecretsOK' /\ AdmittedOK' /\ ScansCarryTheirProfile' /\ Filed'
    BY <1>1 DEF CallInv, StoredOK, SecretsOK, AdmittedOK, ScansCarryTheirProfile, Filed
  <1>10. QED
    BY <1>4, <1>7, <1>8, <1>9 DEF CallInv

\* The lookup finds what is stored under the name, or that nothing ever was.
LEMMA ScanLookupKeeps ==
  ASSUME CallInv, NEW p \in Procs, ScanLookup(p)
  PROVE  CallInv'
  <1> DEFINE row == IF at[p].req.auth = None THEN NoProfile ELSE secrets[at[p].req.auth]
  <1>1. /\ at[p].pc = "lookup" /\ Step(p, "decrypt", row)
        /\ UNCHANGED <<secrets, objects, audit, answers, admitted, calls, stored>>
    BY DEF ScanLookup, credentialVars, callVars, storeVars
  <1> HIDE DEF row
  <1>2. /\ Shaped'
        /\ at'[p] = [pc |-> "decrypt", call |-> at[p].call, req |-> at[p].req, got |-> row]
        /\ \A q \in Procs : q # p => at'[q] = at[q]
    BY <1>1, StepTaken DEF CallInv
  <1>3. HandOK(p) /\ at[p].req.auth \in Names \cup {None}
    BY <1>1 DEF CallInv, HandsOK, HandOK
  <1>4. LookedUp(at[p].req.auth, row, at[p].call)
    <2>1. CASE at[p].req.auth = None
      <3>1. \A w \in stored : w.name # None
        BY RuntimeAssumption DEF CallInv, StoredOK
      <3>2. QED
        BY <2>1, <3>1 DEF LookedUp, row
    <2>2. CASE at[p].req.auth # None
      BY <2>2, <1>3 DEF LookedUp, row, CallInv, SecretsOK
    <2>3. QED
      BY <2>1, <2>2
  <1>5. Grows
    BY <1>1 DEF Grows, CallInv, StoredOK
  <1>6. HandOK(p)'
    <2>1. /\ at'[p].pc = "decrypt" /\ at'[p].call = at[p].call /\ at'[p].req = at[p].req
          /\ at'[p].got = row
      BY <1>2
    <2>2. at'[p].call \in 0 .. calls'
      BY <2>1, <1>1, <1>3 DEF HandOK
    <2>3. LookedUp(at[p].req.auth, at[p].got, at[p].call)'
      BY <2>1, <1>1, <1>4 DEF LookedUp
    <2>4. at'[p].req.tool \notin Evidencing
      BY <2>1, <1>1, <1>3 DEF HandOK, EvidenceSteps, PutSteps, LogSteps, Evidencing
    <2>5. QED
      BY <2>1, <2>2, <2>3, <2>4, <1>3 DEF HandOK
  <1>7. HandsOK'
    BY <1>2, <1>5, <1>6, HandKept DEF CallInv, HandsOK
  <1>8. StoredOK' /\ SecretsOK' /\ AdmittedOK' /\ ScansCarryTheirProfile' /\ Filed'
    BY <1>1 DEF CallInv, StoredOK, SecretsOK, AdmittedOK, ScansCarryTheirProfile, Filed
  <1>9. QED
    BY <1>2, <1>7, <1>8 DEF CallInv

\* The key that is in the file by now only decides whether the scan goes on.
LEMMA ScanAdmitKeeps ==
  ASSUME CallInv, NEW p \in Procs, ScanAdmit(p)
  PROVE  CallInv'
  <1> DEFINE row == at[p].got
             s == [call |-> at[p].call, name |-> at[p].req.auth, auth |-> ProfileOf(row)]
             under == {w \in stored : w.name = at[p].req.auth}
  <1>1. /\ at[p].pc = "decrypt"
        /\ UNCHANGED <<secrets, objects, audit, answers, calls, stored>>
    BY DEF ScanAdmit, credentialVars, storeVars
  <1>2. CASE Fails(p) /\ UNCHANGED admitted
    BY <1>1, <1>2, PlainFail, PlainKeeps DEF CallInv
  <1>3. CASE Admit(p, ProfileOf(row))
    <2>1. Step(p, "log", [job |-> at[p].call]) /\ admitted' = admitted \cup {s}
      BY <1>3 DEF Admit
    <2>2. HandOK(p)
      BY DEF CallInv, HandsOK
    <2>3. LookedUp(at[p].req.auth, row, at[p].call) /\ s.call \in 0 .. calls
      BY <1>1, <2>2 DEF HandOK
    <2>4. s.auth = NoProfile /\ (\E w \in under : w.calls < s.call) =>
              \E w \in under : w.profile \notin Objects
      <3>1. CASE row = NoProfile
        BY <3>1, <2>3 DEF LookedUp
      <3>2. CASE row # NoProfile
        <4>1. PICK w \in stored : w.name = at[p].req.auth /\ w.profile = row.profile
          BY <3>2, <2>3 DEF LookedUp
        <4>2. s.auth = NoProfile => row.profile \notin Objects
          BY <3>2, CredentialsAssumption DEF ProfileOf
        <4>3. QED
          BY <4>1, <4>2
      <3>3. QED
        BY <3>1, <3>2
    <2>5. s.auth # NoProfile => \E w \in under : w.profile = s.auth
      BY <2>3 DEF LookedUp, ProfileOf
    <2>6. ScansCarryTheirProfile'
      <3> SUFFICES ASSUME NEW t \in admitted'
                   PROVE  LET of == {w \in stored : w.name = t.name} IN
                          IF t.auth = NoProfile
                          THEN (\E w \in of : w.calls < t.call) =>
                                  \E w \in of : w.profile \notin Objects
                          ELSE \E w \in of : w.profile = t.auth
        BY <1>1 DEF ScansCarryTheirProfile
      <3>1. CASE t = s
        BY <3>1, <2>4, <2>5
      <3>2. CASE t \in admitted
        BY <3>2 DEF CallInv, ScansCarryTheirProfile
      <3>3. QED
        BY <3>1, <3>2, <2>1
    <2>7. AdmittedOK'
      BY <1>1, <2>1, <2>3 DEF CallInv, AdmittedOK
    <2>8. /\ Shaped'
          /\ at'[p] = [pc |-> "log", call |-> at[p].call, req |-> at[p].req,
                       got |-> [job |-> at[p].call]]
          /\ \A q \in Procs : q # p => at'[q] = at[q]
      BY <2>1, StepTaken DEF CallInv
    <2>9. Grows
      BY <1>1 DEF Grows, CallInv, StoredOK
    <2>10. HandOK(p)'
      <3>1. at'[p].pc = "log" /\ at'[p].call = at[p].call /\ at'[p].req = at[p].req
        BY <2>8
      <3>2. at'[p].call \in 0 .. calls'
        BY <3>1, <1>1, <2>2 DEF HandOK
      <3>3. at'[p].req.tool \notin Evidencing
        BY <3>1, <1>1, <2>2 DEF HandOK, EvidenceSteps, PutSteps, LogSteps, Evidencing
      <3>4. QED
        BY <3>1, <3>2, <3>3 DEF HandOK
    <2>11. HandsOK'
      BY <2>8, <2>9, <2>10, HandKept DEF CallInv, HandsOK
    <2>12. StoredOK' /\ SecretsOK' /\ Filed'
      BY <1>1 DEF CallInv, StoredOK, SecretsOK, Filed
    <2>13. QED
      BY <2>6, <2>7, <2>8, <2>11, <2>12 DEF CallInv
  <1>4. QED
    BY <1>2, <1>3 DEF ScanAdmit

\* The output is stored before the audit row that refers to it.
LEMMA LogPutKeeps ==
  ASSUME CallInv, NEW p \in Procs, LogPut(p)
  PROVE  CallInv'
  <1>1. UNCHANGED <<secrets, audit, answers, admitted, calls, stored>>
    BY DEF LogPut, credentialVars, callVars
  <1>2. HandOK(p)
    BY DEF CallInv, HandsOK
  <1>3. CASE at[p].pc = "log" /\ Exists(p, Output(p), "log_open", "append")
    BY <1>1, <1>2, <1>3, PutStepKeeps DEF HandOK, Exists, storeVars, PutSteps, LogSteps, EvidenceSteps
  <1>4. CASE at[p].pc = "log_open" /\ Open(p, Output(p), "log_write")
    BY <1>1, <1>2, <1>4, PutStepKeeps DEF HandOK, Open, PutSteps, LogSteps, EvidenceSteps
  <1>5. CASE at[p].pc = "log_write" /\ Write(p, Output(p), "append")
    BY <1>1, <1>2, <1>5, PutStepKeeps DEF HandOK, Write, PutSteps, LogSteps, EvidenceSteps
  <1>6. QED
    BY <1>3, <1>4, <1>5 DEF LogPut

\* What is answered was stored and is appended first.
LEMMA LogAppendKeeps ==
  ASSUME CallInv, NEW p \in Procs, LogAppend(p)
  PROVE  CallInv'
  <1> DEFINE c == at[p]
             row == [call |-> c.call, req |-> c.req, ref |-> Output(p)]
             answer == [call |-> c.call, req |-> c.req, output |-> c.got]
  <1>1. /\ c.pc = "append" /\ Fails(p)
        /\ audit' = audit \cup {row} /\ answers' = answers \cup {answer}
        /\ UNCHANGED <<secrets, objects, admitted, calls, stored>>
    BY DEF LogAppend, credentialVars, storeVars
  <1>2. Output(p) \in objects /\ (c.req.tool \in Evidencing => c.got \in objects)
    BY <1>1 DEF CallInv, HandsOK, HandOK, LogSteps
  <1>3. Filed'
    <2> SUFFICES ASSUME NEW a \in answers'
                 PROVE  /\ \E w \in audit' :
                             /\ w.call = a.call /\ w.req = a.req
                             /\ w.ref = [tool |-> a.req.tool, output |-> Logged(a.req, a.output)]
                             /\ w.ref \in objects
                        /\ a.req.tool \in Evidencing => a.output \in objects
      BY <1>1 DEF Filed, Logged
    <2>1. CASE a = answer
      <3>1. row \in audit' /\ row.call = a.call /\ row.req = a.req /\ row.ref = Output(p)
        BY <2>1, <1>1
      <3>2. a.output = c.got /\ a.req = c.req
        BY <2>1
      <3>3. row.ref = [tool |-> a.req.tool, output |-> Logged(a.req, a.output)]
        BY <3>1, <3>2 DEF Output
      <3>4. QED
        BY <3>1, <3>2, <3>3, <1>2
    <2>2. CASE a \in answers
      BY <2>2, <1>1 DEF CallInv, Filed
    <2>3. QED
      BY <2>1, <2>2, <1>1
  <1>4. Shaped' /\ at'[p] = Idle /\ \A q \in Procs : q # p => at'[q] = at[q]
    BY <1>1, FailTaken DEF CallInv
  <1>5. Grows
    BY <1>1 DEF Grows, CallInv, StoredOK
  <1>6. HandOK(p)'
    <2>1. at'[p].pc = "idle" /\ at'[p].call = 0 /\ calls' \in Nat
      BY <1>4, <1>5 DEF Idle, Grows
    <2>2. QED
      BY <2>1 DEF HandOK
  <1>7. HandsOK'
    BY <1>4, <1>5, <1>6, HandKept DEF CallInv, HandsOK
  <1>8. StoredOK' /\ SecretsOK' /\ AdmittedOK' /\ ScansCarryTheirProfile'
    BY <1>1 DEF CallInv, StoredOK, SecretsOK, AdmittedOK, ScansCarryTheirProfile
  <1>9. QED
    BY <1>3, <1>4, <1>7, <1>8 DEF CallInv

\* A credential that is stored now was not there for the calls under way.
LEMMA StoreCredentialKeeps ==
  ASSUME CredentialsTypeOK, CallInv, NEW p \in Procs, StoreCredential(p)
  PROVE  CallInv'
  <1>1. PICK n \in Names, v \in Profiles :
            /\ Store(p, n, v)
            /\ stored' = stored \cup {[name |-> n, profile |-> v, calls |-> calls]}
    BY DEF StoreCredential
  <1> DEFINE new == [name |-> n, profile |-> v, calls |-> calls]
             row == [key |-> keyfile.key, profile |-> v, settled |-> Settled]
  <1>2. UNCHANGED <<at, objects, audit, answers, admitted, calls>>
    BY DEF StoreCredential, storeVars
  <1>3. secrets' = [secrets EXCEPT ![n] = row] /\ row # NoProfile
    <2>1. row \in [key : Nat, profile : Profiles, settled : BOOLEAN]
      BY DEF CredentialsTypeOK, Settled
    <2>2. QED
      BY <1>1, <2>1, CredentialsAssumption DEF Store
  <1>4. Grows /\ StoredOK'
    BY <1>1, <1>2 DEF Grows, CallInv, StoredOK
  <1>5. HandsOK'
    BY <1>2, <1>4, HandKept DEF CallInv, HandsOK
  <1>6. SecretsOK'
    <2> SUFFICES ASSUME NEW m \in Names
                 PROVE  IF secrets'[m] = NoProfile
                        THEN \A w \in stored' : w.name # m
                        ELSE \E w \in stored' : w.name = m /\ w.profile = secrets'[m].profile
      BY DEF SecretsOK
    <2>1. CASE m = n
      <3>1. secrets'[m] = row
        BY <2>1, <1>3 DEF CredentialsTypeOK
      <3>2. new \in stored' /\ new.name = m /\ new.profile = row.profile
        BY <2>1, <1>1
      <3>3. QED
        BY <3>1, <3>2, <1>3
    <2>2. CASE m # n
      <3>1. secrets'[m] = secrets[m] /\ new.name # m
        BY <2>2, <1>3 DEF CredentialsTypeOK
      <3>2. QED
        BY <3>1, <1>1 DEF CallInv, SecretsOK
    <2>3. QED
      BY <2>1, <2>2
  <1>7. ScansCarryTheirProfile'
    <2> SUFFICES ASSUME NEW s \in admitted
                 PROVE  LET under == {w \in stored' : w.name = s.name} IN
                        IF s.auth = NoProfile
                        THEN (\E w \in under : w.calls < s.call) =>
                                \E w \in under : w.profile \notin Objects
                        ELSE \E w \in under : w.profile = s.auth
      BY <1>2 DEF ScansCarryTheirProfile
    <2>1. ~(new.calls < s.call)
      BY DEF CallInv, AdmittedOK, StoredOK
    <2>2. QED
      BY <2>1, <1>1 DEF CallInv, ScansCarryTheirProfile
  <1>8. Shaped' /\ AdmittedOK' /\ Filed'
    BY <1>2 DEF CallInv, Shaped, AdmittedOK, Filed
  <1>9. QED
    BY <1>4, <1>5, <1>6, <1>7, <1>8 DEF CallInv

\* Every step of the runtime preserves what calls have in hand.
LEMMA NextKeeps == CredentialsTypeOK /\ CallInv /\ [Next]_vars => CallInv'
  <1> SUFFICES ASSUME CredentialsTypeOK, CallInv, [Next]_vars PROVE CallInv'
    OBVIOUS
  <1>1. CASE UNCHANGED vars
    BY <1>1, OthersKeep DEF vars, credentialVars, callVars, storeVars
  <1>2. CASE GitHubChanges
    <2>1. UNCHANGED <<at, objects>>
      BY <1>2 DEF GitHubChanges, AuditLensWorld, Upload, Expire, ReleaseReadsWorld,
                  Push, Publish, Unpublish, storeVars
    <2>2. QED
      BY <1>2, <2>1, OthersKeep DEF GitHubChanges, credentialVars
  <1>3. ASSUME NEW p \in Procs, Handle(p)
        PROVE  CallInv'
    <2>1. CASE AuditLensHandle(p) /\ UNCHANGED <<credentialVars, releaseVars, callVars>>
      <3>1. UNCHANGED <<secrets, audit, answers, admitted, calls, stored>>
        BY <2>1 DEF credentialVars, callVars
      <3>2. QED
        BY <2>1, <3>1, AuditLensPlain, PlainKeeps, PutDocumentKeeps DEF AuditLensHandle
    <2>2. CASE ReleaseReadsHandle(p) /\ UNCHANGED <<credentialVars, lensVars, callVars, storeVars>>
      <3>1. UNCHANGED <<objects, secrets, audit, answers, admitted, calls, stored>>
        BY <2>2 DEF credentialVars, callVars, storeVars
      <3>2. QED
        BY <2>2, <3>1, ReleaseReadsPlain, PlainKeeps
    <2>3. CASE ScanPolicy(p)
      <3>1. Plain(p)
        BY <2>3, PlainStep, PlainFail DEF ScanPolicy, CallInv, EvidenceSteps, PutSteps, LogSteps,
                                          Evidencing
      <3>2. QED
        BY <2>3, <3>1, PlainKeeps DEF ScanPolicy, credentialVars, callVars, storeVars
    <2>4. CASE ReadOnly(p) \/ ListReceipts(p)
      <3>1. /\ at[p].pc \in {"core", "list_receipts"}
            /\ Fails(p) \/ \E got : Step(p, "log", got)
            /\ UNCHANGED <<credentialVars, callVars, storeVars>>
        BY <2>4 DEF ReadOnly, ListReceipts
      <3>2. Plain(p)
        BY <3>1, PlainStep, PlainFail DEF CallInv, EvidenceSteps, PutSteps, LogSteps, Evidencing
      <3>3. QED
        BY <3>1, <3>2, PlainKeeps DEF credentialVars, callVars, storeVars
    <2>5. QED
      BY <1>3, <2>1, <2>2, <2>3, <2>4, ScanLookupKeeps, ScanAdmitKeeps, LogPutKeeps,
         LogAppendKeeps DEF Handle
  <1>4. ASSUME NEW p \in Procs, CallRaises(p)
        PROVE  CallInv'
    <2>1. Plain(p)
      <3>1. CASE at[p].pc = "compare"
        BY <3>1, <1>4, PlainStep DEF CallRaises, CallInv, EvidenceSteps, PutSteps, LogSteps,
                                     Evidencing
      <3>2. CASE at[p].pc # "compare"
        BY <3>2, <1>4, PlainFail DEF CallRaises, CallInv
      <3>3. QED
        BY <3>1, <3>2
    <2>2. QED
      BY <1>4, <2>1, PlainKeeps DEF CallRaises, credentialVars, storeVars
  <1>5. ASSUME NEW p \in Procs, Boot(p)
        PROVE  CallInv'
    <2>1. secrets' = secrets
      BY <1>5 DEF Boot, Start, OpenKeyFile, WriteKey
    <2>2. QED
      BY <1>5, <2>1, OthersKeep DEF Boot, callVars, storeVars
  <1>6. ASSUME NEW p \in Procs, Crash(p)
        PROVE  CallInv'
    <2>1. Plain(p) /\ secrets' = secrets
      BY <1>6, PlainFail DEF Crash, Stop, CallInv
    <2>2. QED
      BY <1>6, <2>1, PlainKeeps DEF Crash, storeVars
  <1>7. QED
    BY <1>1, <1>2, <1>3, <1>4, <1>5, <1>6, CallKeeps, StoreCredentialKeeps DEF Next

\* The inductive invariant of the runtime: what a call has in hand, what is
\* stored, and what was answered and admitted agree.
THEOREM RuntimeInvariant == Spec => []CallInv
  <1>1. Init => CallInv
    <2> SUFFICES ASSUME Init PROVE CallInv
      OBVIOUS
    <2>1. /\ at = [p \in Procs |-> Idle] /\ calls = 0
          /\ answers = {} /\ admitted = {} /\ stored = {}
          /\ secrets = [n \in Names |-> NoProfile]
      BY DEF Init, CredentialsInit
    <2>2. Shaped
      BY <2>1 DEF Shaped, Idle
    <2>3. HandsOK
      <3> SUFFICES ASSUME NEW p \in Procs PROVE HandOK(p)
        BY DEF HandsOK
      <3>1. at[p].pc = "idle" /\ at[p].call = 0
        BY <2>1 DEF Idle
      <3>2. QED
        BY <2>1, <3>1 DEF HandOK
    <2>4. QED
      BY <2>1, <2>2, <2>3 DEF CallInv, StoredOK, SecretsOK, AdmittedOK, ScansCarryTheirProfile,
                              Filed
  <1>2. Spec => []CredentialsTypeOK
    BY RuntimeImplementsCredentials, CredentialsTypes, PTL
  <1>3. QED
    BY <1>1, <1>2, NextKeeps, PTL DEF Spec

\* A process that is in the middle of no put, or whose put is accounted for.
Accounted(p) ==
    Writing(p) => Document(p) \notin torn' \/ Document(p) \in interrupted'
                  \/ (Writing(p)' /\ Document(p)' = Document(p))

\* Which step of a call a process is at, and the document that comes with it.
LEMMA WritingKept ==
  ASSUME NEW q \in Procs, at'[q] = at[q]
  PROVE  (Writing(q)' <=> Writing(q)) /\ Document(q)' = Document(q)
  BY DEF Writing, Document, Output

\* Nothing is torn but what one process is at, and that is accounted for.
LEMMA TornKept ==
  ASSUME TornOK, NEW p \in Procs, Accounted(p), \A q \in Procs : q # p => at'[q] = at[q],
         \A d \in torn' \ torn : Writing(p)' /\ Document(p)' = d,
         interrupted \subseteq interrupted'
  PROVE  TornOK'
  <1> SUFFICES ASSUME NEW d \in torn', d \notin interrupted'
               PROVE  \E q \in Procs : Writing(q)' /\ Document(q)' = d
    BY DEF TornOK
  <1>1. CASE d \notin torn
    BY <1>1
  <1>2. CASE d \in torn
    <2>1. PICK q \in Procs : Writing(q) /\ Document(q) = d
      BY <1>2 DEF TornOK
    <2>2. CASE q = p
      BY <2>1, <2>2 DEF Accounted
    <2>3. CASE q # p
      BY <2>1, <2>3, WritingKept
    <2>4. QED
      BY <2>2, <2>3
  <1>3. QED
    BY <1>1, <1>2

\* The three steps of a put leave a file torn only while they are under way.
LEMMA PutTorn ==
  ASSUME Shaped, TornOK, NEW p \in Procs, LogPut(p) \/ PutDocument(p), UNCHANGED interrupted
  PROVE  TornOK'
  <1>1. CASE at[p].pc = "log" /\ Exists(p, Output(p), "log_open", "append")
    <2>1. ~Writing(p) /\ torn' = torn /\ \A q \in Procs : q # p => at'[q] = at[q]
      BY <1>1, StepTaken DEF Exists, Writing, storeVars
    <2>2. QED
      BY <2>1, TornKept DEF Accounted
  <1>2. CASE at[p].pc = "put" /\ Exists(p, at[p].got, "put_open", "log")
    <2>1. ~Writing(p) /\ torn' = torn /\ \A q \in Procs : q # p => at'[q] = at[q]
      BY <1>2, StepTaken DEF Exists, Writing, storeVars
    <2>2. QED
      BY <2>1, TornKept DEF Accounted
  <1>3. CASE at[p].pc = "log_open" /\ Open(p, Output(p), "log_write")
    <2>1. /\ at'[p] = [pc |-> "log_write", call |-> at[p].call, req |-> at[p].req,
                       got |-> at[p].got]
          /\ \A q \in Procs : q # p => at'[q] = at[q]
      BY <1>3, StepTaken DEF Open
    <2>2. at'[p].pc = "log_write" /\ at'[p].req = at[p].req /\ at'[p].got = at[p].got
      BY <2>1
    <2>3. Writing(p)' /\ Document(p)' = Output(p) /\ ~Writing(p)
      BY <2>2, <1>3 DEF Writing, Document, Output
    <2>4. torn' = torn \cup {Output(p)}
      BY <1>3 DEF Open
    <2>5. QED
      BY <2>1, <2>3, <2>4, TornKept DEF Accounted
  <1>4. CASE at[p].pc = "put_open" /\ Open(p, at[p].got, "put_write")
    <2>1. /\ at'[p] = [pc |-> "put_write", call |-> at[p].call, req |-> at[p].req,
                       got |-> at[p].got]
          /\ \A q \in Procs : q # p => at'[q] = at[q]
      BY <1>4, StepTaken DEF Open
    <2>2. at'[p].pc = "put_write" /\ at'[p].got = at[p].got
      BY <2>1
    <2>3. Writing(p)' /\ Document(p)' = at[p].got /\ ~Writing(p)
      BY <2>2, <1>4 DEF Writing, Document
    <2>4. torn' = torn \cup {at[p].got}
      BY <1>4 DEF Open
    <2>5. QED
      BY <2>1, <2>3, <2>4, TornKept DEF Accounted
  <1>5. CASE at[p].pc = "log_write" /\ Write(p, Output(p), "append")
    <2>1. Document(p) = Output(p) /\ torn' = torn \ {Output(p)}
      BY <1>5 DEF Document, Write
    <2>2. \A q \in Procs : q # p => at'[q] = at[q]
      BY <1>5, StepTaken DEF Write
    <2>3. QED
      BY <2>1, <2>2, TornKept DEF Accounted
  <1>6. CASE at[p].pc = "put_write" /\ Write(p, at[p].got, "log")
    <2>1. Document(p) = at[p].got /\ torn' = torn \ {at[p].got}
      BY <1>6 DEF Document, Write
    <2>2. \A q \in Procs : q # p => at'[q] = at[q]
      BY <1>6, StepTaken DEF Write
    <2>3. QED
      BY <2>1, <2>2, TornKept DEF Accounted
  <1>7. QED
    BY <1>1, <1>2, <1>3, <1>4, <1>5, <1>6 DEF LogPut, PutDocument

\* A step of a process that is in the middle of no put, and tears nothing.
LEMMA QuietTorn ==
  ASSUME TornOK, NEW p \in Procs, ~Writing(p), \A q \in Procs : q # p => at'[q] = at[q],
         UNCHANGED <<torn, interrupted>>
  PROVE  TornOK'
  BY TornKept DEF Accounted

\* The end of a call, or a step of it, after which its document is interrupted.
LEMMA InterruptTorn ==
  ASSUME TornOK, NEW p \in Procs, Interrupts(p), \A q \in Procs : q # p => at'[q] = at[q],
         UNCHANGED torn
  PROVE  TornOK'
  BY TornKept DEF Accounted, Interrupts

\* Nor does a step that leaves the calls alone.
LEMMA OthersTorn ==
  ASSUME TornOK, UNCHANGED <<at, torn, interrupted>>
  PROVE  TornOK'
  BY WritingKept DEF TornOK

\* Every other step of a tool is at none of the steps of a put.
LEMMA HandleTorn ==
  ASSUME Shaped, TornOK, NEW p \in Procs, Handle(p)
  PROVE  TornOK'
  <1>1. CASE LogPut(p) \/ (PutDocument(p) /\ UNCHANGED callVars)
    BY <1>1, PutTorn DEF LogPut, callVars
  <1>2. CASE /\ ListRuns(p) \/ ListArtifacts(p) \/ Download(p) \/ ParseFindings(p)
             /\ UNCHANGED callVars
    <2>1. ~Writing(p) /\ (Fails(p) \/ \E pc, got : Step(p, pc, got)) /\ torn' = torn
      BY <1>2 DEF ListRuns, ListArtifacts, Download, ParseFindings, Writing, storeVars
    <2>2. QED
      BY <1>2, <2>1, StepTaken, FailTaken, QuietTorn DEF callVars
  <1>3. CASE ReleaseReadsHandle(p) /\ UNCHANGED <<callVars, storeVars>>
    <2>1. ~Writing(p) /\ \E pc, got : Step(p, pc, got)
      BY <1>3 DEF ReleaseReadsHandle, ListReleases, CompareCommits, ListCommits, Writing
    <2>2. QED
      BY <1>3, <2>1, StepTaken, QuietTorn DEF callVars, storeVars
  <1>4. CASE ScanPolicy(p) \/ ScanLookup(p) \/ ScanAdmit(p) \/ ListReceipts(p) \/ ReadOnly(p)
             \/ LogAppend(p)
    <2>1. ~Writing(p) /\ (Fails(p) \/ \E pc, got : Step(p, pc, got))
          /\ UNCHANGED <<interrupted, storeVars>>
      BY <1>4 DEF ScanPolicy, ScanLookup, ScanAdmit, Admit, ListReceipts, ReadOnly, LogAppend,
                  Writing, callVars
    <2>2. QED
      BY <2>1, StepTaken, FailTaken, QuietTorn DEF storeVars
  <1>5. QED
    BY <1>1, <1>2, <1>3, <1>4 DEF Handle, AuditLensHandle

\* A file stays torn only through an interruption.
LEMMA NextTorn == Shaped /\ TornOK /\ [Next]_vars => TornOK'
  <1> SUFFICES ASSUME Shaped, TornOK, [Next]_vars PROVE TornOK'
    OBVIOUS
  <1>1. CASE UNCHANGED vars
    BY <1>1, OthersTorn DEF vars, callVars, storeVars
  <1>2. CASE GitHubChanges
    BY <1>2, OthersTorn DEF GitHubChanges, AuditLensWorld, Upload, Expire, ReleaseReadsWorld,
                            Push, Publish, Unpublish, storeVars
  <1>3. ASSUME NEW p \in Procs, \E r \in Requests \cup ParseRequests : Call(p, r)
        PROVE  TornOK'
    BY <1>3, QuietTorn DEF Call, Idle, Writing, Shaped, storeVars
  <1>4. ASSUME NEW p \in Procs, CallRaises(p)
        PROVE  TornOK'
    BY <1>4, StepTaken, FailTaken, InterruptTorn DEF CallRaises, storeVars
  <1>5. ASSUME NEW p \in Procs, Boot(p) \/ StoreCredential(p)
        PROVE  TornOK'
    BY <1>5, OthersTorn DEF Boot, StoreCredential, callVars, storeVars
  <1>6. ASSUME NEW p \in Procs, Crash(p)
        PROVE  TornOK'
    BY <1>6, FailTaken, InterruptTorn DEF Crash, storeVars
  <1>7. QED
    BY <1>1, <1>2, <1>3, <1>4, <1>5, <1>6, HandleTorn DEF Next

\* Whatever a client was told is in the audit log under its call, with a
\* reference to the output (of receipts, the count) that reads back unless a put
\* of that very document is under way or was interrupted.
THEOREM RuntimeAnswersAreLogged == Spec => []AnswersAreLogged
  <1>1. Init => TornOK
    BY DEF Init, TornOK
  <1>2. CallInv => Shaped
    BY DEF CallInv
  <1>3. CallInv /\ TornOK => AnswersAreLogged
    BY DEF CallInv, Filed, TornOK, AnswersAreLogged, ReadsBack, Evidencing
  <1>4. QED
    BY RuntimeInvariant, NextTorn, <1>1, <1>2, <1>3, PTL DEF Spec

\* start_scan goes on with the profile that is named or not at all.
THEOREM RuntimeScansCarryTheirProfile == Spec => []ScansCarryTheirProfile
  <1>1. CallInv => ScansCarryTheirProfile
    BY DEF CallInv
  <1>2. QED
    BY RuntimeInvariant, <1>1, PTL

-----------------------------------------------------------------------------
(* Numbers, sequences and loops                                            *)

\* A set of numbers that is not empty has a least one: what holds up to n
\* for every n is proved by looking at the least number it fails for.
LEMMA LeastNumber ==
  ASSUME NEW T \in SUBSET Nat, T # {}
  PROVE  \E x \in T : \A y \in T : x <= y
  <1>1. PICK x \in T : \A y \in T : ~(<<y, x>> \in OpToRel(<, Nat))
    BY WFMin, NatLessThanWellFounded
  <1>2. ASSUME NEW y \in T PROVE x <= y
    <2>1. ~(y < x)
      BY <1>1 DEF OpToRel
    <2>2. QED
      BY <2>1
  <1>3. QED
    BY <1>2

\* Induction: a set of numbers that has 0, and each number whose predecessor
\* it has, has them all.
LEMMA Induction ==
  ASSUME NEW len \in Nat, NEW G, 0 \in G, \A n \in 1 .. len : n - 1 \in G => n \in G
  PROVE  \A n \in 0 .. len : n \in G
  <1> DEFINE T == {n \in 0 .. len : n \notin G}
  <1> SUFFICES ASSUME T # {} PROVE FALSE
    OBVIOUS
  <1>1. T \in SUBSET Nat
    OBVIOUS
  <1>2. PICK l \in T : \A m \in T : l <= m
    <2> HIDE DEF T
    <2>1. QED
      BY <1>1, LeastNumber
  <1>3. l \in 0 .. len /\ l \notin G
    OBVIOUS
  <1>4. l \in 1 .. len /\ l - 1 \in 0 .. len /\ ~(l <= l - 1)
    BY <1>3
  <1>5. l - 1 \in G
    BY <1>2, <1>4
  <1>6. QED
    BY <1>3, <1>4, <1>5

\* The community modules' Min is that least number.
LEMMA MinIs ==
  ASSUME NEW n \in Nat, NEW T \in SUBSET (1 .. n), T # {}
  PROVE  Min(T) \in T /\ \A y \in T : Min(T) <= y
  <1>1. \E x \in T : \A y \in T : x <= y
    BY LeastNumber
  <1>2. QED
    BY <1>1 DEF Min

\* A set of numbers with a bound has a greatest one, their Max.
LEMMA MaxIs ==
  ASSUME NEW n \in Nat, NEW T \in SUBSET (1 .. n), T # {}
  PROVE  Max(T) \in T /\ \A y \in T : y <= Max(T)
  <1> DEFINE U == {m \in Nat : \A y \in T : y <= m}
  <1>1. n \in U
    OBVIOUS
  <1>2. PICK x \in U : \A y \in U : x <= y
    BY <1>1, LeastNumber
  <1>3. x \in T
    <2> SUFFICES ASSUME x \notin T PROVE FALSE
      OBVIOUS
    <2>1. x # 0
      <3>1. PICK t \in T : TRUE
        OBVIOUS
      <3>2. t >= 1 /\ t <= x
        OBVIOUS
      <3>3. QED
        BY <3>2
    <2>2. x - 1 \in U
      BY <2>1
    <2>3. QED
      BY <2>2, <1>2
  <1>4. \A y \in T : x >= y
    OBVIOUS
  <1> HIDE DEF U
  <1>5. QED
    BY <1>3, <1>4 DEF Max

\* Some function starts at v and makes the steps of g.
Stepwise(V, v, len, g) ==
    \E f \in [0 .. len -> V] : f[0] = v /\ \A n \in 1 .. len : f[n] = g[n][f[n - 1]]

\* It does if those steps stay in V.
LEMMA StepwiseExists ==
  ASSUME NEW V, NEW v \in V, NEW len \in Nat, NEW g \in [1 .. len -> [V -> V]]
  PROVE  Stepwise(V, v, len, g)
  <1> DEFINE Built(l) == \E f \in [0 .. l -> V] :
                            f[0] = v /\ \A n \in 1 .. l : f[n] = g[n][f[n - 1]]
             G == {l \in 0 .. len : Built(l)}
  <1>1. 0 \in G
    <2> DEFINE h == [n \in 0 .. 0 |-> v]
    <2>1. h \in [0 .. 0 -> V] /\ h[0] = v /\ 1 .. 0 = {}
      OBVIOUS
    <2> HIDE DEF h
    <2>2. QED
      BY <2>1
  <1>2. ASSUME NEW l \in 1 .. len, l - 1 \in G
        PROVE  l \in G
    <2>1. PICK f \in [0 .. l - 1 -> V] :
             f[0] = v /\ \A n \in 1 .. l - 1 : f[n] = g[n][f[n - 1]]
      BY <1>2
    <2> DEFINE h == [n \in 0 .. l |-> IF n = l THEN g[l][f[l - 1]] ELSE f[n]]
    <2>2. f[l - 1] \in V
      BY <2>1
    <2>3. g[l][f[l - 1]] \in V
      BY <2>2
    <2>4. h \in [0 .. l -> V]
      BY <2>1, <2>3
    <2>5. h[0] = v
      BY <2>1
    <2>6. ASSUME NEW n \in 1 .. l PROVE h[n] = g[n][h[n - 1]]
      <3>1. n \in 0 .. l /\ n - 1 \in 0 .. l /\ n - 1 # l
        OBVIOUS
      <3>2. h[n - 1] = f[n - 1]
        BY <3>1
      <3>3. CASE n = l
        BY <3>1, <3>2, <3>3
      <3>4. CASE n # l
        <4>1. n \in 1 .. l - 1
          BY <3>4
        <4>2. h[n] = f[n]
          BY <3>1, <3>4
        <4>3. QED
          BY <4>1, <4>2, <3>2, <2>1
      <3>5. QED
        BY <3>3, <3>4
    <2> HIDE DEF h
    <2>7. Built(l)
      BY <2>4, <2>5, <2>6
    <2> HIDE DEF Built
    <2>8. QED
      BY <2>7
  <1>3. Built(len)
    <2>1. \A n \in 0 .. len : n \in G
      <3> HIDE DEF G
      <3>1. QED
        BY <1>1, <1>2, Induction
    <2>2. len \in G
      <3> HIDE DEF G
      <3>1. QED
        BY <2>1
    <2> HIDE DEF Built
    <2>3. QED
      BY <2>2
  <1>4. QED
    BY <1>3 DEF Stepwise

\* A function on 1 .. n is a sequence of its values.
LEMMA IsSequence ==
  ASSUME NEW n \in Nat, NEW f, f = [i \in 1 .. n |-> f[i]]
  PROVE  f \in Seq(ToSet(f)) /\ Len(f) = n /\ DOMAIN f = 1 .. n
  <1>1. DOMAIN f = 1 .. n /\ \A i \in 1 .. n : f[i] \in ToSet(f)
    BY DEF ToSet
  <1>2. f \in [1 .. n -> ToSet(f)]
    BY <1>1
  <1>3. QED
    BY <1>1, <1>2

\* The elements of a sequence and one more.
LEMMA ToSetAppend ==
  ASSUME NEW X, NEW s \in Seq(X), NEW e \in X
  PROVE  ToSet(Append(s, e)) = ToSet(s) \cup {e}
  <1> DEFINE t == Append(s, e)
  <1>1. /\ DOMAIN s = 1 .. Len(s) /\ DOMAIN t = 1 .. Len(s) + 1 /\ Len(s) \in Nat
        /\ \A n \in 1 .. Len(s) : t[n] = s[n]
        /\ t[Len(s) + 1] = e
    OBVIOUS
  <1> HIDE DEF t
  <1>2. \A n \in 1 .. Len(s) + 1 : n \in 1 .. Len(s) \/ n = Len(s) + 1
    BY <1>1
  <1>3. ToSet(t) \subseteq ToSet(s) \cup {e}
    BY <1>1, <1>2 DEF ToSet
  <1>4. ToSet(s) \cup {e} \subseteq ToSet(t)
    BY <1>1 DEF ToSet
  <1>5. QED
    BY <1>3, <1>4 DEF t

\* The elements of two sequences in a row.
LEMMA ToSetConcat ==
  ASSUME NEW X, NEW s \in Seq(X), NEW t \in Seq(X)
  PROVE  /\ s \o t \in Seq(X) /\ ToSet(s \o t) = ToSet(s) \cup ToSet(t)
         /\ \A n \in DOMAIN s : n \in DOMAIN (s \o t) /\ (s \o t)[n] = s[n]
  <1> DEFINE u == s \o t
  <1>1. /\ Len(s) \in Nat /\ DOMAIN s = 1 .. Len(s)
        /\ Len(t) \in Nat /\ DOMAIN t = 1 .. Len(t)
        /\ DOMAIN u = 1 .. Len(s) + Len(t) /\ u \in Seq(X)
        /\ \A n \in 1 .. Len(s) : u[n] = s[n]
        /\ \A n \in 1 .. Len(t) : u[n + Len(s)] = t[n]
    BY ConcatProperties
  <1> HIDE DEF u
  <1>2. \A n \in 1 .. Len(s) : n \in 1 .. Len(s) + Len(t)
    BY <1>1
  <1>3. \A n \in 1 .. Len(t) : n + Len(s) \in 1 .. Len(s) + Len(t)
    BY <1>1
  <1>4. ToSet(s) \cup ToSet(t) \subseteq ToSet(u)
    BY <1>1, <1>2, <1>3 DEF ToSet
  <1>5. ASSUME NEW n \in 1 .. Len(s) + Len(t) PROVE u[n] \in ToSet(s) \cup ToSet(t)
    <2>1. CASE n <= Len(s)
      <3>1. n \in 1 .. Len(s)
        BY <1>1, <2>1
      <3>2. QED
        BY <1>1, <3>1 DEF ToSet
    <2>2. CASE ~(n <= Len(s))
      <3>1. n - Len(s) \in 1 .. Len(t) /\ (n - Len(s)) + Len(s) = n
        BY <1>1, <2>2
      <3>2. u[n] = t[n - Len(s)]
        BY <1>1, <3>1
      <3>3. QED
        BY <1>1, <3>1, <3>2 DEF ToSet
    <2>3. QED
      BY <2>1, <2>2
  <1>6. ToSet(u) \subseteq ToSet(s) \cup ToSet(t)
    BY <1>1, <1>5 DEF ToSet
  <1>7. QED
    BY <1>1, <1>2, <1>4, <1>6 DEF u

\* The elements that remain when one is removed.
LEMMA RemoveAtIs ==
  ASSUME NEW S, NEW s \in Seq(S), NEW n \in 1 .. Len(s)
  PROVE  /\ RemoveAt(s, n) \in Seq(S) /\ Len(RemoveAt(s, n)) = Len(s) - 1
         /\ \A i \in 1 .. Len(s) - 1 : RemoveAt(s, n)[i] = s[IF i < n THEN i ELSE i + 1]
  <1>1. Len(s) \in Nat
    OBVIOUS
  <1> DEFINE a == SubSeq(s, 1, n - 1)
             b == SubSeq(s, n + 1, Len(s))
  <1>2. a \in Seq(S) /\ Len(a) = n - 1 /\ \A i \in 1 .. n - 1 : a[i] = s[i]
    <2>1. \A i \in 1 .. n - 1 : s[i] \in S
      BY <1>1, ElementOfSeq
    <2>2. /\ a \in Seq(S) /\ Len(a) = IF 1 <= n - 1 THEN n - 1 - 1 + 1 ELSE 0
          /\ \A i \in 1 .. n - 1 - 1 + 1 : a[i] = s[1 + i - 1]
      BY <2>1, <1>1, SubSeqProperties
    <2> HIDE DEF a
    <2>3. QED
      BY <2>2
  <1>3. b \in Seq(S) /\ Len(b) = Len(s) - n /\ \A i \in 1 .. Len(s) - n : b[i] = s[n + i]
    <2>1. \A i \in n + 1 .. Len(s) : s[i] \in S
      BY <1>1, ElementOfSeq
    <2>2. PICK l \in Nat : l = Len(s)
      BY <1>1
    <2>3. /\ b \in Seq(S) /\ Len(b) = IF n + 1 <= l THEN l - (n + 1) + 1 ELSE 0
          /\ \A i \in 1 .. l - (n + 1) + 1 : b[i] = s[n + 1 + i - 1]
      BY <2>1, <2>2, SubSeqProperties
    <2> HIDE DEF b
    <2>4. Len(b) = l - n
      <3>1. n <= l
        BY <2>2
      <3>2. QED
        BY <2>2, <2>3, <3>1
    <2>5. ASSUME NEW i \in 1 .. l - n PROVE b[i] = s[n + i]
      <3>1. n + 1 + i - 1 = n + i /\ l - (n + 1) + 1 = l - n
        BY <2>2
      <3>2. QED
        BY <2>3, <3>1
    <2>6. QED
      BY <2>2, <2>3, <2>4, <2>5
  <1>4. RemoveAt(s, n) = a \o b
    BY DEF RemoveAt
  <1> HIDE DEF a, b
  <1>5. /\ a \o b \in Seq(S) /\ Len(a \o b) = Len(a) + Len(b)
        /\ \A i \in 1 .. Len(a) + Len(b) :
              (a \o b)[i] = IF i <= Len(a) THEN a[i] ELSE b[i - Len(a)]
    BY <1>2, <1>3, ConcatProperties
  <1> DEFINE c == a \o b
  <1>6. Len(a) + Len(b) = Len(s) - 1
    BY <1>1, <1>2, <1>3
  <1> HIDE DEF c
  <1>7. \A i \in 1 .. Len(s) - 1 : c[i] = s[IF i < n THEN i ELSE i + 1]
    <2> SUFFICES ASSUME NEW i \in 1 .. Len(s) - 1
                 PROVE  c[i] = s[IF i < n THEN i ELSE i + 1]
      OBVIOUS
    <2>1. c[i] = IF i <= n - 1 THEN a[i] ELSE b[i - (n - 1)]
      BY <1>2, <1>5, <1>6 DEF c
    <2>2. CASE i < n
      BY <2>1, <2>2, <1>1, <1>2
    <2>3. CASE ~(i < n)
      <3>1. i - (n - 1) \in 1 .. Len(s) - n /\ n + (i - (n - 1)) = i + 1 /\ ~(i <= n - 1)
        BY <2>3, <1>1
      <3>2. b[i - (n - 1)] = s[n + (i - (n - 1))]
        BY <3>1, <1>3
      <3>3. QED
        BY <2>1, <2>3, <3>1, <3>2
    <2>4. QED
      BY <2>2, <2>3
  <1>8. QED
    BY <1>4, <1>5, <1>6, <1>7 DEF c

\* A new first element.
LEMMA PrependIs ==
  ASSUME NEW S, NEW s \in Seq(S), NEW e \in S
  PROVE  /\ <<e>> \o s \in Seq(S) /\ Len(<<e>> \o s) = Len(s) + 1
         /\ (<<e>> \o s)[1] = e /\ \A i \in 1 .. Len(s) : (<<e>> \o s)[i + 1] = s[i]
  <1>1. PICK a : a = <<e>> /\ a \in Seq(S) /\ Len(a) = 1 /\ a[1] = e
    <2>1. <<e>> \in Seq(S) /\ Len(<<e>>) = 1 /\ <<e>>[1] = e
      OBVIOUS
    <2>2. QED
      BY <2>1
  <1>2. Len(s) \in Nat
    OBVIOUS
  <1>3. /\ a \o s \in Seq(S) /\ Len(a \o s) = Len(a) + Len(s)
        /\ \A i \in 1 .. Len(a) + Len(s) :
              (a \o s)[i] = IF i <= Len(a) THEN a[i] ELSE s[i - Len(a)]
    BY <1>1, ConcatProperties
  <1>4. PICK c : c = a \o s
    OBVIOUS
  <1>5. c[1] = e
    BY <1>1, <1>2, <1>3, <1>4
  <1>6. \A i \in 1 .. Len(s) : c[i + 1] = s[i]
    <2> SUFFICES ASSUME NEW i \in 1 .. Len(s) PROVE c[i + 1] = s[i]
      OBVIOUS
    <2>1. i + 1 \in 1 .. Len(a) + Len(s) /\ ~(i + 1 <= Len(a)) /\ i + 1 - Len(a) = i
      BY <1>1, <1>2
    <2>2. QED
      BY <2>1, <1>3, <1>4
  <1>7. QED
    BY <1>1, <1>2, <1>3, <1>4, <1>5, <1>6

-----------------------------------------------------------------------------
(* What the operators of AuditLens return                                  *)

\* Among, one element after the other, with V for what it may have by then.
AmongRuns(s, T, V) ==
    \E f \in [0 .. Len(s) -> V] :
        /\ f[0] = <<>> /\ Among(s, T) = f[Len(s)]
        /\ \A n \in 1 .. Len(s) :
              f[n] = IF s[n] \in T THEN Append(f[n - 1], s[n]) ELSE f[n - 1]

\* The recursive function in it is the one function with those steps.
LEMMA AmongSteps ==
  ASSUME NEW s, Len(s) \in Nat, NEW T, NEW V, <<>> \in V,
         \A n \in 1 .. Len(s) : s[n] \in T => \A before \in V : Append(before, s[n]) \in V
  PROVE  AmongRuns(s, T, V)
  <1> DEFINE Next1(n, before) == IF s[n] \in T THEN Append(before, s[n]) ELSE before
             Is(f) == f = [n \in 0 .. Len(s) |-> IF n = 0 THEN <<>> ELSE Next1(n, f[n - 1])]
             g == [n \in 1 .. Len(s) |-> [before \in V |-> Next1(n, before)]]
  <1>1. Among(s, T) = (CHOOSE f : Is(f))[Len(s)]
    BY DEF Among
  <1>2. \A n \in 1 .. Len(s) : \A before \in V : Next1(n, before) \in V
    OBVIOUS
  <1> HIDE DEF Next1
  <1>3. g \in [1 .. Len(s) -> [V -> V]]
    BY <1>2
  <1>4. Stepwise(V, <<>>, Len(s), g)
    <2> HIDE DEF g
    <2>1. QED
      BY <1>3, StepwiseExists
  <1>5. \A n \in 0 .. Len(s) : n # 0 => n \in 1 .. Len(s) /\ n - 1 \in 0 .. Len(s)
    OBVIOUS
  <1>6. \E f : Is(f)
    <2>1. PICK f \in [0 .. Len(s) -> V] :
              f[0] = <<>> /\ \A n \in 1 .. Len(s) : f[n] = g[n][f[n - 1]]
      BY <1>4 DEF Stepwise
    <2>2. ASSUME NEW n \in 0 .. Len(s), n # 0
          PROVE  f[n] = Next1(n, f[n - 1])
      <3>1. f[n - 1] \in V
        BY <1>5, <2>1, <2>2
      <3>2. QED
        BY <1>5, <2>1, <2>2, <3>1
    <2> HIDE DEF g
    <2>3. QED
      BY <2>1, <2>2
  <1>7. PICK h : h = (CHOOSE u : Is(u))
    OBVIOUS
  <1>8. Is(h)
    <2> HIDE DEF Is
    <2>1. QED
      BY <1>6, <1>7
  <1>9. DOMAIN h = 0 .. Len(s) /\ h[0] = <<>>
    BY <1>8
  <1>10. ASSUME NEW n \in 1 .. Len(s) PROVE h[n] = Next1(n, h[n - 1])
    <2>1. n \in 0 .. Len(s) /\ n # 0
      OBVIOUS
    <2>2. QED
      BY <1>8, <2>1
  <1>11. \A n \in 0 .. Len(s) : h[n] \in V
    <2> DEFINE G == {n \in 0 .. Len(s) : h[n] \in V}
    <2>1. 0 \in G
      BY <1>9
    <2>2. ASSUME NEW n \in 1 .. Len(s), n - 1 \in G
          PROVE  n \in G
      BY <1>2, <1>10, <2>2
    <2>3. \A n \in 0 .. Len(s) : n \in G
      <3> HIDE DEF G
      <3>1. QED
        BY <2>1, <2>2, Induction
    <2>4. QED
      BY <2>3
  <1>12. h \in [0 .. Len(s) -> V]
    <2>1. h = [n \in 0 .. Len(s) |-> h[n]]
      BY <1>8
    <2>2. QED
      BY <1>11, <2>1
  <1>13. Among(s, T) = h[Len(s)]
    BY <1>1, <1>7
  <1> HIDE DEF Is
  <1>14. QED
    BY <1>9, <1>10, <1>12, <1>13 DEF Next1, AmongRuns

\* Some finding before has the key of f.
Has(before, f, k) == \E m \in DOMAIN before : KeyOf(before[m], k) = KeyOf(f, k)

\* Dedupe, one finding after the other.
DedupeRuns(s, k, V) ==
    \E f \in [0 .. Len(s) -> V] :
        /\ f[0] = <<>> /\ Dedupe(s, k) = f[Len(s)]
        /\ \A n \in 1 .. Len(s) :
              f[n] = IF Has(f[n - 1], s[n], k) THEN f[n - 1] ELSE Append(f[n - 1], s[n])

\* Likewise.
LEMMA DedupeSteps ==
  ASSUME NEW s, Len(s) \in Nat, NEW k, NEW V, <<>> \in V,
         \A n \in 1 .. Len(s) : \A before \in V : Append(before, s[n]) \in V
  PROVE  DedupeRuns(s, k, V)
  <1> DEFINE Next1(n, before) == IF Has(before, s[n], k) THEN before ELSE Append(before, s[n])
             Is(f) == f = [n \in 0 .. Len(s) |-> IF n = 0 THEN <<>> ELSE Next1(n, f[n - 1])]
             g == [n \in 1 .. Len(s) |-> [before \in V |-> Next1(n, before)]]
  <1>1. Dedupe(s, k) = (CHOOSE f : Is(f))[Len(s)]
    BY DEF Dedupe, Has
  <1>2. \A n \in 1 .. Len(s) : \A before \in V : Next1(n, before) \in V
    OBVIOUS
  <1> HIDE DEF Next1
  <1>3. g \in [1 .. Len(s) -> [V -> V]]
    BY <1>2
  <1>4. Stepwise(V, <<>>, Len(s), g)
    <2> HIDE DEF g
    <2>1. QED
      BY <1>3, StepwiseExists
  <1>5. \A n \in 0 .. Len(s) : n # 0 => n \in 1 .. Len(s) /\ n - 1 \in 0 .. Len(s)
    OBVIOUS
  <1>6. \E f : Is(f)
    <2>1. PICK f \in [0 .. Len(s) -> V] :
              f[0] = <<>> /\ \A n \in 1 .. Len(s) : f[n] = g[n][f[n - 1]]
      BY <1>4 DEF Stepwise
    <2>2. ASSUME NEW n \in 0 .. Len(s), n # 0
          PROVE  f[n] = Next1(n, f[n - 1])
      <3>1. f[n - 1] \in V
        BY <1>5, <2>1, <2>2
      <3>2. QED
        BY <1>5, <2>1, <2>2, <3>1
    <2> HIDE DEF g
    <2>3. QED
      BY <2>1, <2>2
  <1>7. PICK h : h = (CHOOSE u : Is(u))
    OBVIOUS
  <1>8. Is(h)
    <2> HIDE DEF Is
    <2>1. QED
      BY <1>6, <1>7
  <1>9. DOMAIN h = 0 .. Len(s) /\ h[0] = <<>>
    BY <1>8
  <1>10. ASSUME NEW n \in 1 .. Len(s) PROVE h[n] = Next1(n, h[n - 1])
    <2>1. n \in 0 .. Len(s) /\ n # 0
      OBVIOUS
    <2>2. QED
      BY <1>8, <2>1
  <1>11. \A n \in 0 .. Len(s) : h[n] \in V
    <2> DEFINE G == {n \in 0 .. Len(s) : h[n] \in V}
    <2>1. 0 \in G
      BY <1>9
    <2>2. ASSUME NEW n \in 1 .. Len(s), n - 1 \in G
          PROVE  n \in G
      BY <1>2, <1>10, <2>2
    <2>3. \A n \in 0 .. Len(s) : n \in G
      <3> HIDE DEF G
      <3>1. QED
        BY <2>1, <2>2, Induction
    <2>4. QED
      BY <2>3
  <1>12. h \in [0 .. Len(s) -> V]
    <2>1. h = [n \in 0 .. Len(s) |-> h[n]]
      BY <1>8
    <2>2. QED
      BY <1>11, <2>1
  <1>13. Dedupe(s, k) = h[Len(s)]
    BY <1>1, <1>7
  <1> HIDE DEF Is
  <1>14. QED
    BY <1>9, <1>10, <1>12, <1>13 DEF Next1, DedupeRuns

\* Among gives those of the elements that are in T.
LEMMA AmongIs ==
  ASSUME NEW X, NEW s \in Seq(X), NEW T
  PROVE  Among(s, T) \in Seq(X \cap T) /\ ToSet(Among(s, T)) = ToSet(s) \cap T
  <1>1. Len(s) \in Nat /\ DOMAIN s = 1 .. Len(s) /\ \A n \in 1 .. Len(s) : s[n] \in X
    OBVIOUS
  <1> DEFINE V == Seq(X \cap T)
  <1>2. /\ <<>> \in V
        /\ \A n \in 1 .. Len(s) : s[n] \in T => \A before \in V : Append(before, s[n]) \in V
    BY <1>1
  <1>3. PICK f \in [0 .. Len(s) -> V] :
            /\ f[0] = <<>> /\ Among(s, T) = f[Len(s)]
            /\ \A n \in 1 .. Len(s) :
                  f[n] = IF s[n] \in T THEN Append(f[n - 1], s[n]) ELSE f[n - 1]
    <2>1. AmongRuns(s, T, V)
      <3> HIDE DEF V
      <3>1. QED
        BY <1>1, <1>2, AmongSteps
    <2> HIDE DEF V
    <2>2. QED
      BY <2>1 DEF AmongRuns
  <1> DEFINE Upto(n) == {s[m] : m \in 1 .. n} \cap T
             G == {n \in 0 .. Len(s) : ToSet(f[n]) = Upto(n)}
  <1>4. 0 \in G
    <2>1. Upto(0) = {} /\ ToSet(f[0]) = {}
      BY <1>3 DEF ToSet
    <2> HIDE DEF Upto
    <2>2. QED
      BY <1>1, <2>1
  <1>5. ASSUME NEW n \in 1 .. Len(s), n - 1 \in G
        PROVE  n \in G
    <2>1. n \in 0 .. Len(s) /\ n - 1 \in 0 .. Len(s) /\ ToSet(f[n - 1]) = Upto(n - 1)
      <3> HIDE DEF Upto
      <3>1. QED
        BY <1>1, <1>5
    <2>2. 1 .. n = (1 .. n - 1) \cup {n}
      BY <1>1
    <2>3. CASE s[n] \in T
      <3>1. f[n] = Append(f[n - 1], s[n])
        BY <2>3, <1>3
      <3>2. ToSet(f[n]) = ToSet(f[n - 1]) \cup {s[n]}
        <4>1. f[n - 1] \in V
          <5> HIDE DEF V
          <5>1. QED
            BY <2>1
        <4>2. s[n] \in X \cap T
          BY <2>3, <1>1
        <4>3. QED
          BY <3>1, <4>1, <4>2, ToSetAppend
      <3>3. Upto(n) = Upto(n - 1) \cup {s[n]}
        BY <2>2, <2>3
      <3> HIDE DEF Upto
      <3>4. QED
        BY <2>1, <3>2, <3>3
    <2>4. CASE s[n] \notin T
      <3>1. f[n] = f[n - 1]
        BY <2>4, <1>3
      <3>2. Upto(n) = Upto(n - 1)
        BY <2>2, <2>4
      <3> HIDE DEF Upto
      <3>3. QED
        BY <2>1, <3>1, <3>2
    <2>5. QED
      BY <2>3, <2>4
  <1>6. Len(s) \in G
    <2>1. \A n \in 0 .. Len(s) : n \in G
      <3> HIDE DEF G
      <3>1. QED
        BY <1>1, <1>4, <1>5, Induction
    <2> HIDE DEF G
    <2>2. QED
      BY <1>1, <2>1
  <1>7. ToSet(Among(s, T)) = Upto(Len(s))
    <2> HIDE DEF Upto
    <2>1. QED
      BY <1>3, <1>6
  <1>8. Upto(Len(s)) = ToSet(s) \cap T
    BY <1>1 DEF ToSet
  <1>9. Among(s, T) \in V
    <2> HIDE DEF V
    <2>1. QED
      BY <1>1, <1>3
  <1>10. QED
    BY <1>7, <1>8, <1>9

\* What a call of Dedupe has kept after n findings.
Kept(s, k, n, kept) ==
    /\ ToSet(kept) \subseteq {s[m] : m \in 1 .. n}
    /\ \A i, j \in DOMAIN kept : i # j => KeyOf(kept[i], k) # KeyOf(kept[j], k)
    /\ \A m \in 1 .. n : Has(kept, s[m], k)
    /\ \A m \in 1 .. n :
          (\A l \in 1 .. m - 1 : KeyOf(s[l], k) # KeyOf(s[m], k)) => s[m] \in ToSet(kept)

\* A finding whose key is there adds nothing.
LEMMA KeptSkips ==
  ASSUME NEW s, NEW k, NEW n \in Nat \ {0}, NEW kept, Kept(s, k, n - 1, kept), Has(kept, s[n], k)
  PROVE  Kept(s, k, n, kept)
  <1>1. \A m \in 1 .. n : m \in 1 .. n - 1 \/ m = n
    OBVIOUS
  <1>2. ToSet(kept) \subseteq {s[m] : m \in 1 .. n}
    BY DEF Kept
  <1>3. \A m \in 1 .. n : Has(kept, s[m], k)
    BY <1>1 DEF Kept
  <1>4. \E l \in 1 .. n - 1 : KeyOf(s[l], k) = KeyOf(s[n], k)
    <2>1. PICK i \in DOMAIN kept : KeyOf(kept[i], k) = KeyOf(s[n], k)
      BY DEF Has
    <2>2. kept[i] \in {s[m] : m \in 1 .. n - 1}
      BY <2>1 DEF Kept, ToSet
    <2>3. QED
      BY <2>1, <2>2
  <1>5. QED
    BY <1>1, <1>2, <1>3, <1>4 DEF Kept

\* Any other is the first of its key.
LEMMA KeptAppends ==
  ASSUME NEW X, NEW s, NEW k, NEW n \in Nat \ {0}, NEW kept \in Seq(X), s[n] \in X,
         Kept(s, k, n - 1, kept), ~Has(kept, s[n], k)
  PROVE  Kept(s, k, n, Append(kept, s[n]))
  <1> DEFINE new == Append(kept, s[n])
  <1>1. \A m \in 1 .. n : m \in 1 .. n - 1 \/ m = n
    OBVIOUS
  <1>2. ToSet(new) = ToSet(kept) \cup {s[n]}
    BY ToSetAppend
  <1>3. /\ DOMAIN kept = 1 .. Len(kept) /\ DOMAIN new = 1 .. Len(kept) + 1 /\ Len(kept) \in Nat
        /\ \A i \in 1 .. Len(kept) : new[i] = kept[i]
        /\ new[Len(kept) + 1] = s[n]
    OBVIOUS
  <1> HIDE DEF new
  <1>4. ToSet(new) \subseteq {s[m] : m \in 1 .. n}
    BY <1>2 DEF Kept
  <1>5. \A i \in 1 .. Len(kept) + 1 : i \in 1 .. Len(kept) \/ i = Len(kept) + 1
    BY <1>3
  <1>6. ASSUME NEW i \in DOMAIN new, NEW j \in DOMAIN new, i # j
        PROVE  KeyOf(new[i], k) # KeyOf(new[j], k)
    <2>1. \A l \in 1 .. Len(kept) : KeyOf(kept[l], k) # KeyOf(s[n], k)
      BY <1>3 DEF Has
    <2>2. CASE i \in 1 .. Len(kept) /\ j \in 1 .. Len(kept)
      BY <2>2, <1>3, <1>6 DEF Kept
    <2>3. CASE i = Len(kept) + 1 \/ j = Len(kept) + 1
      BY <2>1, <2>3, <1>3, <1>5, <1>6
    <2>4. QED
      BY <2>2, <2>3, <1>3, <1>5
  <1>7. ASSUME NEW m \in 1 .. n PROVE Has(new, s[m], k)
    <2>1. CASE m \in 1 .. n - 1
      <3>1. PICK i \in DOMAIN kept : KeyOf(kept[i], k) = KeyOf(s[m], k)
        BY <2>1 DEF Kept, Has
      <3>2. i \in DOMAIN new /\ new[i] = kept[i]
        BY <1>3
      <3>3. QED
        BY <3>1, <3>2 DEF Has
    <2>2. CASE m = n
      <3>1. Len(kept) + 1 \in DOMAIN new
        BY <1>3
      <3>2. QED
        BY <2>2, <3>1, <1>3 DEF Has
    <2>3. QED
      BY <2>1, <2>2, <1>1
  <1>8. ASSUME NEW m \in 1 .. n, \A l \in 1 .. m - 1 : KeyOf(s[l], k) # KeyOf(s[m], k)
        PROVE  s[m] \in ToSet(new)
    BY <1>1, <1>2, <1>8 DEF Kept
  <1>9. QED
    BY <1>4, <1>6, <1>7, <1>8 DEF Kept, new

\* _dedupe_findings, for any findings and strategy: keeps the first finding of
\* each key and nothing else.
THEOREM DedupeIs ==
  ASSUME NEW X, NEW s \in Seq(X), NEW k
  PROVE  Dedupe(s, k) \in Seq(X) /\ Kept(s, k, Len(s), Dedupe(s, k))
  <1>1. Len(s) \in Nat /\ \A n \in 1 .. Len(s) : s[n] \in X
    OBVIOUS
  <1> DEFINE V == Seq(X)
  <1>2. <<>> \in V /\ \A n \in 1 .. Len(s) : \A before \in V : Append(before, s[n]) \in V
    BY <1>1
  <1>3. PICK f \in [0 .. Len(s) -> V] :
            /\ f[0] = <<>> /\ Dedupe(s, k) = f[Len(s)]
            /\ \A n \in 1 .. Len(s) :
                  f[n] = IF Has(f[n - 1], s[n], k) THEN f[n - 1] ELSE Append(f[n - 1], s[n])
    <2>1. DedupeRuns(s, k, V)
      <3> HIDE DEF V
      <3>1. QED
        BY <1>1, <1>2, DedupeSteps
    <2> HIDE DEF V
    <2>2. QED
      BY <2>1 DEF DedupeRuns
  <1> DEFINE G == {n \in 0 .. Len(s) : Kept(s, k, n, f[n])}
  <1>4. 0 \in G
    <2>1. Kept(s, k, 0, <<>>)
      BY DEF Kept, ToSet
    <2>2. QED
      BY <1>1, <1>3, <2>1
  <1>5. ASSUME NEW n \in 1 .. Len(s), n - 1 \in G
        PROVE  n \in G
    <2>1. n \in Nat \ {0} /\ n \in 0 .. Len(s) /\ n - 1 \in 0 .. Len(s)
      BY <1>1
    <2>2. PICK kept \in V : kept = f[n - 1] /\ Kept(s, k, n - 1, kept)
      <3> HIDE DEF V
      <3>1. QED
        BY <1>3, <1>5, <2>1
    <2>3. f[n] = IF Has(kept, s[n], k) THEN kept ELSE Append(kept, s[n])
      BY <1>3, <2>2
    <2>4. Kept(s, k, n, f[n])
      <3>1. CASE Has(kept, s[n], k)
        BY <3>1, <2>1, <2>2, <2>3, KeptSkips
      <3>2. CASE ~Has(kept, s[n], k)
        <4>1. Kept(s, k, n, Append(kept, s[n]))
          BY <3>2, <1>1, <2>1, <2>2, KeptAppends
        <4>2. QED
          BY <4>1, <3>2, <2>3
      <3>3. QED
        BY <3>1, <3>2
    <2>5. QED
      BY <2>1, <2>4
  <1>6. \A n \in 0 .. Len(s) : n \in G
    <2> HIDE DEF G
    <2>1. QED
      BY <1>1, <1>4, <1>5, Induction
  <1>7. Len(s) \in 0 .. Len(s)
    BY <1>1
  <1>8. Kept(s, k, Len(s), f[Len(s)])
    BY <1>6, <1>7
  <1>9. f[Len(s)] \in V
    <2> HIDE DEF V
    <2>1. QED
      BY <1>3, <1>7
  <1>10. QED
    BY <1>3, <1>8, <1>9

\* The files of an evidence document.
Files(files) == files \in [DOMAIN files -> Texts] /\ DOMAIN files \subseteq ToSet(Paths)

\* What all sources of findings agree on.
IsFinding(f) ==
    /\ f = [id |-> f.id, severity |-> f.severity, category |-> f.category, title |-> f.title,
            evidence |-> f.evidence, confidence |-> f.confidence]
    /\ f.confidence \in Int

\* The files that match are visited, and no others.
LEMMA FilesInIs ==
  ASSUME NEW files, Files(files), NEW paths, NEW texts
  PROVE  /\ FilesIn(files, paths, texts) \in Seq(Matching(files, paths, texts))
         /\ ToSet(FilesIn(files, paths, texts)) = Matching(files, paths, texts)
  <1> DEFINE where == Matching(files, paths, texts)
  <1>1. Paths \in Seq(ToSet(Paths))
    BY AuditLensAssumption
  <1>2. ToSet(Paths) \cap where = where
    BY DEF Files, Matching
  <1> HIDE DEF where
  <1>3. Among(Paths, where) \in Seq(ToSet(Paths) \cap where)
        /\ ToSet(Among(Paths, where)) = ToSet(Paths) \cap where
    BY <1>1, AmongIs
  <1>4. FilesIn(files, paths, texts) = Among(Paths, where)
    BY DEF FilesIn, Matching, where
  <1>5. QED
    BY <1>2, <1>3, <1>4 DEF where

\* A fixed rule has a finding for every file that matches it.
LEMMA ConsoleFindingsAre ==
  ASSUME NEW files, Files(files)
  PROVE  /\ ConsoleFindings(files) \in Seq(ToSet(ConsoleFindings(files)))
         /\ ToSet(ConsoleFindings(files)) =
               {ConsoleFinding(q) : q \in Matching(files, ConsolePaths, TokenErrors)}
         /\ \A f \in ToSet(ConsoleFindings(files)) : IsFinding(f)
  <1> DEFINE where == Matching(files, ConsolePaths, TokenErrors)
             found == FilesIn(files, ConsolePaths, TokenErrors)
             c == ConsoleFindings(files)
  <1>1. found \in Seq(where) /\ ToSet(found) = where
    BY FilesInIs
  <1>2. c = [n \in DOMAIN found |-> ConsoleFinding(found[n])]
    BY DEF ConsoleFindings
  <1> HIDE DEF found, where
  <1>3. Len(found) \in Nat /\ DOMAIN found = 1 .. Len(found)
    BY <1>1
  <1> HIDE DEF c
  <1>4. c \in Seq(ToSet(c))
    BY <1>2, <1>3, IsSequence
  <1>5. ToSet(c) = {ConsoleFinding(q) : q \in where}
    BY <1>1, <1>2 DEF ToSet
  <1>6. \A q : IsFinding(ConsoleFinding(q))
    BY DEF IsFinding, ConsoleFinding, RuleFinding
  <1>7. \A f \in ToSet(c) : IsFinding(f)
    BY <1>5, <1>6
  <1>8. QED
    BY <1>4, <1>5, <1>7 DEF c, where

\* So has the other.
LEMMA LighthouseFindingsAre ==
  ASSUME NEW files, Files(files)
  PROVE  /\ LighthouseFindings(files) \in Seq(ToSet(LighthouseFindings(files)))
         /\ ToSet(LighthouseFindings(files)) =
               {LighthouseFinding(q) : q \in Matching(files, LighthousePaths, LowSeo)}
         /\ \A f \in ToSet(LighthouseFindings(files)) : IsFinding(f)
  <1> DEFINE where == Matching(files, LighthousePaths, LowSeo)
             found == FilesIn(files, LighthousePaths, LowSeo)
             c == LighthouseFindings(files)
  <1>1. found \in Seq(where) /\ ToSet(found) = where
    BY FilesInIs
  <1>2. c = [n \in DOMAIN found |-> LighthouseFinding(found[n])]
    BY DEF LighthouseFindings
  <1> HIDE DEF found, where
  <1>3. Len(found) \in Nat /\ DOMAIN found = 1 .. Len(found)
    BY <1>1
  <1> HIDE DEF c
  <1>4. c \in Seq(ToSet(c))
    BY <1>2, <1>3, IsSequence
  <1>5. ToSet(c) = {LighthouseFinding(q) : q \in where}
    BY <1>1, <1>2 DEF ToSet
  <1>6. \A q : IsFinding(LighthouseFinding(q))
    BY DEF IsFinding, LighthouseFinding, RuleFinding
  <1>7. \A f \in ToSet(c) : IsFinding(f)
    BY <1>5, <1>6
  <1>8. QED
    BY <1>4, <1>5, <1>7 DEF c, where

\* The entries of a report that parses are findings.
LEMMA ReportFindingsAre ==
  ASSUME NEW files, Files(files), Report(files) # Malformed
  PROVE  /\ ReportFindings(files) \in Seq(ToSet(ReportFindings(files)))
         /\ \A f \in ToSet(ReportFindings(files)) : IsFinding(f)
  <1> DEFINE reports == FilesIn(files, DeterministicPaths, Texts)
             report == Report(files)
             c == ReportFindings(files)
  <1>1. report \in Seq(ToSet(report)) /\ \A f \in ToSet(report) : f.confidence \in {None} \cup Int
    <2>1. CASE report = <<>>
      <3>1. ToSet(<<>>) = {}
        BY DEF ToSet
      <3> HIDE DEF report
      <3>2. QED
        BY <2>1, <3>1
    <2>2. CASE report # <<>>
      <3>1. reports # <<>> /\ report = ReportOf[files[Head(reports)]]
        BY <2>2 DEF Report
      <3>2. reports \in Seq(Matching(files, DeterministicPaths, Texts))
        BY FilesInIs
      <3> HIDE DEF reports
      <3>3. Head(reports) \in Matching(files, DeterministicPaths, Texts)
        BY <3>1, <3>2
      <3>4. files[Head(reports)] \in Texts
        BY <3>3 DEF Matching
      <3> HIDE DEF report
      <3>5. QED
        BY <3>1, <3>4, AuditLensAssumption DEF report
    <2>3. QED
      BY <2>1, <2>2
  <1>2. c = [n \in DOMAIN report |-> Normalized(report[n])]
    BY DEF ReportFindings
  <1> HIDE DEF report
  <1>3. Len(report) \in Nat /\ DOMAIN report = 1 .. Len(report)
    BY <1>1
  <1> HIDE DEF c
  <1>4. c \in Seq(ToSet(c))
    BY <1>2, <1>3, IsSequence
  <1>5. ASSUME NEW n \in DOMAIN report PROVE IsFinding(Normalized(report[n]))
    <2>1. report[n] \in ToSet(report)
      BY DEF ToSet
    <2>2. Default(report[n].confidence, 80) \in Int
      BY <1>1, <2>1 DEF Default
    <2>3. QED
      BY <2>2 DEF IsFinding, Normalized
  <1>6. \A f \in ToSet(c) : IsFinding(f)
    BY <1>2, <1>5 DEF ToSet
  <1>7. QED
    BY <1>4, <1>6 DEF c

\* What _findings_from_files returns: the report first, then the rules.
LEMMA RawFindingsAre ==
  ASSUME NEW d, Files(FilesAt(d.source)),
         UsesReport(d.profile) => Report(FilesAt(d.source)) # Malformed
  PROVE  LET raw == RawFindings(FilesAt(d.source), d.profile) IN
         /\ raw \in Seq(ToSet(raw))
         /\ \A f \in ToSet(raw) : IsFinding(f)
         /\ ToSet(raw) = ToSet(Entries(d)) \cup Ruled(d)
         /\ \A n \in DOMAIN Entries(d) : n \in DOMAIN raw /\ raw[n] = Entries(d)[n]
         /\ Entries(d) \in Seq(ToSet(Entries(d)))
  <1> DEFINE files == FilesAt(d.source)
             r == ReportFindings(files)
             c == ConsoleFindings(files)
             l == LighthouseFindings(files)
             cs == {ConsoleFinding(q) : q \in Matching(files, ConsolePaths, TokenErrors)}
             ls == {LighthouseFinding(q) : q \in Matching(files, LighthousePaths, LowSeo)}
             raw == RawFindings(files, d.profile)
  <1>1. UsesReport(d.profile) => r \in Seq(ToSet(r)) /\ \A f \in ToSet(r) : IsFinding(f)
    BY ReportFindingsAre
  <1>2. c \in Seq(ToSet(c)) /\ ToSet(c) = cs /\ \A f \in ToSet(c) : IsFinding(f)
    BY ConsoleFindingsAre
  <1>3. l \in Seq(ToSet(l)) /\ ToSet(l) = ls /\ \A f \in ToSet(l) : IsFinding(f)
    BY LighthouseFindingsAre
  <1>4. ToSet(<<>>) = {} /\ <<>> \in Seq({}) /\ DOMAIN <<>> = {}
    BY DEF ToSet
  <1>5. CASE d.profile = "console"
    <2>1. raw = c /\ Entries(d) = <<>> /\ Ruled(d) = cs
      BY <1>5 DEF RawFindings, Entries, Ruled
    <2> HIDE DEF raw, c, cs
    <2>2. QED
      BY <2>1, <1>2, <1>4 DEF raw
  <1>6. CASE d.profile = "lighthouse"
    <2>1. raw = l /\ Entries(d) = <<>> /\ Ruled(d) = ls
      BY <1>6 DEF RawFindings, Entries, Ruled
    <2> HIDE DEF raw, l, ls
    <2>2. QED
      BY <2>1, <1>3, <1>4 DEF raw
  <1>7. CASE d.profile = "deterministic"
    <2>1. raw = r /\ Entries(d) = r /\ Ruled(d) = {}
      BY <1>7 DEF RawFindings, Entries, Ruled
    <2>2. UsesReport(d.profile)
      BY <1>7 DEF UsesReport
    <2> HIDE DEF raw, r
    <2>3. QED
      BY <2>1, <2>2, <1>1 DEF raw
  <1>8. CASE d.profile \notin {"console", "lighthouse", "deterministic"}
    <2>1. raw = r \o c \o l /\ Entries(d) = r /\ Ruled(d) = cs \cup ls
      BY <1>8 DEF RawFindings, Entries, Ruled
    <2>2. UsesReport(d.profile)
      BY <1>8 DEF UsesReport
    <2> DEFINE X == ToSet(r) \cup ToSet(c) \cup ToSet(l)
    <2> HIDE DEF raw, r, c, l, cs, ls
    <2>3. r \in Seq(X) /\ c \in Seq(X) /\ l \in Seq(X)
      BY <1>1, <1>2, <1>3, <2>2
    <2> HIDE DEF X
    <2>4. /\ r \o c \in Seq(X) /\ ToSet(r \o c) = ToSet(r) \cup ToSet(c)
          /\ \A n \in DOMAIN r : n \in DOMAIN (r \o c) /\ (r \o c)[n] = r[n]
      BY <2>3, ToSetConcat
    <2>5. /\ raw \in Seq(X) /\ ToSet(raw) = X
          /\ \A n \in DOMAIN (r \o c) : n \in DOMAIN raw /\ raw[n] = (r \o c)[n]
      <3>1. PICK rc \in Seq(X) : rc = r \o c
        BY <2>4
      <3>2. /\ rc \o l \in Seq(X) /\ ToSet(rc \o l) = ToSet(rc) \cup ToSet(l)
            /\ \A n \in DOMAIN rc : n \in DOMAIN (rc \o l) /\ (rc \o l)[n] = rc[n]
        BY <2>3, ToSetConcat
      <3>3. raw = rc \o l
        BY <2>1, <3>1
      <3>4. ToSet(rc) \cup ToSet(l) = X
        BY <2>4, <3>1 DEF X
      <3>5. QED
        BY <3>1, <3>2, <3>3, <3>4
    <2>6. raw \in Seq(ToSet(raw))
      BY <2>5
    <2>7. \A f \in ToSet(raw) : IsFinding(f)
      BY <2>5, <2>2, <1>1, <1>2, <1>3 DEF X
    <2>8. ToSet(raw) = ToSet(Entries(d)) \cup Ruled(d)
      BY <2>1, <2>5, <1>2, <1>3 DEF X
    <2>9. \A n \in DOMAIN Entries(d) : n \in DOMAIN raw /\ raw[n] = Entries(d)[n]
      BY <2>1, <2>4, <2>5
    <2>10. Entries(d) \in Seq(ToSet(Entries(d)))
      BY <2>1, <2>2, <1>1
    <2>11. QED
      BY <2>6, <2>7, <2>8, <2>9, <2>10 DEF raw
  <1>9. QED
    BY <1>5, <1>6, <1>7, <1>8

\* Calibration changes only the confidence, which it raises once.
LEMMA CalibrateRaises ==
  ASSUME NEW f, IsFinding(f)
  PROVE  /\ Raised(f, Calibrate(f))
         /\ Calibrate(f).confidence \in Int /\ Calibrate(f).confidence <= 100
         /\ \A k : KeyOf(Calibrate(f), k) = KeyOf(f, k)
  <1> DEFINE b == Bump(f.severity)
             up == IF f.confidence + b < 100 THEN f.confidence + b ELSE 100
             g == [id |-> f.id, severity |-> f.severity, category |-> f.category,
                   title |-> f.title, evidence |-> f.evidence, confidence |-> up]
  <1>1. b \in {2, 4, 8, 12}
    BY DEF Bump
  <1>2. f.confidence \in Int
    BY DEF IsFinding
  <1>3. Calibrate(f) = g
    BY DEF Calibrate, IsFinding
  <1> HIDE DEF b
  <1>4. /\ up \in Int /\ up <= 100 /\ up - f.confidence <= 12
        /\ up > f.confidence \/ f.confidence >= 100
    BY <1>1, <1>2
  <1> HIDE DEF up
  <1>5. [g EXCEPT !.confidence = f.confidence] = f
    BY DEF IsFinding
  <1>6. \A k : KeyOf(g, k) = KeyOf(f, k)
    BY DEF KeyOf
  <1>7. Raised(f, g)
    BY <1>4, <1>5 DEF Raised
  <1>8. QED
    BY <1>3, <1>4, <1>6, <1>7

\* parse_findings, for any files, profile and strategy: what it stores is
\* complete, and no confidence is more than 1.
THEOREM ParsedIsComplete ==
  ASSUME NEW d, Files(FilesAt(d.source)),
         UsesReport(d.profile) => Report(FilesAt(d.source)) # Malformed,
         NEW kept, kept = Dedupe(RawFindings(FilesAt(d.source), d.profile), d.strategy),
         d.findings = [n \in DOMAIN kept |-> Calibrate(kept[n])]
  PROVE  /\ Complete(d)
         /\ \A n \in DOMAIN d.findings :
               d.findings[n].confidence \in Int /\ d.findings[n].confidence <= 100
  <1> DEFINE raw == RawFindings(FilesAt(d.source), d.profile)
             k == d.strategy
             entries == Entries(d)
             out == d.findings
             listed == ToSet(out)
  <1>1. /\ raw \in Seq(ToSet(raw))
        /\ \A f \in ToSet(raw) : IsFinding(f)
        /\ ToSet(raw) = ToSet(entries) \cup Ruled(d)
        /\ \A n \in DOMAIN entries : n \in DOMAIN raw /\ raw[n] = entries[n]
        /\ entries \in Seq(ToSet(entries))
    BY RawFindingsAre
  <1> HIDE DEF raw, entries
  <1>2. kept \in Seq(ToSet(raw)) /\ Kept(raw, k, Len(raw), kept)
    BY <1>1, DedupeIs DEF raw
  <1>3. DOMAIN raw = 1 .. Len(raw) /\ Len(raw) \in Nat
    BY <1>1
  <1>4. ToSet(kept) \subseteq ToSet(raw)
    BY <1>2, <1>3 DEF Kept, ToSet
  <1>5. ASSUME NEW n \in DOMAIN kept
        PROVE  /\ n \in DOMAIN out /\ out[n] = Calibrate(kept[n]) /\ out[n] \in listed
               /\ Raised(kept[n], out[n]) /\ KeyOf(out[n], k) = KeyOf(kept[n], k)
               /\ out[n].confidence \in Int /\ out[n].confidence <= 100
               /\ kept[n] \in ToSet(raw)
    <2>1. kept[n] \in ToSet(kept)
      BY DEF ToSet
    <2>2. kept[n] \in ToSet(raw) /\ IsFinding(kept[n])
      BY <2>1, <1>1, <1>4
    <2>3. n \in DOMAIN out /\ out[n] = Calibrate(kept[n]) /\ out[n] \in listed
      BY DEF ToSet
    <2> HIDE DEF listed
    <2>4. QED
      BY <2>2, <2>3, CalibrateRaises
  <1>6. DOMAIN out = DOMAIN kept
    OBVIOUS
  <1>7. \A m, n \in DOMAIN out : m # n => KeyOf(out[m], k) # KeyOf(out[n], k)
    <2>1. \A m, n \in DOMAIN kept : m # n => KeyOf(kept[m], k) # KeyOf(kept[n], k)
      BY <1>2 DEF Kept
    <2> HIDE DEF out, k
    <2>2. QED
      BY <2>1, <1>5, <1>6
  <1>8. ASSUME NEW n \in DOMAIN entries,
               \A m \in 1 .. n - 1 : KeyOf(entries[m], k) # KeyOf(entries[n], k)
        PROVE  \E g \in listed : Raised(entries[n], g)
    <2>1. n \in 1 .. Len(raw) /\ n \in 1 .. Len(entries) /\ Len(entries) \in Nat
          /\ DOMAIN entries = 1 .. Len(entries)
      BY <1>1, <1>3
    <2>2. \A m \in 1 .. n - 1 : KeyOf(raw[m], k) # KeyOf(raw[n], k)
      BY <1>1, <1>8, <2>1
    <2>3. raw[n] \in ToSet(kept)
      BY <1>2, <2>1, <2>2 DEF Kept
    <2>4. PICK i \in DOMAIN kept : kept[i] = entries[n]
      BY <1>1, <2>3 DEF ToSet
    <2> HIDE DEF listed
    <2>5. QED
      BY <1>5, <2>4
  <1>9. ASSUME NEW f \in Ruled(d) PROVE \E g \in listed : KeyOf(g, k) = KeyOf(f, k)
    <2>1. PICK m \in 1 .. Len(raw) : raw[m] = f
      BY <1>1, <1>3 DEF ToSet
    <2>2. PICK i \in DOMAIN kept : KeyOf(kept[i], k) = KeyOf(f, k)
      BY <1>2, <2>1 DEF Kept, Has
    <2> HIDE DEF listed
    <2>3. QED
      BY <1>5, <2>2
  <1>10. ASSUME NEW g \in listed
         PROVE  g.confidence <= 100 /\ \E f \in ToSet(entries) \cup Ruled(d) : Raised(f, g)
    <2>1. PICK n \in DOMAIN kept : out[n] = g
      BY <1>6 DEF ToSet
    <2>2. QED
      BY <1>1, <1>5, <2>1
  <1>11. \A n \in DOMAIN out : out[n].confidence \in Int /\ out[n].confidence <= 100
    BY <1>5, <1>6
  <1>12. QED
    BY <1>7, <1>8, <1>9, <1>10, <1>11 DEF Complete, entries

\* extract_text_files_from_zip, for any archive: every text is there, and under
\* each path the last one.
THEOREM FilesOfIs ==
  ASSUME NEW zip \in Archives
  PROVE  LET files == FilesOf(zip) IN
         /\ Files(files)
         /\ \A q \in DOMAIN files : \E n \in DOMAIN zip : zip[n] = [path |-> q, body |-> files[q]]
         /\ \A n \in DOMAIN zip : zip[n].body \in Texts =>
               /\ zip[n].path \in DOMAIN files
               /\ (\A m \in DOMAIN zip : m > n =>
                      zip[m].path # zip[n].path \/ ~(zip[m].body \in Texts))
                     => files[zip[n].path] = zip[n].body
  <1> DEFINE texts(q) == {n \in DOMAIN zip : zip[n].path = q /\ zip[n].body \in Texts}
             files == FilesOf(zip)
  <1>1. zip \in Seq([path : ToSet(Paths), body : Texts \cup {NoText}])
    BY AuditLensAssumption
  <1>2. /\ Len(zip) \in Nat /\ DOMAIN zip = 1 .. Len(zip)
        /\ \A n \in DOMAIN zip : zip[n] = [path |-> zip[n].path, body |-> zip[n].body]
        /\ \A n \in DOMAIN zip : zip[n].path \in ToSet(Paths)
    <2>1. Len(zip) \in Nat /\ DOMAIN zip = 1 .. Len(zip)
      BY <1>1
    <2>2. ASSUME NEW n \in DOMAIN zip
          PROVE  zip[n] \in [path : ToSet(Paths), body : Texts \cup {NoText}]
      <3> DEFINE entry == [path : ToSet(Paths), body : Texts \cup {NoText}]
      <3>1. zip \in Seq(entry)
        BY <1>1
      <3> HIDE DEF entry
      <3>2. zip[n] \in entry
        BY <2>1, <3>1, ElementOfSeq
      <3>3. QED
        BY <3>2 DEF entry
    <2>3. QED
      BY <2>1, <2>2
  <1>3. files = [q \in {q \in ToSet(Paths) : texts(q) # {}} |-> zip[Max(texts(q))].body]
    BY DEF FilesOf
  <1>4. ASSUME NEW q, texts(q) # {}
        PROVE  Max(texts(q)) \in texts(q) /\ \A n \in texts(q) : n <= Max(texts(q))
    <2>1. texts(q) \in SUBSET (1 .. Len(zip))
      BY <1>2
    <2> HIDE DEF texts
    <2>2. QED
      BY <1>2, <1>4, <2>1, MaxIs
  <1>5. ASSUME NEW q \in DOMAIN files
        PROVE  /\ q \in ToSet(Paths) /\ texts(q) # {}
               /\ files[q] = zip[Max(texts(q))].body /\ Max(texts(q)) \in texts(q)
    <2>1. q \in ToSet(Paths) /\ texts(q) # {} /\ files[q] = zip[Max(texts(q))].body
      <3> HIDE DEF texts, files
      <3>1. QED
        BY <1>3
    <2> HIDE DEF texts, files
    <2>2. QED
      BY <2>1, <1>4
  <1>6. Files(files)
    <2>1. \A q \in DOMAIN files : q \in ToSet(Paths) /\ files[q] \in Texts
      BY <1>5
    <2>2. files = [q \in DOMAIN files |-> files[q]]
      <3> HIDE DEF texts
      <3>1. QED
        BY <1>3
    <2> HIDE DEF files
    <2>3. QED
      BY <2>1, <2>2 DEF Files
  <1>7. ASSUME NEW q \in DOMAIN files
        PROVE  \E n \in DOMAIN zip : zip[n] = [path |-> q, body |-> files[q]]
    <2>1. PICK n \in texts(q) : files[q] = zip[n].body
      BY <1>5
    <2>2. QED
      BY <1>2, <2>1
  <1>8. ASSUME NEW n \in DOMAIN zip, zip[n].body \in Texts
        PROVE  /\ zip[n].path \in DOMAIN files
               /\ (\A m \in DOMAIN zip : m > n =>
                      zip[m].path # zip[n].path \/ ~(zip[m].body \in Texts))
                     => files[zip[n].path] = zip[n].body
    <2> DEFINE q == zip[n].path
    <2>1. n \in texts(q) /\ q \in ToSet(Paths)
      BY <1>2, <1>8
    <2>2. q \in DOMAIN files
      <3> HIDE DEF texts, files, q
      <3>1. QED
        BY <1>3, <2>1
    <2>3. PICK m \in texts(q) : files[q] = zip[m].body /\ n <= m
      <3>1. files[q] = zip[Max(texts(q))].body /\ Max(texts(q)) \in texts(q)
        BY <1>5, <2>2
      <3>2. n <= Max(texts(q))
        <4> HIDE DEF texts, q
        <4>1. QED
          BY <1>4, <2>1
      <3> HIDE DEF texts, files, q
      <3>3. QED
        BY <3>1, <3>2
    <2>4. n # m => m > n
      BY <1>2, <2>3
    <2>5. QED
      BY <2>2, <2>3, <2>4
  <1>9. QED
    BY <1>6, <1>7, <1>8

-----------------------------------------------------------------------------
(* Evidence and findings in the store                                      *)

Artifacts == [id : Nat, run : RunIds, name : ArtifactNames, zip : Archives]

UploadsOK ==
    /\ uploaded \in Seq(Artifacts) /\ \A i \in DOMAIN uploaded : uploaded[i].id = i
    /\ artifacts \in Seq(ToSet(uploaded))

IsEvidence(d) ==
    /\ d = [run |-> d.run, name |-> d.name, id |-> d.id, files |-> d.files]
    /\ d.id \in DOMAIN uploaded /\ Files(d.files) /\ OfOneArtifact(d)

AreFindings(d) ==
    /\ d = [source |-> d.source, profile |-> d.profile, strategy |-> d.strategy,
            findings |-> d.findings]
    /\ d.source \in objects /\ Complete(d)
    /\ \A n \in DOMAIN d.findings :
          d.findings[n].confidence \in Int /\ d.findings[n].confidence <= 100

\* What a call of AuditLens has in hand.
LensHand(p) ==
    LET c == at[p] IN
    /\ c.pc = "parse_findings" =>
          c.req.tool = "parse_findings" /\ c.req.evidence \in objects
          /\ Files(FilesAt(c.req.evidence))
    /\ c.pc = "download" =>
          /\ c.got \in DOMAIN uploaded
          /\ uploaded[c.got].run = c.req.run /\ uploaded[c.got].name = c.req.name
    /\ c.pc \in PutSteps => IsEvidence(c.got) \/ AreFindings(c.got)
    /\ c.pc \in LogSteps /\ c.req.tool \in Evidencing => Files(FilesAt(c.got))

LensHands == \A p \in Procs : LensHand(p)

\* What the store holds, and what may be parsed of what clients were given.
DocumentsOK ==
    /\ \A d \in EvidenceDocuments : IsEvidence(d)
    /\ \A d \in FindingsDocuments : AreFindings(d)
    /\ \A a \in answers : a.req.tool \in Evidencing => Files(FilesAt(a.output))
    /\ Others \subseteq objects

LensInv == UploadsOK /\ LensHands /\ DocumentsOK

-----------------------------------------------------------------------------

\* Artifacts keep their ids and documents stay.
LensGrows ==
    /\ objects \subseteq objects'
    /\ \A i \in DOMAIN uploaded : i \in DOMAIN uploaded' /\ uploaded'[i] = uploaded[i]

\* Any document of AuditLens may be parsed again: of findings, no files.
LEMMA FilesAtIs ==
  ASSUME NEW d, IsEvidence(d) \/ AreFindings(d)
  PROVE  Files(FilesAt(d))
  <1>1. CASE IsEvidence(d)
    <2>1. "files" \in DOMAIN d /\ Files(d.files)
      BY <1>1 DEF IsEvidence
    <2>2. QED
      BY <2>1 DEF FilesAt
  <1>2. CASE AreFindings(d)
    <2>1. "files" \notin DOMAIN d
      BY <1>2 DEF AreFindings
    <2>2. QED
      BY <2>1 DEF FilesAt, Files
  <1>3. QED
    BY <1>1, <1>2

\* So evidence stays evidence, findings stay findings, and a call that takes no
\* step keeps what it has.
LEMMA EvidenceStays ==
  ASSUME LensGrows, NEW d, IsEvidence(d)
  PROVE  IsEvidence(d)'
  <1>1. d.id \in DOMAIN uploaded' /\ uploaded'[d.id] = uploaded[d.id]
    BY DEF LensGrows, IsEvidence
  <1>2. OfOneArtifact(d)'
    BY <1>1 DEF OfOneArtifact, IsEvidence
  <1>3. QED
    BY <1>1, <1>2 DEF IsEvidence

\* The same of findings ...
LEMMA FindingsStay ==
  ASSUME LensGrows, NEW d, AreFindings(d)
  PROVE  AreFindings(d)'
  BY DEF LensGrows, AreFindings

\* ... and of a call.
LEMMA LensHandStays ==
  ASSUME LensGrows, NEW q \in Procs, LensHand(q), at'[q] = at[q]
  PROVE  LensHand(q)'
  <1> PICK c : c = at[q]
    OBVIOUS
  <1>1. c.pc = "parse_findings" =>
          c.req.tool = "parse_findings" /\ c.req.evidence \in objects'
          /\ Files(FilesAt(c.req.evidence))
    BY DEF LensHand, LensGrows
  <1>2. c.pc = "download" =>
          /\ c.got \in DOMAIN uploaded'
          /\ uploaded'[c.got].run = c.req.run /\ uploaded'[c.got].name = c.req.name
    BY DEF LensHand, LensGrows
  <1>3. c.pc \in PutSteps => IsEvidence(c.got)' \/ AreFindings(c.got)'
    BY EvidenceStays, FindingsStay DEF LensHand
  <1>4. c.pc \in LogSteps /\ c.req.tool \in Evidencing => Files(FilesAt(c.got))
    BY DEF LensHand
  <1>5. QED
    BY <1>1, <1>2, <1>3, <1>4 DEF LensHand

\* It is enough to look at the hand of the process that takes the step, and at
\* what is new.
LEMMA LensKept ==
  ASSUME LensInv, LensGrows, UploadsOK', NEW p \in Procs, LensHand(p)',
         \A q \in Procs : q # p => at'[q] = at[q],
         \A d \in objects' \ objects :
            /\ DOMAIN d = {"run", "name", "id", "files"} => IsEvidence(d)'
            /\ DOMAIN d = {"source", "profile", "strategy", "findings"} => AreFindings(d)',
         \A a \in answers' \ answers : a.req.tool \in Evidencing => Files(FilesAt(a.output))
  PROVE  LensInv'
  <1>1. LensHands'
    <2> SUFFICES ASSUME NEW q \in Procs PROVE LensHand(q)'
      BY DEF LensHands
    <2>1. CASE q # p
      BY <2>1, LensHandStays DEF LensInv, LensHands
    <2>2. QED
      BY <2>1
  <1>2. \A d \in EvidenceDocuments' : IsEvidence(d)'
    <2> SUFFICES ASSUME NEW d \in objects', DOMAIN d = {"run", "name", "id", "files"}
                 PROVE  IsEvidence(d)'
      BY DEF EvidenceDocuments
    <2>1. CASE d \in objects
      BY <2>1, EvidenceStays DEF LensInv, DocumentsOK, EvidenceDocuments
    <2>2. QED
      BY <2>1
  <1>3. \A d \in FindingsDocuments' : AreFindings(d)'
    <2> SUFFICES ASSUME NEW d \in objects', DOMAIN d = {"source", "profile", "strategy", "findings"}
                 PROVE  AreFindings(d)'
      BY DEF FindingsDocuments
    <2>1. CASE d \in objects
      BY <2>1, FindingsStay DEF LensInv, DocumentsOK, FindingsDocuments
    <2>2. QED
      BY <2>1
  <1>4. /\ \A a \in answers' : a.req.tool \in Evidencing => Files(FilesAt(a.output))
        /\ Others \subseteq objects'
    BY DEF LensInv, DocumentsOK, LensGrows
  <1>5. QED
    BY <1>1, <1>2, <1>3, <1>4 DEF LensInv, DocumentsOK

\* A step outside AuditLens, and the end of a call, leave its documents alone.
LEMMA LensAway ==
  ASSUME CallInv, LensInv, NEW p \in Procs, UNCHANGED <<objects, answers, lensVars>>,
         \A q \in Procs : q # p => at'[q] = at[q],
         \/ at'[p] = Idle
         \/ /\ at[p].pc \notin EvidenceSteps \cup {"idle"} /\ at'[p].req = at[p].req
            /\ at'[p].pc \notin EvidenceSteps \ {"log"}
  PROVE  LensInv'
  <1>1. LensGrows /\ UploadsOK'
    BY DEF LensGrows, LensInv, UploadsOK, lensVars
  <1>2. LensHand(p)'
    <2>1. CASE at'[p] = Idle
      <3>1. at'[p].pc = "idle"
        BY <2>1 DEF Idle
      <3>2. QED
        BY <3>1 DEF LensHand, PutSteps, LogSteps
    <2>2. CASE at'[p] # Idle
      <3>1. at[p].req.tool \notin Evidencing
        BY <2>2 DEF CallInv, HandsOK, HandOK
      <3>2. QED
        BY <2>2, <3>1 DEF LensHand, EvidenceSteps, PutSteps, LogSteps, Evidencing
    <2>3. QED
      BY <2>1, <2>2
  <1>3. QED
    BY <1>1, <1>2, LensKept

\* The artifact that is listed is of the run and name that were asked for.
LEMMA ListArtifactsLens ==
  ASSUME CallInv, LensInv, NEW p \in Procs, ListArtifacts(p), UNCHANGED answers
  PROVE  LensInv'
  <1> DEFINE r == at[p].req
             found == Listed(r.run, r.name)
             id == artifacts[Min(found)].id
  <1>1. at[p].pc = "fetch_evidence" /\ UNCHANGED <<objects, answers, lensVars>>
    BY DEF ListArtifacts, storeVars
  <1>2. CASE Fails(p)
    BY <1>1, <1>2, FailTaken, LensAway DEF CallInv
  <1>3. CASE found # {} /\ Step(p, "download", id)
    <2>1. Len(artifacts) \in Nat /\ DOMAIN artifacts = 1 .. Len(artifacts)
      BY DEF LensInv, UploadsOK
    <2>2. Min(found) \in found
      <3>1. found \in SUBSET (1 .. Len(artifacts))
        BY <2>1 DEF Listed
      <3> HIDE DEF found
      <3>2. QED
        BY <2>1, <3>1, <1>3, MinIs
    <2>3. PICK a : a = artifacts[Min(found)] /\ a.run = r.run /\ a.name = r.name
                   /\ a \in ToSet(uploaded)
      <3>1. Min(found) \in DOMAIN artifacts /\ artifacts[Min(found)].run = r.run
            /\ artifacts[Min(found)].name = r.name
        BY <2>2 DEF Listed
      <3> HIDE DEF found
      <3>2. artifacts[Min(found)] \in ToSet(uploaded)
        BY <2>1, <3>1, ElementOfSeq DEF LensInv, UploadsOK
      <3>3. QED
        BY <3>1, <3>2
    <2>4. a.id \in DOMAIN uploaded /\ uploaded[a.id] = a
      BY <2>3 DEF ToSet, LensInv, UploadsOK
    <2>5. /\ at'[p] = [pc |-> "download", call |-> at[p].call, req |-> at[p].req, got |-> a.id]
          /\ \A q \in Procs : q # p => at'[q] = at[q]
      BY <1>3, <2>3, StepTaken DEF CallInv
    <2>6. LensGrows /\ UploadsOK'
      BY <1>1 DEF LensGrows, LensInv, UploadsOK, lensVars
    <2>7. LensHand(p)'
      <3>1. at'[p].pc = "download" /\ at'[p].req = r /\ at'[p].got = a.id
        BY <2>5
      <3>2. uploaded' = uploaded
        BY <1>1 DEF lensVars
      <3> HIDE DEF r
      <3>3. QED
        BY <3>1, <3>2, <2>3, <2>4 DEF LensHand, PutSteps, LogSteps
    <2>8. QED
      BY <1>1, <2>5, <2>6, <2>7, LensKept
  <1>4. QED
    BY <1>2, <1>3 DEF ListArtifacts

\* What is downloaded is the text of the artifact that was listed.
LEMMA DownloadLens ==
  ASSUME CallInv, LensInv, NEW p \in Procs, Download(p), UNCHANGED answers
  PROVE  LensInv'
  <1> DEFINE r == at[p].req
             id == at[p].got
             doc == [run |-> r.run, name |-> r.name, id |-> id, files |-> FilesOf(uploaded[id].zip)]
  <1>1. at[p].pc = "download" /\ UNCHANGED <<objects, answers, lensVars>>
    BY DEF Download, storeVars
  <1>2. CASE Fails(p)
    BY <1>1, <1>2, FailTaken, LensAway DEF CallInv
  <1>3. CASE Step(p, "put", doc)
    <2>1. id \in DOMAIN uploaded /\ uploaded[id].run = r.run /\ uploaded[id].name = r.name
      BY <1>1 DEF LensInv, LensHands, LensHand
    <2>2. PICK a \in Artifacts : a = uploaded[id]
      <3>1. uploaded \in Seq(Artifacts) /\ DOMAIN uploaded = 1 .. Len(uploaded)
        BY DEF LensInv, UploadsOK
      <3>2. uploaded[id] \in Artifacts
        <4> HIDE DEF id
        <4>1. QED
          BY <3>1, <2>1, ElementOfSeq
      <3>3. QED
        BY <3>2
    <2>3. PICK files : files = FilesOf(a.zip)
      OBVIOUS
    <2>4. a.zip \in Archives
      BY <2>2 DEF Artifacts
    <2>5. /\ Files(files)
          /\ \A q \in DOMAIN files : \E n \in DOMAIN a.zip :
                a.zip[n] = [path |-> q, body |-> files[q]]
          /\ \A n \in DOMAIN a.zip : a.zip[n].body \in Texts =>
                /\ a.zip[n].path \in DOMAIN files
                /\ (\A m \in DOMAIN a.zip : m > n =>
                       a.zip[m].path # a.zip[n].path \/ ~(a.zip[m].body \in Texts))
                      => files[a.zip[n].path] = a.zip[n].body
      BY <2>3, <2>4, FilesOfIs
    <2>6. PICK d : d = [run |-> r.run, name |-> r.name, id |-> id, files |-> files] /\ d = doc
      BY <2>2, <2>3
    <2>7. d.run = a.run /\ d.name = a.name /\ d.id = id /\ d.files = files /\ uploaded[d.id] = a
          /\ d.id \in DOMAIN uploaded
          /\ d = [run |-> d.run, name |-> d.name, id |-> d.id, files |-> d.files]
      BY <2>1, <2>2, <2>6
    <2>8. IsEvidence(d)
      BY <2>5, <2>7 DEF IsEvidence, OfOneArtifact
    <2>9. LensGrows /\ UploadsOK'
      BY <1>1 DEF LensGrows, LensInv, UploadsOK, lensVars
    <2>10. IsEvidence(d)'
      BY <2>8, <2>9, EvidenceStays
    <2>11. Step(p, "put", d)
      BY <1>3, <2>6
    <2>12. /\ at'[p] = [pc |-> "put", call |-> at[p].call, req |-> at[p].req, got |-> d]
           /\ \A q \in Procs : q # p => at'[q] = at[q]
      BY <2>11, StepTaken DEF CallInv
    <2>13. LensHand(p)'
      <3>1. at'[p].pc = "put" /\ at'[p].got = d
        BY <2>12
      <3>2. QED
        BY <3>1, <2>10 DEF LensHand, LogSteps
    <2>14. QED
      BY <1>1, <2>9, <2>12, <2>13, LensKept
  <1>4. QED
    BY <1>2, <1>3 DEF Download

\* What is parsed is a document in the store.
LEMMA ParseFindingsLens ==
  ASSUME CallInv, LensInv, NEW p \in Procs, ParseFindings(p), UNCHANGED answers
  PROVE  LensInv'
  <1> DEFINE r == at[p].req
             files == FilesAt(r.evidence)
             kept == Dedupe(RawFindings(files, r.profile), r.strategy)
             doc == [source |-> r.evidence, profile |-> r.profile, strategy |-> r.strategy,
                     findings |-> [n \in DOMAIN kept |-> Calibrate(kept[n])]]
  <1>1. at[p].pc = "parse_findings" /\ UNCHANGED <<objects, answers, lensVars>>
    BY DEF ParseFindings, storeVars
  <1>2. CASE Fails(p)
    BY <1>1, <1>2, FailTaken, LensAway DEF CallInv
  <1>3. CASE Step(p, "put", doc) /\ ~(UsesReport(r.profile) /\ Report(files) = Malformed)
    <2>1. r.evidence \in objects /\ Files(FilesAt(r.evidence))
      BY <1>1 DEF LensInv, LensHands, LensHand
    <2>2. PICK k : k = kept
      OBVIOUS
    <2>3. PICK d : d = doc
      OBVIOUS
    <2> HIDE DEF r
    <2>4. /\ d.source = r.evidence /\ d.profile = r.profile /\ d.strategy = r.strategy
          /\ d.findings = [n \in DOMAIN k |-> Calibrate(k[n])]
          /\ d = [source |-> d.source, profile |-> d.profile, strategy |-> d.strategy,
                  findings |-> d.findings]
      BY <2>2, <2>3
    <2>5. Complete(d) /\ \A n \in DOMAIN d.findings :
              d.findings[n].confidence \in Int /\ d.findings[n].confidence <= 100
      <3>1. Files(FilesAt(d.source))
        BY <2>1, <2>4
      <3>2. UsesReport(d.profile) => Report(FilesAt(d.source)) # Malformed
        BY <1>3, <2>4
      <3>3. k = Dedupe(RawFindings(FilesAt(d.source), d.profile), d.strategy)
        BY <2>2, <2>4
      <3>4. QED
        BY <2>4, <3>1, <3>2, <3>3, ParsedIsComplete
    <2>6. AreFindings(d)
      BY <2>1, <2>4, <2>5 DEF AreFindings
    <2>7. LensGrows /\ UploadsOK'
      BY <1>1 DEF LensGrows, LensInv, UploadsOK, lensVars
    <2>8. AreFindings(d)'
      BY <2>6, <2>7, FindingsStay
    <2>9. Step(p, "put", d)
      BY <1>3, <2>3
    <2>10. /\ at'[p] = [pc |-> "put", call |-> at[p].call, req |-> at[p].req, got |-> d]
           /\ \A q \in Procs : q # p => at'[q] = at[q]
      BY <2>9, StepTaken DEF CallInv
    <2>11. LensHand(p)'
      <3>1. at'[p].pc = "put" /\ at'[p].got = d
        BY <2>10
      <3>2. QED
        BY <3>1, <2>8 DEF LensHand, LogSteps
    <2>12. QED
      BY <1>1, <2>7, <2>10, <2>11, LensKept
  <1>4. QED
    BY <1>2, <1>3 DEF ParseFindings

\* A plain step of a tool that stores no document of its own, and the end of a
\* call.
LEMMA PlainLens ==
  ASSUME CallInv, LensInv, NEW p \in Procs, Plain(p), UNCHANGED <<objects, answers, lensVars>>,
         at'[p] = Idle \/ at[p].pc \notin EvidenceSteps
  PROVE  LensInv'
  BY LensAway DEF Plain

\* A step to the log by a tool that stores no document of its own.
LEMMA LogLens ==
  ASSUME CallInv, LensInv, NEW p \in Procs, NEW got, Step(p, "log", got),
         at[p].pc \notin EvidenceSteps \cup {"idle"}, UNCHANGED <<objects, answers, lensVars>>
  PROVE  LensInv'
  <1>1. /\ at'[p] = [pc |-> "log", call |-> at[p].call, req |-> at[p].req, got |-> got]
        /\ \A q \in Procs : q # p => at'[q] = at[q]
    BY StepTaken DEF CallInv
  <1>2. at'[p].pc = "log" /\ at'[p].req = at[p].req
    BY <1>1
  <1>3. QED
    BY <1>1, <1>2, LensAway

\* A step of a put stores what the call has in hand, or what the log stores.
LEMMA StoringLens ==
  ASSUME CallInv, LensInv, NEW p \in Procs, at[p].pc \in PutSteps \cup LogSteps,
         NEW pc \in PutSteps \cup LogSteps, Step(p, pc, at[p].got),
         pc \in PutSteps => at[p].pc \in PutSteps,
         objects \subseteq objects',
         \A d \in objects' \ objects :
            (at[p].pc \in PutSteps /\ d = at[p].got) \/ DOMAIN d = {"tool", "output"},
         UNCHANGED <<artifacts, uploaded, answers>>
  PROVE  LensInv'
  <1>1. PICK got : got = at[p].got
    OBVIOUS
  <1>2. /\ at'[p] = [pc |-> pc, call |-> at[p].call, req |-> at[p].req, got |-> got]
        /\ \A q \in Procs : q # p => at'[q] = at[q]
    BY <1>1, StepTaken DEF CallInv
  <1>3. LensGrows /\ UploadsOK'
    BY DEF LensGrows, LensInv, UploadsOK
  <1>4. LensHand(p)
    BY DEF LensInv, LensHands
  <1>5. at[p].pc \in PutSteps => IsEvidence(got) \/ AreFindings(got)
    BY <1>1, <1>4 DEF LensHand
  <1>6. at[p].req.tool \in Evidencing => Files(FilesAt(got))
    BY <1>1, <1>4, <1>5, FilesAtIs DEF LensHand
  <1>7. at[p].pc \in PutSteps => IsEvidence(got)' \/ AreFindings(got)'
    BY <1>3, <1>5, EvidenceStays, FindingsStay
  <1>8. LensHand(p)'
    <2>1. at'[p].pc = pc /\ at'[p].got = got /\ at'[p].req = at[p].req
      BY <1>2
    <2>2. QED
      BY <2>1, <1>6, <1>7 DEF LensHand, PutSteps, LogSteps
  <1>9. ASSUME NEW d \in objects' \ objects
        PROVE  /\ DOMAIN d = {"run", "name", "id", "files"} => IsEvidence(d)'
               /\ DOMAIN d = {"source", "profile", "strategy", "findings"} => AreFindings(d)'
    <2>1. CASE DOMAIN d = {"tool", "output"}
      BY <2>1
    <2>2. CASE at[p].pc \in PutSteps /\ d = got
      <3>1. IsEvidence(got)' => DOMAIN d = {"run", "name", "id", "files"}
        BY <2>2 DEF IsEvidence
      <3>2. AreFindings(got)' => DOMAIN d = {"source", "profile", "strategy", "findings"}
        BY <2>2 DEF AreFindings
      <3>3. QED
        BY <2>2, <3>1, <3>2, <1>7
    <2>3. QED
      BY <2>1, <2>2, <1>1
  <1>10. QED
    BY <1>2, <1>3, <1>8, <1>9, LensKept

\* What is put is what the call had in hand.
LEMMA PutDocumentLens ==
  ASSUME CallInv, LensInv, NEW p \in Procs, PutDocument(p), UNCHANGED answers
  PROVE  LensInv'
  <1> USE DEF PutSteps, LogSteps
  <1>1. UNCHANGED <<artifacts, uploaded>>
    BY DEF PutDocument, lensVars
  <1>2. CASE at[p].pc = "put" /\ Exists(p, at[p].got, "put_open", "log")
    BY <1>1, <1>2, StoringLens DEF Exists, storeVars
  <1>3. CASE at[p].pc = "put_open" /\ Open(p, at[p].got, "put_write")
    BY <1>1, <1>3, StoringLens DEF Open
  <1>4. CASE at[p].pc = "put_write" /\ Write(p, at[p].got, "log")
    BY <1>1, <1>4, StoringLens DEF Write
  <1>5. QED
    BY <1>2, <1>3, <1>4 DEF PutDocument

\* What the log stores is no document of AuditLens.
LEMMA LogPutLens ==
  ASSUME CallInv, LensInv, NEW p \in Procs, LogPut(p)
  PROVE  LensInv'
  <1> USE DEF PutSteps, LogSteps
  <1>1. UNCHANGED <<artifacts, uploaded, answers>>
    BY DEF LogPut, lensVars, callVars
  <1>2. DOMAIN Output(p) = {"tool", "output"}
    BY DEF Output
  <1>3. CASE at[p].pc = "log" /\ Exists(p, Output(p), "log_open", "append")
    BY <1>1, <1>3, StoringLens DEF Exists, storeVars
  <1>4. CASE at[p].pc = "log_open" /\ Open(p, Output(p), "log_write")
    BY <1>1, <1>2, <1>4, StoringLens DEF Open
  <1>5. CASE at[p].pc = "log_write" /\ Write(p, Output(p), "append")
    BY <1>1, <1>5, StoringLens DEF Write
  <1>6. QED
    BY <1>3, <1>4, <1>5 DEF LogPut

\* What fetch_evidence and parse_findings return may be parsed.
LEMMA LogAppendLens ==
  ASSUME CallInv, LensInv, NEW p \in Procs, LogAppend(p)
  PROVE  LensInv'
  <1> DEFINE answer == [call |-> at[p].call, req |-> at[p].req, output |-> at[p].got]
  <1>1. /\ at[p].pc = "append" /\ answers' = answers \cup {answer} /\ Fails(p)
        /\ UNCHANGED <<artifacts, uploaded, objects>>
    BY DEF LogAppend, lensVars, storeVars
  <1>2. at'[p] = Idle /\ \A q \in Procs : q # p => at'[q] = at[q]
    BY <1>1, FailTaken DEF CallInv
  <1>3. LensGrows /\ UploadsOK'
    BY <1>1 DEF LensGrows, LensInv, UploadsOK
  <1>4. LensHand(p)'
    <2>1. at'[p].pc = "idle"
      BY <1>2 DEF Idle
    <2>2. QED
      BY <2>1 DEF LensHand, PutSteps, LogSteps
  <1>5. PICK r, d : r = at[p].req /\ d = at[p].got
    OBVIOUS
  <1>6. r.tool \in Evidencing => Files(FilesAt(d))
    BY <1>1, <1>5 DEF LensInv, LensHands, LensHand, LogSteps
  <1>7. answer.req = r /\ answer.output = d
    BY <1>5
  <1> HIDE DEF answer
  <1>8. \A a \in answers' \ answers : a = answer
    BY <1>1
  <1>9. \A a \in answers' \ answers : a.req.tool \in Evidencing => Files(FilesAt(a.output))
    BY <1>6, <1>7, <1>8
  <1>10. QED
    BY <1>1, <1>2, <1>3, <1>4, <1>9, LensKept

\* What clients ask to be parsed is in the store, and has files or none.
LEMMA CallLens ==
  ASSUME CallInv, LensInv, NEW p \in Procs, NEW r \in Requests \cup ParseRequests, Call(p, r)
  PROVE  LensInv'
  <1> DEFINE c == [pc |-> r.tool, call |-> calls + 1, req |-> r, got |-> None]
  <1>1. /\ at' = [at EXCEPT ![p] = c]
        /\ UNCHANGED <<artifacts, uploaded, objects, answers>>
    BY DEF Call, lensVars, storeVars
  <1>2. at'[p] = c /\ \A q \in Procs : q # p => at'[q] = at[q]
    BY <1>1 DEF CallInv, Shaped
  <1>3. LensGrows /\ UploadsOK'
    BY <1>1 DEF LensGrows, LensInv, UploadsOK
  <1>4. at'[p].pc = r.tool /\ at'[p].req = r
    BY <1>2
  <1>5. r.tool \in {"list_runs", "fetch_evidence", "parse_findings", "generate_notes",
                    "start_scan", "list_receipts", "core"}
    BY RuntimeAssumption DEF ParseRequests
  <1>6. r.tool = "parse_findings" => r.evidence \in objects /\ Files(FilesAt(r.evidence))
    <2>1. CASE r \in ParseRequests
      <3>1. PICK a \in answers : a.req.tool \in Evidencing /\ r.evidence = a.output
        BY <2>1 DEF ParseRequests, Evidencing
      <3>2. QED
        BY <3>1 DEF CallInv, Filed, LensInv, DocumentsOK
    <2>2. CASE r \in Requests /\ r.tool = "parse_findings"
      <3>1. r.evidence \in Others /\ "files" \notin DOMAIN r.evidence
        BY <2>2, RuntimeAssumption
      <3>2. r.evidence \in objects
        BY <3>1 DEF LensInv, DocumentsOK
      <3>3. QED
        BY <3>1, <3>2 DEF FilesAt, Files
    <2>3. QED
      BY <2>1, <2>2
  <1>7. LensHand(p)'
    BY <1>1, <1>4, <1>5, <1>6 DEF LensHand, PutSteps, LogSteps
  <1>8. QED
    BY <1>1, <1>2, <1>3, <1>7, LensKept

\* What happens on GitHub disturbs no call and no document.
LEMMA LensOthers ==
  ASSUME LensInv, LensGrows, UploadsOK', UNCHANGED <<at, objects, answers>>
  PROVE  LensInv'
  <1>1. LensHands'
    BY LensHandStays DEF LensInv, LensHands
  <1>2. \A d \in EvidenceDocuments' : IsEvidence(d)'
    BY EvidenceStays DEF LensInv, DocumentsOK, EvidenceDocuments
  <1>3. \A d \in FindingsDocuments' : AreFindings(d)'
    BY FindingsStay DEF LensInv, DocumentsOK, FindingsDocuments
  <1>4. /\ \A a \in answers' : a.req.tool \in Evidencing => Files(FilesAt(a.output))
        /\ Others \subseteq objects'
    BY DEF LensInv, DocumentsOK
  <1>5. QED
    BY <1>1, <1>2, <1>3, <1>4 DEF LensInv, DocumentsOK

\* A new artifact has an id of its own.
LEMMA UploadLens ==
  ASSUME LensInv, NEW run \in RunIds, NEW name \in ArtifactNames, NEW zip \in Archives,
         Upload(run, name, zip), UNCHANGED answers
  PROVE  LensInv'
  <1> DEFINE new == [id |-> Len(uploaded) + 1, run |-> run, name |-> name, zip |-> zip]
  <1>1. /\ uploaded' = Append(uploaded, new) /\ artifacts' = <<new>> \o artifacts
        /\ UNCHANGED <<at, objects>>
    BY DEF Upload, storeVars
  <1>2. uploaded \in Seq(Artifacts) /\ artifacts \in Seq(ToSet(uploaded)) /\ Len(uploaded) \in Nat
        /\ \A i \in DOMAIN uploaded : uploaded[i].id = i
    BY DEF LensInv, UploadsOK
  <1>3. new \in Artifacts /\ new.id = Len(uploaded) + 1
    BY <1>2 DEF Artifacts
  <1> DEFINE V == Artifacts
  <1> HIDE DEF new, V
  <1>4. /\ uploaded' \in Seq(V) /\ Len(uploaded') = Len(uploaded) + 1
        /\ \A i \in 1 .. Len(uploaded) : uploaded'[i] = uploaded[i]
        /\ uploaded'[Len(uploaded) + 1] = new
    BY <1>1, <1>2, <1>3, AppendProperties DEF V
  <1>5. DOMAIN uploaded = 1 .. Len(uploaded) /\ DOMAIN uploaded' = 1 .. Len(uploaded) + 1
    BY <1>2, <1>4
  <1>6. LensGrows
    BY <1>1, <1>2, <1>4, <1>5 DEF LensGrows
  <1>7. \A i \in DOMAIN uploaded' : uploaded'[i].id = i
    <2> SUFFICES ASSUME NEW i \in 1 .. Len(uploaded) + 1 PROVE uploaded'[i].id = i
      BY <1>5
    <2>1. CASE i = Len(uploaded) + 1
      BY <2>1, <1>3, <1>4
    <2>2. CASE i # Len(uploaded) + 1
      BY <2>2, <1>2, <1>4, <1>5
    <2>3. QED
      BY <2>1, <2>2
  <1>8. ToSet(uploaded) \subseteq ToSet(uploaded') /\ new \in ToSet(uploaded')
    <2>1. \A i \in DOMAIN uploaded : i \in DOMAIN uploaded' /\ uploaded'[i] = uploaded[i]
      BY <1>6 DEF LensGrows
    <2>2. Len(uploaded) + 1 \in DOMAIN uploaded'
      BY <1>2, <1>5
    <2>3. QED
      BY <2>1, <2>2, <1>4 DEF ToSet
  <1>9. artifacts' \in Seq(ToSet(uploaded'))
    <2>1. artifacts \in Seq(ToSet(uploaded'))
      BY <1>2, <1>8, SeqMonotonic
    <2> DEFINE T == ToSet(uploaded')
    <2> HIDE DEF T
    <2>2. <<new>> \o artifacts \in Seq(T)
      BY <2>1, <1>8, PrependIs DEF T
    <2>3. QED
      BY <2>2, <1>1 DEF T
  <1>10. UploadsOK'
    BY <1>4, <1>7, <1>9 DEF UploadsOK, V
  <1>11. QED
    BY <1>1, <1>6, <1>10, LensOthers

\* What expires is still known by its id.
LEMMA ExpireLens ==
  ASSUME LensInv, NEW n \in DOMAIN artifacts, Expire(n), UNCHANGED answers
  PROVE  LensInv'
  <1>1. artifacts' = RemoveAt(artifacts, n) /\ UNCHANGED <<at, objects, uploaded>>
    BY DEF Expire, storeVars
  <1>2. artifacts \in Seq(ToSet(uploaded)) /\ n \in 1 .. Len(artifacts)
    BY DEF LensInv, UploadsOK
  <1>3. artifacts' \in Seq(ToSet(uploaded))
    <2> DEFINE T == ToSet(uploaded)
    <2> HIDE DEF T
    <2>1. QED
      BY <1>1, <1>2, RemoveAtIs DEF T
  <1>4. UploadsOK'
    BY <1>1, <1>3 DEF LensInv, UploadsOK
  <1>5. LensGrows
    BY <1>1 DEF LensGrows
  <1>6. QED
    BY <1>1, <1>4, <1>5, LensOthers

\* The reads of Release Butler touch no document.
LEMMA ReleaseReadsLens ==
  ASSUME CallInv, LensInv, NEW p \in Procs, ReleaseReadsHandle(p),
         UNCHANGED <<objects, answers, lensVars>>
  PROVE  LensInv'
  <1>1. Plain(p)
    BY ReleaseReadsPlain
  <1>2. at[p].pc \notin EvidenceSteps
    BY DEF ReleaseReadsHandle, ListReleases, CompareCommits, ListCommits, EvidenceSteps,
           PutSteps, LogSteps, Evidencing
  <1>3. QED
    BY <1>1, <1>2, PlainLens

\* Nor do the steps of start_scan and the tools that only read.
LEMMA ScanLens ==
  ASSUME CallInv, LensInv, NEW p \in Procs,
         ScanPolicy(p) \/ ScanLookup(p) \/ ScanAdmit(p) \/ ListReceipts(p) \/ ReadOnly(p)
  PROVE  LensInv'
  <1> USE DEF EvidenceSteps, PutSteps, LogSteps, Evidencing, CallInv
  <1>1. UNCHANGED <<objects, answers, lensVars>>
    BY DEF ScanPolicy, ScanLookup, ScanAdmit, ListReceipts, ReadOnly, callVars, storeVars
  <1>2. CASE Fails(p)
    BY <1>1, <1>2, PlainFail, FailTaken, PlainLens
  <1>3. CASE ScanPolicy(p) /\ ~Fails(p)
    <2>1. Step(p, "lookup", None) /\ at[p].pc = "start_scan"
      BY <1>3 DEF ScanPolicy
    <2>2. QED
      BY <1>1, <2>1, PlainStep, PlainLens
  <1>4. CASE ScanLookup(p)
    <2>1. PICK row : Step(p, "decrypt", row) /\ at[p].pc = "lookup"
      BY <1>4 DEF ScanLookup
    <2>2. /\ at'[p] = [pc |-> "decrypt", call |-> at[p].call, req |-> at[p].req, got |-> row]
          /\ \A q \in Procs : q # p => at'[q] = at[q]
      BY <2>1, StepTaken
    <2>3. at'[p].pc = "decrypt" /\ at'[p].req = at[p].req
      BY <2>2
    <2>4. QED
      BY <1>1, <2>1, <2>2, <2>3, LensAway
  <1>5. CASE ScanAdmit(p) /\ ~Fails(p)
    <2>1. Step(p, "log", [job |-> at[p].call]) /\ at[p].pc = "decrypt"
      BY <1>5 DEF ScanAdmit, Admit
    <2>2. QED
      BY <1>1, <2>1, LogLens
  <1>6. CASE ReadOnly(p) /\ ~Fails(p)
    <2>1. Step(p, "log", [found |-> at[p].req.tool]) /\ at[p].pc = "core"
      BY <1>6 DEF ReadOnly
    <2>2. QED
      BY <1>1, <2>1, LogLens
  <1>7. CASE ListReceipts(p)
    <2>1. PICK rows : Step(p, "log", rows) /\ at[p].pc = "list_receipts"
      BY <1>7 DEF ListReceipts
    <2>2. QED
      BY <1>1, <2>1, LogLens
  <1>8. QED
    BY <1>2, <1>3, <1>4, <1>5, <1>6, <1>7

\* list_runs stores no document of its own.
LEMMA ListRunsLens ==
  ASSUME CallInv, LensInv, NEW p \in Procs, ListRuns(p), UNCHANGED answers
  PROVE  LensInv'
  <1>1. PICK got : Step(p, "log", got)
    BY DEF ListRuns
  <1>2. at[p].pc = "list_runs" /\ UNCHANGED <<objects, answers, lensVars>>
    BY DEF ListRuns, storeVars
  <1>3. QED
    BY <1>1, <1>2, LogLens DEF EvidenceSteps, PutSteps, LogSteps, Evidencing

\* Every step preserves the invariant of evidence and findings.
LEMMA NextLens == CallInv /\ LensInv /\ [Next]_vars => LensInv'
  <1> SUFFICES ASSUME CallInv, LensInv, [Next]_vars PROVE LensInv'
    OBVIOUS
  <1>1. ASSUME UNCHANGED <<at, objects, answers, lensVars>>
        PROVE  LensInv'
    <2>1. LensGrows /\ UploadsOK'
      BY <1>1 DEF LensGrows, LensInv, UploadsOK, lensVars
    <2>2. QED
      BY <1>1, <2>1, LensOthers
  <1>2. CASE UNCHANGED vars
    BY <1>1, <1>2 DEF vars, callVars, storeVars
  <1>3. CASE GitHubChanges
    <2>1. UNCHANGED answers
      BY <1>3 DEF GitHubChanges
    <2>2. CASE AuditLensWorld
      BY <2>1, <2>2, UploadLens, ExpireLens DEF AuditLensWorld
    <2>3. CASE ReleaseReadsWorld /\ UNCHANGED <<lensVars, storeVars>>
      <3>1. UNCHANGED at
        BY <2>3 DEF ReleaseReadsWorld, Push, Publish, Unpublish
      <3>2. QED
        BY <1>1, <2>1, <2>3, <3>1 DEF storeVars
    <2>4. QED
      BY <1>3, <2>2, <2>3 DEF GitHubChanges
  <1>4. ASSUME NEW p \in Procs, Handle(p)
        PROVE  LensInv'
    <2>1. CASE AuditLensHandle(p) /\ UNCHANGED callVars
      <3>1. UNCHANGED answers
        BY <2>1 DEF callVars
      <3>2. QED
        BY <2>1, <3>1, ListRunsLens, ListArtifactsLens, DownloadLens, PutDocumentLens,
           ParseFindingsLens DEF AuditLensHandle
    <2>2. CASE ReleaseReadsHandle(p) /\ UNCHANGED <<lensVars, callVars, storeVars>>
      BY <2>2, ReleaseReadsLens DEF callVars, storeVars
    <2>3. QED
      BY <1>4, <2>1, <2>2, ScanLens, LogPutLens, LogAppendLens DEF Handle
  <1>5. ASSUME NEW p \in Procs, CallRaises(p)
        PROVE  LensInv'
    <2>1. UNCHANGED <<objects, answers, lensVars>>
      BY <1>5 DEF CallRaises, storeVars
    <2>2. CASE at[p].pc = "compare"
      <3>1. Step(p, "commits", at[p].got)
        BY <2>2, <1>5 DEF CallRaises
      <3>2. Plain(p)
        BY <2>2, <3>1, PlainStep DEF CallInv, EvidenceSteps, PutSteps, LogSteps, Evidencing
      <3>3. QED
        BY <2>1, <2>2, <3>2, PlainLens DEF EvidenceSteps, PutSteps, LogSteps, Evidencing
    <2>3. CASE at[p].pc # "compare"
      BY <2>1, <2>3, <1>5, PlainFail, FailTaken, PlainLens DEF CallRaises, CallInv
    <2>4. QED
      BY <2>2, <2>3
  <1>6. ASSUME NEW p \in Procs, Crash(p)
        PROVE  LensInv'
    BY <1>6, PlainFail, FailTaken, PlainLens DEF Crash, CallInv, storeVars
  <1>7. ASSUME NEW p \in Procs, Boot(p) \/ StoreCredential(p)
        PROVE  LensInv'
    BY <1>1, <1>7 DEF Boot, StoreCredential, callVars, storeVars
  <1>8. QED
    BY <1>2, <1>3, <1>4, <1>5, <1>6, <1>7, CallLens DEF Next

\* The inductive invariant of AuditLens: artifacts keep their ids, what a call
\* has in hand is of the artifact it listed, and the store's documents are what
\* they say.
THEOREM RuntimeLensInvariant == Spec => []LensInv
  <1>1. Init => LensInv
    <2> SUFFICES ASSUME Init PROVE LensInv
      OBVIOUS
    <2>1. /\ at = [p \in Procs |-> Idle] /\ objects = Others /\ answers = {}
          /\ uploaded = <<>> /\ artifacts = <<>>
      BY DEF Init, AuditLensInit
    <2>2. UploadsOK
      <3>1. DOMAIN uploaded = {}
        BY <2>1
      <3>2. uploaded \in Seq(Artifacts) /\ artifacts \in Seq(ToSet(uploaded))
        BY <2>1, EmptySeq
      <3>3. QED
        BY <3>1, <3>2 DEF UploadsOK
    <2>3. LensHands
      <3> SUFFICES ASSUME NEW p \in Procs PROVE LensHand(p)
        BY DEF LensHands
      <3>1. at[p].pc = "idle"
        BY <2>1 DEF Idle
      <3>2. QED
        BY <3>1 DEF LensHand, PutSteps, LogSteps
    <2>4. DocumentsOK
      <3>1. EvidenceDocuments = {} /\ FindingsDocuments = {}
        BY <2>1, RuntimeAssumption DEF EvidenceDocuments, FindingsDocuments
      <3>2. QED
        BY <2>1, <3>1 DEF DocumentsOK
    <2>5. QED
      BY <2>2, <2>3, <2>4 DEF LensInv
  <1>2. QED
    BY <1>1, RuntimeInvariant, NextLens, PTL DEF Spec

\* Evidence is the text of one artifact of its run and name, whatever is
\* uploaded or expires between the two requests.
THEOREM RuntimeEvidenceIsOneArtifact == Spec => []EvidenceIsOneArtifact
  <1>1. LensInv => EvidenceIsOneArtifact
    BY DEF LensInv, DocumentsOK, IsEvidence, EvidenceIsOneArtifact
  <1>2. QED
    BY RuntimeLensInvariant, <1>1, PTL

\* Findings are of evidence in the store, complete and calibrated once, for any
\* files, reports, profiles and strategies.
THEOREM RuntimeFindingsAreComplete == Spec => []FindingsAreComplete
  <1>1. LensInv => FindingsAreComplete
    BY DEF LensInv, DocumentsOK, AreFindings, FindingsAreComplete
  <1>2. QED
    BY RuntimeLensInvariant, <1>1, PTL

\* The runtime keeps its types: calls are numbered, documents have confidences
\* of at most 1.
THEOREM RuntimeTypes == Spec => []TypeOK
  <1>1. CallInv => \A p \in Procs : DOMAIN at[p] = DOMAIN Idle /\ at[p].call \in 0 .. calls
    <2> SUFFICES ASSUME CallInv, NEW p \in Procs
                 PROVE  DOMAIN at[p] = DOMAIN Idle /\ at[p].call \in 0 .. calls
      OBVIOUS
    <2>1. at[p].call \in 0 .. calls
      BY DEF CallInv, HandsOK, HandOK
    <2>2. PICK c, k, r, g : at[p] = [pc |-> c, call |-> k, req |-> r, got |-> g]
      BY DEF CallInv, Shaped
    <2>3. DOMAIN at[p] = {"pc", "call", "req", "got"}
      BY <2>2
    <2>4. DOMAIN Idle = {"pc", "call", "req", "got"}
      BY DEF Idle
    <2>5. QED
      BY <2>1, <2>3, <2>4
  <1>2. LensInv => \A d \in FindingsDocuments : \A n \in DOMAIN d.findings :
                      d.findings[n].confidence \in Int /\ d.findings[n].confidence <= 100
    BY DEF LensInv, DocumentsOK, AreFindings
  <1>3. CredentialsTypeOK /\ CallInv /\ LensInv => TypeOK
    BY <1>1, <1>2 DEF TypeOK
  <1>4. Spec => []CredentialsTypeOK
    BY RuntimeImplementsCredentials, CredentialsTypes, PTL
  <1>5. QED
    BY <1>3, <1>4, RuntimeInvariant, RuntimeLensInvariant, PTL

-----------------------------------------------------------------------------
(* Release notes                                                           *)

\* Notes that were compared are of two commits their tags were at.
NotesOK(n) ==
    /\ n.from \in Tags /\ n.to \in Tags
    /\ \E base \in wasAt[n.from], tip \in wasAt[n.to] :
          n.commits = Newest(Between(base, tip), CompareLimit)

TagsOK ==
    /\ releases \in Seq(Tags)
    /\ tagged \in [Tags -> Commits \cup {None}] /\ wasAt \in [Tags -> SUBSET Commits]
    /\ \A t \in Tags : tagged[t] # None => tagged[t] \in wasAt[t]

\* The steps of generate_notes before it is logged.
Noting == {"generate_notes", "compare", "commits"}

NotesHand(p) ==
    LET c == at[p] IN
    /\ c.pc # "idle" /\ c.req.tool = "generate_notes" => c.pc \in Noting \cup LogSteps
    /\ c.pc = "generate_notes" => {c.req.tag, c.req.from, c.req.to} \subseteq Tags \cup {None}
    /\ c.pc = "compare" => c.got.from \in Tags /\ c.got.to \in Tags
    /\ c.pc \in LogSteps /\ c.req.tool = "generate_notes" => c.got.fallback \/ NotesOK(c.got)

NotesInv ==
    /\ TagsOK
    /\ \A p \in Procs : NotesHand(p)
    /\ \A a \in answers : a.req.tool = "generate_notes" => a.output.fallback \/ NotesOK(a.output)

\* A tag was wherever it was before.
NotesStay ==
  /\ TagsOK /\ TagsOK'
  /\ \A t \in Tags : wasAt[t] \subseteq wasAt'[t]

\* So notes stay what they are, and what a call has in hand.
LEMMA NotesOKStays ==
  ASSUME NotesStay, NEW n, NotesOK(n)
  PROVE  NotesOK(n)'
  BY DEF NotesStay, NotesOK, Newest, Between

\* The hand of a process that takes no step.
LEMMA NotesHandStays ==
  ASSUME NotesStay, NEW q \in Procs, NotesHand(q), at'[q] = at[q]
  PROVE  NotesHand(q)'
  <1> PICK c : c = at[q]
    OBVIOUS
  <1>1. c.pc \in LogSteps /\ c.req.tool = "generate_notes" => c.got.fallback \/ NotesOK(c.got)'
    BY NotesOKStays DEF NotesHand
  <1>2. QED
    BY <1>1 DEF NotesHand

\* It is enough to look at the process that takes the step, and at what is new.
LEMMA NotesKept ==
  ASSUME NotesInv, NotesStay, NEW p \in Procs, NotesHand(p)',
         \A q \in Procs : q # p => at'[q] = at[q],
         \A a \in answers' \ answers :
            a.req.tool = "generate_notes" => a.output.fallback \/ NotesOK(a.output)'
  PROVE  NotesInv'
  <1>1. ASSUME NEW q \in Procs PROVE NotesHand(q)'
    <2>1. CASE q # p
      BY <2>1, NotesHandStays DEF NotesInv
    <2>2. QED
      BY <2>1
  <1>2. ASSUME NEW a \in answers', a.req.tool = "generate_notes"
        PROVE  a.output.fallback \/ NotesOK(a.output)'
    <2>1. CASE a \in answers
      <3> PICK n : n = a.output
        OBVIOUS
      <3>1. n.fallback \/ NotesOK(n)
        BY <2>1, <1>2 DEF NotesInv
      <3>2. QED
        BY <3>1, NotesOKStays
    <2>2. QED
      BY <2>1, <1>2
  <1>3. QED
    BY <1>1, <1>2 DEF NotesInv, NotesStay

\* What leaves GitHub alone leaves the tags where they are.
LEMMA TagsKept ==
  ASSUME NotesInv, UNCHANGED releaseVars
  PROVE  NotesStay
  BY DEF NotesInv, NotesStay, TagsOK, releaseVars

\* The end of a call.
LEMMA NotesFail ==
  ASSUME CallInv, NotesInv, NEW p \in Procs, Fails(p), UNCHANGED <<releaseVars, answers>>
  PROVE  NotesInv'
  <1>1. at'[p].pc = "idle" /\ \A q \in Procs : q # p => at'[q] = at[q]
    BY FailTaken DEF CallInv, Idle
  <1>2. NotesHand(p)'
    BY <1>1 DEF NotesHand, LogSteps
  <1>3. QED
    BY <1>1, <1>2, TagsKept, NotesKept

\* A step of another tool.
LEMMA NotesStep ==
  ASSUME CallInv, NotesInv, NEW p \in Procs, NEW pc, NEW got, Step(p, pc, got),
         at[p].pc \notin Noting \cup LogSteps \cup {"idle"}, pc \notin Noting,
         UNCHANGED <<releaseVars, answers>>
  PROVE  NotesInv'
  <1>1. /\ at'[p] = [pc |-> pc, call |-> at[p].call, req |-> at[p].req, got |-> got]
        /\ \A q \in Procs : q # p => at'[q] = at[q]
    BY StepTaken DEF CallInv
  <1>2. at'[p].pc = pc /\ at'[p].req = at[p].req
    BY <1>1
  <1>3. at[p].req.tool # "generate_notes"
    BY DEF NotesInv, NotesHand
  <1>4. NotesHand(p)'
    BY <1>2, <1>3 DEF NotesHand, Noting
  <1>5. QED
    BY <1>1, <1>4, TagsKept, NotesKept

\* A page of releases is one of their tags each.
LEMMA PageIs ==
  ASSUME TagsOK
  PROVE  ReleasePage(releases) \in Seq(Tags)
  <1> DEFINE size == IF Len(releases) < ListedReleases THEN Len(releases) ELSE ListedReleases
  <1>1. releases \in Seq(Tags) /\ Len(releases) \in Nat
    BY DEF TagsOK
  <1>2. size \in Int /\ size <= Len(releases)
    BY <1>1, ReleaseReadsAssumption
  <1> HIDE DEF size
  <1>3. \A i \in 1 .. size : releases[i] \in Tags
    BY <1>1, <1>2, ElementOfSeq
  <1>4. SubSeq(releases, 1, size) \in Seq(Tags)
    BY <1>2, <1>3, SubSeqProperties
  <1>5. QED
    BY <1>4 DEF ReleasePage, size

\* What a range is resolved to are tags, or nothing.
LEMMA ResolvedIs ==
  ASSUME NEW r, {r.tag, r.from, r.to} \subseteq Tags \cup {None}, NEW list \in Seq(Tags)
  PROVE  /\ ResolvedTo(r, list) \in Tags \cup {None}
         /\ ResolvedFrom(r, list) \in Tags \cup {None}
  <1>1. Len(list) \in Nat /\ DOMAIN list = 1 .. Len(list)
    OBVIOUS
  <1>2. ResolvedTo(r, list) \in Tags \cup {None}
    <2>1. list # <<>> => Head(list) \in Tags
      OBVIOUS
    <2>2. QED
      BY <2>1 DEF ResolvedTo
  <1>3. ASSUME NEW to PROVE PreviousTag(list, to) \in Tags \cup {None}
    <2> DEFINE named == {n \in DOMAIN list : list[n] = to}
    <2>1. CASE named = {} \/ Min(named) = Len(list)
      BY <2>1 DEF PreviousTag
    <2>2. CASE ~(named = {} \/ Min(named) = Len(list))
      <3>1. named \in SUBSET (1 .. Len(list))
        BY <1>1
      <3>2. PreviousTag(list, to) = list[Min(named) + 1]
        BY <2>2 DEF PreviousTag
      <3> HIDE DEF named
      <3>3. Min(named) \in 1 .. Len(list) /\ Min(named) # Len(list)
        BY <1>1, <2>2, <3>1, MinIs
      <3>4. Min(named) + 1 \in 1 .. Len(list)
        BY <1>1, <3>3
      <3>5. QED
        BY <3>2, <3>4, ElementOfSeq
    <2>3. QED
      BY <2>1, <2>2
  <1>4. ResolvedFrom(r, list) \in Tags \cup {None}
    BY <1>3 DEF ResolvedFrom
  <1>5. QED
    BY <1>2, <1>4

\* The range is of two tags, or is not compared.
LEMMA ListReleasesNotes ==
  ASSUME CallInv, NotesInv, NEW p \in Procs, ListReleases(p), UNCHANGED answers
  PROVE  NotesInv'
  <1>1. PICK page : page = ReleasePage(releases)
    OBVIOUS
  <1>2. PICK f, t : f = ResolvedFrom(at[p].req, page) /\ t = ResolvedTo(at[p].req, page)
    OBVIOUS
  <1>3. PICK range : range = [from |-> f, to |-> t]
    OBVIOUS
  <1>4. range.from = f /\ range.to = t
    BY <1>3
  <1>5. PICK pc : pc = IF None \in {f, t} THEN "commits" ELSE "compare"
    OBVIOUS
  <1>6. at[p].pc = "generate_notes" /\ Step(p, pc, range) /\ UNCHANGED releaseVars
    BY <1>1, <1>2, <1>3, <1>5 DEF ListReleases
  <1>7. f \in Tags \cup {None} /\ t \in Tags \cup {None}
    <2>1. {at[p].req.tag, at[p].req.from, at[p].req.to} \subseteq Tags \cup {None}
      BY <1>6 DEF NotesInv, NotesHand
    <2>2. page \in Seq(Tags)
      BY <1>1, PageIs DEF NotesInv
    <2>3. QED
      BY <2>1, <2>2, <1>2, ResolvedIs
  <1>8. /\ at'[p] = [pc |-> pc, call |-> at[p].call, req |-> at[p].req, got |-> range]
        /\ \A q \in Procs : q # p => at'[q] = at[q]
    BY <1>6, StepTaken DEF CallInv
  <1>9. at'[p].pc = pc /\ at'[p].got = range
    BY <1>8
  <1>10. NotesHand(p)'
    BY <1>4, <1>5, <1>7, <1>9 DEF NotesHand, Noting, LogSteps
  <1>11. QED
    BY <1>6, <1>8, <1>10, TagsKept, NotesKept

\* What is compared are the commits the two tags are at by now.
LEMMA CompareCommitsNotes ==
  ASSUME CallInv, NotesInv, NEW p \in Procs, CompareCommits(p), UNCHANGED answers
  PROVE  NotesInv'
  <1>1. PICK range : range = at[p].got
    OBVIOUS
  <1>2. PICK base, tip : base = tagged[range.from] /\ tip = tagged[range.to]
    OBVIOUS
  <1>3. PICK S : S = Newest(Between(base, tip), CompareLimit)
    OBVIOUS
  <1>4. at[p].pc = "compare" /\ UNCHANGED releaseVars
    BY DEF CompareCommits
  <1>5. NotesStay
    BY <1>4, TagsKept
  <1>6. CASE Step(p, "commits", range)
    <2>1. /\ at'[p] = [pc |-> "commits", call |-> at[p].call, req |-> at[p].req, got |-> range]
          /\ \A q \in Procs : q # p => at'[q] = at[q]
      BY <1>6, StepTaken DEF CallInv
    <2>2. at'[p].pc = "commits"
      BY <2>1
    <2>3. NotesHand(p)'
      BY <2>2 DEF NotesHand, Noting, LogSteps
    <2>4. QED
      BY <1>5, <2>1, <2>3, NotesKept
  <1>7. CASE None \notin {base, tip} /\ Step(p, "log", Notes(range, S, FALSE))
    <2>1. PICK n : n = Notes(range, S, FALSE)
      OBVIOUS
    <2>2. n.from = range.from /\ n.to = range.to /\ n.commits = S
      BY <2>1 DEF Notes
    <2>3. range.from \in Tags /\ range.to \in Tags
      BY <1>1, <1>4 DEF NotesInv, NotesHand
    <2>4. base \in wasAt[range.from] /\ tip \in wasAt[range.to]
      BY <1>2, <1>7, <2>3 DEF NotesInv, TagsOK
    <2>5. NotesOK(n)
      BY <1>3, <2>2, <2>3, <2>4 DEF NotesOK
    <2>6. NotesOK(n)'
      BY <1>5, <2>5, NotesOKStays
    <2>7. /\ at'[p] = [pc |-> "log", call |-> at[p].call, req |-> at[p].req, got |-> n]
          /\ \A q \in Procs : q # p => at'[q] = at[q]
      BY <1>7, <2>1, StepTaken DEF CallInv
    <2>8. at'[p].pc = "log" /\ at'[p].got = n
      BY <2>7
    <2>9. NotesHand(p)'
      BY <2>6, <2>8 DEF NotesHand, LogSteps
    <2>10. QED
      BY <1>5, <2>7, <2>9, NotesKept
  <1>8. QED
    BY <1>1, <1>2, <1>3, <1>6, <1>7 DEF CompareCommits

\* The newest commits are told as such.
LEMMA ListCommitsNotes ==
  ASSUME CallInv, NotesInv, NEW p \in Procs, ListCommits(p), UNCHANGED answers
  PROVE  NotesInv'
  <1>1. PICK n : n = Notes(at[p].got, Newest(Reach[head], Window(at[p].req)), TRUE)
    OBVIOUS
  <1>2. Step(p, "log", n) /\ UNCHANGED releaseVars
    BY <1>1 DEF ListCommits
  <1>3. n.fallback = TRUE
    BY <1>1 DEF Notes
  <1>4. /\ at'[p] = [pc |-> "log", call |-> at[p].call, req |-> at[p].req, got |-> n]
        /\ \A q \in Procs : q # p => at'[q] = at[q]
    BY <1>2, StepTaken DEF CallInv
  <1>5. at'[p].pc = "log" /\ at'[p].got = n
    BY <1>4
  <1>6. NotesHand(p)'
    BY <1>3, <1>5 DEF NotesHand, LogSteps
  <1>7. QED
    BY <1>2, <1>4, <1>6, TagsKept, NotesKept

\* The put of what is logged changes neither the notes nor the tool.
LEMMA LogPutNotes ==
  ASSUME CallInv, NotesInv, NEW p \in Procs, LogPut(p)
  PROVE  NotesInv'
  <1>1. UNCHANGED <<releaseVars, answers>> /\ at[p].pc \in LogSteps
    BY DEF LogPut, callVars, LogSteps
  <1>2. PICK pc \in LogSteps : Step(p, pc, at[p].got)
    BY DEF LogPut, LogSteps, Exists, Open, Write
  <1>3. PICK n, r : n = at[p].got /\ r = at[p].req
    OBVIOUS
  <1>4. /\ at'[p] = [pc |-> pc, call |-> at[p].call, req |-> at[p].req, got |-> at[p].got]
        /\ \A q \in Procs : q # p => at'[q] = at[q]
    BY <1>2, StepTaken DEF CallInv
  <1>5. at'[p].pc = pc /\ at'[p].req = r /\ at'[p].got = n
    BY <1>3, <1>4
  <1>6. r.tool = "generate_notes" => n.fallback \/ NotesOK(n)
    BY <1>1, <1>3 DEF NotesInv, NotesHand
  <1>7. NotesStay
    BY <1>1, TagsKept
  <1>8. r.tool = "generate_notes" => n.fallback \/ NotesOK(n)'
    BY <1>6, <1>7, NotesOKStays
  <1>9. NotesHand(p)'
    BY <1>2, <1>5, <1>8 DEF NotesHand, LogSteps
  <1>10. QED
    BY <1>1, <1>4, <1>7, <1>9, NotesKept

\* What is answered is what was logged.
LEMMA LogAppendNotes ==
  ASSUME CallInv, NotesInv, NEW p \in Procs, LogAppend(p)
  PROVE  NotesInv'
  <1> DEFINE answer == [call |-> at[p].call, req |-> at[p].req, output |-> at[p].got]
  <1>1. /\ at[p].pc = "append" /\ answers' = answers \cup {answer} /\ Fails(p)
        /\ UNCHANGED releaseVars
    BY DEF LogAppend
  <1>2. PICK n, r : n = at[p].got /\ r = at[p].req
    OBVIOUS
  <1>3. answer.req = r /\ answer.output = n
    BY <1>2
  <1> HIDE DEF answer
  <1>4. at'[p].pc = "idle" /\ \A q \in Procs : q # p => at'[q] = at[q]
    BY <1>1, FailTaken DEF CallInv, Idle
  <1>5. NotesStay
    BY <1>1, TagsKept
  <1>6. r.tool = "generate_notes" => n.fallback \/ NotesOK(n)'
    BY <1>1, <1>2, <1>5, NotesOKStays DEF NotesInv, NotesHand, LogSteps
  <1>7. \A a \in answers' \ answers :
          a.req.tool = "generate_notes" => a.output.fallback \/ NotesOK(a.output)'
    <2> SUFFICES ASSUME NEW a \in answers' \ answers, a.req.tool = "generate_notes"
                 PROVE  a.output.fallback \/ NotesOK(a.output)'
      OBVIOUS
    <2>1. a.output = n /\ r.tool = "generate_notes"
      BY <1>1, <1>3
    <2>2. QED
      BY <2>1, <1>6
  <1>8. NotesHand(p)'
    BY <1>4 DEF NotesHand, LogSteps
  <1>9. QED
    BY <1>4, <1>5, <1>7, <1>8, NotesKept

\* A call names tags, or nothing.
LEMMA CallNotes ==
  ASSUME CallInv, NotesInv, NEW p \in Procs, NEW r \in Requests \cup ParseRequests, Call(p, r)
  PROVE  NotesInv'
  <1> DEFINE c == [pc |-> r.tool, call |-> calls + 1, req |-> r, got |-> None]
  <1>1. at' = [at EXCEPT ![p] = c] /\ UNCHANGED <<releaseVars, answers>>
    BY DEF Call
  <1>2. at'[p] = c /\ \A q \in Procs : q # p => at'[q] = at[q]
    BY <1>1 DEF CallInv, Shaped
  <1>3. at'[p].pc = r.tool /\ at'[p].req = r
    BY <1>2
  <1>4. r.tool \in {"list_runs", "fetch_evidence", "parse_findings", "generate_notes",
                    "start_scan", "list_receipts", "core"}
    BY RuntimeAssumption DEF ParseRequests
  <1>5. r.tool = "generate_notes" => {r.tag, r.from, r.to} \subseteq Tags \cup {None}
    BY RuntimeAssumption DEF ParseRequests
  <1>6. NotesHand(p)'
    BY <1>3, <1>4, <1>5 DEF NotesHand, Noting, LogSteps
  <1>7. QED
    BY <1>1, <1>2, <1>6, TagsKept, NotesKept

\* What happens on GitHub moves a tag, or takes it away, but not from where it was.
LEMMA ReleasesChangeTags ==
  ASSUME TagsOK, ReleaseReadsWorld
  PROVE  NotesStay
  <1>1. releases \in Seq(Tags) /\ Len(releases) \in Nat /\ DOMAIN releases = 1 .. Len(releases)
    BY DEF TagsOK
  <1>2. CASE Push
    BY <1>2 DEF Push, NotesStay, TagsOK
  <1>3. ASSUME NEW t \in Tags, Publish(t)
        PROVE  NotesStay
    <2>1. releases' \in Seq(Tags)
      <3>1. PICK n \in 1 .. Len(releases) + 1 : releases' = InsertAt(releases, n, t)
        BY <1>3 DEF Publish
      <3>2. SubSeq(releases, 1, n - 1) \in Seq(Tags)
        <4>1. \A i \in 1 .. n - 1 : releases[i] \in Tags
          BY <1>1, ElementOfSeq
        <4>2. QED
          BY <4>1, SubSeqProperties
      <3>3. SubSeq(releases, n, Len(releases)) \in Seq(Tags)
        <4>1. \A i \in n .. Len(releases) : releases[i] \in Tags
          BY <1>1, ElementOfSeq
        <4>2. QED
          BY <1>1, <4>1, SubSeqProperties
      <3>4. <<t>> \in Seq(Tags)
        OBVIOUS
      <3> DEFINE a == SubSeq(releases, 1, n - 1)
                 b == SubSeq(releases, n, Len(releases))
                 c == <<t>>
      <3>5. releases' = a \o c \o b
        BY <3>1 DEF InsertAt
      <3> HIDE DEF a, b, c
      <3>6. a \o c \in Seq(Tags)
        BY <3>2, <3>4, ConcatProperties DEF a, c
      <3>7. QED
        BY <3>3, <3>5, <3>6, ConcatProperties DEF b
    <2>2. CASE UNCHANGED <<tagged, wasAt>>
      BY <2>1, <2>2 DEF NotesStay, TagsOK
    <2>3. CASE \E c \in Commits \cup {None} :
                 /\ tagged' = [tagged EXCEPT ![t] = c]
                 /\ wasAt' = [wasAt EXCEPT ![t] = @ \cup ({c} \ {None})]
      <3>1. PICK c \in Commits \cup {None} :
                 /\ tagged' = [tagged EXCEPT ![t] = c]
                 /\ wasAt' = [wasAt EXCEPT ![t] = wasAt[t] \cup ({c} \ {None})]
        BY <2>3
      <3>2. PICK D : D = {c} \ {None}
        OBVIOUS
      <3>3. wasAt' = [wasAt EXCEPT ![t] = wasAt[t] \cup D] /\ D \subseteq Commits
            /\ (c # None => c \in D)
        BY <3>1, <3>2
      <3>4. tagged' \in [Tags -> Commits \cup {None}]
        BY <3>1 DEF TagsOK
      <3>5. wasAt' \in [Tags -> SUBSET Commits]
        BY <3>3 DEF TagsOK
      <3>6. \A u \in Tags : wasAt[u] \subseteq wasAt'[u]
        BY <3>3 DEF TagsOK
      <3>7. ASSUME NEW u \in Tags, tagged'[u] # None PROVE tagged'[u] \in wasAt'[u]
        <4>1. CASE u = t
          BY <4>1, <3>1, <3>3, <3>7 DEF TagsOK
        <4>2. CASE u # t
          BY <4>2, <3>1, <3>3, <3>7 DEF TagsOK
        <4>3. QED
          BY <4>1, <4>2
      <3>8. QED
        BY <2>1, <3>4, <3>5, <3>6, <3>7 DEF NotesStay, TagsOK
    <2>4. QED
      BY <1>3, <2>2, <2>3 DEF Publish
  <1>4. ASSUME NEW n \in DOMAIN releases, Unpublish(n)
        PROVE  NotesStay
    <2>1. releases' \in Seq(Tags)
      BY <1>1, <1>4, RemoveAtIs DEF Unpublish
    <2>2. /\ tagged' = tagged \/ tagged' = [tagged EXCEPT ![releases[n]] = None]
          /\ wasAt' = wasAt
      BY <1>4 DEF Unpublish
    <2>3. PICK t \in Tags : t = releases[n]
      BY <1>1, ElementOfSeq
    <2>4. tagged' \in [Tags -> Commits \cup {None}]
          /\ \A u \in Tags : tagged'[u] # None => tagged'[u] = tagged[u]
      BY <2>2, <2>3 DEF TagsOK
    <2>5. QED
      BY <2>1, <2>2, <2>4 DEF NotesStay, TagsOK
  <1>5. QED
    BY <1>2, <1>3, <1>4 DEF ReleaseReadsWorld

\* What happens elsewhere disturbs no notes.
LEMMA NotesOthers ==
  ASSUME NotesInv, NotesStay, UNCHANGED <<at, answers>>
  PROVE  NotesInv'
  <1>1. ASSUME NEW q \in Procs PROVE NotesHand(q)'
    BY NotesHandStays DEF NotesInv
  <1>2. ASSUME NEW a \in answers, a.req.tool = "generate_notes"
        PROVE  a.output.fallback \/ NotesOK(a.output)'
    <2> PICK n : n = a.output
      OBVIOUS
    <2>1. n.fallback \/ NotesOK(n)
      BY <1>2 DEF NotesInv
    <2>2. QED
      BY <2>1, NotesOKStays
  <1>3. QED
    BY <1>1, <1>2 DEF NotesInv, NotesStay

\* Every tool but generate_notes takes steps of its own.
LEMMA HandleNotes ==
  ASSUME CallInv, NotesInv, NEW p \in Procs, Handle(p)
  PROVE  NotesInv'
  <1>1. CASE AuditLensHandle(p) /\ UNCHANGED <<releaseVars, callVars>>
    <2>1. UNCHANGED answers
      BY <1>1 DEF callVars
    <2>2. /\ at[p].pc \in {"list_runs", "fetch_evidence", "download", "parse_findings"} \cup PutSteps
          /\ Fails(p) \/ \E pc \in {"download", "log"} \cup PutSteps : \E got : Step(p, pc, got)
      <3>1. CASE PutDocument(p)
        BY <3>1 DEF PutDocument, Exists, Open, Write, PutSteps
      <3>2. CASE ListRuns(p) \/ ListArtifacts(p) \/ Download(p) \/ ParseFindings(p)
        BY <3>2 DEF ListRuns, ListArtifacts, Download, ParseFindings, PutSteps
      <3>3. QED
        BY <1>1, <3>1, <3>2 DEF AuditLensHandle
    <2>3. at[p].pc \notin Noting \cup LogSteps \cup {"idle"}
      BY <2>2 DEF PutSteps, Noting, LogSteps
    <2>4. \A pc \in {"download", "log"} \cup PutSteps : pc \notin Noting
      BY DEF PutSteps, Noting
    <2>5. QED
      BY <1>1, <2>1, <2>2, <2>3, <2>4, NotesFail, NotesStep
  <1>2. CASE ReleaseReadsHandle(p) /\ UNCHANGED callVars
    BY <1>2, ListReleasesNotes, CompareCommitsNotes, ListCommitsNotes
       DEF ReleaseReadsHandle, callVars
  <1>3. CASE ScanPolicy(p) \/ ScanLookup(p) \/ ScanAdmit(p) \/ ListReceipts(p) \/ ReadOnly(p)
    <2>1. UNCHANGED <<releaseVars, answers>>
      BY <1>3 DEF ScanPolicy, ScanLookup, ScanAdmit, ListReceipts, ReadOnly, callVars
    <2>2. /\ at[p].pc \in {"start_scan", "lookup", "decrypt", "list_receipts", "core"}
          /\ Fails(p) \/ \E pc \in {"lookup", "decrypt", "log"} : \E got : Step(p, pc, got)
      BY <1>3 DEF ScanPolicy, ScanLookup, ScanAdmit, Admit, ListReceipts, ReadOnly
    <2>3. at[p].pc \notin Noting \cup LogSteps \cup {"idle"}
      BY <2>2 DEF Noting, LogSteps
    <2>4. \A pc \in {"lookup", "decrypt", "log"} : pc \notin Noting
      BY DEF Noting
    <2>5. QED
      BY <2>1, <2>2, <2>3, <2>4, NotesFail, NotesStep
  <1>4. QED
    BY <1>1, <1>2, <1>3, LogPutNotes, LogAppendNotes DEF Handle

\* Every step preserves the invariant of release notes.
LEMMA NextNotes == CallInv /\ NotesInv /\ [Next]_vars => NotesInv'
  <1> SUFFICES ASSUME CallInv, NotesInv, [Next]_vars PROVE NotesInv'
    OBVIOUS
  <1>1. CASE UNCHANGED vars
    BY <1>1, TagsKept, NotesOthers DEF vars, callVars
  <1>2. CASE GitHubChanges
    <2>1. CASE AuditLensWorld /\ UNCHANGED releaseVars
      BY <1>2, <2>1, TagsKept, NotesOthers DEF GitHubChanges, AuditLensWorld, Upload, Expire
    <2>2. CASE ReleaseReadsWorld
      <3>1. UNCHANGED at
        BY <2>2 DEF ReleaseReadsWorld, Push, Publish, Unpublish
      <3>2. QED
        BY <1>2, <2>2, <3>1, ReleasesChangeTags, NotesOthers DEF GitHubChanges, NotesInv
    <2>3. QED
      BY <1>2, <2>1, <2>2 DEF GitHubChanges
  <1>3. ASSUME NEW p \in Procs, CallRaises(p)
        PROVE  NotesInv'
    <2>1. CASE at[p].pc = "compare"
      <3>1. Step(p, "commits", at[p].got) /\ UNCHANGED <<releaseVars, answers>>
        BY <1>3, <2>1 DEF CallRaises
      <3>2. /\ at'[p] = [pc |-> "commits", call |-> at[p].call, req |-> at[p].req,
                         got |-> at[p].got]
            /\ \A q \in Procs : q # p => at'[q] = at[q]
        BY <3>1, StepTaken DEF CallInv
      <3>3. at'[p].pc = "commits"
        BY <3>2
      <3>4. NotesHand(p)'
        BY <3>3 DEF NotesHand, Noting, LogSteps
      <3>5. QED
        BY <3>1, <3>2, <3>4, TagsKept, NotesKept
    <2>2. CASE at[p].pc # "compare"
      BY <1>3, <2>2, NotesFail DEF CallRaises
    <2>3. QED
      BY <2>1, <2>2
  <1>4. ASSUME NEW p \in Procs, Crash(p)
        PROVE  NotesInv'
    BY <1>4, NotesFail DEF Crash
  <1>5. ASSUME NEW p \in Procs, Boot(p) \/ StoreCredential(p)
        PROVE  NotesInv'
    BY <1>5, TagsKept, NotesOthers DEF Boot, StoreCredential, callVars
  <1>6. QED
    BY <1>1, <1>2, <1>3, <1>4, <1>5, CallNotes, HandleNotes DEF Next

\* A page that is long enough has all.
LEMMA NewestIsAll ==
  ASSUME NEW S \in SUBSET Commits, NEW n \in Nat, Cardinality(S) <= n
  PROVE  Newest(S, n) = S
  <1>1. IsFiniteSet(S) /\ Commits \subseteq Nat
    BY ReleaseReadsAssumption, FS_Subset
  <1>2. ASSUME NEW c \in S PROVE Cardinality({d \in S : d > c}) < n
    <2> DEFINE T == {d \in S : d > c}
    <2>1. T \in SUBSET S /\ c \notin T
      BY <1>1
    <2> HIDE DEF T
    <2>2. IsFiniteSet(T) /\ Cardinality(T) <= Cardinality(S) /\ Cardinality(T) # Cardinality(S)
      BY <1>1, <2>1, FS_Subset
    <2>3. Cardinality(S) \in Nat /\ Cardinality(T) \in Nat
      BY <1>1, <2>2, FS_CardinalityType
    <2>4. Cardinality(T) < n
      BY <2>2, <2>3
    <2>5. QED
      BY <2>4 DEF T
  <1>3. QED
    BY <1>2 DEF Newest

\* What meets in one commit adds up.
LEMMA NotesMeet ==
  ASSUME NEW x \in Commits, NEW y \in Commits, NEW z \in Commits,
         NEW a, a = Newest(Between(x, y), CompareLimit),
         NEW b, b = Newest(Between(y, z), CompareLimit)
  PROVE  /\ a \cap b = {}
         /\ Cardinality(Between(x, y)) <= CompareLimit /\ Cardinality(Between(y, z)) <= CompareLimit
              => Between(x, z) \subseteq a \cup b
  <1>1. a \subseteq Between(x, y) /\ b \subseteq Between(y, z)
    BY DEF Newest
  <1>2. a \cap b = {}
    BY <1>1 DEF Between
  <1>3. ASSUME Cardinality(Between(x, y)) <= CompareLimit,
               Cardinality(Between(y, z)) <= CompareLimit
        PROVE  Between(x, z) \subseteq a \cup b
    <2>1. Between(x, y) \in SUBSET Commits /\ Between(y, z) \in SUBSET Commits
      BY ReleaseReadsAssumption DEF Between
    <2>2. a = Between(x, y) /\ b = Between(y, z)
      BY <1>3, <2>1, NewestIsAll, ReleaseReadsAssumption
    <2>3. QED
      BY <2>2 DEF Between
  <1>4. QED
    BY <1>2, <1>3

\* The notes of two releases that meet, of which no tag moved, have no commit in
\* common and, if no page was too short, leave none out, for any history, tags,
\* list of releases and page, and whatever happens on GitHub meanwhile.
THEOREM RuntimeNotesAddUp == Spec => []NotesAddUp
  <1>1. Init => NotesInv
    <2> SUFFICES ASSUME Init PROVE NotesInv
      OBVIOUS
    <2>1. /\ at = [p \in Procs |-> Idle] /\ answers = {}
          /\ releases = FirstReleases /\ tagged = FirstTagged
          /\ wasAt = [t \in Tags |-> {FirstTagged[t]} \ {None}]
      BY DEF Init, ReleaseReadsInit
    <2>2. TagsOK
      BY <2>1, ReleaseReadsAssumption DEF TagsOK
    <2>3. ASSUME NEW p \in Procs PROVE NotesHand(p)
      <3>1. at[p].pc = "idle"
        BY <2>1 DEF Idle
      <3>2. QED
        BY <3>1 DEF NotesHand, LogSteps
    <2>4. QED
      BY <2>1, <2>2, <2>3 DEF NotesInv
  <1>2. NotesInv => NotesAddUp
    <2> SUFFICES ASSUME NotesInv,
                        NEW a \in answers, a.req.tool = "generate_notes", ~a.output.fallback,
                        NEW b \in answers, b.req.tool = "generate_notes", ~b.output.fallback,
                        NEW x \in Commits, NEW y \in Commits, NEW z \in Commits,
                        b.output.from = a.output.to,
                        wasAt[a.output.from] = {x}, wasAt[a.output.to] = {y},
                        wasAt[b.output.to] = {z}
                 PROVE  /\ a.output.commits \cap b.output.commits = {}
                        /\ /\ Cardinality(Between(x, y)) <= CompareLimit
                           /\ Cardinality(Between(y, z)) <= CompareLimit
                           => Between(x, z) \subseteq a.output.commits \cup b.output.commits
      BY DEF NotesAddUp
    <2>1. NotesOK(a.output) /\ NotesOK(b.output)
      BY DEF NotesInv
    <2>2. /\ a.output.commits = Newest(Between(x, y), CompareLimit)
          /\ b.output.commits = Newest(Between(y, z), CompareLimit)
      BY <2>1 DEF NotesOK
    <2>3. QED
      BY <2>2, NotesMeet
  <1>3. QED
    BY <1>1, <1>2, RuntimeInvariant, NextNotes, PTL DEF Spec
=============================================================================
