------------------------------- MODULE Runtime -------------------------------
(***************************************************************************)
(* The runtime of mcp/runtime.py around its read tools and the admission   *)
(* of scans: API processes start on one volume, take tool calls one at a   *)
(* time, put the output of each into the object store and append an audit  *)
(* row before they answer.  AuditLens, release notes and the stored        *)
(* credentials run inside, while GitHub changes, requests and the stores   *)
(* fail and processes die.  (WriteTools has the write tools, and SiteLint  *)
(* what becomes of a scan that is admitted here.)                          *)
(***************************************************************************)
EXTENDS Credentials, AuditLens, ReleaseReads

CONSTANTS
    Requests,       \* the calls clients make, [tool, arguments]
    Profiled,       \* the parser_profile and dedupe_strategy they ask for, pairs
    Others,         \* documents of other modules, reports and the like
    Receipts,       \* what the receipts table may list, sequences
    UrlAllowlist, UrlDenylist,  \* settings
    EntriesIn,      \* [hosts -> the list entries that occur in them]
    MaxCalls,       \* bound: tool calls
    MaxEvents       \* bound: exceptions, crashes, changes on GitHub, credentials stored

ASSUME RuntimeAssumption ==
    /\ None \notin Names
    /\ \A r \in Requests :
        /\ r.tool \in {"list_runs", "fetch_evidence", "parse_findings", "generate_notes",
                       "start_scan", "list_receipts", "core"}
        /\ r.tool = "parse_findings" => r.evidence \in Others
        /\ r.tool = "start_scan" => r.auth \in Names \cup {None}
        /\ r.tool = "generate_notes" => {r.tag, r.from, r.to} \subseteq Tags \cup {None}
    /\ \A d \in Others : {"files", "findings", "output"} \cap DOMAIN d = {}

VARIABLES
    audit,      \* table audit_logs: [call, req, ref]
    answers,    \* history: [call, req, output] of the calls that returned
    interrupted,    \* history: documents whose put ended between open and write
    admitted,   \* history: [call, name, auth] of the scans that were admitted
    stored,     \* history: credentials stored, [name, profile, calls]
    calls, events

callVars == <<audit, answers, interrupted, admitted, calls, events, stored>>
vars == <<credentialVars, lensVars, releaseVars, callVars, at, storeVars>>

Init ==
    /\ CredentialsInit /\ AuditLensInit /\ ReleaseReadsInit
    /\ at = [p \in Procs |-> Idle]
    /\ objects = Others /\ torn = {} /\ interrupted = {}
    /\ audit = {} /\ answers = {} /\ admitted = {} /\ stored = {}
    /\ calls = 0 /\ events = 0

-----------------------------------------------------------------------------
(* Calls                                                                   *)

\* Clients know the evidence and findings that were returned to them; other
\* references that they send are among Requests.
ParseRequests ==
    LET returned == {a \in answers : a.req.tool \in {"fetch_evidence", "parse_findings"}} IN
    {[tool |-> "parse_findings", evidence |-> d, profile |-> x[1], strategy |-> x[2]] :
        d \in {a.output : a \in returned}, x \in Profiled}

Call(p, r) ==
    /\ boot[p] = "up" /\ at[p] = Idle
    /\ calls < MaxCalls /\ calls' = calls + 1
    /\ at' = [at EXCEPT ![p] = [pc |-> r.tool, call |-> calls', req |-> r, got |-> None]]
    /\ UNCHANGED <<credentialVars, lensVars, releaseVars, storeVars,
                   audit, answers, interrupted, admitted, events, stored>>

\* require_url_allowed: list entries match anywhere in the host.
UrlAllowed(host) ==
    /\ UrlDenylist \cap EntriesIn[host] = {}
    /\ UrlAllowlist = {} \/ UrlAllowlist \cap EntriesIn[host] # {}

\* start_scan: the limiter (module RateLimiter, any answer here), the policy.
ScanPolicy(p) ==
    /\ at[p].pc = "start_scan"
    /\ Fails(p) \/ (UrlAllowed(at[p].req.host) /\ Step(p, "lookup", None))
    /\ UNCHANGED <<credentialVars, lensVars, releaseVars, callVars, storeVars>>

\* get_auth_profile: the row is selected when a profile is named ...
ScanLookup(p) ==
    LET name == at[p].req.auth IN
    /\ at[p].pc = "lookup"
    /\ Step(p, "decrypt", IF name = None THEN NoProfile ELSE secrets[name])
    /\ UNCHANGED <<credentialVars, lensVars, releaseVars, callVars, storeVars>>

Admit(p, auth) ==
    /\ admitted' = admitted \cup {[call |-> at[p].call, name |-> at[p].req.auth, auth |-> auth]}
    /\ Step(p, "log", [job |-> at[p].call])

\* Mutation: a credential that cannot be decrypted counts as none.
ScanAdmitSwallowing(p) ==
    LET row == at[p].got IN
    /\ at[p].pc = "decrypt"
    /\ Admit(p, IF Undecipherable(row) THEN NoProfile ELSE ProfileOf(row))
    /\ UNCHANGED <<credentialVars, lensVars, releaseVars, storeVars,
                   audit, answers, interrupted, calls, events, stored>>

\* ... and decrypted with the key that is in the file by then; an exception
\* ends the call before there is a job.
ScanAdmit(p) ==
    LET row == at[p].got IN
    /\ at[p].pc = "decrypt"
    /\ IF Undecipherable(row) THEN Fails(p) /\ UNCHANGED admitted ELSE Admit(p, ProfileOf(row))
    /\ UNCHANGED <<credentialVars, lensVars, releaseVars, storeVars,
                   audit, answers, interrupted, calls, events, stored>>

\* list_receipts: what is in the table.
ListReceipts(p) ==
    /\ at[p].pc = "list_receipts"
    /\ \E rows \in Receipts : Step(p, "log", rows)
    /\ UNCHANGED <<credentialVars, lensVars, releaseVars, callVars, storeVars>>

\* get_scan, get_report, propose_patch, get_latest, list_assets, verify_asset and
\* the other core tools only read, what other modules or GitHub hold or
\* constants; an unknown id, or tool, raises.
ReadOnly(p) ==
    /\ at[p].pc = "core"
    /\ Fails(p) \/ Step(p, "log", [found |-> at[p].req.tool])
    /\ UNCHANGED <<credentialVars, lensVars, releaseVars, callVars, storeVars>>

\* What a call hands to _log: its output, but of a list of receipts the count.
Logged(req, output) ==
    IF req.tool = "list_receipts" THEN [count |-> Len(output)] ELSE output

\* The document _log stores.
Output(p) == [tool |-> at[p].req.tool, output |-> Logged(at[p].req, at[p].got)]

\* Mutation: an output that could not be stored is logged all the same.
LogPutSwallowing(p) ==
    /\ \/ at[p].pc = "log" /\ Exists(p, Output(p), "log_open", "append")
       \/ at[p].pc = "log_open" /\ Open(p, Output(p), "log_write")
       \/ at[p].pc = "log_open" /\ Step(p, "append", at[p].got) /\ UNCHANGED storeVars
       \/ at[p].pc = "log_write" /\ Write(p, Output(p), "append")
    /\ UNCHANGED <<credentialVars, lensVars, releaseVars, callVars>>

\* _log: the output is stored ...
LogPut(p) ==
    /\ \/ at[p].pc = "log" /\ Exists(p, Output(p), "log_open", "append")
       \/ at[p].pc = "log_open" /\ Open(p, Output(p), "log_write")
       \/ at[p].pc = "log_write" /\ Write(p, Output(p), "append")
    /\ UNCHANGED <<credentialVars, lensVars, releaseVars, callVars>>

\* ... then its reference is appended, and the call returns.
LogAppend(p) ==
    LET c == at[p] IN
    /\ c.pc = "append"
    /\ audit' = audit \cup {[call |-> c.call, req |-> c.req, ref |-> Output(p)]}
    /\ answers' = answers \cup {[call |-> c.call, req |-> c.req, output |-> c.got]}
    /\ Fails(p)
    /\ UNCHANGED <<credentialVars, lensVars, releaseVars, storeVars,
                   interrupted, admitted, calls, events, stored>>

Handle(p) ==
    \/ AuditLensHandle(p) /\ UNCHANGED <<credentialVars, releaseVars, callVars>>
    \/ ReleaseReadsHandle(p) /\ UNCHANGED <<credentialVars, lensVars, callVars, storeVars>>
    \/ ScanPolicy(p) \/ ScanLookup(p) \/ ScanAdmit(p) \/ ListReceipts(p) \/ ReadOnly(p)
    \/ LogPut(p) \/ LogAppend(p)

-----------------------------------------------------------------------------
(* Failures, and what others do                                            *)

Event == events < MaxEvents /\ events' = events + 1

Writing(p) == at[p].pc \in {"put_write", "log_write"}

\* The document that a process is writing.
Document(p) == IF at[p].pc = "put_write" THEN at[p].got ELSE Output(p)

\* The call ends here; what it was writing stays as it is.
Interrupts(p) ==
    interrupted' = IF Writing(p) THEN interrupted \cup {Document(p)} ELSE interrupted

\* GitHub, the database or the object store raises; generate_notes goes on
\* without the comparison.
CallRaises(p) ==
    /\ Event /\ at[p] # Idle /\ Interrupts(p)
    /\ IF at[p].pc = "compare" THEN Step(p, "commits", at[p].got) ELSE Fails(p)
    /\ UNCHANGED <<credentialVars, lensVars, releaseVars, storeVars,
                   audit, answers, admitted, calls, stored>>

Boot(p) ==
    /\ Start(p) \/ OpenKeyFile(p) \/ WriteKey(p)
    /\ UNCHANGED <<lensVars, releaseVars, callVars, at, storeVars>>

Crash(p) ==
    /\ Event /\ Stop(p) /\ Fails(p) /\ Interrupts(p)
    /\ UNCHANGED <<lensVars, releaseVars, storeVars,
                   audit, answers, admitted, calls, stored>>

\* An operator's script stores a credential.
StoreCredential(p) ==
    /\ Event
    /\ \E n \in Names, v \in Profiles :
        /\ Store(p, n, v)
        /\ stored' = stored \cup {[name |-> n, profile |-> v, calls |-> calls]}
    /\ UNCHANGED <<lensVars, releaseVars, at, storeVars,
                   audit, answers, interrupted, admitted, calls>>

GitHubChanges ==
    /\ Event
    /\ \/ AuditLensWorld /\ UNCHANGED releaseVars
       \/ ReleaseReadsWorld /\ UNCHANGED <<lensVars, storeVars>>
    /\ UNCHANGED <<credentialVars, audit, answers, interrupted, admitted, calls, stored>>

Next ==
    \/ \E p \in Procs :
        \/ \E r \in Requests \cup ParseRequests : Call(p, r)
        \/ Handle(p)
        \/ CallRaises(p) \/ Boot(p) \/ Crash(p) \/ StoreCredential(p)
    \/ GitHubChanges

Spec == Init /\ [][Next]_vars

-----------------------------------------------------------------------------
(* Properties                                                              *)

TypeOK ==
    /\ CredentialsTypeOK
    /\ \A p \in Procs : DOMAIN at[p] = DOMAIN Idle /\ at[p].call \in 0 .. calls
    /\ \A d \in FindingsDocuments : \A n \in DOMAIN d.findings :
          d.findings[n].confidence \in Int /\ d.findings[n].confidence <= 100

\* A file has the whole of its document, unless a process is between open and
\* write on it, or was interrupted there.
ReadsBack(d) ==
    /\ d \in objects
    /\ d \in torn => d \in interrupted \/ \E p \in Procs : Writing(p) /\ Document(p) = d

\* README: immutable output references.  Whatever a client was told is in the
\* audit log under its call, with a reference to exactly the output (the count,
\* of receipts), however calls interleave.  The reference, and the evidence or
\* findings it was given, read back whatever fails, but for a failure in the
\* middle of the put of that very document, by this call or by another.
AnswersAreLogged ==
    \A a \in answers :
        /\ \E row \in audit :
              /\ row.call = a.call /\ row.req = a.req
              /\ row.ref = [tool |-> a.req.tool, output |-> Logged(a.req, a.output)]
              /\ ReadsBack(row.ref)
        /\ a.req.tool \in {"fetch_evidence", "parse_findings"} => ReadsBack(a.output)

\* Release notes tell the history once.  When the notes of one release begin
\* where those of another end, and the three tags stayed on their commits, no
\* commit is in both; and when neither is longer than a page, every commit of
\* the whole range is in one of them, whatever was published, drafted, deleted or
\* pushed in between.  (Notes that fell back to the newest commits are not
\* meant: those of the oldest release do, and repeat what others tell.)
NotesAddUp ==
    LET compared == {a.output : a \in
            {b \in answers : b.req.tool = "generate_notes" /\ ~b.output.fallback}}
        Short(S) == Cardinality(S) <= CompareLimit IN
    \A later, earlier \in compared : \A x, y, z \in Commits :
        (/\ later.from = earlier.to
         /\ wasAt[earlier.from] = {x} /\ wasAt[earlier.to] = {y} /\ wasAt[later.to] = {z}) =>
        /\ earlier.commits \cap later.commits = {}
        /\ Short(Between(x, y)) /\ Short(Between(y, z)) =>
              Between(x, z) \subseteq earlier.commits \cup later.commits

\* start_scan goes on with the profile that is named or not at all: what it
\* looked up was stored under that name, and it goes on without only if nothing
\* was stored there when the call came, or something that is no profile was.  A
\* key file that was replaced or emptied never turns into a scan without
\* credentials.  (In async mode the worker then ignores the profile.)
ScansCarryTheirProfile ==
    \A s \in admitted :
        LET under == {w \in stored : w.name = s.name} IN
        IF s.auth = NoProfile
        THEN (\E w \in under : w.calls < s.call) => \E w \in under : w.profile \notin Objects
        ELSE \E w \in under : w.profile = s.auth
=============================================================================
