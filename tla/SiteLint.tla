------------------------------ MODULE SiteLint ------------------------------
(***************************************************************************)
(* SiteLint scan jobs: the API process that runs start_scan, the table of  *)
(* jobs, the Celery queue and the workers that share the table, the object *)
(* store and the directory of screenshots.                                 *)
(*                                                                         *)
(* One action is one access to shared state: a committed transaction, a    *)
(* put, a message sent or taken, the scan.  Between two of them a process  *)
(* works with what it read earlier (seen is the detached row of            *)
(* create_or_get_job) and may crash.  The API handles one call at a time   *)
(* (mcp_handler is async and calls the tool on the event loop), a worker   *)
(* process one task at a time.                                             *)
(*                                                                         *)
(* Objects are named by the hash of their content, so a document is its    *)
(* own reference; a put is one step here.  Progress follows from the       *)
(* status and is left out.                                                 *)
(***************************************************************************)
EXTENDS Naturals, Sequences, FiniteSets

CONSTANTS
    Apis, Workers,  \* processes
    JobIds,         \* uuid4 job ids
    Requests,       \* the [key, url, base] callers send
    AsyncMode,      \* settings.sitelint_async_mode and a dispatcher
    OnLoop,         \* which callers: TRUE for POST /mcp, whose handler runs on the
                    \* event loop, FALSE for a direct call as in the tests
    None,           \* no key, baseline, job, report or diff
    MaxCalls,       \* bound: start_scan calls
    MaxFaults,      \* bound: crashes, failed scans, failed dispatches
    MaxRedeliver    \* bound: messages the broker delivers once more

Procs == Apis \cup Workers

\* default_idempotency_key: without a key of the caller's the key is the hash
\* of the payload, here the payload itself.
KeyOf(r) == IF r.key = None THEN [url |-> r.url, base |-> r.base] ELSE r.key

Keys == {KeyOf(r) : r \in Requests}
Urls == {r.url : r \in Requests}
Bases == JobIds \cup {None}
Statuses == {"queued", "running", "completed"}

\* A report: the scan that made it and the baseline_diff added to it (against
\* is the scan of the baseline's report, 0 for fallback_used).
Diffs == {None} \cup [of : JobIds, against : Nat]
Reports == [run : Nat, diff : Diffs]

ASSUME SiteLintAssumption ==
    /\ Apis \cap Workers = {}
    /\ AsyncMode \in BOOLEAN /\ OnLoop \subseteq BOOLEAN
    /\ \A r \in Requests : r.base \in Bases
    /\ None \notin JobIds /\ None \notin Reports
    /\ None \notin [of : JobIds, against : Nat]
    /\ MaxCalls \in Nat /\ MaxFaults \in Nat /\ MaxRedeliver \in Nat

VARIABLES
    rows,       \* table jobs; status "absent" where there is no row yet
    objects,    \* the object store: reports and zip bundles
    shots,      \* [JobIds -> scan that last wrote reports_root/<job_id>, 0 if none]
    queue,      \* Celery messages not yet taken
    at,         \* [Procs -> local state]
    \* history and bounds
    scans,      \* every scan begun, [job, url]
    answers,    \* every [key, job] a start_scan call returned
    abandoned,  \* jobs one of whose handlers crashed or raised
    calls, faults, redelivered

vars == <<rows, objects, shots, queue, at, scans, answers, abandoned,
          calls, faults, redelivered>>

Absent == [status |-> "absent", key |-> None, url |-> None, base |-> None,
           result |-> None]

Idle == [pc |-> "idle", loop |-> FALSE, req |-> None, job |-> None, seen |-> "absent",
         run |-> 0, doc |-> None]

Exists(j) == rows[j].status # "absent"

Init ==
    /\ rows = [j \in JobIds |-> Absent]
    /\ objects = {}
    /\ shots = [j \in JobIds |-> 0]
    /\ queue = <<>>
    /\ at = [p \in Procs |-> Idle]
    /\ scans = <<>>
    /\ answers = {}
    /\ abandoned = {}
    /\ calls = 0 /\ faults = 0 /\ redelivered = 0

-----------------------------------------------------------------------------
(* The job store                                                           *)

\* Mutation: no test whether result_ref was given.
SetStatusAlways(j, status, doc) ==
    rows' = [rows EXCEPT ![j].status = status, ![j].result = doc]

\* set_job_status: whatever the row says, except that no reference is dropped.
SetStatus(j, status, doc) ==
    rows' = [rows EXCEPT ![j].status = status,
                         ![j].result = IF doc = None THEN rows[j].result ELSE doc]

\* Mutation: the SELECT without its WHERE clause.
FoundAny(p, loop, r, j) ==
    /\ Exists(j)
    /\ at' = [at EXCEPT ![p] = [Idle EXCEPT !.pc = "act", !.loop = loop, !.req = r,
                                            !.job = j, !.seen = rows[j].status]]
    /\ UNCHANGED rows

Found(p, loop, r, j) ==
    /\ Exists(j) /\ rows[j].key = KeyOf(r)
    /\ at' = [at EXCEPT ![p] = [Idle EXCEPT !.pc = "act", !.loop = loop, !.req = r,
                                            !.job = j, !.seen = rows[j].status]]
    /\ UNCHANGED rows

\* The first SELECT of create_or_get_job, the entry of start_scan.
Submit(p, loop, r) ==
    /\ at[p].pc = "idle" /\ calls < MaxCalls
    /\ calls' = calls + 1
    /\ \/ \E j \in JobIds : Found(p, loop, r, j)
       \/ /\ \A j \in JobIds : Exists(j) => rows[j].key # KeyOf(r)
          /\ at' = [at EXCEPT ![p] = [Idle EXCEPT !.pc = "insert", !.loop = loop, !.req = r]]
          /\ UNCHANGED rows
    /\ UNCHANGED <<objects, shots, queue, scans, answers, abandoned, faults, redelivered>>

\* Mutation: no unique constraint on the key.
InsertAlways(p) ==
    LET r == at[p].req IN
    /\ at[p].pc = "insert"
    /\ \E j \in JobIds :
        /\ ~Exists(j)
        /\ rows' = [rows EXCEPT ![j] =
                [status |-> "queued", key |-> KeyOf(r), url |-> r.url,
                 base |-> r.base, result |-> None]]
        /\ at' = [at EXCEPT ![p].pc = "act", ![p].job = j, ![p].seen = "queued"]
    /\ UNCHANGED <<objects, shots, queue, scans, answers, abandoned, calls, faults, redelivered>>

\* The INSERT: uq_jobs_idempotency_key makes it fail when another process
\* inserted the key in between, and the row of the other is taken.
Insert(p) ==
    LET r == at[p].req IN
    /\ at[p].pc = "insert"
    /\ IF \E j \in JobIds : Exists(j) /\ rows[j].key = KeyOf(r)
       THEN /\ at' = [at EXCEPT ![p].pc = "reselect"]
            /\ UNCHANGED rows
       ELSE \E j \in JobIds :
            /\ ~Exists(j)
            /\ rows' = [rows EXCEPT ![j] =
                    [status |-> "queued", key |-> KeyOf(r), url |-> r.url,
                     base |-> r.base, result |-> None]]
            /\ at' = [at EXCEPT ![p].pc = "act", ![p].job = j, ![p].seen = "queued"]
    /\ UNCHANGED <<objects, shots, queue, scans, answers, abandoned, calls, faults, redelivered>>

Reselect(p) ==
    /\ at[p].pc = "reselect"
    /\ \E j \in JobIds : Found(p, at[p].loop, at[p].req, j)
    /\ UNCHANGED <<objects, shots, queue, scans, answers, abandoned, calls, faults, redelivered>>

-----------------------------------------------------------------------------
(* start_scan once it holds the row, and the worker's task                 *)

\* The call returns the JobRef of its row.
Return(p) ==
    /\ answers' = answers \cup {[key |-> KeyOf(at[p].req), job |-> at[p].job]}
    /\ at' = [at EXCEPT ![p] = Idle]

\* Mutation: a known key is answered although its scan never began.
AnswerQueued(p) ==
    /\ at[p].pc = "act"
    /\ Return(p)
    /\ UNCHANGED <<rows, objects, shots, queue, scans, abandoned, calls, faults, redelivered>>

\* Not queued when it was read: nothing to do.
Answer(p) ==
    /\ at[p].pc = "act" /\ at[p].seen # "queued"
    /\ Return(p)
    /\ UNCHANGED <<rows, objects, shots, queue, scans, abandoned, calls, faults, redelivered>>

\* Mutation: the message does not get out and nobody is told.
DispatchLost(p) ==
    /\ at[p].pc = "act" /\ at[p].seen = "queued" /\ AsyncMode
    /\ Return(p)
    /\ UNCHANGED <<rows, objects, shots, queue, scans, abandoned, calls, faults, redelivered>>

\* Async mode: the message carries the job id and this caller's payload.
Dispatch(p) ==
    /\ at[p].pc = "act" /\ at[p].seen = "queued" /\ AsyncMode
    /\ queue' = Append(queue, [job |-> at[p].job, req |-> at[p].req])
    /\ Return(p)
    /\ UNCHANGED <<rows, objects, shots, scans, abandoned, calls, faults, redelivered>>

\* Mutation: the status of the row is not looked at.
MarkAnyRunning(p) ==
    /\ at[p].pc = "act" /\ (AsyncMode => p \in Workers)
    /\ SetStatus(at[p].job, "running", None)
    /\ at' = [at EXCEPT ![p].pc = "scan"]
    /\ UNCHANGED <<objects, shots, queue, scans, answers, abandoned, calls, faults, redelivered>>

\* Inline mode, and the first step of the worker's task.
MarkRunning(p) ==
    /\ at[p].pc = "act" /\ at[p].seen = "queued" /\ (AsyncMode => p \in Workers)
    /\ SetStatus(at[p].job, "running", None)
    /\ at' = [at EXCEPT ![p].pc = "scan"]
    /\ UNCHANGED <<objects, shots, queue, scans, answers, abandoned, calls, faults, redelivered>>

\* run_sitelint_scan: fetches the pages and overwrites the job's screenshots.
Scan(p) ==
    /\ at[p].pc = "scan" /\ ~at[p].loop
    /\ scans' = Append(scans, [job |-> at[p].job, url |-> at[p].req.url])
    /\ shots' = [shots EXCEPT ![at[p].job] = Len(scans')]
    /\ at' = [at EXCEPT ![p].pc = "put", ![p].run = Len(scans')]
    /\ UNCHANGED <<rows, objects, queue, answers, abandoned, calls, faults, redelivered>>

\* The same scan called from the event loop: its asyncio.run raises, always,
\* once the first page is fetched.
LoopRefusesScan(p) ==
    /\ at[p].pc = "scan" /\ at[p].loop
    /\ scans' = Append(scans, [job |-> at[p].job, url |-> at[p].req.url])
    /\ abandoned' = abandoned \cup {at[p].job}
    /\ at' = [at EXCEPT ![p] = Idle]
    /\ UNCHANGED <<rows, objects, shots, queue, answers, calls, faults, redelivered>>

\* Mutation: compares with what the baseline's directory holds, not its report.
DiffWithDirectory(p) ==
    LET b == at[p].req.base IN
    IF p \in Workers \/ b = None THEN None ELSE [of |-> b, against |-> shots[b]]

\* _baseline_diff, only in the API: the worker never looks at the baseline.
BaselineDiff(p) ==
    LET b == at[p].req.base IN
    IF p \in Workers \/ b = None
    THEN None
    ELSE [of |-> b, against |-> IF rows[b].result = None THEN 0 ELSE rows[b].result.run]

\* Mutation: the reference is made, the object is not written.
PutNothing(p) ==
    /\ at[p].pc = "put"
    /\ at' = [at EXCEPT ![p].pc = "finish",
                        ![p].doc = [run |-> at[p].run, diff |-> BaselineDiff(p)]]
    /\ UNCHANGED <<rows, objects, shots, queue, scans, answers, abandoned, calls, faults, redelivered>>

\* put_json_immutable of the report.
Put(p) ==
    /\ at[p].pc = "put"
    /\ LET doc == [run |-> at[p].run, diff |-> BaselineDiff(p)] IN
       /\ objects' = objects \cup {doc}
       /\ at' = [at EXCEPT ![p].pc = "finish", ![p].doc = doc]
    /\ UNCHANGED <<rows, shots, queue, scans, answers, abandoned, calls, faults, redelivered>>

\* Mutation: the status is given another name.
FinishMisnamed(p) ==
    /\ at[p].pc = "finish"
    /\ SetStatus(at[p].job, "finished", at[p].doc)
    /\ at' = [at EXCEPT ![p] = Idle]
    /\ UNCHANGED <<objects, shots, queue, scans, answers, abandoned, calls, faults, redelivered>>

\* The last transaction; the API then returns the JobRef, the task ends.
Finish(p) ==
    /\ at[p].pc = "finish"
    /\ SetStatus(at[p].job, "completed", at[p].doc)
    /\ IF p \in Apis THEN Return(p) ELSE at' = [at EXCEPT ![p] = Idle] /\ UNCHANGED answers
    /\ UNCHANGED <<objects, shots, queue, scans, abandoned, calls, faults, redelivered>>

\* A worker takes a message.  It is acknowledged as its task begins; the broker
\* may have put it back before that (visibility timeout) and deliver it again.
Take(p) ==
    /\ at[p].pc = "idle" /\ queue # <<>>
    /\ LET m == Head(queue) IN
       /\ at' = [at EXCEPT ![p] = [Idle EXCEPT !.pc = "act", !.req = m.req,
                                               !.job = m.job, !.seen = "queued"]]
       /\ \/ queue' = Tail(queue) /\ UNCHANGED redelivered
          \/ /\ redelivered < MaxRedeliver
             /\ redelivered' = redelivered + 1
             /\ queue' = Append(Tail(queue), m)
    /\ UNCHANGED <<rows, objects, shots, scans, answers, abandoned, calls, faults>>

-----------------------------------------------------------------------------
(* Reports                                                                 *)

\* _build_report_zip: the report, and the files its screenshots are now.
Bundle(j) == [run |-> rows[j].result.run, shots |-> shots[j]]

\* get_report with format zip, also the first half of export_report: the
\* report and the screenshots that are on disk now, bundled and stored.
ZipReport(p, j) ==
    /\ at[p].pc = "idle" /\ rows[j].result # None
    /\ objects' = objects \cup {Bundle(j)}
    /\ UNCHANGED <<rows, shots, queue, at, scans, answers, abandoned, calls, faults, redelivered>>

-----------------------------------------------------------------------------
(* Faults                                                                  *)

Fault(p) ==
    /\ faults < MaxFaults
    /\ faults' = faults + 1
    /\ abandoned' = abandoned \cup ({at[p].job} \ {None})
    /\ at' = [at EXCEPT ![p] = Idle]

\* The process dies; a job it was working on keeps the status it had.
Crash(p) ==
    /\ at[p].pc # "idle"
    /\ Fault(p)
    /\ UNCHANGED <<rows, objects, shots, queue, scans, answers, calls, redelivered>>

\* The scan raises: a page does not answer, perhaps after some screenshots
\* were overwritten.  No handler sets another status.
ScanRaises(p) ==
    /\ at[p].pc = "scan" /\ ~at[p].loop
    /\ scans' = Append(scans, [job |-> at[p].job, url |-> at[p].req.url])
    /\ shots' \in {shots, [shots EXCEPT ![at[p].job] = Len(scans')]}
    /\ Fault(p)
    /\ UNCHANGED <<rows, objects, queue, answers, calls, redelivered>>

\* The broker does not accept the message and delay() raises.
DispatchRaises(p) ==
    /\ at[p].pc = "act" /\ at[p].seen = "queued" /\ AsyncMode /\ p \in Apis
    /\ Fault(p)
    /\ UNCHANGED <<rows, objects, shots, queue, scans, answers, calls, redelivered>>

-----------------------------------------------------------------------------

StartScan(p) ==
    \/ Insert(p) \/ Reselect(p) \/ Answer(p) \/ Dispatch(p)
    \/ MarkRunning(p) \/ Scan(p) \/ LoopRefusesScan(p) \/ Put(p) \/ Finish(p)

RunTask(p) == Take(p) \/ MarkRunning(p) \/ Scan(p) \/ Put(p) \/ Finish(p)

Faulty(p) == Crash(p) \/ ScanRaises(p) \/ DispatchRaises(p)

Next ==
    \/ \E p \in Apis : \/ \E loop \in OnLoop, r \in Requests : Submit(p, loop, r)
                       \/ StartScan(p)
                       \/ \E j \in JobIds : ZipReport(p, j)
    \/ \E p \in Workers : RunTask(p)
    \/ \E p \in Procs : Faulty(p)

Spec == Init /\ [][Next]_vars

\* The threads of both programs run on; callers, crashes and failures need not.
Fairness ==
    /\ \A p \in Apis : WF_vars(StartScan(p))
    /\ \A p \in Workers : WF_vars(RunTask(p))

FairSpec == Spec /\ Fairness
-----------------------------------------------------------------------------
(* Properties                                                              *)

Messages == [job : JobIds, req : Requests]
Bundles == [run : Nat, shots : Nat]

RowType ==
    [status : Statuses, key : Keys, url : Urls, base : Bases, result : Reports \cup {None}]

PCs == {"idle", "insert", "reselect", "act", "scan", "put", "finish"}

Locals ==
    [pc : PCs, loop : BOOLEAN, req : Requests \cup {None}, job : JobIds \cup {None},
     seen : Statuses \cup {"absent"}, run : Nat, doc : Reports \cup {None}]

TypeOK ==
    /\ rows \in [JobIds -> {Absent} \cup RowType]
    /\ objects \subseteq Reports \cup Bundles
    /\ shots \in [JobIds -> Nat]
    /\ queue \in Seq(Messages)
    /\ at \in [Procs -> Locals]
    /\ scans \in Seq([job : JobIds, url : Urls])
    /\ answers \subseteq [key : Keys, job : JobIds]
    /\ abandoned \subseteq JobIds
    /\ calls \in Nat /\ faults \in Nat /\ redelivered \in Nat

\* create_or_get_job: callers who use one key are all given one job, also when
\* two API processes race for the INSERT and whoever loses reads again.
AnswersAgree == \A x, y \in answers : x.key = y.key => x.job = y.job

\* A result_ref can be read whenever it can be seen, and a completed job has
\* one: the put comes before the transaction, whoever else writes the row.
ResultReadable ==
    \A j \in JobIds :
        /\ rows[j].status = "completed" => rows[j].result # None
        /\ rows[j].result # None => rows[j].result \in objects

\* The report of a job is the outcome of a scan made for this job, and of the
\* url of a caller who used its key: no process stores under another's job.
ResultAnswersJob ==
    \A j \in JobIds : rows[j].result # None =>
        LET n == rows[j].result.run IN
        /\ n \in DOMAIN scans
        /\ scans[n].job = j
        /\ \E r \in Requests : KeyOf(r) = rows[j].key /\ r.url = scans[n].url

\* Someone still has job j to do: a message, or a process past its lookup.
InHand(j) ==
    \/ \E i \in 1 .. Len(queue) : queue[i].job = j
    \/ \E p \in Procs : at[p].job = j /\ at[p].seen = "queued"

\* No job is forgotten: one that is not completed is in hand, or a handler of
\* its own crashed or raised.
NoJobForgotten ==
    \A j \in JobIds :
        rows[j].status \in {"queued", "running"} => InHand(j) \/ j \in abandoned

\* Inline mode, one API process: a job is scanned at most once, whatever is
\* repeated, crashes or raises.
ScannedOnce ==
    \A j \in JobIds : Cardinality({n \in DOMAIN scans : scans[n].job = j}) <= 1

\* Inline mode, one API process: an exported bundle holds the screenshots of
\* the scan its report is about, whenever it is built.
BundleIsOfOneScan == \A z \in objects : z \in Bundles => z.shots = z.run

\* A baseline_diff compares with a report of the job that was named, made by an
\* earlier scan, and says so when there was none.
DiffAgainstBaseline ==
    \A d \in objects : (d \in Reports /\ d.diff # None /\ d.diff.against # 0) =>
        /\ d.diff.against < d.run
        /\ scans[d.diff.against].job = d.diff.of
        /\ \E e \in objects : e \in Reports /\ e.run = d.diff.against

\* A completed job whose caller named a baseline has a baseline_diff.
DiffWhenAsked ==
    \A j \in JobIds :
        rows[j].status = "completed" /\ rows[j].base # None => rows[j].result.diff # None

\* A job that was created is completed in the end and stays so, if none of its
\* own handlers crashes or raises, whatever happens to those of other jobs.
JobsEnd ==
    \A j \in JobIds : Exists(j) ~> (j \in abandoned \/ [](rows[j].status = "completed"))

\* Every start_scan ends with a completed job, if nothing crashes.
JobsComplete ==
    \A j \in JobIds : Exists(j) ~> [](rows[j].status = "completed")

\* The callers' view, one idempotency key at a time.
RowOf(k) == CHOOSE j \in JobIds : Exists(j) /\ rows[j].key = k
HasRow(k) == \E j \in JobIds : Exists(j) /\ rows[j].key = k

Lifecycle == INSTANCE JobLifecycle WITH
    Documents <- Reports,
    Repeats   <- AsyncMode \/ Cardinality(Apis) > 1,
    phase     <- [k \in Keys |-> IF HasRow(k) THEN rows[RowOf(k)].status ELSE "absent"],
    report    <- [k \in Keys |-> IF HasRow(k) THEN rows[RowOf(k)].result ELSE None]

\* start_scan implements JobLifecycle: in particular no completed job of a
\* single inline API process ever runs again, and no report is ever lost.
LifecycleSpec == Lifecycle!Spec
=============================================================================
