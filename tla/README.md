# OmniAudit MCP in TLA+

OmniAudit MCP is one FastAPI process (several may run on one database) that
serves three families of tools over JSON-RPC: AuditLens (CI evidence to
findings to GitHub issues), SiteLint (crawl a site, store a report) and Release
Butler (GitHub releases).  A Celery worker can take the SiteLint scans over.
This directory holds TLA+ models of the parts that keep state or order steps,
the TLC configurations that check them, and TLAPS proofs of the most important
results.  All paths below are relative to `packages/omniaudit/` unless they
begin with `apps/`, `services/`, `docs/` or `tests/`.

## 1. Inventory

| Component | State it keeps | Operations | What makes it correct |
|---|---|---|---|
| SiteLint service, job store (`modules/sitelint/service.py`, `storage/jobs.py`, `models/db.py`) | table `jobs`, unique on the idempotency key; screenshots under `reports_root/<job_id>` | `start_scan` (inline or async), `create_or_get_job`, `set_job_status`, `get_scan`, `get_report` (json, zip), `list_jobs` | one job per key; a visible `result_ref` is readable and answers the job; a job is not forgotten and ends; bundles and diffs are about the scan they name |
| Celery worker (`services/worker/tasks.py`) | the broker's queue | dispatch, `run_sitelint_scan_task` | the same, under redelivery and with two workers |
| Scanner (`modules/sitelint/scanner.py`) | files of one job | `run_sitelint_scan` | ends; the list of urls it visits stays within the budget |
| Rate limiter (`core/rate_limit.py`) | one deque of times per bucket, in memory | `allow` | no window holds more than the limit, however far it is set back; nobody is refused needlessly |
| Runtime pipeline (`mcp/runtime.py`, `apps/mcp_server/main.py`) | limiters, receipts, audit log | the three write tools; the read tools; admission of `start_scan`; `_log` | every write was confirmed in time; receipts are true; calls end; every write counts in the limit; every answer is logged with a reference to it |
| Confirmation, risk gate (`security/`) | none: HMAC tokens with a time | `issue_token`, `verify_token`, `check_write` | a token confirms only what it was issued for, for `ttl_seconds` |
| Policy (`core/policy.py`) | none | repo allowlist; URL allowlist and denylist | writes only to allowlisted repos, scans only of allowed hosts |
| Receipts, audit log (`storage/receipts.py`, `storage/audit_log.py`) | two append-only tables | `create_receipt`, `append` | agree with the writes |
| Object stores (`storage/objects.py`, `s3.py`, `dual.py`) | a directory, a bucket; objects named by their hash | put, read | a reference reads back as what was put, for every process, also while processes are cut over |
| GitHub client (`modules/github/client.py`) | none | reads and three writes, three attempts | bounded retries; knows what was written |
| GitHub authentication (`modules/github/auth.py`) | cached installation token and its expiry | `authorization_header` | never hands out a token about to expire; uses its cache |
| Release Butler (`modules/releasebutler/`) | none | `create_release`, `get_latest`, `list_assets`, `verify_asset`, `generate_notes` | every asset has one outcome; manifest and report agree with GitHub; a retried or repeated call fills one release only, its own; notes that meet tell the history once |
| AuditLens (`modules/auditlens/`) | evidence and findings objects | `list_runs`, `fetch_evidence`, `parse_findings`, `create_issue` | evidence is of the artifact it names; no finding is lost or doubled, confidence at most 1 |
| Credentials, envelope (`storage/credentials.py`, `security/envelope.py`) | the master key file, shared by all processes; one table of encrypted rows | creation of the key at start-up, decryption for `start_scan`; storing is an operator's script over `encrypt_secret`, no code of the repository but its tests does it | what was stored can be decrypted; a scan whose stored profile cannot be decrypted ends (an unknown name, or a profile that is no JSON object, means a scan without: `modules/sitelint/service.py:41-42`) |
| Settings, registry, schemas, logging, metrics, tracing, dashboard | - | - | no protocol |

**How they interact.**  `mcp_handler` (`apps/mcp_server/main.py:153`) is an
`async` function that calls `call_tool` synchronously, so one API process
handles one call at a time, on its event loop.  A write tool passes the rate
limiter, the repo policy and the risk gate, calls GitHub or writes a file,
creates a receipt and appends an audit row.  `start_scan` creates or finds a
row of `jobs` and either scans at once or sends the job id and the caller's
payload to Celery; the worker updates the row through the same job store and
puts the report into the same object store.  A read tool asks GitHub or the
object store, sometimes twice, while GitHub changes; its output is stored and
logged before it is returned.  API processes and workers share nothing else
than the database, the object store, the directory of screenshots, the master
key file and the queue.

**What is hard.**  Two processes that insert one key; a row read in one
transaction and acted on in another; repeated calls, repeated messages and
crashes between the status changes of a job; responses of GitHub that are lost
after the write and the retry that follows, which makes a second draft release
or issue; the three steps of a local put
under crashes and a second writer; the creation of one key file by several
processes; the cutover of processes one at a time; what changes at GitHub
between two requests of a call; the comparison at the edge of a window or of a
token's life, and a clock that is set back.  `PROJECT.json` lists
them with their lines and the properties that cover them.

## 2. Modules

| Module | Models | State and actions |
|---|---|---|
| `RateLimiter` | `core/rate_limit.py` | `events` is `_events`; `Accept`/`Refuse` are `allow` returning True/False (with the pruning), `Restart` empties the memory, `Tick` is the time. `StepBack` sets the clock back: `Reading` is `time.time()`, `back` behind the time. `accepted` is history. |
| `SiteLint` | `start_scan`, job store, worker, zip reports | `rows` is table `jobs`, `objects` the store, `shots` the screenshot directories, `queue` Celery's, `at[p]` what process `p` holds between two accesses to shared state. One action is one transaction, one put, one message, one scan: `Submit` (first SELECT), `Insert`, `Reselect`, `Answer`, `Dispatch`, `MarkRunning`, `Scan`, `LoopRefusesScan`, `Put`, `Finish`, `Take`, `ZipReport`, and the faults `Crash`, `ScanRaises`, `DispatchRaises`. |
| `JobLifecycle` | abstract: what callers of `start_scan` may rely on | `phase` and `report` of each key; `Create`, `Begin`, `Complete`. `SiteLint` implements it. |
| `WriteTools` | `_call_tool_inner` for the three write tools, with `security/`, receipts, audit log, client retries | composes `RateLimiter` (`Limiter == INSTANCE`). An intent is an operation with its arguments; a release may be a draft or a dry run. `CallRateLimited`, `CallNotAllowed`, `CallUnconfirmed`, `CallConfirmed` are the outcomes of admission in the order of the code; `Deny`, `WriteDone`, `WriteRejected`, `WriteLost`, `CreateReceipt`, `LogDone` the steps after it; `StorageRaises`, `CrashRestart` the faults. GitHub refuses a second published release of a tag (`Conflicts`) and takes issues and drafts again (`Repeatable`). `passed` and `refusals` are history: when calls came in that were not refused, and those that were. |
| `ReleaseButler` | `create_release` behind the gate | files are validated one by one (`Validate`), the release is created with retries (`CreateDone`, `CreateRejected`, `CreateLost`), files are read again and uploaded (`UploadDone`, `UploadFails`); `Edit` changes files meanwhile. A release is known by the request that made it (`Attempts`: call and attempt), so a draft whose response was lost and the one its retry made are two. |
| `ObjectStore` | local, S3 and dual stores | `PutLocal` (exists), `Open` (truncates), `Write`; `PutS3`; `Abort`; `Cutover` restarts one process with the other backend; `Read` is `read_text`/`read_bytes`. |
| `GitHubAppAuth` | the token cache under the retrying `_request` | `cached` and `expiry` are stored at different moments (`Granted`, `GrantedUnparsed`); `zone` is the error of `time.mktime`; `issued` is the truth at GitHub. |
| `Calls` | what a call in hand is, and a local put | `at[p]`: the step, the request and what was got so far; `Step` and `Fails` (the exception that ends a call). `objects` are the documents that have a file, `torn` those whose file is not whole; `Exists`, `Open` and `Write` are the steps of `put_json_immutable`. |
| `Credentials` | master key file and `secret_credentials` | `keyfile`, `boot[p]`; `Start` (exists), `OpenKeyFile` (empties it), `WriteKey`, `Stop`, `Store` (encrypts with the key in the file). |
| `AuditLens` | `list_runs`, `fetch_evidence`, `parse_findings` | `ListRuns`, `ListArtifacts`, `Download`, `ParseFindings` (of any reference a client has, evidence or not), `PutDocument` (in three steps); `FilesOf` is the extraction of an archive, `Among` the loops over files, `RawFindings`, `Dedupe` (by id, or by the joined string of category and title) and `Calibrate` the pipeline on findings; `Upload` and `Expire` are GitHub. |
| `ReleaseReads` | `generate_notes` | `ListReleases` fixes the range, `CompareCommits` gets its commits (one page), `ListCommits` is the fallback to the newest of the default branch; `PreviousTag` is `_find_previous_tag`. `Push`, `Publish` and `Unpublish` are GitHub: a history with branches (`Reach`), releases in any order, backports and drafts among them, tags that are left out, left behind or put on another commit. |
| `Runtime` | processes, read tools, admission of scans, output log | composes the four modules above: `Call`, `ScanPolicy`, `ScanLookup`, `ScanAdmit`, `ListReceipts`, `ReadOnly`, `LogPut` (the put of the output, in its three steps), `LogAppend`; `Logged` is what a call hands to `_log`, of `list_receipts` only the count. Faults `CallRaises`, `Crash`, which may leave a file that is not whole (`interrupted` is history); `Boot`, `StoreCredential`, `GitHubChanges` happen meanwhile. `SiteLint` has what becomes of an admitted scan. |
| `MC*` | callers for TLC | small sets of requests, explained in each module |
| `*Proofs` | theorems | see section 5 |

Abstractions that hold throughout: a hash is the content it is of (no
collisions); an HMAC token is the pair it authenticates (nobody makes one
without the secret); wording, logging and metrics are left out; reads that
return what is stored are properties, and as calls one action (`ReadOnly`).
Definitions headed "Mutation" are plausible bugs, used to show that a property
notices them; no specification refers to them.

## 3. Runs

Passing runs:

* **limiter** (`RateLimiter.cfg`) - two buckets, limit 2, window 2, seven times,
  a clock that is set back by up to 2, a whole window.  `WindowLimit`: no closed
  window of the running process holds more accepted calls than the limit, in
  true time and whatever the clock says.  `DequeIsWindow`: the deque holds every
  call still in the window, and none longer than the clock was set back, so
  nobody is refused needlessly while the clock is right.  Three times the
  window and more calls than twice the limit fit into the clock, so that entries
  are pruned one, several and all at a time.
* **sitelint_inline** - one API process, five calls over two keys (one with a
  baseline, one used for two urls), two crashes or failed scans, callers on the
  event loop and off it.  `ScannedOnce`, `BundleIsOfOneScan`,
  `DiffAgainstBaseline`, and the refinement `LifecycleSpec` without repeats: a
  key is queued, runs once, completes and keeps its report.
* **sitelint_async** - two API processes, two workers, one redelivery, two
  faults.  `AnswersAgree` (one job per key, through the race for the INSERT),
  `ResultReadable`, `ResultAnswersJob`, `NoJobForgotten`, the refinement with
  repeats, and the liveness property `JobsEnd`: a job none of whose handlers
  failed is completed in the end and stays so, whatever happens to other jobs.
  Two calls, two workers and one redelivery put up to three messages of one job
  in flight and two workers into one job at different steps.
* **write_tools** - three calls over six intents, three faults, limit 2,
  window and token life 1, three clock readings.  `WritesWereAsked`,
  `WritesPerCall` (at most three, and more than one only of issues and draft
  releases), `ReceiptsAreTrue`, `SlotsAreKept` (calls that were not refused -
  denied, against the policy, dry runs, lost or written - never exceed the limit,
  and a refusal has a full window of them behind it) and `CallsReturn`.  Lost
  messages are faults and so bounded; that retries are, too, is `WritesPerCall`,
  and that nothing else is retried `CallsReturn`.  Three calls are
  what it takes to be denied, to write and to write again; three faults use up
  every attempt; the clock passes both ends of the window and of the token.
* **object_store** - two processes, two documents, two aborted puts, three
  cutovers.  `SettledStaysReadable` (dual read keeps local documents readable
  for ever) and `NewRefsReadable`.
* **release_butler** - two calls for one tag, each a published release with two
  files of one name, a draft with files of two names or a dry run; three faults
  and one edit.  Three faults are what it takes to lose two responses of a draft
  and an upload of the third.  `EveryAssetReported`, `UploadsAreThere`,
  `ManifestIsOfUpload`, `OwnReleaseOnly`, `ReleasesAreReported`.
* **github_app_auth** - four tokens of life 4, margin 1, servers two units west
  of Greenwich, on it, and one and five east.  `RefusedOnlyLate`: a header is
  never made of a token about to expire, but for the offset west of Greenwich.
  `TokensLast`: the cache is used up to the margin, less the offset east of it.
  The clock leaves room for two whole lives and every way to lose a token.
* **runtime** (`Runtime.cfg`) - two API processes that start on one empty
  volume, two calls out of nine requests (and `parse_findings` of whatever
  documents were returned), and two events, each an exception, a crash, a stored
  credential or a change at GitHub.  Two calls are what a fetch and a parse, or
  two interleaved calls, take; two events are what it takes to store a credential
  and lose the key, or to upload twice and re-list.  Archives hold two entries
  of one path, an entry that is no text, a report that does not parse, an empty
  one, a finding whose confidence is more than 1 and two findings whose category
  and title join to one string.  The history has four commits and one on a branch,
  two releases of three tags, two releases to a page of the list and one commit
  to a page of a comparison, so that ranges of one commit fit and longer ones do
  not.  The scan
  limiter may answer anything (its own module has what it answers).  The two
  processes are symmetric.  `AnswersAreLogged`: an answer has an audit row of
  its call whose reference is to exactly what the call logs, and that reads back
  unless a put of that very document was interrupted or is under way.  `SecretsReadBack`: what was stored while no process
  was creating the key decrypts ever after.  `ScansCarryTheirProfile`: a scan is
  not admitted without the profile that was stored under the name it gives.  `EvidenceIsOneArtifact`,
  `FindingsAreComplete`: nothing is lost, mixed or doubled between an artifact
  and its findings.  `NotesAddUp` is about the notes that were
  answered: two that meet at a tag share no commit, and have all of the whole
  range between them if neither is longer than a page, whatever happened between
  a listing and its comparison.  Notes that fell back are not meant: those of the
  oldest release do, and repeat commits, as the tests want it
  (`test_find_previous_tag_edge_cases`).

Runs that show a disagreement between a document or test and the code (each
under `findings` in `PROJECT.json` with the lines):

* **sitelint_on_loop** - `JobsComplete` fails in the default mode: `POST /mcp`
  calls the scan on the event loop, its `asyncio.run` raises, and the job stays
  `running`; the same key is answered with that job from then on.
* **sitelint_async_baseline** - `DiffWhenAsked` fails in async mode: the worker
  does not look at `baseline_scan_id`.
* **write_tools_receipts** - `WritesHaveReceipts` fails: a write whose last
  response is lost, or that is followed by a crash or a storage error, has no
  receipt.
* **object_store_torn** - `RefsReadBack` fails: an interrupted local put leaves a
  truncated file that later puts take for the document.

Bounds are CONSTANTS named `Max...` in the guards: calls, faults, redeliveries,
clock readings and steps back, tokens, edits, cutovers, events, artifacts, commits.  Runs with `CHECK_DEADLOCK FALSE` are
those whose callers may all have used up their calls: an idle server may stop.

## 4. Fairness

`SiteLint` assumes weak fairness of `StartScan(p)` for each API process and of
`RunTask(p)` for each worker process; `WriteTools` of `Handle`.  That is: a
thread that has something to do goes on.  In the code nothing blocks for ever -
HTTP calls and page loads have timeouts, and an exception ends the handler.
Nothing is assumed of callers, the clock, crashes, the broker's redeliveries or
GitHub.  `sitelint_on_loop` states its property under the same fairness, so the
stuck job is not due to a process that never moves.

## 5. Theorems

TLAPS checks these for every value of the constants that satisfies the named
assumption of the module; TLC evaluates the assumptions in every run.

**`RateLimiterProofs`** (from `LimiterAssumption`).  `WindowLimit` speaks of
every call ever accepted and of true time, the code only of a deque of readings.
The inductive invariant links them: accepted calls are in order and not in the
future, the deque is the tail of them with each reading late by no more than the
clock was set back by now, and what was dropped is out of the window.  With the
deque shorter than the limit, the call `Limit` places earlier is one that was
dropped.  `LimiterKeepsWindow`, `LimiterDequeIsWindow`, `LimiterTypeOK`,
`LimiterInvariant`.

**`SiteLintProofs`** (from `SiteLintAssumption`: the two kinds of process are
disjoint, baselines are jobs, `None` is none of the values).  Any number of
processes, keys, faults, calls and redeliveries, in both modes:
`SiteLintAnswersAgree`, `SiteLintResultReadable`, `SiteLintResultAnswersJob`,
`SiteLintTypeOK`.  None of them is inductive: a process acts on what it read
several steps ago.  `IInv` adds that rows are one per key (`KeysUnique`), that
what a process holds is about a row of its request's key, made by a scan of its
own and, before the last transaction, in the store (`HandsOK`), and the same of
messages (`QueueOK`) and answers (`AnswersOK`).  All of that stays true while
others act because rows keep their key, objects are never removed and scans are
never rewritten (`Grows`); so each action needs an argument only for its own
process and for the row it writes.

**`SiteLintJobProofs`** (on top of it).  `SiteLintNoJobForgotten`: whoever read a
status still has the job in hand, or a handler of it failed.
`SiteLintImplementsLifecycle`, for a finite set of API processes: an `Insert`
maps to `Create`, the first `MarkRunning` to `Begin` and `Finish` to `Complete`;
everything else stutters (with repeats where several may handle a job).  For one
inline process (`Solo`): `SoloScannedOnce`, `SoloBundleIsOfOneScan` and
`SoloDiffAgainstBaseline`, from an invariant that a job which did not start has no
scan and none has two, the scan of the job in hand is the last one, and a row
with a result is completed and the screenshots are of the same scan.

**`WriteToolsProofs`** (from `WriteToolsAssumption`).  One part of the invariant
is about the past, which only grows: each token is in the audit log as the
denial it was handed out with.  The other is about the call in hand: once
confirmed it was asked for; while it writes it has fewer effects than attempts,
all of its own intent, and no receipt; a second effect is of an intent GitHub
takes again, since a published release is refused once it exists and nothing
retries an export.  `WriteToolsWritesWereAsked`,
`WriteToolsWritesPerCall`, `WriteToolsReceiptsAreTrue`, `WriteToolsTypeOK`.
`WriteToolsSlotsAreKept` speaks of the calls that came in, not of the limiter's
variables: `Slots` says that those a process passed are exactly those its
limiter accepted - every path that does not refuse took a slot - and
`KeepsLimits` brings in the theorems of `RateLimiterProofs`, instantiated with
one bucket and a clock that is not set back.

**`ObjectStoreProofs`** (from `ObjectStoreAssumption`).
`ObjectStoreSettledStaysReadable` needs that being settled is for ever: a put of
a settled document finds the file and does not open it, and no put of it was
under way.  `ObjectStoreNewRefsReadable` needs that a reference to S3 is of a
document in the bucket.  `ObjectStoreTypeOK`.

**`ReleaseButlerProofs`** (from `ReleaseAssumption`).  The invariant keeps the
account of the call in hand: the files it checked are those asked for, those
uploaded and failed are the ones dealt with so far, every asset on its release
is one of them, and what earlier attempts left behind is empty, and drafts where
there is more than one.  `ReleaseReleasesAreReported` says what may remain that
no result names: empty releases, of a call that raised or drafts of lost
attempts.
All six properties of the run.

**`GitHubAppAuthProofs`** (from `AuthAssumption`: the margin is shorter than a
token's life, and the server did not start before the epoch its offset needs).
The token and the expiry in the cache may be of different tokens, so the
invariant is that the expiry in hand, corrected by the offset, is not later than
that of the token in hand, nor than that of a token issued now (`NeverLate`).
`AuthRefusedOnlyLate`, `AuthTokensLast`, `AuthTypeOK`.

**`RuntimeProofs`** (from `CredentialsAssumption`; `RuntimeAssumption`: the
tools are those of the registry, a scan names a credential or none, notes name
tags or none, and what is parsed was returned before or is one of the documents
of other modules, which have no `files`; `AuditLensAssumption`: archives are
sequences of entries, a text either parses as a list of findings, whose
confidences may be any numbers, or does not; `ReleaseReadsAssumption`: a finite
history, and releases and tags to start with).  All seven
invariants of the run are proved, each part by an argument of its own.  The
credential store comes first, by itself: once a credential was stored with the
key file settled, no process is between `exists` and the end of its write, and
none gets there again since the file exists from then on (`CredentialsReadBack`).
`RuntimeImplementsCredentials` carries that over to the runtime.  `HandsOK` says
what a call has in hand at each step - the row of a lookup was stored under the
name, an output about to be appended has a file - from which
`RuntimeScansCarryTheirProfile` follows and that every answer is filed (`Filed`,
in `RuntimeInvariant`).  That a file is whole is not to be had: `TornOK` says that
one which is not is just being written or was interrupted while it was, since
only `Open` tears a file and the process that did writes it or ends its call.
Together they are `RuntimeAnswersAreLogged`.

What AuditLens computes is settled first, as facts about operators:
`FilesOfIs` (extraction), `AmongIs` (a loop over the files that picks some),
`DedupeIs` (`_dedupe_findings`: the first of each key and nothing else),
`RawFindingsAre`, `CalibrateRaises` and, from these, `ParsedIsComplete`.  They
hold for every input, so they are inductions over its length.  The provers
cannot use an induction principle that takes a formula as a parameter, so
`Induction` is stated of sets of numbers, from the theorem that `<` on the
naturals is well founded, and a loop is a recursive function whose steps
`StepwiseExists` shows to exist.  `LensInv` then follows a document through the
calls: an artifact keeps its id and its content whatever is uploaded or expires
(`UploadsOK`), a call about to download has the id of an artifact of the run and
name it was asked for, what a call is about to store is already what it says
(`LensHand`), and so is what is stored and what clients were given
(`DocumentsOK`); with `Filed`, what they send back to be parsed is in
the store.  `RuntimeEvidenceIsOneArtifact`, `RuntimeFindingsAreComplete`,
`RuntimeTypes`.

For `RuntimeNotesAddUp` the invariant is `NotesInv`: notes that did not fall
back, in hand or answered, are a page of what lies between two commits that
their tags were at (`NotesOK`), and a tag is at a commit it was at.  Where each
tag was at one commit only, the notes of x to y and of y to z are pages of
`Reach[y] \ Reach[x]` and `Reach[z] \ Reach[y]`: nothing is in both, and without
a cut (`NewestIsAll`, by cardinality) they cover `Reach[z] \ Reach[x]`.

**Model-checked only.**  Liveness (`JobsEnd`, `JobsComplete`, `CallsReturn`) and
everything with fairness, which this prover does not handle.  Every other
property of a passing run is a theorem.  That the properties of the four other
runs fail is TLC's counterexample.

## 6. Not modelled, and why

* Settings, engine, registry, schemas: constants; those that matter are
  CONSTANTS.  Observability: counters nothing reads back.  Dashboard: reads.
  Smoke script: a linear client of the tools.
* The scanner inside one page (Lighthouse, axe, Playwright): external programs.
  Its list of urls (sorted paths, cut to the budget), titles and page findings
  are pure functions of one request that no other part depends on.
* The wording of issues, patches and notes, and the grouping of notes by type.
* What `get_latest`, `list_assets` and `verify_asset` answer: they keep no state,
  nothing is made of their answers, and as calls they are `ReadOnly`.
* Prereleases as such: for the listing, the tags and `create_release` they are
  published releases.  A draft that is published or
  edited on GitHub after it was created.
* Puts to S3 in `Runtime`, which are one step; `ObjectStore` has both stores.
* A clock that jumps forward (calls are then admitted early, as with any limiter
  on wall-clock time), and daylight saving time while a server runs.
* Rows of the database that are changed by hand; `list_*` tools that return what
  is stored.

## 7. Plan

Done, in this order: `RateLimiter` and its proofs; `SiteLint` with
`JobLifecycle` and its proofs; `WriteTools`; `ObjectStore`; `ReleaseButler`;
`GitHubAppAuth` and its proofs; a clock that is set back; `Credentials`,
`AuditLens`, `ReleaseReads` and their composition `Runtime`; the proofs of
`WriteTools`, `ObjectStore`, `ReleaseButler`, `Runtime` and of SiteLint's jobs,
with the refinements; the operators and the invariants of AuditLens and of
release notes; draft releases, local puts in three steps under the output log, and
a history with branches.

Left:

1. The list of urls of a scan against a reference definition.
2. An abstract immutable store for documents whose puts are not interrupted, that
   both `ObjectStore` and the puts of `Calls` implement.
3. Three processes on one volume in `Runtime`, which TLC can check only with
   fewer requests.

## 8. Running

`tlc -config Runtime.cfg MCRuntime.tla` and `tlc -config SiteLintAsync.cfg
MCSiteLint.tla` take one to two minutes, `ReleaseButler.cfg` about one, the other runs seconds.
`tlapm ReleaseButlerProofs.tla` and `tlapm RuntimeProofs.tla` take a few minutes,
the other proof modules up to two.  `PROJECT.json` lists each run with its module, configuration and
properties, the source lines of every definition, the mutants, hazards, findings
and theorems.
