----------------------------- MODULE WriteTools -----------------------------
(***************************************************************************)
(* The three write tools of mcp/runtime.py (auditlens.create_issue,        *)
(* releasebutler.create_release, sitelint.export_report) from tools/call   *)
(* to their answer: rate limit, repo policy, confirmation token, the write *)
(* itself with the retries of the GitHub client, the receipt, the audit    *)
(* row.  The API process handles one call at a time; time passes, requests *)
(* and responses are lost and the process dies between any two steps.      *)
(*                                                                         *)
(* An intent is an operation with its arguments, without the token.  The   *)
(* token is an HMAC over the intent and its time of issue; nobody without  *)
(* the secret can make one, so a token is the pair it authenticates and a  *)
(* client owns those it was given.                                         *)
(***************************************************************************)
EXTENDS Naturals, Sequences, FiniteSets

CONSTANTS
    Intents,        \* the [tool, repo, item, draft, dry] clients ask for
    RepoAllowlist,  \* settings.repo_write_allowlist_set
    None,           \* no token, no allowlisted repo, nothing written
    Limit, Window,  \* github_write_rate_limit_per_minute, 60
    TTL,            \* write_confirmation_ttl_seconds
    MaxTime,        \* bound: clock readings
    MaxCalls,       \* bound: tool calls
    MaxFaults       \* bound: crashes, lost and refused requests, storage errors

Times == 0 .. MaxTime

\* tenacity: stop_after_attempt(3)
MaxAttempts == 3

ASSUME WriteToolsAssumption ==
    /\ \A i \in Intents : i.tool \in {"create_issue", "create_release", "export_report"}
    /\ Limit \in Nat /\ Window \in Nat /\ TTL \in Nat
    /\ MaxTime \in Nat /\ MaxCalls \in Nat /\ MaxFaults \in Nat

VARIABLES
    now,        \* time.time(); int(time.time()) is the same reading
    events,     \* the write limiter's deque
    accepted,   \* history of the limiter, see RateLimiter
    api,        \* the call being handled
    tokens,     \* confirmation tokens handed to clients
    effects,    \* writes that took place, in order: [call, intent, gate]
    receipts,   \* table receipts
    audit,      \* table audit_logs
    calls, faults,
    passed,     \* history: when the calls came in that this process did not refuse
    refusals    \* history: when it refused one, and how many it had passed by then

history == <<passed, refusals>>
vars == <<now, events, accepted, api, tokens, effects, receipts, audit, calls, faults, history>>

Bucket == "github-write"
Limiter == INSTANCE RateLimiter WITH Buckets <- {Bucket}, Clock <- Times,
                                back <- 0, MaxBack <- 0

Idle == [pc |-> "idle", call |-> 0, intent |-> None, gate |-> 0, attempt |-> 0,
         wrote |-> 0]

Init ==
    /\ Limiter!Init /\ now = 0
    /\ api = Idle
    /\ tokens = {}
    /\ effects = <<>> /\ receipts = <<>> /\ audit = <<>>
    /\ calls = 0 /\ faults = 0
    /\ passed = <<>> /\ refusals = {}

-----------------------------------------------------------------------------
(* Admission                                                               *)

\* require_repo_write_allowed; export_report names no repo and has no such check.
RepoAllowed(i) ==
    \/ i.tool = "export_report"
    \/ RepoAllowlist = {}
    \/ i.repo \in RepoAllowlist

\* Mutation: the signature covers the operation only.
ConfirmsTool(t, i) == t # None /\ t.intent.tool = i.tool /\ now <= t.at + TTL

\* verify_token: issued for these very arguments, at most TTL ago.
Confirms(t, i) == t # None /\ t.intent = i /\ now <= t.at + TTL

Arrive == api.pc = "idle" /\ calls < MaxCalls /\ calls' = calls + 1

\* History: the call is answered anything but "rate limited".
Passes == passed' = Append(passed, now) /\ UNCHANGED refusals

\* allow refuses: MCPRateLimitError, before anything else is looked at.
CallRateLimited ==
    /\ Arrive
    /\ Limiter!Refuse(Bucket)
    /\ refusals' = refusals \cup {[at |-> now, after |-> Len(passed)]}
    /\ UNCHANGED <<api, tokens, effects, receipts, audit, faults, passed>>

\* Mutation: the policy is looked at before the limiter.
CallNotAllowedFirst(i) ==
    /\ Arrive
    /\ ~RepoAllowed(i) /\ Passes
    /\ UNCHANGED <<now, events, accepted, api, tokens, effects, receipts, audit, faults>>

\* PolicyViolation: an error that has used a slot of the limiter.
CallNotAllowed(i) ==
    /\ Arrive
    /\ Limiter!Accept(Bucket)
    /\ ~RepoAllowed(i) /\ Passes
    /\ UNCHANGED <<api, tokens, effects, receipts, audit, faults>>

\* check_write without a valid token: a new token, known here only so far.
CallUnconfirmed(i, t) ==
    /\ Arrive
    /\ Limiter!Accept(Bucket)
    /\ RepoAllowed(i) /\ ~Confirms(t, i) /\ Passes
    /\ api' = [Idle EXCEPT !.pc = "deny", !.call = calls', !.intent = i, !.gate = now]
    /\ UNCHANGED <<tokens, effects, receipts, audit, faults>>

\* check_write lets the call through; a dry run of a release writes nothing.
CallConfirmed(i, t) ==
    /\ Arrive
    /\ Limiter!Accept(Bucket)
    /\ RepoAllowed(i) /\ Confirms(t, i) /\ Passes
    /\ api' = [Idle EXCEPT !.pc = IF i.dry THEN "receipt" ELSE "write",
                           !.call = calls', !.intent = i, !.gate = now, !.attempt = 1]
    /\ UNCHANGED <<tokens, effects, receipts, audit, faults>>

\* The audit row of a denied call, then the response with the token.
Deny ==
    /\ api.pc = "deny"
    /\ audit' = Append(audit, [call |-> api.call, intent |-> api.intent,
                               at |-> api.gate, denied |-> TRUE])
    /\ tokens' = tokens \cup {[intent |-> api.intent, at |-> api.gate]}
    /\ api' = Idle
    /\ UNCHANGED <<now, events, accepted, effects, receipts, calls, faults, history>>

-----------------------------------------------------------------------------
(* The write                                                               *)

\* GitHub answers 422 to a second published release of one tag, and to nothing
\* else here: of drafts there may be several, issues have no identity, and a
\* file is simply overwritten.
Conflicts(i) ==
    /\ i.tool = "create_release" /\ ~i.draft
    /\ \E n \in 1 .. Len(effects) :
        LET e == effects[n].intent IN
        e.tool = "create_release" /\ ~e.draft /\ e.repo = i.repo /\ e.item = i.item

\* What GitHub takes again and again: a retry makes another one.
Repeatable(i) == i.tool = "create_issue" \/ (i.tool = "create_release" /\ i.draft)

Effect == effects' = Append(effects, [call |-> api.call, intent |-> api.intent,
                                      gate |-> api.gate])

Fault == faults < MaxFaults /\ faults' = faults + 1

Fails == api' = Idle    \* the exception reaches mcp_handler: JSON-RPC -32000

\* The request is carried out and its response arrives.
WriteDone ==
    /\ api.pc = "write" /\ ~Conflicts(api.intent)
    /\ Effect
    /\ api' = [api EXCEPT !.pc = "receipt", !.wrote = Len(effects')]
    /\ UNCHANGED <<now, events, accepted, tokens, receipts, audit, calls, faults, history>>

\* Mutation: the 422 is swallowed and the request is made again and again.
WriteRejectedRetried ==
    /\ api.pc = "write" /\ Conflicts(api.intent)
    /\ UNCHANGED vars

\* Raised before anything is written, and not retried: GitHub answers 400 or
\* above (GitHubClientError), the report to export is not ready.
WriteRejected ==
    /\ api.pc = "write" /\ Fails
    /\ IF Conflicts(api.intent) THEN UNCHANGED faults ELSE Fault
    /\ UNCHANGED <<now, events, accepted, tokens, effects, receipts, audit, calls, history>>

\* Mutation: one attempt too many.
WriteLostFourTimes ==
    /\ api.pc = "write" /\ Fault
    /\ UNCHANGED effects \/ (~Conflicts(api.intent) /\ Effect)
    /\ IF api.intent.tool # "export_report" /\ api.attempt <= MaxAttempts
       THEN api' = [api EXCEPT !.attempt = @ + 1]
       ELSE Fails
    /\ UNCHANGED <<now, events, accepted, tokens, receipts, audit, calls, history>>

\* Mutation: an export is retried like a request.
WriteLostAnyRetried ==
    /\ api.pc = "write" /\ Fault
    /\ UNCHANGED effects \/ (~Conflicts(api.intent) /\ Effect)
    /\ IF api.attempt < MaxAttempts THEN api' = [api EXCEPT !.attempt = @ + 1] ELSE Fails
    /\ UNCHANGED <<now, events, accepted, tokens, receipts, audit, calls, history>>

\* Mutation: a write that failed in the end is given a receipt.
WriteLostReceipted ==
    /\ api.pc = "write" /\ Fault
    /\ UNCHANGED effects \/ (~Conflicts(api.intent) /\ Effect)
    /\ IF api.intent.tool # "export_report" /\ api.attempt < MaxAttempts
       THEN api' = [api EXCEPT !.attempt = @ + 1]
       ELSE api' = [api EXCEPT !.pc = "receipt"]
    /\ UNCHANGED <<now, events, accepted, tokens, receipts, audit, calls, history>>

\* httpx.HTTPError: the request did not get there, or was carried out and the
\* response was lost.  _request tries again, up to three times in all.  Nothing
\* retries the local file of export_report (a disk error).
WriteLost ==
    /\ api.pc = "write" /\ Fault
    /\ UNCHANGED effects \/ (~Conflicts(api.intent) /\ Effect)
    /\ IF api.intent.tool # "export_report" /\ api.attempt < MaxAttempts
       THEN api' = [api EXCEPT !.attempt = @ + 1]
       ELSE Fails
    /\ UNCHANGED <<now, events, accepted, tokens, receipts, audit, calls, history>>

\* create_receipt: the result object and the row, after the write.
CreateReceipt ==
    /\ api.pc = "receipt"
    /\ receipts' = Append(receipts, [call |-> api.call, intent |-> api.intent,
                                     wrote |-> api.wrote])
    /\ api' = [api EXCEPT !.pc = "log"]
    /\ UNCHANGED <<now, events, accepted, tokens, effects, audit, calls, faults, history>>

\* _log, then the response.
LogDone ==
    /\ api.pc = "log"
    /\ audit' = Append(audit, [call |-> api.call, intent |-> api.intent,
                               at |-> api.gate, denied |-> FALSE])
    /\ api' = Idle
    /\ UNCHANGED <<now, events, accepted, tokens, effects, receipts, calls, faults, history>>

\* The object store or the database raises in create_receipt or _log.
StorageRaises ==
    /\ api.pc \in {"deny", "receipt", "log"}
    /\ Fault /\ Fails
    /\ UNCHANGED <<now, events, accepted, tokens, effects, receipts, audit, calls, history>>

\* The process dies and is started again: the limiter forgets, tokens do not
\* depend on it (the secret is a setting).
CrashRestart ==
    /\ Fault /\ Fails
    /\ Limiter!Restart
    /\ passed' = <<>> /\ refusals' = {}
    /\ UNCHANGED <<tokens, effects, receipts, audit, calls>>

Pass ==
    /\ Limiter!Tick
    /\ UNCHANGED <<api, tokens, effects, receipts, audit, calls, faults, history>>

-----------------------------------------------------------------------------

\* The client presents no token or any token it was ever given.
Call(i, t) == CallRateLimited \/ CallNotAllowed(i) \/ CallUnconfirmed(i, t) \/ CallConfirmed(i, t)

Handle == Deny \/ WriteDone \/ WriteRejected \/ WriteLost \/ CreateReceipt \/ LogDone \/ StorageRaises

Next ==
    \/ \E i \in Intents, t \in tokens \cup {None} : Call(i, t)
    \/ Handle
    \/ CrashRestart
    \/ Pass

Spec == Init /\ [][Next]_vars

\* The handler runs to its end; nothing forces clients, clock or crashes.
FairSpec == Spec /\ WF_vars(Handle)

-----------------------------------------------------------------------------
(* Properties                                                              *)

Tokens == [intent : Intents, at : Times]
Records == [call : Nat, intent : Intents, at : Times, denied : BOOLEAN]

HistoryOK == passed \in Seq(Times) /\ refusals \subseteq [at : Times, after : Nat]

TypeOK ==
    /\ Limiter!TypeOK
    /\ api \in [pc : {"idle", "deny", "write", "receipt", "log"}, call : Nat,
                intent : Intents \cup {None}, gate : Times, attempt : 0 .. MaxAttempts,
                wrote : Nat]
    /\ tokens \subseteq Tokens
    /\ effects \in Seq([call : Nat, intent : Intents, gate : Times])
    /\ receipts \in Seq([call : Nat, intent : Intents, wrote : Nat])
    /\ audit \in Seq(Records)
    /\ calls \in Nat /\ faults \in Nat
    /\ HistoryOK

\* docs/SECURITY.md: a write needs a confirmation.  For everything written the
\* audit log shows that an earlier call asked for exactly this and was denied,
\* no more than TTL before the write was let through; restarts included.
WritesWereAsked ==
    \A n \in 1 .. Len(effects) : \E m \in 1 .. Len(audit) :
        /\ audit[m].denied
        /\ audit[m].intent = effects[n].intent
        /\ audit[m].call < effects[n].call
        /\ audit[m].at <= effects[n].gate /\ effects[n].gate <= audit[m].at + TTL

\* Retrying is bounded, and its effects are what GitHub takes twice: one call
\* writes at most three times, and only an issue or a draft release is written
\* more than once by one call; a published release or an exported file never is.
WritesPerCall ==
    \A c \in 1 .. calls :
        LET ofCall == {n \in 1 .. Len(effects) : effects[n].call = c} IN
        /\ Cardinality(ofCall) <= MaxAttempts
        /\ Cardinality(ofCall) > 1 => \A n \in ofCall : Repeatable(effects[n].intent)

\* A receipt tells the truth: the write it names is of the same call and the
\* same arguments, a receipt that names none is of a dry run, and no two
\* receipts are of one call.
ReceiptsAreTrue ==
    \A n \in 1 .. Len(receipts) :
        LET r == receipts[n] IN
        /\ IF r.wrote = 0 THEN r.intent.dry
           ELSE /\ r.wrote \in 1 .. Len(effects)
                /\ effects[r.wrote].call = r.call /\ effects[r.wrote].intent = r.intent
        /\ \A m \in 1 .. n - 1 : receipts[m].call # r.call

\* The limit is on calls, not on writes (runtime.py asks the limiter before
\* anything else): of all that a process did not refuse - denied, against the
\* policy, a dry run, lost or written - never more than Limit came in within a
\* closed Window; and whenever it refused one, the Limit calls it let through
\* before were no older than that.
SlotsAreKept ==
    /\ \A n \in 1 .. Len(passed) :
          n + Limit <= Len(passed) => passed[n] + Window < passed[n + Limit]
    /\ \A r \in refusals :
          /\ Limit <= r.after
          /\ \A n \in r.after - Limit + 1 .. r.after : r.at <= passed[n] + Window

\* Every call is answered, whatever is lost.
CallsReturn == api.pc # "idle" ~> api.pc = "idle"

\* Receipt-first writes: between calls, everything that was written has a receipt.
WritesHaveReceipts ==
    api.pc = "idle" => \A n \in 1 .. Len(effects) :
        \E m \in 1 .. Len(receipts) : receipts[m].call = effects[n].call
=============================================================================
