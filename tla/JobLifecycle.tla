---------------------------- MODULE JobLifecycle ----------------------------
(***************************************************************************)
(* What callers of sitelint.start_scan may rely on, one idempotency key at *)
(* a time: a job is queued, then runs, then is completed and has a report  *)
(* from then on.  Where the job may be handled more than once (Repeats) it *)
(* may start again and its report may be replaced, but never disappears.   *)
(***************************************************************************)
CONSTANTS
    Keys,       \* idempotency keys
    Documents,  \* reports
    None,       \* no report
    Repeats     \* several processes, or messages, may handle one job

VARIABLES
    phase,      \* [Keys -> {"absent", "queued", "running", "completed"}]
    report      \* [Keys -> Documents \cup {None}]

vars == <<phase, report>>

Init ==
    /\ phase = [k \in Keys |-> "absent"]
    /\ report = [k \in Keys |-> None]

Enter(k, to) == phase' = [phase EXCEPT ![k] = to]

\* The first start_scan with key k creates its job.
Create(k) ==
    /\ phase[k] = "absent"
    /\ Enter(k, "queued")
    /\ UNCHANGED report

\* The scan begins, once unless the job may be handled again.
Begin(k) ==
    /\ phase[k] # "absent" /\ (phase[k] = "queued" \/ Repeats)
    /\ Enter(k, "running")
    /\ UNCHANGED report

\* A scan ends with a report.
Complete(k) ==
    /\ phase[k] # "absent" /\ (phase[k] = "running" \/ Repeats)
    /\ Enter(k, "completed")
    /\ report'[k] \in Documents
    /\ report' = [report EXCEPT ![k] = report'[k]]

Next == \E k \in Keys : Create(k) \/ Begin(k) \/ Complete(k)

Spec == Init /\ [][Next]_vars
=============================================================================
