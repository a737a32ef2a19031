---------------------------- MODULE RateLimiter ----------------------------
(***************************************************************************)
(* The in-memory sliding-window rate limiter of core/rate_limit.py.  One   *)
(* deque of accept times per bucket; a call prunes the stale front of the  *)
(* deque, then is refused when the deque is full and is otherwise recorded.*)
(*                                                                         *)
(* The variable accepted is history: every time at which the running       *)
(* process let a caller through.  The code keeps only the deque, and the   *)
(* question is whether the deque is enough.  Time moves on, but time.time()*)
(* may be set back: the deque holds its readings, accepted the time it was.*)
(***************************************************************************)
EXTENDS Integers, Sequences

CONSTANTS
    Buckets,    \* bucket names the runtime uses ("scan", "github-write")
    Limit,      \* limit_per_minute
    Window,     \* window_seconds
    Clock,      \* the readings a clock may give (any resolution)
    MaxBack     \* bound: how far time.time() is set back in all

ASSUME LimiterAssumption ==
    /\ Limit \in Nat
    /\ Window \in Nat
    /\ Clock \subseteq Nat
    /\ MaxBack \in Nat

VARIABLES
    now,        \* the time
    back,       \* how far time.time() is behind it
    events,     \* [Buckets -> deque of accept times], InMemoryRateLimiter._events
    accepted    \* [Buckets -> every accept time since the process started]

vars == <<now, back, events, accepted>>

Reading == now - back   \* time.time()

\* Mutation: <= instead of < in the comparison with window_start.
StaleOnEdge(t) == t + Window <= Reading

\* A recorded time is pruned when it is strictly before the window.
Stale(t) == t + Window < Reading

\* The deques the while loop of allow may leave behind: the suffix whose
\* removed front is stale throughout and whose own front is not.
Pruned(q) ==
    {SubSeq(q, n + 1, Len(q)) :
        n \in {k \in 0 .. Len(q) : /\ \A i \in 1 .. k : Stale(q[i])
                                   /\ k < Len(q) => ~Stale(q[k + 1])}}

Init ==
    /\ now \in Clock /\ back = 0
    /\ events = [b \in Buckets |-> <<>>]
    /\ accepted = [b \in Buckets |-> <<>>]

\* allow(b) returns True.
Accept(b) ==
    \E q \in Pruned(events[b]) :
        /\ Len(q) < Limit
        /\ events' = [events EXCEPT ![b] = Append(q, Reading)]
        /\ accepted' = [accepted EXCEPT ![b] = Append(accepted[b], now)]
        /\ UNCHANGED <<now, back>>

\* Mutation: the refused call is recorded as well.
RefuseRecorded(b) ==
    \E q \in Pruned(events[b]) :
        /\ Len(q) >= Limit
        /\ events' = [events EXCEPT ![b] = Append(q, Reading)]
        /\ UNCHANGED <<now, back, accepted>>

\* allow(b) returns False: the pruning stays, nothing is recorded.
Refuse(b) ==
    \E q \in Pruned(events[b]) :
        /\ Len(q) >= Limit
        /\ events' = [events EXCEPT ![b] = q]
        /\ UNCHANGED <<now, back, accepted>>

\* The clock moves on, by one reading or by many.
Tick ==
    /\ now' \in {t \in Clock : t > now}
    /\ UNCHANGED <<back, events, accepted>>

\* The clock of the machine is set back (NTP, an administrator).
StepBack ==
    /\ back' \in back + 1 .. MaxBack
    /\ UNCHANGED <<now, events, accepted>>

\* Mutation: one deque instead of one per bucket.
RestartFlat ==
    /\ events' = <<>>
    /\ UNCHANGED <<now, back, accepted>>

\* The process restarts: the deques are in memory only.
Restart ==
    /\ events' = [b \in Buckets |-> <<>>]
    /\ accepted' = [b \in Buckets |-> <<>>]
    /\ UNCHANGED <<now, back>>

Next ==
    \/ \E b \in Buckets : Accept(b) \/ Refuse(b)
    \/ Tick \/ StepBack
    \/ Restart

Spec == Init /\ [][Next]_vars

-----------------------------------------------------------------------------

TypeOK ==
    /\ now \in Clock /\ back \in 0 .. MaxBack
    /\ events \in [Buckets -> Seq(Int)]
    /\ accepted \in [Buckets -> Seq(Clock)]

\* The promise of limit_per_minute: no closed interval of Window holds more
\* than Limit accepted calls, wherever the interval begins, whatever mixture
\* of calls, refusals and time fell into it and however the clock is set back.
WindowLimit ==
    \A b \in Buckets : \A i \in 1 .. Len(accepted[b]) :
        i + Limit <= Len(accepted[b]) =>
            accepted[b][i] + Window < accepted[b][i + Limit]

\* No caller is refused for anything but accepted calls of the last Window,
\* plus as much as the clock was set back: pruning only at the front, of a
\* deque that is then not in order, forgets no call of the window and keeps
\* none older than that, and refused calls do not count.
DequeIsWindow ==
    \A b \in Buckets : \A q \in Pruned(events[b]) : \A i \in 1 .. Len(accepted[b]) :
        LET kept == i + Len(q) > Len(accepted[b]) IN
        /\ Len(q) <= Len(accepted[b])
        /\ now <= accepted[b][i] + Window => kept
        /\ kept => now <= accepted[b][i] + Window + back
=============================================================================
