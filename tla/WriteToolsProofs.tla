--------------------------- MODULE WriteToolsProofs ---------------------------
(***************************************************************************)
(* The write pipeline, for every set of intents, limit, window, TTL and    *)
(* number of calls and faults.                                             *)
(*                                                                         *)
(* The invariant has a part about the past, which only grows, and a part   *)
(* about the call in hand.  The past: every token is in the audit log as   *)
(* the denial it was handed out with, and effects and receipts are of      *)
(* calls that were made.  The call in hand: once confirmed it was asked    *)
(* for, and while it is writing it has fewer effects than attempts, all of *)
(* its own intent, and no receipt; a second effect is of an intent that    *)
(* GitHub takes repeatedly.                                                *)
(*                                                                         *)
(* The slots of the limiter rest on the theorems about RateLimiter: what   *)
(* this process passed is exactly what its limiter accepted (Slots).       *)
(***************************************************************************)
EXTENDS WriteTools, FiniteSetTheorems, TLAPS

\* The audit log shows a denial for which a write of call c may be confirmed at g.
Asked(i, c, g) ==
    \E m \in 1 .. Len(audit) :
        /\ audit[m].denied /\ audit[m].intent = i /\ audit[m].call < c
        /\ audit[m].at <= g /\ g <= audit[m].at + TTL

\* The effects of call c.
Of(c) == {n \in 1 .. Len(effects) : effects[n].call = c}

\* A call with intent i that names write w says the truth.
Names(w, c, i) ==
    IF w = 0 THEN i.dry
    ELSE w \in 1 .. Len(effects) /\ effects[w].call = c /\ effects[w].intent = i

TokensLogged ==
    \A t \in tokens :
        /\ t.at <= now
        /\ \E m \in 1 .. Len(audit) :
              /\ audit[m].denied /\ audit[m].intent = t.intent /\ audit[m].at = t.at
              /\ audit[m].call <= calls

EffectsOfCalls == \A n \in 1 .. Len(effects) : effects[n].call \in 1 .. calls

ReceiptsOfCalls == \A n \in 1 .. Len(receipts) : receipts[n].call \in 1 .. calls

AtMostThree == \A c \in Nat : Cardinality(Of(c)) <= MaxAttempts

OnlyRepeatablesTwice ==
    \A m, n \in 1 .. Len(effects) :
        m # n /\ effects[m].call = effects[n].call => Repeatable(effects[n].intent)

Past ==
    /\ TokensLogged /\ WritesWereAsked /\ ReceiptsAreTrue
    /\ EffectsOfCalls /\ ReceiptsOfCalls /\ AtMostThree /\ OnlyRepeatablesTwice

\* A call that is writing.
Writing ==
    /\ api.attempt \in 1 .. MaxAttempts
    /\ api.attempt > 1 => api.intent.tool # "export_report"
    /\ Cardinality(Of(api.call)) < api.attempt
    /\ \A n \in Of(api.call) : effects[n].intent = api.intent

Present ==
    /\ api.gate <= now
    /\ api.pc # "idle" => api.intent \in Intents /\ api.call \in 1 .. calls
    /\ api.pc \in {"write", "receipt", "log"} => Asked(api.intent, api.call, api.gate)
    /\ api.pc = "write" => Writing
    /\ api.pc \in {"write", "receipt"} => \A n \in 1 .. Len(receipts) : receipts[n].call # api.call
    /\ api.pc \in {"receipt", "log"} => Names(api.wrote, api.call, api.intent)

IInv == TypeOK /\ Past /\ Present

-----------------------------------------------------------------------------
(* Numbers, sequences and sets                                             *)

\* What constants and types say of the numbers.
LEMMA Numbers ==
    ASSUME TypeOK
    PROVE  /\ now \in Nat /\ TTL \in Nat /\ calls \in Nat /\ api.gate \in Nat /\ api.call \in Nat
           /\ Times \subseteq Nat
           /\ Len(effects) \in Nat /\ Len(audit) \in Nat /\ Len(receipts) \in Nat
  BY WriteToolsAssumption DEF WriteToolsAssumption, TypeOK, Limiter!TypeOK, Times

\* The effects of a call are finitely many.
LEMMA OfFinite ==
    ASSUME TypeOK, NEW c
    PROVE  IsFiniteSet(Of(c)) /\ Cardinality(Of(c)) \in Nat
<1>1. IsFiniteSet(1 .. Len(effects))
  BY Numbers, FS_Interval
<1>2. Of(c) \subseteq 1 .. Len(effects)
  BY DEF Of
<1> QED BY <1>1, <1>2, FS_Subset, FS_CardinalityType

-----------------------------------------------------------------------------
(* The limiter                                                             *)

LimiterStep ==
    \/ Limiter!Accept(Bucket) \/ Limiter!Refuse(Bucket)
    \/ Limiter!Restart \/ Limiter!Tick
    \/ UNCHANGED <<now, events, accepted>>

\* What the limiter's loop leaves of a deque is a deque.
LEMMA PrunedSeq ==
    ASSUME NEW e \in Seq(Int), NEW q \in Limiter!Pruned(e)
    PROVE  q \in Seq(Int)
<1>1. PICK n \in 0 .. Len(e) : q = SubSeq(e, n + 1, Len(e))
  BY DEF Limiter!Pruned
<1> QED BY <1>1

\* The limiter keeps its types, and the clock moves on.
LEMMA LimiterStepTypes ==
    ASSUME TypeOK, LimiterStep
    PROVE  Limiter!TypeOK' /\ now' \in Nat /\ now <= now'
<1>1. /\ now \in Times /\ events \in [{Bucket} -> Seq(Int)] /\ accepted \in [{Bucket} -> Seq(Times)]
      /\ Times \subseteq Nat /\ now \in Nat
  BY Numbers DEF TypeOK, Limiter!TypeOK
<1>2. events[Bucket] \in Seq(Int) /\ accepted[Bucket] \in Seq(Times)
  BY <1>1
<1>3. CASE Limiter!Accept(Bucket)
  <2>1. PICK q \in Limiter!Pruned(events[Bucket]) :
          /\ events' = [events EXCEPT ![Bucket] = Append(q, now - 0)]
          /\ accepted' = [accepted EXCEPT ![Bucket] = Append(accepted[Bucket], now)]
          /\ now' = now
    BY <1>3 DEF Limiter!Accept, Limiter!Reading
  <2>2. q \in Seq(Int) /\ now - 0 \in Int
    BY <1>1, <1>2, PrunedSeq
  <2>3. Append(q, now - 0) \in Seq(Int) /\ Append(accepted[Bucket], now) \in Seq(Times)
    BY <1>1, <1>2, <2>2
  <2> QED BY <1>1, <2>1, <2>3 DEF Limiter!TypeOK, TypeOK
<1>4. CASE Limiter!Refuse(Bucket)
  <2>1. PICK q \in Limiter!Pruned(events[Bucket]) :
          /\ events' = [events EXCEPT ![Bucket] = q]
          /\ accepted' = accepted /\ now' = now
    BY <1>4 DEF Limiter!Refuse
  <2>2. q \in Seq(Int)
    BY <1>2, PrunedSeq
  <2> QED BY <1>1, <2>1, <2>2 DEF Limiter!TypeOK, TypeOK
<1>5. CASE Limiter!Restart
  BY <1>1, <1>5 DEF Limiter!Restart, Limiter!TypeOK, TypeOK
<1>6. CASE Limiter!Tick
  <2>1. now' \in Times /\ now' > now /\ events' = events /\ accepted' = accepted
    BY <1>6 DEF Limiter!Tick
  <2>2. now' \in Nat
    BY <1>1, <2>1
  <2> QED BY <1>1, <2>1, <2>2 DEF Limiter!TypeOK, TypeOK
<1>7. CASE UNCHANGED <<now, events, accepted>>
  BY <1>1, <1>7 DEF Limiter!TypeOK, TypeOK
<1> QED BY <1>3, <1>4, <1>5, <1>6, <1>7 DEF LimiterStep

\* The history keeps its types when a call is passed or refused, or a process
\* starts.
LEMMA HistoryTypes ==
    ASSUME TypeOK,
           \/ Passes \/ UNCHANGED history \/ (passed' = <<>> /\ refusals' = {})
           \/ (UNCHANGED passed /\ refusals' = refusals \cup {[at |-> now, after |-> Len(passed)]})
    PROVE  HistoryOK'
<1>1. passed \in Seq(Times) /\ refusals \subseteq [at : Times, after : Nat] /\ now \in Times
      /\ Len(passed) \in Nat
  BY DEF TypeOK, HistoryOK, Limiter!TypeOK
<1>2. CASE Passes
  <2>1. Append(passed, now) \in Seq(Times)
    BY <1>1
  <2> QED BY <1>1, <1>2, <2>1 DEF Passes, HistoryOK
<1>3. CASE UNCHANGED history
  BY <1>1, <1>3 DEF history, HistoryOK
<1>4. CASE passed' = <<>> /\ refusals' = {}
  BY <1>4 DEF HistoryOK
<1>5. CASE UNCHANGED passed /\ refusals' = refusals \cup {[at |-> now, after |-> Len(passed)]}
  BY <1>1, <1>5 DEF HistoryOK
<1> QED BY <1>2, <1>3, <1>4, <1>5

-----------------------------------------------------------------------------
(* The steps                                                               *)

\* A new server satisfies the invariant.
LEMMA InitIInv == Init => IInv
<1> SUFFICES ASSUME Init PROVE IInv
  OBVIOUS
<1>1. now = 0 /\ api = Idle /\ tokens = {} /\ effects = <<>> /\ receipts = <<>> /\ audit = <<>>
      /\ calls = 0 /\ faults = 0
  BY DEF Init
<1>2. 0 \in Times /\ Times \subseteq Nat
  BY WriteToolsAssumption DEF WriteToolsAssumption, Times
<1>3. Limiter!TypeOK
  BY <1>2 DEF Init, Limiter!Init, Limiter!TypeOK
<1>9. HistoryOK
  BY DEF Init, HistoryOK
<1>4. TypeOK
  BY <1>1, <1>2, <1>3, <1>9 DEF TypeOK, Idle, MaxAttempts
<1>5. \A c : Of(c) = {}
  BY <1>1 DEF Of
<1>6. AtMostThree
  BY <1>5, FS_EmptySet DEF AtMostThree, MaxAttempts
<1>7. Past
  BY <1>1, <1>6 DEF Past, TokensLogged, WritesWereAsked, ReceiptsAreTrue, EffectsOfCalls,
                    ReceiptsOfCalls, OnlyRepeatablesTwice
<1>8. Present
  BY <1>1 DEF Present, Idle
<1> QED BY <1>4, <1>7, <1>8 DEF IInv

\* Time passes, calls are refused, and the call in hand goes on as it was.
LEMMA PastStays ==
    ASSUME IInv, LimiterStep, calls' \in Nat, calls <= calls',
           UNCHANGED <<tokens, effects, receipts, audit>>
    PROVE  Past'
<1>1. /\ now \in Nat /\ now' \in Nat /\ now <= now' /\ calls \in Nat
      /\ calls' \in Nat /\ calls <= calls' /\ Times \subseteq Nat
  BY LimiterStepTypes, Numbers DEF IInv
<1>2. \A c : Of(c)' = Of(c)
  BY DEF Of
<1>3. TokensLogged'
  <2> SUFFICES ASSUME NEW t \in tokens
               PROVE  /\ t.at <= now'
                      /\ \E m \in 1 .. Len(audit) :
                            /\ audit[m].denied /\ audit[m].intent = t.intent
                            /\ audit[m].at = t.at /\ audit[m].call <= calls'
    BY DEF TokensLogged
  <2>1. t.at \in Nat /\ t.at <= now
    BY <1>1 DEF IInv, TypeOK, Tokens, Past, TokensLogged
  <2>2. PICK m \in 1 .. Len(audit) :
            /\ audit[m].denied /\ audit[m].intent = t.intent
            /\ audit[m].at = t.at /\ audit[m].call <= calls
    BY DEF IInv, Past, TokensLogged
  <2>3. audit[m] \in Records
    BY DEF IInv, TypeOK
  <2>4. audit[m].call \in Nat
    BY <2>3 DEF Records
  <2>5. audit[m].call <= calls' /\ t.at <= now'
    BY <1>1, <2>1, <2>2, <2>4
  <2> QED BY <2>2, <2>5
<1>4. EffectsOfCalls'
  BY <1>1 DEF IInv, Past, EffectsOfCalls
<1>5. ReceiptsOfCalls'
  BY <1>1 DEF IInv, Past, ReceiptsOfCalls
<1>6. WritesWereAsked' /\ ReceiptsAreTrue' /\ OnlyRepeatablesTwice'
  BY DEF IInv, Past, WritesWereAsked, ReceiptsAreTrue, OnlyRepeatablesTwice
<1>7. AtMostThree'
  BY <1>2 DEF IInv, Past, AtMostThree
<1> QED BY <1>3, <1>4, <1>5, <1>6, <1>7 DEF Past

\* An idle server has nothing to show of a call.
LEMMA IdlePresent ==
    ASSUME TypeOK, now' \in Nat, api' = Idle
    PROVE  Present'
  BY DEF Present, Idle

\* Steps that leave the call alone, or end it with nothing to show for it.
LEMMA QuietIInv ==
    ASSUME IInv, LimiterStep, api' = api \/ api' = Idle, calls' \in Nat, calls <= calls',
           faults' \in Nat, HistoryOK', UNCHANGED <<tokens, effects, receipts, audit>>
    PROVE  IInv'
<1>1. /\ Limiter!TypeOK' /\ now' \in Nat /\ now <= now' /\ now \in Nat /\ calls \in Nat
      /\ api.gate \in Nat /\ api.call \in Nat /\ 0 \in Times
  BY LimiterStepTypes, Numbers, WriteToolsAssumption DEF IInv, WriteToolsAssumption, Times
<1>2. TypeOK'
  BY <1>1 DEF IInv, TypeOK, Idle, MaxAttempts
<1>3. Past'
  BY PastStays
<1>4. CASE api' = Idle
  BY <1>1, <1>2, <1>3, <1>4, IdlePresent DEF IInv
<1>5. CASE api' = api
  <2>1. Of(api.call)' = Of(api.call)
    BY <1>5 DEF Of
  <2>2. (api.pc = "write" => Writing)'
    BY <1>5, <2>1 DEF IInv, Present, Writing
  <2>3. api'.gate <= now' /\ (api'.pc # "idle" => api'.intent \in Intents /\ api'.call \in 1 .. calls')
    BY <1>1, <1>5 DEF IInv, Present
  <2>4. (api.pc \in {"write", "receipt", "log"} => Asked(api.intent, api.call, api.gate))'
    BY <1>5 DEF IInv, Present, Asked
  <2>5. Present'
    BY <1>5, <2>2, <2>3, <2>4 DEF IInv, Present, Names
  <2> QED BY <1>2, <1>3, <2>5 DEF IInv
<1> QED BY <1>4, <1>5

\* A call that is refused by the limiter or by the repo policy.
LEMMA CallRefusedIInv ==
    ASSUME IInv, NEW i \in Intents, CallRateLimited \/ CallNotAllowed(i)
    PROVE  IInv'
<1>1. LimiterStep /\ api' = api /\ calls' = calls + 1 /\ faults' = faults
      /\ UNCHANGED <<tokens, effects, receipts, audit>>
  BY DEF CallRateLimited, CallNotAllowed, LimiterStep, Arrive
<1>4. HistoryOK'
  BY HistoryTypes DEF IInv, CallRateLimited, CallNotAllowed
<1>2. calls \in Nat /\ faults \in Nat
  BY DEF IInv, TypeOK
<1>3. calls' \in Nat /\ calls <= calls' /\ faults' \in Nat
  BY <1>1, <1>2
<1> QED BY <1>1, <1>3, <1>4, QuietIInv

\* Steps that fail, a crash with a restart, and time.
LEMMA FailureIInv ==
    ASSUME IInv, WriteRejected \/ StorageRaises \/ CrashRestart \/ Pass \/ UNCHANGED vars
    PROVE  IInv'
<1>1. LimiterStep /\ (api' = api \/ api' = Idle) /\ calls' = calls /\ faults' \in {faults, faults + 1}
      /\ UNCHANGED <<tokens, effects, receipts, audit>>
  BY DEF WriteRejected, StorageRaises, CrashRestart, Pass, vars, LimiterStep, Fault, Fails
<1>4. HistoryOK'
  BY HistoryTypes DEF IInv, WriteRejected, StorageRaises, CrashRestart, Pass, vars
<1>2. calls \in Nat /\ faults \in Nat
  BY DEF IInv, TypeOK
<1>3. calls' \in Nat /\ calls <= calls' /\ faults' \in Nat
  BY <1>1, <1>2
<1> QED BY <1>1, <1>3, <1>4, QuietIInv

\* The call that the gate has just admitted, or denied.
Gated(pc, c, i, n) ==
    [pc |-> pc, call |-> c, intent |-> i, gate |-> now, attempt |-> n, wrote |-> 0]

\* A call that the gate denies, or lets through: what it takes for a step of
\* the gate to keep the invariant.
LEMMA GateIInv ==
    ASSUME IInv, LimiterStep, now' = now,
           NEW i \in Intents, NEW pc \in {"deny", "write", "receipt"}, NEW n \in 0 .. 1, NEW c,
           c = calls + 1, calls' = c, api' = Gated(pc, c, i, n),
           UNCHANGED <<tokens, effects, receipts, audit, faults>>, HistoryOK',
           pc = "write" => n = 1,
           pc = "receipt" => i.dry,
           pc # "deny" => Asked(i, c, now)
    PROVE  IInv'
<1>1. calls \in Nat /\ c \in Nat /\ calls <= c /\ c \in 1 .. c /\ c \notin 1 .. calls
  BY Numbers DEF IInv
<1>2. /\ api'.pc = pc /\ api'.call = c /\ api'.intent = i /\ api'.gate = now
      /\ api'.attempt = n /\ api'.wrote = 0
  BY DEF Gated
<1>3. api' \in [pc : {"idle", "deny", "write", "receipt", "log"}, call : Nat,
                intent : Intents \cup {None}, gate : Times, attempt : 0 .. MaxAttempts,
                wrote : Nat]
  <2>1. now \in Times /\ n \in 0 .. MaxAttempts
    BY DEF IInv, TypeOK, Limiter!TypeOK, MaxAttempts
  <2> QED BY <1>1, <2>1 DEF Gated
<1>4. TypeOK'
  <2>1. Limiter!TypeOK'
    BY LimiterStepTypes DEF IInv
  <2> QED BY <1>1, <1>3, <2>1 DEF IInv, TypeOK
<1>5. Past'
  BY <1>1, PastStays
<1>6. Of(c)' = {}
  BY <1>1 DEF IInv, Past, EffectsOfCalls, Of
<1>7. pc = "write" => Writing'
  <2>1. Cardinality({}) < 1
    BY FS_EmptySet
  <2>2. Of(api.call)' = {}
    BY <1>2, <1>6 DEF Of
  <2> QED BY <1>2, <2>1, <2>2 DEF Writing, MaxAttempts
<1>8. \A m \in 1 .. Len(receipts) : receipts[m].call # c
  BY <1>1 DEF IInv, Past, ReceiptsOfCalls
<1>9. (api.pc \in {"write", "receipt", "log"} => Asked(api.intent, api.call, api.gate))'
  BY <1>2 DEF Asked
<1>10. now <= now
  BY Numbers DEF IInv
<1>11. (api.pc \in {"write", "receipt"} => \A m \in 1 .. Len(receipts) : receipts[m].call # api.call)'
  BY <1>2, <1>8
<1>12. (api.pc \in {"receipt", "log"} => Names(api.wrote, api.call, api.intent))'
  BY <1>2 DEF Names
<1>13. (api.gate <= now /\ (api.pc # "idle" => api.intent \in Intents /\ api.call \in 1 .. calls))'
  BY <1>1, <1>2, <1>10
<1>14. Present'
  BY <1>2, <1>7, <1>9, <1>11, <1>12, <1>13 DEF Present
<1> QED BY <1>4, <1>5, <1>14 DEF IInv

\* check_write without a valid token.
LEMMA CallUnconfirmedIInv ==
    ASSUME IInv, NEW i \in Intents, NEW t, CallUnconfirmed(i, t)
    PROVE  IInv'
<1>1. /\ LimiterStep /\ now' = now /\ calls' = calls + 1
      /\ api' = [Idle EXCEPT !.pc = "deny", !.call = calls', !.intent = i, !.gate = now]
      /\ UNCHANGED <<tokens, effects, receipts, audit, faults>>
  BY DEF CallUnconfirmed, LimiterStep, Limiter!Accept, Arrive
<1>4. HistoryOK'
  BY HistoryTypes DEF IInv, CallUnconfirmed
<1>2. PICK c : c = calls + 1
  OBVIOUS
<1>3. api' = Gated("deny", c, i, 0) /\ calls' = c
  BY <1>1, <1>2 DEF Idle, Gated
<1> QED BY <1>1, <1>2, <1>3, <1>4, GateIInv

\* check_write with a valid token: it was issued in a denial of the same
\* intent, at most TTL ago, and that denial is logged.
LEMMA CallConfirmedIInv ==
    ASSUME IInv, NEW i \in Intents, NEW t \in tokens \cup {None}, CallConfirmed(i, t)
    PROVE  IInv'
<1>1. /\ LimiterStep /\ now' = now /\ calls' = calls + 1
      /\ t # None /\ t.intent = i /\ now <= t.at + TTL
      /\ api' = [Idle EXCEPT !.pc = IF i.dry THEN "receipt" ELSE "write",
                             !.call = calls', !.intent = i, !.gate = now, !.attempt = 1]
      /\ UNCHANGED <<tokens, effects, receipts, audit, faults>>
  BY DEF CallConfirmed, LimiterStep, Limiter!Accept, Confirms, Arrive
<1>10. HistoryOK'
  BY HistoryTypes DEF IInv, CallConfirmed
<1>2. t \in tokens
  BY <1>1
<1>3. PICK m \in 1 .. Len(audit) :
          /\ audit[m].denied /\ audit[m].intent = t.intent /\ audit[m].at = t.at
          /\ audit[m].call <= calls
  BY <1>2 DEF IInv, Past, TokensLogged
<1>4. t.at <= now
  BY <1>2 DEF IInv, Past, TokensLogged
<1>5. PICK c : c = calls + 1
  OBVIOUS
<1>6. audit[m].call < c
  <2>1. audit[m] \in Records /\ calls \in Nat
    BY DEF IInv, TypeOK
  <2>2. audit[m].call \in Nat
    BY <2>1 DEF Records
  <2> QED BY <1>3, <1>5, <2>1, <2>2
<1>7. Asked(i, c, now)
  BY <1>1, <1>3, <1>4, <1>6 DEF Asked
<1>8. CASE i.dry
  <2>1. api' = Gated("receipt", c, i, 1) /\ calls' = c
    BY <1>1, <1>5, <1>8 DEF Idle, Gated
  <2> QED BY <1>1, <1>5, <1>7, <1>8, <1>10, <2>1, GateIInv
<1>9. CASE ~i.dry
  <2>1. api' = Gated("write", c, i, 1) /\ calls' = c
    BY <1>1, <1>5, <1>9 DEF Idle, Gated
  <2> QED BY <1>1, <1>5, <1>7, <1>10, <2>1, GateIInv
<1> QED BY <1>8, <1>9

\* What follows from a longer audit log.
LEMMA AuditGrows ==
    ASSUME TypeOK, NEW r, audit' = Append(audit, r)
    PROVE  /\ Len(audit') = Len(audit) + 1 /\ Len(audit) \in Nat
           /\ audit'[Len(audit) + 1] = r
           /\ \A m \in 1 .. Len(audit) : audit'[m] = audit[m] /\ m \in 1 .. Len(audit')
<1>1. audit \in Seq(Records) /\ Len(audit) \in Nat
  BY Numbers DEF TypeOK
<1> QED BY <1>1

\* The audit row of the call in hand, at the end of the call; a denial hands
\* out the token it logs.
LEMMA AuditIInv ==
    ASSUME IInv, NEW d \in BOOLEAN, api.pc # "idle", api' = Idle,
           audit' = Append(audit, [call |-> api.call, intent |-> api.intent, at |-> api.gate,
                                   denied |-> d]),
           tokens' = tokens \/ (d /\ tokens' = tokens \cup {[intent |-> api.intent, at |-> api.gate]}),
           UNCHANGED <<now, events, accepted, effects, receipts, calls, faults, history>>
    PROVE  IInv'
<1> DEFINE r == [call |-> api.call, intent |-> api.intent, at |-> api.gate, denied |-> d]
<1>1. /\ Len(audit') = Len(audit) + 1 /\ Len(audit) \in Nat
      /\ audit'[Len(audit) + 1] = r
      /\ \A m \in 1 .. Len(audit) : audit'[m] = audit[m] /\ m \in 1 .. Len(audit')
  BY AuditGrows DEF IInv
<1>2. /\ api.intent \in Intents /\ api.call \in 1 .. calls /\ api.gate <= now
      /\ api.gate \in Times /\ api.call \in Nat /\ now \in Nat /\ 0 \in Times
  BY Numbers, WriteToolsAssumption DEF IInv, Present, TypeOK, WriteToolsAssumption, Times
<1>3. r \in Records
  BY <1>2 DEF Records
<1>4. audit' \in Seq(Records)
  BY <1>3 DEF IInv, TypeOK
<1>5. tokens' \subseteq Tokens
  BY <1>2 DEF IInv, TypeOK, Tokens
<1>6. TypeOK'
  <2>1. Limiter!TypeOK'
    BY DEF IInv, TypeOK, Limiter!TypeOK
  <2>2. HistoryOK'
    BY HistoryTypes DEF IInv, history
  <2> QED BY <1>2, <1>4, <1>5, <2>1, <2>2 DEF IInv, TypeOK, Idle, MaxAttempts
<1> HIDE DEF r
<1>7. ASSUME NEW t \in tokens
      PROVE  /\ t.at <= now
             /\ \E m \in 1 .. Len(audit') :
                   /\ audit'[m].denied /\ audit'[m].intent = t.intent /\ audit'[m].at = t.at
                   /\ audit'[m].call <= calls
  <2>1. PICK m \in 1 .. Len(audit) :
            /\ audit[m].denied /\ audit[m].intent = t.intent /\ audit[m].at = t.at
            /\ audit[m].call <= calls
    BY DEF IInv, Past, TokensLogged
  <2>2. t.at <= now
    BY DEF IInv, Past, TokensLogged
  <2> QED BY <1>1, <2>1, <2>2
<1>8. TokensLogged'
  <2>1. CASE tokens' = tokens
    BY <1>7, <2>1 DEF TokensLogged
  <2>2. CASE d /\ tokens' = tokens \cup {[intent |-> api.intent, at |-> api.gate]}
    <3>1. Len(audit) + 1 \in 1 .. Len(audit')
      BY <1>1
    <3>2. r.denied /\ r.intent = api.intent /\ r.at = api.gate /\ r.call <= calls
      BY <1>2, <2>2 DEF r
    <3>3. \E m \in 1 .. Len(audit') :
             /\ audit'[m].denied /\ audit'[m].intent = api.intent /\ audit'[m].at = api.gate
             /\ audit'[m].call <= calls
      BY <1>1, <3>1, <3>2
    <3> QED BY <1>2, <1>7, <2>2, <3>3 DEF TokensLogged
  <2> QED BY <2>1, <2>2
<1>9. WritesWereAsked'
  <2> SUFFICES ASSUME NEW n \in 1 .. Len(effects)
               PROVE  \E m \in 1 .. Len(audit') :
                         /\ audit'[m].denied /\ audit'[m].intent = effects[n].intent
                         /\ audit'[m].call < effects[n].call
                         /\ audit'[m].at <= effects[n].gate
                         /\ effects[n].gate <= audit'[m].at + TTL
    BY DEF WritesWereAsked
  <2>1. PICK m \in 1 .. Len(audit) :
            /\ audit[m].denied /\ audit[m].intent = effects[n].intent
            /\ audit[m].call < effects[n].call
            /\ audit[m].at <= effects[n].gate /\ effects[n].gate <= audit[m].at + TTL
    BY DEF IInv, Past, WritesWereAsked
  <2> QED BY <1>1, <2>1
<1>10. \A c : Of(c)' = Of(c)
  BY DEF Of
<1>11. Past'
  BY <1>8, <1>9, <1>10 DEF IInv, Past, ReceiptsAreTrue, EffectsOfCalls, ReceiptsOfCalls, AtMostThree,
                           OnlyRepeatablesTwice
<1>12. Present'
  BY <1>2, IdlePresent DEF IInv
<1> QED BY <1>6, <1>11, <1>12 DEF IInv

\* A denied call, and a call that was carried out, are logged.
LEMMA LoggedIInv ==
    ASSUME IInv, Deny \/ LogDone
    PROVE  IInv'
<1>1. CASE Deny
  <2>1. /\ api.pc # "idle" /\ api' = Idle
        /\ audit' = Append(audit, [call |-> api.call, intent |-> api.intent, at |-> api.gate,
                                   denied |-> TRUE])
        /\ tokens' = tokens \cup {[intent |-> api.intent, at |-> api.gate]}
        /\ UNCHANGED <<now, events, accepted, effects, receipts, calls, faults, history>>
    BY <1>1 DEF Deny
  <2> QED BY <2>1, AuditIInv
<1>2. CASE LogDone
  <2>1. /\ api.pc # "idle" /\ api' = Idle
        /\ audit' = Append(audit, [call |-> api.call, intent |-> api.intent, at |-> api.gate,
                                   denied |-> FALSE])
        /\ tokens' = tokens
        /\ UNCHANGED <<now, events, accepted, effects, receipts, calls, faults, history>>
    BY <1>2 DEF LogDone
  <2> QED BY <2>1, AuditIInv
<1> QED BY <1>1, <1>2

-----------------------------------------------------------------------------
(* The write                                                               *)

\* What follows from one more effect, of the call in hand.
LEMMA EffectGrows ==
    ASSUME IInv, api.pc = "write", Effect
    PROVE  /\ Len(effects') = Len(effects) + 1 /\ Len(effects) \in Nat
           /\ effects'[Len(effects) + 1] =
                  [call |-> api.call, intent |-> api.intent, gate |-> api.gate]
           /\ \A n \in 1 .. Len(effects) : effects'[n] = effects[n]
           /\ 1 .. Len(effects') = (1 .. Len(effects)) \cup {Len(effects) + 1}
           /\ effects' \in Seq([call : Nat, intent : Intents, gate : Times])
<1> DEFINE r == [call |-> api.call, intent |-> api.intent, gate |-> api.gate]
           T == [call : Nat, intent : Intents, gate : Times]
<1>1. r \in T
  BY DEF IInv, TypeOK, Present
<1>2. effects \in Seq(T) /\ effects' = Append(effects, r) /\ Len(effects) \in Nat
  BY Numbers DEF IInv, TypeOK, Effect
<1> HIDE DEF r, T
<1>3. /\ effects' \in Seq(T) /\ Len(effects') = Len(effects) + 1
      /\ effects'[Len(effects) + 1] = r
      /\ \A n \in 1 .. Len(effects) : effects'[n] = effects[n]
  BY <1>1, <1>2
<1>4. 1 .. Len(effects') = (1 .. Len(effects)) \cup {Len(effects) + 1}
  BY <1>2, <1>3
<1> QED BY <1>2, <1>3, <1>4 DEF r, T

\* The effect is one more of its call, and none of any other.
LEMMA EffectOf ==
    ASSUME IInv, api.pc = "write", Effect, NEW c
    PROVE  Of(c)' = IF c = api.call THEN Of(c) \cup {Len(effects) + 1} ELSE Of(c)
<1>1. \A n \in 1 .. Len(effects) : effects'[n].call = effects[n].call
  BY EffectGrows
<1>2. effects'[Len(effects) + 1].call = api.call
  BY EffectGrows
<1>3. 1 .. Len(effects') = (1 .. Len(effects)) \cup {Len(effects) + 1}
  BY EffectGrows
<1> QED BY <1>1, <1>2, <1>3 DEF Of

\* A call that wrote before can only be one that creates an issue or a draft: an
\* export is not retried, and a second published release conflicts.
LEMMA SecondIsRepeatable ==
    ASSUME IInv, api.pc = "write", ~Conflicts(api.intent), NEW n \in Of(api.call)
    PROVE  Repeatable(api.intent)
<1>1. Writing /\ api.intent \in Intents
  BY DEF IInv, Present
<1>2. n \in 1 .. Len(effects) /\ effects[n].intent = api.intent
  BY <1>1 DEF Writing, Of
<1>3. api.intent.tool = "create_release" => api.intent.draft
  BY <1>2 DEF Conflicts
<1>4. api.attempt # 1
  <2> SUFFICES ASSUME api.attempt = 1 PROVE FALSE
    OBVIOUS
  <2>1. IsFiniteSet(Of(api.call)) /\ Cardinality(Of(api.call)) \in Nat
    BY OfFinite DEF IInv
  <2>2. Cardinality(Of(api.call)) = 0
    BY <1>1, <2>1 DEF Writing
  <2>3. Of(api.call) = {}
    BY <2>1, <2>2, FS_EmptySet
  <2> QED BY <2>3
<1>5. api.attempt \in 1 .. MaxAttempts
  BY <1>1 DEF Writing
<1>6. api.attempt > 1
  BY <1>4, <1>5 DEF MaxAttempts
<1>7. api.intent.tool # "export_report"
  BY <1>1, <1>6 DEF Writing
<1> QED BY <1>1, <1>3, <1>7, WriteToolsAssumption DEF WriteToolsAssumption, Repeatable

\* With one more effect the past is still in order.
LEMMA EffectPast ==
    ASSUME IInv, api.pc = "write", ~Conflicts(api.intent), Effect,
           UNCHANGED <<now, tokens, receipts, audit, calls>>
    PROVE  Past'
<1> DEFINE new == Len(effects) + 1
<1>1. /\ Len(effects') = new /\ Len(effects) \in Nat
      /\ \A n \in 1 .. Len(effects) : effects'[n] = effects[n]
      /\ 1 .. Len(effects') = (1 .. Len(effects)) \cup {new}
  BY EffectGrows
<1>2. /\ effects'[new].call = api.call /\ effects'[new].intent = api.intent
      /\ effects'[new].gate = api.gate
  BY EffectGrows
<1> HIDE DEF new
<1>3. Writing /\ api.call \in 1 .. calls /\ Asked(api.intent, api.call, api.gate)
  BY DEF IInv, Present
<1>4. WritesWereAsked'
  BY <1>1, <1>2, <1>3 DEF IInv, Past, WritesWereAsked, Asked
<1>5. EffectsOfCalls' /\ ReceiptsOfCalls' /\ TokensLogged'
  BY <1>1, <1>2, <1>3 DEF IInv, Past, EffectsOfCalls, ReceiptsOfCalls, TokensLogged
<1>6. ReceiptsAreTrue'
  BY <1>1 DEF IInv, Past, ReceiptsAreTrue
<1>7. OnlyRepeatablesTwice'
  <2> SUFFICES ASSUME NEW m \in 1 .. Len(effects'), NEW n \in 1 .. Len(effects'),
                      m # n, effects'[m].call = effects'[n].call
               PROVE  Repeatable(effects'[n].intent)
    BY DEF OnlyRepeatablesTwice
  <2>1. CASE m \in 1 .. Len(effects) /\ n \in 1 .. Len(effects)
    BY <1>1, <2>1 DEF IInv, Past, OnlyRepeatablesTwice
  <2>2. CASE m \in 1 .. Len(effects) /\ n = new
    <3>1. m \in Of(api.call)
      BY <1>1, <1>2, <2>2 DEF Of
    <3> QED BY <1>2, <2>2, <3>1, SecondIsRepeatable
  <2>3. CASE n \in 1 .. Len(effects) /\ m = new
    <3>1. n \in Of(api.call)
      BY <1>1, <1>2, <2>3 DEF Of
    <3>2. effects[n].intent = api.intent
      BY <1>3, <3>1 DEF Writing
    <3> QED BY <1>1, <2>3, <3>1, <3>2, SecondIsRepeatable
  <2> QED BY <1>1, <2>1, <2>2, <2>3
<1>8. AtMostThree'
  <2> SUFFICES ASSUME NEW c \in Nat PROVE Cardinality(Of(c)') <= MaxAttempts
    BY DEF AtMostThree
  <2>1. CASE c # api.call
    <3>1. Of(c)' = Of(c)
      BY <2>1, EffectOf
    <3> QED BY <3>1 DEF IInv, Past, AtMostThree
  <2>2. CASE c = api.call
    <3>1. Of(c)' = Of(c) \cup {new}
      BY <2>2, EffectOf DEF new
    <3>2. IsFiniteSet(Of(c)) /\ Cardinality(Of(c)) \in Nat
      BY OfFinite DEF IInv
    <3>3. Cardinality(Of(c) \cup {new}) \in {Cardinality(Of(c)), Cardinality(Of(c)) + 1}
      BY <3>2, FS_AddElement
    <3>4. Cardinality(Of(c)) < api.attempt /\ api.attempt \in 1 .. MaxAttempts
      BY <1>3, <2>2 DEF Writing
    <3> QED BY <3>1, <3>2, <3>3, <3>4 DEF MaxAttempts
  <2> QED BY <2>1, <2>2
<1> QED BY <1>4, <1>5, <1>6, <1>7, <1>8 DEF Past

\* The write is carried out and the response arrives.
LEMMA WriteDoneIInv ==
    ASSUME IInv, WriteDone
    PROVE  IInv'
<1>1. /\ api.pc = "write" /\ ~Conflicts(api.intent) /\ Effect
      /\ UNCHANGED <<now, events, accepted, tokens, receipts, audit, calls, faults, history>>
  BY DEF WriteDone
<1>2. PICK w : w = Len(effects')
  OBVIOUS
<1>3. api' = [api EXCEPT !.pc = "receipt", !.wrote = w]
  BY <1>2 DEF WriteDone
<1>4. w = Len(effects) + 1 /\ w \in Nat /\ w # 0 /\ w \in 1 .. Len(effects')
  BY <1>1, <1>2, EffectGrows
<1>5. effects'[w].call = api.call /\ effects'[w].intent = api.intent
  BY <1>1, <1>4, EffectGrows
<1>6. /\ api'.pc = "receipt" /\ api'.call = api.call /\ api'.intent = api.intent
      /\ api'.gate = api.gate /\ api'.wrote = w
  BY <1>3 DEF IInv, TypeOK
<1>7. TypeOK'
  <2>1. Limiter!TypeOK'
    BY <1>1 DEF IInv, TypeOK, Limiter!TypeOK
  <2>2. effects' \in Seq([call : Nat, intent : Intents, gate : Times])
    BY <1>1, EffectGrows
  <2>3. api' \in [pc : {"idle", "deny", "write", "receipt", "log"}, call : Nat,
                  intent : Intents \cup {None}, gate : Times, attempt : 0 .. MaxAttempts,
                  wrote : Nat]
    BY <1>3, <1>4 DEF IInv, TypeOK
  <2>4. HistoryOK'
    BY <1>1, HistoryTypes DEF IInv, history
  <2> QED BY <1>1, <2>1, <2>2, <2>3, <2>4 DEF IInv, TypeOK
<1>8. Past'
  BY <1>1, EffectPast
<1>9. (Names(api.wrote, api.call, api.intent))'
  BY <1>4, <1>5, <1>6 DEF Names
<1>10. (Asked(api.intent, api.call, api.gate))'
  BY <1>1, <1>6 DEF IInv, Present, Asked
<1>11. (\A n \in 1 .. Len(receipts) : receipts[n].call # api.call)'
  BY <1>1, <1>6 DEF IInv, Present
<1>12. (api.gate <= now /\ api.intent \in Intents /\ api.call \in 1 .. calls)'
  BY <1>1, <1>6 DEF IInv, Present
<1>13. Present'
  BY <1>6, <1>9, <1>10, <1>11, <1>12 DEF Present
<1> QED BY <1>7, <1>8, <1>13 DEF IInv

\* A request or its response is lost: at most one more effect for one more
\* attempt.
LEMMA WriteLostIInv ==
    ASSUME IInv, WriteLost
    PROVE  IInv'
<1>1. /\ api.pc = "write" /\ faults' = faults + 1
      /\ UNCHANGED <<now, events, accepted, tokens, receipts, audit, calls, history>>
      /\ UNCHANGED effects \/ (~Conflicts(api.intent) /\ Effect)
  BY DEF WriteLost, Fault
<1>9. HistoryOK'
  BY <1>1, HistoryTypes DEF IInv, history
<1>2. CASE UNCHANGED effects /\ api' = Idle
  <2>1. LimiterStep
    BY <1>1 DEF LimiterStep
  <2>2. faults' \in Nat /\ calls' \in Nat /\ calls <= calls'
    BY <1>1 DEF IInv, TypeOK
  <2> QED BY <1>1, <1>2, <1>9, <2>1, <2>2, QuietIInv
<1>3. Limiter!TypeOK'
  BY <1>1 DEF IInv, TypeOK, Limiter!TypeOK
<1>4. Past'
  <2>1. CASE UNCHANGED effects
    <3>1. LimiterStep /\ calls' \in Nat /\ calls <= calls'
      BY <1>1 DEF LimiterStep, IInv, TypeOK
    <3> QED BY <1>1, <2>1, <3>1, PastStays
  <2>2. CASE ~Conflicts(api.intent) /\ Effect
    BY <1>1, <2>2, EffectPast
  <2> QED BY <1>1, <2>1, <2>2
<1>5. effects' \in Seq([call : Nat, intent : Intents, gate : Times])
  <2>1. CASE UNCHANGED effects
    BY <2>1 DEF IInv, TypeOK
  <2>2. CASE Effect
    BY <1>1, <2>2, EffectGrows
  <2> QED BY <1>1, <2>1, <2>2
<1>6. faults' \in Nat
  BY <1>1 DEF IInv, TypeOK
<1>7. CASE api' = Idle
  <2>1. TypeOK'
    BY <1>1, <1>3, <1>5, <1>6, <1>7, <1>9, WriteToolsAssumption
       DEF IInv, TypeOK, Idle, MaxAttempts, WriteToolsAssumption, Times
  <2>2. now \in Nat /\ now' = now
    BY <1>1, Numbers DEF IInv
  <2>3. Present'
    BY <1>7, <2>2, IdlePresent DEF IInv
  <2> QED BY <1>4, <2>1, <2>3 DEF IInv
<1>8. CASE /\ api.intent.tool # "export_report" /\ api.attempt < MaxAttempts
           /\ api' = [api EXCEPT !.attempt = @ + 1]
  <2>1. /\ Writing /\ api.intent \in Intents /\ api.attempt \in 1 .. MaxAttempts
    BY <1>1 DEF IInv, Present, Writing
  <2>2. PICK k : k = api.attempt + 1
    OBVIOUS
  <2>3. k \in 1 .. MaxAttempts /\ k \in 0 .. MaxAttempts /\ k > 1
    BY <1>8, <2>1, <2>2 DEF MaxAttempts
  <2>4. api' = [api EXCEPT !.attempt = k]
    BY <1>8, <2>2
  <2>5. /\ api'.pc = "write" /\ api'.call = api.call /\ api'.intent = api.intent
        /\ api'.gate = api.gate /\ api'.attempt = k
    BY <1>1, <2>4 DEF IInv, TypeOK
  <2>6. TypeOK'
    <3>1. api' \in [pc : {"idle", "deny", "write", "receipt", "log"}, call : Nat,
                    intent : Intents \cup {None}, gate : Times, attempt : 0 .. MaxAttempts,
                    wrote : Nat]
      BY <2>3, <2>4 DEF IInv, TypeOK
    <3> QED BY <1>1, <1>3, <1>5, <1>6, <1>9, <3>1 DEF IInv, TypeOK
  <2>7. PICK c : c = api.call
    OBVIOUS
  <2>8. (Cardinality(Of(c)) < k)' /\ (\A n \in Of(c) : effects[n].intent = api.intent)'
    <3>1. IsFiniteSet(Of(c)) /\ Cardinality(Of(c)) \in Nat
      BY OfFinite DEF IInv
    <3>2. Cardinality(Of(c)) < api.attempt /\ \A n \in Of(c) : effects[n].intent = api.intent
      BY <2>1, <2>7 DEF Writing
    <3>3. CASE UNCHANGED effects
      <4>1. Of(c)' = Of(c)
        BY <3>3 DEF Of
      <4>2. Cardinality(Of(c)) < k
        BY <2>1, <2>2, <3>1, <3>2 DEF MaxAttempts
      <4> QED BY <2>5, <3>2, <3>3, <4>1, <4>2
    <3>4. CASE Effect
      <4>1. Of(c)' = Of(c) \cup {Len(effects) + 1}
        BY <1>1, <2>7, <3>4, EffectOf
      <4>2. Cardinality(Of(c) \cup {Len(effects) + 1})
                \in {Cardinality(Of(c)), Cardinality(Of(c)) + 1}
        BY <3>1, FS_AddElement
      <4>3. Cardinality(Of(c) \cup {Len(effects) + 1}) < k
        BY <2>1, <2>2, <3>1, <3>2, <4>2 DEF MaxAttempts
      <4>4. \A n \in Of(c) : effects'[n] = effects[n]
        BY <1>1, <3>4, EffectGrows DEF Of
      <4>5. effects'[Len(effects) + 1].intent = api.intent
        BY <1>1, <3>4, EffectGrows
      <4>6. \A n \in Of(c)' : effects'[n].intent = api.intent
        BY <3>2, <4>1, <4>4, <4>5
      <4> QED BY <2>5, <4>1, <4>3, <4>6
    <3> QED BY <1>1, <3>3, <3>4
  <2>9. Writing'
    <3>1. Of(api.call)' = Of(c)'
      BY <2>5, <2>7 DEF Of
    <3> QED BY <1>8, <2>3, <2>5, <2>8, <3>1 DEF Writing
  <2>10. (Asked(api.intent, api.call, api.gate))'
    BY <1>1, <2>5 DEF IInv, Present, Asked
  <2>11. (\A n \in 1 .. Len(receipts) : receipts[n].call # api.call)'
    BY <1>1, <2>5 DEF IInv, Present
  <2>12. (api.gate <= now /\ api.intent \in Intents /\ api.call \in 1 .. calls)'
    BY <1>1, <2>5 DEF IInv, Present
  <2>13. Present'
    BY <2>5, <2>9, <2>10, <2>11, <2>12 DEF Present
  <2> QED BY <1>4, <2>6, <2>13 DEF IInv
<1> QED BY <1>7, <1>8 DEF WriteLost, Fails

\* The receipt of the call in hand, the only one of this call.
LEMMA CreateReceiptIInv ==
    ASSUME IInv, CreateReceipt
    PROVE  IInv'
<1> DEFINE r == [call |-> api.call, intent |-> api.intent, wrote |-> api.wrote]
           T == [call : Nat, intent : Intents, wrote : Nat]
           new == Len(receipts) + 1
<1>1. /\ api.pc = "receipt" /\ receipts' = Append(receipts, r)
      /\ api' = [api EXCEPT !.pc = "log"]
      /\ UNCHANGED <<now, events, accepted, tokens, effects, audit, calls, faults, history>>
  BY DEF CreateReceipt
<1>2. /\ api.intent \in Intents /\ api.call \in 1 .. calls /\ api.gate <= now
      /\ Asked(api.intent, api.call, api.gate) /\ Names(api.wrote, api.call, api.intent)
      /\ \A n \in 1 .. Len(receipts) : receipts[n].call # api.call
  BY <1>1 DEF IInv, Present
<1>3. r \in T /\ receipts \in Seq(T) /\ Len(receipts) \in Nat
  BY <1>2, Numbers DEF IInv, TypeOK
<1>4. r.call = api.call /\ r.intent = api.intent /\ r.wrote = api.wrote
  OBVIOUS
<1>5. /\ api'.pc = "log" /\ api'.call = api.call /\ api'.intent = api.intent
      /\ api'.gate = api.gate /\ api'.wrote = api.wrote
  BY <1>1 DEF IInv, TypeOK
<1> HIDE DEF r, T
<1>6. /\ receipts' \in Seq(T) /\ Len(receipts') = new /\ receipts'[new] = r
      /\ \A n \in 1 .. Len(receipts) : receipts'[n] = receipts[n]
      /\ 1 .. new = (1 .. Len(receipts)) \cup {new}
  BY <1>1, <1>3
<1>7. TypeOK'
  <2>1. Limiter!TypeOK'
    BY <1>1 DEF IInv, TypeOK, Limiter!TypeOK
  <2>2. api' \in [pc : {"idle", "deny", "write", "receipt", "log"}, call : Nat,
                  intent : Intents \cup {None}, gate : Times, attempt : 0 .. MaxAttempts,
                  wrote : Nat]
    BY <1>1 DEF IInv, TypeOK
  <2>3. HistoryOK'
    BY <1>1, HistoryTypes DEF IInv, history
  <2> QED BY <1>1, <1>6, <2>1, <2>2, <2>3 DEF IInv, TypeOK, T
<1>8. ReceiptsAreTrue'
  <2> SUFFICES ASSUME NEW n \in 1 .. Len(receipts')
               PROVE  /\ Names(receipts'[n].wrote, receipts'[n].call, receipts'[n].intent)
                      /\ \A m \in 1 .. n - 1 : receipts'[m].call # receipts'[n].call
    BY <1>1 DEF ReceiptsAreTrue, Names
  <2>1. CASE n \in 1 .. Len(receipts)
    <3>1. /\ Names(receipts[n].wrote, receipts[n].call, receipts[n].intent)
          /\ \A m \in 1 .. n - 1 : receipts[m].call # receipts[n].call
      BY <2>1 DEF IInv, Past, ReceiptsAreTrue, Names
    <3>2. \A m \in 1 .. n - 1 : m \in 1 .. Len(receipts)
      BY <1>3, <2>1
    <3> QED BY <1>6, <2>1, <3>1, <3>2
  <2>2. CASE n = new
    <3>1. \A m \in 1 .. n - 1 : m \in 1 .. Len(receipts)
      BY <1>3, <2>2
    <3> QED BY <1>2, <1>4, <1>6, <2>2, <3>1
  <2> QED BY <1>6, <2>1, <2>2
<1>9. ReceiptsOfCalls'
  BY <1>1, <1>2, <1>4, <1>6 DEF IInv, Past, ReceiptsOfCalls
<1>10. AtMostThree'
  <2>1. \A c : Of(c)' = Of(c)
    BY <1>1 DEF Of
  <2> QED BY <2>1 DEF IInv, Past, AtMostThree
<1>11. Past'
  BY <1>1, <1>8, <1>9, <1>10 DEF IInv, Past, TokensLogged, WritesWereAsked, EffectsOfCalls,
                                 OnlyRepeatablesTwice
<1>12. (Names(api.wrote, api.call, api.intent) /\ Asked(api.intent, api.call, api.gate))'
  BY <1>1, <1>2, <1>5 DEF Names, Asked
<1>13. Present'
  BY <1>1, <1>2, <1>5, <1>12 DEF Present
<1> QED BY <1>7, <1>11, <1>13 DEF IInv

-----------------------------------------------------------------------------
(* The theorems                                                            *)

\* Every step keeps the invariant.
LEMMA NextIInv == IInv /\ [Next]_vars => IInv'
<1> SUFFICES ASSUME IInv, [Next]_vars PROVE IInv'
  OBVIOUS
<1>1. ASSUME NEW i \in Intents, NEW t \in tokens \cup {None}, Call(i, t)
      PROVE  IInv'
  BY <1>1, CallRefusedIInv, CallUnconfirmedIInv, CallConfirmedIInv DEF Call
<1>2. CASE Handle
  BY <1>2, LoggedIInv, WriteDoneIInv, FailureIInv, WriteLostIInv, CreateReceiptIInv DEF Handle
<1>3. CASE CrashRestart \/ Pass \/ UNCHANGED vars
  BY <1>3, FailureIInv
<1> QED BY <1>1, <1>2, <1>3 DEF Next

\* The inductive invariant.
THEOREM WriteToolsInvariant == Spec => []IInv
  BY InitIInv, NextIInv, PTL DEF Spec

\* The runtime's variables keep their types (TypeOK): in particular no call
\* makes a fourth attempt.
THEOREM WriteToolsTypeOK == Spec => []TypeOK
<1>1. IInv => TypeOK
  BY DEF IInv
<1> QED BY <1>1, WriteToolsInvariant, PTL

\* For everything written the audit log shows that an earlier call asked for
\* exactly this, was denied, and was confirmed within the token's life: the
\* token, its HMAC and the audit row say the same of the denial (confirmation.py,
\* risk.py, _log).
THEOREM WriteToolsWritesWereAsked == Spec => []WritesWereAsked
<1>1. IInv => WritesWereAsked
  BY DEF IInv, Past
<1> QED BY <1>1, WriteToolsInvariant, PTL

\* One call writes at most three times, and only issues are written twice,
\* whatever is lost and retried (client.py's _request).
THEOREM WriteToolsWritesPerCall == Spec => []WritesPerCall
<1>1. IInv => WritesPerCall
  <2> SUFFICES ASSUME IInv, NEW c \in 1 .. calls
               PROVE  /\ Cardinality(Of(c)) <= MaxAttempts
                      /\ Cardinality(Of(c)) > 1 =>
                            \A n \in Of(c) : Repeatable(effects[n].intent)
    BY DEF WritesPerCall, Of
  <2>1. c \in Nat
    BY Numbers DEF IInv
  <2>2. Cardinality(Of(c)) <= MaxAttempts
    BY <2>1 DEF IInv, Past, AtMostThree
  <2>3. ASSUME Cardinality(Of(c)) > 1, NEW n \in Of(c)
        PROVE  Repeatable(effects[n].intent)
    <3>1. PICK m \in Of(c) : m # n
      <4>1. CASE Of(c) = {n}
        BY <2>3, <4>1, FS_Singleton
      <4> QED BY <4>1
    <3> QED BY <3>1 DEF IInv, Past, OnlyRepeatablesTwice, Of
  <2> QED BY <2>2, <2>3
<1> QED BY <1>1, WriteToolsInvariant, PTL

\* A receipt names a write of its own call and arguments, or none if the call
\* was a dry run, and a call has one receipt (receipts.py, after the write).
THEOREM WriteToolsReceiptsAreTrue == Spec => []ReceiptsAreTrue
<1>1. IInv => ReceiptsAreTrue
  BY DEF IInv, Past
<1> QED BY <1>1, WriteToolsInvariant, PTL

-----------------------------------------------------------------------------
(* The slots of the limiter                                                *)

\* The limiter's variables follow the RateLimiter: what is proved of it by
\* itself can be used of the one inside the pipeline.
LEMMA FollowsLimiter == Spec => Limiter!Spec
<1>1. Init => Limiter!Init
  BY DEF Init
<1>2. [Next]_vars => [Limiter!Next]_(Limiter!vars)
  <2> SUFFICES ASSUME [Next]_vars PROVE [Limiter!Next]_(Limiter!vars)
    OBVIOUS
  <2>1. Bucket \in {Bucket}
    OBVIOUS
  <2>2. CASE CallRateLimited
    BY <2>1, <2>2 DEF CallRateLimited, Limiter!Next
  <2>3. ASSUME NEW i \in Intents, NEW t \in tokens \cup {None},
               CallNotAllowed(i) \/ CallUnconfirmed(i, t) \/ CallConfirmed(i, t)
        PROVE  Limiter!Next
    BY <2>1, <2>3 DEF CallNotAllowed, CallUnconfirmed, CallConfirmed, Limiter!Next
  <2>4. CASE Handle \/ UNCHANGED vars
    <3>1. UNCHANGED <<now, events, accepted>>
      BY <2>4 DEF Handle, Deny, WriteDone, WriteRejected, WriteLost, CreateReceipt, LogDone,
                  StorageRaises, vars
    <3> QED BY <3>1 DEF Limiter!vars
  <2>5. CASE CrashRestart
    BY <2>5 DEF CrashRestart, Limiter!Next
  <2>6. CASE Pass
    BY <2>6 DEF Pass, Limiter!Next
  <2> QED BY <2>2, <2>3, <2>4, <2>5, <2>6 DEF Next, Call
<1> QED BY <1>1, <1>2, PTL DEF Spec, Limiter!Spec

\* The theorems about the limiter by itself, for the one inside the pipeline.
LimiterProofs == INSTANCE RateLimiterProofs WITH Buckets <- {Bucket}, Clock <- Times,
                                back <- 0, MaxBack <- 0

Limits ==
    /\ Limiter!WindowLimit /\ Limiter!DequeIsWindow
    /\ Len(events[Bucket]) <= Len(accepted[Bucket])

\* No window holds more accepted calls than the limit, and the deque is the
\* window, also with the pipeline around it.
LEMMA KeepsLimits == Spec => []Limits
<1>1. LimiterProofs!LimiterAssumption
  BY WriteToolsAssumption DEF LimiterProofs!LimiterAssumption, Times
<1>2. LimiterProofs!Spec => []LimiterProofs!WindowLimit
  BY <1>1, LimiterProofs!LimiterKeepsWindow
<1>3. LimiterProofs!Spec => []LimiterProofs!DequeIsWindow
  BY <1>1, LimiterProofs!LimiterDequeIsWindow
<1>8. LimiterProofs!Spec => []LimiterProofs!IInv
  BY <1>1, LimiterProofs!LimiterInvariant
<1>4. Limiter!Init => LimiterProofs!Init
  BY DEF Limiter!Init, LimiterProofs!Init
<1>5. [Limiter!Next]_(Limiter!vars) => [LimiterProofs!Next]_(LimiterProofs!vars)
  <2> USE DEF Limiter!Reading, LimiterProofs!Reading, Limiter!Stale, LimiterProofs!Stale
  <2>1. \A q : Limiter!Pruned(q) = LimiterProofs!Pruned(q)
    BY DEF Limiter!Pruned, LimiterProofs!Pruned
  <2>2. \A b : Limiter!Accept(b) => LimiterProofs!Accept(b)
    BY <2>1 DEF Limiter!Accept, LimiterProofs!Accept
  <2>3. \A b : Limiter!Refuse(b) => LimiterProofs!Refuse(b)
    BY <2>1 DEF Limiter!Refuse, LimiterProofs!Refuse
  <2>4. /\ Limiter!Tick => LimiterProofs!Tick
        /\ Limiter!StepBack => LimiterProofs!StepBack
        /\ Limiter!Restart => LimiterProofs!Restart
    BY DEF Limiter!Tick, LimiterProofs!Tick, Limiter!StepBack, LimiterProofs!StepBack,
           Limiter!Restart, LimiterProofs!Restart
  <2>5. QED
    BY <2>2, <2>3, <2>4 DEF Limiter!Next, LimiterProofs!Next, Limiter!vars, LimiterProofs!vars
<1>6. Limiter!Spec => LimiterProofs!Spec
  BY <1>4, <1>5, PTL DEF Limiter!Spec, LimiterProofs!Spec
<1>7. LimiterProofs!WindowLimit /\ LimiterProofs!DequeIsWindow /\ LimiterProofs!IInv
         => Limits
  <2>1. \A q : Limiter!Pruned(q) = LimiterProofs!Pruned(q)
    BY DEF Limiter!Pruned, LimiterProofs!Pruned, Limiter!Stale, LimiterProofs!Stale,
           Limiter!Reading, LimiterProofs!Reading
  <2>2. LimiterProofs!IInv => Len(events[Bucket]) <= Len(accepted[Bucket])
    <3> SUFFICES ASSUME LimiterProofs!IInv PROVE Len(events[Bucket]) <= Len(accepted[Bucket])
      OBVIOUS
    <3>1. PICK d \in Nat : d + Len(events[Bucket]) = Len(accepted[Bucket])
      BY DEF LimiterProofs!IInv, LimiterProofs!DequeIsTail, LimiterProofs!Remembers
    <3>2. events[Bucket] \in Seq(Int) /\ accepted[Bucket] \in Seq(Times)
      BY DEF LimiterProofs!IInv, LimiterProofs!TypeOK
    <3> QED BY <3>1, <3>2
  <2>3. QED
    BY <2>1, <2>2 DEF Limits, Limiter!WindowLimit, LimiterProofs!WindowLimit, Limiter!DequeIsWindow,
                LimiterProofs!DequeIsWindow
<1> QED
  BY <1>2, <1>3, <1>6, <1>7, <1>8, FollowsLimiter, PTL

\* A refusal at time t, after n calls were passed, had a full window behind it.
FullWindow(t, n) ==
    Limit <= n /\ \A k \in n - Limit + 1 .. n : t <= passed[k] + Window

\* What is passed is what took a slot, and what is refused had none left.
Slots ==
    /\ passed = accepted[Bucket]
    /\ \A r \in refusals : r.after <= Len(passed) /\ FullWindow(r.at, r.after)

\* A call that is refused found the limiter's window full of passed calls.
LEMMA RefusedFull ==
    ASSUME TypeOK, Limits, Slots, Limiter!Refuse(Bucket)
    PROVE  FullWindow(now, Len(passed))
<1>1. PICK q \in Limiter!Pruned(events[Bucket]) : Len(q) >= Limit
  BY DEF Limiter!Refuse
<1>2. events[Bucket] \in Seq(Int) /\ passed \in Seq(Times) /\ Len(passed) \in Nat
  BY DEF TypeOK, HistoryOK, Limiter!TypeOK
<1>3. q \in Seq(Int) /\ Len(q) \in Nat
  BY <1>2, PrunedSeq
<1>4. now \in Nat /\ Limit \in Nat /\ Window \in Nat /\ Times \subseteq Nat
  BY Numbers, WriteToolsAssumption DEF WriteToolsAssumption
<1>5. /\ Len(passed) > 0 => Len(q) <= Len(passed)
      /\ \A k \in 1 .. Len(passed) :
            k + Len(q) > Len(passed) => now <= passed[k] + Window + 0
  BY <1>2 DEF Limits, Limiter!DequeIsWindow, Slots
<1>6. Len(passed) = 0 => Len(q) = 0
  <2>1. PICK n \in 0 .. Len(events[Bucket]) :
            q = SubSeq(events[Bucket], n + 1, Len(events[Bucket]))
    BY <1>1 DEF Limiter!Pruned
  <2>2. Len(passed) = 0 => Len(events[Bucket]) = 0
    BY <1>2 DEF Limits, Slots
  <2> QED BY <1>2, <2>1, <2>2
<1>7. Limit <= Len(passed)
  BY <1>1, <1>2, <1>3, <1>4, <1>5, <1>6
<1>8. ASSUME NEW k \in Len(passed) - Limit + 1 .. Len(passed)
      PROVE  now <= passed[k] + Window
  <2>1. k \in 1 .. Len(passed) /\ k + Len(q) > Len(passed)
    BY <1>1, <1>2, <1>3, <1>4, <1>7
  <2>2. passed[k] \in Times
    BY <1>2, <2>1
  <2>3. passed[k] \in Nat
    BY <1>4, <2>2
  <2> QED BY <1>4, <1>5, <2>1, <2>3
<1> QED BY <1>7, <1>8 DEF FullWindow

\* The three ways the history goes on keep the slots: a call is passed and takes
\* one, nothing happens, a call is refused.
LEMMA SlotsKept ==
    ASSUME TypeOK, Limits, Slots,
           \/ /\ Passes /\ accepted' = [accepted EXCEPT ![Bucket] = Append(accepted[Bucket], now)]
           \/ UNCHANGED passed /\ UNCHANGED accepted
              /\ (\/ UNCHANGED refusals
                  \/ /\ Limiter!Refuse(Bucket)
                     /\ refusals' = refusals \cup {[at |-> now, after |-> Len(passed)]})
    PROVE  Slots'
<1>1. passed \in Seq(Times) /\ now \in Times /\ Len(passed) \in Nat /\ Limit \in Nat
      /\ accepted \in [{Bucket} -> Seq(Times)]
  BY WriteToolsAssumption DEF TypeOK, HistoryOK, Limiter!TypeOK, WriteToolsAssumption
<1>2. \A r \in refusals : r.after \in Nat
  BY DEF TypeOK, HistoryOK
<1>3. CASE /\ passed' = Append(passed, now) /\ UNCHANGED refusals
           /\ accepted' = [accepted EXCEPT ![Bucket] = Append(accepted[Bucket], now)]
  <2>1. passed' = accepted'[Bucket]
    BY <1>1, <1>3 DEF Slots
  <2>2. /\ Len(passed') = Len(passed) + 1
        /\ \A k \in 1 .. Len(passed) : passed'[k] = passed[k]
    BY <1>1, <1>3
  <2>3. ASSUME NEW r \in refusals
        PROVE  /\ r.after <= Len(passed') /\ Limit <= r.after
               /\ \A k \in r.after - Limit + 1 .. r.after : r.at <= passed'[k] + Window
    <3>1. r.after <= Len(passed) /\ FullWindow(r.at, r.after)
      BY DEF Slots
    <3>2. \A k \in r.after - Limit + 1 .. r.after : passed'[k] = passed[k]
      BY <1>1, <1>2, <2>2, <3>1 DEF FullWindow
    <3>3. r.after <= Len(passed')
      BY <1>1, <1>2, <2>2, <3>1
    <3> QED BY <3>1, <3>2, <3>3 DEF FullWindow
  <2> QED BY <1>3, <2>1, <2>3 DEF Slots, FullWindow
<1>4. CASE UNCHANGED <<passed, accepted, refusals>>
  BY <1>4 DEF Slots, FullWindow
<1>5. CASE /\ UNCHANGED <<passed, accepted>> /\ Limiter!Refuse(Bucket)
           /\ refusals' = refusals \cup {[at |-> now, after |-> Len(passed)]}
  <2>1. FullWindow(now, Len(passed))
    BY <1>5, RefusedFull
  <2>2. \A r \in refusals' : r.after <= Len(passed) /\ FullWindow(r.at, r.after)
    BY <1>1, <1>5, <2>1 DEF Slots
  <2> QED BY <1>5, <2>2 DEF Slots, FullWindow
<1> QED BY <1>3, <1>4, <1>5 DEF Passes

\* Every step keeps the slots: each of the handlers that passes a call goes
\* through the limiter first, and only the limiter refuses.
LEMMA NextSlots == TypeOK /\ Limits /\ Slots /\ [Next]_vars => Slots'
<1> SUFFICES ASSUME TypeOK, Limits, Slots, [Next]_vars PROVE Slots'
  OBVIOUS
<1>1. CASE CallRateLimited
  BY <1>1, SlotsKept DEF CallRateLimited, Limiter!Refuse
<1>2. ASSUME NEW i, NEW t, CallNotAllowed(i) \/ CallUnconfirmed(i, t) \/ CallConfirmed(i, t)
      PROVE  Slots'
  BY <1>2, SlotsKept DEF CallNotAllowed, CallUnconfirmed, CallConfirmed, Limiter!Accept
<1>3. CASE Handle \/ Pass \/ UNCHANGED vars
  <2>1. UNCHANGED <<passed, refusals, accepted>>
    BY <1>3 DEF Handle, Deny, WriteDone, WriteRejected, WriteLost, CreateReceipt, LogDone,
                StorageRaises, Pass, Limiter!Tick, vars, history
  <2> QED BY <2>1, SlotsKept
<1>4. CASE CrashRestart
  BY <1>4 DEF CrashRestart, Limiter!Restart, Slots
<1> QED BY <1>1, <1>2, <1>3, <1>4 DEF Next, Call

\* runtime.py asks the limiter first, whatever becomes of the call: the calls
\* passed by a process - denied, against the policy, dry runs, lost, written -
\* are never more than Limit within a closed Window, and a call is refused only
\* when the last Limit calls passed are no older than that.
THEOREM WriteToolsSlotsAreKept == Spec => []SlotsAreKept
<1>1. Init => Slots
  BY DEF Init, Limiter!Init, Slots
<1>2. Limits /\ Slots => SlotsAreKept
  BY DEF Limits, Limiter!WindowLimit, Slots, FullWindow, SlotsAreKept
<1> QED BY <1>1, <1>2, NextSlots, KeepsLimits, WriteToolsTypeOK, PTL DEF Spec
=============================================================================
