------------------------- MODULE RateLimiterProofs -------------------------
(***************************************************************************)
(* The limiter keeps its promise for every limit, window, set of buckets   *)
(* and set of clock readings, and however often the clock is set back.     *)
(* The deque is not an obvious witness: what WindowLimit speaks of, the    *)
(* accepted calls, is longer than what the code remembers, and the times   *)
(* in the deque are not those of the calls.  The invariant that carries    *)
(* the proof says that the deque is the end of the accepted calls, each    *)
(* reading late by no more than the clock was set back by now, and that    *)
(* all that was dropped is out of the window.                              *)
(***************************************************************************)
EXTENDS RateLimiter, TLAPS

\* Deque q is what is left of the accepted calls a when the first d are dropped.
Remembers(q, a, d) ==
    /\ d + Len(q) = Len(a)
    /\ \A i \in 1 .. Len(q) : a[d + i] - back <= q[i] /\ q[i] <= a[d + i]

\* The first d calls are out of the window.
Gone(a, d) == \A i \in 1 .. d : a[i] + Window < now

\* Every call the deque no longer remembers lies before the window.
DequeIsTail ==
    \A b \in Buckets : \E d \in Nat :
        Remembers(events[b], accepted[b], d) /\ Gone(accepted[b], d)

\* Calls are accepted one after the other.
InOrder(a) ==
    \A i \in 1 .. Len(a) : a[i] <= now /\ \A j \in 1 .. i : a[j] <= a[i]

IInv ==
    /\ TypeOK
    /\ DequeIsTail
    /\ \A b \in Buckets : InOrder(accepted[b])
    /\ WindowLimit

\* What the constants and the type invariant say of the numbers.
LEMMA Numbers ==
    ASSUME TypeOK
    PROVE  /\ now \in Int /\ back \in Int /\ 0 <= back
           /\ Window \in Int /\ 0 <= Window /\ Limit \in Int /\ 0 <= Limit
           /\ Clock \subseteq Int /\ Reading \in Int /\ Reading = now - back
  BY LimiterAssumption DEF LimiterAssumption, TypeOK, Reading

\* What allow's loop does to a deque: a tail of it stays, what it removes is
\* stale and what is then in front is not.
LEMMA PrunedTail ==
    ASSUME NEW e \in Seq(Int), NEW q \in Pruned(e)
    PROVE  /\ q \in Seq(Int)
           /\ \E n \in Nat : /\ n + Len(q) = Len(e)
                             /\ \A i \in 1 .. Len(q) : q[i] = e[n + i]
                             /\ \A i \in 1 .. n : Stale(e[i])
                             /\ 0 < Len(q) => ~Stale(q[1])
<1>1. PICK n \in 0 .. Len(e) : /\ \A i \in 1 .. n : Stale(e[i])
                               /\ n < Len(e) => ~Stale(e[n + 1])
                               /\ q = SubSeq(e, n + 1, Len(e))
  BY DEF Pruned
<1>2. /\ q \in Seq(Int)
      /\ Len(q) = Len(e) - n
      /\ \A i \in 1 .. Len(q) : q[i] = e[n + i]
  BY <1>1
<1>3. n \in Nat /\ n + Len(q) = Len(e)
  BY <1>1, <1>2
<1>4. 0 < Len(q) => ~Stale(q[1])
  <2> SUFFICES ASSUME 0 < Len(q) PROVE ~Stale(q[1])
    OBVIOUS
  <2>1. 1 \in 1 .. Len(q) /\ n < Len(e)
    BY <1>2, <1>3
  <2> QED BY <1>1, <1>2, <2>1
<1> QED BY <1>1, <1>2, <1>3, <1>4

\* What the loop leaves of a deque that is a tail of the accepted calls is one
\* too, and what is missing is out of the window: a stale reading is of a
\* call that is.
LEMMA PrunedRemembers ==
    ASSUME IInv, NEW b \in Buckets, NEW q \in Pruned(events[b])
    PROVE  /\ q \in Seq(Int)
           /\ 0 < Len(q) => ~Stale(q[1])
           /\ \E d \in Nat : Remembers(q, accepted[b], d) /\ Gone(accepted[b], d)
<1> DEFINE a == accepted[b]
           e == events[b]
<1>1. e \in Seq(Int) /\ a \in Seq(Clock)
  BY DEF IInv, TypeOK
<1>2. PICK d \in Nat : Remembers(e, a, d) /\ Gone(a, d)
  BY DEF IInv, DequeIsTail
<1>3. /\ q \in Seq(Int)
      /\ 0 < Len(q) => ~Stale(q[1])
      /\ \E n \in Nat : /\ n + Len(q) = Len(e)
                        /\ \A i \in 1 .. Len(q) : q[i] = e[n + i]
                        /\ \A i \in 1 .. n : Stale(e[i])
  BY <1>1, PrunedTail
<1>4. PICK n \in Nat : /\ n + Len(q) = Len(e)
                       /\ \A i \in 1 .. Len(q) : q[i] = e[n + i]
                       /\ \A i \in 1 .. n : Stale(e[i])
  BY <1>3
<1> HIDE DEF a, e
<1>5. /\ Len(q) \in Nat /\ Len(e) \in Nat /\ Len(a) \in Nat
      /\ d + Len(e) = Len(a) /\ (d + n) + Len(q) = Len(a)
  <2>1. Len(q) \in Nat /\ Len(e) \in Nat /\ Len(a) \in Nat
    BY <1>1, <1>3
  <2>2. d + Len(e) = Len(a)
    BY <1>2 DEF Remembers
  <2> QED BY <1>4, <2>1, <2>2
<1>6. ASSUME NEW i \in 1 .. Len(q)
      PROVE  a[(d + n) + i] - back <= q[i] /\ q[i] <= a[(d + n) + i]
  <2>1. n + i \in 1 .. Len(e) /\ d + (n + i) = (d + n) + i
    BY <1>4, <1>5
  <2>2. a[d + (n + i)] - back <= e[n + i] /\ e[n + i] <= a[d + (n + i)]
    BY <1>2, <2>1 DEF Remembers
  <2> QED BY <1>4, <2>1, <2>2
<1>7. ASSUME NEW i \in 1 .. d + n
      PROVE  a[i] + Window < now
  <2>1. CASE i \in 1 .. d
    BY <1>2, <2>1 DEF Gone
  <2>2. CASE i > d
    <3>1. i - d \in 1 .. n /\ i - d \in 1 .. Len(e) /\ d + (i - d) = i /\ i \in 1 .. Len(a)
      BY <1>4, <1>5, <2>2
    <3>2. a[i] - back <= e[i - d]
      BY <1>2, <3>1 DEF Remembers
    <3>3. e[i - d] + Window < Reading
      BY <1>4, <3>1 DEF Stale
    <3>4. a[i] \in Clock /\ e[i - d] \in Int
      BY <1>1, <3>1
    <3>5. /\ now \in Int /\ back \in Int /\ Window \in Int /\ a[i] \in Int
          /\ Reading = now - back
      BY <3>4, Numbers DEF IInv
    <3> QED BY <3>2, <3>3, <3>4, <3>5
  <2>3. i \in Int /\ 1 <= i
    OBVIOUS
  <2> QED BY <2>1, <2>2, <2>3
<1>8. d + n \in Nat
  OBVIOUS
<1>9. Remembers(q, a, d + n) /\ Gone(a, d + n)
  BY <1>5, <1>6, <1>7 DEF Remembers, Gone
<1> QED BY <1>3, <1>8, <1>9 DEF a

\* A limiter that was just started.
LEMMA EmptyIInv ==
    ASSUME TypeOK, \A b \in Buckets : events[b] = <<>> /\ accepted[b] = <<>>
    PROVE  IInv
<1>1. Remembers(<<>>, <<>>, 0) /\ Gone(<<>>, 0)
  BY DEF Remembers, Gone
<1>2. DequeIsTail
  BY <1>1 DEF DequeIsTail
<1> QED BY <1>2 DEF IInv, InOrder, WindowLimit

LEMMA InitIInv == Init => IInv
<1> SUFFICES ASSUME Init PROVE IInv
  OBVIOUS
<1>1. TypeOK
  BY LimiterAssumption DEF LimiterAssumption, Init, TypeOK
<1> QED BY <1>1, EmptyIInv DEF Init

\* A call that is let through.
LEMMA AcceptIInv ==
    ASSUME IInv, NEW b \in Buckets, Accept(b)
    PROVE  IInv'
<1>1. PICK q \in Pruned(events[b]) :
        /\ Len(q) < Limit
        /\ events' = [events EXCEPT ![b] = Append(q, Reading)]
        /\ accepted' = [accepted EXCEPT ![b] = Append(accepted[b], now)]
        /\ now' = now /\ back' = back
  BY DEF Accept
<1> DEFINE a == accepted[b]
<1>2. PICK d \in Nat : Remembers(q, a, d) /\ Gone(a, d)
  BY PrunedRemembers
<1>3. /\ now \in Clock
      /\ events \in [Buckets -> Seq(Int)]
      /\ accepted \in [Buckets -> Seq(Clock)]
      /\ q \in Seq(Int) /\ a \in Seq(Clock)
  BY PrunedRemembers DEF IInv, TypeOK
<1>n. /\ now \in Int /\ back \in Int /\ 0 <= back /\ Limit \in Int /\ 0 <= Limit
      /\ Reading \in Int /\ Reading = now - back
  BY Numbers DEF IInv
<1>4. Len(q) \in Nat /\ Len(a) \in Nat /\ d + Len(q) = Len(a)
  BY <1>2, <1>3 DEF Remembers
<1>5. TypeOK'
  BY <1>1, <1>3, <1>n DEF IInv, TypeOK
<1>6. /\ events'[b] = Append(q, Reading)
      /\ accepted'[b] = Append(a, now)
      /\ \A c \in Buckets \ {b} : events'[c] = events[c] /\ accepted'[c] = accepted[c]
  BY <1>1, <1>3
<1> HIDE DEF a
<1>7. /\ Len(accepted'[b]) = Len(a) + 1
      /\ \A i \in 1 .. Len(a) : accepted'[b][i] = a[i]
      /\ accepted'[b][Len(a) + 1] = now
  BY <1>3, <1>6
<1>8. Remembers(events'[b], accepted'[b], d)
  <2>1. /\ Len(events'[b]) = Len(q) + 1
        /\ \A i \in 1 .. Len(q) : events'[b][i] = q[i]
        /\ events'[b][Len(q) + 1] = Reading
    BY <1>3, <1>6, <1>n
  <2>2. ASSUME NEW i \in 1 .. Len(q) + 1
        PROVE  accepted'[b][d + i] - back <= events'[b][i] /\ events'[b][i] <= accepted'[b][d + i]
    <3>1. CASE i = Len(q) + 1
      <4>1. d + i = Len(a) + 1
        BY <1>4, <3>1
      <4>2. now - back <= Reading /\ Reading <= now
        BY <1>n
      <4> QED BY <1>7, <2>1, <3>1, <4>1, <4>2
    <3>2. CASE i \in 1 .. Len(q)
      <4>1. d + i \in 1 .. Len(a)
        BY <1>4, <3>2
      <4>2. a[d + i] - back <= q[i] /\ q[i] <= a[d + i]
        BY <1>2, <3>2 DEF Remembers
      <4> QED BY <1>7, <2>1, <3>2, <4>1, <4>2
    <3> QED BY <1>4, <3>1, <3>2
  <2>3. d + (Len(q) + 1) = Len(a) + 1
    BY <1>4
  <2> QED BY <1>7, <2>1, <2>2, <2>3 DEF Remembers
<1>9. DequeIsTail'
  <2>1. SUFFICES ASSUME NEW c \in Buckets
                 PROVE  \E n \in Nat : Remembers(events'[c], accepted'[c], n)
                                       /\ Gone(accepted'[c], n)
    BY <1>1 DEF DequeIsTail, Remembers, Gone
  <2>2. CASE c # b
    BY <1>6, <2>2 DEF IInv, DequeIsTail
  <2>3. CASE c = b
    <3>1. ASSUME NEW i \in 1 .. d PROVE accepted'[b][i] + Window < now
      <4>1. i \in 1 .. Len(a)
        BY <1>4
      <4> QED BY <1>2, <1>7, <4>1 DEF Gone
    <3>2. Gone(accepted'[b], d)
      BY <3>1 DEF Gone
    <3> QED BY <1>8, <2>3, <3>2
  <2> QED BY <2>2, <2>3
<1>10. ASSUME NEW c \in Buckets PROVE InOrder(accepted[c])'
  <2>0. InOrder(a)
    BY DEF IInv, a
  <2>1. CASE c # b
    <3>1. accepted'[c] = accepted[c]
      BY <1>6, <2>1
    <3> QED BY <1>1, <3>1 DEF IInv, InOrder
  <2>2. CASE c = b
    <3>1. ASSUME NEW i \in 1 .. Len(a) + 1
          PROVE  accepted'[b][i] <= now /\ \A j \in 1 .. i : accepted'[b][j] <= accepted'[b][i]
      <4>1. CASE i \in 1 .. Len(a)
        <5>1. \A j \in 1 .. i : j \in 1 .. Len(a)
          BY <4>1, <1>4
        <5> QED BY <1>7, <2>0, <4>1, <5>1 DEF InOrder
      <4>2. CASE i = Len(a) + 1
        <5>1. \A j \in 1 .. Len(a) : accepted'[b][j] <= now
          BY <1>7, <2>0 DEF InOrder
        <5>2. \A j \in 1 .. i : j \in 1 .. Len(a) \/ j = i
          BY <4>2, <1>4
        <5>3. now <= now
          BY <1>n
        <5> QED BY <1>7, <4>2, <5>1, <5>2, <5>3
      <4> QED BY <1>4, <4>1, <4>2
    <3> QED BY <1>1, <1>7, <2>2, <3>1 DEF InOrder
  <2> QED BY <2>1, <2>2
<1>11. WindowLimit'
  <2>1. SUFFICES ASSUME NEW c \in Buckets, NEW i \in 1 .. Len(accepted'[c]),
                        i + Limit <= Len(accepted'[c])
                 PROVE  accepted'[c][i] + Window < accepted'[c][i + Limit]
    BY DEF WindowLimit
  <2>2. CASE c # b
    BY <1>6, <2>1, <2>2 DEF IInv, WindowLimit
  <2>3. CASE c = b /\ i + Limit <= Len(a)
    <3>1. i \in 1 .. Len(a) /\ i + Limit \in 1 .. Len(a)
      BY <1>4, <1>n, <2>3
    <3>2. a[i] + Window < a[i + Limit]
      BY <2>3, <3>1 DEF IInv, WindowLimit, a
    <3> QED BY <1>7, <2>3, <3>1, <3>2
  \* The call just accepted: the one Limit places before it was dropped.
  <2>4. CASE c = b /\ i + Limit = Len(a) + 1
    <3>1. i \in 1 .. d /\ i \in 1 .. Len(a)
      BY <1>1, <1>4, <1>n, <2>4
    <3>2. a[i] + Window < now
      BY <1>2, <3>1 DEF Gone
    <3> QED BY <1>7, <2>4, <3>1, <3>2
  <2>5. i + Limit \in Int /\ (c = b => i + Limit <= Len(a) + 1)
    BY <1>7, <1>n, <2>1
  <2>6. c = b => i + Limit <= Len(a) \/ i + Limit = Len(a) + 1
    BY <1>4, <2>5
  <2> QED BY <2>2, <2>3, <2>4, <2>6
<1> QED BY <1>5, <1>9, <1>10, <1>11 DEF IInv

\* A call that is refused.
LEMMA RefuseIInv ==
    ASSUME IInv, NEW b \in Buckets, Refuse(b)
    PROVE  IInv'
<1>1. PICK q \in Pruned(events[b]) :
        /\ events' = [events EXCEPT ![b] = q]
        /\ now' = now /\ back' = back
        /\ accepted' = accepted
  BY DEF Refuse
<1>2. /\ q \in Seq(Int)
      /\ \E d \in Nat : Remembers(q, accepted[b], d) /\ Gone(accepted[b], d)
  BY PrunedRemembers
<1>3. TypeOK'
  BY <1>1, <1>2 DEF IInv, TypeOK
<1>4. events'[b] = q /\ \A c \in Buckets \ {b} : events'[c] = events[c]
  BY <1>1 DEF IInv, TypeOK
<1>5. DequeIsTail'
  <2>1. SUFFICES ASSUME NEW c \in Buckets
                 PROVE  \E n \in Nat : Remembers(events'[c], accepted[c], n)
                                       /\ Gone(accepted[c], n)
    BY <1>1 DEF DequeIsTail, Remembers, Gone
  <2>2. CASE c # b
    BY <1>4, <2>2 DEF IInv, DequeIsTail
  <2>3. CASE c = b
    BY <1>2, <1>4, <2>3
  <2> QED BY <2>2, <2>3
<1>6. WindowLimit' /\ \A c \in Buckets : InOrder(accepted[c])'
  BY <1>1 DEF IInv, WindowLimit, InOrder
<1> QED BY <1>3, <1>5, <1>6 DEF IInv

\* What was out of the window stays out of it, and what was in order stays so.
LEMMA TickIInv == IInv /\ Tick => IInv'
<1> SUFFICES ASSUME IInv, Tick PROVE IInv'
  OBVIOUS
<1>1. /\ now' \in Clock /\ now < now' /\ back' = back
      /\ events' = events /\ accepted' = accepted
  BY DEF Tick
<1>2. TypeOK' /\ WindowLimit'
  BY <1>1 DEF IInv, TypeOK, WindowLimit
<1>3. now \in Int /\ now' \in Int /\ Window \in Int /\ Clock \subseteq Int
  BY <1>1, Numbers DEF IInv
<1>4. ASSUME NEW b \in Buckets, NEW i \in 1 .. Len(accepted[b])
      PROVE  accepted[b][i] \in Int
  <2>1. accepted[b] \in Seq(Clock)
    BY DEF IInv, TypeOK
  <2>2. accepted[b][i] \in Clock
    BY <2>1
  <2> QED BY <1>3, <2>2
<1>5. DequeIsTail'
  <2>1. SUFFICES ASSUME NEW b \in Buckets
                 PROVE  \E d \in Nat : /\ Remembers(events[b], accepted[b], d)
                                       /\ \A i \in 1 .. d : accepted[b][i] + Window < now'
    BY <1>1 DEF DequeIsTail, Remembers, Gone
  <2>2. PICK d \in Nat : Remembers(events[b], accepted[b], d) /\ Gone(accepted[b], d)
    BY DEF IInv, DequeIsTail
  <2>3. Len(events[b]) \in Nat /\ Len(accepted[b]) \in Nat
    BY DEF IInv, TypeOK
  <2>4. ASSUME NEW i \in 1 .. d PROVE accepted[b][i] + Window < now'
    <3>1. i \in 1 .. Len(accepted[b])
      BY <2>2, <2>3 DEF Remembers
    <3>2. accepted[b][i] \in Int
      BY <1>4, <3>1
    <3>3. accepted[b][i] + Window < now
      BY <2>2 DEF Gone
    <3> QED BY <1>1, <1>3, <3>2, <3>3
  <2> QED BY <2>2, <2>4
<1>6. ASSUME NEW b \in Buckets PROVE InOrder(accepted[b])'
  <2>1. ASSUME NEW i \in 1 .. Len(accepted[b]) PROVE accepted[b][i] <= now'
    <3>1. accepted[b][i] <= now
      BY DEF IInv, InOrder
    <3> QED BY <1>1, <1>3, <1>4, <3>1
  <2> QED BY <1>1, <2>1 DEF IInv, InOrder
<1> QED BY <1>2, <1>5, <1>6 DEF IInv

\* Setting the clock back only widens what a reading may stand for.
LEMMA StepBackIInv == IInv /\ StepBack => IInv'
<1> SUFFICES ASSUME IInv, StepBack PROVE IInv'
  OBVIOUS
<1>1. /\ back' \in back + 1 .. MaxBack /\ now' = now
      /\ events' = events /\ accepted' = accepted
  BY DEF StepBack
<1>2. back \in Int /\ 0 <= back /\ MaxBack \in Int
  BY Numbers, LimiterAssumption DEF IInv, LimiterAssumption
<1>3. back' \in Int /\ back < back' /\ back' \in 0 .. MaxBack
  BY <1>1, <1>2
<1>4. TypeOK' /\ WindowLimit'
  BY <1>1, <1>3 DEF IInv, TypeOK, WindowLimit
<1>5. DequeIsTail'
  <2>1. SUFFICES ASSUME NEW b \in Buckets
                 PROVE  \E d \in Nat : /\ d + Len(events[b]) = Len(accepted[b])
                                       /\ \A i \in 1 .. Len(events[b]) :
                                            /\ accepted[b][d + i] - back' <= events[b][i]
                                            /\ events[b][i] <= accepted[b][d + i]
                                       /\ Gone(accepted[b], d)
    BY <1>1 DEF DequeIsTail, Remembers, Gone
  <2>2. PICK d \in Nat : Remembers(events[b], accepted[b], d) /\ Gone(accepted[b], d)
    BY DEF IInv, DequeIsTail
  <2>3. events[b] \in Seq(Int) /\ accepted[b] \in Seq(Clock)
    BY DEF IInv, TypeOK
  <2>4. ASSUME NEW i \in 1 .. Len(events[b]) PROVE accepted[b][d + i] - back' <= events[b][i]
    <3>1. accepted[b][d + i] - back <= events[b][i]
      BY <2>2 DEF Remembers
    <3>2. Len(events[b]) \in Nat /\ Len(accepted[b]) \in Nat
      BY <2>3
    <3>3. d + i \in 1 .. Len(accepted[b])
      BY <2>2, <3>2 DEF Remembers
    <3>4. accepted[b][d + i] \in Clock /\ events[b][i] \in Int
      BY <2>3, <3>3
    <3>5. accepted[b][d + i] \in Int
      BY <3>4, Numbers DEF IInv
    <3> QED BY <1>2, <1>3, <3>1, <3>4, <3>5
  <2> QED BY <2>2, <2>4 DEF Remembers
<1>6. ASSUME NEW b \in Buckets PROVE InOrder(accepted[b])'
  BY <1>1 DEF IInv, InOrder
<1> QED BY <1>4, <1>5, <1>6 DEF IInv

LEMMA RestartIInv == IInv /\ Restart => IInv'
<1> SUFFICES ASSUME IInv, Restart PROVE IInv'
  OBVIOUS
<1>1. TypeOK'
  BY DEF Restart, IInv, TypeOK
<1>2. \A b \in Buckets : events'[b] = <<>> /\ accepted'[b] = <<>>
  BY DEF Restart
<1>3. (TypeOK /\ \A b \in Buckets : events[b] = <<>> /\ accepted[b] = <<>>)' => IInv'
  BY EmptyIInv, PTL
<1> QED BY <1>1, <1>2, <1>3

\* The deque and the accepted calls stay well-typed and related, and no
\* window ever holds more than Limit accepted calls.
THEOREM LimiterInvariant == Spec => []IInv
<1>1. IInv /\ [Next]_vars => IInv'
  <2> SUFFICES ASSUME IInv, [Next]_vars PROVE IInv'
    OBVIOUS
  <2>1. CASE \E b \in Buckets : Accept(b)
    BY <2>1, AcceptIInv
  <2>2. CASE \E b \in Buckets : Refuse(b)
    BY <2>2, RefuseIInv
  <2>3. CASE Tick
    BY <2>3, TickIInv
  <2>4. CASE StepBack
    BY <2>4, StepBackIInv
  <2>5. CASE Restart
    BY <2>5, RestartIInv
  <2>6. CASE UNCHANGED vars
    BY <2>6 DEF vars, IInv, TypeOK, DequeIsTail, Remembers, Gone, InOrder, WindowLimit
  <2> QED BY <2>1, <2>2, <2>3, <2>4, <2>5, <2>6 DEF Next
<1> QED BY <1>1, InitIInv, PTL DEF Spec

\* core/rate_limit.py, allow: at most limit_per_minute calls pass in any
\* closed window, for every limit, window, bucket set and clock, also when the
\* clock is set back.
THEOREM LimiterKeepsWindow == Spec => []WindowLimit
<1>1. IInv => WindowLimit
  BY DEF IInv
<1> QED BY <1>1, LimiterInvariant, PTL

\* core/rate_limit.py, allow: what the pruned deque counts are the accepted
\* calls of the window and none older than it by more than the clock was set
\* back.
THEOREM LimiterDequeIsWindow == Spec => []DequeIsWindow
<1>1. IInv => DequeIsWindow
  <2> SUFFICES ASSUME IInv, NEW b \in Buckets, NEW q \in Pruned(events[b]),
                      NEW i \in 1 .. Len(accepted[b])
               PROVE  /\ Len(q) <= Len(accepted[b])
                      /\ now <= accepted[b][i] + Window => i + Len(q) > Len(accepted[b])
                      /\ i + Len(q) > Len(accepted[b]) => now <= accepted[b][i] + Window + back
    BY DEF DequeIsWindow
  <2> DEFINE a == accepted[b]
  <2>1. PICK d \in Nat : Remembers(q, a, d) /\ Gone(a, d)
    BY PrunedRemembers
  <2>2. q \in Seq(Int) /\ (0 < Len(q) => ~Stale(q[1])) /\ a \in Seq(Clock)
    BY PrunedRemembers DEF IInv, TypeOK
  <2>n. /\ now \in Int /\ back \in Int /\ Window \in Int /\ Clock \subseteq Int
        /\ Reading = now - back
    BY Numbers DEF IInv
  <2>3. InOrder(a)
    BY DEF IInv
  <2> HIDE DEF a
  <2>4. Len(q) \in Nat /\ Len(a) \in Nat /\ d + Len(q) = Len(a)
    BY <2>1, <2>2 DEF Remembers
  <2>5. i \in 1 .. Len(a)
    BY DEF a
  <2>6. a[i] \in Int
    <3>1. a[i] \in Clock
      BY <2>2, <2>5
    <3> QED BY <2>n, <3>1
  <2>7. Len(q) <= Len(a)
    BY <2>4
  <2>8. ASSUME now <= a[i] + Window PROVE i + Len(q) > Len(a)
    <3>1. ~(a[i] + Window < now)
      BY <2>6, <2>8, <2>n
    <3>2. i \notin 1 .. d
      BY <2>1, <3>1 DEF Gone
    <3> QED BY <2>4, <2>5, <3>2
  <2>9. ASSUME i + Len(q) > Len(a) PROVE now <= a[i] + Window + back
    <3>1. 0 < Len(q) /\ 1 \in 1 .. Len(q) /\ d + 1 \in 1 .. i
      BY <2>4, <2>5, <2>9
    <3>2. d + 1 \in 1 .. Len(a)
      BY <2>4, <3>1
    <3>3. q[1] <= a[d + 1] /\ a[d + 1] <= a[i]
      BY <2>1, <2>3, <2>5, <3>1 DEF Remembers, InOrder
    <3>4. q[1] \in Int /\ a[d + 1] \in Clock
      BY <2>2, <3>1, <3>2
    <3>5. ~(q[1] + Window < now - back)
      BY <2>2, <2>n, <3>1 DEF Stale
    <3>6. a[d + 1] \in Int
      BY <2>n, <3>4
    <3> QED BY <2>6, <2>n, <3>3, <3>4, <3>5, <3>6
  <2> QED BY <2>7, <2>8, <2>9 DEF a
<1> QED BY <1>1, LimiterInvariant, PTL

\* Type correctness of the limiter's deques.
THEOREM LimiterTypeOK == Spec => []TypeOK
<1>1. IInv => TypeOK
  BY DEF IInv
<1> QED BY <1>1, LimiterInvariant, PTL
=============================================================================
