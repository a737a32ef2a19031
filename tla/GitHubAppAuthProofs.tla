------------------------ MODULE GitHubAppAuthProofs ------------------------
(***************************************************************************)
(* The token cache, for every life, margin and zone and any number of      *)
(* tokens and attempts.  The cached token and the cached expiry may belong *)
(* to two different tokens, so the invariant is not that the expiry is     *)
(* right but that it is never too late: it is of this token or of an older *)
(* one.                                                                    *)
(***************************************************************************)
EXTENDS GitHubAppAuth, TLAPS

\* Nothing the server believes in is later than a token issued now would be.
NeverLate ==
    /\ Start <= now
    /\ expiry + zone <= now + Life
    /\ cached # 0 => expiry + zone <= issued[cached]

\* The header about to be sent.
HeaderOK ==
    pc = "send" =>
        /\ header.token \in 1 .. Len(issued)
        /\ header.at + Margin < issued[header.token] + West

\* The expiry in hand is that of the last token whose expiry was stored.
StoredOK ==
    /\ \A i \in 1 .. Len(stored) : stored[i] \in 1 .. Len(issued)
    /\ Len(stored) > 0 =>
        cached # 0 /\ expiry = issued[stored[Len(stored)]] - zone

IInv == TypeOK /\ NeverLate /\ HeaderOK /\ StoredOK /\ RefusedOnlyLate /\ TokensLast

LEMMA InitIInv == ASSUME Init PROVE IInv
<1>1. TypeOK
  BY AuthAssumption DEF Init, TypeOK, MaxAttempts
<1>2. NeverLate
  BY AuthAssumption DEF Init, NeverLate
<1> QED BY <1>1, <1>2 DEF Init, IInv, HeaderOK, StoredOK, RefusedOnlyLate, TokensLast

\* Steps that touch neither the cache nor GitHub's tokens.
LEMMA QuietStep ==
    ASSUME IInv, TypeOK', now' \in {now, now + 1},
           UNCHANGED <<zone, cached, expiry, issued, stored, refused>>,
           HeaderOK'
    PROVE  IInv'
<1>1. NeverLate'
  <2>1. now \in Nat /\ Life \in Nat /\ Start \in Nat /\ zone \in Int /\ expiry \in Int
    BY AuthAssumption DEF IInv, TypeOK
  <2>2. Start <= now /\ expiry + zone <= now + Life
    BY DEF IInv, NeverLate
  <2>3. Start <= now' /\ expiry + zone <= now' + Life
    <3>1. CASE now' = now
      BY <2>2, <3>1
    <3>2. CASE now' = now + 1
      BY <2>1, <2>2, <3>2
    <3> QED BY <3>1, <3>2
  <2> QED BY <2>3 DEF IInv, NeverLate
<1>2. StoredOK' /\ RefusedOnlyLate' /\ TokensLast'
  BY DEF IInv, StoredOK, RefusedOnlyLate, TokensLast, West
<1> QED BY <1>1, <1>2 DEF IInv

LEMMA RetryType ==
    ASSUME TypeOK, Retry
    PROVE  pc' \in {"auth", "idle"} /\ attempt' \in 1 .. MaxAttempts
BY DEF TypeOK, Retry, MaxAttempts

LEMMA CallIInv == ASSUME IInv, Call PROVE IInv'
<1>1. TypeOK' /\ HeaderOK' /\ now' = now
  BY DEF IInv, TypeOK, Call, HeaderOK, MaxAttempts
<1> QED BY <1>1, QuietStep DEF Call

\* The cached token is handed out only while it is believed in, and NeverLate
\* says that it is then valid.
LEMMA UseCachedIInv == ASSUME IInv, UseCached PROVE IInv'
<1>1. TypeOK'
  BY DEF IInv, TypeOK, UseCached
<1>2. /\ now \in Nat /\ zone \in Int /\ expiry \in Int /\ Margin \in Nat
      /\ cached \in 1 .. Len(issued) /\ issued[cached] \in Nat
      /\ expiry + zone <= issued[cached] /\ now < expiry - Margin
  BY AuthAssumption DEF IInv, TypeOK, NeverLate, UseCached, Fresh
<1>3. now + Margin < issued[cached] + West
  BY <1>2 DEF West
<1>4. HeaderOK'
  BY <1>2, <1>3 DEF UseCached, HeaderOK, West
<1> QED BY <1>1, <1>4, QuietStep DEF UseCached

\* A token just issued, and what it leaves of the others.
LEMMA IssueFacts ==
    ASSUME IInv, Issue
    PROVE  /\ issued' \in Seq(Nat) /\ Len(issued') = Len(issued) + 1
           /\ issued'[Len(issued')] = now + Life
           /\ \A i \in 1 .. Len(issued) : issued'[i] = issued[i]
           /\ now \in Nat /\ Len(issued) \in Nat /\ Life \in Nat
<1>1. issued \in Seq(Nat) /\ now \in Nat /\ Life \in Nat
  BY AuthAssumption DEF IInv, TypeOK
<1>2. issued' = Append(issued, now + Life) /\ now + Life \in Nat
  BY <1>1 DEF Issue
<1> QED BY <1>1, <1>2

\* Tokens already stored stay as they were.
LEMMA StoredStays ==
    ASSUME IInv, Issue, UNCHANGED <<zone, stored>>
    PROVE  TokensLast'
<1> SUFFICES ASSUME NEW i \in 1 .. Len(stored) - 1
             PROVE  issued'[stored[i + 1]] - Life >= issued'[stored[i]] - Margin - zone
  BY DEF TokensLast
<1>1. stored[i] \in 1 .. Len(issued) /\ stored[i + 1] \in 1 .. Len(issued)
  BY DEF IInv, TypeOK, StoredOK
<1>2. issued'[stored[i + 1]] = issued[stored[i + 1]] /\ issued'[stored[i]] = issued[stored[i]]
  BY <1>1, IssueFacts
<1> QED BY <1>2 DEF IInv, TokensLast

LEMMA GrantedIInv == ASSUME IInv, Granted PROVE IInv'
<1> DEFINE t == Len(issued')
<1>1. /\ Issue /\ cached' = t /\ expiry' = now + Life - zone
      /\ stored' = Append(stored, t) /\ header' = [token |-> t, at |-> now]
      /\ pc' = "send" /\ UNCHANGED <<now, zone, attempt, refused>>
  BY DEF Granted
<1>2. /\ issued' \in Seq(Nat) /\ t = Len(issued) + 1 /\ issued'[t] = now + Life
      /\ \A i \in 1 .. Len(issued) : issued'[i] = issued[i]
      /\ now \in Nat /\ Len(issued) \in Nat /\ Life \in Nat
  BY <1>1, IssueFacts
<1>3. /\ Margin \in Nat /\ Margin < Life /\ Start \in Nat /\ zone \in Int
      /\ stored \in Seq(Nat) /\ Len(stored) \in Nat /\ expiry \in Int
  BY AuthAssumption DEF IInv, TypeOK
<1> HIDE DEF t
<1>4. /\ stored' \in Seq(Nat) /\ Len(stored') = Len(stored) + 1
      /\ stored'[Len(stored')] = t
      /\ \A i \in 1 .. Len(stored) : stored'[i] = stored[i]
  <2>1. t \in Nat
    BY <1>2
  <2> QED BY <1>1, <1>3, <2>1
<1>5. TypeOK'
  <2>1. cached' \in 0 .. Len(issued') /\ expiry' \in Int
    BY <1>1, <1>2, <1>3 DEF t
  <2>2. header' \in [token : Nat, at : Nat]
    BY <1>1, <1>2
  <2> QED BY <1>1, <1>2, <1>4, <2>1, <2>2 DEF IInv, TypeOK
<1>6. NeverLate'
  BY <1>1, <1>2, <1>3 DEF IInv, NeverLate
<1>7. HeaderOK'
  BY <1>1, <1>2, <1>3 DEF HeaderOK, West, t
<1>8. StoredOK'
  <2>1. ASSUME NEW i \in 1 .. Len(stored')
        PROVE  stored'[i] \in 1 .. Len(issued')
    <3>1. CASE i = Len(stored')
      <4>1. stored'[i] = Len(issued')
        BY <1>4, <3>1 DEF t
      <4> QED BY <1>2, <4>1 DEF t
    <3>2. CASE i # Len(stored')
      <4>1. i \in 1 .. Len(stored) /\ stored'[i] = stored[i]
        BY <1>3, <1>4, <3>2
      <4>2. stored[i] \in 1 .. Len(issued)
        BY <4>1 DEF IInv, StoredOK
      <4>3. Len(issued') = Len(issued) + 1
        BY <1>2 DEF t
      <4> QED BY <1>2, <4>1, <4>2, <4>3
    <3> QED BY <3>1, <3>2
  <2>2. cached' # 0 /\ expiry' = issued'[stored'[Len(stored')]] - zone'
    <3>1. cached' = t /\ t # 0
      BY <1>1, <1>2
    <3>2. expiry' = now + Life - zone /\ zone' = zone
      BY <1>1
    <3>3. issued'[stored'[Len(stored')]] = now + Life
      BY <1>2, <1>4
    <3>4. cached' # 0
      BY <3>1
    <3>5. expiry' = issued'[stored'[Len(stored')]] - zone'
      <4>1. now \in Int /\ Life \in Int /\ zone \in Int
        BY <1>2, <1>3
      <4> QED BY <3>2, <3>3, <4>1
    <3> QED BY <3>4, <3>5
  <2> QED BY <2>1, <2>2 DEF StoredOK
<1>9. RefusedOnlyLate'
  BY <1>1 DEF IInv, RefusedOnlyLate, West
<1>10. TokensLast'
  <2> SUFFICES ASSUME NEW i \in 1 .. Len(stored') - 1
               PROVE  issued'[stored'[i + 1]] - Life >= issued'[stored'[i]] - Margin - zone'
    BY DEF TokensLast
  <2>1. /\ i \in 1 .. Len(stored) /\ stored'[i] = stored[i]
        /\ stored[i] \in 1 .. Len(issued) /\ issued'[stored'[i]] = issued[stored[i]]
    <3>1. i \in 1 .. Len(stored)
      BY <1>3, <1>4
    <3>2. stored[i] \in 1 .. Len(issued)
      BY <3>1 DEF IInv, StoredOK
    <3> QED BY <1>2, <1>4, <3>1, <3>2
  <2>2. CASE i = Len(stored)
    <3>1. issued'[stored'[i + 1]] = now + Life
      BY <1>2, <1>4, <2>2
    <3>2. cached # 0 /\ expiry = issued[stored[i]] - zone
      BY <1>3, <2>1, <2>2 DEF IInv, StoredOK
    <3>3. now >= expiry - Margin
      <4>1. ~Fresh
        BY <1>1 DEF Issue
      <4>2. now \in Int /\ expiry \in Int /\ Margin \in Int
        BY <1>2, <1>3
      <4> QED BY <3>2, <4>1, <4>2 DEF Fresh
    <3>4. issued[stored[i]] \in Nat
      <4>1. issued \in Seq(Nat)
        BY DEF IInv, TypeOK
      <4> QED BY <2>1, <4>1
    <3>5. now + Life - Life >= issued[stored[i]] - zone - Margin
      BY <1>2, <1>3, <3>2, <3>3, <3>4
    <3>6. zone' = zone
      BY <1>1
    <3>7. now \in Int /\ Life \in Int /\ zone \in Int /\ Margin \in Int
      BY <1>2, <1>3
    <3> QED BY <2>1, <3>1, <3>4, <3>5, <3>6, <3>7
  <2>3. CASE i # Len(stored)
    <3>1. /\ i \in 1 .. Len(stored) - 1 /\ stored'[i + 1] = stored[i + 1]
          /\ stored[i + 1] \in 1 .. Len(issued)
      <4>1. i \in 1 .. Len(stored) - 1 /\ i + 1 \in 1 .. Len(stored)
        BY <1>3, <2>1, <2>3
      <4> QED BY <1>4, <4>1 DEF IInv, StoredOK
    <3>2. issued'[stored'[i + 1]] = issued[stored[i + 1]]
      BY <1>2, <3>1
    <3> QED BY <1>1, <2>1, <3>1, <3>2 DEF IInv, TokensLast
  <2> QED BY <2>2, <2>3
<1> QED BY <1>5, <1>6, <1>7, <1>8, <1>9, <1>10 DEF IInv

\* The old expiry stays with the new token: too early, never too late.
LEMMA GrantedUnparsedIInv == ASSUME IInv, GrantedUnparsed PROVE IInv'
<1>1. /\ Issue /\ cached' \in {cached, Len(issued')} /\ pc' = "idle"
      /\ UNCHANGED <<now, zone, expiry, attempt, header, stored, refused>>
  BY DEF GrantedUnparsed
<1>2. /\ issued' \in Seq(Nat) /\ Len(issued') = Len(issued) + 1
      /\ issued'[Len(issued')] = now + Life
      /\ \A i \in 1 .. Len(issued) : issued'[i] = issued[i]
      /\ now \in Nat /\ Len(issued) \in Nat /\ Life \in Nat
  BY <1>1, IssueFacts
<1>3. TypeOK'
  BY <1>1, <1>2 DEF IInv, TypeOK
<1>4. NeverLate'
  <2>1. CASE cached' = cached
    <3>1. cached # 0 => issued'[cached] = issued[cached]
      BY <1>2 DEF IInv, TypeOK
    <3> QED BY <1>1, <2>1, <3>1 DEF IInv, NeverLate
  <2>2. CASE cached' = Len(issued')
    BY <1>1, <1>2, <2>2 DEF IInv, NeverLate
  <2> QED BY <1>1, <2>1, <2>2
<1>5. HeaderOK'
  BY <1>1 DEF HeaderOK
<1>6. StoredOK'
  <2>1. stored \in Seq(Nat) /\ Len(stored) \in Nat
    BY DEF IInv, TypeOK
  <2> QED BY <1>1, <1>2, <2>1 DEF IInv, StoredOK
<1>7. RefusedOnlyLate'
  BY <1>1 DEF IInv, RefusedOnlyLate, West
<1>8. TokensLast'
  BY <1>1, StoredStays
<1> QED BY <1>3, <1>4, <1>5, <1>6, <1>7, <1>8 DEF IInv

LEMMA GrantLostIInv == ASSUME IInv, GrantLost PROVE IInv'
<1>1. /\ Issue /\ Retry
      /\ UNCHANGED <<now, zone, cached, expiry, header, stored, refused>>
  BY DEF GrantLost
<1>2. /\ issued' \in Seq(Nat) /\ Len(issued') = Len(issued) + 1
      /\ \A i \in 1 .. Len(issued) : issued'[i] = issued[i]
      /\ Len(issued) \in Nat
  BY <1>1, IssueFacts
<1>3. pc' \in {"auth", "idle"} /\ attempt' \in 1 .. MaxAttempts
  BY <1>1, RetryType DEF IInv
<1>4. TypeOK'
  BY <1>1, <1>2, <1>3 DEF IInv, TypeOK
<1>5. NeverLate'
  BY <1>1, <1>2 DEF IInv, TypeOK, NeverLate
<1>6. HeaderOK'
  BY <1>3 DEF HeaderOK
<1>7. StoredOK'
  <2>1. stored \in Seq(Nat) /\ Len(stored) \in Nat
    BY DEF IInv, TypeOK
  <2> QED BY <1>1, <1>2, <2>1 DEF IInv, StoredOK
<1>8. RefusedOnlyLate'
  BY <1>1 DEF IInv, RefusedOnlyLate, West
<1>9. TokensLast'
  BY <1>1, StoredStays
<1> QED BY <1>4, <1>5, <1>6, <1>7, <1>8, <1>9 DEF IInv

\* A refusal comes after the token's expiry, and HeaderOK says how late that is.
LEMMA RefusedIInv == ASSUME IInv, Refused PROVE IInv'
<1> DEFINE r == [header |-> header.at, at |-> now]
<1>1. /\ pc = "send" /\ now >= issued[header.token]
      /\ refused' = refused \cup {r} /\ pc' = "idle"
      /\ UNCHANGED <<now, zone, cached, expiry, attempt, header, issued, stored>>
  BY DEF Refused
<1>2. /\ header.token \in 1 .. Len(issued) /\ issued[header.token] \in Nat
      /\ header.at + Margin < issued[header.token] + West
      /\ header.at \in Nat /\ now \in Nat /\ zone \in Int /\ Margin \in Nat
  BY <1>1, AuthAssumption DEF IInv, TypeOK, HeaderOK
<1>3. r.at + West > r.header + Margin
  BY <1>1, <1>2 DEF West
<1>4. RefusedOnlyLate'
  BY <1>1, <1>3 DEF IInv, RefusedOnlyLate, West
<1>5. TypeOK'
  BY <1>1, <1>2 DEF IInv, TypeOK
<1>6. NeverLate' /\ HeaderOK' /\ StoredOK' /\ TokensLast'
  BY <1>1 DEF IInv, NeverLate, HeaderOK, StoredOK, TokensLast
<1> QED BY <1>4, <1>5, <1>6 DEF IInv

LEMMA NextIInv == ASSUME IInv, [Next]_vars PROVE IInv'
<1>1. CASE GrantDenied
  <2>1. pc' \in {"auth", "idle"} /\ attempt' \in 1 .. MaxAttempts
    BY <1>1, RetryType DEF IInv, GrantDenied
  <2>2. TypeOK' /\ HeaderOK' /\ now' = now
    BY <1>1, <2>1 DEF IInv, TypeOK, GrantDenied, HeaderOK
  <2> QED BY <1>1, <2>2, QuietStep DEF GrantDenied
<1>2. CASE SendLost
  <2>1. pc' \in {"auth", "idle"} /\ attempt' \in 1 .. MaxAttempts
    BY <1>2, RetryType DEF IInv, SendLost
  <2>2. TypeOK' /\ HeaderOK' /\ now' = now
    BY <1>2, <2>1 DEF IInv, TypeOK, SendLost, HeaderOK
  <2> QED BY <1>2, <2>2, QuietStep DEF SendLost
<1>3. CASE Served
  <2>1. TypeOK' /\ HeaderOK' /\ now' = now
    BY <1>3 DEF IInv, TypeOK, Served, HeaderOK
  <2> QED BY <1>3, <2>1, QuietStep DEF Served
<1>4. CASE Tick
  <2>1. TypeOK' /\ now' = now + 1
    BY <1>4 DEF IInv, TypeOK, Tick
  <2>2. HeaderOK'
    BY <1>4 DEF IInv, Tick, HeaderOK, West
  <2> QED BY <1>4, <2>1, <2>2, QuietStep DEF Tick
<1>5. CASE UNCHANGED vars
  BY <1>5 DEF vars, IInv, TypeOK, NeverLate, HeaderOK, StoredOK, RefusedOnlyLate, TokensLast, West
<1> QED BY <1>1, <1>2, <1>3, <1>4, <1>5, CallIInv, UseCachedIInv, GrantedIInv,
           GrantedUnparsedIInv, GrantLostIInv, RefusedIInv DEF Next

\* The inductive invariant: what the server believes of a token is never later
\* than the truth, but for the offset of its clock.
THEOREM AuthInvariant == Spec => []IInv
<1>1. Init => IInv
  BY InitIInv
<1>2. IInv /\ [Next]_vars => IInv'
  BY NextIInv
<1> QED BY <1>1, <1>2, PTL DEF Spec

\* authorization_header never hands out a token about to expire, whatever
\* happened to its cache before.
THEOREM AuthRefusedOnlyLate == Spec => []RefusedOnlyLate
<1>1. IInv => RefusedOnlyLate
  BY DEF IInv
<1> QED BY <1>1, AuthInvariant, PTL

\* Tokens whose expiry was stored are used up to their margin.
THEOREM AuthTokensLast == Spec => []TokensLast
<1>1. IInv => TokensLast
  BY DEF IInv
<1> QED BY <1>1, AuthInvariant, PTL

\* The cache, the tokens and the header keep their types (TypeOK): no call makes
\* a fourth attempt.
THEOREM AuthTypeOK == Spec => []TypeOK
<1>1. IInv => TypeOK
  BY DEF IInv
<1> QED BY <1>1, AuthInvariant, PTL
=============================================================================
