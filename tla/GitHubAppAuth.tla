--------------------------- MODULE GitHubAppAuth ---------------------------
(***************************************************************************)
(* The installation-token cache of GitHubAppAuthProvider under the         *)
(* retrying _request of GitHubClient.  Each attempt asks for a header,     *)
(* which takes the cached token or fetches a new one, and then sends its   *)
(* request; time passes between any two steps.                             *)
(*                                                                         *)
(* GitHub says in UTC when a token expires, and time.mktime reads that as  *)
(* local time: zone is how far the server's clock is east of UTC.          *)
(***************************************************************************)
EXTENDS Integers, Sequences

CONSTANTS
    Life,       \* how long GitHub makes a token valid
    Margin,     \* the 60 seconds
    Zones,      \* offsets a server's local time may have
    Start,      \* when the server starts
    MaxTime,    \* bound: the clock
    MaxTokens   \* bound: tokens GitHub issues

MaxAttempts == 3

ASSUME AuthAssumption ==
    /\ Margin \in Nat /\ Life \in Nat /\ Margin < Life
    /\ Start \in Nat /\ MaxTime \in Nat /\ MaxTokens \in Nat
    /\ Zones \subseteq Int
    /\ \A z \in Zones : z <= Start + Life

VARIABLES
    now,        \* time.time(), and GitHub's clock
    zone,
    cached,     \* _cached_token, a number GitHub gave the token, 0 for none
    expiry,     \* _cached_expiry_epoch
    pc, attempt,
    header,     \* [token, at]: the header in hand and when it was made
    \* GitHub, and history
    issued,     \* when each token really expires
    stored,     \* tokens whose expiry was stored, in order
    refused     \* requests refused because the token had expired

vars == <<now, zone, cached, expiry, pc, attempt, header, issued, stored, refused>>

Init ==
    /\ now = Start
    /\ zone \in Zones
    /\ cached = 0 /\ expiry = 0
    /\ pc = "idle" /\ attempt = 1
    /\ header = [token |-> 0, at |-> 0]
    /\ issued = <<>> /\ stored = <<>> /\ refused = {}

\* Mutation: the margin is added instead of subtracted.
FreshLonger == cached # 0 /\ now < expiry + Margin

Fresh == cached # 0 /\ now < expiry - Margin

Call ==
    /\ pc = "idle"
    /\ pc' = "auth" /\ attempt' = 1
    /\ UNCHANGED <<now, zone, cached, expiry, header, issued, stored, refused>>

UseCached ==
    /\ pc = "auth" /\ Fresh
    /\ header' = [token |-> cached, at |-> now]
    /\ pc' = "send"
    /\ UNCHANGED <<now, zone, cached, expiry, attempt, issued, stored, refused>>

\* GitHub issues a token, valid from now.
Issue ==
    /\ pc = "auth" /\ ~Fresh
    /\ Len(issued) < MaxTokens
    /\ issued' = Append(issued, now + Life)

\* Mutation: the new token keeps the expiry of the old one.
GrantedOnly ==
    /\ Issue
    /\ cached' = Len(issued')
    /\ expiry' = expiry
    /\ stored' = Append(stored, cached')
    /\ header' = [token |-> cached', at |-> now]
    /\ pc' = "send"
    /\ UNCHANGED <<now, zone, attempt, refused>>

\* The token and its expiry are stored, off by the zone.
Granted ==
    /\ Issue
    /\ cached' = Len(issued')
    /\ expiry' = now + Life - zone
    /\ stored' = Append(stored, cached')
    /\ header' = [token |-> cached', at |-> now]
    /\ pc' = "send"
    /\ UNCHANGED <<now, zone, attempt, refused>>

\* expires_at is missing or has another format: the token is cached already,
\* its expiry is not, and the call raises.  Or nothing of the answer can be
\* read, and nothing is cached.
GrantedUnparsed ==
    /\ Issue
    /\ cached' \in {cached, Len(issued')}
    /\ pc' = "idle"
    /\ UNCHANGED <<now, zone, expiry, attempt, header, stored, refused>>

\* Mutation: four attempts.
RetryOnceMore ==
    IF attempt < MaxAttempts + 1
    THEN pc' = "auth" /\ attempt' = attempt + 1
    ELSE pc' = "idle" /\ UNCHANGED attempt

\* An httpx.HTTPError: tenacity begins _request again, header and all, or
\* raises it after the last attempt.
Retry ==
    IF attempt < MaxAttempts
    THEN pc' = "auth" /\ attempt' = attempt + 1
    ELSE pc' = "idle" /\ UNCHANGED attempt

\* The answer that holds the token is lost.
GrantLost ==
    /\ Issue
    /\ Retry
    /\ UNCHANGED <<now, zone, cached, expiry, header, stored, refused>>

\* raise_for_status, or the request never arrives.
GrantDenied ==
    /\ pc = "auth" /\ ~Fresh
    /\ Retry
    /\ UNCHANGED <<now, zone, cached, expiry, header, issued, stored, refused>>

\* GitHub knows the token: the call returns, or raises for another reason.
Served ==
    /\ pc = "send" /\ now < issued[header.token]
    /\ pc' = "idle"
    /\ UNCHANGED <<now, zone, cached, expiry, attempt, header, issued, stored, refused>>

\* 401: a GitHubClientError, which is not retried and clears no cache.
Refused ==
    /\ pc = "send" /\ now >= issued[header.token]
    /\ refused' = refused \cup {[header |-> header.at, at |-> now]}
    /\ pc' = "idle"
    /\ UNCHANGED <<now, zone, cached, expiry, attempt, header, issued, stored>>

SendLost ==
    /\ pc = "send"
    /\ Retry
    /\ UNCHANGED <<now, zone, cached, expiry, header, issued, stored, refused>>

\* Also while a request is under way or tenacity waits.
Tick ==
    /\ now < MaxTime
    /\ now' = now + 1
    /\ UNCHANGED <<zone, cached, expiry, pc, attempt, header, issued, stored, refused>>

Next ==
    \/ Call \/ UseCached
    \/ Granted \/ GrantedUnparsed \/ GrantLost \/ GrantDenied
    \/ Served \/ Refused \/ SendLost
    \/ Tick

Spec == Init /\ [][Next]_vars

-----------------------------------------------------------------------------

TypeOK ==
    /\ now \in Nat /\ zone \in Zones
    /\ cached \in 0 .. Len(issued) /\ expiry \in Int
    /\ pc \in {"idle", "auth", "send"} /\ attempt \in 1 .. MaxAttempts
    /\ header \in [token : Nat, at : Nat]
    /\ issued \in Seq(Nat) /\ stored \in Seq(Nat)
    /\ refused \subseteq [header : Nat, at : Nat]

\* How much longer than it is valid a token is thought valid: not at all east
\* of Greenwich, the offset west of it.
West == IF zone < 0 THEN -zone ELSE 0

\* authorization_header hands out no token that is about to expire: a request
\* refused for its token was sent more than Margin after its header was made
\* (less the offset, west of Greenwich), also after a token whose expiry could
\* not be parsed took the place of another.
RefusedOnlyLate == \A r \in refused : r.at + West > r.header + Margin

\* The cache is used: between two tokens whose expiry was stored lies the whole
\* life of the first, but for the margin and the offset of the zone.
TokensLast ==
    \A i \in 1 .. Len(stored) - 1 :
        issued[stored[i + 1]] - Life >= issued[stored[i]] - Margin - zone
=============================================================================
