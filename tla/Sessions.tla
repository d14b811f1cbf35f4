------------------------------ MODULE Sessions ------------------------------
(***************************************************************************)
(* The API's side of a session: signed tokens that expire by the clock, and*)
(* a denylist in Redis whose entries expire by theirs.                     *)
(*                                                                         *)
(*   backend/src/utils/tokens.js         sign, verify, secondsUntilExpiry  *)
(*   backend/src/config/redis.js         revokeToken, isTokenRevoked       *)
(*   backend/src/middleware/auth.js      authenticate                      *)
(*   backend/src/modules/auth/auth.service.js                              *)
(*                                                                         *)
(* Tokens count whole seconds, Redis counts from the moment a command runs *)
(* and answers in seconds, rounded up or down: time is in quarters of a    *)
(* second, so that all of it shows. A reply of Redis is awaited for a      *)
(* bounded time; a command it did not answer stays queued and runs when the*)
(* connection is back.                                                     *)
(***************************************************************************)
EXTENDS Integers, Sequences, FiniteSets

CONSTANTS
    AccessTTL, RefreshTTL, \* lives of the tokens, in seconds
    None,                  \* no token
    MaxTokens, MaxNow      \* bounds: tokens signed, ticks that pass

ASSUME SessionsAssumption ==
    /\ AccessTTL \in Nat \ {0} /\ RefreshTTL \in Nat \ {0}
    /\ MaxTokens \in Nat /\ MaxNow \in Nat /\ None \notin Nat

\* An access token carries its account's role.
Token == [kind : {"access", "refresh"}, exp : Nat, role : {"ADMIN", "ANALYST", "VIEWER", None}]

VARIABLES
    now,       \* ticks since the start
    tokens,    \* the tokens signed so far; a token's jti is its index
    denylist,  \* the tick at which each jti's entry expires, 0 if none
    queued,    \* SETs that wait for Redis: jti and seconds
    redis,     \* Redis answers
    confirmed, \* history: tokens whose revocation succeeded
    honoured   \* history: tokens accepted after that

serverVars == <<now, tokens, denylist, queued, redis, confirmed, honoured>>
others     == <<now, tokens, redis>>

Jtis     == 1..MaxTokens
Ticks    == 4 \* of a second
Second   == now \div Ticks
After(s) == now + Ticks * s

-----------------------------------------------------------------------------
(* Tokens.                                                                 *)

TTL(kind) == IF kind = "access" THEN AccessTTL ELSE RefreshTTL

Sign(kinds, role) ==
    /\ Len(tokens) + Len(kinds) <= MaxTokens
    /\ tokens' = tokens \o [n \in 1..Len(kinds) |->
                              [kind |-> kinds[n], exp |-> Second + TTL(kinds[n]),
                               role |-> IF kinds[n] = "access" THEN role ELSE None]]

Newest == Len(tokens')

\* verify
Valid(t, kind) == t # None /\ tokens[t].kind = kind /\ Second < tokens[t].exp

\* Mutant: the clock is rounded up.
secondsUntilExpiry_Ceil(t) ==
    LET left == tokens[t].exp - (now + Ticks - 1) \div Ticks IN IF left > 0 THEN left ELSE 0

secondsUntilExpiry(t) ==
    LET left == tokens[t].exp - Second IN IF left > 0 THEN left ELSE 0

-----------------------------------------------------------------------------
(* The denylist.                                                           *)

Denied(t) == now < denylist[t]

\* isTokenRevoked fails closed: without Redis the answer is 503.
Verdict(t, kind) ==
    IF ~Valid(t, kind) THEN 401
    ELSE IF ~redis THEN 503
    ELSE IF Denied(t) THEN 401 ELSE 200

\* authenticate, and the check of a refresh token.
Judge(t, kind) ==
    /\ honoured' = IF Verdict(t, kind) = 200 THEN honoured \union (confirmed \intersect {t})
                   ELSE honoured
    /\ UNCHANGED <<others, denylist, queued, confirmed>>

\* revokeToken, of a token that has not expired: an answer, or an error and a
\* command that waits.
revokeToken(t) ==
    LET ttl == secondsUntilExpiry(t)
    IN  /\ IF ttl = 0 THEN UNCHANGED <<denylist, queued, confirmed>>
           ELSE IF redis
           THEN /\ denylist' = [denylist EXCEPT ![t] = After(ttl)]
                /\ confirmed' = confirmed \union {t}
                /\ UNCHANGED queued
           ELSE /\ queued' = queued \union {<<t, ttl>>}
                /\ UNCHANGED <<denylist, confirmed>>
        /\ UNCHANGED <<others, honoured>>

RevokeFails(t) == secondsUntilExpiry(t) # 0 /\ ~redis

RedisDown ==
    /\ redis /\ redis' = FALSE
    /\ UNCHANGED <<now, tokens, denylist, queued, confirmed, honoured>>

RedisUp ==
    /\ ~redis /\ redis' = TRUE
    /\ denylist' = [t \in Jtis |->
          IF \E q \in queued : q[1] = t
          THEN After((CHOOSE q \in queued : q[1] = t)[2]) ELSE denylist[t]]
    /\ queued' = {}
    /\ UNCHANGED <<now, tokens, confirmed, honoured>>

Tick ==
    /\ now < MaxNow /\ now' = now + 1
    /\ UNCHANGED <<tokens, denylist, queued, redis, confirmed, honoured>>

ServerInit ==
    /\ now = 0 /\ tokens = <<>>
    /\ denylist = [t \in Jtis |-> 0] /\ queued = {} /\ redis = TRUE
    /\ confirmed = {} /\ honoured = {}

ServerTypeOK ==
    /\ now \in 0..MaxNow /\ redis \in BOOLEAN
    /\ tokens \in Seq(Token) /\ Len(tokens) <= MaxTokens
    /\ denylist \in [Jtis -> Nat]
    /\ queued \subseteq (Jtis \X Nat)
    /\ confirmed \subseteq Jtis /\ honoured \subseteq Jtis

\* "TTL-matching is what keeps the denylist from growing without bound": an
\* entry never expires before its token, at any point of a second and through
\* outages of Redis, so a revoked token is never accepted again.
RevokedIsRefused == honoured = {}

=============================================================================
