--------------------------- MODULE ApiClientProofs ---------------------------
(***************************************************************************)
(* What holds of a tab and the API it talks to for any number of calls,    *)
(* sign-ins and tokens, any lives of the tokens and any failures: a token  *)
(* whose revocation succeeded is refused, a Retry-After is kept, a         *)
(* demotion takes effect, the cold-start notice is about a call, and the   *)
(* user stays signed in while the refresh token is valid.                  *)
(***************************************************************************)
EXTENDS ApiClient, SequenceTheorems, TLAPS

\* A second is four ticks, wherever time is reckoned.
USE DEF Ticks, After

Signed(n) == 1..n \union {None}
Known     == 1..Len(tokens)

\* Every token the tab or a request holds is one of the n that have been signed;
\* what has passed authenticate, and what waits for its signature, has what it
\* needs.
CallOK(c, n) ==
    /\ c \in Call /\ c.token \in Signed(n) /\ c.body \in Signed(n)
    /\ c.pc = "revokeAccess" => c.token # None
    /\ c.pc = "sign" => c.role \in Roles

AttemptOK(at, a, n) ==
    /\ at \in Attempt
    /\ at.pc = "sign" => at.role \in Roles
    /\ a = Mine /\ at.status = 200 => 2 <= n

SharedOK(s, n) ==
    /\ s \in Refresh /\ s.token \in 1..n /\ s.result \in Signed(n)
    /\ s.pc = "sign" => s.role \in Roles

CallsOK ==
    /\ calls \in [Calls -> Call \union {None}]
    /\ \A i \in Calls : calls[i] # None => CallOK(calls[i], Len(tokens))

AttemptsOK ==
    /\ attempts \in [Attempts -> Attempt \union {None}]
    /\ \A a \in Attempts : attempts[a] # None => AttemptOK(attempts[a], a, Len(tokens))

StoreOK == access \in Signed(Len(tokens)) /\ refresh \in Signed(Len(tokens))

RefreshOK == shared # None => SharedOK(shared, Len(tokens))

\* The limiter's and the role's part of the state, without the sign-ins.
LimitOK == /\ counter \in [hits : Nat, expires : Nat] /\ lateHits \in Nat
           /\ lateStamp \in BOOLEAN /\ told \in Nat
RoleOK  == /\ role \in Roles /\ change \in Roles \union {None} /\ demotedAt \in Nat
           /\ raced \in BOOLEAN /\ outlived \in BOOLEAN

\* What becomes of a call or of a sign-in that goes on.
WithPc(c, pc)    == [c EXCEPT !.pc = pc]
WithStatus(c, s) == [c EXCEPT !.pc = "answered", !.status = s]
WithRole(c, r)   == [c EXCEPT !.pc = "sign", !.role = r]
WithHits(c, n)   == [c EXCEPT !.pc = "stamp", !.hits = n]
WithToken(c, t)  == [c EXCEPT !.pc = "answered", !.status = 200, !.token = t]

Typed == /\ ServerTypeOK /\ LimitOK /\ RoleOK
         /\ AttemptsOK /\ StoreOK /\ CallsOK /\ RefreshOK

-----------------------------------------------------------------------------
(* The server's steps.                                                     *)

\* A token that has been signed.
LEMMA KnownToken ==
    ASSUME ServerTypeOK, NEW t \in Known
    PROVE  t \in Jtis /\ tokens[t] \in Token
<1>1. tokens \in Seq(Token) /\ Len(tokens) \in Nat /\ Len(tokens) <= MaxTokens /\ MaxTokens \in Nat
    BY SessionsAssumption DEF ServerTypeOK
<1>. QED BY <1>1 DEF Known, Jtis

\* What a signature adds.
LEMMA SignAdds ==
    ASSUME ServerTypeOK, NEW kinds \in {<<"access">>, <<"access", "refresh">>},
           NEW r \in Roles, Sign(kinds, r),
           UNCHANGED <<now, denylist, queued, redis, confirmed, honoured>>
    PROVE  /\ ServerTypeOK'
           /\ Len(tokens') = Len(tokens) + Len(kinds)
           /\ \A t \in Known : tokens'[t] = tokens[t]
           /\ \A t \in Known' \ Known : /\ tokens'[t].exp = Second + TTL(tokens'[t].kind)
                                        /\ tokens'[t].kind = "access" => tokens'[t].role = r
<1>. DEFINE new == [n \in 1..Len(kinds) |->
                      [kind |-> kinds[n], exp |-> Second + TTL(kinds[n]),
                       role |-> IF kinds[n] = "access" THEN r ELSE None]]
<1>1. Len(kinds) \in {1, 2} /\ \A n \in 1..Len(kinds) : kinds[n] \in {"access", "refresh"}
    OBVIOUS
<1>2. Second \in Nat /\ \A k \in {"access", "refresh"} : TTL(k) \in Nat
    BY SessionsAssumption DEF ServerTypeOK, Second, TTL
<1>3. ASSUME NEW n \in 1..Len(kinds)
      PROVE  /\ new[n] \in Token
             /\ new[n].exp = Second + TTL(new[n].kind)
             /\ new[n].kind = "access" => new[n].role = r
  <2>1. new[n] = [kind |-> kinds[n], exp |-> Second + TTL(kinds[n]),
                  role |-> IF kinds[n] = "access" THEN r ELSE None]
      OBVIOUS
  <2>2. kinds[n] \in {"access", "refresh"} /\ Second + TTL(kinds[n]) \in Nat
      BY <1>1, <1>2
  <2>3. (IF kinds[n] = "access" THEN r ELSE None) \in {"ADMIN", "ANALYST", "VIEWER", None}
      BY DEF Roles
  <2>. HIDE DEF new
  <2>. QED BY <2>1, <2>2, <2>3 DEF Token
<1>4. new \in Seq(Token) /\ Len(new) = Len(kinds)
    BY <1>1, <1>3
<1>5. tokens' = tokens \o new /\ Len(tokens) + Len(kinds) <= MaxTokens
    BY DEF Sign
<1>. HIDE DEF new
<1>6. tokens \in Seq(Token) /\ Len(tokens) \in Nat /\ Len(kinds) \in Nat
    BY <1>1 DEF ServerTypeOK
<1>7. tokens' \in Seq(Token) /\ Len(tokens') = Len(tokens) + Len(kinds)
    BY <1>4, <1>5, <1>6, ConcatProperties
<1>8. \A t \in Known : tokens'[t] = tokens[t]
  <2>1. \A t \in Known : t \in 1..(Len(tokens) + Len(new)) /\ t <= Len(tokens)
      BY <1>4, <1>6 DEF Known
  <2>. QED BY <2>1, <1>4, <1>5, <1>6, ConcatProperties
<1>9. ASSUME NEW t \in Known' \ Known
      PROVE  /\ tokens'[t].exp = Second + TTL(tokens'[t].kind)
             /\ tokens'[t].kind = "access" => tokens'[t].role = r
  <2>1. t \in Nat /\ t - Len(tokens) \in 1..Len(kinds) /\ Len(tokens) < t /\ t <= Len(tokens')
      BY <1>6, <1>7 DEF Known
  <2>2. tokens'[t] = new[t - Len(tokens)]
      BY <2>1, <1>4, <1>5, <1>6, <1>7, ConcatProperties
  <2>. QED BY <2>1, <2>2, <1>3
<1>10. ServerTypeOK'
    BY <1>5, <1>6, <1>7, SessionsAssumption DEF ServerTypeOK, Jtis
<1>. QED BY <1>7, <1>8, <1>9, <1>10

\* authenticate changes nothing but the record of what it accepted.
LEMMA JudgeTyped ==
    ASSUME ServerTypeOK, NEW t, NEW k, Judge(t, k)
    PROVE  ServerTypeOK' /\ tokens' = tokens
    BY DEF ServerTypeOK, Judge, others

LEMMA RevokeTyped ==
    ASSUME ServerTypeOK, NEW t \in Known, revokeToken(t)
    PROVE  ServerTypeOK' /\ tokens' = tokens
<1>1. t \in Jtis
    BY KnownToken DEF Known, Jtis
<1>2. tokens[t].exp \in Nat
    BY KnownToken DEF Token
<1>3. secondsUntilExpiry(t) \in Nat /\ now + Ticks * secondsUntilExpiry(t) \in Nat
  <2>1. now \in Nat /\ now \div Ticks \in Nat
      BY SessionsAssumption DEF ServerTypeOK
  <2>. QED BY <1>2, <2>1 DEF secondsUntilExpiry, Second
<1>4. UNCHANGED <<now, tokens, redis, honoured>>
    BY DEF revokeToken, others
<1>5. denylist' \in [Jtis -> Nat] /\ confirmed' \subseteq Jtis
    BY <1>1, <1>3 DEF revokeToken, ServerTypeOK
<1>6. queued' \subseteq Jtis \X Nat
    BY <1>1, <1>3 DEF revokeToken, ServerTypeOK
<1>. QED BY <1>4, <1>5, <1>6 DEF ServerTypeOK

LEMMA ClockTyped ==
    ASSUME ServerTypeOK, Tick \/ RedisDown \/ RedisUp
    PROVE  ServerTypeOK' /\ tokens' = tokens
<1>1. CASE Tick BY <1>1, SessionsAssumption DEF Tick, ServerTypeOK
<1>2. CASE RedisDown BY <1>2 DEF RedisDown, ServerTypeOK
<1>3. CASE RedisUp
  <2>1. ASSUME NEW t \in Jtis, \E q \in queued : q[1] = t
        PROVE  now + Ticks * (CHOOSE q \in queued : q[1] = t)[2] \in Nat
    <3>. PICK q \in queued : q = (CHOOSE p \in queued : p[1] = t)
        BY <2>1
    <3>. QED BY DEF ServerTypeOK
  <2>2. denylist' \in [Jtis -> Nat]
      BY <1>3, <2>1 DEF RedisUp, ServerTypeOK
  <2>. QED BY <1>3, <2>2 DEF RedisUp, ServerTypeOK
<1>. QED BY <1>1, <1>2, <1>3

-----------------------------------------------------------------------------
(* What the tab and the requests hold.                                     *)

\* Numbers of tokens.
LEMMA Lengths ==
    ASSUME ServerTypeOK
    PROVE  Len(tokens) \in Nat /\ Known = 1..Len(tokens) /\ MaxTokens \in Nat /\ now \in Nat
    BY SessionsAssumption DEF ServerTypeOK, Known

\* What is signed stays signed.
LEMMA Growth ==
    ASSUME NEW m \in Nat, NEW n \in Nat, m <= n
    PROVE  /\ Signed(m) \subseteq Signed(n)
           /\ \A c : CallOK(c, m) => CallOK(c, n)
           /\ \A at, a : AttemptOK(at, a, m) => AttemptOK(at, a, n)
           /\ \A s : SharedOK(s, m) => SharedOK(s, n)
<1>1. Signed(m) \subseteq Signed(n) /\ 1..m \subseteq 1..n
    BY DEF Signed
<1>. QED BY <1>1 DEF CallOK, AttemptOK, SharedOK

\* What a step leaves alone stays typed.
LEMMA Frame ==
    ASSUME Typed, ServerTypeOK', Len(tokens) <= Len(tokens')
    PROVE  /\ UNCHANGED attempts => AttemptsOK'
           /\ UNCHANGED <<access, refresh>> => StoreOK'
           /\ UNCHANGED calls => CallsOK'
           /\ UNCHANGED shared => RefreshOK'
           /\ UNCHANGED <<counter, lateHits, lateStamp, told>> => LimitOK'
           /\ UNCHANGED <<role, change, demotedAt, raced, outlived>> => RoleOK'
<1>1. Len(tokens) \in Nat /\ Len(tokens') \in Nat
    BY DEF Typed, ServerTypeOK
<1>. QED BY <1>1, Growth DEF Typed, AttemptsOK, StoreOK, CallsOK, RefreshOK, LimitOK, RoleOK

\* One call changes.
LEMMA CallsBecome ==
    ASSUME Typed, Len(tokens') \in Nat, Len(tokens) <= Len(tokens'), NEW i \in Calls,
           calls' = [j \in Calls |-> calls'[j]],
           \A j \in Calls \ {i} : calls'[j] = calls[j],
           calls'[i] = None \/ CallOK(calls'[i], Len(tokens'))
    PROVE  CallsOK'
<1>1. /\ Len(tokens) \in Nat /\ calls \in [Calls -> Call \union {None}]
      /\ \A j \in Calls : calls[j] # None => CallOK(calls[j], Len(tokens))
    BY DEF Typed, ServerTypeOK, CallsOK
<1>2. \A j \in Calls : calls'[j] # None => CallOK(calls'[j], Len(tokens'))
    BY <1>1, Growth
<1>3. \A j \in Calls : calls'[j] \in Call \union {None}
    BY <1>2 DEF CallOK
<1>. QED BY <1>2, <1>3 DEF CallsOK

\* One sign-in changes.
LEMMA AttemptsBecome ==
    ASSUME Typed, Len(tokens') \in Nat, Len(tokens) <= Len(tokens'), NEW a \in Attempts,
           attempts' = [b \in Attempts |-> attempts'[b]],
           \A b \in Attempts \ {a} : attempts'[b] = attempts[b],
           attempts'[a] = None \/ AttemptOK(attempts'[a], a, Len(tokens'))
    PROVE  AttemptsOK'
<1>1. /\ Len(tokens) \in Nat /\ attempts \in [Attempts -> Attempt \union {None}]
      /\ \A b \in Attempts : attempts[b] # None => AttemptOK(attempts[b], b, Len(tokens))
    BY DEF Typed, ServerTypeOK, AttemptsOK
<1>2. \A b \in Attempts : attempts'[b] # None => AttemptOK(attempts'[b], b, Len(tokens'))
    BY <1>1, Growth
<1>3. \A b \in Attempts : attempts'[b] \in Attempt \union {None}
    BY <1>2 DEF AttemptOK
<1>. QED BY <1>2, <1>3 DEF AttemptsOK

\* A call that is sent, answered, or goes on.
LEMMA NewCall ==
    ASSUME NEW n \in Nat, n <= MaxTokens, NEW kind \in Kinds, NEW token \in Signed(n),
           NEW body \in Signed(n), NEW retry \in BOOLEAN
    PROVE  CallOK(Sent(kind, token, body, retry), n)
<1>1. Signed(n) \subseteq Jtis \union {None}
    BY SessionsAssumption DEF Signed, Jtis
<1>. QED BY <1>1 DEF CallOK, Sent, Call

LEMMA CallGoesOn ==
    ASSUME NEW n \in Nat, NEW c, CallOK(c, n)
    PROVE  /\ \A s \in {0, 200, 401, 403, 503} : CallOK(WithStatus(c, s), n)
           /\ \A r \in Roles : CallOK(WithRole(c, r), n)
           /\ c.token # None => CallOK(WithPc(c, "revokeAccess"), n)
           /\ CallOK(WithPc(c, "revokeRefresh"), n)
           /\ CallOK(WithPc(c, "waiting"), n)
<1>. c \in Call BY DEF CallOK
<1>1. ASSUME NEW s \in {0, 200, 401, 403, 503}
      PROVE  CallOK(WithStatus(c, s), n)
  <2>. DEFINE e == [c EXCEPT !.pc = "answered"]
              d == [c EXCEPT !.pc = "answered", !.status = s]
  <2>3. e \in Call BY DEF Call
  <2>4. d = [e EXCEPT !.status = s] OBVIOUS
  <2>1. d \in Call
    <3>. HIDE DEF d, e
    <3>. QED BY <2>3, <2>4 DEF Call
  <2>2. d.pc = "answered" /\ d.token = c.token /\ d.body = c.body BY DEF Call
  <2>. QED BY <2>1, <2>2 DEF CallOK, WithStatus
<1>2. ASSUME NEW r \in Roles
      PROVE  CallOK(WithRole(c, r), n)
  <2>. DEFINE e == [c EXCEPT !.pc = "sign"]
              d == [c EXCEPT !.pc = "sign", !.role = r]
  <2>3. e \in Call BY DEF Call
  <2>4. d = [e EXCEPT !.role = r] OBVIOUS
  <2>1. d \in Call
    <3>. HIDE DEF d, e
    <3>. QED BY <2>3, <2>4 DEF Call
  <2>2. /\ d.pc = "sign" /\ d.token = c.token /\ d.body = c.body /\ d.role = r
      BY DEF Call
  <2>. QED BY <2>1, <2>2 DEF CallOK, WithRole
<1>3. c.token # None => CallOK(WithPc(c, "revokeAccess"), n)
    BY DEF CallOK, Call, WithPc
<1>4. CallOK(WithPc(c, "revokeRefresh"), n)
    BY DEF CallOK, Call, WithPc
<1>5. CallOK(WithPc(c, "waiting"), n)
    BY DEF CallOK, Call, WithPc
<1>. QED BY <1>1, <1>2, <1>3, <1>4, <1>5

LEMMA NewAttempt ==
    ASSUME NEW n \in Nat, NEW a \in Attempts, NEW pc \in {"count", "read"}
    PROVE  AttemptOK([pc |-> pc, hits |-> 0, role |-> None, status |-> 0], a, n)
    BY DEF AttemptOK, Attempt

LEMMA AttemptGoesOn ==
    ASSUME NEW n \in Nat, NEW a \in Attempts, NEW at, AttemptOK(at, a, n)
    PROVE  /\ \A s \in {0, 200, 401, 429} :
                 (s = 200 /\ a = Mine => 2 <= n) => AttemptOK(WithStatus(at, s), a, n)
           /\ \A r \in Roles : AttemptOK(WithRole(at, r), a, n)
           /\ \A hits \in Nat : AttemptOK(WithHits(at, hits), a, n)
           /\ AttemptOK(WithPc(at, "read"), a, n)
<1>. at \in Attempt BY DEF AttemptOK
<1>1. ASSUME NEW s \in {0, 200, 401, 429}, s = 200 /\ a = Mine => 2 <= n
      PROVE  AttemptOK(WithStatus(at, s), a, n)
  <2>. DEFINE e == [at EXCEPT !.pc = "answered"]
              d == [at EXCEPT !.pc = "answered", !.status = s]
  <2>1. e \in Attempt BY DEF Attempt
  <2>2. d = [e EXCEPT !.status = s] OBVIOUS
  <2>3. d.pc = "answered" /\ d.status = s BY DEF Attempt
  <2>4. d \in Attempt
    <3>. HIDE DEF d, e
    <3>. QED BY <2>1, <2>2 DEF Attempt
  <2>. QED BY <1>1, <2>3, <2>4 DEF AttemptOK, WithStatus
<1>2. ASSUME NEW r \in Roles
      PROVE  AttemptOK(WithRole(at, r), a, n)
  <2>. DEFINE e == [at EXCEPT !.pc = "sign"]
              d == [at EXCEPT !.pc = "sign", !.role = r]
  <2>1. e \in Attempt BY DEF Attempt
  <2>2. d = [e EXCEPT !.role = r] OBVIOUS
  <2>3. d.pc = "sign" /\ d.role = r /\ d.status = at.status BY DEF Attempt
  <2>4. d \in Attempt
    <3>. HIDE DEF d, e
    <3>. QED BY <2>1, <2>2 DEF Attempt
  <2>. QED BY <2>3, <2>4 DEF AttemptOK, WithRole
<1>3. ASSUME NEW hits \in Nat
      PROVE  AttemptOK(WithHits(at, hits), a, n)
  <2>. DEFINE e == [at EXCEPT !.pc = "stamp"]
              d == [at EXCEPT !.pc = "stamp", !.hits = hits]
  <2>1. e \in Attempt BY DEF Attempt
  <2>2. d = [e EXCEPT !.hits = hits] OBVIOUS
  <2>3. d.pc = "stamp" /\ d.status = at.status BY DEF Attempt
  <2>4. d \in Attempt
    <3>. HIDE DEF d, e
    <3>. QED BY <2>1, <2>2 DEF Attempt
  <2>. QED BY <2>3, <2>4 DEF AttemptOK, WithHits
<1>4. AttemptOK(WithPc(at, "read"), a, n)
    BY DEF AttemptOK, Attempt, WithPc
<1>. QED BY <1>1, <1>2, <1>3, <1>4

-----------------------------------------------------------------------------
(* The steps of a sign-in.                                                 *)

\* The seconds a key has left, but for half a second.
LEMMA KeyTTLCovers ==
    ASSUME ServerTypeOK, LimitOK
    PROVE  /\ KeyTTL \in Int
           /\ 0 <= KeyTTL => Live /\ counter.expires # 0 /\ counter.expires <= now + Ticks * KeyTTL + Ticks \div 2
           /\ KeyTTL < 0 /\ Live => counter.expires = 0
<1>1. now \in Nat /\ counter.expires \in Nat
    BY SessionsAssumption DEF ServerTypeOK, LimitOK
<1>2. ASSUME Live, counter.expires # 0
      PROVE  /\ (counter.expires - now + Ticks \div 2) \div Ticks \in Nat
             /\ counter.expires <= now + Ticks \div 2
                      + Ticks * ((counter.expires - now + Ticks \div 2) \div Ticks)
  <2>1. now < counter.expires
      BY <1>2 DEF Live
  <2>. QED BY <1>1, <2>1
<1>. QED BY <1>1, <1>2 DEF KeyTTL

LEMMA SendTyped ==
    ASSUME Typed, NEW a \in Attempts, NEW pc \in {"count", "read"}, SendAttempt(a, pc),
           UNCHANGED serverVars
    PROVE  AttemptsOK'
<1>. DEFINE new == [pc |-> pc, hits |-> 0, role |-> None, status |-> 0]
<1>1. Len(tokens) \in Nat /\ tokens' = tokens
    BY DEF Typed, ServerTypeOK, serverVars
<1>2. attempts' = [attempts EXCEPT ![a] = new] /\ attempts \in [Attempts -> Attempt \union {None}]
    BY DEF SendAttempt, Typed, AttemptsOK
<1>3. AttemptOK(new, a, Len(tokens'))
    BY <1>1, NewAttempt
<1>. HIDE DEF new
<1>4. /\ attempts' = [b \in Attempts |-> attempts'[b]] /\ attempts'[a] = new
      /\ \A b \in Attempts \ {a} : attempts'[b] = attempts[b]
    BY <1>2
<1>. QED BY <1>1, <1>3, <1>4, AttemptsBecome

\* An attempt that goes on, whichever way, is typed.
LEMMA OneAttempt ==
    ASSUME Typed, NEW a \in Attempts, attempts[a] # None, tokens' = tokens,
           attempts' = [attempts EXCEPT ![a] = attempts'[a]],
           \/ attempts'[a] = None
           \/ \E s \in {0, 401, 429} : attempts'[a] = WithStatus(attempts[a], s)
           \/ a # Mine /\ attempts'[a] = WithStatus(attempts[a], 200)
           \/ attempts'[a] = WithPc(attempts[a], "read")
           \/ \E hits \in Nat : attempts'[a] = WithHits(attempts[a], hits)
           \/ \E r \in Roles : attempts'[a] = WithRole(attempts[a], r)
    PROVE  AttemptsOK'
<1>1. /\ AttemptOK(attempts[a], a, Len(tokens)) /\ Len(tokens) \in Nat
      /\ attempts \in [Attempts -> Attempt \union {None}]
    BY DEF Typed, AttemptsOK, ServerTypeOK
<1>2. attempts'[a] = None \/ AttemptOK(attempts'[a], a, Len(tokens'))
    BY <1>1, AttemptGoesOn
<1>3. /\ attempts' = [b \in Attempts |-> attempts'[b]]
      /\ \A b \in Attempts \ {a} : attempts'[b] = attempts[b]
    BY <1>1
<1>. QED BY <1>1, <1>2, <1>3, AttemptsBecome


\* What a step that leaves the server's variables alone leaves typed.
LEMMA QuietFrame ==
    ASSUME Typed, UNCHANGED serverVars
    PROVE  /\ ServerTypeOK' /\ tokens' = tokens /\ Len(tokens) \in Nat
           /\ UNCHANGED attempts => AttemptsOK'
           /\ UNCHANGED <<access, refresh>> => StoreOK'
           /\ UNCHANGED calls => CallsOK'
           /\ UNCHANGED shared => RefreshOK'
           /\ UNCHANGED <<counter, lateHits, lateStamp, told>> => LimitOK'
           /\ UNCHANGED <<role, change, demotedAt, raced, outlived>> => RoleOK'
<1>1. ServerTypeOK' /\ tokens' = tokens /\ Len(tokens) \in Nat
    BY DEF Typed, ServerTypeOK, serverVars, Jtis
<1>. QED BY <1>1, Frame

LEMMA Client ==
    ASSUME UNCHANGED clientVars
    PROVE  UNCHANGED <<access, refresh>> /\ UNCHANGED calls /\ UNCHANGED shared
    BY DEF clientVars, storeVars

\* The limiter counts, stamps and decides.
LEMMA DecideOK ==
    ASSUME Typed, NEW a \in Attempts, attempts[a] # None, NEW hits \in Nat, NEW ttl \in Nat,
           Decide(a, hits, ttl), tokens' = tokens, now \in Nat
    PROVE  AttemptsOK' /\ told' \in Nat
<1>1. attempts \in [Attempts -> Attempt \union {None}] /\ told \in Nat
    BY DEF Typed, AttemptsOK, LimitOK
<1>2. CASE hits > MaxHits
  <2>1. attempts' = [attempts EXCEPT ![a] = [@ EXCEPT !.pc = "answered", !.status = 429]]
      BY <1>2 DEF Decide, EndsWith
  <2>2. attempts'[a] = WithStatus(attempts[a], 429) /\ attempts' = [attempts EXCEPT ![a] = attempts'[a]]
      BY <1>1, <2>1 DEF WithStatus
  <2>. QED BY <1>2, <2>2, OneAttempt DEF Decide
<1>3. CASE ~(hits > MaxHits)
  <2>1. attempts' = [attempts EXCEPT ![a] = [@ EXCEPT !.pc = "read"]]
      BY <1>3 DEF Decide, GoesOn
  <2>2. attempts'[a] = WithPc(attempts[a], "read") /\ attempts' = [attempts EXCEPT ![a] = attempts'[a]]
      BY <1>1, <2>1 DEF WithPc
  <2>. QED BY <1>1, <1>3, <2>2, OneAttempt DEF Decide
<1>. QED BY <1>2, <1>3

\* An attempt goes on to the login without an answer of Redis.
LEMMA GoesOnOK ==
    ASSUME Typed, NEW a \in Attempts, attempts[a] # None, GoesOn(a, "read"), tokens' = tokens
    PROVE  AttemptsOK'
<1>1. attempts \in [Attempts -> Attempt \union {None}]
    BY DEF Typed, AttemptsOK
<1>2. attempts'[a] = WithPc(attempts[a], "read") /\ attempts' = [attempts EXCEPT ![a] = attempts'[a]]
    BY <1>1 DEF WithPc, GoesOn
<1>. QED BY <1>2, OneAttempt

LEMMA CountHitTyped ==
    ASSUME Typed, NEW a \in Attempts, CountHit(a), UNCHANGED clientVars
    PROVE  Typed'
<1>. DEFINE hits == IF Live THEN counter.hits + 1 ELSE 1
<1>1. UNCHANGED serverVars /\ UNCHANGED roleVars /\ UNCHANGED lateStamp /\ attempts[a] # None
    BY DEF CountHit
<1>2. /\ ServerTypeOK' /\ StoreOK' /\ CallsOK' /\ RefreshOK' /\ RoleOK' /\ tokens' = tokens
      /\ now \in Nat
    BY <1>1, QuietFrame, Client, Lengths DEF roleVars, Typed
<1>3. /\ counter \in [hits : Nat, expires : Nat] /\ lateHits \in Nat /\ lateStamp \in BOOLEAN
      /\ told \in Nat /\ attempts \in [Attempts -> Attempt \union {None}]
    BY DEF Typed, LimitOK, AttemptsOK
<1>4. hits \in Nat
    BY <1>3
<1>. HIDE DEF hits
<1>5. ASSUME redis, NeedsStamp(hits, KeyTTL)
      PROVE  AttemptsOK' /\ LimitOK'
  <2>1. /\ attempts' = [attempts EXCEPT ![a] = [@ EXCEPT !.pc = "stamp", !.hits = hits]]
        /\ told' = IF Live THEN told ELSE 0
        /\ counter' = [hits |-> hits, expires |-> IF Live THEN counter.expires ELSE 0]
        /\ lateHits' = lateHits
      BY <1>5 DEF CountHit, hits
  <2>2. attempts'[a] = WithHits(attempts[a], hits) /\ attempts' = [attempts EXCEPT ![a] = attempts'[a]]
      BY <1>3, <2>1 DEF WithHits
  <2>3. AttemptsOK'
      BY <1>1, <1>2, <1>4, <2>2, OneAttempt
  <2>. QED BY <1>1, <1>3, <1>4, <2>1, <2>3 DEF LimitOK
<1>6. ASSUME redis, ~NeedsStamp(hits, KeyTTL)
      PROVE  AttemptsOK' /\ LimitOK'
  <2>1. /\ Decide(a, hits, KeyTTL) /\ lateHits' = lateHits
        /\ counter' = [hits |-> hits, expires |-> IF Live THEN counter.expires ELSE 0]
      BY <1>6 DEF CountHit, hits
  <2>2. KeyTTL \in Nat
      BY <1>6, KeyTTLCovers DEF NeedsStamp, Typed
  <2>3. AttemptsOK' /\ told' \in Nat
      BY <1>1, <1>2, <1>4, <2>1, <2>2, DecideOK
  <2>. QED BY <1>1, <1>3, <1>4, <2>1, <2>3 DEF LimitOK
<1>7. ASSUME ~redis
      PROVE  AttemptsOK' /\ LimitOK'
  <2>1. lateHits' = lateHits + 1 /\ GoesOn(a, "read") /\ counter' = counter /\ told' = told
      BY <1>7 DEF CountHit
  <2>2. AttemptsOK'
      BY <1>1, <1>2, <2>1, GoesOnOK
  <2>. QED BY <1>1, <1>3, <2>1, <2>2 DEF LimitOK
<1>. QED BY <1>2, <1>5, <1>6, <1>7 DEF Typed

LEMMA StampHitTyped ==
    ASSUME Typed, NEW a \in Attempts, StampHit(a), UNCHANGED clientVars
    PROVE  Typed'
<1>1. UNCHANGED serverVars /\ UNCHANGED roleVars /\ UNCHANGED lateHits /\ attempts[a] # None
    BY DEF StampHit
<1>2. /\ ServerTypeOK' /\ StoreOK' /\ CallsOK' /\ RefreshOK' /\ RoleOK' /\ tokens' = tokens
      /\ now \in Nat
    BY <1>1, QuietFrame, Client, Lengths DEF roleVars, Typed
<1>3. /\ counter \in [hits : Nat, expires : Nat] /\ lateHits \in Nat /\ lateStamp \in BOOLEAN
      /\ told \in Nat /\ attempts \in [Attempts -> Attempt \union {None}]
    BY DEF Typed, LimitOK, AttemptsOK
<1>4. attempts[a] \in Attempt /\ attempts[a].hits \in Nat /\ Window \in Nat
    BY <1>1, <1>3, AccountsAssumption DEF Attempt
<1>5. Stamped \in [hits : Nat, expires : Nat]
    BY <1>2, <1>3, <1>4 DEF Stamped
<1>6. CASE redis
  <2>1. counter' = Stamped /\ lateStamp' = lateStamp
      BY <1>6 DEF StampHit
  <2>2. CASE attempts[a].hits > MaxHits
      BY <1>1, <1>2, <1>3, <1>4, <1>5, <1>6, <2>1, <2>2, DecideOK DEF StampHit, LimitOK, Typed
  <2>3. CASE ~(attempts[a].hits > MaxHits)
    <3>1. GoesOn(a, "read") /\ told' = 0
        BY <1>6, <2>3 DEF StampHit
    <3>2. AttemptsOK'
        BY <1>1, <1>2, <3>1, GoesOnOK
    <3>. QED BY <1>1, <1>2, <1>3, <1>5, <2>1, <3>1, <3>2 DEF LimitOK, Typed
  <2>. QED BY <2>2, <2>3
<1>7. CASE ~redis
  <2>1. lateStamp' = TRUE /\ GoesOn(a, "read") /\ counter' = counter /\ told' = told
      BY <1>7 DEF StampHit
  <2>2. AttemptsOK'
      BY <1>1, <1>2, <2>1, GoesOnOK
  <2>. QED BY <1>1, <1>2, <1>3, <2>1, <2>2 DEF LimitOK, Typed
<1>. QED BY <1>6, <1>7

LEMMA ReadUserTyped ==
    ASSUME Typed, NEW a \in Attempts, ReadUser(a), UNCHANGED clientVars
    PROVE  Typed'
<1>1. UNCHANGED serverVars /\ UNCHANGED roleVars /\ UNCHANGED limitVars /\ attempts[a] # None
    BY DEF ReadUser
<1>2. /\ ServerTypeOK' /\ StoreOK' /\ CallsOK' /\ RefreshOK' /\ RoleOK' /\ LimitOK' /\ tokens' = tokens
    BY <1>1, QuietFrame, Client DEF roleVars, limitVars
<1>3. attempts \in [Attempts -> Attempt \union {None}] /\ role \in Roles
    BY DEF Typed, AttemptsOK, RoleOK
<1>4. CASE attempts' = [attempts EXCEPT ![a] = [@ EXCEPT !.pc = "sign", !.role = RoleRead]]
  <2>1. attempts'[a] = WithRole(attempts[a], role) /\ attempts' = [attempts EXCEPT ![a] = attempts'[a]]
      BY <1>3, <1>4 DEF WithRole, RoleRead
  <2>. QED BY <1>1, <1>2, <1>3, <2>1, OneAttempt DEF Typed
<1>5. CASE EndsWith(a, 401)
  <2>1. attempts'[a] = WithStatus(attempts[a], 401) /\ attempts' = [attempts EXCEPT ![a] = attempts'[a]]
      BY <1>3, <1>5 DEF WithStatus, EndsWith
  <2>. QED BY <1>1, <1>2, <2>1, OneAttempt DEF Typed
<1>. QED BY <1>4, <1>5 DEF ReadUser

\* A signature, for the part of the state it does not touch.
LEMMA SignFrame ==
    ASSUME Typed, NEW kinds \in {<<"access">>, <<"access", "refresh">>},
           NEW r \in Roles, Sign(kinds, r),
           UNCHANGED <<now, denylist, queued, redis, confirmed, honoured>>
    PROVE  /\ ServerTypeOK' /\ Len(tokens) \in Nat /\ Len(tokens') \in Nat
           /\ Len(tokens') = Len(tokens) + Len(kinds) /\ Len(tokens') <= MaxTokens
           /\ UNCHANGED attempts => AttemptsOK'
           /\ UNCHANGED <<access, refresh>> => StoreOK'
           /\ UNCHANGED calls => CallsOK'
           /\ UNCHANGED shared => RefreshOK'
           /\ UNCHANGED limitVars => LimitOK'
           /\ UNCHANGED roleVars => RoleOK'
<1>1. ServerTypeOK /\ Len(tokens) \in Nat
    BY DEF Typed, ServerTypeOK
<1>2. ServerTypeOK' /\ Len(tokens') = Len(tokens) + Len(kinds)
    BY <1>1, SignAdds
<1>3. Len(kinds) \in Nat
    OBVIOUS
<1>4. Len(tokens') \in Nat /\ Len(tokens) <= Len(tokens') /\ Len(tokens') <= MaxTokens
    BY <1>1, <1>2, <1>3 DEF ServerTypeOK
<1>. QED BY <1>1, <1>2, <1>4, Frame DEF limitVars, roleVars

LEMMA IssueTokensTyped ==
    ASSUME Typed, NEW a \in Attempts, IssueTokens(a), UNCHANGED clientVars
    PROVE  Typed'
<1>1. /\ attempts[a] # None /\ attempts[a].pc = "sign"
      /\ attempts \in [Attempts -> Attempt \union {None}]
      /\ AttemptOK(attempts[a], a, Len(tokens))
    BY DEF IssueTokens, Typed, AttemptsOK
<1>2. attempts[a].role \in Roles
    BY <1>1 DEF AttemptOK
<1>. DEFINE kinds == <<"access", "refresh">>
<1>3. Sign(kinds, attempts[a].role) /\ UNCHANGED <<now, denylist, queued, redis, confirmed, honoured>>
    BY DEF IssueTokens
<1>4. /\ ServerTypeOK' /\ Len(tokens) \in Nat /\ Len(tokens') \in Nat
      /\ Len(tokens') = Len(tokens) + Len(kinds)
      /\ StoreOK' /\ CallsOK' /\ RefreshOK' /\ LimitOK' /\ RoleOK'
    BY <1>2, <1>3, SignFrame, Client DEF IssueTokens
<1>5. Len(tokens') = Len(tokens) + 2
    BY <1>4
<1>6. attempts'[a] = WithStatus(attempts[a], 200) /\ attempts' = [attempts EXCEPT ![a] = attempts'[a]]
    BY <1>1 DEF WithStatus, IssueTokens, EndsWith
<1>7. AttemptOK(attempts[a], a, Len(tokens'))
    BY <1>1, <1>4, <1>5, Growth
<1>8. AttemptOK(attempts'[a], a, Len(tokens'))
    BY <1>4, <1>5, <1>6, <1>7, AttemptGoesOn
<1>9. /\ attempts' = [b \in Attempts |-> attempts'[b]]
      /\ \A b \in Attempts \ {a} : attempts'[b] = attempts[b]
    BY <1>1, <1>6
<1>10. AttemptsOK'
    BY <1>4, <1>5, <1>8, <1>9, AttemptsBecome
<1>. QED BY <1>4, <1>10 DEF Typed

LEMMA MineIsOne == Mine \in Attempts
    BY AccountsAssumption DEF Mine

LEMMA SignInTyped ==
    ASSUME Typed, SignIn
    PROVE  Typed'
<1>1. UNCHANGED serverVars /\ UNCHANGED roleVars /\ UNCHANGED limitVars /\ UNCHANGED clientVars
    BY DEF SignIn
<1>2. /\ ServerTypeOK' /\ StoreOK' /\ CallsOK' /\ RefreshOK' /\ RoleOK' /\ LimitOK'
    BY <1>1, QuietFrame, Client DEF roleVars, limitVars
<1>3. \E pc \in {"count", "read"} : SendAttempt(Mine, pc)
    BY DEF SignIn
<1>. QED BY <1>1, <1>2, <1>3, MineIsOne, SendTyped DEF Typed

\* The tokens the tab gets are the first two.
LEMMA SignedInTyped ==
    ASSUME Typed, SignedIn
    PROVE  Typed'
<1>1. /\ UNCHANGED serverVars /\ UNCHANGED roleVars /\ UNCHANGED limitVars
      /\ UNCHANGED calls /\ UNCHANGED shared /\ attempts[Mine] # None
    BY DEF SignedIn
<1>2. /\ ServerTypeOK' /\ CallsOK' /\ RefreshOK' /\ RoleOK' /\ LimitOK'
      /\ tokens' = tokens /\ Len(tokens) \in Nat
    BY <1>1, QuietFrame DEF roleVars, limitVars
<1>3. attempts \in [Attempts -> Attempt \union {None}] /\ AttemptOK(attempts[Mine], Mine, Len(tokens))
    BY <1>1, MineIsOne DEF Typed, AttemptsOK
<1>4. attempts'[Mine] = None /\ attempts' = [attempts EXCEPT ![Mine] = attempts'[Mine]]
    BY <1>3, MineIsOne DEF SignedIn
<1>5. AttemptsOK'
    BY <1>1, <1>2, <1>4, MineIsOne, OneAttempt
<1>6. CASE attempts[Mine].status = 200
  <2>1. access' = 1 /\ refresh' = 2
      BY <1>6 DEF SignedIn
  <2>2. 2 <= Len(tokens)
      BY <1>3, <1>6 DEF AttemptOK
  <2>3. StoreOK'
      BY <1>2, <2>1, <2>2 DEF StoreOK, Signed
  <2>. QED BY <1>2, <1>5, <2>3 DEF Typed
<1>7. CASE attempts[Mine].status # 200
  <2>1. UNCHANGED <<access, refresh>>
      BY <1>7 DEF SignedIn, storeVars
  <2>2. StoreOK'
      BY <1>1, <2>1, QuietFrame
  <2>. QED BY <1>2, <1>5, <2>2 DEF Typed
<1>. QED BY <1>6, <1>7

LEMMA OthersTyped ==
    ASSUME Typed, NEW a \in Attempts, Others(a)
    PROVE  Typed'
<1>1. UNCHANGED serverVars /\ UNCHANGED roleVars /\ UNCHANGED limitVars /\ UNCHANGED clientVars
    BY DEF Others
<1>2. /\ ServerTypeOK' /\ StoreOK' /\ CallsOK' /\ RefreshOK' /\ RoleOK' /\ LimitOK'
      /\ tokens' = tokens
    BY <1>1, QuietFrame, Client DEF roleVars, limitVars
<1>3. attempts \in [Attempts -> Attempt \union {None}]
    BY DEF Typed, AttemptsOK
<1>4. CASE SendAttempt(a, "count")
    BY <1>1, <1>2, <1>4, SendTyped DEF Typed
<1>5. CASE attempts[a] # None /\ attempts[a].pc = "sign" /\ EndsWith(a, 200)
  <2>1. attempts'[a] = WithStatus(attempts[a], 200) /\ attempts' = [attempts EXCEPT ![a] = attempts'[a]]
      BY <1>3, <1>5 DEF WithStatus, EndsWith
  <2>2. AttemptsOK'
      BY <1>2, <1>5, <2>1, OneAttempt DEF Others
  <2>. QED BY <1>2, <2>2 DEF Typed
<1>6. CASE attempts[a] # None /\ attempts' = [attempts EXCEPT ![a] = None]
  <2>1. attempts'[a] = None /\ attempts' = [attempts EXCEPT ![a] = attempts'[a]]
      BY <1>3, <1>6
  <2>2. AttemptsOK'
      BY <1>2, <1>6, <2>1, OneAttempt
  <2>. QED BY <1>2, <2>2 DEF Typed
<1>. QED BY <1>4, <1>5, <1>6 DEF Others

LEMMA RestartTyped ==
    ASSUME Typed, Restart
    PROVE  Typed'
<1>1. /\ UNCHANGED <<now, tokens, denylist, redis, confirmed, honoured, roleVars, counter, told>>
      /\ queued' = {} /\ lateHits' = 0 /\ lateStamp' = FALSE
      /\ UNCHANGED clientVars
    BY DEF Restart, RestartAttempts
<1>2. ServerTypeOK' /\ tokens' = tokens /\ Len(tokens) \in Nat
    BY <1>1 DEF Typed, ServerTypeOK, Jtis
<1>3. StoreOK' /\ CallsOK' /\ RefreshOK' /\ RoleOK'
  <2>1. Len(tokens) <= Len(tokens')
      BY <1>2
  <2>2. UNCHANGED <<role, change, demotedAt, raced, outlived>>
      BY <1>1 DEF roleVars
  <2>. QED BY <1>1, <1>2, <2>1, <2>2, Client, Frame
<1>4. LimitOK'
    BY <1>1 DEF Typed, LimitOK
<1>5. /\ attempts \in [Attempts -> Attempt \union {None}]
      /\ \A a \in Attempts : attempts[a] # None => AttemptOK(attempts[a], a, Len(tokens))
    BY DEF Typed, AttemptsOK
<1>6. attempts' = [a \in Attempts |->
          IF attempts[a] # None /\ attempts[a].pc # "answered"
          THEN WithStatus(attempts[a], 0) ELSE attempts[a]]
    BY DEF Restart, RestartAttempts, WithStatus
<1>7. \A a \in Attempts : attempts'[a] # None => AttemptOK(attempts'[a], a, Len(tokens))
    BY <1>2, <1>5, <1>6, AttemptGoesOn
<1>8. AttemptsOK'
  <2>1. \A a \in Attempts : attempts'[a] \in Attempt \union {None}
      BY <1>7 DEF AttemptOK
  <2>. QED BY <1>2, <1>6, <1>7, <2>1 DEF AttemptsOK
<1>. QED BY <1>2, <1>3, <1>4, <1>8 DEF Typed

LEMMA AdministrationTyped ==
    ASSUME Typed, Administration
    PROVE  Typed'
<1>1. UNCHANGED serverVars /\ UNCHANGED limitVars /\ UNCHANGED attempts /\ UNCHANGED clientVars
    BY DEF Administration, ReadTarget, WriteRole, PromoteInDatabase
<1>2. /\ ServerTypeOK' /\ StoreOK' /\ CallsOK' /\ RefreshOK' /\ AttemptsOK' /\ LimitOK'
    BY <1>1, QuietFrame, Client DEF limitVars
<1>3. now \in Nat
    BY Lengths DEF Typed
<1>4. RoleOK'
  <2>1. ASSUME NEW to \in Roles, ReadTarget(to) PROVE RoleOK'
      BY <2>1 DEF ReadTarget, RoleOK, Typed
  <2>2. CASE WriteRole(Unsigned)
    <3>1. raced' \in BOOLEAN /\ role' \in Roles /\ change' \in Roles \union {None}
        BY <2>2 DEF WriteRole, RoleOK, Typed
    <3>2. demotedAt' \in Nat /\ outlived' \in BOOLEAN
        BY <1>3, <2>2 DEF WriteRole, RoleOK, Typed
    <3>. QED BY <3>1, <3>2 DEF RoleOK
  <2>3. CASE PromoteInDatabase
      BY <2>3 DEF PromoteInDatabase, RoleOK, Typed, Roles
  <2>. QED BY <2>1, <2>2, <2>3 DEF Administration
<1>. QED BY <1>2, <1>4 DEF Typed

LEMMA EnvironmentTyped ==
    ASSUME Typed, Environment
    PROVE  Typed'
<1>1. UNCHANGED <<world, storeVars, calls, shared>> /\ UNCHANGED roleVars /\ UNCHANGED attempts
    BY DEF Environment, accountVars
<1>2. Tick \/ RedisDown \/ RedisUp
    BY DEF Environment
<1>3. ServerTypeOK' /\ tokens' = tokens /\ Len(tokens) \in Nat
    BY <1>2, ClockTyped, Lengths DEF Typed
<1>4. StoreOK' /\ CallsOK' /\ RefreshOK' /\ RoleOK' /\ AttemptsOK'
    BY <1>1, <1>3, Frame DEF roleVars, storeVars
<1>5. LimitOK'
  <2>1. CASE UNCHANGED limitVars
      BY <2>1 DEF limitVars, LimitOK, Typed
  <2>2. CASE LateCommands
    <3>1. /\ counter \in [hits : Nat, expires : Nat] /\ lateHits \in Nat /\ told \in Nat
          /\ now \in Nat /\ Window \in Nat
        BY Lengths, AccountsAssumption DEF LimitOK, Typed
    <3>2. counter' \in [hits : Nat, expires : Nat]
        BY <2>2, <3>1 DEF LateCommands
    <3>. QED BY <2>2, <3>1, <3>2 DEF LateCommands, LimitOK
  <2>. QED BY <2>1, <2>2 DEF Environment, accountVars
<1>. QED BY <1>3, <1>4, <1>5 DEF Typed

-----------------------------------------------------------------------------
(* The steps of calls and of the shared refresh.                           *)

\* A call that goes on, whichever way, is typed.
LEMMA OneCall ==
    ASSUME Typed, NEW i \in Calls, calls[i] # None, tokens' = tokens,
           calls' = [calls EXCEPT ![i] = calls'[i]],
           \/ calls'[i] = None
           \/ \E s \in {0, 200, 401, 403, 503} : calls'[i] = WithStatus(calls[i], s)
           \/ \E r \in Roles : calls'[i] = WithRole(calls[i], r)
           \/ calls[i].token # None /\ calls'[i] = WithPc(calls[i], "revokeAccess")
           \/ calls'[i] = WithPc(calls[i], "revokeRefresh")
           \/ calls'[i] = WithPc(calls[i], "waiting")
    PROVE  CallsOK'
<1>1. /\ CallOK(calls[i], Len(tokens)) /\ Len(tokens) \in Nat
      /\ calls \in [Calls -> Call \union {None}]
    BY DEF Typed, CallsOK, ServerTypeOK
<1>2. calls'[i] = None \/ CallOK(calls'[i], Len(tokens'))
    BY <1>1, CallGoesOn
<1>3. /\ calls' = [j \in Calls |-> calls'[j]]
      /\ \A j \in Calls \ {i} : calls'[j] = calls[j]
    BY <1>1
<1>. QED BY <1>1, <1>2, <1>3, CallsBecome

\* A call that is sent, by the user, by a reload or once more.
LEMMA OneSent ==
    ASSUME Typed, NEW i \in Calls, tokens' = tokens, NEW kind \in Kinds,
           NEW token \in Signed(Len(tokens)), NEW body \in Signed(Len(tokens)),
           NEW retry_ \in BOOLEAN,
           calls' = [calls EXCEPT ![i] = calls'[i]],
           calls'[i] = Sent(kind, token, body, retry_)
    PROVE  CallsOK'
<1>1. Len(tokens) \in Nat /\ Len(tokens) <= MaxTokens /\ calls \in [Calls -> Call \union {None}]
    BY DEF Typed, CallsOK, ServerTypeOK
<1>2. CallOK(calls'[i], Len(tokens'))
    BY <1>1, NewCall
<1>3. /\ calls' = [j \in Calls |-> calls'[j]]
      /\ \A j \in Calls \ {i} : calls'[j] = calls[j]
    BY <1>1
<1>. QED BY <1>1, <1>2, <1>3, CallsBecome

\* A call under way.
LEMMA TheCall ==
    ASSUME Typed, NEW i \in Calls, calls[i] # None
    PROVE  /\ calls \in [Calls -> Call \union {None}] /\ calls[i] \in Call
           /\ CallOK(calls[i], Len(tokens))
           /\ calls[i].token \in Signed(Len(tokens)) /\ calls[i].body \in Signed(Len(tokens))
           /\ calls[i].kind \in Kinds /\ calls[i].status \in {0, 200, 401, 403, 503}
    BY DEF Typed, CallsOK, CallOK, Call

LEMMA AnswerIs ==
    ASSUME Typed, NEW i \in Calls, NEW s, Answer(i, s)
    PROVE  calls'[i] = WithStatus(calls[i], s) /\ calls' = [calls EXCEPT ![i] = calls'[i]]
    BY DEF Typed, CallsOK, Answer, WithStatus

LEMMA GoesIs ==
    ASSUME Typed, NEW i \in Calls, NEW pc, Goes(i, pc)
    PROVE  calls'[i] = WithPc(calls[i], pc) /\ calls' = [calls EXCEPT ![i] = calls'[i]]
    BY DEF Typed, CallsOK, Goes, WithPc

\* A verdict is one of three, and the good one is about a token.
LEMMA Verdicts ==
    ASSUME NEW t, NEW k
    PROVE  /\ Verdict(t, k) \in {200, 401, 503}
           /\ Verdict(t, k) = 200 => Valid(t, k) /\ t # None /\ redis /\ ~Denied(t)
    BY DEF Verdict, Valid

LEMMA ServeTyped ==
    ASSUME Typed, NEW i \in Calls, Serve(i)
    PROVE  Typed'
<1>. DEFINE c == calls[i]
            t == IF c.kind = "restore" THEN c.body ELSE c.token
            k == IF c.kind = "restore" THEN "refresh" ELSE "access"
<1>1. c # None /\ Judge(t, k) /\ UNCHANGED <<world, storeVars, shared>>
    BY DEF Serve
<1>2. ServerTypeOK' /\ tokens' = tokens /\ Len(tokens) \in Nat
    BY <1>1, JudgeTyped, Lengths DEF Typed
<1>3. CASE Verdict(t, k) # 200
  <2>1. Answer(i, Verdict(t, k)) /\ UNCHANGED accountVars
      BY <1>3 DEF Serve
  <2>2. CallsOK'
      BY <1>1, <1>2, <2>1, Verdicts, AnswerIs, OneCall
  <2>. QED BY <1>1, <1>2, <2>1, <2>2, Frame DEF Typed, accountVars, limitVars, roleVars, storeVars
<1>4. CASE Verdict(t, k) = 200
  <2>1. RoleOK' /\ UNCHANGED attempts /\ UNCHANGED limitVars
    <3>1. CASE c.kind = "write"
      <4>1. Gate(t)
          BY <1>4, <3>1 DEF Serve
      <4>. QED BY <4>1 DEF Gate, RoleOK, Typed
    <3>2. CASE c.kind # "write"
      <4>1. UNCHANGED accountVars
          BY <3>2 DEF Serve
      <4>. QED BY <4>1 DEF accountVars, roleVars, RoleOK, Typed
    <3>. QED BY <3>1, <3>2
  <2>2. CallsOK'
    <3>1. CASE c.kind = "restore"
      <4>1. calls' = [calls EXCEPT ![i] = [@ EXCEPT !.pc = "sign", !.role = RoleRead]]
          BY <1>4, <3>1 DEF Serve
      <4>2. calls'[i] = WithRole(calls[i], role) /\ calls' = [calls EXCEPT ![i] = calls'[i]]
          BY <4>1 DEF WithRole, RoleRead, Typed, CallsOK
      <4>. QED BY <1>1, <1>2, <4>2, OneCall DEF Typed, RoleOK
    <3>2. CASE c.kind = "logout"
      <4>1. Goes(i, "revokeAccess") /\ t = c.token
          BY <1>4, <3>2 DEF Serve
      <4>2. c.token # None
          BY <1>4, <4>1, Verdicts
      <4>. QED BY <1>1, <1>2, <4>1, <4>2, GoesIs, OneCall
    <3>3. CASE c.kind \notin {"restore", "logout"}
      <4>1. Answer(i, 200) \/ Answer(i, 403)
          BY <1>4, <3>3 DEF Serve
      <4>. QED BY <1>1, <1>2, <4>1, AnswerIs, OneCall
    <3>. QED BY <3>1, <3>2, <3>3
  <2>. QED BY <1>1, <1>2, <2>1, <2>2, Frame DEF Typed, limitVars, storeVars
<1>. QED BY <1>3, <1>4

\* What a step of the client leaves alone, when the account is left alone too.
LEMMA FixedFrame ==
    ASSUME Typed, ServerTypeOK', tokens' = tokens, UNCHANGED fixed
    PROVE  /\ AttemptsOK' /\ LimitOK' /\ RoleOK'
           /\ UNCHANGED storeVars => StoreOK'
           /\ UNCHANGED calls => CallsOK'
           /\ UNCHANGED shared => RefreshOK'
<1>1. Len(tokens) \in Nat
    BY Lengths DEF Typed
<1>. QED BY <1>1, Frame DEF fixed, accountVars, roleVars, limitVars, storeVars

LEMMA RevokeAccessTyped ==
    ASSUME Typed, NEW i \in Calls, RevokeAccess(i)
    PROVE  Typed'
<1>1. /\ calls[i] # None /\ calls[i].pc = "revokeAccess" /\ revokeToken(calls[i].token)
      /\ UNCHANGED fixed /\ UNCHANGED storeVars /\ UNCHANGED shared
    BY DEF RevokeAccess
<1>2. calls[i].token \in Known
    BY <1>1, TheCall DEF CallOK, Signed, Known
<1>3. ServerTypeOK' /\ tokens' = tokens
    BY <1>1, <1>2, RevokeTyped DEF Typed
<1>4. CASE Answer(i, 503) \/ Answer(i, 200)
    BY <1>1, <1>3, <1>4, AnswerIs, OneCall, FixedFrame DEF Typed
<1>5. CASE Goes(i, "revokeRefresh")
    BY <1>1, <1>3, <1>5, GoesIs, OneCall, FixedFrame DEF Typed
<1>. QED BY <1>4, <1>5 DEF RevokeAccess

LEMMA RevokeRefreshTyped ==
    ASSUME Typed, NEW i \in Calls, RevokeRefresh(i)
    PROVE  Typed'
<1>1. /\ calls[i] # None /\ Answer(i, 200)
      /\ UNCHANGED fixed /\ UNCHANGED storeVars /\ UNCHANGED shared
    BY DEF RevokeRefresh
<1>2. ServerTypeOK' /\ tokens' = tokens
  <2>1. CASE Valid(calls[i].body, "refresh")
    <3>1. calls[i].body \in Known
        BY <1>1, <2>1, TheCall DEF Valid, Signed, Known
    <3>. QED BY <2>1, <3>1, RevokeTyped DEF RevokeRefresh, Typed
  <2>2. CASE ~Valid(calls[i].body, "refresh")
      BY <2>2, QuietFrame DEF RevokeRefresh
  <2>. QED BY <2>1, <2>2
<1>. QED BY <1>1, <1>2, AnswerIs, OneCall, FixedFrame DEF Typed

LEMMA CallFailsTyped ==
    ASSUME Typed, NEW i \in Calls, CallFails(i)
    PROVE  Typed'
<1>1. /\ calls[i] # None /\ Answer(i, 0) /\ UNCHANGED serverVars
      /\ UNCHANGED fixed /\ UNCHANGED storeVars /\ UNCHANGED shared
    BY DEF CallFails
<1>. QED BY <1>1, QuietFrame, AnswerIs, OneCall, FixedFrame DEF Typed

\* The signature of the call's own refresh, and of the shared one.
LEMMA SignRestoredTyped ==
    ASSUME Typed, NEW i \in Calls, SignRestored(i)
    PROVE  Typed'
<1>1. /\ calls[i] # None /\ calls[i].pc = "sign" /\ Sign(<<"access">>, calls[i].role)
      /\ UNCHANGED <<now, denylist, queued, redis, confirmed, honoured>>
      /\ UNCHANGED fixed /\ UNCHANGED storeVars /\ UNCHANGED shared
    BY DEF SignRestored
<1>2. calls[i].role \in Roles /\ CallOK(calls[i], Len(tokens)) /\ calls[i] \in Call
      /\ calls \in [Calls -> Call \union {None}]
    BY <1>1, TheCall DEF CallOK
<1>3. /\ ServerTypeOK' /\ Len(tokens) \in Nat /\ Len(tokens') \in Nat
      /\ Len(tokens') = Len(tokens) + Len(<<"access">>) /\ Len(tokens') <= MaxTokens
      /\ AttemptsOK' /\ StoreOK' /\ RefreshOK' /\ LimitOK' /\ RoleOK'
    BY <1>1, <1>2, SignFrame DEF fixed, accountVars, storeVars
<1>4. Len(tokens') = Len(tokens) + 1 /\ Newest = Len(tokens')
    BY <1>3 DEF Newest
<1>5. calls'[i] = WithToken(calls[i], Newest) /\ calls' = [calls EXCEPT ![i] = calls'[i]]
    BY <1>2 DEF SignRestored, WithToken
<1>6. Newest \in Signed(Len(tokens')) /\ Newest \in Jtis
    BY <1>3, <1>4, SessionsAssumption DEF Signed, Jtis
<1>7. CallOK(calls[i], Len(tokens'))
    BY <1>2, <1>3, <1>4, Growth
<1>8. CallOK(calls'[i], Len(tokens'))
  <2>. DEFINE e == WithStatus(calls[i], 200)
  <2>1. CallOK(e, Len(tokens'))
      BY <1>3, <1>7, CallGoesOn
  <2>2. e.pc = "answered"
      BY <1>2 DEF WithStatus, Call
  <2>3. calls'[i] = [e EXCEPT !.token = Newest]
      BY <1>5 DEF WithToken, WithStatus
  <2>. HIDE DEF e
  <2>. QED BY <1>6, <2>1, <2>2, <2>3 DEF CallOK, Call
<1>9. /\ calls' = [j \in Calls |-> calls'[j]]
      /\ \A j \in Calls \ {i} : calls'[j] = calls[j]
    BY <1>2, <1>5
<1>10. CallsOK'
    BY <1>3, <1>4, <1>8, <1>9, CallsBecome
<1>. QED BY <1>3, <1>10 DEF Typed

\* The shared refresh, while there is one.
LEMMA TheRefresh ==
    ASSUME Typed, shared # None
    PROVE  /\ shared \in Refresh /\ SharedOK(shared, Len(tokens))
           /\ shared.token \in 1..Len(tokens) /\ shared.result \in Signed(Len(tokens))
           /\ Len(tokens) \in Nat /\ Len(tokens) <= MaxTokens
    BY DEF Typed, RefreshOK, SharedOK, ServerTypeOK

LEMMA ServeRefreshTyped ==
    ASSUME Typed, ServeRefresh
    PROVE  Typed'
<1>1. /\ shared # None /\ Judge(shared.token, "refresh")
      /\ UNCHANGED fixed /\ UNCHANGED storeVars /\ UNCHANGED calls
    BY DEF ServeRefresh
<1>2. ServerTypeOK' /\ tokens' = tokens
    BY <1>1, JudgeTyped DEF Typed
<1>3. RefreshOK'
  <2>1. CASE shared' = [shared EXCEPT !.pc = "sign", !.role = RoleRead]
    <3>1. /\ shared'.token = shared.token /\ shared'.result = shared.result
          /\ shared'.pc = "sign" /\ shared'.role = role /\ role \in Roles
        BY <1>1, <2>1, TheRefresh DEF Refresh, RoleRead, Typed, RoleOK
    <3>2. shared' \in Refresh
        BY <1>1, <2>1, <3>1, TheRefresh DEF Refresh
    <3>. QED BY <1>1, <1>2, <3>1, <3>2, TheRefresh DEF RefreshOK, SharedOK
  <2>2. CASE shared' = [shared EXCEPT !.pc = "done"]
      BY <1>1, <1>2, <2>2, TheRefresh DEF RefreshOK, SharedOK, Refresh
  <2>. QED BY <2>1, <2>2 DEF ServeRefresh
<1>. QED BY <1>1, <1>2, <1>3, FixedFrame DEF Typed

LEMMA RefreshFailsTyped ==
    ASSUME Typed, RefreshFails
    PROVE  Typed'
<1>1. /\ shared # None /\ shared' = [shared EXCEPT !.pc = "done"] /\ UNCHANGED serverVars
      /\ UNCHANGED fixed /\ UNCHANGED storeVars /\ UNCHANGED calls
    BY DEF RefreshFails
<1>2. ServerTypeOK' /\ tokens' = tokens
    BY <1>1, QuietFrame
<1>3. RefreshOK'
    BY <1>1, <1>2, TheRefresh DEF RefreshOK, SharedOK, Refresh
<1>. QED BY <1>1, <1>2, <1>3, FixedFrame DEF Typed

LEMMA SignSharedTyped ==
    ASSUME Typed, SignShared
    PROVE  Typed'
<1>1. /\ shared # None /\ shared.pc = "sign" /\ Sign(<<"access">>, shared.role)
      /\ UNCHANGED <<now, denylist, queued, redis, confirmed, honoured>>
      /\ UNCHANGED fixed /\ refresh' = refresh /\ UNCHANGED calls /\ access' = Newest
      /\ shared' = [shared EXCEPT !.pc = "done", !.result = Newest]
    BY DEF SignShared
<1>2. shared.role \in Roles /\ shared \in Refresh
    BY <1>1, TheRefresh DEF SharedOK
<1>3. /\ ServerTypeOK' /\ Len(tokens) \in Nat /\ Len(tokens') \in Nat
      /\ Len(tokens') = Len(tokens) + Len(<<"access">>) /\ Len(tokens') <= MaxTokens
      /\ AttemptsOK' /\ CallsOK' /\ LimitOK' /\ RoleOK'
    BY <1>1, <1>2, SignFrame DEF fixed, accountVars
<1>4. Len(tokens') = Len(tokens) + 1 /\ Newest = Len(tokens')
    BY <1>3 DEF Newest
<1>5. Newest \in Signed(Len(tokens')) /\ Newest \in Jtis
    BY <1>3, <1>4, SessionsAssumption DEF Signed, Jtis
<1>6. StoreOK'
    BY <1>1, <1>3, <1>4, <1>5, Growth DEF StoreOK, Typed
<1>7. RefreshOK'
  <2>1. /\ shared'.token = shared.token /\ shared'.result = Newest
        /\ shared'.pc = "done"
      BY <1>1, <1>2 DEF Refresh
  <2>2. shared' \in Refresh
    <3>. DEFINE e == [shared EXCEPT !.pc = "done"]
    <3>1. e \in Refresh /\ shared' = [e EXCEPT !.result = Newest]
        BY <1>1, <1>2 DEF Refresh
    <3>. HIDE DEF e
    <3>. QED BY <1>5, <3>1 DEF Refresh
  <2>3. shared.token \in 1..Len(tokens')
      BY <1>1, <1>3, <1>4, TheRefresh
  <2>. QED BY <1>5, <2>1, <2>2, <2>3 DEF RefreshOK, SharedOK
<1>. QED BY <1>3, <1>6, <1>7 DEF Typed

LEMMA ClearSharedTyped ==
    ASSUME Typed, ClearShared
    PROVE  Typed'
<1>1. /\ shared' = None /\ UNCHANGED serverVars
      /\ UNCHANGED fixed /\ UNCHANGED storeVars /\ UNCHANGED calls
    BY DEF ClearShared
<1>2. RefreshOK'
    BY <1>1 DEF RefreshOK
<1>. QED BY <1>1, <1>2, QuietFrame, FixedFrame DEF Typed

LEMMA ColdStartTyped ==
    ASSUME Typed, ColdStart
    PROVE  Typed'
<1>1. /\ UNCHANGED shared /\ UNCHANGED serverVars
      /\ UNCHANGED fixed /\ UNCHANGED storeVars /\ UNCHANGED calls
    BY DEF ColdStart
<1>. QED BY <1>1, QuietFrame, FixedFrame DEF Typed

-----------------------------------------------------------------------------
(* The steps of the tab.                                                   *)

LEMMA Tokens ==
    ASSUME Typed
    PROVE  /\ access \in Signed(Len(tokens)) /\ refresh \in Signed(Len(tokens))
           /\ None \in Signed(Len(tokens)) /\ calls \in [Calls -> Call \union {None}]
    BY DEF Typed, StoreOK, Signed, CallsOK

LEMMA StartTyped ==
    ASSUME Typed, NEW i \in Calls, NEW kind \in {"query", "write", "logout"}, Start(i, kind)
    PROVE  Typed'
<1>. DEFINE body == IF kind = "logout" THEN refresh ELSE None
<1>1. /\ UNCHANGED serverVars /\ UNCHANGED fixed /\ UNCHANGED storeVars /\ UNCHANGED shared
      /\ calls' = [calls EXCEPT ![i] = Sent(kind, access, body, FALSE)]
    BY DEF Start
<1>2. body \in Signed(Len(tokens)) /\ kind \in Kinds
    BY Tokens DEF Kinds
<1>. HIDE DEF body
<1>3. calls'[i] = Sent(kind, access, body, FALSE) /\ calls' = [calls EXCEPT ![i] = calls'[i]]
    BY <1>1, Tokens
<1>4. ServerTypeOK' /\ tokens' = tokens
    BY <1>1, QuietFrame
<1>5. CallsOK'
    BY <1>2, <1>3, <1>4, Tokens, OneSent
<1>. QED BY <1>1, <1>4, <1>5, FixedFrame DEF Typed

LEMMA ReloadTyped ==
    ASSUME Typed, Reload
    PROVE  Typed'
<1>1. /\ UNCHANGED serverVars /\ UNCHANGED fixed /\ UNCHANGED shared
      /\ access' = None /\ refresh' = refresh
    BY DEF Reload
<1>2. ServerTypeOK' /\ tokens' = tokens /\ Len(tokens) \in Nat /\ Len(tokens) <= MaxTokens
    BY <1>1, QuietFrame DEF Typed, ServerTypeOK
<1>3. StoreOK'
    BY <1>1, <1>2, Tokens DEF StoreOK
<1>4. CallsOK'
  <2>1. PICK i \in Calls : calls' = [j \in Calls |-> IF j = i /\ refresh # None
                           THEN Sent("restore", None, refresh, FALSE) ELSE None]
      BY CallsNoneAssumption DEF Reload
  <2>2. CallOK(Sent("restore", None, refresh, FALSE), Len(tokens))
      BY <1>2, Tokens, NewCall DEF Kinds
  <2>3. Sent("restore", None, refresh, FALSE) \in Call
      BY <2>2 DEF CallOK
  <2>. QED BY <1>2, <2>1, <2>2, <2>3 DEF CallsOK
<1>. QED BY <1>1, <1>2, <1>3, <1>4, FixedFrame DEF Typed

LEMMA RestoredTyped ==
    ASSUME Typed, NEW i \in Calls, Restored(i)
    PROVE  Typed'
<1>1. /\ calls[i] # None /\ UNCHANGED serverVars /\ UNCHANGED fixed /\ UNCHANGED shared
      /\ access' = calls[i].token /\ refresh' = refresh
      /\ calls' = [calls EXCEPT ![i] = Sent("me", access', None, FALSE)]
    BY DEF Restored
<1>2. ServerTypeOK' /\ tokens' = tokens
    BY <1>1, QuietFrame
<1>3. access' \in Signed(Len(tokens))
    BY <1>1, TheCall
<1>4. StoreOK'
    BY <1>1, <1>2, <1>3, Tokens DEF StoreOK
<1>5. calls'[i] = Sent("me", access', None, FALSE) /\ calls' = [calls EXCEPT ![i] = calls'[i]]
    BY <1>1, Tokens
<1>6. CallsOK'
    BY <1>2, <1>3, <1>5, Tokens, OneSent DEF Kinds
<1>. QED BY <1>1, <1>2, <1>4, <1>6, FixedFrame DEF Typed

LEMMA GoneOK ==
    ASSUME Typed, NEW i \in Calls, calls[i] # None, calls' = [calls EXCEPT ![i] = None],
           tokens' = tokens
    PROVE  CallsOK'
<1>1. calls'[i] = None /\ calls' = [calls EXCEPT ![i] = calls'[i]]
    BY Tokens
<1>. QED BY <1>1, OneCall

LEMMA SignedOutOK ==
    ASSUME SignedOut
    PROVE  StoreOK'
    BY DEF SignedOut, StoreOK, Signed

LEMMA FinishTyped ==
    ASSUME Typed, NEW i \in Calls, Finish(i)
    PROVE  Typed'
<1>1. /\ calls[i] # None /\ UNCHANGED serverVars /\ UNCHANGED fixed /\ UNCHANGED shared
      /\ Ends(i, calls[i].status)
    BY DEF Finish
<1>2. ServerTypeOK' /\ tokens' = tokens
    BY <1>1, QuietFrame
<1>3. CallsOK'
    BY <1>1, <1>2, GoneOK DEF Ends
<1>4. SignedOut \/ UNCHANGED <<access, refresh>>
    BY <1>1 DEF Ends, storeVars
<1>5. StoreOK'
    BY <1>1, <1>4, SignedOutOK, QuietFrame
<1>. QED BY <1>1, <1>2, <1>3, <1>5, FixedFrame DEF Typed

LEMMA LostTyped ==
    ASSUME Typed, NEW i \in Calls, Lost(i)
    PROVE  Typed'
<1>1. /\ calls[i] # None /\ UNCHANGED serverVars /\ UNCHANGED fixed /\ UNCHANGED shared
      /\ calls' = [calls EXCEPT ![i] = None] /\ SignedOut
    BY DEF Lost
<1>2. ServerTypeOK' /\ tokens' = tokens
    BY <1>1, QuietFrame
<1>. QED BY <1>1, <1>2, GoneOK, SignedOutOK, FixedFrame DEF Typed

LEMMA JoinTyped ==
    ASSUME Typed, NEW i \in Calls, Join(i)
    PROVE  Typed'
<1>1. /\ calls[i] # None /\ UNCHANGED serverVars /\ UNCHANGED fixed /\ UNCHANGED storeVars
      /\ Goes(i, "waiting") /\ refresh # None
    BY DEF Join, CanRefresh
<1>2. ServerTypeOK' /\ tokens' = tokens /\ Len(tokens) \in Nat /\ Len(tokens) <= MaxTokens
    BY <1>1, QuietFrame DEF Typed, ServerTypeOK
<1>3. CallsOK'
    BY <1>1, <1>2, GoesIs, OneCall
<1>4. RefreshOK'
  <2>1. CASE shared # None
      BY <2>1, <1>2, QuietFrame, <1>1 DEF Join
  <2>2. CASE shared = None
    <3>1. shared' = [pc |-> "sent", token |-> refresh, result |-> None, role |-> None]
        BY <2>2 DEF Join
    <3>2. refresh \in 1..Len(tokens)
        BY <1>1, Tokens DEF Signed
    <3>3. refresh \in Jtis
        BY <1>2, <3>2, SessionsAssumption DEF Jtis
    <3>. QED BY <1>2, <3>1, <3>2, <3>3 DEF RefreshOK, SharedOK, Refresh, Signed
  <2>. QED BY <2>1, <2>2
<1>. QED BY <1>1, <1>2, <1>3, <1>4, FixedFrame DEF Typed

LEMMA ReplayTyped ==
    ASSUME Typed, NEW i \in Calls, Replay(i)
    PROVE  Typed'
<1>1. /\ calls[i] # None /\ UNCHANGED serverVars /\ UNCHANGED fixed /\ UNCHANGED storeVars
      /\ UNCHANGED shared
      /\ calls' = [calls EXCEPT ![i] = Sent(calls[i].kind, access, calls[i].body, TRUE)]
    BY DEF Replay
<1>2. ServerTypeOK' /\ tokens' = tokens
    BY <1>1, QuietFrame
<1>3. /\ calls'[i] = Sent(calls[i].kind, access, calls[i].body, TRUE)
      /\ calls' = [calls EXCEPT ![i] = calls'[i]]
    BY <1>1, Tokens
<1>4. calls[i].kind \in Kinds /\ calls[i].body \in Signed(Len(tokens))
    BY <1>1, TheCall
<1>5. CallsOK'
  <2>. DEFINE kind == calls[i].kind
              body == calls[i].body
  <2>. HIDE DEF kind, body
  <2>1. calls'[i] = Sent(kind, access, body, TRUE) /\ kind \in Kinds /\ body \in Signed(Len(tokens))
      BY <1>3, <1>4 DEF kind, body
  <2>. QED BY <1>2, <1>3, <2>1, Tokens, OneSent
<1>. QED BY <1>1, <1>2, <1>5, FixedFrame DEF Typed

-----------------------------------------------------------------------------
(* Every reachable state is typed.                                         *)

LEMMA InitTyped ==
    ASSUME Init
    PROVE  Typed
<1>1. ServerTypeOK
    BY SessionsAssumption DEF Init, ServerInit, ServerTypeOK
<1>2. LimitOK /\ RoleOK /\ AttemptsOK
    BY DEF Init, AccountsInit, LimitOK, RoleOK, AttemptsOK, Roles
<1>3. StoreOK /\ CallsOK /\ RefreshOK
    BY DEF Init, StoreOK, Signed, CallsOK, RefreshOK
<1>. QED BY <1>1, <1>2, <1>3 DEF Typed

LEMMA NextTyped ==
    ASSUME Typed, Next
    PROVE  Typed'
<1>1. CASE Environment
    BY <1>1, EnvironmentTyped
<1>2. ASSUME NEW i \in Calls,
             Serve(i) \/ RevokeAccess(i) \/ RevokeRefresh(i) \/ SignRestored(i) \/ CallFails(i)
      PROVE  Typed'
    BY <1>2, ServeTyped, RevokeAccessTyped, RevokeRefreshTyped, SignRestoredTyped, CallFailsTyped
<1>3. ASSUME NEW a \in Attempts, Login(a) \/ Others(a)
      PROVE  Typed'
    BY <1>3, CountHitTyped, StampHitTyped, ReadUserTyped, IssueTokensTyped, OthersTyped DEF Login
<1>4. CASE ServeRefresh \/ SignShared \/ RefreshFails \/ Restart \/ Administration
    BY <1>4, ServeRefreshTyped, SignSharedTyped, RefreshFailsTyped, RestartTyped,
       AdministrationTyped
<1>5. CASE SignIn \/ SignedIn \/ Reload \/ ColdStart \/ ClearShared
    BY <1>5, SignInTyped, SignedInTyped, ReloadTyped, ColdStartTyped, ClearSharedTyped
<1>6. ASSUME NEW i \in Calls,
             \/ \E kind \in {"query", "write", "logout"} : Start(i, kind)
             \/ Restored(i) \/ Finish(i) \/ Join(i) \/ Lost(i) \/ Replay(i)
      PROVE  Typed'
    BY <1>6, StartTyped, RestoredTyped, FinishTyped, JoinTyped, LostTyped, ReplayTyped
<1>. QED BY <1>1, <1>2, <1>3, <1>4, <1>5, <1>6 DEF Next, Api, Tab

LEMMA StutterTyped ==
    ASSUME Typed, UNCHANGED vars
    PROVE  Typed'
<1>1. /\ UNCHANGED serverVars /\ UNCHANGED fixed /\ UNCHANGED storeVars /\ UNCHANGED shared
      /\ UNCHANGED calls
    BY DEF vars, fixed, clientVars
<1>. QED BY <1>1, QuietFrame, FixedFrame DEF Typed

-----------------------------------------------------------------------------
(* A revoked token is refused.                                             *)

\* What a step may do to the server's part of a session.
ServerMove ==
    \/ UNCHANGED serverVars
    \/ Tick \/ RedisDown \/ RedisUp
    \/ \E t \in Signed(Len(tokens)), k \in {"access", "refresh"} : Judge(t, k)
    \/ \E t \in Known : revokeToken(t)
    \/ /\ \E kinds \in {<<"access">>, <<"access", "refresh">>}, r \in Roles : Sign(kinds, r)
       /\ UNCHANGED <<now, denylist, queued, redis, confirmed, honoured>>
    \/ queued' = {} /\ UNCHANGED <<now, tokens, redis, denylist, confirmed, honoured>>

LEMMA NextMovesServer ==
    ASSUME Typed, Next
    PROVE  ServerMove
<1>1. CASE Environment
    BY <1>1 DEF Environment, ServerMove
<1>2. ASSUME NEW i \in Calls, Serve(i)
      PROVE  ServerMove
  <2>. DEFINE c == calls[i]
              t == IF c.kind = "restore" THEN c.body ELSE c.token
              k == IF c.kind = "restore" THEN "refresh" ELSE "access"
  <2>1. c # None /\ Judge(t, k)
      BY <1>2 DEF Serve
  <2>2. t \in Signed(Len(tokens)) /\ k \in {"access", "refresh"}
      BY <2>1, TheCall
  <2>. HIDE DEF t, k
  <2>. QED BY <2>1, <2>2 DEF ServerMove
<1>3. ASSUME NEW i \in Calls, RevokeAccess(i)
      PROVE  ServerMove
  <2>1. calls[i] # None /\ calls[i].pc = "revokeAccess" /\ revokeToken(calls[i].token)
      BY <1>3 DEF RevokeAccess
  <2>2. calls[i].token \in Known
      BY <2>1, TheCall DEF CallOK, Signed, Known
  <2>. QED BY <2>1, <2>2 DEF ServerMove
<1>4. ASSUME NEW i \in Calls, RevokeRefresh(i)
      PROVE  ServerMove
  <2>1. CASE Valid(calls[i].body, "refresh")
    <3>1. calls[i] # None /\ revokeToken(calls[i].body)
        BY <1>4, <2>1 DEF RevokeRefresh
    <3>2. calls[i].body \in Known
        BY <3>1, <2>1, TheCall DEF Valid, Signed, Known
    <3>. QED BY <3>1, <3>2 DEF ServerMove
  <2>2. CASE ~Valid(calls[i].body, "refresh")
      BY <1>4, <2>2 DEF RevokeRefresh, ServerMove
  <2>. QED BY <2>1, <2>2
<1>5. ASSUME NEW i \in Calls, SignRestored(i)
      PROVE  ServerMove
  <2>1. /\ calls[i] # None /\ calls[i].pc = "sign" /\ Sign(<<"access">>, calls[i].role)
        /\ UNCHANGED <<now, denylist, queued, redis, confirmed, honoured>>
      BY <1>5 DEF SignRestored
  <2>2. calls[i].role \in Roles
      BY <2>1, TheCall DEF CallOK
  <2>. QED BY <2>1, <2>2 DEF ServerMove
<1>6. CASE SignShared
  <2>1. /\ shared # None /\ shared.pc = "sign" /\ Sign(<<"access">>, shared.role)
        /\ UNCHANGED <<now, denylist, queued, redis, confirmed, honoured>>
      BY <1>6 DEF SignShared
  <2>2. shared.role \in Roles
      BY <2>1, TheRefresh DEF SharedOK
  <2>. QED BY <2>1, <2>2 DEF ServerMove
<1>7. CASE ServeRefresh
  <2>1. shared # None /\ Judge(shared.token, "refresh")
      BY <1>7 DEF ServeRefresh
  <2>2. shared.token \in Signed(Len(tokens))
      BY <2>1, TheRefresh DEF Signed
  <2>. QED BY <2>1, <2>2 DEF ServerMove
<1>8. ASSUME NEW a \in Attempts, IssueTokens(a)
      PROVE  ServerMove
  <2>1. /\ attempts[a] # None /\ attempts[a].pc = "sign"
        /\ Sign(<<"access", "refresh">>, attempts[a].role)
        /\ UNCHANGED <<now, denylist, queued, redis, confirmed, honoured>>
      BY <1>8 DEF IssueTokens
  <2>2. attempts[a].role \in Roles
      BY <2>1 DEF AttemptOK, Typed, AttemptsOK
  <2>. QED BY <2>1, <2>2 DEF ServerMove
<1>9. CASE Restart
    BY <1>9 DEF Restart, RestartAttempts, ServerMove
<1>10. ASSUME UNCHANGED serverVars
       PROVE  ServerMove
    BY <1>10 DEF ServerMove
<1>11. ASSUME NEW i \in Calls,
              \/ CallFails(i) \/ \E kind \in {"query", "write", "logout"} : Start(i, kind)
              \/ Restored(i) \/ Finish(i) \/ Join(i) \/ Lost(i) \/ Replay(i)
       PROVE  UNCHANGED serverVars
    BY <1>11 DEF CallFails, Start, Restored, Finish, Join, Lost, Replay
<1>12. ASSUME NEW a \in Attempts, CountHit(a) \/ StampHit(a) \/ ReadUser(a) \/ Others(a)
       PROVE  UNCHANGED serverVars
    BY <1>12 DEF CountHit, StampHit, ReadUser, Others
<1>13. ASSUME RefreshFails \/ Administration \/ SignIn \/ SignedIn \/ Reload \/ ColdStart
                \/ ClearShared
       PROVE  UNCHANGED serverVars
    BY <1>13 DEF RefreshFails, Administration, ReadTarget, WriteRole, PromoteInDatabase,
                 SignIn, SignedIn, Reload, ColdStart, ClearShared
<1>. QED BY <1>1, <1>2, <1>3, <1>4, <1>5, <1>6, <1>7, <1>8, <1>9, <1>10, <1>11, <1>12, <1>13
         DEF Next, Api, Tab, Login

\* An entry, or a command that waits, covers the rest of its token's life.
Covered ==
    /\ confirmed \subseteq Known
    /\ \A t \in confirmed : Ticks * tokens[t].exp <= denylist[t]
    /\ \A q \in queued : q[1] \in Known /\ Ticks * tokens[q[1]].exp <= now + Ticks * q[2]
    /\ honoured = {}

\* A token that is valid has not expired by the tick either.
LEMMA ValidIsEarly ==
    ASSUME ServerTypeOK, NEW t \in Known, NEW k, Valid(t, k)
    PROVE  now < Ticks * tokens[t].exp /\ tokens[t].exp \in Nat /\ now \in Nat
<1>1. now \in Nat /\ tokens[t].exp \in Nat
    BY Lengths, KnownToken DEF Token
<1>2. now \div Ticks < tokens[t].exp
    BY DEF Valid, Second
<1>3. now <= Ticks * (now \div Ticks) + 3 /\ now \div Ticks \in Nat
    BY <1>1
<1>. QED BY <1>1, <1>2, <1>3

LEMMA NextCovered ==
    ASSUME Typed, Covered, ServerMove
    PROVE  Covered'
<1>1. /\ ServerTypeOK /\ now \in Nat /\ Len(tokens) \in Nat
      /\ denylist \in [Jtis -> Nat] /\ queued \subseteq (Jtis \X Nat)
      /\ \A t \in Known : t \in Jtis /\ tokens[t].exp \in Nat
    BY Lengths, KnownToken DEF Typed, ServerTypeOK, Token
<1>2. CASE UNCHANGED serverVars
    BY <1>2 DEF serverVars, Covered, Known
<1>3. CASE Tick
    BY <1>1, <1>3 DEF Tick, Covered, Known
<1>4. CASE RedisDown
    BY <1>4 DEF RedisDown, Covered, Known
<1>5. CASE RedisUp
  <2>1. UNCHANGED <<now, tokens, confirmed, honoured>> /\ queued' = {}
      BY <1>5 DEF RedisUp
  <2>2. ASSUME NEW t \in confirmed
        PROVE  Ticks * tokens[t].exp <= denylist'[t]
    <3>1. t \in Jtis /\ Ticks * tokens[t].exp <= denylist[t]
        BY <1>1 DEF Covered
    <3>2. CASE \E q \in queued : q[1] = t
      <4>1. PICK q \in queued : q[1] = t /\ q = (CHOOSE p \in queued : p[1] = t)
          BY <3>2
      <4>2. denylist'[t] = now + Ticks * q[2]
          BY <1>5, <3>1, <3>2, <4>1 DEF RedisUp
      <4>. QED BY <4>1, <4>2 DEF Covered
    <3>3. CASE ~\E q \in queued : q[1] = t
        BY <1>5, <3>1, <3>3 DEF RedisUp
    <3>. QED BY <3>2, <3>3
  <2>. QED BY <2>1, <2>2 DEF Covered, Known
<1>6. ASSUME NEW t \in Signed(Len(tokens)), NEW k \in {"access", "refresh"}, Judge(t, k)
      PROVE  Covered'
  <2>1. UNCHANGED <<now, tokens, denylist, queued, confirmed>>
      BY <1>6 DEF Judge, others
  <2>2. honoured' = {}
    <3>1. CASE Verdict(t, k) = 200
      <4>1. Valid(t, k) /\ t # None /\ ~Denied(t)
          BY <3>1, Verdicts
      <4>2. t \in Known
          BY <4>1 DEF Signed, Known
      <4>3. t \notin confirmed
        <5>. SUFFICES ASSUME t \in confirmed PROVE FALSE
            OBVIOUS
        <5>1. Ticks * tokens[t].exp <= denylist[t] /\ denylist[t] \in Nat
            BY <1>1, <4>2 DEF Covered
        <5>2. ~(now < denylist[t]) /\ now < Ticks * tokens[t].exp
            BY <1>1, <4>1, <4>2, ValidIsEarly DEF Denied
        <5>. QED BY <1>1, <4>2, <5>1, <5>2
      <4>. QED BY <1>6, <3>1, <4>3 DEF Judge, Covered
    <3>2. CASE Verdict(t, k) # 200
        BY <1>6, <3>2 DEF Judge, Covered
    <3>. QED BY <3>1, <3>2
  <2>. QED BY <2>1, <2>2 DEF Covered, Known
<1>7. ASSUME NEW t \in Known, revokeToken(t)
      PROVE  Covered'
  <2>. DEFINE ttl == secondsUntilExpiry(t)
  <2>1. UNCHANGED <<now, tokens, honoured>> /\ t \in Jtis /\ tokens[t].exp \in Nat
      BY <1>1, <1>7 DEF revokeToken, others
  <2>2. ttl \in Nat /\ Ticks * tokens[t].exp <= now + Ticks * ttl
    <3>1. Second \in Nat /\ Ticks * Second <= now
        BY <1>1 DEF Second
    <3>2. ttl = IF tokens[t].exp - Second > 0 THEN tokens[t].exp - Second ELSE 0
        BY DEF secondsUntilExpiry
    <3>. QED BY <1>1, <2>1, <3>1, <3>2
  <2>. HIDE DEF ttl
  <2>3. CASE UNCHANGED <<denylist, queued, confirmed>>
      BY <2>1, <2>3 DEF Covered, Known
  <2>4. CASE /\ denylist' = [denylist EXCEPT ![t] = now + Ticks * ttl]
             /\ confirmed' = confirmed \union {t} /\ queued' = queued
    <3>1. \A u \in confirmed' : Ticks * tokens[u].exp <= denylist'[u]
        BY <1>1, <2>1, <2>2, <2>4 DEF Covered
    <3>. QED BY <2>1, <2>4, <3>1 DEF Covered, Known
  <2>5. CASE queued' = queued \union {<<t, ttl>>} /\ UNCHANGED <<denylist, confirmed>>
      BY <2>1, <2>2, <2>5 DEF Covered, Known
  <2>. QED BY <1>7, <2>3, <2>4, <2>5 DEF revokeToken, ttl
<1>8. ASSUME NEW kinds \in {<<"access">>, <<"access", "refresh">>}, NEW r \in Roles, Sign(kinds, r),
             UNCHANGED <<now, denylist, queued, redis, confirmed, honoured>>
      PROVE  Covered'
  <2>1. Len(tokens') = Len(tokens) + Len(kinds) /\ \A t \in Known : tokens'[t] = tokens[t]
      BY <1>1, <1>8, SignAdds
  <2>2. Len(kinds) \in Nat
      OBVIOUS
  <2>3. Known \subseteq Known'
      BY <1>1, <2>1, <2>2 DEF Known
  <2>. QED BY <1>8, <2>1, <2>3 DEF Covered
<1>9. CASE queued' = {} /\ UNCHANGED <<now, tokens, redis, denylist, confirmed, honoured>>
    BY <1>9 DEF Covered, Known
<1>. QED BY <1>2, <1>3, <1>4, <1>5, <1>6, <1>7, <1>8, <1>9 DEF ServerMove

-----------------------------------------------------------------------------

LEMMA InitCovered ==
    ASSUME Init
    PROVE  Covered
    BY DEF Init, ServerInit, Covered

LEMMA StutterCovered ==
    ASSUME Covered, UNCHANGED vars
    PROVE  Covered'
    BY DEF vars, serverVars, Covered, Known

\* Every reachable state of a tab and the API is typed: tokens, calls, sign-ins,
\* the shared refresh, the limiter's counter and the role are what the code
\* makes them, and every token in use is one that has been signed.
THEOREM TypeCorrect == Spec => []Typed
<1>1. Init => Typed
    BY InitTyped
<1>2. Typed /\ [Next]_vars => Typed'
    BY NextTyped, StutterTyped
<1>. QED BY <1>1, <1>2, PTL DEF Spec

\* isTokenRevoked: a token whose revocation succeeded is never accepted again,
\* through any number of outages of Redis and at any point of a second, for every
\* life of the tokens.
THEOREM RevokedStaysRefused == Spec => []RevokedIsRefused
<1>1. Init => Covered
    BY InitCovered
<1>2. Typed /\ Covered /\ [Next]_vars => Covered'
    BY NextMovesServer, NextCovered, StutterCovered
<1>3. Covered => RevokedIsRefused
    BY DEF Covered, RevokedIsRefused
<1>. QED BY <1>1, <1>2, <1>3, TypeCorrect, PTL DEF Spec

-----------------------------------------------------------------------------
(* A Retry-After is kept.                                                  *)

limiter == <<now, counter, told>>

\* Who has been told a time has been told one that covers the window, but for
\* what TTL rounded away.
ToldCovers == told # 0 => ~Live \/ (counter.expires # 0 /\ counter.expires <= told + Ticks \div 2)

\* What a step may do to the limiter's window.
LimiterMove ==
    \/ UNCHANGED limiter
    \/ Tick /\ UNCHANGED <<counter, told>>
    \/ RedisUp /\ LateCommands
    \/ \E a \in Attempts : CountHit(a) \/ StampHit(a)

LEMMA NextMovesLimiter ==
    ASSUME Typed, Next
    PROVE  LimiterMove
<1>1. CASE Environment
    BY <1>1 DEF Environment, accountVars, limitVars, RedisDown, LimiterMove, limiter
<1>2. ASSUME NEW i \in Calls,
             Serve(i) \/ RevokeAccess(i) \/ RevokeRefresh(i) \/ SignRestored(i) \/ CallFails(i)
      PROVE  UNCHANGED limiter
    BY <1>2 DEF Serve, Gate, RevokeAccess, RevokeRefresh, SignRestored, CallFails, Judge,
                revokeToken, others, serverVars, fixed, accountVars, limitVars, limiter
<1>3. ASSUME NEW a \in Attempts, Login(a) \/ Others(a)
      PROVE  LimiterMove
    BY <1>3 DEF Login, ReadUser, IssueTokens, Others, serverVars, limitVars, limiter, LimiterMove
<1>4. CASE ServeRefresh \/ SignShared \/ RefreshFails \/ Restart \/ Administration
  <2>1. UNCHANGED limiter
      BY <1>4 DEF ServeRefresh, SignShared, RefreshFails, Restart, RestartAttempts, Administration,
                  ReadTarget, WriteRole, PromoteInDatabase, Judge, others, serverVars, fixed,
                  accountVars, limitVars, limiter
  <2>. QED BY <2>1 DEF LimiterMove
<1>5. CASE SignIn \/ SignedIn \/ Reload \/ ColdStart \/ ClearShared
  <2>1. UNCHANGED limiter
      BY <1>5 DEF SignIn, SignedIn, Reload, ColdStart, ClearShared, serverVars, fixed,
                  accountVars, limitVars, limiter
  <2>. QED BY <2>1 DEF LimiterMove
<1>6. ASSUME NEW i \in Calls,
             \/ \E kind \in {"query", "write", "logout"} : Start(i, kind)
             \/ Restored(i) \/ Finish(i) \/ Join(i) \/ Lost(i) \/ Replay(i)
      PROVE  UNCHANGED limiter
    BY <1>6 DEF Start, Restored, Finish, Join, Lost, Replay, serverVars, fixed, accountVars,
                limitVars, limiter
<1>. QED BY <1>1, <1>2, <1>3, <1>4, <1>5, <1>6 DEF Next, Api, Tab, LimiterMove

LEMMA CountHitCovers ==
    ASSUME Typed, ToldCovers, NEW a \in Attempts, CountHit(a)
    PROVE  ToldCovers'
<1>. DEFINE hits == IF Live THEN counter.hits + 1 ELSE 1
<1>1. /\ now \in Nat /\ now' = now /\ counter.expires \in Nat /\ KeyTTL \in Int
      /\ 0 <= KeyTTL => Live /\ counter.expires # 0 /\ counter.expires <= now + Ticks * KeyTTL + Ticks \div 2
      /\ KeyTTL < 0 /\ Live => counter.expires = 0
    BY KeyTTLCovers, Lengths DEF Typed, LimitOK, CountHit, serverVars
<1>2. CASE ~redis
    BY <1>1, <1>2 DEF CountHit, ToldCovers, Live
<1>3. CASE redis /\ NeedsStamp(hits, KeyTTL)
  <2>1. told' = 0
      BY <1>1, <1>3 DEF CountHit, NeedsStamp, ToldCovers
  <2>. QED BY <2>1 DEF ToldCovers
<1>4. CASE redis /\ ~NeedsStamp(hits, KeyTTL)
  <2>1. Live /\ counter.expires # 0 /\ counter.expires <= now + Ticks * KeyTTL + Ticks \div 2
      BY <1>1, <1>4 DEF NeedsStamp
  <2>2. counter'.expires = counter.expires /\ Decide(a, hits, KeyTTL)
      BY <1>4, <2>1 DEF CountHit
  <2>3. told' = now + Ticks * KeyTTL \/ told' = told
      BY <2>2 DEF Decide
  <2>. QED BY <2>1, <2>2, <2>3 DEF ToldCovers
<1>. QED BY <1>2, <1>3, <1>4

LEMMA StampHitCovers ==
    ASSUME Typed, ToldCovers, NEW a \in Attempts, StampHit(a)
    PROVE  ToldCovers'
<1>1. now \in Nat /\ now' = now /\ Window \in Nat \ {0}
    BY Lengths, AccountsAssumption DEF Typed, StampHit, serverVars
<1>2. CASE ~redis
    BY <1>1, <1>2 DEF StampHit, ToldCovers, Live
<1>3. CASE redis
  <2>1. counter' = Stamped /\ (told' = 0 \/ told' = now + Ticks * Window)
      BY <1>3 DEF StampHit, Decide
  <2>2. CASE Live
    <3>1. counter'.expires = now + Ticks * Window
        BY <2>1, <2>2 DEF Stamped, LimitOK, Typed
    <3>. QED BY <1>1, <2>1, <3>1 DEF ToldCovers
  <2>3. CASE ~Live
      BY <1>1, <2>1, <2>3 DEF Stamped, ToldCovers, Live
  <2>. QED BY <2>2, <2>3
<1>. QED BY <1>2, <1>3

LEMMA LateCommandsCover ==
    ASSUME Typed, ToldCovers, LateCommands, now' = now
    PROVE  ToldCovers'
<1>. DEFINE hits == (IF Live THEN counter.hits ELSE 0) + lateHits
<1>1. counter \in [hits : Nat, expires : Nat] /\ lateHits \in Nat
    BY DEF Typed, LimitOK
<1>2. CASE lateStamp \/ (lateHits > 0 /\ ~Live)
    BY <1>2 DEF LateCommands, ToldCovers
<1>3. CASE ~lateStamp /\ ~(lateHits > 0 /\ ~Live)
  <2>1. told' = told /\ counter' = [hits |-> hits, expires |-> IF Live THEN counter.expires ELSE 0]
      BY <1>3 DEF LateCommands
  <2>2. CASE Live
      BY <2>1, <2>2 DEF ToldCovers
  <2>3. CASE ~Live
    <3>1. counter'.hits = 0
        BY <1>1, <1>3, <2>1, <2>3
    <3>. QED BY <3>1 DEF ToldCovers, Live
  <2>. QED BY <2>2, <2>3
<1>. QED BY <1>2, <1>3

LEMMA NextCovers ==
    ASSUME Typed, ToldCovers, LimiterMove
    PROVE  ToldCovers'
<1>1. now \in Nat /\ counter.expires \in Nat
    BY Lengths DEF Typed, LimitOK
<1>2. CASE UNCHANGED limiter
    BY <1>2 DEF limiter, ToldCovers, Live
<1>3. CASE Tick /\ UNCHANGED <<counter, told>>
    BY <1>1, <1>3 DEF Tick, ToldCovers, Live
<1>4. CASE RedisUp /\ LateCommands
    BY <1>4, LateCommandsCover DEF RedisUp
<1>. QED BY <1>2, <1>3, <1>4, CountHitCovers, StampHitCovers DEF LimiterMove

\* The limiter: whoever is refused and waits for as long as Retry-After says,
\* and the half second it may be short of, finds that window over, for every
\* window, limit and number of sign-ins, though Redis or the process died between
\* INCR and EXPIRE.
THEOREM RetryAfterIsKept == Spec => []RetryAfterIsHonest
<1>1. Init => ToldCovers
    BY DEF Init, AccountsInit, ToldCovers
<1>2. Typed /\ ToldCovers /\ [Next]_vars => ToldCovers'
  <2>1. ASSUME ToldCovers, UNCHANGED vars PROVE ToldCovers'
      BY <2>1 DEF vars, serverVars, accountVars, limitVars, ToldCovers, Live
  <2>. QED BY <2>1, NextMovesLimiter, NextCovers
<1>3. Typed /\ ToldCovers => RetryAfterIsHonest
  <2>1. ASSUME Typed PROVE now \in Nat /\ counter.expires \in Nat /\ told \in Nat
      BY <2>1, Lengths DEF Typed, LimitOK
  <2>. QED BY <2>1 DEF ToldCovers, RetryAfterIsHonest, Live
<1>. QED BY <1>1, <1>2, <1>3, TypeCorrect, PTL DEF Spec

-----------------------------------------------------------------------------
(* The cold-start notice is about a call.                                  *)

\* A call that goes on is still a call.
LEMMA StaysACall ==
    ASSUME NEW n \in Nat, NEW c, CallOK(c, n)
    PROVE  /\ \A s \in {0, 200, 401, 403, 503} : WithStatus(c, s) # None
           /\ \A r \in Roles : WithRole(c, r) # None
           /\ c.token # None => WithPc(c, "revokeAccess") # None
           /\ WithPc(c, "revokeRefresh") # None /\ WithPc(c, "waiting") # None
<1>1. \A x : CallOK(x, n) => x # None
    BY CallsNoneAssumption DEF CallOK
<1>. QED BY <1>1, CallGoesOn

LEMMA AnsweredStays ==
    ASSUME Typed, NEW i \in Calls, calls[i] # None, NEW s \in {0, 200, 401, 403, 503}, Answer(i, s)
    PROVE  calls'[i] # None
<1>1. Len(tokens) \in Nat /\ CallOK(calls[i], Len(tokens))
    BY TheCall, Lengths DEF Typed
<1>. QED BY <1>1, AnswerIs, StaysACall

LEMMA GoesStays ==
    ASSUME Typed, NEW i \in Calls, calls[i] # None,
           NEW pc \in {"revokeAccess", "revokeRefresh", "waiting"}, Goes(i, pc),
           pc = "revokeAccess" => calls[i].token # None
    PROVE  calls'[i] # None
<1>1. Len(tokens) \in Nat /\ CallOK(calls[i], Len(tokens))
    BY TheCall, Lengths DEF Typed
<1>. QED BY <1>1, GoesIs, StaysACall

LEMMA SentStays ==
    ASSUME Typed, NEW kind \in Kinds, NEW token \in Signed(Len(tokens)),
           NEW body \in Signed(Len(tokens)), NEW again \in BOOLEAN
    PROVE  Sent(kind, token, body, again) # None
<1>1. Len(tokens) \in Nat /\ Len(tokens) <= MaxTokens
    BY DEF Typed, ServerTypeOK
<1>2. CallOK(Sent(kind, token, body, again), Len(tokens))
    BY <1>1, NewCall
<1>. QED BY <1>2, CallsNoneAssumption DEF CallOK

\* What a step may do to the calls under way and to the notice about them.
ColdMove ==
    \/ UNCHANGED <<calls, coldVars>>
    \/ \E i \in Calls : calls'[i] # None
    \/ \E i \in Calls : calls[i] # None /\ calls' = [calls EXCEPT ![i] = None] /\ requestFinished(i)
    \/ Quiet
    \/ ColdStart

LEMMA ServeStays ==
    ASSUME Typed, NEW i \in Calls, Serve(i)
    PROVE  calls'[i] # None
<1>. DEFINE c == calls[i]
            t == IF c.kind = "restore" THEN c.body ELSE c.token
            k == IF c.kind = "restore" THEN "refresh" ELSE "access"
<1>1. c # None
    BY DEF Serve
<1>2. CASE Verdict(t, k) # 200
    BY <1>1, <1>2, Verdicts, AnsweredStays DEF Serve
<1>3. CASE Verdict(t, k) = 200 /\ c.kind = "restore"
  <2>1. calls' = [calls EXCEPT ![i] = [@ EXCEPT !.pc = "sign", !.role = RoleRead]]
      BY <1>3 DEF Serve
  <2>2. calls'[i] = WithRole(calls[i], role) /\ role \in Roles
      BY <2>1 DEF WithRole, RoleRead, Typed, CallsOK, RoleOK
  <2>3. Len(tokens) \in Nat /\ CallOK(calls[i], Len(tokens))
      BY <1>1, TheCall, Lengths DEF Typed
  <2>. QED BY <2>2, <2>3, StaysACall
<1>4. CASE Verdict(t, k) = 200 /\ c.kind = "logout"
  <2>1. Goes(i, "revokeAccess") /\ t = c.token
      BY <1>4 DEF Serve
  <2>2. c.token # None
      BY <1>4, <2>1, Verdicts
  <2>. QED BY <1>1, <2>1, <2>2, GoesStays
<1>5. CASE Verdict(t, k) = 200 /\ c.kind \notin {"restore", "logout"}
  <2>1. Answer(i, 200) \/ Answer(i, 403)
      BY <1>5 DEF Serve
  <2>. QED BY <1>1, <2>1, AnsweredStays
<1>. QED BY <1>2, <1>3, <1>4, <1>5

LEMMA SignRestoredStays ==
    ASSUME Typed, NEW i \in Calls, SignRestored(i)
    PROVE  calls'[i] # None
<1>1. /\ calls[i] # None /\ calls[i].pc = "sign" /\ Sign(<<"access">>, calls[i].role)
      /\ UNCHANGED <<now, denylist, queued, redis, confirmed, honoured>>
    BY DEF SignRestored
<1>2. /\ calls[i].role \in Roles /\ CallOK(calls[i], Len(tokens)) /\ Len(tokens) \in Nat
      /\ calls \in [Calls -> Call \union {None}]
    BY <1>1, TheCall, Lengths DEF CallOK, Typed
<1>3. ServerTypeOK' /\ Len(tokens') = Len(tokens) + Len(<<"access">>)
    BY <1>1, <1>2, SignAdds DEF Typed
<1>4. Newest \in Jtis
    BY <1>2, <1>3, SessionsAssumption DEF Newest, Jtis, ServerTypeOK
<1>5. WithStatus(calls[i], 200) \in Call
    BY <1>2, CallGoesOn DEF CallOK
<1>6. calls'[i] = [WithStatus(calls[i], 200) EXCEPT !.token = Newest]
    BY <1>2 DEF SignRestored, WithStatus
<1>7. calls'[i] \in Call
    BY <1>4, <1>5, <1>6 DEF Call
<1>. QED BY <1>7, CallsNoneAssumption

LEMMA RequestStays ==
    ASSUME Typed, NEW i \in Calls,
           RevokeAccess(i) \/ RevokeRefresh(i) \/ CallFails(i) \/ Join(i)
    PROVE  calls'[i] # None
<1>1. calls[i] # None
    BY DEF RevokeAccess, RevokeRefresh, CallFails, Join
<1>2. \/ \E s \in {0, 200, 503} : Answer(i, s)
      \/ Goes(i, "revokeRefresh") \/ Goes(i, "waiting")
    BY DEF RevokeAccess, RevokeRefresh, CallFails, Join
<1>. QED BY <1>1, <1>2, AnsweredStays, GoesStays

LEMMA SentRequestStays ==
    ASSUME Typed, NEW i \in Calls,
           \/ \E kind \in {"query", "write", "logout"} : Start(i, kind)
           \/ Restored(i) \/ Replay(i)
    PROVE  calls'[i] # None
<1>1. ASSUME NEW kind \in {"query", "write", "logout"}, Start(i, kind)
      PROVE  calls'[i] # None
  <2>1. calls'[i] = Sent(kind, access, IF kind = "logout" THEN refresh ELSE None, FALSE)
      BY <1>1, Tokens DEF Start
  <2>. QED BY <2>1, Tokens, SentStays DEF Kinds
<1>2. CASE Restored(i)
  <2>. DEFINE token == calls[i].token
  <2>1. calls[i] # None /\ calls'[i] = Sent("me", token, None, FALSE)
      BY <1>2, Tokens DEF Restored
  <2>2. token \in Signed(Len(tokens))
      BY <2>1, TheCall
  <2>. HIDE DEF token
  <2>. QED BY <2>1, <2>2, Tokens, SentStays DEF Kinds
<1>3. CASE Replay(i)
  <2>. DEFINE kind == calls[i].kind
              body == calls[i].body
  <2>1. calls[i] # None /\ calls'[i] = Sent(kind, access, body, TRUE)
      BY <1>3, Tokens DEF Replay
  <2>2. kind \in Kinds /\ body \in Signed(Len(tokens))
      BY <2>1, TheCall
  <2>. HIDE DEF kind, body
  <2>. QED BY <2>1, <2>2, Tokens, SentStays
<1>. QED BY <1>1, <1>2, <1>3

LEMMA NextMovesCold ==
    ASSUME Typed, Next
    PROVE  ColdMove
<1>1. ASSUME NEW i \in Calls,
             Serve(i) \/ RevokeAccess(i) \/ RevokeRefresh(i) \/ SignRestored(i) \/ CallFails(i)
      PROVE  ColdMove
    BY <1>1, ServeStays, RequestStays, SignRestoredStays DEF ColdMove
<1>2. ASSUME NEW i \in Calls,
             \/ \E kind \in {"query", "write", "logout"} : Start(i, kind)
             \/ Restored(i) \/ Join(i) \/ Replay(i)
      PROVE  ColdMove
    BY <1>2, SentRequestStays, RequestStays DEF ColdMove
<1>3. ASSUME NEW i \in Calls, Finish(i) \/ Lost(i)
      PROVE  ColdMove
    BY <1>3 DEF Finish, Ends, Lost, ColdMove
<1>4. CASE Reload
  <2>1. PICK i \in Calls : /\ calls' = [j \in Calls |-> IF j = i /\ refresh # None
                                 THEN Sent("restore", None, refresh, FALSE) ELSE None]
                           /\ coldTimer' = (IF refresh # None THEN "running" ELSE "none")
                           /\ isCold' = FALSE
      BY <1>4, CallsNoneAssumption DEF Reload
  <2>2. CASE refresh # None
    <3>1. calls'[i] = Sent("restore", None, refresh, FALSE)
        BY <2>1, <2>2
    <3>2. calls'[i] # None
        BY <3>1, Tokens, SentStays DEF Kinds
    <3>. QED BY <3>2 DEF ColdMove
  <2>3. CASE refresh = None
      BY <2>1, <2>3 DEF ColdMove, Quiet
  <2>. QED BY <2>2, <2>3
<1>5. CASE \/ Environment \/ ServeRefresh \/ SignShared \/ RefreshFails \/ Restart \/ Administration
           \/ SignIn \/ SignedIn \/ ClearShared
  <2>1. UNCHANGED <<calls, coldVars>>
      BY <1>5 DEF Environment, ServeRefresh, SignShared, RefreshFails, Restart, Administration,
                  SignIn, SignedIn, ClearShared, clientVars
  <2>. QED BY <2>1 DEF ColdMove
<1>6. ASSUME NEW a \in Attempts, Login(a) \/ Others(a)
      PROVE  ColdMove
    BY <1>6 DEF Login, Others, clientVars, ColdMove
<1>. QED BY <1>1, <1>2, <1>3, <1>4, <1>5, <1>6 DEF Next, Api, Tab, ColdMove

LEMMA NextColdOnlyInFlight ==
    ASSUME Typed, ColdOnlyInFlight, ColdMove
    PROVE  ColdOnlyInFlight'
<1>1. CASE UNCHANGED <<calls, coldVars>>
    BY <1>1 DEF ColdOnlyInFlight, InFlight, coldVars
<1>2. CASE \E i \in Calls : calls'[i] # None
    BY <1>2 DEF ColdOnlyInFlight, InFlight
<1>3. ASSUME NEW i \in Calls, calls[i] # None, calls' = [calls EXCEPT ![i] = None],
             requestFinished(i)
      PROVE  ColdOnlyInFlight'
  <2>1. CASE InFlight = {i}
      BY <1>3, <2>1 DEF requestFinished, Quiet, ColdOnlyInFlight
  <2>2. CASE InFlight # {i}
    <3>1. PICK j \in Calls : j # i /\ calls[j] # None
        BY <1>3, <2>2 DEF InFlight
    <3>2. calls'[j] # None
        BY <1>3, <3>1, Tokens
    <3>. QED BY <3>2 DEF ColdOnlyInFlight, InFlight
  <2>. QED BY <2>1, <2>2
<1>4. CASE Quiet
    BY <1>4 DEF Quiet, ColdOnlyInFlight
<1>5. CASE ColdStart
    BY <1>5 DEF ColdStart, ColdOnlyInFlight, InFlight
<1>. QED BY <1>1, <1>2, <1>3, <1>4, <1>5 DEF ColdMove

\* The cold-start signal: the notice never outlasts the calls it is about, nor
\* starts after them, for any number of calls however they overlap, are
\* refreshed, replayed, lost or dropped by a reload.
THEOREM ColdIsAboutACall == Spec => []ColdOnlyInFlight
<1>1. Init => ColdOnlyInFlight
    BY DEF Init, ColdOnlyInFlight
<1>2. Typed /\ ColdOnlyInFlight /\ [Next]_vars => ColdOnlyInFlight'
  <2>1. ASSUME ColdOnlyInFlight, UNCHANGED vars PROVE ColdOnlyInFlight'
      BY <2>1 DEF vars, clientVars, coldVars, ColdOnlyInFlight, InFlight
  <2>. QED BY <2>1, NextMovesCold, NextColdOnlyInFlight
<1>. QED BY <1>1, <1>2, TypeCorrect, PTL DEF Spec

-----------------------------------------------------------------------------
(* A demotion takes effect.                                                *)

SignIns   == {attempts[a].role : a \in Signing}
Restores  == {calls[i].role : i \in {j \in InFlight : calls[j].pc = "sign"}}
Refreshes == IF shared # None /\ shared.pc = "sign" THEN {shared.role} ELSE {}

LEMMA UnsignedParts ==
    Unsigned = SignIns \union Restores \union Refreshes
    BY DEF Unsigned, SignIns, Restores, Refreshes

\* Only a role that is read joins those that wait for a signature.
Reads == Unsigned' \subseteq Unsigned \union {role}

\* What is no longer, or was never, about to be signed.
Harmless(x) == x = None \/ x.pc # "sign" \/ x.role = role

LEMMA FrameReads ==
    ASSUME UNCHANGED <<attempts, calls, shared>>
    PROVE  Reads
    BY DEF Reads, Unsigned, Signing, InFlight

LEMMA AttemptReads ==
    ASSUME Typed, NEW a \in Attempts, UNCHANGED <<calls, shared>>,
           attempts' = [attempts EXCEPT ![a] = attempts'[a]], Harmless(attempts'[a])
    PROVE  Reads
<1>1. Restores' = Restores /\ Refreshes' = Refreshes
    BY DEF Restores, Refreshes, InFlight
<1>2. ASSUME NEW r \in SignIns'
      PROVE  r \in SignIns \union {role}
  <2>1. PICK b \in Attempts : attempts'[b] # None /\ attempts'[b].pc = "sign" /\ r = attempts'[b].role
      BY <1>2 DEF SignIns, Signing
  <2>2. CASE b = a
      BY <2>1, <2>2 DEF Harmless
  <2>3. CASE b # a
    <3>1. attempts'[b] = attempts[b]
        BY <2>3 DEF Typed, AttemptsOK
    <3>. QED BY <2>1, <3>1 DEF SignIns, Signing
  <2>. QED BY <2>2, <2>3
<1>3. Unsigned = SignIns \union Restores \union Refreshes
      /\ Unsigned' = SignIns' \union Restores' \union Refreshes'
    BY DEF Unsigned, SignIns, Restores, Refreshes
<1>. QED BY <1>1, <1>2, <1>3 DEF Reads

LEMMA CallReads ==
    ASSUME Typed, NEW i \in Calls, UNCHANGED <<attempts, shared>>,
           calls' = [calls EXCEPT ![i] = calls'[i]], Harmless(calls'[i])
    PROVE  Reads
<1>1. SignIns' = SignIns /\ Refreshes' = Refreshes
    BY DEF SignIns, Refreshes, Signing
<1>2. ASSUME NEW r \in Restores'
      PROVE  r \in Restores \union {role}
  <2>1. PICK j \in Calls : calls'[j] # None /\ calls'[j].pc = "sign" /\ r = calls'[j].role
      BY <1>2 DEF Restores, InFlight
  <2>2. CASE j = i
      BY <2>1, <2>2 DEF Harmless
  <2>3. CASE j # i
    <3>1. calls'[j] = calls[j]
        BY <2>3 DEF Typed, CallsOK
    <3>. QED BY <2>1, <3>1 DEF Restores, InFlight
  <2>. QED BY <2>2, <2>3
<1>3. Unsigned = SignIns \union Restores \union Refreshes
      /\ Unsigned' = SignIns' \union Restores' \union Refreshes'
    BY DEF Unsigned, SignIns, Restores, Refreshes
<1>. QED BY <1>1, <1>2, <1>3 DEF Reads

LEMMA SharedReads ==
    ASSUME UNCHANGED <<attempts, calls>>, Harmless(shared')
    PROVE  Reads
<1>1. SignIns' = SignIns /\ Restores' = Restores
    BY DEF SignIns, Restores, Signing, InFlight
<1>2. Refreshes' \subseteq {role}
    BY DEF Refreshes, Harmless
<1>3. Unsigned = SignIns \union Restores \union Refreshes
      /\ Unsigned' = SignIns' \union Restores' \union Refreshes'
    BY DEF Unsigned, SignIns, Restores, Refreshes
<1>. QED BY <1>1, <1>2, <1>3 DEF Reads

\* The roles that wait for a signature are roles.
LEMMA UnsignedRoles ==
    ASSUME Typed
    PROVE  Unsigned \subseteq Roles
<1>1. SignIns \subseteq Roles
    BY DEF SignIns, Signing, Typed, AttemptsOK, AttemptOK
<1>2. Restores \subseteq Roles
    BY DEF Restores, InFlight, Typed, CallsOK, CallOK
<1>3. Refreshes \subseteq Roles
    BY DEF Refreshes, Typed, RefreshOK, SharedOK
<1>. QED BY <1>1, <1>2, <1>3, UnsignedParts

\* The token that is signed, if one is, has a role that waited for it.
TokenMove ==
    \/ tokens' = tokens /\ now' \in Nat /\ now <= now'
    \/ /\ \E kinds \in {<<"access">>, <<"access", "refresh">>}, r \in Unsigned : Sign(kinds, r)
       /\ UNCHANGED <<now, denylist, queued, redis, confirmed, honoured>>

\* What a step may do to the role and to the tokens that carry one.
RoleMove ==
    \/ UNCHANGED roleVars /\ Reads /\ TokenMove
    \/ UNCHANGED serverVars /\ Unsigned' = Unsigned /\ Administration
    \/ UNCHANGED <<now, tokens>> /\ Reads /\ \E t \in Known : Valid(t, "access") /\ Gate(t)

LEMMA PcOfAttempt ==
    ASSUME Typed, NEW a \in Attempts, attempts[a] # None
    PROVE  /\ attempts[a] \in Attempt /\ attempts \in [Attempts -> Attempt \union {None}]
           /\ \A s : Harmless(WithStatus(attempts[a], s))
           /\ \A n : Harmless(WithHits(attempts[a], n))
           /\ Harmless(WithPc(attempts[a], "read"))
           /\ Harmless(WithRole(attempts[a], role))
<1>. attempts[a] \in Attempt /\ attempts \in [Attempts -> Attempt \union {None}]
    BY DEF Typed, AttemptsOK
<1>1. ASSUME NEW s PROVE Harmless(WithStatus(attempts[a], s))
  <2>1. WithStatus(attempts[a], s).pc = "answered"
      BY DEF WithStatus, Attempt
  <2>. QED BY <2>1 DEF Harmless
<1>2. ASSUME NEW n PROVE Harmless(WithHits(attempts[a], n))
  <2>1. WithHits(attempts[a], n).pc = "stamp"
      BY DEF WithHits, Attempt
  <2>. QED BY <2>1 DEF Harmless
<1>3. Harmless(WithPc(attempts[a], "read"))
  <2>1. WithPc(attempts[a], "read").pc = "read"
      BY DEF WithPc, Attempt
  <2>. QED BY <2>1 DEF Harmless
<1>4. Harmless(WithRole(attempts[a], role))
  <2>1. WithRole(attempts[a], role).role = role
      BY DEF WithRole, Attempt
  <2>. QED BY <2>1 DEF Harmless
<1>. QED BY <1>1, <1>2, <1>3, <1>4

LEMMA PcOfCall ==
    ASSUME Typed, NEW i \in Calls, calls[i] # None
    PROVE  /\ calls[i] \in Call /\ calls \in [Calls -> Call \union {None}]
           /\ \A s : Harmless(WithStatus(calls[i], s))
           /\ \A pc \in {"revokeAccess", "revokeRefresh", "waiting"} : Harmless(WithPc(calls[i], pc))
           /\ Harmless(WithRole(calls[i], role))
<1>. calls[i] \in Call /\ calls \in [Calls -> Call \union {None}]
    BY TheCall
<1>1. ASSUME NEW s PROVE Harmless(WithStatus(calls[i], s))
  <2>1. WithStatus(calls[i], s).pc = "answered"
      BY DEF WithStatus, Call
  <2>. QED BY <2>1 DEF Harmless
<1>2. ASSUME NEW pc \in {"revokeAccess", "revokeRefresh", "waiting"}
      PROVE  Harmless(WithPc(calls[i], pc))
  <2>1. WithPc(calls[i], pc).pc = pc
      BY DEF WithPc, Call
  <2>. QED BY <2>1 DEF Harmless
<1>3. Harmless(WithRole(calls[i], role))
  <2>1. WithRole(calls[i], role).role = role
      BY DEF WithRole, Call
  <2>. QED BY <2>1 DEF Harmless
<1>. QED BY <1>1, <1>2, <1>3

LEMMA LoginMoves ==
    ASSUME Typed, NEW a \in Attempts, CountHit(a) \/ StampHit(a) \/ ReadUser(a), UNCHANGED clientVars
    PROVE  RoleMove
<1>1. UNCHANGED serverVars /\ UNCHANGED roleVars /\ attempts[a] # None /\ now \in Nat
    BY Lengths DEF CountHit, StampHit, ReadUser, Typed
<1>. DEFINE hits == IF Live THEN counter.hits + 1 ELSE 1
<1>. HIDE DEF hits
<1>2. \/ \E s \in {401, 429} : EndsWith(a, s)
      \/ GoesOn(a, "read")
      \/ attempts' = [attempts EXCEPT ![a] = [@ EXCEPT !.pc = "stamp", !.hits = hits]]
      \/ attempts' = [attempts EXCEPT ![a] = [@ EXCEPT !.pc = "sign", !.role = role]]
    BY DEF CountHit, StampHit, ReadUser, Decide, RoleRead, hits
<1>3. PICK x : Harmless(x) /\ attempts' = [attempts EXCEPT ![a] = x]
  <2>1. ASSUME NEW s \in {401, 429}, EndsWith(a, s)
        PROVE  attempts' = [attempts EXCEPT ![a] = WithStatus(attempts[a], s)]
      BY <2>1 DEF EndsWith, WithStatus
  <2>2. ASSUME GoesOn(a, "read")
        PROVE  attempts' = [attempts EXCEPT ![a] = WithPc(attempts[a], "read")]
      BY <2>2 DEF GoesOn, WithPc
  <2>3. ASSUME attempts' = [attempts EXCEPT ![a] = [@ EXCEPT !.pc = "stamp", !.hits = hits]]
        PROVE  attempts' = [attempts EXCEPT ![a] = WithHits(attempts[a], hits)]
      BY <2>3 DEF WithHits
  <2>4. ASSUME attempts' = [attempts EXCEPT ![a] = [@ EXCEPT !.pc = "sign", !.role = role]]
        PROVE  attempts' = [attempts EXCEPT ![a] = WithRole(attempts[a], role)]
      BY <2>4 DEF WithRole
  <2>. QED BY <1>1, <1>2, <2>1, <2>2, <2>3, <2>4, PcOfAttempt
<1>5. attempts'[a] = x /\ attempts' = [attempts EXCEPT ![a] = attempts'[a]]
    BY <1>1, <1>3, PcOfAttempt
<1>4. Reads
    BY <1>3, <1>5, AttemptReads, Client
<1>. QED BY <1>1, <1>4 DEF RoleMove, TokenMove, serverVars

LEMMA IssueTokensMoves ==
    ASSUME Typed, NEW a \in Attempts, IssueTokens(a), UNCHANGED clientVars
    PROVE  RoleMove
<1>1. /\ attempts[a] # None /\ attempts[a].pc = "sign" /\ UNCHANGED roleVars
      /\ Sign(<<"access", "refresh">>, attempts[a].role)
      /\ UNCHANGED <<now, denylist, queued, redis, confirmed, honoured>>
    BY DEF IssueTokens
<1>2. attempts[a].role \in Unsigned
    BY <1>1, UnsignedParts DEF SignIns, Signing
<1>3. attempts'[a] = WithStatus(attempts[a], 200) /\ attempts' = [attempts EXCEPT ![a] = attempts'[a]]
    BY <1>1, PcOfAttempt DEF WithStatus, IssueTokens, EndsWith
<1>4. Reads
    BY <1>1, <1>3, PcOfAttempt, AttemptReads, Client
<1>. QED BY <1>1, <1>2, <1>4 DEF RoleMove, TokenMove

\* A sign-in is sent, ends or is forgotten.
LEMMA OthersMoves ==
    ASSUME Typed, NEW a \in Attempts,
           \/ \E pc \in {"count", "read"} : SendAttempt(a, pc)
           \/ attempts[a] # None /\ EndsWith(a, 200)
           \/ attempts[a] # None /\ attempts' = [attempts EXCEPT ![a] = None],
           UNCHANGED serverVars, UNCHANGED roleVars, UNCHANGED <<calls, shared>>
    PROVE  RoleMove
<1>1. attempts \in [Attempts -> Attempt \union {None}] /\ now \in Nat
    BY Lengths DEF Typed, AttemptsOK
<1>2. Harmless(attempts'[a]) /\ attempts' = [attempts EXCEPT ![a] = attempts'[a]]
  <2>1. ASSUME NEW pc \in {"count", "read"}, SendAttempt(a, pc)
        PROVE  attempts'[a].pc = pc /\ attempts' = [attempts EXCEPT ![a] = attempts'[a]]
      BY <1>1, <2>1 DEF SendAttempt
  <2>2. ASSUME attempts[a] # None, EndsWith(a, 200)
        PROVE  attempts'[a] = WithStatus(attempts[a], 200) /\ attempts' = [attempts EXCEPT ![a] = attempts'[a]]
      BY <1>1, <2>2 DEF WithStatus, EndsWith
  <2>3. ASSUME attempts' = [attempts EXCEPT ![a] = None]
        PROVE  attempts'[a] = None /\ attempts' = [attempts EXCEPT ![a] = attempts'[a]]
      BY <1>1, <2>3
  <2>. QED BY <2>1, <2>2, <2>3, PcOfAttempt DEF Harmless
<1>3. Reads
    BY <1>2, AttemptReads
<1>. QED BY <1>1, <1>3 DEF RoleMove, TokenMove, serverVars

LEMMA ServeMoves ==
    ASSUME Typed, NEW i \in Calls, Serve(i)
    PROVE  RoleMove
<1>. DEFINE c == calls[i]
            t == IF c.kind = "restore" THEN c.body ELSE c.token
            k == IF c.kind = "restore" THEN "refresh" ELSE "access"
<1>1. /\ c # None /\ UNCHANGED <<now, tokens>> /\ UNCHANGED attempts /\ UNCHANGED shared
      /\ now \in Nat /\ t \in Signed(Len(tokens))
    BY TheCall, Lengths DEF Serve, Judge, others, Gate, accountVars, Typed
<1>2. PICK x : Harmless(x) /\ calls' = [calls EXCEPT ![i] = x]
  <2>1. CASE Verdict(t, k) # 200
    <3>1. calls' = [calls EXCEPT ![i] = WithStatus(calls[i], Verdict(t, k))]
        BY <2>1 DEF Serve, Answer, WithStatus
    <3>. QED BY <1>1, <3>1, PcOfCall
  <2>2. CASE Verdict(t, k) = 200 /\ c.kind = "restore"
    <3>1. calls' = [calls EXCEPT ![i] = WithRole(calls[i], role)]
        BY <2>2 DEF Serve, WithRole, RoleRead
    <3>. QED BY <1>1, <3>1, PcOfCall
  <2>3. CASE Verdict(t, k) = 200 /\ c.kind = "logout"
    <3>1. calls' = [calls EXCEPT ![i] = WithPc(calls[i], "revokeAccess")]
        BY <2>3 DEF Serve, Goes, WithPc
    <3>. QED BY <1>1, <3>1, PcOfCall
  <2>4. CASE Verdict(t, k) = 200 /\ c.kind \notin {"restore", "logout"}
    <3>1. Answer(i, 200) \/ Answer(i, 403)
        BY <2>4 DEF Serve
    <3>2. PICK s \in {200, 403} : calls' = [calls EXCEPT ![i] = WithStatus(calls[i], s)]
        BY <3>1 DEF Answer, WithStatus
    <3>3. Harmless(WithStatus(calls[i], s))
        BY <1>1, PcOfCall
    <3>. QED BY <3>2, <3>3
  <2>. QED BY <2>1, <2>2, <2>3, <2>4
<1>3. calls'[i] = x /\ calls' = [calls EXCEPT ![i] = calls'[i]]
    BY <1>1, <1>2, PcOfCall
<1>4. Reads
    BY <1>1, <1>2, <1>3, CallReads
<1>5. CASE c.kind = "write" /\ Verdict(t, k) = 200
  <2>1. Gate(t) /\ t # None /\ Valid(t, "access")
      BY <1>5, Verdicts DEF Serve
  <2>2. t \in Known
      BY <1>1, <2>1 DEF Signed, Known
  <2>. HIDE DEF t
  <2>. QED BY <1>1, <1>4, <2>1, <2>2 DEF RoleMove
<1>6. CASE ~(c.kind = "write" /\ Verdict(t, k) = 200)
  <2>1. UNCHANGED roleVars
      BY <1>6 DEF Serve, accountVars
  <2>. QED BY <1>1, <1>4, <2>1 DEF RoleMove, TokenMove
<1>. QED BY <1>5, <1>6

\* A call goes on with what cannot be signed, or ends.
LEMMA RequestMoves ==
    ASSUME Typed, NEW i \in Calls,
           \/ RevokeAccess(i) \/ RevokeRefresh(i) \/ CallFails(i) \/ Replay(i) \/ Restored(i)
           \/ Finish(i) \/ Lost(i) \/ \E kind \in {"query", "write", "logout"} : Start(i, kind)
    PROVE  RoleMove
<1>1. /\ UNCHANGED <<now, tokens>> /\ UNCHANGED fixed /\ UNCHANGED shared
      /\ now \in Nat /\ calls \in [Calls -> Call \union {None}]
    BY Lengths, Tokens DEF RevokeAccess, RevokeRefresh, CallFails, Replay, Restored, Finish, Lost,
       Start, revokeToken, others, serverVars, Typed
<1>2. PICK x : Harmless(x) /\ calls' = [calls EXCEPT ![i] = x]
  <2>1. CASE RevokeAccess(i) \/ RevokeRefresh(i) \/ CallFails(i)
    <3>1. calls[i] # None
        BY <2>1 DEF RevokeAccess, RevokeRefresh, CallFails
    <3>2. (\E s \in {0, 200, 503} : Answer(i, s)) \/ Goes(i, "revokeRefresh")
        BY <2>1 DEF RevokeAccess, RevokeRefresh, CallFails
    <3>3. \/ \E s \in {0, 200, 503} : calls' = [calls EXCEPT ![i] = WithStatus(calls[i], s)]
          \/ calls' = [calls EXCEPT ![i] = WithPc(calls[i], "revokeRefresh")]
        BY <3>2 DEF Answer, Goes, WithStatus, WithPc
    <3>. QED BY <3>1, <3>3, PcOfCall
  <2>2. CASE Replay(i) \/ Restored(i) \/ \E kind \in {"query", "write", "logout"} : Start(i, kind)
    <3>1. \A kind, token, body, again : Harmless(Sent(kind, token, body, again))
      <4>. SUFFICES ASSUME NEW kind, NEW token, NEW body, NEW again
                    PROVE  Sent(kind, token, body, again).pc = "sent"
          BY DEF Harmless
      <4>. QED BY DEF Sent
    <3>2. ASSUME Replay(i)
          PROVE  calls' = [calls EXCEPT ![i] = Sent(calls[i].kind, access, calls[i].body, TRUE)]
        BY <3>2 DEF Replay
    <3>3. ASSUME Restored(i)
          PROVE  calls' = [calls EXCEPT ![i] = Sent("me", access', None, FALSE)]
        BY <3>3 DEF Restored
    <3>4. ASSUME NEW kind \in {"query", "write", "logout"}, Start(i, kind)
          PROVE  calls' = [calls EXCEPT ![i] =
                    Sent(kind, access, IF kind = "logout" THEN refresh ELSE None, FALSE)]
        BY <3>4 DEF Start
    <3>. QED BY <2>2, <3>1, <3>2, <3>3, <3>4
  <2>3. CASE Finish(i) \/ Lost(i)
    <3>1. calls' = [calls EXCEPT ![i] = None]
        BY <2>3 DEF Finish, Ends, Lost
    <3>. QED BY <3>1 DEF Harmless
  <2>. QED BY <2>1, <2>2, <2>3
<1>3. calls'[i] = x /\ calls' = [calls EXCEPT ![i] = calls'[i]]
    BY <1>1, <1>2
<1>4. UNCHANGED attempts /\ UNCHANGED roleVars
    BY <1>1 DEF fixed, accountVars
<1>5. Reads
    BY <1>1, <1>2, <1>3, <1>4, CallReads
<1>. QED BY <1>1, <1>4, <1>5 DEF RoleMove, TokenMove

\* A 401 waits for the shared refresh, which it starts if there is none.
LEMMA JoinMoves ==
    ASSUME Typed, NEW i \in Calls, Join(i)
    PROVE  RoleMove
<1>1. /\ UNCHANGED <<now, tokens>> /\ UNCHANGED fixed /\ now \in Nat /\ calls[i] # None
      /\ Goes(i, "waiting")
    BY Lengths DEF Join, serverVars, Typed
<1>2. UNCHANGED attempts /\ UNCHANGED roleVars
    BY <1>1 DEF fixed, accountVars
<1>3. SignIns' = SignIns
    BY <1>2 DEF SignIns, Signing
<1>4. Restores' \subseteq Restores
  <2>1. calls' = [calls EXCEPT ![i] = WithPc(calls[i], "waiting")]
      BY <1>1 DEF Goes, WithPc
  <2>2. calls'[i] = WithPc(calls[i], "waiting") /\ \A j \in Calls \ {i} : calls'[j] = calls[j]
      BY <1>1, <2>1, PcOfCall
  <2>3. WithPc(calls[i], "waiting").pc = "waiting"
      BY <1>1, PcOfCall DEF WithPc, Call
  <2>. QED BY <2>2, <2>3 DEF Restores, InFlight
<1>5. Refreshes' \subseteq Refreshes
  <2>1. shared # None => shared' = shared
      BY DEF Join
  <2>2. shared = None => shared'.pc = "sent"
      BY DEF Join
  <2>. QED BY <2>1, <2>2 DEF Refreshes
<1>6. Unsigned = SignIns \union Restores \union Refreshes
      /\ Unsigned' = SignIns' \union Restores' \union Refreshes'
    BY DEF Unsigned, SignIns, Restores, Refreshes
<1>. QED BY <1>1, <1>2, <1>3, <1>4, <1>5, <1>6 DEF RoleMove, TokenMove, Reads

LEMMA SignRestoredMoves ==
    ASSUME Typed, NEW i \in Calls, SignRestored(i)
    PROVE  RoleMove
<1>1. /\ calls[i] # None /\ calls[i].pc = "sign" /\ Sign(<<"access">>, calls[i].role)
      /\ UNCHANGED <<now, denylist, queued, redis, confirmed, honoured>>
      /\ UNCHANGED attempts /\ UNCHANGED roleVars /\ UNCHANGED shared
    BY DEF SignRestored, fixed, accountVars
<1>2. calls[i].role \in Unsigned
    BY <1>1, UnsignedParts DEF Restores, InFlight
<1>3. calls'[i] = WithToken(calls[i], Newest) /\ calls' = [calls EXCEPT ![i] = calls'[i]]
    BY <1>1, PcOfCall DEF SignRestored, WithToken
<1>4. WithToken(calls[i], Newest).pc = "answered"
    BY <1>1, PcOfCall DEF WithToken, Call
<1>5. Reads
    BY <1>1, <1>3, <1>4, CallReads DEF Harmless
<1>. QED BY <1>1, <1>2, <1>5 DEF RoleMove, TokenMove

LEMMA RefreshMoves ==
    ASSUME Typed, ServeRefresh \/ SignShared \/ RefreshFails \/ ClearShared
    PROVE  RoleMove
<1>1. /\ UNCHANGED attempts /\ UNCHANGED roleVars /\ UNCHANGED calls /\ now' = now /\ now \in Nat
    BY Lengths DEF ServeRefresh, SignShared, RefreshFails, ClearShared, Judge, others, serverVars,
       fixed, accountVars, Typed
<1>2. Harmless(shared')
  <2>1. CASE shared' = None
      BY <2>1 DEF Harmless
  <2>2. CASE shared # None /\ shared' = [shared EXCEPT !.pc = "sign", !.role = RoleRead]
    <3>1. shared'.role = role
        BY <2>2, TheRefresh DEF Refresh, RoleRead
    <3>. QED BY <3>1 DEF Harmless
  <2>3. CASE shared # None /\ shared' = [shared EXCEPT !.pc = "done"]
    <3>1. shared'.pc = "done"
        BY <2>3, TheRefresh DEF Refresh
    <3>. QED BY <3>1 DEF Harmless
  <2>4. CASE shared # None /\ shared' = [shared EXCEPT !.pc = "done", !.result = Newest]
    <3>1. shared'.pc = "done"
        BY <2>4, TheRefresh DEF Refresh
    <3>. QED BY <3>1 DEF Harmless
  <2>. QED BY <2>1, <2>2, <2>3, <2>4 DEF ServeRefresh, SignShared, RefreshFails, ClearShared
<1>3. Reads
    BY <1>1, <1>2, SharedReads
<1>4. TokenMove
  <2>1. CASE SignShared
    <3>1. shared.role \in Unsigned
        BY <2>1, UnsignedParts DEF SignShared, Refreshes
    <3>. QED BY <2>1, <3>1 DEF SignShared, TokenMove
  <2>2. CASE ServeRefresh \/ RefreshFails \/ ClearShared
      BY <1>1, <2>2 DEF ServeRefresh, RefreshFails, ClearShared, Judge, others, serverVars, TokenMove
  <2>. QED BY <2>1, <2>2
<1>. QED BY <1>1, <1>3, <1>4 DEF RoleMove

LEMMA RestartMoves ==
    ASSUME Typed, Restart
    PROVE  RoleMove
<1>1. /\ UNCHANGED <<now, tokens, roleVars>> /\ UNCHANGED calls /\ UNCHANGED shared /\ now \in Nat
      /\ attempts' = [a \in Attempts |->
             IF attempts[a] # None /\ attempts[a].pc # "answered"
             THEN WithStatus(attempts[a], 0) ELSE attempts[a]]
    BY Lengths DEF Restart, RestartAttempts, clientVars, WithStatus, Typed
<1>2. SignIns' \subseteq SignIns
  <2>1. SUFFICES ASSUME NEW a \in Attempts, attempts'[a] # None, attempts'[a].pc = "sign"
                 PROVE  attempts[a] # None /\ attempts[a].pc = "sign" /\ attempts'[a] = attempts[a]
      BY DEF SignIns, Signing
  <2>2. ASSUME attempts[a] # None
        PROVE  WithStatus(attempts[a], 0).pc = "answered"
    <3>1. attempts[a] \in Attempt
        BY <2>2, PcOfAttempt
    <3>. QED BY <3>1 DEF WithStatus, Attempt
  <2>. QED BY <1>1, <2>1, <2>2
<1>3. Restores' = Restores /\ Refreshes' = Refreshes
    BY <1>1 DEF Restores, Refreshes, InFlight
<1>4. Unsigned = SignIns \union Restores \union Refreshes
      /\ Unsigned' = SignIns' \union Restores' \union Refreshes'
    BY DEF Unsigned, SignIns, Restores, Refreshes
<1>. QED BY <1>1, <1>2, <1>3, <1>4 DEF RoleMove, TokenMove, Reads

LEMMA ReloadMoves ==
    ASSUME Typed, Reload
    PROVE  RoleMove
<1>1. /\ UNCHANGED <<now, tokens>> /\ UNCHANGED attempts /\ UNCHANGED roleVars /\ UNCHANGED shared
      /\ now \in Nat
    BY Lengths DEF Reload, serverVars, fixed, accountVars, Typed
<1>2. Restores' = {}
  <2>1. PICK i \in Calls : calls' = [j \in Calls |-> IF j = i /\ refresh # None
                               THEN Sent("restore", None, refresh, FALSE) ELSE None]
      BY CallsNoneAssumption DEF Reload
  <2>2. Sent("restore", None, refresh, FALSE).pc = "sent"
      BY DEF Sent
  <2>. QED BY <2>1, <2>2 DEF Restores, InFlight
<1>3. SignIns' = SignIns /\ Refreshes' = Refreshes
    BY <1>1 DEF SignIns, Refreshes, Signing
<1>4. Unsigned = SignIns \union Restores \union Refreshes
      /\ Unsigned' = SignIns' \union Restores' \union Refreshes'
    BY DEF Unsigned, SignIns, Restores, Refreshes
<1>. QED BY <1>1, <1>2, <1>3, <1>4 DEF RoleMove, TokenMove, Reads

LEMMA EnvironmentMoves ==
    ASSUME Typed, Environment \/ ColdStart \/ UNCHANGED vars
    PROVE  RoleMove
<1>1. UNCHANGED roleVars /\ UNCHANGED <<attempts, calls, shared>> /\ tokens' = tokens
    BY DEF Environment, Tick, RedisDown, RedisUp, ColdStart, vars, serverVars, fixed, accountVars,
           clientVars
<1>2. now \in Nat /\ (now' = now \/ now' = now + 1)
    BY Lengths DEF Environment, Tick, RedisDown, RedisUp, ColdStart, vars, serverVars, Typed
<1>. QED BY <1>1, <1>2, FrameReads DEF RoleMove, TokenMove

LEMMA NextMovesRole ==
    ASSUME Typed, [Next]_vars
    PROVE  RoleMove
<1>1. CASE Environment \/ ColdStart \/ UNCHANGED vars
    BY <1>1, EnvironmentMoves
<1>2. ASSUME NEW i \in Calls,
             \/ Serve(i) \/ RevokeAccess(i) \/ RevokeRefresh(i) \/ SignRestored(i) \/ CallFails(i)
             \/ \E kind \in {"query", "write", "logout"} : Start(i, kind)
             \/ Restored(i) \/ Finish(i) \/ Join(i) \/ Lost(i) \/ Replay(i)
      PROVE  RoleMove
    BY <1>2, ServeMoves, RequestMoves, SignRestoredMoves, JoinMoves
<1>3. CASE ServeRefresh \/ SignShared \/ RefreshFails \/ ClearShared
    BY <1>3, RefreshMoves
<1>4. CASE Restart \/ Reload
    BY <1>4, RestartMoves, ReloadMoves
<1>5. CASE Administration
  <2>1. UNCHANGED serverVars /\ UNCHANGED <<attempts, calls, shared>>
      BY <1>5 DEF Administration, ReadTarget, WriteRole, PromoteInDatabase, clientVars
  <2>2. Unsigned' = Unsigned
      BY <2>1 DEF Unsigned, Signing, InFlight
  <2>. QED BY <1>5, <2>1, <2>2 DEF RoleMove
<1>6. ASSUME NEW a \in Attempts, Login(a)
      PROVE  RoleMove
    BY <1>6, LoginMoves, IssueTokensMoves DEF Login
<1>7. ASSUME NEW a \in Attempts, Others(a)
      PROVE  RoleMove
  <2>1. UNCHANGED serverVars /\ UNCHANGED roleVars /\ UNCHANGED <<calls, shared>>
      BY <1>7 DEF Others, clientVars
  <2>2. \/ \E pc \in {"count", "read"} : SendAttempt(a, pc)
        \/ attempts[a] # None /\ EndsWith(a, 200)
        \/ attempts[a] # None /\ attempts' = [attempts EXCEPT ![a] = None]
      BY <1>7 DEF Others
  <2>. QED BY <2>1, <2>2, OthersMoves
<1>8. CASE SignIn \/ SignedIn
  <2>1. UNCHANGED serverVars /\ UNCHANGED roleVars /\ UNCHANGED <<calls, shared>>
      BY <1>8 DEF SignIn, SignedIn, clientVars
  <2>2. \/ \E pc \in {"count", "read"} : SendAttempt(Mine, pc)
        \/ attempts[Mine] # None /\ attempts' = [attempts EXCEPT ![Mine] = None]
      BY <1>8 DEF SignIn, SignedIn
  <2>. QED BY <2>1, <2>2, MineIsOne, OthersMoves
<1>. QED BY <1>1, <1>2, <1>3, <1>4, <1>5, <1>6, <1>7, <1>8 DEF Next, Api, Tab

\* Access tokens of a role that may write are those that had been signed when
\* the account was demoted, unless a signature was on its way.
Demoted ==
    /\ \A t \in Known : tokens[t].kind = "access" => Ticks * tokens[t].exp <= now + Ticks * AccessTTL
    /\ ~CanWrite(role) /\ ~raced =>
          /\ \A r \in Unsigned : ~CanWrite(r)
          /\ \A t \in Known : tokens[t].kind = "access" /\ CanWrite(tokens[t].role)
                                 => Ticks * tokens[t].exp <= demotedAt + Ticks * AccessTTL
    /\ ~outlived

LEMMA TokensDemoted ==
    ASSUME Typed, Demoted, UNCHANGED roleVars, Reads, TokenMove
    PROVE  Demoted'
<1>1. /\ ServerTypeOK /\ now \in Nat /\ AccessTTL \in Nat /\ Len(tokens) \in Nat
      /\ UNCHANGED <<role, raced, outlived, demotedAt>>
      /\ \A t \in Known : tokens[t].exp \in Nat
    BY SessionsAssumption, Lengths, KnownToken DEF roleVars, Typed, Token
<1>2. ~CanWrite(role) /\ ~raced => \A r \in Unsigned' : ~CanWrite(r)
    BY DEF Demoted, Reads
<1>3. CASE tokens' = tokens /\ now' \in Nat /\ now <= now'
  <2>1. Known' = Known
      BY <1>3 DEF Known
  <2>2. \A t \in Known' : tokens'[t].kind = "access" => Ticks * tokens'[t].exp <= now' + Ticks * AccessTTL
      BY <1>1, <1>3, <2>1 DEF Demoted
  <2>3. ~CanWrite(role') /\ ~raced' =>
          \A t \in Known' : tokens'[t].kind = "access" /\ CanWrite(tokens'[t].role)
                                 => Ticks * tokens'[t].exp <= demotedAt' + Ticks * AccessTTL
      BY <1>1, <1>3, <2>1 DEF Demoted
  <2>. QED BY <1>1, <1>2, <2>2, <2>3 DEF Demoted
<1>4. ASSUME NEW kinds \in {<<"access">>, <<"access", "refresh">>}, NEW r \in Unsigned, Sign(kinds, r),
             UNCHANGED <<now, denylist, queued, redis, confirmed, honoured>>
      PROVE  Demoted'
  <2>1. r \in Roles
      BY UnsignedRoles
  <2>2. /\ \A t \in Known : tokens'[t] = tokens[t]
        /\ \A t \in Known' \ Known : /\ tokens'[t].exp = Second + TTL(tokens'[t].kind)
                                     /\ tokens'[t].kind = "access" => tokens'[t].role = r
      BY <1>1, <1>4, <2>1, SignAdds
  <2>3. Second \in Nat /\ Ticks * Second <= now
      BY <1>1 DEF Second
  <2>4. ASSUME NEW t \in Known', tokens'[t].kind = "access"
        PROVE  Ticks * tokens'[t].exp <= now' + Ticks * AccessTTL
    <3>1. CASE t \in Known
        BY <1>4, <2>2, <2>4, <3>1 DEF Demoted
    <3>2. CASE t \notin Known
      <4>1. tokens'[t].exp = Second + AccessTTL
          BY <2>2, <2>4, <3>2 DEF TTL
      <4>. QED BY <1>1, <1>4, <2>3, <4>1
    <3>. QED BY <3>1, <3>2
  <2>5. ASSUME ~CanWrite(role), ~raced, NEW t \in Known', tokens'[t].kind = "access",
               CanWrite(tokens'[t].role)
        PROVE  Ticks * tokens'[t].exp <= demotedAt + Ticks * AccessTTL
    <3>1. CASE t \in Known
        BY <2>2, <2>5, <3>1 DEF Demoted
    <3>2. CASE t \notin Known
        BY <2>2, <2>5, <3>2 DEF Demoted
    <3>. QED BY <3>1, <3>2
  <2>. QED BY <1>1, <1>2, <2>4, <2>5 DEF Demoted
<1>. QED BY <1>3, <1>4 DEF TokenMove

LEMMA AdministrationDemoted ==
    ASSUME Typed, Demoted, UNCHANGED serverVars, Unsigned' = Unsigned, Administration
    PROVE  Demoted'
<1>1. UNCHANGED <<now, tokens, outlived>> /\ Known' = Known
    BY DEF serverVars, Known, Administration, ReadTarget, WriteRole, PromoteInDatabase
<1>2. ASSUME NEW to \in Roles, ReadTarget(to)
      PROVE  Demoted'
    BY <1>1, <1>2 DEF ReadTarget, Demoted
<1>3. CASE PromoteInDatabase
  <2>1. CanWrite(role')
      BY <1>3 DEF PromoteInDatabase, CanWrite
  <2>. QED BY <1>1, <2>1 DEF Demoted
<1>4. CASE WriteRole(Unsigned)
  <2>1. CASE CanWrite(change)
      BY <1>1, <1>4, <2>1 DEF WriteRole, Demoted
  <2>2. CASE ~CanWrite(change) /\ CanWrite(role)
    <3>1. demotedAt' = now /\ (~raced' => \A r \in Unsigned : ~CanWrite(r))
        BY <1>4, <2>2 DEF WriteRole
    <3>. QED BY <1>1, <3>1 DEF Demoted
  <2>3. CASE ~CanWrite(change) /\ ~CanWrite(role)
    <3>1. demotedAt' = demotedAt /\ (~raced' => ~raced)
        BY <1>4, <2>3 DEF WriteRole
    <3>. QED BY <1>1, <2>3, <3>1 DEF Demoted
  <2>. QED BY <2>1, <2>2, <2>3
<1>. QED BY <1>2, <1>3, <1>4 DEF Administration

LEMMA GateDemoted ==
    ASSUME Typed, Demoted, UNCHANGED <<now, tokens>>, Reads, NEW t \in Known,
           Valid(t, "access"), Gate(t)
    PROVE  Demoted'
<1>1. UNCHANGED <<role, raced, demotedAt>> /\ Known' = Known
    BY DEF Gate, Known
<1>2. /\ now \in Nat /\ demotedAt \in Nat /\ AccessTTL \in Nat /\ tokens[t].exp \in Nat
      /\ now < Ticks * tokens[t].exp /\ tokens[t].kind = "access"
    BY SessionsAssumption, Lengths, ValidIsEarly DEF Typed, RoleOK, Valid
<1>3. ~outlived'
  <2>1. ASSUME Allowed(t), ~CanWrite(role), ~raced
        PROVE  ~(now >= demotedAt + Ticks * AccessTTL)
    <3>1. Ticks * tokens[t].exp <= demotedAt + Ticks * AccessTTL
        BY <1>2, <2>1 DEF Demoted, Allowed
    <3>. QED BY <1>2, <3>1
  <2>. QED BY <2>1 DEF Gate, Demoted
<1>. QED BY <1>1, <1>3 DEF Demoted, Reads

\* requireRole: a demoted account's writes stop when the access tokens of the
\* role before have expired, for every life of the tokens, through refreshes,
\* sign-ins, reloads, outages and restarts, unless the demotion fell between
\* the read of a role and the signature of its token.
THEOREM DemotionsTakeEffect == Spec => []DemotionTakesEffect
<1>1. Init => Demoted
    BY DEF Init, ServerInit, AccountsInit, Demoted, Known, CanWrite
<1>2. Typed /\ Demoted /\ [Next]_vars => Demoted'
    BY NextMovesRole, TokensDemoted, AdministrationDemoted, GateDemoted DEF RoleMove
<1>3. Demoted => DemotionTakesEffect
    BY DEF Demoted, DemotionTakesEffect
<1>. QED BY <1>1, <1>2, <1>3, TypeCorrect, PTL DEF Spec

-----------------------------------------------------------------------------
(* The user is not signed out by the overlap of calls, 401s, refreshes and *)
(* replays: for any number of calls under way, any lives of the tokens and *)
(* any number of reloads, a session ends only when its refresh token has   *)
(* expired, something failed or the user logged out.                       *)

\* No session: the form waits for a sign-in, or for the answer to one.
Idle      == InFlight = {} /\ shared = None /\ refresh = None /\ ~signedIn /\ ~initialising
NoSession == attempts[Mine] # None \/ tokens = <<>> => Idle

\* Nothing has failed, and nothing has been revoked.
Serving == redis /\ \A t \in Jtis : denylist[t] = 0

\* restore's two requests have the tab to themselves.
Alone == \A i \in InFlight :
            calls[i].kind \in {"me", "restore"} => InFlight = {i} /\ initialising

\* A restore is refused only with a refresh token that has expired, and GET
\* /auth/me with an access token that has; its replay carries the tab's token.
CallFair(c) ==
    /\ c.kind # "logout" /\ c.pc \notin {"revokeAccess", "revokeRefresh"}
    /\ c.pc = "sign" => c.kind = "restore"
    /\ c.pc = "waiting" => shared # None
    /\ c.kind = "restore" =>
          /\ refresh \in {None, c.body}
          /\ c.pc = "answered" /\ c.status # 200 => ~Valid(c.body, "refresh")
    /\ c.kind = "me" =>
          /\ c.pc = "answered" /\ c.status # 200 => c.status = 401 /\ ~Valid(c.token, "access")
          /\ c.retry => c.token = access /\ (shared = None \/ shared.pc = "done")

CallsFair == \A i \in InFlight : CallFair(calls[i])

\* The refresh under way was started with the tab's refresh token, and answers
\* null only when that has expired.
SharedFair == shared # None =>
    /\ refresh \in {None, shared.token}
    /\ shared.pc = "done" /\ shared.result = None => ~Valid(shared.token, "refresh")

SessionOK == NoSession /\ Serving /\ Alone /\ SharedFair /\ CallsFair

\* As long as nothing excuses the loss of the session.
Kept == ~lost /\ (~excused => SessionOK)

-----------------------------------------------------------------------------
(* Time passes and tokens are added.                                       *)

Later == /\ now \in Nat /\ now' \in Nat /\ now <= now'
         /\ Len(tokens) <= Len(tokens')
         /\ \A t \in Known : tokens'[t] = tokens[t] /\ tokens[t].exp \in Nat

LEMMA StepsAreLater ==
    ASSUME Typed, [Next]_vars
    PROVE  Later
<1>1. /\ ServerTypeOK /\ now \in Nat /\ Len(tokens) \in Nat
      /\ \A t \in Known : tokens[t].exp \in Nat
    BY Lengths, KnownToken DEF Typed, Token
<1>2. CASE tokens' = tokens /\ now' \in Nat /\ now <= now'
    BY <1>1, <1>2 DEF Later
<1>3. ASSUME NEW kinds \in {<<"access">>, <<"access", "refresh">>}, NEW r \in Unsigned,
             Sign(kinds, r), UNCHANGED <<now, denylist, queued, redis, confirmed, honoured>>
      PROVE  Later
  <2>1. r \in Roles
      BY UnsignedRoles
  <2>2. Len(kinds) \in Nat
      OBVIOUS
  <2>3. Len(tokens') = Len(tokens) + Len(kinds) /\ \A t \in Known : tokens'[t] = tokens[t]
      BY <1>1, <1>3, <2>1, SignAdds
  <2>. QED BY <1>1, <1>3, <2>2, <2>3 DEF Later
<1>4. TokenMove => Later
    BY <1>2, <1>3 DEF TokenMove
<1>. QED BY <1>1, <1>2, <1>4, NextMovesRole DEF RoleMove, serverVars

LEMMA Seconds ==
    ASSUME NEW m \in Nat, NEW n \in Nat, m <= n
    PROVE  m \div Ticks \in Nat /\ n \div Ticks \in Nat /\ m \div Ticks <= n \div Ticks
<1>1. m \div Ticks \in Nat /\ Ticks * (m \div Ticks) <= m
    OBVIOUS
<1>2. n \div Ticks \in Nat /\ n <= Ticks * (n \div Ticks) + 3
    OBVIOUS
<1>. QED BY <1>1, <1>2

\* A token that has expired stays expired.
LEMMA Fades ==
    ASSUME Typed, Later, NEW t \in Signed(Len(tokens)), NEW k
    PROVE  Valid(t, k)' => Valid(t, k)
<1>1. CASE t = None
    BY <1>1 DEF Valid
<1>2. CASE t \in Known
  <2>1. /\ tokens'[t] = tokens[t] /\ tokens[t].exp \in Nat
        /\ now \in Nat /\ now' \in Nat /\ now <= now'
      BY <1>2 DEF Later
  <2>2. now \div Ticks <= now' \div Ticks /\ now \div Ticks \in Nat /\ now' \div Ticks \in Nat
      BY <2>1, Seconds
  <2>. QED BY <2>1, <2>2 DEF Valid, Second
<1>. QED BY <1>1, <1>2 DEF Signed, Known

\* In a good session the verdict is the token's.
LEMMA FairVerdict ==
    ASSUME Typed, Serving, NEW t \in Signed(Len(tokens)), NEW k
    PROVE  Verdict(t, k) = IF Valid(t, k) THEN 200 ELSE 401
<1>1. CASE ~Valid(t, k)
    BY <1>1 DEF Verdict
<1>2. CASE Valid(t, k)
  <2>1. t \in Jtis /\ now \in Nat
      BY <1>2, Lengths, KnownToken DEF Typed, Valid, Signed, Known
  <2>2. denylist[t] = 0
      BY <2>1 DEF Serving
  <2>3. ~Denied(t)
      BY <2>1, <2>2 DEF Denied
  <2>. QED BY <1>2, <2>3 DEF Verdict, Serving
<1>. QED BY <1>1, <1>2

\* A call that a step leaves alone.
LEMMA CallStays ==
    ASSUME Typed, Later, NEW i \in Calls, calls[i] # None, calls'[i] = calls[i],
           CallFair(calls[i]), refresh' \in {None, refresh},
           calls[i].pc = "waiting" => shared' # None,
           calls[i].kind = "me" /\ calls[i].retry =>
               access' = access /\ (shared' = None \/ shared'.pc = "done")
    PROVE  CallFair(calls[i])'
<1>1. calls[i].token \in Signed(Len(tokens)) /\ calls[i].body \in Signed(Len(tokens))
    BY TheCall
<1>2. /\ Valid(calls[i].body, "refresh")' => Valid(calls[i].body, "refresh")
      /\ Valid(calls[i].token, "access")' => Valid(calls[i].token, "access")
  <2>1. \A k : \A t \in Signed(Len(tokens)) : Valid(t, k)' => Valid(t, k)
      BY Fades
  <2>. QED BY <1>1, <2>1 DEF Valid, Second
<1>. QED BY <1>2 DEF CallFair

LEMMA SharedStays ==
    ASSUME Typed, Later, SharedFair, shared' = None \/ shared' = shared,
           refresh' \in {None, refresh}
    PROVE  SharedFair'
<1>1. shared' = shared /\ shared # None =>
        (Valid(shared.token, "refresh")' => Valid(shared.token, "refresh"))
  <2>1. shared # None => shared.token \in Signed(Len(tokens))
      BY TheRefresh DEF Signed
  <2>2. \A k : \A t \in Signed(Len(tokens)) : Valid(t, k)' => Valid(t, k)
      BY Fades
  <2>. QED BY <2>1, <2>2 DEF Valid, Second
<1>. QED BY <1>1 DEF SharedFair

\* A step that leaves the tab alone.
LEMMA TabStays ==
    ASSUME Typed, Later, SessionOK, UNCHANGED storeVars, UNCHANGED calls, UNCHANGED shared,
           UNCHANGED <<redis, denylist>>,
           attempts'[Mine] # None => attempts[Mine] # None \/ tokens = <<>>,
           tokens' = <<>> => tokens = <<>>
    PROVE  SessionOK'
<1>1. InFlight' = InFlight /\ UNCHANGED <<access, refresh, signedIn, initialising>>
    BY DEF InFlight, storeVars
<1>2. NoSession' /\ Serving' /\ Alone'
    BY <1>1 DEF SessionOK, NoSession, Idle, Serving, Alone
<1>3. SharedFair'
    BY <1>1, SharedStays DEF SessionOK
<1>4. ASSUME NEW i \in InFlight
      PROVE  CallFair(calls[i])'
    BY <1>1, CallStays DEF SessionOK, CallsFair, InFlight, CallFair
<1>. QED BY <1>1, <1>2, <1>3, <1>4 DEF SessionOK, CallsFair

\* A call that goes on, in a session that does.
LEMMA CallGoes ==
    ASSUME Typed, Later, SessionOK, NEW i \in Calls, calls[i] # None,
           calls' = [calls EXCEPT ![i] = calls'[i]], calls'[i] # None,
           calls'[i].kind = calls[i].kind, CallFair(calls[i])',
           UNCHANGED <<refresh, signedIn, initialising>>,
           UNCHANGED <<redis, denylist>>, UNCHANGED attempts,
           UNCHANGED access \/ InFlight = {i},
           shared' = shared \/ (shared = None /\ shared'.token = refresh /\ shared' # None
                                /\ shared'.pc = "sent" /\ ~calls[i].retry),
           tokens' = <<>> => tokens = <<>>
    PROVE  SessionOK'
<1>1. /\ calls \in [Calls -> Call \union {None}] /\ \A j \in Calls \ {i} : calls'[j] = calls[j]
      /\ i \in InFlight
    BY TheCall DEF InFlight
<1>2. InFlight' = InFlight
    BY <1>1 DEF InFlight
<1>3. NoSession' /\ Serving' /\ Alone'
  <2>1. ~Idle
      BY <1>1 DEF Idle
  <2>2. NoSession'
      BY <2>1 DEF SessionOK, NoSession
  <2>3. Alone'
      BY <1>1, <1>2 DEF SessionOK, Alone, InFlight
  <2>. QED BY <2>2, <2>3 DEF SessionOK, Serving
<1>4. SharedFair'
  <2>1. CASE shared' = shared
      BY <2>1, SharedStays DEF SessionOK
  <2>2. CASE shared' # shared
      BY <2>2 DEF SharedFair
  <2>. QED BY <2>1, <2>2
<1>5. ASSUME NEW j \in InFlight, j # i
      PROVE  CallFair(calls[j])'
  <2>1. j \in Calls /\ calls[j] # None /\ calls'[j] = calls[j] /\ CallFair(calls[j])
      BY <1>1, <1>5 DEF InFlight, SessionOK, CallsFair
  <2>2. calls[j].kind # "me"
      BY <1>1, <1>5 DEF SessionOK, Alone
  <2>3. calls[j].pc = "waiting" => shared' # None
      BY <2>1 DEF CallFair
  <2>. QED BY <2>1, <2>2, <2>3, CallStays
<1>. QED BY <1>2, <1>3, <1>4, <1>5 DEF SessionOK, CallsFair

-----------------------------------------------------------------------------
(* The steps of a session that nothing excuses.                            *)

\* A call in flight, and what becomes of it.
LEMMA Answered ==
    ASSUME NEW c \in Call, NEW s
    PROVE  /\ WithStatus(c, s).kind = c.kind /\ WithStatus(c, s).retry = c.retry
           /\ WithStatus(c, s).token = c.token /\ WithStatus(c, s).body = c.body
           /\ WithStatus(c, s).pc = "answered" /\ WithStatus(c, s).status = s
<1>1. WithStatus(c, s).pc = "answered"
    BY DEF WithStatus, Call
<1>. QED BY <1>1 DEF WithStatus, Call

LEMMA FairCall ==
    ASSUME Typed, SessionOK, NEW i \in Calls, calls[i] # None
    PROVE  /\ CallFair(calls[i]) /\ i \in InFlight /\ calls[i] \in Call
           /\ calls \in [Calls -> Call \union {None}]
           /\ calls[i].kind \in {"me", "restore"} => InFlight = {i} /\ initialising
    BY TheCall DEF SessionOK, CallsFair, Alone, InFlight

LEMMA StillACall ==
    ASSUME Typed, NEW i \in Calls, calls[i] # None
    PROVE  /\ \A s \in {0, 200, 401, 403, 503} : WithStatus(calls[i], s) # None
           /\ WithRole(calls[i], role) # None /\ WithPc(calls[i], "waiting") # None
<1>1. CallOK(calls[i], Len(tokens)) /\ Len(tokens) \in Nat /\ role \in Roles
    BY TheCall, Lengths DEF Typed, RoleOK
<1>2. \A d : CallOK(d, Len(tokens)) => d # None
    BY CallsNoneAssumption DEF CallOK
<1>. QED BY <1>1, <1>2, CallGoesOn

LEMMA ServeKeeps ==
    ASSUME Typed, Later, SessionOK, NEW i \in Calls, Serve(i)
    PROVE  SessionOK'
<1>. DEFINE t == IF calls[i].kind = "restore" THEN calls[i].body ELSE calls[i].token
            k == IF calls[i].kind = "restore" THEN "refresh" ELSE "access"
<1>1. /\ calls[i] # None /\ Judge(t, k) /\ calls[i].pc = "sent"
      /\ UNCHANGED storeVars /\ UNCHANGED shared
    BY DEF Serve
<1>2. UNCHANGED <<now, tokens, redis, denylist>>
    BY <1>1 DEF Judge, others
<1>3. UNCHANGED attempts
    BY DEF Serve, Gate, accountVars
<1>4. t \in Signed(Len(tokens)) /\ CallFair(calls[i]) /\ calls[i] \in Call /\ InFlight # {}
    BY <1>1, TheCall, FairCall
<1>5. Verdict(t, k) = IF Valid(t, k) THEN 200 ELSE 401
    BY <1>4, FairVerdict DEF SessionOK
<1>6. UNCHANGED <<access, refresh, signedIn, initialising>>
    BY <1>1 DEF storeVars
<1>7. SUFFICES /\ calls' = [calls EXCEPT ![i] = calls'[i]] /\ calls'[i] # None
               /\ calls'[i].kind = calls[i].kind /\ CallFair(calls[i])'
    BY <1>1, <1>2, <1>3, <1>6, CallGoes
<1>8. ASSUME NEW s \in {200, 401, 403}, Answer(i, s),
             s # 200 => (s = 401 /\ ~Valid(t, k)) \/ calls[i].kind = "write"
      PROVE  /\ calls' = [calls EXCEPT ![i] = calls'[i]] /\ calls'[i] # None
             /\ calls'[i].kind = calls[i].kind /\ CallFair(calls[i])'
  <2>1. calls'[i] = WithStatus(calls[i], s) /\ calls' = [calls EXCEPT ![i] = calls'[i]]
      BY <1>8, AnswerIs
  <2>2. CallFair(calls[i])'
      BY <1>1, <1>2, <1>4, <1>6, <1>8, <2>1, Answered DEF CallFair, Valid, Second
  <2>. QED BY <1>1, <1>4, <2>1, <2>2, Answered, StillACall
<1>9. CASE Verdict(t, k) # 200
  <2>1. Answer(i, Verdict(t, k))
      BY <1>9 DEF Serve
  <2>. QED BY <1>5, <1>8, <1>9, <2>1
<1>10. CASE Verdict(t, k) = 200 /\ calls[i].kind = "restore"
  <2>1. calls' = [calls EXCEPT ![i] = WithRole(calls[i], RoleRead)]
      BY <1>10 DEF Serve, WithRole
  <2>2. /\ calls'[i] = WithRole(calls[i], RoleRead) /\ calls' = [calls EXCEPT ![i] = calls'[i]]
      BY <1>1, <2>1, FairCall
  <2>3. WithRole(calls[i], RoleRead).pc = "sign"
      BY <1>4 DEF WithRole, Call
  <2>4. /\ calls'[i].kind = calls[i].kind /\ calls'[i].body = calls[i].body
        /\ calls'[i].pc = "sign"
      BY <1>4, <2>2, <2>3 DEF WithRole, Call
  <2>5. calls'[i] # None
      BY <1>1, <2>2, StillACall DEF RoleRead
  <2>. QED BY <1>4, <1>6, <1>10, <2>2, <2>4, <2>5 DEF CallFair
<1>11. CASE Verdict(t, k) = 200 /\ calls[i].kind # "restore"
  <2>1. calls[i].kind # "logout"
      BY <1>4 DEF CallFair
  <2>2. \/ calls[i].kind = "write" /\ \E s \in {200, 403} : Answer(i, s)
        \/ Answer(i, 200)
      BY <1>11, <2>1 DEF Serve
  <2>. QED BY <1>8, <2>2
<1>. QED BY <1>9, <1>10, <1>11

\* The access token that a refresh signs.
LEMMA SignsOne ==
    ASSUME Typed, NEW r \in Roles, Sign(<<"access">>, r),
           UNCHANGED <<now, denylist, queued, redis, confirmed, honoured>>
    PROVE  tokens' # <<>> /\ Newest \in Jtis /\ Newest # None
<1>1. ServerTypeOK' /\ Len(tokens') = Len(tokens) + Len(<<"access">>) /\ Len(tokens) \in Nat
    BY SignAdds, Lengths DEF Typed
<1>2. Len(tokens') = Len(tokens) + 1 /\ Len(tokens') <= MaxTokens /\ MaxTokens \in Nat
    BY <1>1, SessionsAssumption DEF ServerTypeOK
<1>. QED BY <1>1, <1>2, SessionsAssumption DEF Newest, Jtis

LEMMA SignRestoredKeeps ==
    ASSUME Typed, Later, SessionOK, NEW i \in Calls, SignRestored(i)
    PROVE  SessionOK'
<1>1. /\ calls[i] # None /\ calls[i].pc = "sign" /\ Sign(<<"access">>, calls[i].role)
      /\ UNCHANGED <<now, denylist, queued, redis, confirmed, honoured>>
      /\ UNCHANGED <<access, refresh, signedIn, initialising>> /\ UNCHANGED shared
      /\ UNCHANGED attempts
      /\ calls' = [calls EXCEPT ![i] = WithToken(calls[i], Newest)]
    BY DEF SignRestored, storeVars, fixed, accountVars, WithToken
<1>2. CallFair(calls[i]) /\ calls[i] \in Call /\ calls \in [Calls -> Call \union {None}]
    BY <1>1, FairCall
<1>3. calls'[i] = WithToken(calls[i], Newest) /\ calls' = [calls EXCEPT ![i] = calls'[i]]
    BY <1>1, <1>2
<1>4. tokens' # <<>> /\ Newest \in Jtis
    BY <1>1, SignsOne, TheCall DEF CallOK
<1>. DEFINE e == WithStatus(calls[i], 200)
<1>5. e \in Call /\ e.kind = calls[i].kind /\ e.body = calls[i].body
      /\ e.pc = "answered" /\ e.status = 200
    BY <1>1, <1>2, Answered, TheCall, Lengths, CallGoesOn DEF CallOK, Typed
<1>6. calls'[i] = [e EXCEPT !.token = Newest]
    BY <1>3 DEF WithToken, WithStatus
<1>7. /\ calls'[i] \in Call /\ calls'[i].kind = calls[i].kind /\ calls'[i].body = calls[i].body
      /\ calls'[i].pc = "answered" /\ calls'[i].status = 200
  <2>. HIDE DEF e
  <2>. QED BY <1>4, <1>5, <1>6 DEF Call
<1>8. calls'[i] # None
    BY <1>7, CallsNoneAssumption
<1>9. CallFair(calls[i])'
    BY <1>1, <1>2, <1>7 DEF CallFair
<1>. QED BY <1>1, <1>3, <1>4, <1>7, <1>8, <1>9, CallGoes

LEMMA ReplayKeeps ==
    ASSUME Typed, Later, SessionOK, NEW i \in Calls, Replay(i)
    PROVE  SessionOK'
<1>. DEFINE d == Sent(calls[i].kind, access, calls[i].body, TRUE)
<1>1. /\ calls[i] # None /\ shared.pc = "done" /\ UNCHANGED serverVars
      /\ UNCHANGED <<access, refresh, signedIn, initialising>> /\ UNCHANGED shared
      /\ UNCHANGED attempts /\ calls' = [calls EXCEPT ![i] = d]
    BY FairCall DEF Replay, storeVars, fixed, accountVars
<1>2. CallFair(calls[i]) /\ calls[i] \in Call /\ calls \in [Calls -> Call \union {None}]
    BY <1>1, FairCall
<1>3. calls'[i] = d /\ calls' = [calls EXCEPT ![i] = calls'[i]]
    BY <1>1, <1>2
<1>4. /\ d.kind = calls[i].kind /\ d.body = calls[i].body /\ d.pc = "sent" /\ d.token = access
    BY DEF Sent
<1>5. d # None
  <2>1. /\ calls[i].kind \in Kinds /\ access \in Signed(Len(tokens))
        /\ calls[i].body \in Signed(Len(tokens))
      BY <1>1, TheCall, Tokens
  <2>2. Len(tokens) \in Nat /\ Len(tokens) <= MaxTokens
      BY Lengths DEF Typed, ServerTypeOK
  <2>3. CallOK(d, Len(tokens))
      BY <2>1, <2>2, NewCall
  <2>. QED BY <2>3, CallsNoneAssumption DEF CallOK
<1>6. CallFair(calls[i])'
    BY <1>1, <1>2, <1>3, <1>4 DEF CallFair
<1>. QED BY <1>1, <1>3, <1>4, <1>5, <1>6, CallGoes DEF serverVars

LEMMA JoinKeeps ==
    ASSUME Typed, Later, SessionOK, NEW i \in Calls, Join(i)
    PROVE  SessionOK'
<1>1. /\ calls[i] # None /\ ~calls[i].retry /\ UNCHANGED serverVars /\ refresh # None
      /\ UNCHANGED <<access, refresh, signedIn, initialising>>
      /\ UNCHANGED attempts /\ Goes(i, "waiting")
    BY DEF Join, storeVars, fixed, accountVars, Refused, CanRefresh
<1>2. CallFair(calls[i]) /\ calls[i] \in Call
    BY <1>1, FairCall
<1>3. calls'[i] = WithPc(calls[i], "waiting") /\ calls' = [calls EXCEPT ![i] = calls'[i]]
    BY <1>1, GoesIs
<1>4. calls'[i].pc = "waiting" /\ calls'[i] # None
    BY <1>1, <1>2, <1>3, StillACall DEF WithPc, Call
<1>5. /\ calls'[i].kind = calls[i].kind /\ calls'[i].body = calls[i].body
      /\ calls'[i].retry = calls[i].retry
    BY <1>2, <1>3 DEF WithPc, Call
<1>. DEFINE s == [pc |-> "sent", token |-> refresh, result |-> None, role |-> None]
<1>6. s # None /\ s.pc = "sent" /\ s.token = refresh
  <2>1. refresh \in Jtis
      BY <1>1, Tokens, KnownToken DEF Signed, Known, Typed
  <2>2. s \in Refresh
      BY <2>1 DEF Refresh
  <2>. QED BY <2>2, CallsNoneAssumption
<1>7. \/ shared # None /\ shared' = shared
      \/ shared = None /\ shared' = s
    BY DEF Join
<1>. HIDE DEF s
<1>8. CallFair(calls[i])'
  <2>1. shared' # None
      BY <1>6, <1>7
  <2>. QED BY <1>1, <1>2, <1>4, <1>5, <2>1 DEF CallFair
<1>. QED BY <1>1, <1>3, <1>4, <1>5, <1>6, <1>7, <1>8, CallGoes DEF serverVars

LEMMA RestoredKeeps ==
    ASSUME Typed, Later, SessionOK, NEW i \in Calls, Restored(i)
    PROVE  SessionOK'
<1>1. /\ calls[i] # None /\ calls[i].kind = "restore" /\ UNCHANGED serverVars
      /\ UNCHANGED <<refresh, signedIn, initialising>> /\ UNCHANGED shared
      /\ UNCHANGED attempts /\ access' = calls[i].token
      /\ calls' = [calls EXCEPT ![i] = Sent("me", access', None, FALSE)]
    BY DEF Restored, fixed, accountVars
<1>2. /\ InFlight = {i} /\ initialising /\ calls \in [Calls -> Call \union {None}]
    BY <1>1, FairCall
<1>. DEFINE d == Sent("me", calls[i].token, None, FALSE)
<1>3. calls'[i] = d /\ \A j \in Calls \ {i} : calls'[j] = None
  <2>1. \A j \in Calls \ {i} : calls[j] = None
      BY <1>2 DEF InFlight
  <2>. QED BY <1>1, <1>2, <2>1
<1>4. d.kind = "me" /\ d.pc = "sent" /\ ~d.retry
    BY DEF Sent
<1>5. d # None
  <2>1. CallOK(d, Len(tokens))
      BY <1>1, NewCall, TheCall, Tokens, Lengths DEF Typed, ServerTypeOK, Kinds
  <2>. QED BY <2>1, CallsNoneAssumption DEF CallOK
<1>. HIDE DEF d
<1>6. InFlight' = {i}
    BY <1>3, <1>5 DEF InFlight
<1>7. CallsFair'
    BY <1>3, <1>4, <1>6 DEF CallsFair, CallFair
<1>8. NoSession' /\ Alone' /\ Serving'
    BY <1>1, <1>2, <1>6 DEF SessionOK, NoSession, Idle, Alone, Serving, serverVars
<1>9. SharedFair'
    BY <1>1, SharedStays DEF SessionOK
<1>. QED BY <1>7, <1>8, <1>9 DEF SessionOK

-----------------------------------------------------------------------------
(* Steps that start or end a call, and the steps of the shared refresh.    *)

\* The calls that are left, when one has ended or another has started.
LEMMA CallsLeft ==
    ASSUME Typed, Later, SessionOK, NEW i \in Calls,
           \A j \in Calls \ {i} : calls'[j] = calls[j],
           \A j \in InFlight : j # i => calls[j].kind \notin {"me", "restore"},
           calls'[i] # None => calls'[i].kind \in {"query", "write"} /\ calls'[i].pc = "sent",
           UNCHANGED serverVars, UNCHANGED attempts, UNCHANGED shared,
           refresh' \in {None, refresh},
           ~Idle
    PROVE  SessionOK'
<1>1. NoSession' /\ Serving'
    BY DEF SessionOK, NoSession, Serving, serverVars
<1>2. \A j \in InFlight' : \/ j = i /\ calls'[i] # None
                           \/ j \in InFlight /\ j # i /\ calls'[j] = calls[j]
    BY DEF InFlight
<1>3. Alone'
    BY <1>2 DEF Alone
<1>4. SharedFair'
    BY SharedStays DEF SessionOK
<1>5. ASSUME NEW j \in InFlight'
      PROVE  CallFair(calls[j])'
  <2>1. CASE j = i /\ calls'[i] # None
      BY <2>1, <1>5 DEF CallFair
  <2>2. CASE j \in InFlight /\ j # i /\ calls'[j] = calls[j]
    <3>1. j \in Calls /\ calls[j] # None /\ CallFair(calls[j]) /\ calls[j].kind # "me"
        BY <2>2 DEF InFlight, SessionOK, CallsFair
    <3>2. calls[j].pc = "waiting" => shared' # None
        BY <3>1 DEF CallFair
    <3>. QED BY <2>2, <3>1, <3>2, CallStays
  <2>. QED BY <1>2, <2>1, <2>2
<1>. QED BY <1>1, <1>3, <1>4, <1>5 DEF SessionOK, CallsFair

LEMMA StartKeeps ==
    ASSUME Typed, Later, SessionOK, NEW i \in Calls, NEW kind \in {"query", "write"}, Start(i, kind)
    PROVE  SessionOK'
<1>1. /\ calls[i] = None /\ signedIn /\ ~initialising /\ UNCHANGED serverVars
      /\ UNCHANGED attempts /\ UNCHANGED shared /\ refresh' = refresh
      /\ calls' = [calls EXCEPT ![i] = Sent(kind, access, None, FALSE)]
    BY DEF Start, Screen, storeVars, fixed, accountVars
<1>2. calls \in [Calls -> Call \union {None}]
    BY Tokens
<1>3. Sent(kind, access, None, FALSE).kind = kind /\ Sent(kind, access, None, FALSE).pc = "sent"
    BY DEF Sent
<1>4. \A j \in InFlight : calls[j].kind \notin {"me", "restore"}
    BY <1>1 DEF SessionOK, Alone
<1>5. ~Idle
    BY <1>1 DEF Idle
<1>. QED BY <1>1, <1>2, <1>3, <1>4, <1>5, CallsLeft

\* Alone, a call that ends leaves none of restore's.
LEMMA EndKeeps ==
    ASSUME Typed, Later, SessionOK, NEW i \in Calls, calls[i] # None,
           calls' = [calls EXCEPT ![i] = None],
           UNCHANGED serverVars, UNCHANGED attempts, UNCHANGED shared, refresh' \in {None, refresh}
    PROVE  SessionOK'
<1>1. calls \in [Calls -> Call \union {None}] /\ i \in InFlight
    BY Tokens DEF InFlight
<1>2. \A j \in InFlight : j # i => calls[j].kind \notin {"me", "restore"}
    BY <1>1 DEF SessionOK, Alone
<1>3. ~Idle
    BY <1>1 DEF Idle
<1>. QED BY <1>1, <1>2, <1>3, CallsLeft

LEMMA FinishKeeps ==
    ASSUME Typed, Later, SessionOK, ~lost, NEW i \in Calls, Finish(i)
    PROVE  SessionOK' /\ ~lost'
<1>1. /\ calls[i] # None /\ calls[i].pc = "answered" /\ ~Refused(calls[i])
      /\ calls' = [calls EXCEPT ![i] = None]
      /\ UNCHANGED serverVars /\ UNCHANGED attempts /\ UNCHANGED shared
    BY DEF Finish, Ends, fixed, accountVars
<1>2. CallFair(calls[i]) /\ calls[i].retry \in BOOLEAN
    BY <1>1, FairCall DEF Call
<1>3. refresh' \in {None, refresh}
    BY <1>2 DEF Finish, Ends, SignedOut, storeVars, CallFair
<1>4. ASSUME calls[i].kind = "me", calls[i].status # 200
      PROVE  Outrun(calls[i])
    BY <1>1, <1>2, <1>4 DEF CallFair, Refused, Outrun
<1>5. ASSUME calls[i].kind = "restore", calls[i].status # 200
      PROVE  ~Unexcused
    BY <1>1, <1>2, <1>5 DEF CallFair, Unexcused, Valid
<1>6. ~lost'
    BY <1>4, <1>5 DEF Finish
<1>. QED BY <1>1, <1>3, <1>6, EndKeeps

LEMMA LostKeeps ==
    ASSUME Typed, Later, SessionOK, ~lost, NEW i \in Calls, Lost(i)
    PROVE  SessionOK' /\ ~lost'
<1>1. /\ calls[i] # None /\ calls' = [calls EXCEPT ![i] = None] /\ refresh' = None
      /\ UNCHANGED serverVars /\ UNCHANGED attempts /\ UNCHANGED shared
    BY DEF Lost, SignedOut, fixed, accountVars
<1>2. ASSUME refresh = None
      PROVE  ~lost'
    BY <1>2 DEF Lost, Unexcused, Valid
<1>3. ASSUME calls[i].pc = "waiting", shared.pc = "done", shared.result = None
      PROVE  ~lost'
  <2>1. shared # None
      BY <1>1, <1>3, FairCall DEF CallFair
  <2>2. refresh = None \/ ~Valid(refresh, "refresh")
      BY <1>3, <2>1 DEF SessionOK, SharedFair
  <2>. QED BY <1>2, <2>2 DEF Lost, Unexcused
<1>4. ~lost'
    BY <1>2, <1>3 DEF Lost, CanRefresh, Joins
<1>. QED BY <1>1, <1>4, EndKeeps

LEMMA SignedInKeeps ==
    ASSUME Typed, Later, SessionOK, SignedIn
    PROVE  SessionOK'
<1>1. /\ attempts[Mine] # None /\ attempts' = [attempts EXCEPT ![Mine] = None]
      /\ UNCHANGED serverVars /\ UNCHANGED calls /\ UNCHANGED shared
      /\ attempts[Mine].status = 200 \/ UNCHANGED storeVars
    BY DEF SignedIn
<1>2. Idle
    BY <1>1 DEF SessionOK, NoSession
<1>3. /\ attempts'[Mine] = None
      /\ attempts[Mine].status = 200 => 2 <= Len(tokens) /\ Len(tokens) \in Nat
    BY <1>1, MineIsOne, Lengths DEF Typed, AttemptsOK, AttemptOK
<1>4. UNCHANGED storeVars => Idle'
    BY <1>1, <1>2 DEF Idle, InFlight, storeVars
<1>5. attempts[Mine].status = 200 => tokens' # <<>>
    BY <1>1, <1>3 DEF serverVars
<1>6. NoSession'
    BY <1>1, <1>3, <1>4, <1>5 DEF NoSession
<1>7. InFlight' = {} /\ shared' = None
    BY <1>1, <1>2 DEF Idle, InFlight
<1>8. Serving'
    BY <1>1 DEF SessionOK, Serving, serverVars
<1>. QED BY <1>6, <1>7, <1>8 DEF SessionOK, Alone, SharedFair, CallsFair

LEMMA ReloadKeeps ==
    ASSUME Typed, Later, SessionOK, Reload
    PROVE  SessionOK'
<1>1. /\ shared = None /\ shared' = None /\ UNCHANGED serverVars /\ UNCHANGED attempts
      /\ refresh' = refresh /\ ~signedIn' /\ initialising' = (refresh # None)
    BY DEF Reload, fixed, accountVars
<1>2. PICK i \in Calls : calls' = [j \in Calls |-> IF j = i /\ refresh # None
                            THEN Sent("restore", None, refresh, FALSE) ELSE None]
    BY CallsNoneAssumption DEF Reload
<1>3. Serving' /\ SharedFair'
    BY <1>1 DEF SessionOK, Serving, SharedFair, serverVars
<1>4. CASE refresh = None
  <2>1. InFlight' = {}
      BY <1>2, <1>4 DEF InFlight
  <2>. QED BY <1>1, <1>3, <1>4, <2>1 DEF SessionOK, NoSession, Idle, Alone, CallsFair
<1>5. CASE refresh # None
  <2>. DEFINE d == Sent("restore", None, refresh, FALSE)
  <2>1. d.kind = "restore" /\ d.pc = "sent" /\ d.body = refresh
      BY DEF Sent
  <2>2. calls'[i] = d /\ \A j \in Calls \ {i} : calls'[j] = None
      BY <1>2, <1>5
  <2>3. InFlight' \subseteq {i}
      BY <2>2 DEF InFlight
  <2>. HIDE DEF d
  <2>4. NoSession'
    <3>1. ~Idle
        BY <1>5 DEF Idle
    <3>. QED BY <1>1, <3>1 DEF SessionOK, NoSession, serverVars
  <2>5. \A j \in InFlight' : j = i /\ InFlight' = {i}
      BY <2>3
  <2>6. Alone'
      BY <1>1, <1>5, <2>5 DEF Alone
  <2>7. CallsFair'
      BY <1>1, <2>1, <2>2, <2>5 DEF CallsFair, CallFair
  <2>. QED BY <1>3, <2>4, <2>6, <2>7 DEF SessionOK
<1>. QED BY <1>4, <1>5

\* The refresh goes on, which the calls that have been replayed no longer see.
LEMMA RefreshGoes ==
    ASSUME Typed, Later, SessionOK, shared # None, SharedFair',
           UNCHANGED calls, UNCHANGED attempts, UNCHANGED <<redis, denylist>>,
           UNCHANGED <<refresh, signedIn, initialising>>,
           tokens' = <<>> => tokens = <<>>,
           shared' = None => \A i \in InFlight : calls[i].pc # "waiting",
           shared.pc # "done" \/ (shared' = None /\ access' = access)
    PROVE  SessionOK'
<1>1. InFlight' = InFlight /\ ~Idle
    BY DEF InFlight, Idle
<1>2. NoSession' /\ Serving' /\ Alone'
    BY <1>1 DEF SessionOK, NoSession, Serving, Alone
<1>3. ASSUME NEW i \in InFlight
      PROVE  CallFair(calls[i])'
  <2>1. i \in Calls /\ calls[i] # None /\ calls'[i] = calls[i] /\ CallFair(calls[i])
      BY <1>3 DEF InFlight, SessionOK, CallsFair
  <2>2. calls[i].kind = "me" /\ calls[i].retry =>
            access' = access /\ (shared' = None \/ shared'.pc = "done")
      BY <2>1 DEF CallFair
  <2>. QED BY <1>3, <2>1, <2>2, CallStays
<1>. QED BY <1>1, <1>2, <1>3 DEF SessionOK, CallsFair

LEMMA SharedKeeps ==
    ASSUME Typed, Later, SessionOK, ServeRefresh \/ SignShared \/ ClearShared
    PROVE  SessionOK'
<1>1. /\ shared # None /\ shared \in Refresh /\ shared.token \in Signed(Len(tokens))
      /\ shared.pc = "sign" => shared.role \in Roles
    BY TheRefresh DEF ServeRefresh, SignShared, ClearShared, Signed, SharedOK
<1>2. /\ UNCHANGED calls /\ UNCHANGED attempts /\ UNCHANGED <<redis, denylist>>
      /\ UNCHANGED <<refresh, signedIn, initialising>>
    BY DEF ServeRefresh, SignShared, ClearShared, Judge, others, serverVars, storeVars, fixed,
           accountVars
<1>3. CASE ServeRefresh
  <2>1. /\ shared.pc = "sent" /\ UNCHANGED <<now, tokens>> /\ access' = access
        /\ shared' = IF Verdict(shared.token, "refresh") = 200
                     THEN WithRole(shared, RoleRead) ELSE WithPc(shared, "done")
      BY <1>3 DEF ServeRefresh, Judge, others, storeVars, WithRole, WithPc
  <2>2. WithPc(shared, "done") \in Refresh
      BY <1>1 DEF Refresh, WithPc
  <2>3. WithRole(shared, RoleRead) \in Refresh /\ WithRole(shared, RoleRead).pc = "sign"
    <3>. DEFINE e == WithPc(shared, "sign")
    <3>1. e \in Refresh /\ e.pc = "sign"
        BY <1>1 DEF Refresh, WithPc
    <3>2. RoleRead \in Roles
        BY DEF RoleRead, Typed, RoleOK
    <3>3. WithRole(shared, RoleRead) = [e EXCEPT !.role = RoleRead]
        BY DEF WithRole, WithPc
    <3>. HIDE DEF e
    <3>. QED BY <3>1, <3>2, <3>3 DEF Refresh
  <2>4. /\ WithPc(shared, "done").token = shared.token
        /\ WithPc(shared, "done").pc = "done"
      BY <1>1 DEF WithPc, Refresh
  <2>5. WithRole(shared, RoleRead).token = shared.token
      BY <1>1 DEF WithRole, Refresh
  <2>6. shared' # None /\ shared'.token = shared.token
      BY <2>1, <2>2, <2>3, <2>4, <2>5, CallsNoneAssumption
  <2>7. shared'.pc = "done" => ~Valid(shared.token, "refresh")
      BY <1>1, <2>1, <2>3, FairVerdict DEF SessionOK
  <2>8. SharedFair'
      BY <1>1, <1>2, <2>1, <2>6, <2>7 DEF SessionOK, SharedFair, Valid, Second
  <2>. QED BY <1>1, <1>2, <2>1, <2>6, <2>8, RefreshGoes
<1>4. CASE SignShared
  <2>1. /\ shared.pc = "sign" /\ Sign(<<"access">>, shared.role)
        /\ UNCHANGED <<now, denylist, queued, redis, confirmed, honoured>>
        /\ shared' = [WithPc(shared, "done") EXCEPT !.result = Newest]
      BY <1>4 DEF SignShared, WithPc
  <2>2. tokens' # <<>> /\ Newest \in Jtis /\ Newest # None
      BY <1>1, <2>1, SignsOne
  <2>. DEFINE e == WithPc(shared, "done")
  <2>3. e \in Refresh /\ e.token = shared.token
      BY <1>1 DEF WithPc, Refresh
  <2>4. shared' \in Refresh /\ shared'.token = shared.token /\ shared'.result = Newest
    <3>1. shared' = [e EXCEPT !.result = Newest]
        BY <2>1
    <3>. HIDE DEF e
    <3>. QED BY <2>2, <2>3, <3>1 DEF Refresh
  <2>5. shared' # None
      BY <2>4, CallsNoneAssumption
  <2>6. SharedFair'
      BY <1>1, <1>2, <2>2, <2>4 DEF SessionOK, SharedFair
  <2>. QED BY <1>1, <1>2, <2>1, <2>2, <2>5, <2>6, RefreshGoes
<1>5. CASE ClearShared
  <2>1. /\ shared' = None /\ \A i \in InFlight : calls[i].pc # "waiting"
        /\ tokens' = tokens /\ access' = access
      BY <1>5 DEF ClearShared, serverVars, storeVars
  <2>2. SharedFair'
      BY <2>1 DEF SharedFair
  <2>. QED BY <1>1, <1>2, <2>1, <2>2, RefreshGoes
<1>. QED BY <1>3, <1>4, <1>5

-----------------------------------------------------------------------------
(* All steps.                                                              *)

\* Sign-ins, the clock, an administrator, the cold-start timer.
LEMMA QuietKeeps ==
    ASSUME Typed, Later, SessionOK, ~excused', ~lost,
           \/ Environment \/ ColdStart \/ UNCHANGED vars
           \/ Restart \/ Administration \/ SignIn
           \/ \E a \in Attempts : Login(a) \/ Others(a)
    PROVE  SessionOK' /\ ~lost'
<1>1. /\ UNCHANGED storeVars /\ UNCHANGED calls /\ UNCHANGED shared /\ UNCHANGED lost
      /\ attempts \in [Attempts -> Attempt \union {None}] /\ Mine \in Attempts
    BY MineIsOne DEF Environment, ColdStart, vars, Restart, Administration, SignIn, Login, Others,
                     clientVars, Typed, AttemptsOK
<1>2. SUFFICES /\ UNCHANGED <<redis, denylist>>
               /\ attempts'[Mine] # None => attempts[Mine] # None \/ tokens = <<>>
               /\ tokens' = <<>> => tokens = <<>>
    BY <1>1, TabStays
<1>3. CASE Environment
  <2>1. redis /\ redis'
      BY <1>3 DEF Environment, SessionOK, Serving
  <2>. QED BY <1>3, <2>1 DEF Environment, Tick, RedisDown, RedisUp, accountVars
<1>4. CASE ColdStart \/ UNCHANGED vars \/ Administration
    BY <1>4 DEF ColdStart, vars, Administration, ReadTarget, WriteRole, PromoteInDatabase,
                serverVars, fixed, accountVars
<1>5. CASE SignIn
    BY <1>5 DEF SignIn, serverVars
<1>6. CASE Restart
    BY <1>1, <1>6 DEF Restart, RestartAttempts
<1>7. ASSUME NEW a \in Attempts, Others(a)
      PROVE  /\ UNCHANGED <<redis, denylist>>
             /\ attempts'[Mine] # None => attempts[Mine] # None \/ tokens = <<>>
             /\ tokens' = <<>> => tokens = <<>>
    BY <1>7 DEF Others, serverVars
<1>8. ASSUME NEW a \in Attempts, Login(a)
      PROVE  /\ UNCHANGED <<redis, denylist>>
             /\ attempts'[Mine] # None => attempts[Mine] # None \/ tokens = <<>>
             /\ tokens' = <<>> => tokens = <<>>
  <2>1. CASE a # Mine \/ ~IssueTokens(a)
    <3>1. CountHit(a) \/ StampHit(a) \/ ReadUser(a)
        BY <1>8, <2>1 DEF Login
    <3>2. UNCHANGED serverVars /\ attempts[a] # None
        BY <3>1 DEF CountHit, StampHit, ReadUser
    <3>3. \A b \in Attempts \ {a} : attempts'[b] = attempts[b]
        BY <1>1, <3>1 DEF CountHit, StampHit, ReadUser, Decide, EndsWith, GoesOn
    <3>. QED BY <1>1, <3>2, <3>3 DEF serverVars
  <2>2. CASE a = Mine /\ IssueTokens(a)
    <3>1. attempts[Mine] # None /\ UNCHANGED <<redis, denylist>>
        BY <2>2 DEF IssueTokens
    <3>2. Len(tokens) <= Len(tokens') /\ Len(tokens) \in Nat /\ tokens \in Seq(Token)
        BY Lengths DEF Later, Typed, ServerTypeOK
    <3>3. tokens' = <<>> => tokens = <<>>
        BY <3>2
    <3>. QED BY <3>1, <3>3
  <2>. QED BY <2>1, <2>2
<1>. QED BY <1>3, <1>4, <1>5, <1>6, <1>7, <1>8

\* Revocations are a logout's.
LEMMA NoRevocations ==
    ASSUME Typed, SessionOK, NEW i \in Calls
    PROVE  ~RevokeAccess(i) /\ ~RevokeRefresh(i)
    BY FairCall DEF RevokeAccess, RevokeRefresh, CallFair

LEMMA LostOnlyAtTheEnd ==
    ASSUME ~lost, Reload \/ ClearShared \/ ServeRefresh \/ SignShared \/ SignedIn
                  \/ \E i \in Calls : \/ Serve(i) \/ SignRestored(i) \/ Restored(i) \/ Join(i)
                                      \/ Replay(i)
                                      \/ \E kind \in {"query", "write", "logout"} : Start(i, kind)
    PROVE  ~lost'
    BY DEF Reload, ClearShared, ServeRefresh, SignShared, SignedIn, Serve, SignRestored, Restored,
           Join, Replay, Start

LEMMA StepKeeps ==
    ASSUME Typed, SessionOK, ~lost, ~excused', [Next]_vars
    PROVE  SessionOK' /\ ~lost'
<1>1. Later
    BY StepsAreLater
<1>2. CASE \/ Environment \/ ColdStart \/ UNCHANGED vars
           \/ Restart \/ Administration \/ SignIn
           \/ \E a \in Attempts : Login(a) \/ Others(a)
    BY <1>1, <1>2, QuietKeeps
<1>3. CASE ServeRefresh \/ SignShared \/ ClearShared
    BY <1>1, <1>3, SharedKeeps, LostOnlyAtTheEnd
<1>4. CASE SignedIn \/ Reload
    BY <1>1, <1>4, SignedInKeeps, ReloadKeeps, LostOnlyAtTheEnd
<1>5. ~RefreshFails
    BY DEF RefreshFails
<1>6. ASSUME NEW i \in Calls,
             \/ Serve(i) \/ RevokeAccess(i) \/ RevokeRefresh(i) \/ SignRestored(i) \/ CallFails(i)
      PROVE  SessionOK' /\ ~lost'
  <2>1. ~CallFails(i)
      BY DEF CallFails
  <2>. QED BY <1>1, <1>6, <2>1, NoRevocations, ServeKeeps, SignRestoredKeeps, LostOnlyAtTheEnd
<1>7. ASSUME NEW i \in Calls, NEW kind \in {"query", "write", "logout"}, Start(i, kind)
      PROVE  SessionOK' /\ ~lost'
  <2>1. kind \in {"query", "write"}
      BY <1>7 DEF Start
  <2>. QED BY <1>1, <1>7, <2>1, StartKeeps, LostOnlyAtTheEnd
<1>8. ASSUME NEW i \in Calls, Restored(i) \/ Join(i) \/ Replay(i)
      PROVE  SessionOK' /\ ~lost'
    BY <1>1, <1>8, RestoredKeeps, JoinKeeps, ReplayKeeps, LostOnlyAtTheEnd
<1>9. ASSUME NEW i \in Calls, Finish(i) \/ Lost(i)
      PROVE  SessionOK' /\ ~lost'
    BY <1>1, <1>9, FinishKeeps, LostKeeps
<1>. QED BY <1>2, <1>3, <1>4, <1>5, <1>6, <1>7, <1>8, <1>9 DEF Next, Api, Tab

\* Once something has failed or the user has logged out, nothing counts as lost.
LEMMA ExcusesStay ==
    ASSUME [Next]_vars, ~lost
    PROVE  (excused => excused') /\ (excused' => ~lost')
<1>1. CASE Environment
  <2>1. excused' = (excused \/ ~redis') /\ lost' = lost
      BY <1>1 DEF Environment
  <2>. QED BY <2>1
<1>2. CASE \/ ColdStart \/ UNCHANGED vars \/ ServeRefresh \/ SignShared \/ ClearShared
           \/ Restart \/ Administration \/ SignIn \/ SignedIn \/ Reload
           \/ \E a \in Attempts : Login(a) \/ Others(a)
  <2>1. excused' = excused /\ lost' = lost
      BY <1>2 DEF ColdStart, vars, ServeRefresh, SignShared, ClearShared, Restart, Administration,
                  SignIn, SignedIn, Reload, Login, Others, clientVars
  <2>. QED BY <2>1
<1>3. CASE RefreshFails \/ \E i \in Calls : CallFails(i)
  <2>1. excused' = TRUE /\ lost' = lost
      BY <1>3 DEF RefreshFails, CallFails
  <2>. QED BY <2>1
<1>4. CASE \E i \in Calls : \/ Serve(i) \/ RevokeAccess(i) \/ RevokeRefresh(i) \/ SignRestored(i)
                            \/ Restored(i) \/ Join(i) \/ Replay(i)
  <2>1. excused' = excused /\ lost' = lost
      BY <1>4 DEF Serve, RevokeAccess, RevokeRefresh, SignRestored, Restored, Join, Replay
  <2>. QED BY <2>1
<1>5. ASSUME NEW i \in Calls, NEW kind \in {"query", "write", "logout"}, Start(i, kind)
      PROVE  (excused => excused') /\ (excused' => ~lost')
  <2>1. excused' = (excused \/ kind = "logout") /\ lost' = lost
      BY <1>5 DEF Start
  <2>. QED BY <2>1
<1>6. ASSUME NEW i \in Calls, Finish(i) \/ Lost(i)
      PROVE  (excused => excused') /\ (excused' => ~lost')
  <2>1. excused' = excused /\ (lost' => lost \/ ~excused)
      BY <1>6 DEF Finish, Lost, Unexcused
  <2>. QED BY <2>1
<1>. QED BY <1>1, <1>2, <1>3, <1>4, <1>5, <1>6 DEF Next, Api, Tab

\* refreshAccessToken, request and restore: the user is not signed out while
\* the refresh token is good and nothing has failed, for any number of calls
\* that overlap, any lives of the tokens and any number of reloads.
THEOREM SessionsSurvive == Spec => []SessionSurvives
<1>1. Init => Kept
    BY DEF Init, ServerInit, AccountsInit, Kept, SessionOK, NoSession, Idle, Serving, Alone,
           SharedFair, CallsFair, InFlight
<1>2. Typed /\ Kept /\ [Next]_vars => Kept'
  <2>1. Kept /\ [Next]_vars => (excused => excused') /\ (excused' => ~lost')
      BY ExcusesStay DEF Kept
  <2>2. Typed /\ Kept /\ [Next]_vars /\ ~excused /\ ~excused' => SessionOK' /\ ~lost'
      BY StepKeeps DEF Kept
  <2>. QED BY <2>1, <2>2 DEF Kept
<1>3. Kept => SessionSurvives
    BY DEF Kept, SessionSurvives
<1>. QED BY <1>1, <1>2, <1>3, TypeCorrect, PTL DEF Spec

=============================================================================
