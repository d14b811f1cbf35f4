------------------------------ MODULE Accounts ------------------------------
(***************************************************************************)
(* Signing in to an account, and the account's role: the limiter in front  *)
(* of the login, the login, role changes by an administrator, and the role *)
(* gate in front of a write.                                               *)
(*                                                                         *)
(*   backend/src/middleware/rateLimit.js                                   *)
(*   backend/src/middleware/requireRole.js                                 *)
(*   backend/src/modules/auth/auth.service.js   loginUser, updateUserRole  *)
(*   backend/src/modules/auth/auth.routes.js    the order of the two       *)
(*                                                                         *)
(* One address and one account. The limiter counts in the Redis of module  *)
(* Sessions and lets everyone through when it gets no answer; its commands *)
(* wait there too. An access token carries the role its account had when   *)
(* the login or the refresh read it. demoAccountLimit is the same limiter  *)
(* once more, with another key.                                            *)
(***************************************************************************)
EXTENDS Sessions

CONSTANTS
    Attempts, \* slots for sign-ins under way from the address
    MaxHits,  \* max, of one window
    Window    \* windowSeconds

ASSUME AccountsAssumption ==
    MaxHits \in Nat \ {0} /\ Window \in Nat \ {0} /\ Attempts # {}

Roles == {"ADMIN", "ANALYST", "VIEWER"}

\* role: the one loginUser read. status 0: not answered, or the API died.
Attempt == [pc : {"count", "stamp", "read", "sign", "answered"}, hits : Nat,
            role : Roles \union {None}, status : {0, 200, 401, 429}]

ASSUME AttemptsNoneAssumption == None \notin Attempt

VARIABLES
    role,       \* the account's role
    change,     \* the role an administrator's request is about to write, or None
    demotedAt,  \* history: when the account became a VIEWER
    raced,      \* history: it did so between a read of its role and the signing
    outlived,   \* history: a write of a VIEWER passed when no token should allow it
    counter,    \* the limiter's key: hits, 0 if there is none; expires, 0 for never
    attempts,   \* sign-ins under way
    lateHits, lateStamp, \* the limiter's commands that wait for Redis
    told        \* history: when the refused were told to retry, 0 in a new window

roleVars    == <<role, change, demotedAt, raced, outlived>>
limitVars   == <<counter, lateHits, lateStamp, told>>
accountVars == <<roleVars, limitVars, attempts>>

-----------------------------------------------------------------------------
(* The limiter.                                                            *)

Live == counter.hits > 0 /\ (counter.expires = 0 \/ now < counter.expires)

\* Redis' TTL: to the nearest second, up or down; -1 for a key without an
\* expiry.
KeyTTL == IF Live /\ counter.expires # 0
          THEN (counter.expires - now + Ticks \div 2) \div Ticks ELSE -1

\* Mutant: the hit that creates the key is the one that stamps it.
NeedsStamp_First(hits, ttl) == hits = 1

NeedsStamp(hits, ttl) == ttl < 0

\* (A bound: hits that change nothing any more are not sent.)
SendAttempt(a, pc) ==
    /\ attempts[a] = None
    /\ (IF Live THEN counter.hits ELSE 0) + lateHits <= MaxHits + 1
    /\ attempts' = [attempts EXCEPT ![a] = [pc |-> pc, hits |-> 0, role |-> None, status |-> 0]]

GoesOn(a, pc) == attempts' = [attempts EXCEPT ![a] = [@ EXCEPT !.pc = pc]]

EndsWith(a, s) ==
    attempts' = [attempts EXCEPT ![a] = [@ EXCEPT !.pc = "answered", !.status = s]]

\* 429 with a Retry-After, or on to the login
Decide(a, hits, ttl) ==
    IF hits > MaxHits THEN EndsWith(a, 429) /\ told' = After(ttl)
    ELSE GoesOn(a, "read") /\ UNCHANGED told

\* INCR and TTL in one MULTI; without an answer the limiter fails open.
CountHit(a) ==
    LET hits == IF Live THEN counter.hits + 1 ELSE 1
    IN  /\ attempts[a] # None /\ attempts[a].pc = "count"
        /\ IF redis
           THEN /\ counter' = [hits |-> hits, expires |-> IF Live THEN counter.expires ELSE 0]
                /\ IF NeedsStamp(hits, KeyTTL)
                   THEN /\ attempts' = [attempts EXCEPT ![a] = [@ EXCEPT !.pc = "stamp", !.hits = hits]]
                        /\ told' = IF Live THEN told ELSE 0
                   ELSE Decide(a, hits, KeyTTL)
                /\ UNCHANGED lateHits
           ELSE /\ lateHits' = lateHits + 1 /\ GoesOn(a, "read")
                /\ UNCHANGED <<counter, told>>
        /\ UNCHANGED <<serverVars, roleVars, lateStamp>>

\* EXPIRE. One that comes when another has stamped the key extends the window.
Stamped == IF Live THEN [counter EXCEPT !.expires = After(Window)] ELSE counter

StampHit(a) ==
    /\ attempts[a] # None /\ attempts[a].pc = "stamp"
    /\ IF redis
       THEN /\ counter' = Stamped
            /\ IF attempts[a].hits > MaxHits THEN Decide(a, attempts[a].hits, Window)
               ELSE GoesOn(a, "read") /\ told' = 0
            /\ UNCHANGED lateStamp
       ELSE lateStamp' = TRUE /\ GoesOn(a, "read") /\ UNCHANGED <<counter, told>>
    /\ UNCHANGED <<serverVars, roleVars, lateHits>>

\* Redis is back and runs what waits: hits that make no one wait, and a stamp
\* that may find no key yet.
LateCommands ==
    /\ counter' \in
          LET hits    == (IF Live THEN counter.hits ELSE 0) + lateHits
              expires == IF Live THEN counter.expires ELSE 0
          IN  {[hits |-> hits, expires |-> e] :
                  e \in (IF lateStamp /\ hits > 0 THEN {After(Window)} ELSE {expires})
                         \union (IF lateStamp /\ ~Live THEN {expires} ELSE {})}
    /\ told' = IF lateStamp \/ (lateHits > 0 /\ ~Live) THEN 0 ELSE told
    /\ lateHits' = 0 /\ lateStamp' = FALSE

-----------------------------------------------------------------------------
(* The login and the role.                                                 *)

CanWrite(r) == r \in {"ADMIN", "ANALYST"}

ASSIGNABLE_ROLES == {"ANALYST", "VIEWER"}

\* Mutant: a new token takes the role of the one before it.
RoleRead_FromToken ==
    IF tokens = <<>> THEN role
    ELSE tokens[CHOOSE t \in 1..Len(tokens) :
                   /\ tokens[t].kind = "access"
                   /\ \A u \in (t + 1)..Len(tokens) : tokens[u].kind # "access"].role

\* The role a login or a refresh finds in the database.
RoleRead == role

\* loginUser: the user is read, then the password is compared.
ReadUser(a) ==
    /\ attempts[a] # None /\ attempts[a].pc = "read"
    /\ \/ attempts' = [attempts EXCEPT ![a] = [@ EXCEPT !.pc = "sign", !.role = RoleRead]]
       \/ EndsWith(a, 401)
    /\ UNCHANGED <<serverVars, roleVars, limitVars>>

\* issueTokenPair, for a client whose tokens are followed
IssueTokens(a) ==
    /\ attempts[a] # None /\ attempts[a].pc = "sign"
    /\ Sign(<<"access", "refresh">>, attempts[a].role)
    /\ EndsWith(a, 200)
    /\ UNCHANGED <<now, denylist, queued, redis, confirmed, honoured, roleVars, limitVars>>

\* The process is started again: what it was doing is gone, and so are the
\* commands that waited in it.
RestartAttempts ==
    /\ attempts' = [a \in Attempts |->
          IF attempts[a] # None /\ attempts[a].pc # "answered"
          THEN [attempts[a] EXCEPT !.pc = "answered", !.status = 0] ELSE attempts[a]]
    /\ queued' = {} /\ lateHits' = 0 /\ lateStamp' = FALSE
    /\ UNCHANGED <<now, tokens, denylist, redis, confirmed, honoured, roleVars, counter, told>>

\* updateUserRole reads the account, refuses an administrator's, and writes
\* whatever has become of it since. A role it already has is left alone.
ReadTarget(to) ==
    /\ to \in ASSIGNABLE_ROLES
    /\ change = None /\ role # "ADMIN" /\ role # to
    /\ change' = to
    /\ UNCHANGED <<serverVars, role, demotedAt, raced, outlived, limitVars, attempts>>

\* unsigned: the roles that have been read for tokens not signed yet
WriteRole(unsigned) ==
    /\ change # None /\ role' = change /\ change' = None
    /\ demotedAt' = IF CanWrite(role) /\ ~CanWrite(change) THEN now ELSE demotedAt
    /\ raced' = (raced \/ (~CanWrite(change) /\ \E r \in unsigned : CanWrite(r)))
    /\ UNCHANGED <<serverVars, outlived, limitVars, attempts>>

\* "Promotion stays a deliberate database action."
PromoteInDatabase ==
    /\ role # "ADMIN" /\ role' = "ADMIN"
    /\ UNCHANGED <<serverVars, change, demotedAt, raced, outlived, limitVars, attempts>>

\* requireRole goes by the token.
Allowed(t) == CanWrite(tokens[t].role)

\* A write has passed authenticate.
Gate(t) ==
    /\ outlived' = (outlived \/ (/\ Allowed(t) /\ ~CanWrite(role) /\ ~raced
                                 /\ now >= demotedAt + Ticks * AccessTTL))
    /\ UNCHANGED <<role, change, demotedAt, raced, limitVars, attempts>>

-----------------------------------------------------------------------------

AccountsInit ==
    /\ role = "ANALYST" /\ change = None /\ demotedAt = 0
    /\ raced = FALSE /\ outlived = FALSE
    /\ counter = [hits |-> 0, expires |-> 0] /\ lateHits = 0 /\ lateStamp = FALSE
    /\ attempts = [a \in Attempts |-> None] /\ told = 0

AccountsTypeOK ==
    /\ role \in Roles /\ change \in Roles \union {None} /\ demotedAt \in Nat
    /\ {raced, outlived, lateStamp} \subseteq BOOLEAN
    /\ counter \in [hits : Nat, expires : Nat] /\ lateHits \in Nat
    /\ attempts \in [Attempts -> Attempt \union {None}] /\ told \in Nat

\* "the whole window then evaporates on its own": who is refused and waits for
\* as long as Retry-After says, and half a second that TTL may have rounded
\* away, finds that window over, though the process died or Redis went away
\* between INCR and EXPIRE, or late hits filled the counter. (A second EXPIRE
\* that is still on its way may extend the window.)
RetryAfterIsHonest == told # 0 /\ now >= told + Ticks \div 2 => ~Live

\* Roles come from the token, not from the database: a VIEWER's writes stop
\* when the access tokens of the role before have expired, through refreshes,
\* sign-ins and reloads, unless the demotion fell between the read of the role
\* and the signing.
DemotionTakesEffect == ~outlived

=============================================================================
