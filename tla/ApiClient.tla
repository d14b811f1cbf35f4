----------------------------- MODULE ApiClient -----------------------------
(***************************************************************************)
(* The browser's API client and the session of one tab, over the API of    *)
(* modules Sessions and Accounts.                                          *)
(*                                                                         *)
(*   frontend/src/lib/api.js       raw, request, refreshAccessToken, the   *)
(*                                 cold-start signal                       *)
(*   frontend/src/store/auth.js    login, logout, restore                  *)
(*   frontend/src/App.jsx          RequireAuth, RedirectIfAuthed           *)
(*                                                                         *)
(* Calls overlap. One that is answered 401 joins the refresh under way, or *)
(* starts it, and is sent once more with the token the tab then has.       *)
(***************************************************************************)
EXTENDS Accounts

CONSTANTS
    Calls,     \* slots for calls under way
    Worlds,    \* the instances Init chooses from: sets of what may happen
    MaxReloads \* bound: reloads of the tab

Happenings == {"redis",   \* Redis stops answering
               "network", \* a request or its answer is lost
               "logout", "reload", \* the user does so
               "slow",    \* calls outlast COLD_START_AFTER_MS
               "limit",   \* others sign in from the same address, and no calls are made
               "restart", \* the API's process is started again
               "roles"}   \* an administrator changes the role; the calls are writes

ASSUME ClientAssumption == Worlds \subseteq SUBSET Happenings /\ MaxReloads \in Nat

VARIABLES
    world,      \* the instance
    access,     \* the access token in memory
    refresh,    \* the refresh token in sessionStorage
    signedIn,   \* isAuthenticated
    initialising,
    calls,      \* calls under way
    shared,     \* refreshInFlight
    coldTimer,  \* "none", "running", or "fired" until it is cleared
    isCold,
    reloads,    \* reloads so far, for MaxReloads
    excused,    \* history: something failed, or the user logged out
    lost        \* history: the session ended without any of that

storeVars  == <<access, refresh, signedIn, initialising>>
coldVars   == <<coldTimer, isCold>>
fixed      == <<world, accountVars>>
clientVars == <<world, storeVars, calls, shared, coldVars, reloads, excused, lost>>
vars       == <<serverVars, accountVars, clientVars>>

\* "me" is the request that confirms a restored session.
Kinds == {"query", "write", "logout", "restore", "me"}
Call  == [kind : Kinds, retry : BOOLEAN,
          token : Jtis \union {None}, \* the Authorization header
          body  : Jtis \union {None}, \* a refresh token in the body
          pc : {"sent", "revokeAccess", "revokeRefresh", "sign", "answered", "waiting"},
          status : {0, 200, 401, 403, 503}, \* 0: the fetch itself failed
          role : Roles \union {None}] \* what the API read for the token it signs

\* token is the refresh token it was started with; result is the new token.
Refresh == [pc : {"sent", "sign", "done"}, token : Jtis, result : Jtis \union {None},
            role : Roles \union {None}]

ASSUME CallsNoneAssumption == Calls # {} /\ None \notin Call \union Refresh

InFlight == {i \in Calls : calls[i] # None}

\* Where the routes lead: RequireAuth and RedirectIfAuthed.
Screen == IF initialising THEN "restoring" ELSE IF signedIn THEN "app" ELSE "login"

-----------------------------------------------------------------------------
(* The cold-start signal.                                                  *)

\* Mutant: the flag is cleared, and the timer is left to fire.
Quiet_TimerRuns == coldTimer' = coldTimer /\ isCold' = FALSE

\* requestFinished, of the last request
Quiet == coldTimer' = "none" /\ isCold' = FALSE

requestStarted(i) ==
    /\ coldTimer' = IF InFlight = {} /\ coldTimer = "none" THEN "running" ELSE coldTimer
    /\ UNCHANGED isCold

requestFinished(i) == IF InFlight = {i} THEN Quiet ELSE UNCHANGED coldVars

\* The timer fires for as long as its handle has not been cleared.
ColdStart ==
    /\ "slow" \in world
    /\ coldTimer = "running" /\ coldTimer' = "fired" /\ isCold' = TRUE
    /\ UNCHANGED <<serverVars, fixed, storeVars, calls, shared, reloads, excused, lost>>

-----------------------------------------------------------------------------
(* Calls.                                                                  *)

Sent(kind, token, body, retry) ==
    [kind |-> kind, retry |-> retry, token |-> token, body |-> body, pc |-> "sent",
     status |-> 0, role |-> None]

\* A user's call, from a screen that offers it. (A bound: one write at a time.)
Start(i, kind) ==
    /\ calls[i] = None /\ Screen = "app" /\ "limit" \notin world
    /\ kind # "logout" => kind = IF "roles" \in world THEN "write" ELSE "query"
    /\ kind = "write" => InFlight = {}
    /\ kind = "logout" => "logout" \in world
                          /\ \A j \in InFlight : calls[j].kind # "logout"
    /\ calls' = [calls EXCEPT ![i] =
          Sent(kind, access, IF kind = "logout" THEN refresh ELSE None, FALSE)]
    /\ requestStarted(i)
    /\ excused' = (excused \/ kind = "logout")
    /\ UNCHANGED <<serverVars, fixed, storeVars, shared, reloads, lost>>

\* One of the attempts is the tab's.
Mine == CHOOSE a \in Attempts : TRUE

\* store login: the form waits for the answer. (A bound: one session.)
SignIn ==
    /\ tokens = <<>> /\ Screen = "login"
    /\ SendAttempt(Mine, IF "limit" \in world THEN "count" ELSE "read")
    /\ UNCHANGED <<serverVars, roleVars, limitVars, clientVars>>

\* The answer: an error stays on the form. (A bound, that of SignIn, ends a wait.)
SignedIn ==
    /\ attempts[Mine] # None /\ attempts[Mine].pc = "answered"
    /\ attempts' = [attempts EXCEPT ![Mine] = None]
    /\ IF attempts[Mine].status = 200
       THEN access' = 1 /\ refresh' = 2 /\ signedIn' = TRUE /\ UNCHANGED initialising
       ELSE UNCHANGED storeVars
    /\ UNCHANGED <<serverVars, roleVars, limitVars, world, calls, shared, coldVars, reloads,
                   excused, lost>>

\* The tab is loaded again: what was in memory is gone. (A bound: no logout or
\* refresh is under way then.)
Reload ==
    /\ "reload" \in world /\ reloads < MaxReloads /\ shared = None
    /\ attempts[Mine] = None /\ \A i \in InFlight : calls[i].kind \in {"query", "write"}
    /\ reloads' = reloads + 1
    /\ access' = None /\ signedIn' = FALSE /\ initialising' = (refresh # None)
    /\ LET i == CHOOSE i \in Calls : TRUE
       IN  /\ calls' = [j \in Calls |-> IF j = i /\ refresh # None
                           THEN Sent("restore", None, refresh, FALSE) ELSE None]
           /\ coldTimer' = IF refresh # None THEN "running" ELSE "none"
    /\ isCold' = FALSE
    /\ UNCHANGED <<serverVars, fixed, refresh, shared, excused, lost>>

-----------------------------------------------------------------------------
(* The API's answers.                                                      *)

Answer(i, s) == calls' = [calls EXCEPT ![i] = [@ EXCEPT !.pc = "answered", !.status = s]]
Goes(i, pc)  == calls' = [calls EXCEPT ![i] = [@ EXCEPT !.pc = pc]]

\* authenticate for a call with a header, the check of the body for a restore
Serve(i) ==
    LET c == calls[i]
        t == IF c.kind = "restore" THEN c.body ELSE c.token
        k == IF c.kind = "restore" THEN "refresh" ELSE "access"
    IN  /\ c # None /\ c.pc = "sent"
        /\ Judge(t, k)
        /\ IF Verdict(t, k) # 200 THEN Answer(i, Verdict(t, k))
           ELSE CASE c.kind = "restore" ->
                        calls' = [calls EXCEPT ![i] = [@ EXCEPT !.pc = "sign", !.role = RoleRead]]
                  [] c.kind = "logout" -> Goes(i, "revokeAccess")
                  [] c.kind = "write" -> Answer(i, IF Allowed(t) THEN 200 ELSE 403)
                  [] OTHER -> Answer(i, 200)
        /\ IF c.kind = "write" /\ Verdict(t, k) = 200 THEN Gate(t) ELSE UNCHANGED accountVars
        /\ UNCHANGED <<world, storeVars, shared, coldVars, reloads, excused, lost>>

\* logoutUser: an error here fails the logout.
RevokeAccess(i) ==
    LET c == calls[i]
    IN  /\ c # None /\ c.pc = "revokeAccess"
        /\ revokeToken(c.token)
        /\ IF RevokeFails(c.token) THEN Answer(i, 503)
           ELSE IF c.body = None THEN Answer(i, 200) ELSE Goes(i, "revokeRefresh")
        /\ UNCHANGED <<fixed, storeVars, shared, coldVars, reloads, excused, lost>>

\* An error here is taken for an unusable refresh token and swallowed.
RevokeRefresh(i) ==
    LET c == calls[i]
    IN  /\ c # None /\ c.pc = "revokeRefresh"
        /\ IF Valid(c.body, "refresh") THEN revokeToken(c.body) ELSE UNCHANGED serverVars
        /\ Answer(i, 200)
        /\ UNCHANGED <<fixed, storeVars, shared, coldVars, reloads, excused, lost>>

\* refreshAccessToken, after the check and the lookup of the user
SignRestored(i) ==
    /\ calls[i] # None /\ calls[i].pc = "sign"
    /\ Sign(<<"access">>, calls[i].role)
    /\ calls' = [calls EXCEPT ![i] =
          [@ EXCEPT !.pc = "answered", !.status = 200, !.token = Newest]]
    /\ UNCHANGED <<now, denylist, queued, redis, confirmed, honoured, fixed, storeVars,
                   shared, coldVars, reloads, excused, lost>>

\* The request is lost, or its answer is.
CallFails(i) ==
    /\ "network" \in world /\ calls[i] # None
    /\ calls[i].pc = "sent" \/ (calls[i].pc = "answered" /\ calls[i].status # 0)
    /\ Answer(i, 0)
    /\ excused' = TRUE
    /\ UNCHANGED <<serverVars, fixed, storeVars, shared, coldVars, reloads, lost>>

-----------------------------------------------------------------------------
(* The shared refresh.                                                     *)

ServeRefresh ==
    /\ shared # None /\ shared.pc = "sent"
    /\ Judge(shared.token, "refresh")
    /\ shared' = IF Verdict(shared.token, "refresh") = 200
                 THEN [shared EXCEPT !.pc = "sign", !.role = RoleRead]
                 ELSE [shared EXCEPT !.pc = "done"]
    /\ UNCHANGED <<fixed, storeVars, calls, coldVars, reloads, excused, lost>>

SignShared ==
    /\ shared # None /\ shared.pc = "sign"
    /\ Sign(<<"access">>, shared.role)
    /\ access' = Newest
    /\ shared' = [shared EXCEPT !.pc = "done", !.result = Newest]
    /\ UNCHANGED <<now, denylist, queued, redis, confirmed, honoured, fixed, refresh,
                   signedIn, initialising, calls, coldVars, reloads, excused, lost>>

RefreshFails ==
    /\ "network" \in world /\ shared # None /\ shared.pc = "sent"
    /\ shared' = [shared EXCEPT !.pc = "done"]
    /\ excused' = TRUE
    /\ UNCHANGED <<serverVars, fixed, storeVars, calls, coldVars, reloads, lost>>

\* "Cleared on the next tick so simultaneous callers all read this result": a
\* timer, which runs when those that waited have read it.
ClearShared ==
    /\ shared # None /\ shared.pc = "done"
    /\ \A i \in InFlight : calls[i].pc # "waiting"
    /\ shared' = None
    /\ UNCHANGED <<serverVars, fixed, storeVars, calls, coldVars, reloads, excused, lost>>

-----------------------------------------------------------------------------
(* What the tab does with an answer.                                       *)

SignedOut == /\ access' = None /\ refresh' = None
             /\ signedIn' = FALSE /\ initialising' = FALSE

\* A history variable: nothing failed, the user stays, and the refresh token
\* could still be used.
Unexcused == (Screen # "login") /\ ~excused /\ redis /\ Valid(refresh, "refresh")

\* A call is replayed once; the token of the replay may have expired on its way.
Outrun(c) == c.retry /\ c.status = 401 /\ c.token = access /\ ~Valid(c.token, "access")

\* raw ends: logout clears the tab whatever the answer, restore unless it
\* succeeded.
Ends(i, status) ==
    /\ calls' = [calls EXCEPT ![i] = None]
    /\ requestFinished(i)
    /\ CASE calls[i].kind = "logout" -> SignedOut
         [] calls[i].kind = "me" /\ status = 200 ->
               signedIn' = TRUE /\ initialising' = FALSE /\ UNCHANGED <<access, refresh>>
         [] calls[i].kind \in {"me", "restore"} /\ status # 200 -> SignedOut
         [] OTHER -> UNCHANGED storeVars

\* restore goes on with GET /auth/me, a request of its own.
Restored(i) ==
    /\ calls[i] # None /\ calls[i].pc = "answered"
    /\ calls[i].kind = "restore" /\ calls[i].status = 200
    /\ access' = calls[i].token
    /\ calls' = [calls EXCEPT ![i] = Sent("me", access', None, FALSE)]
    /\ IF InFlight = {i} THEN coldTimer' = "running" /\ isCold' = FALSE
       ELSE UNCHANGED coldVars
    /\ UNCHANGED <<serverVars, fixed, refresh, signedIn, initialising, shared, reloads,
                   excused, lost>>

Refused(c) == c.status = 401 /\ ~c.retry

Finish(i) ==
    /\ calls[i] # None /\ calls[i].pc = "answered"
    /\ ~Refused(calls[i])
    /\ ~(calls[i].kind = "restore" /\ calls[i].status = 200)
    /\ Ends(i, calls[i].status)
    /\ lost' = (lost \/ (calls[i].kind \in {"me", "restore"}
                           /\ calls[i].status # 200 /\ ~Outrun(calls[i]) /\ Unexcused))
    /\ UNCHANGED <<serverVars, fixed, shared, reloads, excused>>

\* Mutant: a refresh that is under way answers null to those who come later.
Joins_First == shared = None

Joins == TRUE

CanRefresh == refresh # None

\* A 401 on the first attempt starts or joins the refresh.
Join(i) ==
    /\ calls[i] # None /\ calls[i].pc = "answered" /\ Refused(calls[i])
    /\ CanRefresh /\ Joins
    /\ Goes(i, "waiting")
    /\ shared' = IF shared # None THEN shared
                 ELSE [pc |-> "sent", token |-> refresh, result |-> None, role |-> None]
    /\ UNCHANGED <<serverVars, fixed, storeVars, coldVars, reloads, excused, lost>>

\* No refresh token, or the refresh did not succeed: the session is over.
Lost(i) ==
    /\ calls[i] # None
    /\ \/ calls[i].pc = "answered" /\ Refused(calls[i]) /\ ~(CanRefresh /\ Joins)
       \/ calls[i].pc = "waiting" /\ shared.pc = "done" /\ shared.result = None
    /\ calls' = [calls EXCEPT ![i] = None] /\ requestFinished(i)
    /\ SignedOut
    /\ lost' = (lost \/ Unexcused)
    /\ UNCHANGED <<serverVars, fixed, shared, reloads, excused>>

\* The request is replayed with the token the tab has by now.
Replay(i) ==
    /\ calls[i] # None /\ calls[i].pc = "waiting"
    /\ shared.pc = "done" /\ shared.result # None
    /\ calls' = [calls EXCEPT ![i] = Sent(@.kind, access, @.body, TRUE)]
    /\ UNCHANGED <<serverVars, fixed, storeVars, shared, coldVars, reloads, excused, lost>>

-----------------------------------------------------------------------------

Init ==
    /\ ServerInit /\ AccountsInit
    /\ world \in Worlds
    /\ access = None /\ refresh = None /\ signedIn = FALSE /\ initialising = FALSE
    /\ calls = [i \in Calls |-> None] /\ shared = None
    /\ coldTimer = "none" /\ isCold = FALSE
    /\ reloads = 0 /\ excused = FALSE /\ lost = FALSE

Environment ==
    /\ \/ Tick /\ UNCHANGED accountVars
       \/ "redis" \in world /\ RedisDown /\ UNCHANGED accountVars
       \/ RedisUp /\ LateCommands /\ UNCHANGED <<roleVars, attempts>>
    /\ excused' = (excused \/ ~redis')
    /\ UNCHANGED <<world, storeVars, calls, shared, coldVars, reloads, lost>>

\* (A bound: the API is started again while it serves nothing but sign-ins.)
Restart ==
    /\ "restart" \in world /\ InFlight = {} /\ shared = None
    /\ RestartAttempts
    /\ UNCHANGED clientVars

Signing == {a \in Attempts : attempts[a] # None /\ attempts[a].pc = "sign"}

\* The roles read for tokens that are not signed yet.
Unsigned == {attempts[a].role : a \in Signing}
            \union {calls[i].role : i \in {j \in InFlight : calls[j].pc = "sign"}}
            \union (IF shared # None /\ shared.pc = "sign" THEN {shared.role} ELSE {})

Administration ==
    /\ "roles" \in world
    /\ (\E to \in Roles : ReadTarget(to)) \/ WriteRole(Unsigned) \/ PromoteInDatabase
    /\ UNCHANGED clientVars

\* Others send attempts from the address, while the tab has no session; what
\* they sign is theirs.
Others(a) ==
    /\ "limit" \in world /\ a # Mine /\ tokens = <<>>
    /\ \/ SendAttempt(a, "count")
       \/ /\ attempts[a] # None
          /\ CASE attempts[a].pc = "sign" -> EndsWith(a, 200)
               [] attempts[a].pc = "answered" -> attempts' = [attempts EXCEPT ![a] = None]
               [] OTHER -> FALSE
    /\ UNCHANGED <<serverVars, roleVars, limitVars, clientVars>>

Login(a) == /\ \/ CountHit(a) \/ StampHit(a) \/ ReadUser(a)
               \/ a = Mine /\ IssueTokens(a)
            /\ UNCHANGED clientVars

Api == \/ ServeRefresh \/ SignShared \/ RefreshFails
       \/ \E i \in Calls : \/ Serve(i) \/ RevokeAccess(i) \/ RevokeRefresh(i)
                           \/ SignRestored(i) \/ CallFails(i)
       \/ \E a \in Attempts : Login(a) \/ Others(a)
       \/ Restart \/ Administration

Tab == \/ SignIn \/ SignedIn \/ Reload \/ ColdStart \/ ClearShared
       \/ \E i \in Calls : \/ \E kind \in {"query", "write", "logout"} : Start(i, kind)
                           \/ Restored(i) \/ Finish(i) \/ Join(i) \/ Lost(i) \/ Replay(i)

Next == Environment \/ Api \/ Tab

Spec == Init /\ [][Next]_vars

-----------------------------------------------------------------------------
(* Properties.                                                             *)

TypeOK ==
    /\ ServerTypeOK /\ AccountsTypeOK
    /\ world \in Worlds
    /\ {access, refresh} \subseteq Jtis \union {None}
    /\ {signedIn, initialising, isCold, excused, lost} \subseteq BOOLEAN
    /\ calls \in [Calls -> Call \union {None}]
    /\ shared \in Refresh \union {None}
    /\ coldTimer \in {"none", "running", "fired"} /\ reloads \in 0..MaxReloads

\* "without this they would each start their own refresh and all but one would
\* be invalidated": however calls, 401s, the shared refresh and replays
\* overlap, also across a reload, the user is not signed out while the refresh
\* token is good and nothing has failed. (One exception: the token of the one
\* replay that confirms a restored session expires before it arrives.)
SessionSurvives == ~lost

\* "anything still in flight after a short grace period flips this flag": the
\* notice never outlasts the calls it is about, nor starts after them.
ColdOnlyInFlight == coldTimer # "none" \/ isCold => InFlight # {}

=============================================================================
