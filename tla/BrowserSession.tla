--------------------------- MODULE BrowserSession ---------------------------
(***************************************************************************)
(* The sign-in of one browser tab: src/public/app.js.  The tab holds a     *)
(* session (state.auth, copied to sessionStorage), a workspace it loaded   *)
(* (state.admin) and the calls it awaits: sign-ins, sign-outs, the shared  *)
(* refresh of an expiring access token, and the workspace requests that    *)
(* need one.  Answers arrive in any order, whatever the tab did meanwhile. *)
(*                                                                         *)
(* The authentication service is external, modelled from the calls the tab *)
(* makes: it names a sign-in by a number, hands out one refresh token per  *)
(* generation of a session and takes each of them once.  The configuration *)
(* of the page is a valid one (requireAuthConfig throws on every call of a *)
(* page without one).                                                      *)
(***************************************************************************)
EXTENDS Integers, FiniteSets, Sequences

CONSTANTS
    MaxSignIns,     \* bound: sign-ins the service answers
    MaxNow,         \* bound: the clock
    Requests,       \* names of the workspace requests a tab can have open
    Lifetime,       \* of an access token
    Leeway          \* the minute by which a token must outlive its use

ASSUME SessionAssumption ==
    /\ MaxSignIns \in Nat \ {0}
    /\ MaxNow \in Nat
    /\ Leeway \in Nat
    /\ Lifetime \in Nat
    /\ Lifetime > Leeway

VARIABLES
    now,        \* Date.now()
    auth,       \* state.auth
    store,      \* sessionStorage.tmAdminAuthSession
    admin,      \* state.admin: the sign-in whose token fetched it
    promise,    \* authRefreshPromise # null
    signIns,    \* password grants the tab awaits
    logouts,    \* signOutAdmin calls in their await
    refreshes,  \* refreshAdminSession calls in their await
    calls,      \* workspace requests in an await, by name
    out,        \* history: a sign-out was reported and nobody signed in since
    generation, \* external: the refresh token each sign-in's session takes next
    revoked,    \* external: the sign-ins whose session was logged out
    lost        \* history: sign-ins whose refresh a page reload cut off

tab == <<auth, store, admin, promise, signIns, logouts, refreshes, calls, out>>
vars == <<now, tab, generation, revoked, lost>>
-----------------------------------------------------------------------------
None == [by |-> 0]

Sessions == [by: 1..MaxSignIns, gen: Nat, expires: Nat, refreshable: BOOLEAN]

\* A mutant: a session that comes without a lifetime is kept without one.
SessionUntimed(by, gen, expires, refreshable) ==
    [by |-> by, gen |-> gen, expires |-> -1, refreshable |-> refreshable]

\* state.auth after normalizeAuthSession: who signed in, which generation of
\* the session, when its access token expires and whether it can be renewed.
Session(by, gen, expires, refreshable) ==
    [by |-> by, gen |-> gen, expires |-> expires, refreshable |-> refreshable]

Ops == {"load", "save"}

\* A request: its operation, whether it awaits the refresh or its answer, the
\* sign-in of the token it was sent with, and whether a save is to follow it
\* (sendAdminOperations of a tab without a workspace loads one first).
Request(op, at, by, then) == [op |-> op, at |-> at, by |-> by, then |-> then]
Idle == Request("load", "idle", 0, FALSE)

TypeOK ==
    /\ now \in 0..MaxNow
    /\ auth \in Sessions \cup {None}
    /\ store \in Sessions \cup {None}
    /\ admin \in 0..MaxSignIns
    /\ {promise, out} \subseteq BOOLEAN
    /\ signIns \in Nat
    /\ logouts \subseteq 1..MaxSignIns
    /\ refreshes \subseteq
         [by: 1..MaxSignIns, gen: Nat, at: {"asked", "granted"}, expires: Nat]
    /\ calls \in [Requests -> [op: Ops, at: {"idle", "token", "answer"},
                               by: 0..MaxSignIns, then: BOOLEAN]]
    /\ generation \in Seq(Nat)
    /\ revoked \subseteq 1..MaxSignIns
    /\ lost \subseteq 1..MaxSignIns

Init ==
    /\ now = 0
    /\ auth = None
    /\ store = None
    /\ admin = 0
    /\ promise = FALSE
    /\ signIns = 0
    /\ logouts = {}
    /\ refreshes = {}
    /\ calls = [r \in Requests |-> Idle]
    /\ out = FALSE
    /\ generation = <<>>
    /\ revoked = {}
    /\ lost = {}

Tick ==
    /\ now < MaxNow
    /\ now' = now + 1
    /\ UNCHANGED <<tab, generation, revoked, lost>>
-----------------------------------------------------------------------------
(* The session and its copy.                                               *)

\* saveAuthSession.
Save(s) == auth' = s /\ store' = s

\* clearAuthSession.
Clear == auth' = None /\ store' = None
-----------------------------------------------------------------------------
(* Sign-in and sign-out.                                                   *)

\* The form of signInAdmin, which renderAuthStatus shows while signed out; a
\* second submit is not held back while the first awaits its answer.
SignIn ==
    /\ auth = None
    /\ signIns + Len(generation) < MaxSignIns
    /\ signIns' = signIns + 1
    /\ UNCHANGED <<now, auth, store, admin, promise, logouts, refreshes, calls,
                   out, generation, revoked, lost>>

SignInAnswers ==
    /\ signIns > 0
    /\ signIns' = signIns - 1
    /\ \/ \E refreshable \in BOOLEAN :
            /\ Save(Session(Len(generation) + 1, 1, now + Lifetime, refreshable))
            /\ generation' = Append(generation, 1)
            /\ out' = FALSE
       \/ UNCHANGED <<auth, store, out, generation>>   \* refused: showError
    /\ UNCHANGED <<now, admin, promise, logouts, refreshes, calls, revoked, lost>>

\* signOutAdmin up to its await: the button is enabled while signed in.
SignOut ==
    /\ auth # None
    /\ logouts' = logouts \cup {auth.by}
    /\ UNCHANGED <<now, auth, store, admin, promise, signIns, refreshes, calls,
                   out, generation, revoked, lost>>

\* External: the service ends the session.
ServiceEndsSession ==
    /\ \E by \in logouts \ revoked : revoked' = revoked \cup {by}
    /\ UNCHANGED <<now, tab, generation, lost>>

\* The finally of signOutAdmin, whether the service answered or not.
SignOutEnds ==
    /\ \E by \in logouts : logouts' = logouts \ {by}
    /\ Clear
    /\ admin' = 0
    /\ out' = TRUE
    /\ UNCHANGED <<now, promise, signIns, refreshes, calls, generation, revoked,
                   lost>>
-----------------------------------------------------------------------------
(* The access token of a request.                                          *)

\* getAdminAccessToken: the minute the token must still live.
Fresh(s) == s.expires > now + Leeway

\* A mutant: every caller starts a refresh of its own.
AskForTokenEach(r, c) ==
    \/ /\ auth # None
       /\ Fresh(auth)
       /\ calls' = [calls EXCEPT ![r] = [c EXCEPT !.at = "answer", !.by = auth.by]]
       /\ UNCHANGED <<auth, store, promise, refreshes>>
    \/ /\ auth # None
       /\ ~Fresh(auth)
       /\ auth.refreshable
       /\ promise' = TRUE
       /\ refreshes' = refreshes \cup
            {[by |-> auth.by, gen |-> auth.gen, at |-> "asked", expires |-> 0]}
       /\ calls' = [calls EXCEPT ![r] = [c EXCEPT !.at = "token"]]
       /\ UNCHANGED <<auth, store>>

\* getAdminAccessToken for request r, which becomes c: no session, no
\* request; a token that lives long enough is sent at once; an expiring one
\* ends the session if it cannot be renewed; else the request joins the
\* refresh under way or starts it.
AskForToken(r, c) ==
    \/ /\ auth = None
       /\ calls' = [calls EXCEPT ![r] = Idle]
       /\ UNCHANGED <<auth, store, promise, refreshes>>
    \/ /\ auth # None
       /\ Fresh(auth)
       /\ calls' = [calls EXCEPT ![r] = [c EXCEPT !.at = "answer", !.by = auth.by]]
       /\ UNCHANGED <<auth, store, promise, refreshes>>
    \/ /\ auth # None
       /\ ~Fresh(auth)
       /\ ~auth.refreshable
       /\ Clear
       /\ calls' = [calls EXCEPT ![r] = Idle]
       /\ UNCHANGED <<promise, refreshes>>
    \/ /\ auth # None
       /\ ~Fresh(auth)
       /\ auth.refreshable
       /\ promise' = TRUE
       /\ refreshes' = IF promise THEN refreshes ELSE refreshes \cup
            {[by |-> auth.by, gen |-> auth.gen, at |-> "asked", expires |-> 0]}
       /\ calls' = [calls EXCEPT ![r] = [c EXCEPT !.at = "token"]]
       /\ UNCHANGED <<auth, store>>

\* loadAdmin: the button, whose handler asks for a token first.
Load(r) ==
    /\ calls[r] = Idle
    /\ AskForToken(r, Request("load", "token", 0, FALSE))
    /\ UNCHANGED <<now, admin, signIns, logouts, out, generation, revoked, lost>>

\* sendAdminOperations: refused while signed out (canSubmitAdminOperation);
\* without a workspace it awaits loadAdmin and goes on after it.
SaveBatch(r) ==
    /\ calls[r] = Idle
    /\ auth # None
    /\ AskForToken(r, IF admin = 0 THEN Request("load", "token", 0, TRUE)
                                   ELSE Request("save", "token", 0, FALSE))
    /\ UNCHANGED <<now, admin, signIns, logouts, out, generation, revoked, lost>>
-----------------------------------------------------------------------------
(* The refresh.                                                            *)

\* External: the service takes the refresh token of a live session once.
ServiceRefreshes ==
    /\ \E f \in refreshes :
         /\ f.at = "asked"
         /\ f.by \notin revoked
         /\ f.gen = generation[f.by]
         /\ generation' = [generation EXCEPT ![f.by] = @ + 1]
         /\ refreshes' = (refreshes \ {f}) \cup
              {[f EXCEPT !.at = "granted", !.gen = @ + 1, !.expires = now + Lifetime]}
    /\ UNCHANGED <<now, auth, store, admin, promise, signIns, logouts, calls, out,
                   revoked, lost>>

\* The requests that awaited the refresh go on with the token of state.auth,
\* sign-in s.  The body of a save reads state.admin only now: without a
\* workspace it throws, and the request ends.
Woken(s) ==
    [r \in Requests |->
        IF calls[r].at # "token" THEN calls[r]
        ELSE IF calls[r].op = "save" /\ admin = 0 THEN Idle
        ELSE [calls[r] EXCEPT !.at = "answer", !.by = s]]

\* Every request that awaited the refresh ends with its error.
Rejected == [r \in Requests |-> IF calls[r].at = "token" THEN Idle ELSE calls[r]]

\* refreshAdminSession with a new session: it is saved whatever the tab did
\* since it asked.
RefreshSucceeds ==
    /\ \E f \in refreshes :
         /\ f.at = "granted"
         /\ refreshes' = refreshes \ {f}
         /\ Save(Session(f.by, f.gen, f.expires, TRUE))
         /\ calls' = Woken(f.by)
    /\ promise' = FALSE
    /\ UNCHANGED <<now, admin, signIns, logouts, out, generation, revoked, lost>>

\* A mutant: the waiting requests are not told that the refresh failed.
RefreshFailsSilently ==
    /\ \E f \in refreshes : refreshes' = refreshes \ {f}
    /\ Clear
    /\ promise' = FALSE
    /\ UNCHANGED <<now, admin, signIns, logouts, calls, out, generation, revoked,
                   lost>>

\* refreshAdminSession with an error: the service refused, or the network lost
\* the question or the answer.  The session is cleared, whoever's it is now.
RefreshFails ==
    /\ \E f \in refreshes : refreshes' = refreshes \ {f}
    /\ Clear
    /\ promise' = FALSE
    /\ calls' = Rejected
    /\ UNCHANGED <<now, admin, signIns, logouts, out, generation, revoked, lost>>
-----------------------------------------------------------------------------
(* The answers to the workspace requests.                                  *)

\* The workspace, or the saved one, becomes state.admin; a save that waited
\* for this load now asks for its own token.
RequestSucceeds(r) ==
    /\ calls[r].at = "answer"
    /\ admin' = calls[r].by
    /\ IF calls[r].then
         THEN AskForToken(r, Request("save", "token", 0, FALSE))
         ELSE /\ calls' = [calls EXCEPT ![r] = Idle]
              /\ UNCHANGED <<auth, store, promise, refreshes>>
    /\ UNCHANGED <<now, signIns, logouts, out, generation, revoked, lost>>

\* api on a 401: the session is cleared, whoever's it is now.
RequestUnauthenticated(r) ==
    /\ calls[r].at = "answer"
    /\ Clear
    /\ admin' = 0
    /\ calls' = [calls EXCEPT ![r] = Idle]
    /\ UNCHANGED <<now, promise, signIns, logouts, refreshes, out, generation,
                   revoked, lost>>

\* Any other error of a request.  A save that waited for this load goes on if
\* another request has brought a workspace.
RequestFails(r) ==
    /\ calls[r].at = "answer"
    /\ IF calls[r].then /\ admin # 0
         THEN AskForToken(r, Request("save", "token", 0, FALSE))
         ELSE /\ calls' = [calls EXCEPT ![r] = Idle]
              /\ UNCHANGED <<auth, store, promise, refreshes>>
    /\ UNCHANGED <<now, admin, signIns, logouts, out, generation, revoked, lost>>

\* The page is loaded anew: state.auth is what readAuthSession finds, and the
\* answers to the old page's calls have no reader.
Reload ==
    /\ auth' = store
    /\ admin' = 0
    /\ promise' = FALSE
    /\ signIns' = 0
    /\ logouts' = {}
    /\ refreshes' = {}
    /\ calls' = [r \in Requests |-> Idle]
    /\ lost' = lost \cup {f.by : f \in refreshes}
    /\ UNCHANGED <<now, store, out, generation, revoked>>
-----------------------------------------------------------------------------
Answers ==
    \/ SignInAnswers
    \/ SignOutEnds
    \/ RefreshSucceeds
    \/ RefreshFails

RequestAnswers(r) ==
    \/ RequestSucceeds(r)
    \/ RequestUnauthenticated(r)
    \/ RequestFails(r)

Next ==
    \/ Tick
    \/ SignIn
    \/ SignOut
    \/ ServiceEndsSession
    \/ ServiceRefreshes
    \/ Reload
    \/ Answers
    \/ \E r \in Requests : Load(r) \/ SaveBatch(r) \/ RequestAnswers(r)

\* The browser ends every fetch: with the answer or with a network error.
Fairness ==
    /\ WF_vars(RefreshSucceeds \/ RefreshFails)
    /\ \A r \in Requests : WF_vars(RequestAnswers(r))

Spec == Init /\ [][Next]_vars /\ Fairness
-----------------------------------------------------------------------------
\* One refresh at a time, and a request that awaits one awaits a refresh that
\* is under way: none is left behind by an answer, a failure, a sign-out or
\* another sign-in (authRefreshPromise of getAdminAccessToken).
RefreshIsShared ==
    /\ Cardinality(refreshes) <= 1
    /\ (\E r \in Requests : calls[r].at = "token") => refreshes # {}

\* The service takes a refresh token once, so a tab must never offer one a
\* second time: a session under refresh is not asked for again, and what the
\* next page reads from the store is the renewed one.  Only a reload that cuts
\* off a refresh leaves the tab with a token that may be spent.
RefreshTokenIsUnspent ==
    \A f \in refreshes :
        f.at = "asked" /\ f.by \notin lost => f.gen = generation[f.by]

\* One refresh for all who need it, with a token that is still good.
OneGoodRefresh == RefreshIsShared /\ RefreshTokenIsUnspent

\* Every request ends: one that joined a refresh is sent or rejected with it,
\* whoever signed out or in meanwhile, and a save that had to load a workspace
\* first comes to an end too.
EveryRequestEnds == \A r \in Requests : calls[r] # Idle ~> calls[r] = Idle

\* What the page tells the administrator at the end of signOutAdmin,
\* "Kirjauduttu ulos." (signed out), stays so until the next sign-in.
StaysSignedOut == out => auth = None
=============================================================================
