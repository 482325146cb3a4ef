------------------------------ MODULE HttpApi ------------------------------
(***************************************************************************)
(* The HTTP server and the two checks in front of the admin service:       *)
(*                                                                         *)
(*   src/src/http/createHttpServer.ts, requestParsing.ts, httpErrors.ts,   *)
(*   src/src/http/runtime/*.ts: routes, bodies, statuses, start and stop;  *)
(*   src/src/application/securedAdminFacade.ts: verify, authorize, work;   *)
(*   src/src/auth/authorization.ts and                                     *)
(*   src/src/database/postgresCompanyAccessRepository.ts: the grants.      *)
(*                                                                         *)
(* Each await of a request is a step of its own, so that requests, the     *)
(* operator who grants and revokes, the clock and the shutdown interleave. *)
(* What the admin service does with an authorized request is AdminCommit;  *)
(* here it is "the work", which uses the pool and ends in a status.        *)
(***************************************************************************)
EXTENDS JwtAuthentication, FiniteSets

CONSTANTS
    Connections,    \* names of the requests that can be open at a time
    Companies,
    Subjects,
    Tokens,         \* the access tokens in circulation
    MaxNow,         \* bound: the clock
    MaxSaves        \* bound: saves of grants

ASSUME HttpAssumption ==
    /\ Tokens \subseteq [sub: Subjects, iat: Nat, exp: Nat, nbf: Nat, flaw: Flaws]
    /\ MaxNow \in Nat
    /\ MaxSaves \in Nat

VARIABLES
    clock,      \* ServerClock.now
    server,     \* "starting", "listening", "closing", "closed"
    pool,       \* "open" or "ended"
    requests,   \* what each connection's request is and awaits
    grants,     \* tm_company_access_grants
    saves,      \* how many grants have been saved
    held        \* history: the grants in force at some time since a request came

httpVars == <<clock, server, pool, requests, grants, saves, held>>
-----------------------------------------------------------------------------
None == [none |-> TRUE]

Routes == {"health", "workspace", "changes", "asset", "unknown"}
AdminRoutes == {"workspace", "changes"}

\* What is wrong with a request apart from its credential.
RequestFlaws == {"none", "encoding", "horizon", "trusted_field", "keys", "body"}

\* Where a request is: awaiting its body, the verification key, its grant, or
\* the admin service, with the status it was answered with, 0 before.
Request(route, token, company, flaw) ==
    [at |-> "body", route |-> route, token |-> token, company |-> company,
     flaw |-> flaw, asOf |-> 0, status |-> 0]

Free == Request("unknown", None, None, "none")
Busy(c) == requests[c].at \in {"body", "key", "grant", "work"}
Accepted == {c \in Connections : Busy(c)}

\* validateCompanyAccessGrant: a grant is active and unrevoked, or inactive
\* and revoked at some time.
Grants == [active: BOOLEAN, grantedAt: Nat, revokedAt: Nat]
Keys == Companies \X Subjects
InForce(g) == g # None /\ g.active

HttpTypeOK ==
    /\ clock \in 0..MaxNow
    /\ server \in {"starting", "listening", "closing", "closed"}
    /\ pool \in {"open", "ended"}
    /\ \A c \in Connections :
         /\ requests[c].at \in {"free", "body", "key", "grant", "work", "answered"}
         /\ requests[c].status \in {0, 200, 400, 401, 403, 404, 409, 500}
         /\ requests[c].at = "answered" <=> requests[c].status # 0
    /\ grants \in [Keys -> Grants \cup {None}]
    /\ saves \in 0..MaxSaves
    /\ held \in [Connections -> SUBSET Keys]

HttpInit ==
    /\ clock = 0
    /\ server = "starting"
    /\ pool = "open"
    /\ requests = [c \in Connections |-> [Free EXCEPT !.at = "free"]]
    /\ grants = [k \in Keys |-> None]
    /\ saves = 0
    /\ held = [c \in Connections |-> {}]

ClockTicks ==
    /\ clock < MaxNow
    /\ clock' = clock + 1
    /\ UNCHANGED <<server, pool, requests, grants, saves, held>>

\* PostgresCompanyAccessRepository.save, called by the operator: an upsert of
\* a valid grant, which a grant for an unknown company never is (23503).  A
\* grant may begin later than it is saved.
SaveGrant ==
    /\ saves < MaxSaves
    /\ saves' = saves + 1
    /\ \E k \in Keys, from \in {clock, clock + 1} :
         /\ \/ grants' = [grants EXCEPT ![k] =
                   [active |-> TRUE, grantedAt |-> from, revokedAt |-> 0]]
            \/ /\ grants[k] # None
               /\ grants' = [grants EXCEPT ![k].active = FALSE, ![k].revokedAt = clock]
         /\ held' = [c \in Connections |->
                       IF InForce(grants'[k]) THEN held[c] \cup {k} ELSE held[c]]
    /\ UNCHANGED <<clock, server, pool, requests>>
-----------------------------------------------------------------------------
(* The start and the end of the process: productionServer.                 *)

\* createPostgresHttpRuntime has migrated (module Migrations); listen.
Listen ==
    /\ server = "starting"
    /\ server' = "listening"
    /\ UNCHANGED <<clock, pool, requests, grants, saves, held>>

\* The port is taken: main ends with exit code 1, and the pool is never ended
\* by the program; its connections go when they have been idle long enough.
ListenFails ==
    /\ server = "starting"
    /\ server' = "closed"
    /\ UNCHANGED <<clock, pool, requests, grants, saves, held>>

\* SIGINT or SIGTERM, the first one: runtime.close begins with server.close,
\* after which no connection is accepted.
Signal ==
    /\ server = "listening"
    /\ server' = "closing"
    /\ UNCHANGED <<clock, pool, requests, grants, saves, held>>

\* A mutant: the pool is ended beside the server, not after it.
ClosedAtOnce ==
    /\ server = "closing"
    /\ server' = "closed"
    /\ pool' = "ended"
    /\ UNCHANGED <<clock, requests, grants, saves, held>>

\* server.close resolves once every connection has ended, and only then does
\* the close of the runtime end the pool.
Closed ==
    /\ server = "closing"
    /\ Accepted = {}
    /\ server' = "closed"
    /\ pool' = "ended"
    /\ UNCHANGED <<clock, requests, grants, saves, held>>
-----------------------------------------------------------------------------
(* A request.                                                              *)

At(c, stage) == requests' = [requests EXCEPT ![c].at = stage]

\* A mutant: the answer is sent and the handler goes on.
AnswerAndGoOn(c, status) == requests' = [requests EXCEPT ![c].status = status]

Answer(c, status) ==
    requests' = [requests EXCEPT ![c].at = "answered", ![c].status = status]

\* A request comes in: whatever token, company and flaw it has.
Receive(c) ==
    /\ server = "listening"
    /\ ~Busy(c)
    /\ \E route \in Routes, token \in Tokens \cup {None}, flaw \in RequestFlaws,
          company \in Companies :
         /\ flaw \in {"trusted_field", "keys", "body"} => route = "changes"
         /\ flaw \in {"encoding", "horizon"} => route \in AdminRoutes
         /\ route \notin AdminRoutes => token = None
         /\ requests' = [requests EXCEPT ![c] = Request(route, token, company, flaw)]
    /\ held' = [held EXCEPT ![c] = {k \in Keys : InForce(grants[k])}]
    /\ UNCHANGED <<clock, server, pool, grants, saves>>

\* The statuses #route gives without asking anyone, in its order: the path is
\* decoded, the bearer credential must be there, a changes body must name no
\* trusted field and have exactly its keys, and the horizon must be one.  A
\* body that cannot be read never gets to a route.
EarlyStatus(q) ==
    CASE q.flaw = "body"          -> 400
      [] q.route = "health"       -> 200
      [] q.route = "asset"        -> 200
      [] q.route = "unknown"      -> 404
      [] q.flaw = "encoding"      -> 400
      [] q.token = None           -> 401
      [] q.flaw \in {"trusted_field", "keys", "horizon"} -> 400
      [] OTHER                    -> 0

\* A mutant: a server that is closing dispatches no more.
DispatchWhileListening(c) ==
    /\ requests[c].at = "body"
    /\ server = "listening"
    /\ LET status == EarlyStatus(requests[c])
       IN IF status # 0 THEN Answer(c, status)
          ELSE requests' = [requests EXCEPT ![c].at = "key", ![c].asOf = clock]
    /\ UNCHANGED <<clock, server, pool, grants, saves, held>>

\* The body is read and the request dispatched: answered early, or on to
\* verify with the time of the server's clock.
Dispatch(c) ==
    /\ requests[c].at = "body"
    /\ LET status == EarlyStatus(requests[c])
       IN IF status # 0 THEN Answer(c, status)
          ELSE requests' = [requests EXCEPT ![c].at = "key", ![c].asOf = clock]
    /\ UNCHANGED <<clock, server, pool, grants, saves, held>>

\* The key provider has answered, or failed: the facade has an identity or
\* none.  requireCompanyAdmin refuses none (UNAUTHENTICATED) and one whose
\* time is not now (INVALID_AUTH_CONTEXT), or asks for the grant.
Authenticate(c) ==
    /\ requests[c].at = "key"
    /\ \E keyFound \in BOOLEAN :
         IF /\ Verified(requests[c].token, keyFound, requests[c].asOf)
            /\ IdentityValidAt(requests[c].token, requests[c].asOf)
           THEN At(c, "grant")
           ELSE Answer(c, 401)
    /\ UNCHANGED <<clock, server, pool, grants, saves, held>>

\* A mutant: a grant for any company will do.
AuthorizedAnywhere(q) ==
    \E k \in Keys : /\ k[2] = q.token.sub
                    /\ InForce(grants[k])
                    /\ grants[k].grantedAt <= q.asOf

\* requireCompanyAdmin on the grant it loaded, as of the time of the request.
Authorized(q) ==
    LET g == grants[<<q.company, q.token.sub>>]
    IN /\ InForce(g)
       /\ g.grantedAt <= q.asOf

\* The grant has been loaded: ACCESS_DENIED, or the work begins.
Authorize(c) ==
    /\ requests[c].at = "grant"
    /\ pool = "open"
    /\ IF Authorized(requests[c]) THEN At(c, "work") ELSE Answer(c, 403)
    /\ UNCHANGED <<clock, server, pool, grants, saves, held>>

\* The admin service has answered or thrown: mapHttpError on the codes it
\* has, and 500 on a database that failed.
Work(c) ==
    /\ requests[c].at = "work"
    /\ pool = "open"
    /\ \E status \in {200, 400, 404, 409, 500} :
         /\ status = 409 => requests[c].route = "changes"
         /\ Answer(c, status)
    /\ UNCHANGED <<clock, server, pool, grants, saves, held>>

\* A query on an ended pool throws, and so does one that fails: 500.
QueryFails(c) ==
    /\ requests[c].at \in {"grant", "work"}
    /\ Answer(c, 500)
    /\ UNCHANGED <<clock, server, pool, grants, saves, held>>
-----------------------------------------------------------------------------
Handle(c) ==
    \/ Dispatch(c)
    \/ Authenticate(c)
    \/ Authorize(c)
    \/ Work(c)
    \/ QueryFails(c)

HttpNext ==
    \/ ClockTicks
    \/ SaveGrant
    \/ Listen
    \/ ListenFails
    \/ Signal
    \/ Closed
    \/ \E c \in Connections : Receive(c) \/ Handle(c)

\* Every await of the server ends, in an answer, an error or a timeout (Node
\* bounds the time a body may take, pg the time a connection may take), and the
\* event loop resumes whatever awaited it.
HttpFairness ==
    /\ \A c \in Connections : WF_httpVars(Handle(c))
    /\ WF_httpVars(Closed)

HttpSpec == HttpInit /\ [][HttpNext]_httpVars /\ HttpFairness
-----------------------------------------------------------------------------
Served(c) == requests[c].status = 200 /\ requests[c].route \in AdminRoutes

\* The admin service works only for a normal signed-in user of this project
\* who held a grant for this very company while the request was open: not a
\* moment of a former grant, and no grant for another company.
AdminsOnly ==
    \A c \in Connections :
        requests[c].at = "work" \/ Served(c) =>
            /\ requests[c].token.flaw = "none"
            /\ <<requests[c].company, requests[c].token.sub>> \in held[c]

\* The verification tolerates a clock that is off by Tolerance, the identity
\* check does not: no request is worked on before its token's time or after.
TokenLivesAtItsUse ==
    \A c \in Connections :
        requests[c].at = "work" \/ Served(c) =>
            /\ requests[c].token.iat <= requests[c].asOf
            /\ requests[c].asOf < requests[c].token.exp

\* Only a living token of a user with a grant gets to the admin service.
OnlyAdminsAreServed == AdminsOnly /\ TokenLivesAtItsUse

\* A shutdown takes the pool from no request: whatever was accepted is
\* finished before the pool ends.
PoolOutlivesRequests == pool = "ended" => Accepted = {}

\* Every request that was accepted is answered while the pool is there to
\* answer it with, the ones a signal meets half way too.
AnsweredFromThePool ==
    \A c \in Connections :
        Busy(c) ~> requests[c].at = "answered" /\ pool = "open"

\* A signal ends the process.
ShutdownEnds == server = "closing" ~> server = "closed"

\* Starting, serving and stopping: who got in is answered, signal or not, the
\* pool is there until then, and the process ends.
NobodyIsCutOff == AnsweredFromThePool /\ ShutdownEnds
=============================================================================
