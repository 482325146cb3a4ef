------------------------------ MODULE MCAnswers ------------------------------
(***************************************************************************)
(* Everything the server begins comes to an end.  Four of its parts side   *)
(* by side, each under the fairness of its module: two requests of two     *)
(* administrators, mostly with batches that are refused; two calls for a   *)
(* key; two runs of the migrations; and two connections to a server that   *)
(* is told to stop.                                                        *)
(*                                                                         *)
(* The parts share no state.  The first state says which of them is at     *)
(* work.                                                                   *)
(***************************************************************************)
EXTENDS AdminCommit, MCAdmin

CONSTANTS p1, p2, kid1, kid2, Nothing, r1, r2, Nobody, conn1, conn2, alice, acme

VARIABLES
  part,
  now, published, cache, lastForced, inFlight, call, fetch, since, until,
  lastFailed, forcedAt,
  table, ledger, schema, lock, run,
  clock, server, pool, requests, companyGrants, saves, held

Furnished ==
  Only((CompanyRef :> [note |-> n1])
       @@ (Asset(a1) :> [active |-> TRUE])
       @@ (CostEvidence(c1) :> Quote(a1))
       @@ (BuildingEvent(e1) :> Event("approved", a1, {}, Cites(c1))))

MCInitialDocs == {Furnished}

MCBatches ==
  {<<Put(CompanyRef, [note |-> n2])>>,
   <<[Put(CompanyRef, [note |-> n1]) EXCEPT !.sources = {}]>>,
   <<>>}
MCExpected == {0}

Keys == INSTANCE JwksCache WITH
  Calls <- {p1, p2}, Kids <- {kid1, kid2},
  Ttl <- 2, Interval <- 2, MaxFetch <- 1, MaxTime <- 3

Statement(object, needs) == [makes |-> object, needs |-> needs]
CoreTables == [name |-> "core", text |-> <<Statement("snapshots", {})>>]
AccessTables ==
  [name |-> "access",
   text |-> <<Statement("grants", {"snapshots"}), Statement("index", {"grants"})>>]
BrokenAccess ==
  [name |-> "access",
   text |-> <<Statement("grants", {"snapshots"}), Statement("snapshots", {})>>]
EditedCore ==
  [name |-> "core", text |-> <<Statement("snapshots", {}), Statement("index", {})>>]

Releases == INSTANCE Migrations WITH
  Runners <- {r1, r2}, Objects <- {"snapshots", "grants", "index"},
  Names <- {"core", "access"},
  Lists <- {<<CoreTables>>, <<CoreTables, AccessTables>>, <<EditedCore>>,
            <<CoreTables, BrokenAccess>>, <<CoreTables, CoreTables>>, <<>>}

Token(flaw) == [sub |-> alice, iat |-> 0, exp |-> 9, nbf |-> 0, flaw |-> flaw]

Http == INSTANCE HttpApi WITH
  Connections <- {conn1, conn2}, Companies <- {acme}, Subjects <- {alice},
  Tokens <- {Token("none")}, Tolerance <- 1, MaxNow <- 0, MaxSaves <- 1,
  grants <- companyGrants

keysVars == <<now, published, cache, lastForced, inFlight, call, fetch, since,
              until, lastFailed, forcedAt>>
releasesVars == <<table, ledger, schema, lock, run>>
requestsVars == <<clock, server, pool, requests, companyGrants, saves, held>>

AnswersInit ==
  /\ part \in {"changes", "keys", "migrations", "requests"}
  /\ Init /\ Keys!Init /\ Releases!Init /\ Http!HttpInit
  /\ published = {kid1}
  /\ part # "changes" => grants = [s \in Subjects |-> TRUE]

AnswersNext ==
  /\ UNCHANGED part
  /\ \/ /\ part = "changes" /\ Next
        /\ UNCHANGED <<keysVars, releasesVars, requestsVars>>
     \/ /\ part = "keys" /\ Keys!Next
        /\ UNCHANGED <<vars, releasesVars, requestsVars>>
     \/ /\ part = "migrations" /\ Releases!Next
        /\ UNCHANGED <<vars, keysVars, requestsVars>>
     \/ /\ part = "requests" /\ Http!HttpNext
        /\ UNCHANGED <<vars, keysVars, releasesVars>>

AnswersVars == <<part, vars, keysVars, releasesVars, requestsVars>>

AnswersSpec ==
  /\ AnswersInit /\ [][AnswersNext]_AnswersVars
  /\ Fairness /\ Keys!Fairness /\ Releases!Fairness /\ Http!HttpFairness

\* Every call for a verification key is answered (JwksCache).
EveryCallEnds == Keys!EveryCallEnds

\* Every run of the migrations ends (Migrations).
EveryRunEnds == Releases!EveryRunEnds

\* Every accepted request is answered, a shutdown takes the pool from none of
\* them, and it ends (HttpApi).
NobodyIsCutOff == Http!NobodyIsCutOff
=============================================================================
