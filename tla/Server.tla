-------------------------------- MODULE Server -------------------------------
(***************************************************************************)
(* The life of a server: the migrations it starts with (Migrations), the   *)
(* seed of the initial data (Seed) and the requests it answers, from the   *)
(* start to the shutdown (HttpApi).                                        *)
(*                                                                         *)
(* The three share no state: a server listens when it has migrated, and    *)
(* the seed is one request among the others.  `part` says which of them is *)
(* at work.                                                                *)
(***************************************************************************)
EXTENDS Migrations, Seed, HttpApi

VARIABLE part

ServerParts == {"migrations", "seed", "requests"}

ServerVars == <<part, vars, seedVars, httpVars>>

ServerInit ==
  /\ part \in ServerParts
  /\ Init /\ SeedInit /\ HttpInit

ServerNext ==
  /\ UNCHANGED part
  /\ \/ part = "migrations" /\ Next /\ UNCHANGED <<seedVars, httpVars>>
     \/ part = "seed" /\ SeedNext /\ UNCHANGED <<vars, httpVars>>
     \/ part = "requests" /\ HttpNext /\ UNCHANGED <<vars, seedVars>>

ServerSpec == ServerInit /\ [][ServerNext]_ServerVars

\* The three keep the types of their state.
ServerTypeOK == TypeOK /\ SeedTypeOK /\ HttpTypeOK
=============================================================================
