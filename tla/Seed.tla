--------------------------------- MODULE Seed ---------------------------------
(***************************************************************************)
(* The initial data (scripts/seed-initial-data.ts): a run reads the        *)
(* workspace, decides by it whether the data is there, and posts one batch *)
(* that saves all of it.  Runs overlap, an answer gets lost and the        *)
(* operator runs the script again, and administrators edit and delete what *)
(* was seeded in between.                                                  *)
(***************************************************************************)
EXTENDS Naturals

CONSTANTS
  Runs,           \* runs of the script: bounds their number
  MaxRevision,    \* bounds the number of changes
  Absent

ASSUME SeedAssumption ==
  /\ MaxRevision \in Nat
  /\ Absent \notin {"seed", "edited", "manual"}

VARIABLES
  stored,         \* what is there of the seeded entities: the seed's own, edited
                  \* since, or made by hand
  revision,       \* of the workspace
  phase,          \* where each run is
  expected,       \* the revision each run has read
  posted          \* the runs whose batch is on its way or was handled

seedVars == <<stored, revision, phase, expected, posted>>

WaterHeater == "asset_lammin_vesi_varaajat"
Ventilation == "asset_ilmanvaihto"
HeaterCost == "cost_varaaja_yksikko"
CleaningCost == "cost_ilmanvaihto_puhdistus"
HeaterEvent == "event_varaajien_uusiminen"
Baseline == "liquidity_2026"

Entities == {WaterHeater, Ventilation, HeaterCost, CleaningCost, HeaterEvent, Baseline}

\* What the seeded entities name.
Named(e) ==
  IF e = HeaterCost THEN {WaterHeater}
  ELSE IF e = CleaningCost THEN {Ventilation}
  ELSE IF e = HeaterEvent THEN {WaterHeater, HeaterCost}
  ELSE {}

Phases == {"idle", "read", "posted", "refused", "seeded", "failed"}

\* Types, and nothing is named that is not there.
SeedTypeOK ==
  /\ stored \in [Entities -> {Absent, "seed", "edited", "manual"}]
  /\ \A e \in Entities : stored[e] # Absent =>
       \A named \in Named(e) : stored[named] # Absent
  /\ revision \in 0 .. MaxRevision
  /\ phase \in [Runs -> Phases]
  /\ expected \in [Runs -> 0 .. MaxRevision]
  /\ posted \subseteq Runs

SeedInit ==
  /\ stored = [e \in Entities |-> Absent]
  /\ revision = 0
  /\ phase = [r \in Runs |-> "idle"]
  /\ expected = [r \in Runs |-> 0]
  /\ posted = {}

-----------------------------------------------------------------------------

\* shouldRunSeed: it is there if the water heaters are.
ShouldRunSeed == stored[WaterHeater] = Absent

\* main, up to the decision.
LoadWorkspace(r) ==
  /\ phase[r] = "idle"
  /\ phase' = [phase EXCEPT ![r] = IF ShouldRunSeed THEN "read" ELSE "refused"]
  /\ expected' = [expected EXCEPT ![r] = revision]
  /\ UNCHANGED <<stored, revision, posted>>

PostChanges(r) ==
  /\ phase[r] = "read"
  /\ phase' = [phase EXCEPT ![r] = "posted"]
  /\ posted' = posted \cup {r}
  /\ UNCHANGED <<stored, revision, expected>>

\* A mutant: the batch is saved whatever has been saved since.
SaveAnyway(r) ==
  /\ r \in posted
  /\ posted' = posted \ {r}
  /\ revision < MaxRevision
  /\ stored' = [e \in Entities |-> "seed"]
  /\ revision' = revision + 1
  /\ phase' = [phase EXCEPT ![r] = IF phase[r] = "posted" THEN "seeded" ELSE phase[r]]
  /\ UNCHANGED expected

\* The server saves the batch of buildSeedOperations at the revision it was read at
\* or not at all, and answers a run that still waits.
Save(r) ==
  /\ r \in posted
  /\ posted' = posted \ {r}
  /\ IF revision = expected[r]
     THEN /\ revision < MaxRevision
          /\ stored' = [e \in Entities |-> "seed"]
          /\ revision' = revision + 1
     ELSE UNCHANGED <<stored, revision>>
  /\ phase' = [phase EXCEPT ![r] =
       IF phase[r] # "posted" THEN phase[r]
       ELSE IF revision = expected[r] THEN "seeded" ELSE "failed"]
  /\ UNCHANGED expected

\* The run ends without an answer; its batch may still be handled, or is lost.
Fail(r) ==
  /\ phase[r] \in {"read", "posted"}
  /\ phase' = [phase EXCEPT ![r] = "failed"]
  /\ \/ UNCHANGED posted
     \/ posted' = posted \ {r}
  /\ UNCHANGED <<stored, revision, expected>>

\* An administrator saves an entity by hand, or deletes one that nothing names.
Edit(e) ==
  /\ revision < MaxRevision
  /\ \A named \in Named(e) : stored[named] # Absent
  /\ stored' = [stored EXCEPT ![e] = IF @ \in {"seed", "edited"} THEN "edited" ELSE "manual"]
  /\ revision' = revision + 1
  /\ UNCHANGED <<phase, expected, posted>>

\* A mutant: an entity is deleted with what names it left there.
DeleteNamed(e) ==
  /\ revision < MaxRevision
  /\ stored[e] # Absent
  /\ stored' = [stored EXCEPT ![e] = Absent]
  /\ revision' = revision + 1
  /\ UNCHANGED <<phase, expected, posted>>

Delete(e) ==
  /\ revision < MaxRevision
  /\ stored[e] # Absent
  /\ \A other \in Entities : e \in Named(other) => stored[other] = Absent
  /\ stored' = [stored EXCEPT ![e] = Absent]
  /\ revision' = revision + 1
  /\ UNCHANGED <<phase, expected, posted>>

SeedNext ==
  \/ \E r \in Runs : LoadWorkspace(r) \/ PostChanges(r) \/ Save(r) \/ Fail(r)
  \/ \E e \in Entities : Edit(e) \/ Delete(e)

SeedSpec == SeedInit /\ [][SeedNext]_seedVars

-----------------------------------------------------------------------------

\* However runs overlap and answers get lost, a second run does not seed what the
\* first has seeded: nobody's batch replaces water heaters that are there, and no edit
\* made since a run read the workspace is overwritten by it.
NoRunSeedsOverAnother ==
  [][ \A r \in Runs : r \in posted /\ r \notin posted' /\ stored' # stored =>
        stored[WaterHeater] = Absent /\ revision = expected[r] ]_seedVars
=============================================================================
