---------------------------- MODULE MCAdminCommit ----------------------------
(***************************************************************************)
(* Two or three requests on a company that has an asset, evidence and an   *)
(* approved event.  The batches collide in every way that matters: two     *)
(* save rows another one cites or deletes, one deletes such a row, one is  *)
(* a cascade, and the rest are refused for a reason of their own.          *)
(***************************************************************************)
EXTENDS AdminCommit, MCAdmin

Furnished ==
  Only((CompanyRef :> [note |-> n1])
       @@ (Asset(a1) :> [active |-> TRUE])
       @@ (CostEvidence(c1) :> Quote(a1))
       @@ (BuildingEvent(e1) :> Event("approved", a1, {}, Cites(c1))))

MCInitialDocs == {Furnished}

RenameCompany == <<Put(CompanyRef, [note |-> n2])>>
RetireAsset == <<Put(Asset(a1), [active |-> FALSE])>>
DeleteEvent == <<Del(BuildingEvent(e1))>>
DeleteCascade ==
  <<Del(BuildingEvent(e1)), Del(CostEvidence(c1)), Del(Asset(a1))>>
NoSource == <<[Put(CompanyRef, [note |-> n1]) EXCEPT !.sources = {}]>>
SaveTwice ==
  <<Put(CompanyRef, [note |-> n1]), Put(CompanyRef, [note |-> n2])>>

MCBatches == {RenameCompany, RetireAsset, DeleteEvent, DeleteCascade}
MCExpected == {0, 1}

Symmetry == Permutations(Requests) \cup Permutations(Subjects)
=============================================================================
