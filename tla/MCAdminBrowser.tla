---------------------------- MODULE MCAdminBrowser ---------------------------
(***************************************************************************)
(* Two administrators, a tab each, and two requests: enough for a save     *)
(* that another one overtakes, a conflict, a reload, and the same form     *)
(* sent again.  One asset is saved or deleted.                             *)
(***************************************************************************)
EXTENDS AdminBrowser, MCAdmin

Furnished ==
  Only((CompanyRef :> [note |-> n1]) @@ (Asset(a1) :> [active |-> TRUE]))

MCInitialDocs == {Furnished}
MCBatches == {<<Put(Asset(a1), [active |-> FALSE])>>, <<Del(Asset(a1))>>}
MCExpected == 0 .. 2

Symmetry == Permutations(Requests) \cup Permutations(Subjects)
=============================================================================
