------------------------------ MODULE Workspace ------------------------------
(***************************************************************************)
(* What an administrator's browser does with a company's data, five parts  *)
(* side by side: the batches the server accepts (AdminWorkspace), planned  *)
(* deletions (EntityDeletion), imports of figures (FinancialImports), the  *)
(* maintenance statement (MaintenanceStatement) and the sign-in that all   *)
(* of them are sent under (BrowserSession).                                *)
(*                                                                         *)
(* `part` says which of them is at work, and the others wait: batches and  *)
(* deletions have the company's rows in common, the rest share no state.   *)
(***************************************************************************)
EXTENDS BrowserSession, EntityDeletion, FinancialImports, MaintenanceStatement

VARIABLE part

Parts == {"rules", "deletions", "imports", "statements", "session"}

WorkspaceVars == <<part, deletionVars, importVars, statementVars, vars>>

WorkspaceInit ==
  /\ part \in Parts
  /\ DeletionInit /\ ImportsInit /\ StatementInit /\ Init

WorkspaceNext ==
  /\ UNCHANGED part
  /\ \/ /\ part = "rules" /\ CompanyNext
        /\ UNCHANGED <<plan, importVars, statementVars, vars>>
     \/ /\ part = "deletions" /\ DeletionNext
        /\ UNCHANGED <<importVars, statementVars, vars>>
     \/ /\ part = "imports" /\ ImportsNext
        /\ UNCHANGED <<deletionVars, statementVars, vars>>
     \/ /\ part = "statements" /\ StatementNext
        /\ UNCHANGED <<deletionVars, importVars, vars>>
     \/ /\ part = "session" /\ Next
        /\ UNCHANGED <<deletionVars, importVars, statementVars>>

WorkspaceSpec ==
  WorkspaceInit /\ [][WorkspaceNext]_WorkspaceVars /\ Fairness

\* Types: the figures, the statement and the session are what their modules
\* say they are; of the company's rows that is part of CompanyValid.
WorkspaceTypeOK == ImportsTypeOK /\ StatementTypeOK /\ TypeOK
=============================================================================
