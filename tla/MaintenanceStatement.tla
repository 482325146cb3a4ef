------------------------- MODULE MaintenanceStatement ------------------------
(***************************************************************************)
(* The form of the maintenance-need statement: rows are pasted, the header *)
(* and the source are fields that fill themselves until the user edits     *)
(* them, and saving replaces the stored statement as a whole               *)
(* (public/app.js, public/adminOperationPayloads.js).                      *)
(*                                                                         *)
(* A header field is shown with the stored value or with what was typed;   *)
(* the flag that tells the two apart (dataset.userEdited) is set by the    *)
(* first keystroke and never reset.  The two years of the period are one   *)
(* field here, the two dates another.                                      *)
(***************************************************************************)
EXTENDS Naturals

CONSTANTS
  StatementRows,    \* the texts of rows that can be pasted
  Flawed,           \* those of them that have errors or no rows
  Periods,          \* periods in order; "" is none
  Dates,            \* dates of handling; "" is none
  HandWritten,      \* a source the user may type
  NoStatement,
  MaxStatementRevision  \* bound: how often the workspace is saved

Fields == {"period", "handled"}
FieldValues == [period : Periods \cup {""}, handled : Dates \cup {""}]

Statement ==
  [rows : StatementRows \ Flawed, period : Periods, handled : Dates \cup {""},
   source : Periods \cup {"", HandWritten}]

\* A period is not left out; a statement is one.
ASSUME PeriodsAssumption == "" \notin Periods
ASSUME NoStatementAssumption == NoStatement \notin Statement
ASSUME StatementBoundAssumption == MaxStatementRevision \in Nat \ {0}

VARIABLES
  statement,        \* the statement, or NoStatement, as stored
  statementRevision,
  statementShown,   \* the statement the tab shows
  statementSeen,    \* and its revision
  field, edited,    \* the header fields, and which the user has edited
  source, touched,  \* the source field, and whether the user has edited it
  pasted            \* the text of the rows, or NoStatement

formVars == <<field, edited, source, touched, pasted>>
statementVars ==
  <<statement, statementRevision, statementShown, statementSeen, formVars>>

\* buildMaintenanceDocumentSourceId: the document's name with its period.
SourceId(period) == period

\* resolveGeneratedField: a source is generated until it has been edited.
Regenerated(period) == IF touched THEN source ELSE SourceId(period)

Shown(shown) ==
  IF shown = NoStatement THEN [f \in Fields |-> ""]
  ELSE [f \in Fields |-> shown[f]]

\* A mutant: the prefill changes the fields and no event tells the source.
PrefillSilently(shown) ==
  /\ field' = [f \in Fields |-> IF edited[f] THEN field[f] ELSE Shown(shown)[f]]
  /\ source' = source

\* A mutant: a field is filled in only while it is empty.
PrefillOnce(shown) ==
  /\ field' = [f \in Fields |->
                 IF edited[f] \/ field[f] # "" THEN field[f]
                 ELSE Shown(shown)[f]]
  /\ source' = Regenerated(field'.period)

\* prefillMaintenanceNeedHeader, and the change event it ends with.
Prefill(shown) ==
  /\ field' = [f \in Fields |-> IF edited[f] THEN field[f] ELSE Shown(shown)[f]]
  /\ source' = Regenerated(field'.period)

StatementInit ==
  /\ statement = NoStatement
  /\ statementRevision = 1
  /\ statementShown = NoStatement
  /\ statementSeen = 1
  /\ field = [f \in Fields |-> ""]
  /\ edited = [f \in Fields |-> FALSE]
  /\ source = SourceId("")
  /\ touched = FALSE
  /\ pasted = NoStatement

\* Somebody else replaces or deletes the statement, or saves something else.
OthersSaveStatement ==
  /\ statementRevision < MaxStatementRevision
  /\ \/ statement' \in {NoStatement, statement}
     \/ \E r \in StatementRows \ Flawed, p \in Periods, d \in Dates \cup {""} :
          statement' = [rows |-> r, period |-> p, handled |-> d,
                        source |-> SourceId(p)]
  /\ statementRevision' = statementRevision + 1
  /\ UNCHANGED <<statementShown, statementSeen, formVars>>

\* loadAdmin: the workspace is rendered anew, the form's header with it.
ReloadStatement ==
  /\ statementSeen # statementRevision
  /\ statementShown' = statement
  /\ statementSeen' = statementRevision
  /\ Prefill(statement)
  /\ UNCHANGED <<statement, statementRevision, edited, touched, pasted>>

EditField(f) ==
  /\ \E v \in FieldValues : field' = [field EXCEPT ![f] = v[f]]
  /\ edited' = [edited EXCEPT ![f] = TRUE]
  /\ source' = IF f = "period" THEN Regenerated(field'.period) ELSE source
  /\ UNCHANGED <<statement, statementRevision, statementShown, statementSeen,
                 touched, pasted>>

EditSource ==
  /\ source' = HandWritten
  /\ touched' = TRUE
  /\ UNCHANGED <<statement, statementRevision, statementShown, statementSeen,
                 field, edited, pasted>>

PasteRows(r) ==
  /\ pasted' = r
  /\ UNCHANGED <<statement, statementRevision, statementShown, statementSeen,
                 field, edited, source, touched>>

\* A save of the tab: a conflict unless it is up to date; the answer is
\* rendered as a reload is.
SaveStatement(s) ==
  /\ statementSeen = statementRevision
  /\ statementRevision < MaxStatementRevision
  /\ statement' = s
  /\ statementRevision' = statementRevision + 1
  /\ statementShown' = statement'
  /\ statementSeen' = statementRevision'
  /\ Prefill(s)
  /\ UNCHANGED <<edited, touched>>

\* A mutant: the header is not validated.
SubmitAnyHeader ==
  /\ pasted \in StatementRows \ Flawed
  /\ SaveStatement([rows |-> pasted, period |-> field.period,
                    handled |-> field.handled, source |-> source])
  /\ pasted' = NoStatement

\* submitMaintenanceDocument: rows without errors, a header with a period,
\* and a save of the whole statement.
SubmitMaintenanceDocument ==
  /\ pasted \in StatementRows \ Flawed
  /\ field.period # ""
  /\ SaveStatement([rows |-> pasted, period |-> field.period,
                    handled |-> field.handled, source |-> source])
  /\ pasted' = NoStatement

\* The delete button, shown while there is a statement, and its confirmation.
DeleteStatement ==
  /\ statementShown # NoStatement
  /\ SaveStatement(NoStatement)
  /\ UNCHANGED pasted

StatementNext ==
  \/ OthersSaveStatement
  \/ ReloadStatement
  \/ \E f \in Fields : EditField(f)
  \/ EditSource
  \/ \E r \in StatementRows : PasteRows(r)
  \/ SubmitMaintenanceDocument
  \/ DeleteStatement

StatementSpec == StatementInit /\ [][StatementNext]_statementVars

-----------------------------------------------------------------------------
(* Properties. *)

StatementTypeOK ==
  /\ {statement, statementShown} \subseteq Statement \cup {NoStatement}
  /\ statementRevision \in 1 .. MaxStatementRevision
  /\ statementSeen \in 1 .. statementRevision
  /\ field \in FieldValues
  /\ edited \in [Fields -> BOOLEAN] /\ touched \in BOOLEAN
  /\ source \in Periods \cup {"", HandWritten}
  /\ pasted \in StatementRows \cup {NoStatement}

\* "Replace the whole table must not mean forget the dates": a field that the
\* user has never edited is saved as it was stored, whoever stored it.
UneditedHeaderIsKept ==
  SubmitMaintenanceDocument /\ statement # NoStatement =>
    \A f \in Fields : ~ edited[f] => statement'[f] = statement[f]

\* The source tells two statements apart: unless the user wrote it by hand, a
\* statement's source is the one of the period it is saved with.
SourceNamesItsPeriod ==
  statement # NoStatement =>
    statement.source \in {SourceId(statement.period), HandWritten}

\* A header field never edited is saved as it was stored, and a source not
\* written by hand names the period it is saved with
\* (prefillMaintenanceNeedHeader, submitMaintenanceDocument).
HeaderIsKept == [][SourceNamesItsPeriod' /\ UneditedHeaderIsKept]_statementVars

\* The invariant of the proofs: an unedited field shows what the tab shows, an
\* untouched source is the one of the period in the field.
StatementInv ==
  /\ StatementTypeOK
  /\ SourceNamesItsPeriod
  /\ statementSeen = statementRevision => statementShown = statement
  /\ \A f \in Fields : ~ edited[f] => field[f] = Shown(statementShown)[f]
  /\ source = IF touched THEN HandWritten ELSE SourceId(field.period)
=============================================================================
