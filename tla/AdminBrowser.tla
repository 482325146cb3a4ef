----------------------------- MODULE AdminBrowser ----------------------------
(***************************************************************************)
(* Browsers in front of AdminCommit: each administrator's tab holds the    *)
(* workspace it was last given (state.admin) and at most one open editor   *)
(* or delete confirmation, filled in from the workspace of the moment it   *)
(* was opened (public/app.js).  Tabs load, open, submit, resubmit and      *)
(* reload while other tabs do the same and answers come late or never.     *)
(*                                                                         *)
(* All administrators keep their grants here; signing in and out is left   *)
(* to the session of the tab.                                              *)
(***************************************************************************)
EXTENDS AdminCommit

VARIABLES
  view,             \* state.admin of each tab: a snapshot, or NoRow for null
  fetched,          \* the workspace a tab's GET has read but not delivered
  form,             \* the open form: what it was filled from, what it sends
  heard,            \* the requests whose answer has reached its tab
  \* history
  basis             \* what the form of each request was filled from

tabVars == <<view, fetched, form, heard, basis>>
allVars == <<vars, tabVars>>

NoForm == [open |-> FALSE, basis |-> NoRow, operations |-> <<>>]

TabTypeOK ==
  /\ view \in [Subjects -> Snapshot \cup {NoRow}]
  /\ fetched \in [Subjects -> Snapshot \cup {NoRow}]
  /\ form \in [Subjects ->
                [open : BOOLEAN, basis : Snapshot \cup {NoRow},
                 operations : Batches \cup {<<>>}]]
  /\ \A s \in Subjects : form[s].open =>
       form[s].basis \in Snapshot /\ form[s].operations \in Batches
  /\ heard \subseteq Requests
  /\ basis \in [Requests -> Snapshot \cup {NoRow}]
  /\ \A q \in Requests :
       /\ phase[q] # "idle" => basis[q] \in Snapshot
       /\ answer[q].code = Saved => next[q] \in Snapshot

TabInit ==
  /\ Init
  /\ grants = [s \in Subjects |-> TRUE]
  /\ view = [s \in Subjects |-> NoRow]
  /\ fetched = [s \in Subjects |-> NoRow]
  /\ form = [s \in Subjects |-> NoForm]
  /\ heard = {}
  /\ basis = [q \in Requests |-> NoRow]

-----------------------------------------------------------------------------

\* loadAdmin, up to the server's read of the row.
RequestWorkspace(s) ==
  /\ row # NoRow
  /\ fetched[s] = NoRow
  /\ fetched' = [fetched EXCEPT ![s] = row]
  /\ UNCHANGED <<vars, view, form, heard, basis>>

\* The rest of loadAdmin: the tab shows what it was sent, however old it has
\* become.  An open editor stays open, with the values it was opened with.
ReceiveWorkspace(s) ==
  /\ fetched[s] # NoRow
  /\ view' = [view EXCEPT ![s] = fetched[s]]
  /\ fetched' = [fetched EXCEPT ![s] = NoRow]
  /\ UNCHANGED <<vars, form, heard, basis>>

\* openAssetEditor and its like, openDeleteConfirmation.
OpenForm(s, operations) ==
  /\ view[s] # NoRow
  /\ form' = [form EXCEPT ![s] =
                [open |-> TRUE, basis |-> view[s], operations |-> operations]]
  /\ UNCHANGED <<vars, view, fetched, heard, basis>>

CloseForm(s) ==
  /\ form[s].open
  /\ form' = [form EXCEPT ![s] = NoForm]
  /\ UNCHANGED <<vars, view, fetched, heard, basis>>

\* sendAdminOperations: the revision is the one the tab shows when it sends,
\* which need not be the one the form was filled from.  Nothing disables the
\* button, so a form can be submitted again while its request is under way.
\* An open form means a loaded workspace, so the load that the code makes
\* first when there is none does not happen; a token refresh takes no time.
\* ExpectedRevisions bounds the model here as it does in AdminCommit.
Submit(s, q) ==
  /\ form[s].open
  /\ view[s].revision \in ExpectedRevisions
  /\ Send(q, [expected |-> view[s].revision, actor |-> s,
              operations |-> form[s].operations])
  /\ basis' = [basis EXCEPT ![q] = form[s].basis]
  /\ UNCHANGED <<view, fetched, form, heard>>

\* A mutant: the tab adopts the revision an answer tells of, a conflict or a
\* save, and keeps the rows it had.
ReceiveAnswerAdopting(q) ==
  LET s == command[q].actor IN
  /\ phase[q] = "done" /\ q \notin heard
  /\ heard' = heard \cup {q}
  /\ IF answer[q].code = Saved
     THEN /\ view' = [view EXCEPT ![s].revision = next[q].revision]
          /\ form' = [form EXCEPT ![s] = NoForm]
     ELSE /\ UNCHANGED form
          /\ IF answer[q].code = RevisionConflict
             THEN view' = [view EXCEPT ![s].revision = answer[q].revision]
             ELSE UNCHANGED view
  /\ UNCHANGED <<vars, fetched, basis>>

\* The rest of sendAdminOperations and of the form's submit handler.  After an
\* error, a conflict among them, the form stays as it is; the warning that the
\* workspace is out of date (state.staleWorkspace) holds nothing back.
ReceiveAnswer(q) ==
  LET s == command[q].actor IN
  /\ phase[q] = "done" /\ q \notin heard
  /\ heard' = heard \cup {q}
  /\ IF answer[q].code = Saved
     THEN /\ view' = [view EXCEPT ![s] = next[q]]
          /\ form' = [form EXCEPT ![s] = NoForm]
     ELSE UNCHANGED <<view, form>>
  /\ UNCHANGED <<vars, fetched, basis>>

ServerStep ==
  /\ \/ \E doc \in InitialDocs : InitializeAdminData(doc)
     \/ \E q \in Requests : Step(q) \/ Lose(q)
  /\ UNCHANGED tabVars

TabNext ==
  \/ ServerStep
  \/ \E s \in Subjects :
       \/ RequestWorkspace(s)
       \/ ReceiveWorkspace(s)
       \/ \E operations \in Batches : OpenForm(s, operations)
       \/ CloseForm(s)
       \/ \E q \in Requests : Submit(s, q)
  \/ \E q \in Requests : ReceiveAnswer(q)

TabSpec == TabInit /\ [][TabNext]_allVars

-----------------------------------------------------------------------------
(* Properties. *)

\* The trail entries written by request q.
EntriesOf(q) ==
  {row.trail[k] : k \in {k \in DOMAIN row.trail :
                           commits[row.trail[k].revision] = q}}

\* A form sent from the workspace it was filled from replaces exactly what
\* its user was looking at: every entry's "before" is what the form showed.
\* A preview of a delete is honest, an edit overwrites nothing unseen.
PreviewIsHonest ==
  \A r \in DOMAIN commits :
    LET q == commits[r] IN
    basis[q].revision = command[q].expected =>
      \A entry \in EntriesOf(q) : entry.before = basis[q].doc[entry.ref]

\* A snapshot the row has been: the trail it brings is the beginning of the
\* stored trail, and at the same revision all is the same.
IsEarlier(snapshot, stored) ==
  /\ snapshot.revision <= stored.revision
  /\ Len(snapshot.trail) <= Len(stored.trail)
  /\ SubSeq(stored.trail, 1, Len(snapshot.trail)) = snapshot.trail
  /\ snapshot.revision = stored.revision => snapshot = stored

WasStored(snapshot) == row # NoRow /\ IsEarlier(snapshot, row)

\* What tabs show, what is on its way to them, what their forms were filled
\* from and what a save is answered with was stored, as it was stored.
ViewsWereStored ==
  /\ \A s \in Subjects :
       /\ view[s] # NoRow => WasStored(view[s])
       /\ fetched[s] # NoRow => WasStored(fetched[s])
       /\ form[s].open => WasStored(form[s].basis)
  /\ \A q \in Requests :
       /\ phase[q] # "idle" => WasStored(basis[q])
       /\ phase[q] = "report" \/ answer[q].code = Saved => WasStored(next[q])

\* Tabs tell the truth: what they show was stored, and what is saved from what
\* they show replaces just that.
TabsTellTheTruth == ViewsWereStored /\ PreviewIsHonest

\* The inductive invariant of the proofs: the write path's own, the revisions
\* of the trail among it, and what the tabs hold.
TabInv ==
  /\ Inv
  /\ TrailRecordsBatches
  /\ TabTypeOK
  /\ TabsTellTheTruth

\* "Optimistic locking is not got round ... not a silent override"
\* (docs/claude-code-handoff-ui-vaihe-1.md:159): what another administrator
\* stored after a form was filled in, that form does not replace.
NoSilentOverride ==
  \A r \in DOMAIN commits :
    LET q == commits[r] IN
    \A entry \in EntriesOf(q) : \A k \in DOMAIN row.trail :
      row.trail[k].revision \in basis[q].revision + 1 .. r - 1
        /\ row.trail[k].ref = entry.ref =>
          row.trail[k].actor = entry.actor
=============================================================================
