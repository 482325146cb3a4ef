---------------------------- MODULE BalancePosition ---------------------------
(***************************************************************************)
(* The view of the balance sheets (public/app.js, renderBalancePosition):  *)
(* one list chooses the sheet that is shown and another the one it is      *)
(* compared with.  Both lists are made anew on every rendering, that is    *)
(* when a workspace with other sheets arrives and when a choice changes.   *)
(***************************************************************************)
EXTENDS BalanceSheets

CONSTANT None     \* the choice "Ei vertailua", and no sheet to show

PositionAssumption == PastesAssumption /\ None \notin SheetIds

VARIABLES
  shown,          \* the value of the list of sheets
  compared        \* the value of the list of sheets to compare with

positionVars == <<sheets, shown, compared>>

\* The lists are sorted by the date; sheets of one date are in the order of their ids.
Precedes(at, a, b) ==
  \/ at[a].year < at[b].year
  \/ at[a].year = at[b].year /\ at[a].day < at[b].day
  \/ at[a].year = at[b].year /\ at[a].day = at[b].day /\ a < b

LatestOf(at, ids) ==
  IF ids = {} THEN None ELSE CHOOSE a \in ids : \A b \in ids \ {a} : Precedes(at, b, a)

\* A mutant: every rendering shows the latest sheet.
ShownOfLatest(at, value) == LatestOf(at, {id \in SheetIds : at[id] # Absent})

\* populateBalancePositionSelector: a choice that is no longer there gives way to the
\* latest sheet.
ShownOf(at, value) ==
  LET present == {id \in SheetIds : at[id] # Absent}
  IN  IF value \in present THEN value ELSE LatestOf(at, present)

\* A mutant: the sheet that is shown may be kept as the one it is compared with.
ComparedOfAny(at, value, show) ==
  LET present == {id \in SheetIds : at[id] # Absent}
  IN  IF value \in present THEN value
      ELSE LatestOf(at, {id \in present : Precedes(at, id, show)})

\* populateBalanceCompareSelector: and to the sheet before the one that is shown.
ComparedOf(at, value, show) ==
  LET present == {id \in SheetIds : at[id] # Absent}
  IN  IF value \in present \ {show} THEN value
      ELSE LatestOf(at, {id \in present : Precedes(at, id, show)})

\* renderBalancePosition, with the values the lists have: without a sheet to show the
\* second list is emptied.
Render(at, show, compare) ==
  /\ shown' = ShownOf(at, show)
  /\ compared' = IF shown' = None THEN None ELSE ComparedOf(at, compare, shown')

Init ==
  /\ SheetsInit
  /\ shown = None
  /\ compared = None

\* The workspace arrives with a sheet pasted or deleted.
Reload == EditSheets /\ Render(sheets', shown, compared)

ChooseSheet(id) ==
  /\ id # shown
  /\ UNCHANGED sheets
  /\ Render(sheets, id, compared)

ChooseComparison(id) ==
  /\ id # compared /\ id # shown
  /\ shown # None
  /\ UNCHANGED sheets
  /\ Render(sheets, shown, id)

Next ==
  \/ Reload
  \/ \E id \in Present : ChooseSheet(id)
  \/ \E id \in Present \cup {None} : ChooseComparison(id)

PositionSpec == Init /\ [][Next]_positionVars

-----------------------------------------------------------------------------

\* A sheet is shown as long as there is one, and it is compared with a sheet there is
\* and never with itself, whatever was chosen before and however the sheets change.
TwoSheetsAreCompared ==
  /\ shown # None <=> Present # {}
  /\ compared # None => compared \in Present \ {shown}

\* A reload moves the reader to another sheet only when the one that is read is gone,
\* and changes the other side of the comparison only when that one is gone.
AReloadKeepsTheChoices ==
  sheets' # sheets =>
    /\ shown \in Present' => shown' = shown
    /\ compared \in Present' /\ shown \in Present' => compared' = compared
=============================================================================
