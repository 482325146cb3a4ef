------------------------------ MODULE Calculations ----------------------------
(***************************************************************************)
(* What the server and the browser calculate, five parts side by side:     *)
(* the projection of the approved repairs (Projection), the liquidity      *)
(* forecast (Liquidity), the figures of the account data and the browser's *)
(* views of them (FinanceViews), the cash path table over all of these     *)
(* (CashPathTable), and the balance sheets with the view that compares two *)
(* of them (BalancePosition).                                              *)
(*                                                                         *)
(* The parts share no state.  The first state says which of them is at     *)
(* work.                                                                   *)
(***************************************************************************)
EXTENDS Liquidity

CONSTANTS
  EventIds, Scenarios, Calendar, Amounts, Gap, Versions, Horizons,  \* projection
  Codes, Groups, RepairNames, BookYears,                            \* figures
  AccountVersions, EntryVersions, GroupVersions,
  TableYears, TableAccountVersions, TableEntryVersions,             \* cash path
  TableGroupVersions, TablePastes, TableEventIds, TableAmounts, TableEventVersions,
  Coverages,
  SheetIds, Pastes, LineFlaws, CashNames,                           \* balance sheets
  None

VARIABLES
  part,
  events, horizon,
  accounts, entries, groupRows,
  tableAccounts, tableEntries, tableGroupRows, tableSheets, tableEvents, coverage,
  sheets, shown, compared

Costs == INSTANCE Projection

Views == INSTANCE FinanceViews WITH Years <- BookYears

Table == INSTANCE CashPathTable WITH
  Years <- TableYears, AccountVersions <- TableAccountVersions,
  EntryVersions <- TableEntryVersions, GroupVersions <- TableGroupVersions,
  Pastes <- TablePastes, EventIds <- TableEventIds, RepairAmounts <- TableAmounts,
  EventVersions <- TableEventVersions,
  accounts <- tableAccounts, entries <- tableEntries, groupRows <- tableGroupRows,
  sheets <- tableSheets, events <- tableEvents

Position == INSTANCE BalancePosition

ASSUME CalculationsAssumption ==
  /\ Costs!InputsAssumption
  /\ Views!ViewsAssumption
  /\ Table!TableAssumption
  /\ Position!PositionAssumption

-----------------------------------------------------------------------------

Parts == {"projection", "liquidity", "figures", "cash path", "balance sheets"}

projectionVars == <<events, horizon>>
figureVars == <<accounts, entries, groupRows>>
tableVars ==
  <<tableAccounts, tableEntries, tableGroupRows, tableSheets, tableEvents, coverage>>
positionVars == <<sheets, shown, compared>>

CalculationsInit ==
  /\ part \in Parts
  /\ Init /\ Costs!Init /\ Views!BooksInit /\ Table!Init /\ Position!Init

CalculationsNext ==
  /\ UNCHANGED part
  /\ \/ /\ part = "projection" /\ Costs!Next
        /\ UNCHANGED <<vars, figureVars, tableVars, positionVars>>
     \/ /\ part = "liquidity" /\ Next
        /\ UNCHANGED <<projectionVars, figureVars, tableVars, positionVars>>
     \/ /\ part = "figures" /\ Views!EditBooks
        /\ UNCHANGED <<vars, projectionVars, tableVars, positionVars>>
     \/ /\ part = "cash path" /\ Table!Next
        /\ UNCHANGED <<vars, projectionVars, figureVars, positionVars>>
     \/ /\ part = "balance sheets" /\ Position!Next
        /\ UNCHANGED <<vars, projectionVars, figureVars, tableVars>>

CalculationsVars ==
  <<part, vars, projectionVars, figureVars, tableVars, positionVars>>

CalculationsSpec == CalculationsInit /\ [][CalculationsNext]_CalculationsVars

-----------------------------------------------------------------------------
(* Properties, as their modules state them; those of the liquidity are here *)
(* by EXTENDS.                                                              *)

\* Inputs, loops and rows have their types, and an entry names an account there is.
CalculationsTypeOK ==
  /\ TypeOK /\ Costs!TypeOK /\ Views!BooksTypeOK /\ Table!TypeOK
  /\ Position!SheetsTypeOK

\* Every approved row is counted in exactly one place, and the forecasts accept
\* every projection of whole cents (Projection); every approved repair reaches the
\* cash path's table too (CashPathTable).
RowsAreCountedOnce ==
  /\ part = "projection" => Costs!RowsAreCountedOnce /\ Costs!OwnProjectionAccepted
  /\ part = "cash path" => Table!ApprovedRepairsReachTheTable

\* Every figure is in one part of its year's margin, and the forecast's margin is
\* that of a year of the series (OperatingFigures).
FiguresAreCountedOnce ==
  part = "figures" => Views!FiguresAreCountedOnce /\ Views!LatestYearAsInTheSeries

\* The browser's figures are the server's: its views show the same groups, years
\* and totals, the detail explains the total, and the years that can be chosen
\* compare something (FinanceViews).
ViewsAgree ==
  part = "figures" =>
    /\ Views!ViewsAgreeWithTheServer
    /\ Views!DetailExplainsTheTotal
    /\ Views!ComparableYearsCompare
    /\ Views!AccountViewsAgree

\* The rows of a comparison explain its totals, and a year with a cash line has its
\* closing cash (BalanceSheets); of two sheets that are there, two are compared
\* (BalancePosition).
SheetsCompare ==
  part = "balance sheets" =>
    /\ Position!ComparisonAddsUp
    /\ Position!ACashLineStatesItsYear
    /\ Position!TwoSheetsAreCompared

\* A change moves nothing it has no part in: an account without entries reclassifies
\* no group (OperatingFigures), a plan changes no closed year (CashPathTable), and a
\* reload changes only the choice of a sheet that is gone (BalancePosition).
ChangesStayInPlace ==
  [][/\ part = "figures" => Views!IdleAccountsReclassifyNothing
     /\ part = "cash path" => Table!PlansLeaveClosedYears
     /\ part = "balance sheets" => Position!AReloadKeepsTheChoices]_CalculationsVars
=============================================================================
