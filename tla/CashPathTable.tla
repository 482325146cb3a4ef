----------------------------- MODULE CashPathTable ----------------------------
(***************************************************************************)
(* The cash path table (src/readModels/cashPathTable.ts): a row for every  *)
(* closed year and for the budgeted years after them, from the account     *)
(* data, the balance sheets and the approved repairs, for each scenario,   *)
(* and under it the repairs that are known.  It is made anew from the      *)
(* workspace on every read, while administrators edit all of them.         *)
(***************************************************************************)
EXTENDS OperatingFigures

CONSTANTS
  SheetIds, Pastes, CashNames,                        \* of BalanceSheets
  EventIds, Scenarios, RepairAmounts, Gap, EventVersions, \* of Projection
  Coverages         \* the years a maintenance plan may cover

VARIABLES
  sheets, events,
  coverage          \* maintenancePlanCoverageThroughYear

vars == <<bookVars, sheets, events, coverage>>

B == INSTANCE BalanceSheets WITH LineFlaws <- {}

Actual == MarginYears("actual")
Budgeted == MarginYears("budget")

\* A mutant: a year after the coverage has no row.
BudgetRowYearsCovered ==
  {y \in Budgeted : (Actual = {} \/ y > Max(Actual)) /\ (coverage = Absent \/ y <= coverage)}

\* The budgeted years after the last closed one.
BudgetRowYears == {y \in Budgeted : Actual = {} \/ y > Max(Actual)}

ApprovedEvents == {e \in Entered(events) : events[e].status = "approved"}
ApprovedYears == UNION {{r.year : r \in events[e].schedule} : e \in ApprovedEvents}

Span(years) ==
  LET some == IF years = {} THEN {0} ELSE years
  IN  [start |-> Min(some), end |-> Max(some)]

\* A mutant: only the budgeted years are projected.
HorizonOfBudget == Span(BudgetRowYears)

\* projectKnownRepairs: over every year an approved row names and every budget row.
KnownHorizon == Span(BudgetRowYears \cup ApprovedYears)

P == INSTANCE Projection WITH
       Calendar <- Years, Amounts <- RepairAmounts, Versions <- EventVersions,
       Horizons <- {}, horizon <- KnownHorizon

TableAssumption == VersionsAssumption /\ B!PastesAssumption /\ P!InputsAssumption

ActualRow(y) ==
  [openingCash |-> B!ClosingCash(y - 1), operatingMargin |-> MarginOf("actual", y).operatingMargin,
   repairs |-> MarginOf("actual", y).repairs, closingCash |-> B!ClosingCash(y),
   repairBudget |-> IF y \in Budgeted THEN MarginOf("budget", y).repairs ELSE Absent,
   marginVsBudget |-> IF y \in Budgeted
     THEN MarginOf("actual", y).operatingMargin - MarginOf("budget", y).operatingMargin
     ELSE Absent]

ProjectedIn(years, y) ==
  IF y \in DOMAIN years THEN years[y] ELSE [amount |-> 0, gaps |-> {}]

\* A mutant: a gap is a repair that costs nothing.
PlannedRowOverGaps(opening, margin, projected) ==
  [openingCash |-> opening, operatingMargin |-> margin.operatingMargin,
   repairs |-> projected.amount, repairDataGapCount |-> Cardinality(projected.gaps),
   closingCash |-> IF opening = Absent THEN Absent
                   ELSE opening + margin.operatingMargin - projected.amount,
   repairBudget |-> margin.repairs]

\* What is left is computed, when it starts from a balance sheet and no gap is in it.
PlannedRow(opening, margin, projected) ==
  [openingCash |-> opening, operatingMargin |-> margin.operatingMargin,
   repairs |-> projected.amount, repairDataGapCount |-> Cardinality(projected.gaps),
   closingCash |-> IF opening = Absent \/ projected.gaps # {} THEN Absent
                   ELSE opening + margin.operatingMargin - projected.amount,
   repairBudget |-> margin.repairs]

BudgetRow(s, y) ==
  PlannedRow(B!ClosingCash(y - 1), MarginOf("budget", y), ProjectedIn(P!YearRows(s), y))

\* buildCashPathTable: the rows of a scenario, by year.
Rows(s) ==
  [y \in Actual \cup BudgetRowYears |-> IF y \in Actual THEN ActualRow(y) ELSE BudgetRow(s, y)]

\* The banner: every row of the projected years, and its totals.
Banner(s) ==
  LET years == P!YearRows(s)
  IN  [total |-> SumFunction([y \in DOMAIN years |-> years[y].amount]),
       dataGapCount |-> SumFunction([y \in DOMAIN years |-> Cardinality(years[y].gaps)])]

-----------------------------------------------------------------------------

Init ==
  /\ BooksInit
  /\ B!SheetsInit
  /\ events = [e \in EventIds |-> Absent]
  /\ coverage = Absent

EditEvent(e, v) ==
  /\ v # events[e]
  /\ events' = [events EXCEPT ![e] = v]
  /\ UNCHANGED <<bookVars, sheets, coverage>>

SetCoverage(y) ==
  /\ coverage # y
  /\ coverage' = y
  /\ UNCHANGED <<bookVars, sheets, events>>

Next ==
  \/ EditBooks /\ UNCHANGED <<sheets, events, coverage>>
  \/ B!EditSheets /\ UNCHANGED <<bookVars, events, coverage>>
  \/ \E e \in EventIds, v \in EventVersions \cup {Absent} : EditEvent(e, v)
  \/ \E y \in Coverages \cup {Absent} : SetCoverage(y)

Spec == Init /\ [][Next]_vars

TypeOK ==
  /\ BooksTypeOK
  /\ B!SheetsTypeOK
  /\ events \in [EventIds -> EventVersions \cup {Absent}]
  /\ coverage \in Coverages \cup {Absent}

\* The approved rows of a scenario, in one year.
ApprovedRows(s, y) ==
  UNION {{[event |-> e, entry |-> r] :
            r \in {x \in events[e].schedule : x.scenario = s /\ x.year = y}} :
           e \in ApprovedEvents}

\* A budget row charges these costs, counts these gaps, and states what is left only
\* if there are none.
ChargesAll(row, cost, gaps) ==
  /\ row.repairs = cost /\ row.repairDataGapCount = gaps
  /\ row.closingCash # Absent =>
       gaps = 0 /\ row.closingCash = row.openingCash + row.operatingMargin - cost

\* Every approved repair reaches the table and the list under it: a budget row charges
\* those of its year and its scenario and counts those whose cost is not known, it
\* states what is left only when all of them are known, and the list has every one,
\* after the plan's coverage and before the first row too.
ApprovedRepairsReachTheTable ==
  \A s \in Scenarios :
    LET priced(y) == {x \in ApprovedRows(s, y) : x.entry.amount # Gap}
        cost(y) == SumFunction([x \in priced(y) |-> x.entry.amount])
        gaps(y) == Cardinality(ApprovedRows(s, y)) - Cardinality(priced(y))
    IN  /\ \A y \in DOMAIN Rows(s) \ Actual : ChargesAll(Rows(s)[y], cost(y), gaps(y))
        /\ Banner(s) = [total |-> SumFunction([y \in Years |-> cost(y)]),
                        dataGapCount |-> SumFunction([y \in Years |-> gaps(y)])]

\* A closed year's row never moves by what is planned: approving, changing or deleting
\* an event, and setting the coverage, leaves the actual rows as they are, and adds and
\* drops no row.
PlansLeaveClosedYears ==
  <<events', coverage'>> # <<events, coverage>> =>
    /\ Actual' = Actual /\ BudgetRowYears' = BudgetRowYears
    /\ \A y \in Actual : UNCHANGED ActualRow(y)
=============================================================================
