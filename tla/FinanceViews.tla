----------------------------- MODULE FinanceViews -----------------------------
(***************************************************************************)
(* The browser's finance views, which read the same account data again:    *)
(* Tulot and Kulut ryhmittain, Kulut tileittain, the yearly chart and      *)
(* Budjetti vs. toteuma (public/adminOperationPayloads.js).  A row of a    *)
(* view is a function of its columns and the order of rows is left out;    *)
(* a percentage is left out where only its being known matters.            *)
(***************************************************************************)
EXTENDS OperatingFigures

\* A share of the income: an amount, and what it is a part of.
Share == [part : Int, of : Int]

ViewsAssumption == VersionsAssumption /\ Absent \notin Share

SumOfKnown(figure) ==
  LET known == {x \in DOMAIN figure : figure[x] # Absent}
  IN  IF known = {} THEN Absent ELSE SumFunction([x \in known |-> figure[x]])

Codified(kind) == {k \in Entered(accounts) : accounts[k].kind = kind}
HasEntry(k) == \E y \in Years : entries[<<k, y>>] # Absent
YearsStated(kind, side) ==
  {y \in Years : \E k \in Codified(kind) : Stated(k, y, side) # Absent}

\* buildGroupedFinanceCore: the groups of the accounts with an entry, their sums for
\* every actual year and for the latest budgeted one, and the change between the
\* last two actual years.
CoreGroups(kind) == {accounts[k].group : k \in {k \in Codified(kind) : HasEntry(k)}}
CoreYears(kind) == YearsStated(kind, "actual")

\* A mutant: a group that reports nothing has had no costs.
CoreActualOrZero(kind, g, y) ==
  LET reporting == {k \in GroupAccounts(kind, g) : Stated(k, y, "actual") # Absent}
  IN  SumFunction([k \in reporting |-> Stated(k, y, "actual")])

CoreActual(kind, g, y) ==
  SumOfKnown([k \in GroupAccounts(kind, g) |-> Stated(k, y, "actual")])
CoreBudgetYear(kind) ==
  LET years == YearsStated(kind, "budget")
  IN  IF years = {} THEN Absent ELSE Max(years)
CoreBudget(kind, g) ==
  LET year == CoreBudgetYear(kind)
  IN  IF year = Absent THEN Absent
      ELSE SumOfKnown([k \in GroupAccounts(kind, g) |-> Stated(k, year, "budget")])
CoreChange(kind, g) ==
  LET years == CoreYears(kind)
      latest == CoreActual(kind, g, Max(years))
      previous == CoreActual(kind, g, Max(years \ {Max(years)}))
  IN  IF Cardinality(years) < 2 \/ latest = Absent \/ previous = Absent THEN Absent
      ELSE latest - previous

\* buildIncomeViewModel: the share of a group in the income of the latest year, as
\* its amount and what it is a part of.
IncomeShare(g) ==
  LET years == CoreYears("income")
      figure == [x \in CoreGroups("income") |-> CoreActual("income", x, Max(years))]
      total == SumOfKnown(figure)
  IN  IF years = {} \/ figure[g] = Absent \/ total = 0 THEN Absent
      ELSE [part |-> figure[g], of |-> total]

\* buildExpenseGroupViewModel: what a group's accounts disagree on has no value.
ExpenseGroupNature(g) ==
  LET shown == {k \in GroupAccounts("expense", g) : HasEntry(k)}
      natures == {accounts[k].nature : k \in shown} \ {Absent}
  IN  IF Cardinality(natures) = 1 THEN CHOOSE n \in natures : TRUE ELSE Absent

\* buildAccountCostsViewModel: a column for every side and year that some account
\* states; the totals read a missing figure as nothing.
CostColumns == {c \in Sides \X Years : c[2] \in YearsStated("expense", c[1])}
CostTotal(g, c) ==
  LET stating ==
        {k \in Codified("expense") : accounts[k].group = g /\ Stated(k, c[2], c[1]) # Absent}
  IN  SumFunction([k \in stating |-> Stated(k, c[2], c[1])])

-----------------------------------------------------------------------------

\* A mutant: a retired row of a group is indexed.
IndexWithRetired(kind) ==
  {x \in Groups \X Years : groupRows[<<"actual", kind, x[1], x[2]>>] # Absent}

\* indexGroupActuals: the groups and years with an active row of their own.
GroupActualIndex(kind) ==
  {x \in Groups \X Years :
     LET row == groupRows[<<"actual", kind, x[1], x[2]>>] IN row # Absent /\ row.active}

SeriesYears(kind) == CoreYears(kind) \cup {x[2] : x \in GroupActualIndex(kind)}

\* buildGroupActualSeries: the groups with and without accounts.
SeriesGroups(kind) == CoreGroups(kind) \cup {x[1] : x \in GroupActualIndex(kind)}

\* The group's own figure over the sum of its accounts.
SeriesActual(kind, g, y) ==
  IF <<g, y>> \in GroupActualIndex(kind) THEN groupRows[<<"actual", kind, g, y>>].amount
  ELSE IF g \in CoreGroups(kind) THEN CoreActual(kind, g, y)
  ELSE Absent

SeriesTotal(kind, y) == SumOfKnown([g \in SeriesGroups(kind) |-> SeriesActual(kind, g, y)])

\* buildBarChartGeometry: a bar is as high as its value, of the highest; a value
\* that is not known has no bar.
Bars(values) ==
  LET known == {x \in DOMAIN values : values[x] # Absent}
      highest == Max({0} \cup {Magnitude(values[x]) : x \in known})
  IN  [x \in DOMAIN values |->
         [value |-> values[x],
          heightPercent |-> IF x \notin known THEN Absent
                            ELSE IF highest = 0 THEN 0
                            ELSE (100 * Magnitude(values[x])) \div highest]]

\* buildSummaryChartModel: income and costs of every year.
SummaryBars ==
  LET years == SeriesYears("income") \cup SeriesYears("expense")
  IN  Bars([x \in Kinds \X years |-> SeriesTotal(x[1], x[2])])

\* buildGroupChartModel: the actual years of a group, and its budget as a last bar.
GroupChart(kind, g) ==
  LET budget == IF CoreBudget(kind, g) = Absent THEN {}
                ELSE {<<"budget", CoreBudgetYear(kind)>>}
  IN  Bars([x \in ({"actual"} \X CoreYears(kind)) \cup budget |->
              IF x[1] = "actual" THEN CoreActual(kind, g, x[2]) ELSE CoreBudget(kind, g)])

-----------------------------------------------------------------------------
(* Budjetti vs. toteuma, by kind and group for one year.                     *)

\* A mutant: a year needs a budget and an actual of any two groups.
ComparableYearsOfAnyGroup ==
  {y \in Years : \E kind \in Kinds :
     y \in FigureYears(kind, "actual") /\ y \in FigureYears(kind, "budget")}

\* deriveComparableGroupBudgetYears: the years in which one group has a budget and
\* an actual, its own or of an account.
ComparableYears ==
  LET has(side, kind, g, y) ==
        \/ \E k \in GroupAccounts(kind, g) : Stated(k, y, side) # Absent
        \/ LET row == groupRows[<<side, kind, g, y>>] IN row # Absent /\ row.active
  IN  {y \in Years : \E kind \in Kinds, g \in Groups :
         has("actual", kind, g, y) /\ has("budget", kind, g, y)}

\* A mutant: what no account explains is measured against the group's budget.
UnitemizedOfBudget(own, sum, budget) ==
  IF own = Absent \/ sum = Absent \/ own = sum \/ budget = Absent THEN Absent
  ELSE own - budget

\* What of the group's own figure no account explains.
Unitemized(own, sum, budget) ==
  IF own = Absent \/ sum = Absent \/ own = sum THEN Absent ELSE own - sum

\* The row of a group; the rows of its accounts are its detail.
GroupRowView(kind, g, y) ==
  LET own(side) ==
        LET row == groupRows[<<side, kind, g, y>>]
        IN  IF row = Absent \/ ~row.active THEN Absent ELSE row.amount
      detail == {k \in GroupAccounts(kind, g) : entries[<<k, y>>] # Absent}
      sum(side) == SumOfKnown([k \in detail |-> Stated(k, y, side)])
      figure(side) == IF own(side) # Absent THEN own(side) ELSE sum(side)
  IN  [budget |-> figure("budget"), actual |-> figure("actual"),
       overriddenAccountsBudget |-> IF own("budget") = Absent THEN Absent ELSE sum("budget"),
       accountsActual |-> sum("actual"),
       unitemizedActual |-> Unitemized(own("actual"), sum("actual"), figure("budget")),
       diffAmount |-> IF figure("actual") = Absent \/ figure("budget") = Absent THEN Absent
                      ELSE figure("actual") - figure("budget"),
       detail |-> detail]

\* buildGroupBudgetVsActualViewModel: a row for every group with an account or with
\* an active figure of its own for the year.
RowsShown(y) ==
  {x \in Kinds \X Groups :
     \/ GroupAccounts(x[1], x[2]) # {}
     \/ \E side \in Sides :
          LET row == groupRows[<<side, x[1], x[2], y>>] IN row # Absent /\ row.active}

ViewTotal(kind, side, y) ==
  SumOfKnown([x \in {x \in RowsShown(y) : x[1] = kind} |->
                GroupRowView(kind, x[2], y)[side]])

-----------------------------------------------------------------------------

\* The browser repeats the server's rule for what a group's figure is: its chart and
\* its comparison show, for every group and year, the figure the server's margin and
\* cash path are made from, and the same totals.
ViewsAgreeWithTheServer ==
  \A kind \in Kinds, y \in Years :
    /\ LET bars == SummaryBars
           total == Total(kind, "actual", y)
       IN  IF <<kind, y>> \in DOMAIN bars THEN bars[<<kind, y>>].value = total
           ELSE total = Absent
    /\ \A side \in Sides : ViewTotal(kind, side, y) = Total(kind, side, y)
    /\ \A g \in Groups :
         LET actual == GroupFigure(kind, "actual", g, y)
             row == GroupRowView(kind, g, y)
         IN  /\ g \in SeriesGroups(kind) \/ actual = Absent
             /\ SeriesActual(kind, g, y) = actual
             /\ IF <<kind, g>> \in RowsShown(y)
                THEN row.actual = actual /\ row.budget = GroupFigure(kind, "budget", g, y)
                ELSE actual = Absent

\* The detail of a group's row explains its total: its accounts and the part no
\* account explains add up to the actual, whichever of the two was used.
DetailExplainsTheTotal ==
  \A y \in Years : \A x \in RowsShown(y) :
    LET row == GroupRowView(x[1], x[2], y)
        stating == {k \in row.detail : Stated(k, y, "actual") # Absent}
        rest == IF row.unitemizedActual = Absent THEN 0 ELSE row.unitemizedActual
    IN  stating # {} =>
          row.actual = rest + SumFunction([k \in stating |-> Stated(k, y, "actual")])

\* The views of the accounts agree with each other.  A bar of a group is missing
\* exactly when no account of it reports that year, since a bar of no height would say
\* that there were no costs; the totals of Kulut tileittain and the change are those
\* the bars show; and the shares of income are parts of one whole.
AccountViewsAgree ==
  /\ \A g \in CoreGroups("expense") :
       LET chart == GroupChart("expense", g)
           years == CoreYears("expense")
       IN  /\ \A y \in years :
                LET bar == chart[<<"actual", y>>]
                IN  /\ bar.heightPercent = Absent
                         <=> \A k \in GroupAccounts("expense", g) : Stated(k, y, "actual") = Absent
                    /\ CostTotal(g, <<"actual", y>>)
                         = IF bar.heightPercent = Absent THEN 0 ELSE bar.value
           /\ CoreChange("expense", g) # Absent =>
                CoreChange("expense", g)
                  = CostTotal(g, <<"actual", Max(years)>>)
                      - CostTotal(g, <<"actual", Max(years \ {Max(years)})>>)
  /\ LET sharing == {g \in CoreGroups("income") : IncomeShare(g) # Absent}
     IN  \A g \in sharing :
           IncomeShare(g).of = SumFunction([x \in sharing |-> IncomeShare(x).part])

\* A year that can be chosen for the comparison compares something, and a year that
\* has something to compare can be chosen: the two are found in two ways.
ComparableYearsCompare ==
  \A y \in Years :
    y \in ComparableYears
      <=> \E x \in RowsShown(y) : GroupRowView(x[1], x[2], y).diffAmount # Absent
=============================================================================
