--------------------------- MODULE OperatingFigures ---------------------------
(***************************************************************************)
(* The figures of the account data: what a group cost or earned in a year, *)
(* actual or budgeted, and from it the 12-month operating costs and the    *)
(* operating margin, "hoitokate" (src/finance/operatingFigures.ts).        *)
(* Administrators edit the account data; the figures are read at any time. *)
(*                                                                         *)
(* An amount is a whole number of cents, so that round2 leaves a sum as it *)
(* is; only the mean of the repairs is rounded.                            *)
(***************************************************************************)
EXTENDS Integers, FiniteSets, FiniteSetsExt

CONSTANTS
  Codes,            \* account codes
  Groups,           \* names of account groups
  RepairNames,      \* those spelled KORJAUKSET, in any case
  Years,
  Absent,           \* no such row; a figure that is not stated
  AccountVersions,  \* what an account may be saved as, by its code
  EntryVersions,    \* what an entry may be saved as, by account and year
  GroupVersions     \* what a group's row may be saved as, by its key

Kinds == {"income", "expense"}
Natures == {"maintenance", "repair"}
Sides == {"actual", "budget"}

Account == [kind : Kinds, group : Groups, nature : Natures \cup {Absent}]

\* One of the two figures may be missing, not both.
Entry == [Sides -> Int \cup {Absent}] \ {[s \in Sides |-> Absent]}

\* A GroupActual or a GroupBudget, by side, kind, group and year.
GroupKeys == Sides \X Kinds \X Groups \X Years
GroupRow == [amount : Int, active : BOOLEAN]

VersionsAssumption ==
  /\ IsFiniteSet(Codes) /\ IsFiniteSet(Groups) /\ IsFiniteSet(Years)
  /\ RepairNames \subseteq Groups /\ Years \subseteq Int
  /\ Absent \notin Int /\ Absent \notin Account /\ Absent \notin Entry /\ Absent \notin GroupRow
  /\ \A k \in DOMAIN AccountVersions : k \in Codes /\ AccountVersions[k] \subseteq Account
  /\ \A c \in DOMAIN EntryVersions :
       /\ c \in Codes \X Years
       /\ EntryVersions[c] \subseteq Entry
  /\ \A r \in DOMAIN GroupVersions : r \in GroupKeys /\ GroupVersions[r] \subseteq GroupRow

VARIABLES accounts, entries, groupRows

bookVars == <<accounts, entries, groupRows>>

Entered(rows) == {x \in DOMAIN rows : rows[x] # Absent}

\* Types, and every entry is of an account there is.
BooksTypeOK ==
  /\ accounts \in [Codes -> Account \cup {Absent}]
  /\ entries \in [Codes \X Years -> Entry \cup {Absent}]
  /\ \A c \in Entered(entries) : accounts[c[1]] # Absent
  /\ groupRows \in [GroupKeys -> GroupRow \cup {Absent}]

-----------------------------------------------------------------------------

\* What the entry of an account and a year states.
Stated(k, y, side) ==
  IF entries[<<k, y>>] = Absent THEN Absent ELSE entries[<<k, y>>][side]

GroupAccounts(kind, g) ==
  {k \in Codes : accounts[k] # Absent /\ accounts[k].kind = kind /\ accounts[k].group = g}

AccountSum(kind, side, g, y) ==
  LET stating == {k \in GroupAccounts(kind, g) : Stated(k, y, side) # Absent}
  IN  IF stating = {} THEN Absent
      ELSE SumFunction([k \in stating |-> Stated(k, y, side)])

GroupLevel(kind, side, g, y) ==
  LET row == groupRows[<<side, kind, g, y>>]
  IN  IF row = Absent \/ ~row.active THEN Absent ELSE row.amount

\* A mutant: what a group states is added to what its accounts state.
GroupFigureTwice(kind, side, g, y) ==
  LET own == GroupLevel(kind, side, g, y)
      sum == AccountSum(kind, side, g, y)
  IN  IF own = Absent THEN sum ELSE IF sum = Absent THEN own ELSE own + sum

\* The figure of a group: its own wins over the sum of its accounts.
GroupFigure(kind, side, g, y) ==
  LET own == GroupLevel(kind, side, g, y)
  IN  IF own # Absent THEN own ELSE AccountSum(kind, side, g, y)

FigureYears(kind, side) ==
  {y \in Years : \E g \in Groups : GroupFigure(kind, side, g, y) # Absent}
FigureGroups(kind, side) ==
  {g \in Groups : \E y \in Years : GroupFigure(kind, side, g, y) # Absent}

\* A mutant: the nature of every account of the group is looked at.
IsRepairGroupByChart(side, g) ==
  \/ g \in RepairNames
  \/ LET natures == {accounts[k].nature : k \in GroupAccounts("expense", g)} \ {Absent}
     IN  natures = {"repair"}

\* By its name, or by the nature of the accounts that report on that side.
IsRepairGroup(side, g) ==
  \/ g \in RepairNames
  \/ LET reporting == {k \in GroupAccounts("expense", g) :
                         \E y \in Years : Stated(k, y, side) # Absent}
         natures == {accounts[k].nature : k \in reporting} \ {Absent}
     IN  natures = {"repair"}

RepairGroups(side) == {g \in FigureGroups("expense", side) : IsRepairGroup(side, g)}

SumPresent(groups, kind, side, y) ==
  LET present == {g \in groups : GroupFigure(kind, side, g, y) # Absent}
  IN  IF present = {} THEN Absent
      ELSE SumFunction([g \in present |-> GroupFigure(kind, side, g, y)])

Total(kind, side, y) == SumPresent(Groups, kind, side, y)
Repairs(side, y) == SumPresent(RepairGroups(side), "expense", side, y)

-----------------------------------------------------------------------------
(* The two figures of the liquidity forecast, of the latest year of costs.   *)

Unavailable(reason) == [status |-> "unavailable", reason |-> reason]
Magnitude(n) == IF n < 0 THEN -n ELSE n

\* round2 of a mean: to whole cents, a half up.
RoundedMean(sum, n) == (2 * Magnitude(sum) + n) \div (2 * n)

RepairYears == {y \in FigureYears("expense", "actual") : Repairs("actual", y) # Absent}

\* The figures of the latest year of costs, whose repairs are these, and the mean of
\* the repairs of all years.
CostFiguresOf(latest, repairs, repairYears) ==
  [status |-> "available", latestActualYear |-> latest,
   costsExcludingRepairs |-> Magnitude(Total("expense", "actual", latest) - repairs),
   repairAverage |->
     RoundedMean(SumFunction([y \in repairYears |-> Repairs("actual", y)]),
                 Cardinality(repairYears))]

\* A mutant: a year without repairs has none.
CostFiguresAsZero(years, repairYears) ==
  IF years = {} THEN Unavailable("no_expense_actuals")
  ELSE IF repairYears = {} THEN Unavailable("repair_group_missing")
  ELSE LET repairs == Repairs("actual", Max(years))
       IN  CostFiguresOf(Max(years), IF repairs = Absent THEN 0 ELSE repairs, repairYears)

\* The costs of the latest year without repairs: there must be costs, repairs, and
\* repairs in that year.
CostFiguresFrom(years, repairYears) ==
  IF years = {} THEN Unavailable("no_expense_actuals")
  ELSE IF repairYears = {} THEN Unavailable("repair_group_missing")
  ELSE IF Max(years) \notin repairYears
    THEN Unavailable("repair_actual_missing_for_latest_year")
  ELSE CostFiguresOf(Max(years), Repairs("actual", Max(years)), repairYears)

CostFigures == CostFiguresFrom(FigureYears("expense", "actual"), RepairYears)

\* The margin those costs leave of the income of their year.
MarginFiguresFrom(costs, income) ==
  IF costs.status = "unavailable" THEN costs
  ELSE IF FigureYears("income", "actual") = {} THEN Unavailable("no_income_actuals")
  ELSE IF income = Absent THEN Unavailable("income_missing_for_latest_year")
  ELSE [status |-> "available", latestActualYear |-> costs.latestActualYear,
        income |-> income, costsExcludingRepairs |-> costs.costsExcludingRepairs,
        operatingMargin |-> income - costs.costsExcludingRepairs]

MarginFigures ==
  LET costs == CostFigures
  IN  MarginFiguresFrom(costs, Total("income", "actual", costs.latestActualYear))

\* The years with all three parts.
MarginYears(side) ==
  {y \in FigureYears("expense", side) :
     Repairs(side, y) # Absent /\ Total("income", side, y) # Absent}

\* computeOperatingMarginSeries: the margin of every year that can state one.
MarginOf(side, y) ==
  LET repairs == Repairs(side, y)
      income == Total("income", side, y)
      costs == Magnitude(Total("expense", side, y) - repairs)
  IN  [income |-> income, costsExcludingRepairs |-> costs,
       repairs |-> Magnitude(repairs), operatingMargin |-> income - costs]

MarginSeries(side) == [y \in MarginYears(side) |-> MarginOf(side, y)]

-----------------------------------------------------------------------------

BooksInit ==
  /\ accounts = [k \in Codes |-> Absent]
  /\ entries = [c \in Codes \X Years |-> Absent]
  /\ groupRows = [r \in GroupKeys |-> Absent]

SaveAccount(k, a) ==
  /\ a # accounts[k]
  /\ accounts' = [accounts EXCEPT ![k] = a]
  /\ UNCHANGED <<entries, groupRows>>

\* Refused while an entry names the account.
DeleteAccount(k) ==
  /\ accounts[k] # Absent
  /\ \A y \in Years : entries[<<k, y>>] = Absent
  /\ accounts' = [accounts EXCEPT ![k] = Absent]
  /\ UNCHANGED <<entries, groupRows>>

\* An entry is of an account, and it is deleted by giving it no version.
EditEntry(c, e) ==
  /\ accounts[c[1]] # Absent
  /\ e # entries[c]
  /\ entries' = [entries EXCEPT ![c] = e]
  /\ UNCHANGED <<accounts, groupRows>>

EditGroupRow(r, v) ==
  /\ v # groupRows[r]
  /\ groupRows' = [groupRows EXCEPT ![r] = v]
  /\ UNCHANGED <<accounts, entries>>

EditBooks ==
  \/ \E k \in DOMAIN AccountVersions :
       \/ \E a \in AccountVersions[k] : SaveAccount(k, a)
       \/ DeleteAccount(k)
  \/ \E c \in DOMAIN EntryVersions :
       \E e \in EntryVersions[c] \cup {Absent} : EditEntry(c, e)
  \/ \E r \in DOMAIN GroupVersions :
       \E v \in GroupVersions[r] \cup {Absent} : EditGroupRow(r, v)

BooksSpec == BooksInit /\ [][EditBooks]_bookVars

-----------------------------------------------------------------------------

\* What the books say a kind cost or earned in a year: the entries of the groups
\* that state no figure of their own, and the figures of those that do.
InTheBooks(kind, side, y) ==
  LET own == {r \in Entered(groupRows) :
                r[1] = side /\ r[2] = kind /\ r[4] = y /\ groupRows[r].active}
      loose == {k \in Entered(accounts) :
                  /\ accounts[k].kind = kind
                  /\ Stated(k, y, side) # Absent
                  /\ <<side, kind, accounts[k].group, y>> \notin own}
  IN  SumFunction([r \in own |-> groupRows[r].amount])
        + SumFunction([k \in loose |-> Stated(k, y, side)])

\* Every figure in the books is in one part of the year's margin and in no other:
\* the cash path subtracts the repairs apart, so a cost among both would be
\* charged twice and a cost among neither not at all.
FiguresAreCountedOnce ==
  \A side \in Sides : \A y \in MarginYears(side) :
    LET row == MarginOf(side, y)
        costs == InTheBooks("expense", side, y)
        repairs == Repairs(side, y)
    IN  /\ row.income = InTheBooks("income", side, y)
        /\ row.costsExcludingRepairs = Magnitude(costs - repairs)
        /\ repairs <= 0 /\ costs <= repairs =>
             row.costsExcludingRepairs + row.repairs = -costs

\* The divisor and the margin of the forecast are those of a year of the series:
\* they are stated for the latest year of costs exactly when the series states
\* that year, and with the same figures.  A figure that is missing leaves them
\* unavailable and is never read as zero.
LatestYearAsInTheSeries ==
  LET margin == MarginFigures
      years == FigureYears("expense", "actual")
  IN  /\ margin.status = "available" <=> years # {} /\ Max(years) \in MarginYears("actual")
      /\ margin.status = "available" =>
           /\ margin.latestActualYear = Max(years)
           /\ \A figure \in {"income", "costsExcludingRepairs", "operatingMargin"} :
                margin[figure] = MarginOf("actual", Max(years))[figure]

\* An account left over in the chart cannot reclassify a group: saving or deleting
\* an account without entries makes no group a repair group, or no longer one.
IdleAccountsReclassifyNothing ==
  (/\ accounts' # accounts
   /\ \A k \in Codes : accounts'[k] # accounts[k] =>
        \A y \in Years : entries[<<k, y>>] = Absent)
  => \A side \in Sides : UNCHANGED RepairGroups(side)
=============================================================================
