------------------------------- MODULE Liquidity ------------------------------
(***************************************************************************)
(* The liquidity forecast of one scenario, as the loops that compute it:   *)
(* calculateOperatingBuffer sets the protected buffer, projectCashPath     *)
(* walks the horizon year by year, calculateRequiredCollection walks it    *)
(* again, and findFundingNeed reads the path.  buildLiquidityForecast runs *)
(* the same three for every scenario and shares nothing but the inputs.    *)
(*                                                                         *)
(* Amounts are whole cents.  Money that the plan gives in fractions of a   *)
(* cent, and projections that are refused, are in module Projection.       *)
(***************************************************************************)
EXTENDS Integers, FiniteSetsExt

CONSTANTS
  StartYear,  \* horizon.startYear
  EndYear,    \* horizon.endYear
  Inputs,     \* what the program may be asked to forecast
  Absent      \* a figure, a setting or a coverage year that is not given

Years == StartYear .. EndYear

\* BuildLiquidityForecastInput for one scenario: costs by year, the years with a
\* DATA GAP (0 for gaps before the horizon), and the settings.
Input ==
  [cost : [Years -> Nat],
   gaps : SUBSET (Years \cup {0}),
   currentCash : Nat,
   margin : Int,
   trailing12mOperatingCosts : Nat,
   bufferHalfMonths : Nat \cup {Absent},
   userOverride : Nat \cup {Absent},
   coverage : Int \cup {Absent}]

\* validateHorizon, and the inputs that toCents lets through.
ASSUME HorizonAssumption == StartYear \in Nat \ {0} /\ EndYear \in Nat /\ StartYear <= EndYear
ASSUME InputsAssumption == Inputs \subseteq Input
ASSUME AbsentAssumption == Absent \notin Int

VARIABLES
  input,       \* the input of the forecast
  pc,          \* "path", "collection" or "done"
  year,        \* the year of the running loop
  opening,     \* openingCashCents, Absent once the chain is broken
  path,        \* the years' rows
  cumulative,  \* cumulativeCostCents
  required,    \* requiredAnnualCents
  through      \* auxiliary: cumulativeCostCents after each year

vars == <<input, pc, year, opening, path, cumulative, required, through>>

-----------------------------------------------------------------------------

\* Months are counted in halves: the default is three and a half.
DefaultBufferHalfMonths == 7

HalfMonths(i) ==
  IF i.bufferHalfMonths = Absent THEN DefaultBufferHalfMonths ELSE i.bufferHalfMonths

\* calculateOperatingBuffer: costs / 12 * months, rounded; an override wins.
Buffer(i) ==
  IF i.userOverride = Absent
    THEN (i.trailing12mOperatingCosts * HalfMonths(i) + 12) \div 24
    ELSE i.userOverride

\* An omitted coverage year counts as covering every year.
Covered(i, y) == i.coverage # Absent => y <= i.coverage

\* A mutant: the quotient is rounded down.
FloorDiv(a, n) == a \div n

\* A mutant: the quotient is rounded down and one is added.
NextDiv(a, n) == a \div n + 1

\* Math.ceil of a quotient.
CeilDiv(a, n) == -((-a) \div n)

NoRow == [costsKnown |-> FALSE, opening |-> Absent, closing |-> Absent, shortfall |-> Absent]

\* A mutant: the later figure wins.
Later(a, b) == b

Larger(a, b) == IF a >= b THEN a ELSE b

-----------------------------------------------------------------------------

Init ==
  /\ input \in Inputs
  /\ pc = "path"
  /\ year = StartYear
  /\ opening = input.currentCash
  /\ path = [y \in Years |-> NoRow]
  /\ cumulative = 0
  /\ required = 0
  /\ through = [y \in Years |-> 0]

\* The end of a loop: the next one starts at the first year again.
Advance(next) ==
  IF year < EndYear
    THEN year' = year + 1 /\ pc' = pc
    ELSE year' = StartYear /\ pc' = next

\* A mutant: the known costs of a year with a DATA GAP are left out.
CoveredYearWithoutGaps ==
  /\ pc = "path"
  /\ Covered(input, year)
  /\ LET cost == IF year \in input.gaps THEN 0 ELSE input.cost[year]
         closing == opening + input.margin - cost
     IN  /\ path' = [path EXCEPT ![year] =
                       [costsKnown |-> TRUE, opening |-> opening, closing |-> closing,
                        shortfall |-> Larger(0, Buffer(input) - closing)]]
         /\ opening' = closing
  /\ Advance("collection")
  /\ UNCHANGED <<input, cumulative, required, through>>

\* projectCashPath, a year the plan covers: the collection arrives before the costs.
CoveredYear ==
  /\ pc = "path"
  /\ Covered(input, year)
  /\ LET closing == opening + input.margin - input.cost[year]
     IN  /\ path' = [path EXCEPT ![year] =
                       [costsKnown |-> TRUE, opening |-> opening, closing |-> closing,
                        shortfall |-> Larger(0, Buffer(input) - closing)]]
         /\ opening' = closing
  /\ Advance("collection")
  /\ UNCHANGED <<input, cumulative, required, through>>

\* A mutant: a year beyond the coverage costs nothing.
FreeBeyondYear ==
  /\ pc = "path"
  /\ ~Covered(input, year)
  /\ LET closing == opening + input.margin
     IN  /\ path' = [path EXCEPT ![year] =
                       [costsKnown |-> TRUE, opening |-> opening, closing |-> closing,
                        shortfall |-> Larger(0, Buffer(input) - closing)]]
         /\ opening' = closing
  /\ Advance("collection")
  /\ UNCHANGED <<input, cumulative, required, through>>

\* projectCashPath, a year beyond the coverage: the row shows at most the cash it
\* opens with, and the chain of cash breaks.
BeyondYear ==
  /\ pc = "path"
  /\ ~Covered(input, year)
  /\ path' = [path EXCEPT ![year] =
                [costsKnown |-> FALSE, opening |-> opening,
                 closing |-> Absent, shortfall |-> Absent]]
  /\ opening' = Absent
  /\ Advance("collection")
  /\ UNCHANGED <<input, cumulative, required, through>>

\* calculateRequiredCollection: the horizon as a whole, whatever the coverage.
CollectionYear ==
  /\ pc = "collection"
  /\ cumulative' = cumulative + input.cost[year]
  /\ required' = Larger(required,
       CeilDiv(Buffer(input) - input.currentCash + cumulative', year - StartYear + 1))
  /\ through' = [through EXCEPT ![year] = cumulative']
  /\ Advance("done")
  /\ UNCHANGED <<input, opening, path>>

Next == CoveredYear \/ BeyondYear \/ CollectionYear

Spec == Init /\ [][Next]_vars

-----------------------------------------------------------------------------

\* The figures of the finished forecast.
ShortfallYears == {y \in Years : path[y].costsKnown /\ path[y].shortfall > 0}
OwnFundingSufficient == ShortfallYears = {}
ClosingCashes == {path[y].closing : y \in {x \in Years : path[x].closing # Absent}}
MinimumClosingCash == IF ClosingCashes = {} THEN input.currentCash ELSE Min(ClosingCashes)
MaximumBufferShortfall == Max({0} \cup {path[y].shortfall : y \in ShortfallYears})
FinalCash ==
  IF \A y \in Years : path[y].costsKnown THEN path[EndYear].closing ELSE Absent

\* A mutant: what is missing is measured from a margin of at least nothing.
AdditionalFromCharge == Larger(0, required - Larger(0, input.margin))

Additional == Larger(0, required - input.margin)

Reason(name, holds) == IF holds THEN {name} ELSE {}

\* A mutant: an unset coverage is no reason.
ReasonsIfSaid ==
  Reason("data_gap", input.gaps # {})
    \cup Reason("coverage_ends_before_horizon",
                input.coverage # Absent /\ input.coverage < EndYear)

\* forecastIncompletenessReasons
ForecastIncompleteReasons ==
  Reason("data_gap", input.gaps # {})
    \cup Reason("coverage_unset", input.coverage = Absent)
    \cup Reason("coverage_ends_before_horizon",
                input.coverage # Absent /\ input.coverage < EndYear)

ForecastComplete == ForecastIncompleteReasons = {}

-----------------------------------------------------------------------------

\* The cash at the end of a year when a flat amount is collected every year.
CashWith(amount, y) == input.currentCash + (y - StartYear + 1) * amount - through[y]

Row ==
  [costsKnown : BOOLEAN, opening : Int \cup {Absent}, closing : Int \cup {Absent},
   shortfall : Nat \cup {Absent}]

TypeOK ==
  /\ input \in Input
  /\ pc \in {"path", "collection", "done"}
  /\ year \in Years
  /\ opening \in Int \cup {Absent}
  /\ path \in [Years -> Row]
  /\ cumulative \in Nat
  /\ required \in Nat
  /\ through \in [Years -> Nat]

\* What is required is enough: collecting it every year keeps the known costs
\* above the buffer at the end of every year of the horizon.
RequiredKeepsBuffer ==
  pc = "done" => \A y \in Years : CashWith(required, y) >= Buffer(input)

\* And it is not too much: with one cent less, some year ends below the buffer.
RequiredIsLeast ==
  pc = "done" /\ required > 0 =>
    \E y \in Years : CashWith(required - 1, y) < Buffer(input)

\* The cash path is the books of the covered years: each closes with the cash of
\* the start, the margins so far and the costs so far, however the loop got there,
\* and the two loops of the forecast agree on the costs.
PathAddsUp ==
  pc = "done" =>
    \A y \in Years : path[y].closing # Absent => path[y].closing = CashWith(input.margin, y)

\* The two signals agree: a forecast with a shortfall asks for an additional
\* collection, and collecting it on top of the present margin leaves none.
AdditionalEndsTheNeed ==
  pc = "done" =>
    /\ ~OwnFundingSufficient => Additional > 0
    /\ \A y \in Years : CashWith(input.margin + Additional, y) >= Buffer(input)

\* A year nobody has planned is unknown in every figure: it has no closing cash
\* and no shortfall, cash is carried into the first such year only, no signal
\* names one, and there is no final cash.
UnknownStaysUnknown ==
  pc = "done" /\ input.coverage # Absent =>
    /\ \A y \in Years : y > input.coverage =>
         /\ path[y].closing = Absent /\ path[y].shortfall = Absent
         /\ y - 1 \in Years /\ y - 1 > input.coverage => path[y].opening = Absent
    /\ \A y \in ShortfallYears : y <= input.coverage
    /\ input.coverage < EndYear => FinalCash = Absent

\* A forecast that claims to be complete has been told how far the plan reaches,
\* has a figure for every year, and lacks no cost: absence is never a claim.
ClaimsAreEarned ==
  pc = "done" /\ ForecastComplete =>
    /\ input.coverage # Absent
    /\ FinalCash # Absent
    /\ input.gaps = {}
    /\ MaximumBufferShortfall = Larger(0, Buffer(input) - MinimumClosingCash)

\* The forecast says what follows from its input: what is required is enough and
\* not too much, its three results do not contradict each other, and what is not
\* known is said to be so.
ForecastIsSound ==
  /\ RequiredKeepsBuffer
  /\ RequiredIsLeast
  /\ PathAddsUp
  /\ AdditionalEndsTheNeed
  /\ UnknownStaysUnknown
  /\ ClaimsAreEarned
=============================================================================
