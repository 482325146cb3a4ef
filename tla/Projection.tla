------------------------------ MODULE Projection ------------------------------
(***************************************************************************)
(* The repair projection: projectEvents takes the approved schedule rows   *)
(* of the events, aggregateByYear groups them by scenario and year, and    *)
(* buildProjection adds up the horizon and what lies before and after it.  *)
(* Administrators edit the events and readers choose the horizon.          *)
(*                                                                         *)
(* An amount is a number of tenths of a cent: nothing in the program makes *)
(* an amount a whole number of cents, and toCents rounds where the         *)
(* liquidity calculations read it.                                         *)
(***************************************************************************)
EXTENDS Integers, FiniteSets, FiniteSetsExt

CONSTANTS
  EventIds,   \* the ids of building events
  Scenarios,  \* SCENARIOS
  Calendar,   \* the years a row may name
  Amounts,    \* the amounts of numeric rows, in tenths of a cent
  Gap,        \* the amount of a row whose cost is a named DATA GAP
  Versions,   \* the versions administrators give to an event
  Horizons,   \* the horizons readers ask for
  Absent      \* no such event

VARIABLES
  events,     \* EventIds -> the stored event
  horizon     \* the horizon of the request

vars == <<events, horizon>>

\* A row of a schedule.  A schedule is a set of rows: order is not used, and two
\* rows of one event differ in their id.
Entry == [id : Nat, scenario : Scenarios, year : Calendar, amount : Amounts \cup {Gap}]

Statuses == {"suggested", "approved", "actual", "cancelled"}

Event == [status : Statuses, schedule : SUBSET Entry]

\* What validateHorizon accepts.
Horizon == {h \in [start : Calendar, end : Calendar] : h.start <= h.end}

InputsAssumption ==
  /\ IsFiniteSet(EventIds)
  /\ Amounts \subseteq Nat /\ Gap \notin Amounts /\ Calendar \subseteq Int
  /\ Versions \subseteq Event /\ \A v \in Versions : IsFiniteSet(v.schedule)
  /\ Absent \notin Event
  /\ Horizons \subseteq [start : Calendar, end : Calendar]

TypeOK ==
  /\ events \in [EventIds -> Versions \cup {Absent}]
  /\ horizon \in Horizon

-----------------------------------------------------------------------------

\* projectEvents: the rows of approved events.  A suggestion, a cancelled event
\* and history are listed apart and schedule nothing.
Scheduled ==
  UNION {{[event |-> e, entry |-> r] : r \in events[e].schedule} :
           e \in {x \in EventIds : events[x] # Absent /\ events[x].status = "approved"}}

\* The rows with a cost, and those with a DATA GAP, of one scenario.
Projected(s) == {x \in Scheduled : x.entry.scenario = s /\ x.entry.amount # Gap}
DataGaps(s) == {x \in Scheduled : x.entry.scenario = s /\ x.entry.amount = Gap}

Before(x) == x.entry.year < horizon.start

After(x) == x.entry.year > horizon.end

\* A mutant: the year before the horizon is taken as being within it.
WithinLoosely(x) == x.entry.year >= horizon.start - 1 /\ ~After(x)

Within(x) == ~Before(x) /\ ~After(x)

Amount(rows) == SumFunction([x \in rows |-> x.entry.amount])

\* A mutant: only a year with a cost has a row.
YearsWithCosts(s) == {x.entry.year : x \in {y \in Projected(s) : Within(y)}}

\* aggregateByYear: a year that has a cost or a gap has a row, and a gap adds
\* nothing to its amount.
YearsOf(s) == {x.entry.year : x \in {y \in Projected(s) \cup DataGaps(s) : Within(y)}}

YearRows(s) ==
  [y \in YearsOf(s) |->
     [amount |-> Amount({x \in Projected(s) : x.entry.year = y}),
      eventCount |-> Cardinality({x \in Projected(s) : x.entry.year = y}),
      gaps |-> {x \in DataGaps(s) : x.entry.year = y}]]

\* buildProjection, for one scenario.
ScenarioProjection(s) ==
  LET rows == YearRows(s)
  IN  [years |-> rows,
       horizonAmount |-> SumFunction([y \in DOMAIN rows |-> rows[y].amount]),
       horizonEventCount |-> SumFunction([y \in DOMAIN rows |-> rows[y].eventCount]),
       beforeHorizonAmount |-> Amount({x \in Projected(s) : Before(x)}),
       afterHorizonAmount |-> Amount({x \in Projected(s) : After(x)}),
       beforeGaps |-> {x \in DataGaps(s) : Before(x)},
       withinGaps |-> {x \in DataGaps(s) : Within(x)},
       afterGaps |-> {x \in DataGaps(s) : After(x)}]

-----------------------------------------------------------------------------

Init ==
  /\ events = [e \in EventIds |-> Absent]
  /\ horizon \in Horizons \cap Horizon

\* A saved batch gives an event a version or deletes it.
EditEvent(e, v) ==
  /\ events[e] # v
  /\ events' = [events EXCEPT ![e] = v]
  /\ UNCHANGED horizon

\* A mutant: the horizon is not validated.
AskAnyHorizon(h) ==
  /\ h # horizon
  /\ horizon' = h
  /\ UNCHANGED events

\* A reader asks for another horizon; a request that ends before it starts is refused.
AskHorizon(h) ==
  /\ h # horizon
  /\ h.start <= h.end
  /\ horizon' = h
  /\ UNCHANGED events

Next ==
  \/ \E e \in EventIds, v \in Versions \cup {Absent} : EditEvent(e, v)
  \/ \E h \in Horizons : AskHorizon(h)

Spec == Init /\ [][Next]_vars

-----------------------------------------------------------------------------

\* Every approved row is in exactly one place: its amount is in one year row, or
\* before the horizon, or after it, and its gap is in one of the three lists, and
\* in a year row when it is within.  Nothing else is counted.
RowsAreCountedOnce ==
  \A s \in Scenarios :
    LET p == ScenarioProjection(s)
        live == {e \in EventIds : events[e] # Absent /\ events[e].status = "approved"}
        approved == UNION {{[event |-> e, entry |-> r] :
                              r \in {x \in events[e].schedule : x.scenario = s}} : e \in live}
        priced == {x \in approved : x.entry.amount # Gap}
    IN  /\ p.beforeHorizonAmount + p.horizonAmount + p.afterHorizonAmount
             = SumFunction([x \in priced |-> x.entry.amount])
        /\ p.horizonEventCount
             = Cardinality({x \in priced : x.entry.year \in horizon.start .. horizon.end})
        /\ Cardinality(p.beforeGaps) + Cardinality(p.withinGaps) + Cardinality(p.afterGaps)
             = Cardinality(approved \ priced)
        /\ p.withinGaps = UNION {p.years[y].gaps : y \in DOMAIN p.years}

-----------------------------------------------------------------------------

\* toCents: Math.round of hundred times the amount; a half is rounded up.
ToCents(amount) == (amount + 5) \div 10

\* What validatedCostMap and projectionCostMap accept: years of the horizon, and
\* a declared total that is, in cents, the total of the year rows.
Consistent(p) ==
  /\ \A y \in DOMAIN p.years : y \in horizon.start .. horizon.end
  /\ SumFunction([y \in DOMAIN p.years |-> ToCents(p.years[y].amount)])
       = ToCents(p.horizonAmount)

\* The liquidity calculations accept every projection of whole cents the program
\* itself builds: the check on the declared total is an assertion on a caller's mistake.
\* (Fractions of a cent are rounded year by year, and may be refused.)
OwnProjectionAccepted ==
  \A s \in Scenarios :
    (\A x \in Projected(s) : x.entry.amount % 10 = 0) => Consistent(ScenarioProjection(s))
=============================================================================
