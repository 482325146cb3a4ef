---------------------------- MODULE MCCalculations ----------------------------
(***************************************************************************)
(* What the server and the browser calculate, five parts side by side:     *)
(*                                                                         *)
(*   projection  two events with rows before, at both ends of, and after   *)
(*               the horizon, one of them of less than a cent;             *)
(*   liquidity   three years; costs, margins and coverages on both sides   *)
(*               of every edge;                                            *)
(*   figures     two years of a group of costs that is a repair group by   *)
(*               the nature of its accounts, of one that is by its name,   *)
(*               and of income;                                            *)
(*   cash path   two years that are closed and two that are budgeted, one  *)
(*               of them between and one also closed; the sheets that open *)
(*               them; and an event with rows in, before and after the     *)
(*               budgeted years, with and without a price;                 *)
(*   balance     two sheets of texts for two years: restated, without a    *)
(*   sheets      cash line, with two, with an item that changes section,   *)
(*               out of balance, and texts that are refused; and a third   *)
(*               that is dated before, between and after them.             *)
(***************************************************************************)
EXTENDS Calculations

CONSTANTS UnknownSection

-----------------------------------------------------------------------------
(* Projection. *)

CostRow(id, s, y, a) == [id |-> id, scenario |-> s, year |-> y, amount |-> a]

\* Four tenths of a cent, one cent and ten euros.
MCVersions ==
  {[status |-> "approved",
    schedule |-> {CostRow(1, "base", y, 10), CostRow(2, "base", y + 1, a),
                  CostRow(3, "stress", y, 10000)}] : y \in {1, 2, 3}, a \in {4, 10000, Gap}}
  \cup
  {[status |-> st,
    schedule |-> {CostRow(1, "base", 2, 10000), CostRow(2, "base", 3, 10),
                  CostRow(3, "base", 3, 10)}] :
     st \in {"approved", "suggested", "cancelled", "actual"}}

MCHorizons == {[start |-> 2, end |-> 3], [start |-> 2, end |-> 2],
               [start |-> 1, end |-> 4], [start |-> 3, end |-> 4],
               [start |-> 3, end |-> 1]}

-----------------------------------------------------------------------------
(* Liquidity. *)

MCInputs ==
  {[cost |-> c, gaps |-> g, currentCash |-> cash, margin |-> m,
    trailing12mOperatingCosts |-> 10, bufferHalfMonths |-> h, userOverride |-> o,
    coverage |-> v] :
     c \in [Years -> {0, 3, 10}], g \in {{}, {0}, {StartYear + 1}}, cash \in {0, 4, 9},
     m \in {-4, 0, 3, 5}, h \in {Absent, 12}, o \in {Absent, 7},
     v \in {Absent} \cup (StartYear - 1 .. EndYear)}

-----------------------------------------------------------------------------
(* Figures. *)

Account(kind, g, nature) == [kind |-> kind, group |-> g, nature |-> nature]
Entry(actual, budget) == [s \in {"actual", "budget"} |-> IF s = "actual" THEN actual ELSE budget]
GroupRow(n, active) == [amount |-> n, active |-> active]

MCAccountVersions ==
  [k \in {"3100", "3200", "3300"} |->
     CASE k = "3100" -> {Account("expense", "KUNNOSSAPITO", "repair"),
                         Account("expense", "KUNNOSSAPITO", "maintenance")}
       [] k = "3200" -> {Account("expense", "KUNNOSSAPITO", Absent),
                         Account("expense", "KUNNOSSAPITO", "maintenance"),
                         Account("expense", "KORJAUKSET", "repair")}
       [] OTHER -> {Account("income", "TULOT", Absent)}]

MCEntryVersions ==
  [c \in {<<"3100", 1>>, <<"3100", 2>>, <<"3200", 2>>, <<"3300", 1>>, <<"3300", 2>>} |->
     CASE c = <<"3100", 1>> -> {Entry(-2, Absent)}
       [] c = <<"3100", 2>> -> {Entry(-3, -5), Entry(Absent, -5)}
       [] c = <<"3200", 2>> -> {Entry(Absent, -4), Entry(1, Absent), Entry(-1, Absent)}
       [] c = <<"3300", 1>> -> {Entry(7, Absent)}
       [] OTHER -> {Entry(9, 8)}]

MCGroupVersions ==
  [r \in {<<"actual", "expense", "KORJAUKSET", 1>>,
          <<"actual", "expense", "KUNNOSSAPITO", 2>>,
          <<"budget", "income", "TULOT", 2>>} |->
     IF r[2] = "income" THEN {GroupRow(10, TRUE)}
     ELSE IF r[4] = 1 THEN {GroupRow(-6, TRUE), GroupRow(-6, FALSE)}
     ELSE {GroupRow(-8, TRUE), GroupRow(-8, FALSE)}]

-----------------------------------------------------------------------------
(* Cash path. *)

MCTableGroupVersions ==
  [r \in {<<"actual", "expense", "KORJAUKSET", 1>>, <<"actual", "income", "TULOT", 1>>,
          <<"actual", "expense", "KORJAUKSET", 3>>, <<"actual", "income", "TULOT", 3>>,
          <<"budget", "expense", "KORJAUKSET", 2>>, <<"budget", "income", "TULOT", 2>>,
          <<"budget", "expense", "KORJAUKSET", 3>>, <<"budget", "income", "TULOT", 3>>} |->
     {[amount |-> IF r[2] = "income" THEN 9 + r[4] ELSE -r[4], active |-> TRUE]}]

Closing(y, amount) ==
  [id |-> y, year |-> y, day |-> 365,
   lines |-> <<[section |-> "current_assets", key |-> "rahat", name |-> "Kassa",
                amount |-> amount]>>]

NoVersions == [x \in {} |-> {}]

MCTablePastes == {Closing(1, 20), Closing(2, 30)}

Repair(id, scenario, y, amount) ==
  [id |-> id, scenario |-> scenario, year |-> y, amount |-> amount]

MCTableEventVersions ==
  {[status |-> "approved", schedule |-> {Repair(1, "base", 3, 4), Repair(2, "stress", 2, 4),
                                         Repair(3, "base", 3, 5)}],
   [status |-> "approved", schedule |-> {Repair(1, "base", 1, 4), Repair(2, "stress", 3, Gap),
                                         Repair(3, "stress", 3, 5)}],
   [status |-> "suggested", schedule |-> {Repair(1, "base", 3, 4)}]}

-----------------------------------------------------------------------------
(* Balance sheets. *)

Line(section, key, name, amount) ==
  [section |-> section, key |-> key, name |-> name, amount |-> amount]

Cash(n) == Line("current_assets", "rahat", "Kassa", n)
Bank(section, n) == Line(section, "pankki", "Rahat ja pankkisaamiset", n)
House(n) == Line("fixed_assets", "talo", "Rakennus", n)
Loan(n) == Line("liabilities", "laina", "Laina", n)
Fund(section, n) == Line(section, "rahasto", "Rahasto", n)

SheetTexts == {
  <<House(5), Cash(2), Loan(7)>>,
  <<House(5), Loan(3), Fund("restricted_equity", 1)>>,
  <<Bank("current_assets", 4), Cash(3), Fund("unrestricted_equity", 2)>>,
  <<Line("current_assets", "saatavat", "Myyntisaamiset", 2), Loan(4)>>,
  <<House(6), UnknownSection, Loan(6)>>,
  <<Cash(1), Loan(1), Cash(4)>>,
  <<>> }

\* The cash stated among the fixed assets.
Misplaced == {<<Bank("fixed_assets", 4), Line("current_assets", "saatavat", "Myyntisaamiset", 2)>>}

On(id, y, day, lines) == [id |-> id, year |-> y, day |-> day, lines |-> lines]

SheetDates == {<<1, 365>>, <<1, 180>>, <<2, 365>>, <<2, Absent>>}

MCPastes ==
  {On(id, d[1], d[2], t) : id \in {1, 2}, d \in SheetDates, t \in SheetTexts \cup Misplaced}
    \cup {On(3, y, 270, <<Cash(1)>>) : y \in {1, 3}}

-----------------------------------------------------------------------------

SomeInput == CHOOSE i \in MCInputs : i.coverage # Absent
SomeHorizon == CHOOSE h \in MCHorizons : h.start < h.end

\* What a part is given does not vary while another is at work.
MCInit ==
  /\ CalculationsInit
  /\ part # "liquidity" => input = SomeInput
  /\ part # "projection" => horizon = SomeHorizon

MCSpec == MCInit /\ [][CalculationsNext]_CalculationsVars
=============================================================================
