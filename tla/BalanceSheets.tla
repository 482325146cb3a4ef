----------------------------- MODULE BalanceSheets ----------------------------
(***************************************************************************)
(* Balance sheets, which administrators paste as text, and what is read    *)
(* off them: the closing cash of a year on the server                      *)
(* (src/finance/balanceCash.ts), and in the browser the sheet, its         *)
(* reconciliation, its ratios and the comparison of two sheets             *)
(* (public/adminOperationPayloads.js).  Amounts are in cents.              *)
(***************************************************************************)
EXTENDS Integers, Sequences, FiniteSets, FiniteSetsExt

CONSTANTS
  SheetIds,   \* numbers, in the order of the ids
  Pastes,     \* the texts administrators paste, with an id and a date
  LineFlaws,  \* why a line of a text is no item: its columns, its section, no key,
              \* no name, or an amount that is not a number
  CashNames,  \* the names that start with "rahat ja pankki"
  Absent      \* no such sheet, no such item

VARIABLES sheets

Sections ==
  {"fixed_assets", "current_assets", "restricted_equity", "unrestricted_equity", "liabilities"}
Assets == {"fixed_assets", "current_assets"}

Item == [section : Sections, key : STRING, name : STRING, amount : Int]

Sheet == [year : Int, day : Int, items : Seq(Item)]

\* A line of a text is an item or flawed; asOfDate is a year and a day, or not a date.
PastesAssumption ==
  /\ SheetIds \subseteq Int /\ IsFiniteSet(SheetIds)
  /\ Absent \notin Int \cup Item \cup Sheet
  /\ \A p \in Pastes :
       /\ p.id \in SheetIds
       /\ p.year \in Int /\ p.day \in {Absent} \cup Int
       /\ p.lines \in Seq(LineFlaws \cup Item)

\* Types; the readers pair items by their keys.
SheetOK(b) ==
  /\ b.items # <<>>
  /\ \A i, j \in DOMAIN b.items : b.items[j].key = b.items[i].key => j = i

SheetsTypeOK ==
  /\ sheets \in [SheetIds -> Sheet \cup {Absent}]
  /\ \A id \in SheetIds : sheets[id] # Absent => SheetOK(sheets[id])

-----------------------------------------------------------------------------

\* isBalanceCashEntry and isCashEntry, its duplicate in the browser.
IsCash(item) == item.key = "rahat" \/ item.name \in CashNames

\* The first item of some that is the cash, by its place on the sheet.
FirstCash(b, among) ==
  LET places == {i \in DOMAIN b.items : b.items[i].section \in among /\ IsCash(b.items[i])}
  IN  IF places = {} THEN Absent ELSE b.items[Min(places)]

\* The latest sheet of a year by date, ties to the id that sorts last.
Supersedes(a, b) ==
  \/ sheets[a].day > sheets[b].day
  \/ sheets[a].day = sheets[b].day /\ a > b

\* A mutant: the last sheet of the year states its cash or nothing does.
ClosingCashOfLast(y) ==
  LET dated == {id \in SheetIds : sheets[id] # Absent /\ sheets[id].year = y}
      last == CHOOSE a \in dated : \A b \in dated \ {a} : Supersedes(a, b)
      line == FirstCash(sheets[last], Sections)
  IN  IF dated = {} \/ line = Absent THEN Absent ELSE line.amount

\* cashByClosingYear: a sheet without a cash line contributes nothing.
ClosingCash(y) ==
  LET stating == {id \in SheetIds : /\ sheets[id] # Absent
                                    /\ sheets[id].year = y
                                    /\ FirstCash(sheets[id], Sections) # Absent}
      last == CHOOSE a \in stating : \A b \in stating \ {a} : Supersedes(a, b)
  IN  IF stating = {} THEN Absent ELSE FirstCash(sheets[last], Sections).amount

\* buildBalanceSheetViewModel.
ItemsOf(b, section) == {i \in DOMAIN b.items : b.items[i].section = section}
SectionTotal(b, section) == SumFunction([i \in ItemsOf(b, section) |-> b.items[i].amount])
GroupTotal(b, sections) == SumFunction([s \in sections |-> SectionTotal(b, s)])

\* computeBalanceReconciliation: to the cent.
Difference(b) == GroupTotal(b, Assets) - GroupTotal(b, Sections \ Assets)

\* A mutant: what is on the older sheet only has no row.
ChangesOfNewer(newer, older, section) ==
  LET old(i) == {j \in ItemsOf(older, section) : older.items[j].key = newer.items[i].key}
  IN  {[key |-> newer.items[i].key,
        change |-> newer.items[i].amount
                     - SumFunction([j \in old(i) |-> older.items[j].amount])] :
         i \in ItemsOf(newer, section)}

\* buildBalanceComparisonViewModel: the rows of a section, paired by key, an item on
\* one sheet only against nothing.
Changes(newer, older, section) ==
  LET old(i) == {j \in ItemsOf(older, section) : older.items[j].key = newer.items[i].key}
      keys == {newer.items[i].key : i \in ItemsOf(newer, section)}
  IN  {[key |-> newer.items[i].key,
        change |-> newer.items[i].amount
                     - SumFunction([j \in old(i) |-> older.items[j].amount])] :
         i \in ItemsOf(newer, section)}
      \cup {[key |-> older.items[j].key, change |-> -older.items[j].amount] :
              j \in {j \in ItemsOf(older, section) : older.items[j].key \notin keys}}

-----------------------------------------------------------------------------

SheetsInit == sheets = [id \in SheetIds |-> Absent]

\* The lines parseBalanceSheetPasteInput refuses: flawed, or with the key of an
\* earlier item.
LineErrors(p) ==
  {i \in DOMAIN p.lines :
     \/ p.lines[i] \in LineFlaws
     \/ \E j \in 1 .. i - 1 : p.lines[j] \notin LineFlaws /\ p.lines[j].key = p.lines[i].key}

\* A text is saved whole or not at all, over the sheet of the same id.
PasteSheet(p) ==
  /\ p.day # Absent
  /\ LineErrors(p) = {} /\ p.lines # <<>>
  /\ sheets' = [sheets EXCEPT ![p.id] = [year |-> p.year, day |-> p.day, items |-> p.lines]]

DeleteSheet(id) ==
  /\ sheets[id] # Absent
  /\ sheets' = [sheets EXCEPT ![id] = Absent]

EditSheets == (\E p \in Pastes : PasteSheet(p)) \/ (\E id \in SheetIds : DeleteSheet(id))

SheetsSpec == SheetsInit /\ [][EditSheets]_sheets

-----------------------------------------------------------------------------

Present == {id \in SheetIds : sheets[id] # Absent}

\* The rows of a comparison explain its totals: in every section they add up to the
\* change of the section, and over the sheet to the change of what does not reconcile.
\* An item that moved to another section is two rows.
ComparisonAddsUp ==
  \A n \in Present, o \in Present :
    LET newer == sheets[n]
        older == sheets[o]
        rows(s) == SumFunction([r \in Changes(newer, older, s) |-> r.change])
    IN  /\ \A s \in Sections : rows(s) = SectionTotal(newer, s) - SectionTotal(older, s)
        /\ Difference(newer) - Difference(older)
             = SumFunction([s \in Assets |-> rows(s)])
                 - SumFunction([s \in Sections \ Assets |-> rows(s)])

\* A later sheet without a cash line takes no year's closing cash away: a year with a
\* cash line on any of its sheets has its closing cash, however they are replaced.
ACashLineStatesItsYear ==
  \A id \in Present :
    (\E i \in DOMAIN sheets[id].items : IsCash(sheets[id].items[i]))
      => ClosingCash(sheets[id].year) # Absent
=============================================================================
