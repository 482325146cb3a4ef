--------------------------- MODULE FinancialImports --------------------------
(***************************************************************************)
(* Figures pasted into the browser as text, and undone as a whole: what    *)
(* the parsers let through, what a paste overwrites and what the user is   *)
(* told of that beforehand, and what deleting an import takes away         *)
(* (public/adminOperationPayloads.js, public/app.js).                      *)
(*                                                                         *)
(* One tab pastes, reloads and deletes while others save imports.  A line  *)
(* of text is a record of its cells, `readable` standing for the columns,  *)
(* the kind, the names and the year; an amount's size does not matter.     *)
(***************************************************************************)
EXTENDS AdminData, Sequences, FiniteSets

CONSTANTS
  Groups, Sheets, Items,
  Amounts,          \* the amounts a cell can say; an empty one is Absent
  Misprints,        \* what a cell can say that is no amount
  SourceSets,       \* the sources an import may be given
  Pastes,           \* the texts that are pasted
  MaxBooksRevision  \* bound: how often the workspace is saved

VARIABLES
  books,            \* the company's figures as stored, Absent before it has any
  booksRevision,
  booksShown,       \* the figures of the tab's workspace, Absent without one
  booksSeen,        \* and its revision
  text,             \* the text in the form, or NoText
  warned,           \* the losses its preview warns of
  previewed         \* history: the revision the preview was made from

importVars ==
  <<books, booksRevision, booksShown, booksSeen, text, warned, previewed>>

GroupRow(type, g, y) == <<type, g, y>>
Sheet(b) == <<"balance_sheet_snapshot", b>>

GroupTypes == {"group_budget", "group_actual"}

Cells ==
  {FinancialEntry(k, y) : k \in Accounts, y \in Years}
    \cup {GroupRow(t, g, y) : t \in GroupTypes, g \in Groups, y \in Years}
    \cup {Sheet(b) : b \in Sheets}

\* What a row says, by what it says it of: budget and actual, the amount of a
\* group, the items of a balance sheet.
EntryFigures ==
  [{"budget", "actual"} -> Amounts \cup {Absent}]
    \ {[f \in {"budget", "actual"} |-> Absent]}
GroupFigures == [{"amount"} -> Amounts]
SheetFigures == UNION {[items -> Amounts] : items \in SUBSET Items}

FiguresOf(cell) ==
  IF cell[1] = "financial_entry" THEN EntryFigures
  ELSE IF cell[1] \in GroupTypes THEN GroupFigures
  ELSE SheetFigures

ImportedRow ==
  [figures : UNION {FiguresOf(c) : c \in Cells}, sources : SourceSets]

Ledgers ==
  {l \in [accounts : [Accounts -> Groups \cup {Absent}],
          rows : [Cells -> ImportedRow \cup {Absent}]] :
     \A cell \in Cells :
       l.rows[cell] = Absent \/ l.rows[cell].figures \in FiguresOf(cell)}

Filled(ledger) == {cell \in Cells : ledger.rows[cell] # Absent}
EntriesOf(ledger, k) ==
  {cell \in Filled(ledger) : cell[1] = "financial_entry" /\ cell[2][1] = k}

-----------------------------------------------------------------------------
(* A paste.  Of the finance form, a line names its account and the account's *)
(* group; of the group forms, a group; of the balance form, an item of the   *)
(* sheet whose id is typed beside it.                                        *)

NoText == [form |-> "none", lines |-> <<>>]

Said == Amounts \cup {Absent} \cup Misprints

FinanceLine ==
  [readable : BOOLEAN, account : Accounts, group : Groups, year : Years,
   figures : [{"budget", "actual"} -> Said]]
GroupLine == [readable : BOOLEAN, group : Groups, year : Years, amount : Said]
BalanceLine == [readable : BOOLEAN, item : Items, amount : Said]

Texts ==
  [form : {"finance"}, lines : Seq(FinanceLine)]
    \cup [form : GroupTypes, lines : Seq(GroupLine)]
    \cup [form : {"balance"}, sheet : Sheets, lines : Seq(BalanceLine)]

\* An empty cell is no amount and no group; what carries no source is not saved.
ASSUME AmountsAssumption == Absent \notin Amounts /\ Absent \notin Groups
ASSUME NoRowsAssumption == Absent \notin ImportedRow /\ Absent \notin Ledgers
ASSUME BooksBoundAssumption == MaxBooksRevision \in Nat
ASSUME SourceSetsAssumption == {} \notin SourceSets
ASSUME PastesAssumption == Pastes \subseteq Texts

LinesOf(paste) == {paste.lines[i] : i \in DOMAIN paste.lines}

\* The row a line writes to, the same for every line of a balance sheet.
CellOf(paste, line) ==
  CASE paste.form = "finance" -> FinancialEntry(line.account, line.year)
    [] paste.form \in GroupTypes -> GroupRow(paste.form, line.group, line.year)
    [] OTHER -> Sheet(paste.sheet)

\* What no two lines of a text may share.
LineKey(paste, line) ==
  IF paste.form = "balance" THEN line.item ELSE CellOf(paste, line)

KeyTwice(paste) ==
  \E i, j \in DOMAIN paste.lines :
    /\ i # j
    /\ LineKey(paste, paste.lines[i]) = LineKey(paste, paste.lines[j])

NumberMissing(paste) ==
  \E line \in LinesOf(paste) : ~ line.readable \/ line.amount \notin Amounts

\* A mutant: a line may leave both amounts out.
FinanceErrorsButEmpty(paste) ==
  \/ \E line \in LinesOf(paste) :
       \/ ~ line.readable
       \/ \E f \in {"budget", "actual"} :
            line.figures[f] \notin Amounts \cup {Absent}
  \/ KeyTwice(paste)
  \/ \E l1, l2 \in LinesOf(paste) :
       l1.account = l2.account /\ l1.group # l2.group

\* The errors of the parsers: any of them keeps a text from being sent.  Of
\* budget and actual one may be left empty; the lines of an account agree on
\* what it is.
FinanceErrors(paste) ==
  \/ \E line \in LinesOf(paste) :
       ~ line.readable \/ line.figures \notin EntryFigures
  \/ KeyTwice(paste)
  \/ \E l1, l2 \in LinesOf(paste) :
       l1.account = l2.account /\ l1.group # l2.group

\* A group without accounts is warned of and accepted.
GroupBudgetErrors(paste) == NumberMissing(paste) \/ KeyTwice(paste)
GroupActualErrors(paste) == NumberMissing(paste) \/ KeyTwice(paste)
BalanceErrors(paste) == NumberMissing(paste) \/ KeyTwice(paste)

HasErrors(paste) ==
  CASE paste.form = "finance" -> FinanceErrors(paste)
    [] paste.form = "group_budget" -> GroupBudgetErrors(paste)
    [] paste.form = "group_actual" -> GroupActualErrors(paste)
    [] OTHER -> BalanceErrors(paste)

Sendable(paste) == paste.lines # <<>> /\ ~ HasErrors(paste)

Written(paste) == {CellOf(paste, line) : line \in LinesOf(paste)}

TheLine(paste, cell) ==
  CHOOSE line \in LinesOf(paste) : CellOf(paste, line) = cell

\* The values of the save operations: the row of an account and a year, of a
\* group and a year, or the whole balance sheet.
EntryValue(paste, cell) == TheLine(paste, cell).figures
GroupBudgetValue(paste, cell) == [f \in {"amount"} |-> TheLine(paste, cell).amount]
GroupActualValue(paste, cell) == [f \in {"amount"} |-> TheLine(paste, cell).amount]
SheetValue(paste) ==
  [i \in {line.item : line \in LinesOf(paste)} |->
     (CHOOSE line \in LinesOf(paste) : line.item = i).amount]

FiguresFor(paste, cell) ==
  CASE paste.form = "finance" -> EntryValue(paste, cell)
    [] paste.form = "group_budget" -> GroupBudgetValue(paste, cell)
    [] paste.form = "group_actual" -> GroupActualValue(paste, cell)
    [] OTHER -> SheetValue(paste)

GroupGiven(paste, k) ==
  {line.group : line \in {line \in LinesOf(paste) :
                            paste.form = "finance" /\ line.account = k}}

\* The batch of save operations: each replaces its row whole, the row's
\* sources too, and an account is saved with the rows that name it.
Imported(ledger, paste, sources) ==
  [accounts |-> [k \in Accounts |->
     IF GroupGiven(paste, k) = {} THEN ledger.accounts[k]
     ELSE CHOOSE g \in GroupGiven(paste, k) : TRUE],
   rows |-> [cell \in Cells |->
     IF cell \notin Written(paste) THEN ledger.rows[cell]
     ELSE [figures |-> FiguresFor(paste, cell), sources |-> sources]]]

Says(figures) == {f \in DOMAIN figures : figures[f] # Absent}

\* A mutant: only budgets are looked at.
EntryDropsOfBudgets(paste, ledger) ==
  UNION {{<<cell, f>> : f \in (Says(ledger.rows[cell].figures)
                                 \ Says(EntryValue(paste, cell))) \cap {"budget"}} :
           cell \in Written(paste) \cap Filled(ledger)}

\* detectFinancialImportValueDrops: the amounts that an entry has and the
\* paste leaves empty.
EntryDrops(paste, ledger) ==
  UNION {{<<cell, f>> : f \in Says(ledger.rows[cell].figures)
                                \ Says(EntryValue(paste, cell))} :
           cell \in Written(paste) \cap Filled(ledger)}

\* detectBalanceImportValueDrops: the items a sheet has and the paste has not.
SheetDrops(paste, ledger) ==
  LET cell == Sheet(paste.sheet) IN
  IF cell \notin Filled(ledger) THEN {}
  ELSE {<<cell, i>> : i \in DOMAIN ledger.rows[cell].figures
                               \ {line.item : line \in LinesOf(paste)}}

-----------------------------------------------------------------------------
(* An import, as a whole: the rows of the finance and group forms that carry *)
(* one set of sources.                                                       *)

ImportRows(ledger, sources) ==
  {cell \in Filled(ledger) :
     cell[1] # "balance_sheet_snapshot" /\ ledger.rows[cell].sources = sources}

DataImports(ledger) ==
  {sources \in SourceSets : sources # {} /\ ImportRows(ledger, sources) # {}}

\* A mutant: every account with a row of the import is deleted with it.
EmptiedByAnyRow(ledger, gone) ==
  {k \in Accounts : ledger.accounts[k] # Absent /\ EntriesOf(ledger, k) \cap gone # {}}

\* A mutant: only the rows of the import are deleted.
NoneEmptied(ledger, gone) == {}

\* Accounts that have entries, none of which is left.
EmptiedAccounts(ledger, gone) ==
  {k \in Accounts :
     /\ ledger.accounts[k] # Absent
     /\ EntriesOf(ledger, k) # {}
     /\ EntriesOf(ledger, k) \subseteq gone}

ImportDeleted(ledger, sources) ==
  LET gone == ImportRows(ledger, sources)
      emptied == EmptiedAccounts(ledger, gone) IN
  [accounts |-> [k \in Accounts |->
     IF k \in emptied THEN Absent ELSE ledger.accounts[k]],
   rows |-> [cell \in Cells |->
     IF cell \in gone THEN Absent ELSE ledger.rows[cell]]]

\* What the server asks of a batch's outcome here.
LedgerValid(ledger) ==
  \A k \in Accounts : EntriesOf(ledger, k) # {} => ledger.accounts[k] # Absent

-----------------------------------------------------------------------------
(* The tab, and the others. *)

EmptyLedger ==
  [accounts |-> [k \in Accounts |-> Absent], rows |-> [c \in Cells |-> Absent]]

ImportsInit ==
  /\ books = Absent
  /\ booksRevision = 0
  /\ booksShown = Absent
  /\ booksSeen = 0
  /\ text = NoText
  /\ warned = {}
  /\ previewed = 0

SaveBooks(ledger) ==
  /\ booksRevision < MaxBooksRevision
  /\ LedgerValid(ledger)
  /\ books' = ledger
  /\ booksRevision' = booksRevision + 1

\* The company is created, without figures.
CreateBooks ==
  /\ books = Absent
  /\ SaveBooks(EmptyLedger)
  /\ UNCHANGED <<booksShown, booksSeen, text, warned, previewed>>

OthersImport ==
  /\ books # Absent
  /\ \/ \E paste \in Pastes, sources \in SourceSets :
          Sendable(paste) /\ SaveBooks(Imported(books, paste, sources))
     \/ \E sources \in DataImports(books) :
          SaveBooks(ImportDeleted(books, sources))
  /\ UNCHANGED <<booksShown, booksSeen, text, warned, previewed>>

\* loadAdmin: the previews of the pastes are left as they are.
ReloadBooks ==
  /\ booksSeen # booksRevision
  /\ booksShown' = books
  /\ booksSeen' = booksRevision
  /\ UNCHANGED <<books, booksRevision, text, warned, previewed>>

\* A tab without a workspace compares the paste with nothing.
Known == IF booksShown = Absent THEN EmptyLedger ELSE booksShown

\* The input event of a text field: its preview is made anew.
Preview(paste, drops) ==
  /\ text' = paste
  /\ warned' = IF HasErrors(paste) THEN {} ELSE drops
  /\ previewed' = booksSeen
  /\ UNCHANGED <<books, booksRevision, booksShown, booksSeen>>

UpdateFinanceImportPreview(paste) ==
  paste.form = "finance" /\ Preview(paste, EntryDrops(paste, Known))
UpdateGroupBudgetImportPreview(paste) ==
  paste.form = "group_budget" /\ Preview(paste, {})
UpdateGroupActualImportPreview(paste) ==
  paste.form = "group_actual" /\ Preview(paste, {})
UpdateBalanceImportPreview(paste) ==
  paste.form = "balance" /\ Preview(paste, SheetDrops(paste, Known))

\* sendAdminOperations: a conflict leaves all as it is, an answer is adopted.
SendOperations(ledger) ==
  /\ books # Absent
  /\ booksSeen = booksRevision
  /\ SaveBooks(ledger)
  /\ booksShown' = books'
  /\ booksSeen' = booksRevision'

\* What the submit handlers share.
SubmitText(sources) ==
  /\ Sendable(text)
  /\ SendOperations(Imported(books, text, sources))
  /\ text' = NoText
  /\ warned' = {}
  /\ previewed' = 0

SubmitFinanceImport(sources) == text.form = "finance" /\ SubmitText(sources)
SubmitGroupBudgetImport(sources) ==
  text.form = "group_budget" /\ SubmitText(sources)
SubmitGroupActualImport(sources) ==
  text.form = "group_actual" /\ SubmitText(sources)
SubmitBalanceImport(sources) == text.form = "balance" /\ SubmitText(sources)

SubmitImport(sources) ==
  \/ SubmitFinanceImport(sources)
  \/ SubmitGroupBudgetImport(sources)
  \/ SubmitGroupActualImport(sources)
  \/ SubmitBalanceImport(sources)

\* openImportDeleteConfirmation and submitDeletion, with nothing in between.
DeleteImport(sources) ==
  /\ booksShown # Absent
  /\ sources \in DataImports(booksShown)
  /\ SendOperations(ImportDeleted(booksShown, sources))
  /\ UNCHANGED <<text, warned, previewed>>

ImportsNext ==
  \/ CreateBooks
  \/ OthersImport
  \/ ReloadBooks
  \/ \E paste \in Pastes :
       \/ UpdateFinanceImportPreview(paste)
       \/ UpdateGroupBudgetImportPreview(paste)
       \/ UpdateGroupActualImportPreview(paste)
       \/ UpdateBalanceImportPreview(paste)
  \/ \E sources \in SourceSets : SubmitImport(sources) \/ DeleteImport(sources)

ImportsSpec == ImportsInit /\ [][ImportsNext]_importVars

-----------------------------------------------------------------------------
(* Properties. *)

\* A stored row always says something, and what a row of its type can say.
ImportsTypeOK ==
  /\ {books, booksShown} \subseteq Ledgers \cup {Absent}
  /\ booksRevision \in 0 .. MaxBooksRevision
  /\ booksSeen \in 0 .. booksRevision
  /\ text \in Pastes \cup {NoText}
  /\ previewed \in 0 .. booksSeen

\* Every import can be undone: the server accepts the deletion, and it leaves
\* no account whose last entry it took.
ImportsCanBeUndone ==
  \A sources \in DataImports(books) :
    LET after == ImportDeleted(books, sources) IN
    /\ LedgerValid(after)
    /\ \A k \in Accounts :
         EntriesOf(books, k) # {} /\ EntriesOf(after, k) = {} =>
           after.accounts[k] = Absent

\* "One paste can be undone as a unit": an import that overwrote nothing and
\* has sources of its own, deleted, leaves every row as it was before, and
\* the accounts that had entries.
UndoRestores ==
  \A paste \in Pastes, sources \in SourceSets :
    LET undone == ImportDeleted(Imported(books, paste, sources), sources) IN
    (/\ Sendable(paste) /\ paste.form # "balance"
     /\ Written(paste) \cap Filled(books) = {}
     /\ sources \notin DataImports(books)) =>
      /\ undone.rows = books.rows
      /\ \A k \in Accounts :
           EntriesOf(books, k) # {} => undone.accounts[k] # Absent

\* Every import can be undone, and undoing it restores what was there before.
ImportsAreUndone == books # Absent => ImportsCanBeUndone /\ UndoRestores

\* What a save leaves unsaid that the books said before.
LostFigures ==
  {d \in Cells \X ({"budget", "actual", "amount"} \cup Items) :
     /\ books.rows[d[1]] # Absent
     /\ d[2] \in Says(books.rows[d[1]].figures)
     /\ d[2] \notin Says(books'.rows[d[1]].figures)}

WarningsAreTrue ==
  \A sources \in SourceSets :
    SubmitImport(sources) /\ previewed = booksRevision => LostFigures = warned

\* A paste that is sent to the workspace it was previewed in loses what the
\* preview said, no more and no less (detectFinancialImportValueDrops).
PreviewWarns == [][WarningsAreTrue]_importVars

\* The invariant of the proofs: a row of the books has its account, the tab
\* shows what its revision says it does, and a preview made from what is shown
\* warns of what the paste leaves unsaid of it.
Warnings(paste, ledger) ==
  IF HasErrors(paste) THEN {}
  ELSE CASE paste.form = "finance" -> EntryDrops(paste, ledger)
         [] paste.form = "balance" -> SheetDrops(paste, ledger)
         [] OTHER -> {}

ImportsInv ==
  /\ ImportsTypeOK
  /\ books = Absent <=> booksRevision = 0
  /\ books # Absent => LedgerValid(books)
  /\ booksSeen = booksRevision => booksShown = books
  /\ previewed = booksSeen /\ text # NoText => warned = Warnings(text, Known)
=============================================================================
