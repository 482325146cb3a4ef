SPECIFICATION MCSpec
CONSTANTS
  StartYear = 1
  EndYear = 3
  Inputs <- MCInputs
  Absent = Absent
  Gap = Gap
  UnknownSection = UnknownSection
  None = None
  EventIds = {"e1", "e2"}
  Scenarios = {"base", "stress"}
  Calendar = {1, 2, 3, 4}
  Amounts = {4, 10, 10000}
  Versions <- MCVersions
  Horizons <- MCHorizons
  Codes = {"3100", "3200", "3300"}
  Groups = {"KORJAUKSET", "KUNNOSSAPITO", "TULOT"}
  RepairNames = {"KORJAUKSET"}
  BookYears = {1, 2}
  AccountVersions <- MCAccountVersions
  EntryVersions <- MCEntryVersions
  GroupVersions <- MCGroupVersions
  TableYears = {1, 2, 3}
  TableAccountVersions <- NoVersions
  TableEntryVersions <- NoVersions
  TableGroupVersions <- MCTableGroupVersions
  TablePastes <- MCTablePastes
  TableEventIds = {"roof"}
  TableAmounts = {4, 5}
  TableEventVersions <- MCTableEventVersions
  Coverages = {2}
  SheetIds = {1, 2, 3}
  Pastes <- MCPastes
  LineFlaws = {UnknownSection}
  CashNames = {"Rahat ja pankkisaamiset"}
INVARIANTS
  CalculationsTypeOK
  RowsAreCountedOnce
  ForecastIsSound
  ViewsAgree
  FiguresAreCountedOnce
  SheetsCompare
PROPERTIES
  ChangesStayInPlace
CHECK_DEADLOCK FALSE
