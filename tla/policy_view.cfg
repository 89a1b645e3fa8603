SPECIFICATION FairViewSpec
CONSTANTS
  RouteIds = {0, 1}
  Worth = {0, 1}
  Outcomes = {"Executed"}
  MaxBlocks = 4
  Slots = 2
INVARIANTS ViewIsTruthful AbsenceIsReal WaitingIsReal
PROPERTIES ViewsAdvance SettlementShown
