SPECIFICATION SessionSpec
CONSTANTS
  Main = main
  Others = {other}
  k1 = k1
  k2 = k2
  Keys <- MCKeys
  MaxDiff = 1
  Missing = Missing
  Torn = Torn
  MaxAttempts = 2
  AllowPartial = FALSE
INVARIANTS
  SessionTypeOK
  CommandIsWatchedInRun
  NothingUnseen
  StatusTellsOfCommand
  ReportHasPatch
  FinalStatusIsBacked
  ReceiptIsBacked
PROPERTIES
  FinalStays
  ReceiptStays
  SpawnReturns
  CommandEndsWithSupervisor
  CallsAreReleased
