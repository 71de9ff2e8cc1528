SPECIFICATION Spec
CONSTANTS
  Keys = {1, 2}
  Rows = {r1, r2}
  MaxRequests = 5
  MaxAlternatives = 2
  Users = {"ana", "beto"}
  MaxCalls = 6
  Files = {"clean.xlsx", "broken.xlsx"}
  GoodFiles = {"clean.xlsx"}
  MaxSales = 3
INVARIANTS ShowsWhatWasChosen NoDoubleSubmit OwnChangeStays LinksLead StorageBelongsToSession SoldTwiceOnlyWhenMisled
PROPERTIES SavesTheRecordChosen OfferedIsServed OnlyValidatedFilesAreImported
CHECK_DEADLOCK FALSE
