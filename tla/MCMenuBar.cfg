CONSTANTS
  Bound <- Events
  MaxEvents = 4
  MaxInMemory = 3
  MaxFileRecords = 1
  MaxFiles = 2
  MaxChanges = 2
  MaxLaunches = 2
  ReadLimit = 2
  MaxShown = 2
SPECIFICATION FairSpec
INVARIANTS TypeOK NothingSkipped FilesContinue SettingsAgree BusyWhileWorking OnlyVerified OneWindow
PROPERTIES FetchedAtLast Shows
CHECK_DEADLOCK FALSE
