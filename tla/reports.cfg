CONSTANTS
  c1 = c1
  c2 = c2
  Ids = {1, 2, 3}
  Entries <- MCEntries
  Categories = {c1, c2}
  Months <- MCMonths
  Ranges <- MCRanges
  PageSizes = {2, 3}
  MaxPerPage = 2
  DefaultPerPage = 1
  NotYet = NotYet
  Deleted = Deleted
SPECIFICATION Spec
CHECK_DEADLOCK FALSE
INVARIANT ReportAddsUp
INVARIANT MonthBefore
INVARIANT ListIsWhole
INVARIANT NothingSkipped
