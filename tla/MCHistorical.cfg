\* Two pairs, the second one without messages; two months, the second one without
\* messages too, whose query may fail after the first has been archived; and one
\* request at a time for a file.  At the start nothing is archived, or the first
\* pair's first month was, by a version that kept no checksums.
CONSTANTS
  Messages <- TwoMessages
  PairOf <- FirstPair
  MonthOf <- FirstMonth
  NumPairs = 2
  MaxMonth = 2
  MaxVersion = 1
  Faults = {"call", "crash"}
SPECIFICATION HistoricalFairSpec
INVARIANTS TypeOK CustodyOrdered HistoricalTypeOK ServedIsRecorded
PROPERTIES ArchiveCompletes
