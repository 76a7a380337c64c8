SPECIFICATION Spec
CONSTANTS
  CurCodeSize = 3
  Abbreviations <- MCAbbreviations
  Records <- MCRecords
  Plain <- MCPlain
  MaxItems = 4
INVARIANTS TypeOK RoundTrip
CHECK_DEADLOCK FALSE
