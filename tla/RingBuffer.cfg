CONSTANTS
  SIZE = 4
  Desc = {d1, d2}
  Junk = Junk
  MaxPush = 8
SPECIFICATION FairSpec
INVARIANTS TypeOK NoDataRace IndInv
PROPERTIES ImplementsFifo RefusalsJustified AllTransferred
CHECK_DEADLOCK TRUE
