SPECIFICATION FairSpec
CONSTANTS
  e1 = e1
  e2 = e2
  Event = {e1, e2}
  Limit = 2
  Day = 2
  Week = 3
  MaxBackoff = 2
  Width = 3
  MaxTime = 4
  MaxDbErrors = 1
  MaxHttpErrors = 3
  MaxCrashes = 2
INVARIANTS TypeOK AcceptsAccounted StrandedOnlyByFault RetriesEnd FirstAttemptsInOrder
PROPERTIES RemovedWasTried DueIsAttempted
