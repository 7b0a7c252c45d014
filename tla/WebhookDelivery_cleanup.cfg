SPECIFICATION Spec
CONSTANTS
  e1 = e1
  e2 = e2
  Event = {e1, e2}
  Limit = 2
  Day = 2
  Week = 3
  MaxBackoff = 2
  Width = 3
  MaxTime = 4
  MaxDbErrors = 0
  MaxHttpErrors = 0
  MaxCrashes = 0
PROPERTIES OldIsRemoved
