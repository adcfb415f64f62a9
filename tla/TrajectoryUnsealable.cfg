CONSTANTS
  Attempts = {1}
  None = None
  Foreign = Foreign
  Requests <- MCRequests
  MaxEvents = 2
  MaxFaults = 1
  MaxExpired = 0
  Faulty = {"truncate"}
SPECIFICATION FairSpec
PROPERTY EventuallySealed
CHECK_DEADLOCK FALSE
