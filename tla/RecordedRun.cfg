CONSTANTS
  Attempts = {1, 2}
  None = None
  Foreign = Foreign
  Requests <- MCRequests
  MaxEvents = 2
  MaxFaults = 2
  MaxExpired = 1
  Faulty = {"open", "blob", "append", "chunk", "stage", "commit", "seal", "secret", "contain", "damage", "foreign"}
SPECIFICATION FairSpec
INVARIANT EvidenceHonest
INVARIANT RunsAgree
PROPERTY EventuallySealed
CHECK_DEADLOCK FALSE
