SPECIFICATION Spec
CONSTANTS
  c1 = c1
  None = None
  Segments = 1
  Contents <- OneContent
  UploadKeys <- BothShapes
  LateUploads = FALSE
  UploadsPastDeadline = FALSE
  RunsPastDeadline = FALSE
  MaxPuts = 1
  MaxRequests = 1
  MaxFaults = 0
INVARIANTS DeletionRemovesFootage
CHECK_DEADLOCK FALSE
