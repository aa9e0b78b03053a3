SPECIFICATION FairSpec
CONSTANTS
  c1 = c1
  None = None
  Segments = 2
  Contents <- OneContent
  UploadKeys <- BothShapes
  LateUploads = TRUE
  UploadsPastDeadline = FALSE
  RunsPastDeadline = FALSE
  MaxPuts = 4
  MaxRequests = 2
  MaxFaults = 1
INVARIANTS RowsHaveObjects ReadyIsWhole QuietWhileUploading DeadlineIsSet
PROPERTIES DueIsPurged
CHECK_DEADLOCK FALSE
