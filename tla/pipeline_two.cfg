SPECIFICATION Spec
CONSTANTS
  w1 = w1
  w2 = w2
  u1 = u1
  u2 = u2
  r1 = r1
  Workers <- TwoWorkers
  Reapers <- OneReaper
  Registered <- FullImages
  Order <- TinyOrder
  Required <- ShortRequired
  Skipping <- TinySkipping
  WorkdirInput <- NoInputs
  Uploads <- OneUpload
  UploadWhileRunning = TRUE
  MaxRetries = 0
  MaxRequests = 2
  MaxFaults = 0
  MaxRedeliveries = 1
  MaxUploads = 1
SYMMETRY SameImages
INVARIANTS ProcessingIsOwned RunningIsOwned
CHECK_DEADLOCK FALSE
