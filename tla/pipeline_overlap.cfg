SPECIFICATION Spec
CONSTANTS
  w1 = w1
  w2 = w2
  u1 = u1
  u2 = u2
  r1 = r1
  Workers <- TwoWorkers
  Reapers <- OneReaper
  Registered <- FullImages
  Order <- TinyOrder
  Required <- ShortRequired
  Skipping <- TinySkipping
  WorkdirInput <- NoInputs
  Uploads <- OneUpload
  UploadWhileRunning = FALSE
  MaxRetries = 0
  MaxRequests = 2
  MaxFaults = 0
  MaxRedeliveries = 0
  MaxUploads = 0
INVARIANTS ReadyAtRest
CHECK_DEADLOCK FALSE
