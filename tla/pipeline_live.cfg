SPECIFICATION FairSpec
CONSTANTS
  w1 = w1
  w2 = w2
  u1 = u1
  u2 = u2
  r1 = r1
  Workers <- TwoWorkers
  Reapers <- OneReaper
  Registered <- SplitImages
  Order <- ShortOrder
  Required <- ShortRequired
  Skipping <- ShortSkipping
  WorkdirInput <- ShortInputs
  Uploads <- OneUpload
  UploadWhileRunning = FALSE
  MaxRetries = 1
  MaxRequests = 1
  MaxFaults = 1
  MaxRedeliveries = 0
  MaxUploads = 0
PROPERTIES ProcessingSettles RunningEnds
CHECK_DEADLOCK FALSE
