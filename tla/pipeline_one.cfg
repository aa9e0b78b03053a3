SPECIFICATION Spec
CONSTANTS
  w1 = w1
  w2 = w2
  u1 = u1
  u2 = u2
  r1 = r1
  Workers <- OneWorker
  Reapers <- OneReaper
  Registered <- FullImage
  Order <- KindsOrder
  Required <- KindsRequired
  Skipping <- KindsSkipping
  WorkdirInput <- NoInputs
  Uploads <- TwoUploads
  UploadWhileRunning = FALSE
  MaxRetries = 0
  MaxRequests = 2
  MaxFaults = 1
  MaxRedeliveries = 1
  MaxUploads = 1
INVARIANTS ReadyMeansRan
PROPERTIES ReadyIsCurrent Implements
CHECK_DEADLOCK FALSE
