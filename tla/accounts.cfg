SPECIFICATION PartSpec
CONSTANTS
  c1 = c1
  c2 = c2
  page = page
  elsewhere = elsewhere
  tab1 = tab1
  tab2 = tab2
  Calls <- TwoCalls
  Logins <- TwoLogins
  Page = page
  Tabs <- TwoTabs
  Kinds = {"me", "logout"}
  MaxTokens = 3
  MaxChallenges = 2
  MaxUsers = 1
  MaxAttempts = 2
  MaxLost = 1
INVARIANTS AttemptsBounded RotationKeepsOne
PROPERTIES SessionSurvives CallsEnd
CHECK_DEADLOCK FALSE
