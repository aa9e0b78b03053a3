SPECIFICATION Spec
CONSTANTS
  h1 = h1
  h2 = h2
  h3 = h3
  h4 = h4
  h5 = h5
  None = None
  Ids <- FiveIds
  MaxUploads = 3
  Barren = {1}
  Forces = {FALSE}
  MaxRequests = 3
  MaxFaults = 2
SYMMETRY Symmetric
INVARIANTS ReadyCardsPlay HighlightsAreCurrent
PROPERTIES ReelIsStill
CHECK_DEADLOCK FALSE
