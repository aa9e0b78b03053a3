SPECIFICATION AnalysisSpec
CONSTANTS
  MaxAge = 1
  MinTrackLength = 2
  MaxFrames = 4
  MaxLive = 4
  MaxStrong = 2
  MaxWeak = 1
  Players = {p1, p2, p3}
  Numbers <- TwoNumbers
  Confidences <- Percents
  Nobody = Nobody
  MinVotes = 2
  MinShare = 50
  MinMargin = 15
  MinReadConfidence = 20
  MaxReads = 4
  MaxCorrections = 1
  Films <- FiveFilms
  Weight <- Weights
  RawSeries <- Series
  Frames <- Differences
  MockScores <- Dice
  MinScore = 35
  MaxOverlap = 30
  MaxCount = 2
  PeakMargin = 2
  FrameWidth = 64
  Grid = 16
  MaxDetectionFrames = 4
  MaxCrops = 2
  FrameCounts <- UpToNine
  Masters <- WideAndTall
  Lengths <- UpToSeven
  Sizes <- TwoSizes
  Places <- ThreePlaces
INVARIANT PlacesAreKept
CHECK_DEADLOCK FALSE
