CONSTANTS
  Requests = {r1, r2}
  MaxConcurrent = 1
  ProcessTimeouts = {0, 1}
  ChatTimeout = 3
  DrainTimeout = 2
  Horizon = 4
  Writers = {w1, w2}
  RateBuckets = 3
  RateWindow = 2
  LastSecond = 6
  MaxSamples = 2
SPECIFICATION MCFairSpec
INVARIANTS NothingLeaks AnswersCountedOnce DrainSparesProcess RateExact
PROPERTIES SignalEnds AdmittedAnswered
CHECK_DEADLOCK FALSE
