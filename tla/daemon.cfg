SPECIFICATION FairSpec
CONSTANTS
  q1 = q1
  q2 = q2
  q3 = q3
  q4 = q4
  Requests = {q1, q2, q3, q4}
  Wedged = {q1}
  MaxConcurrency = 2
  QueueMax = 1
  Threshold = 2
INVARIANTS TypeOK SlotsAccounted NeverStuck
PROPERTIES AnswersAreKept Answered Stops Recovers
CHECK_DEADLOCK FALSE
