SPECIFICATION CaptureSpec
CONSTANTS
  q1 = q1
  q2 = q2
  q3 = q3
  Terminal = Terminal
  Requests = {q1, q2, q3}
  MaxConcurrency = 2
  QueueMax = 1
INVARIANT OwnOutput
