SPECIFICATION MCSpec
CONSTANTS
  r1 = r1
  r2 = r2
  r3 = r3
  a = a
  b = b
  Nil = Nil
  Requests = {r1, r2, r3}
  Files = {a, b}
  Attempts = 1
  MaxEdits = 1
  MaxStamp = 2
INVARIANTS TypeOK NoStaleEntry AnswersAreFresh
PROPERTIES FileAdvances SearchesEnd
CHECK_DEADLOCK FALSE
