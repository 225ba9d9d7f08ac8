CONSTANTS
  Entries = {e1}
  Writers = {a1, a2}
  Readers = {r1}
  Workers = {w1, w2}
  MaxEvents = 2
SPECIFICATION LiveSpec
PROPERTIES
  AnswerIsComplete
  ViewGoesForward
  EventuallyShown
CHECK_DEADLOCK FALSE
