\* The local conduit with three processes; the remote ones with two and one retry.
CONSTANTS
  Proc = {p1, p2, p3}
  Client = {p1, p2}
  Data = {a, b}
  None = None
  Partial = Partial
  MaxAttempts = 2
  MaxLate = 1
SPECIFICATION BuiltSpec
INVARIANTS
  TypesOK
  AnswersTell
PROPERTIES
  ObjectSpec
  ExpectedIsReplaced
  CallsEnd
CHECK_DEADLOCK FALSE
