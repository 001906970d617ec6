SPECIFICATION Spec
CONSTANTS
  Users = {u1, u2, u3}
  Queries = {q1, q2}
  Keys = {k1}
  NoKey = NoKey
INVARIANTS
  TypeOK
  SummaryIsRight
  CalledOncePublished
PROPERTIES
  CallbacksRun
CHECK_DEADLOCK FALSE
