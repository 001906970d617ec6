SPECIFICATION Spec
CONSTANTS
  Users = {u1, u2}
  Queries = {q1}
  Keys = {k1}
  NoKey = NoKey
INVARIANT CallbackGuarantee
CHECK_DEADLOCK FALSE
