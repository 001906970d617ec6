SPECIFICATION FairSpec
CONSTANTS
  e1 = e1
  e2 = e2
  p = p
  v0 = v0
  v1 = v1
  odd = odd
  junk = junk
  NoValue = NoValue
  Absent = Absent
  EncodedKeys <- MCEncodedKeys
  PlainKeys <- MCPlainKeys
  Stateful <- MCStateful
  Values <- MCValues
  Texts <- MCTexts
  Decode <- MCDecode
  Links <- MCLinks
  MaxInputs = 4
INVARIANTS
  TypeOK
  UrlMirrorsValues
  NoTwinEntries
PROPERTIES
  LookingAroundWritesNothing
  ChangeSettles
CHECK_DEADLOCK FALSE
