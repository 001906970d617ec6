SPECIFICATION FetchSpec
CONSTANTS
  text = text
  mirror = mirror
  other = other
  list = list
  chosen = chosen
  shown = shown
  count = count
  nothing = nothing
  missing = missing
  PlainText = 1
  MaxEvents = 4
  Sinces = {0, 1}
  Debounces = {0, 1, 2}
  Names <- MCNames
  KindOf <- MCKindOf
  First <- MCFirst
  Parameters <- MCParameters
  Predicates <- MCPredicates
  Actions <- MCActions
  Watches <- MCWatches
  Template <- MCTemplate
INVARIANTS
  MirrorsAgree
  RequestsCarryChanges
PROPERTIES
  OnlyExtendIsSilent
  UpdatesEnd
  ChangesAreFetched
CHECK_DEADLOCK FALSE
