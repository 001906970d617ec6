SPECIFICATION FetchSpec
CONSTANTS
  text = text
  mirror = mirror
  other = other
  list = list
  chosen = chosen
  shown = shown
  count = count
  nothing = nothing
  missing = missing
  PlainText = 1
  MaxEvents = 2
  Sinces = {0}
  Debounces = {1}
  Names <- MCNames
  KindOf <- MCKindOf
  First <- MCFirst
  Parameters <- MCParameters
  Predicates <- MCPredicates
  Actions <- MCActions
  Watches <- MCWatches
  Template <- MCTemplate
INVARIANT InSync
CHECK_DEADLOCK FALSE
