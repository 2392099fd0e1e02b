SPECIFICATION Spec
CONSTANTS
  leaf = leaf
  empty = empty
  flat = flat
  deep = deep
  list = list
  nil = nil
  None = None
  Missing = Missing
  Objects = {leaf, empty, flat, deep, list, nil}
  Kind <- SomeKind
  Fields <- SomeFields
  Items <- SomeItems
  Number <- SomeNumber
  Mappings <- SomeMappings
CHECK_DEADLOCK FALSE
INVARIANTS ResolvesWhatPathsDenote FirstFailureDecides NeedsNonEmptyOutput
