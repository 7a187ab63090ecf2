\* Two types, as reference types with all options and as list nodes with aliases.
CONSTANTS
  TypeIds = {"A", "B"}
  Specs <- MCSpecs
  Accesses = {"public", "private"}
  MaxObjects = 3
SPECIFICATION Spec
CHECK_DEADLOCK FALSE
INVARIANTS
  NothingLost
  DefinedOnce
  PromisesKept
  FirstAccessHolds
