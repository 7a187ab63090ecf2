\* A simulator that processes commands, and one that cannot be thrown into or a copy.
CONSTANTS
  Controllers = {"sim", "tool"}
  Reporting = {"sim"}
  Hookables = {"sim"}
  Copies = {"tool"}
  NoObject = NoObject
  Threads = {"main", "worker"}
  Depth <- MCDepth
  Throwing = {"sim"}
  Commander = "sim"
  MaxRequests = 2
  MaxFailures = 1
SPECIFICATION Spec
CHECK_DEADLOCK FALSE
INVARIANTS
  InRightDirectory
  RoutedToOwn
  AnsweredInOrder
PROPERTIES
  SameLibrary
  RequestsAnswered
