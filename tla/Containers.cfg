CONSTANTS
  Vectors <- MCVectors
  Elements = {1, 2, 3}
  Value <- MCValue
  Buffers = {b1, b2, b3}
  NoBuffer = NoBuffer
  Capacities = {1, 3}
  MaxSize = 3
  Strings <- MCStrings
  Letters = {"a", "b"}
  Literals <- MCLiterals
  Garbage = {0, 9}
  MaxLength = 6
SPECIFICATION MCSpec
SYMMETRY MCSymmetry
CHECK_DEADLOCK FALSE
INVARIANTS
  BuffersApart
  ElementsAlive
  SoleOwner
  RemovedIsGone
  EqualIsSameText
PROPERTIES
  RefinesLists
  RefinesTexts
