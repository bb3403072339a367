SPECIFICATION Spec
CONSTANTS
  Specs <- MCSpecs
  Starts <- MCStarts
  LastDay = 1100
  Until <- MCUntil
  MaxLate = 1
  Delay = 1
  MaxExtra = 2
INVARIANTS ActsOnLatest InTime AlwaysWakes
CHECK_DEADLOCK FALSE
