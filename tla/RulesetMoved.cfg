\* A Ruleset that is moved.
SPECIFICATION Spec
CONSTANTS
  f1 = f1
  f2 = f2
  lib = lib
  o1 = o1
  o2 = o2
  w1 = w1
  w2 = w2
  s1 = s1
  s2 = s2
  None = None
  Files = {f1}
  Kind <- MCKind
  Objects = {o1, o2}
  Wrappers = {w1, w2}
  Scanners = {s1, s2}
  Policies = {{"move"}}
  MaxFailed = 1
  MaxLive = 2
  MaxAgain = 0
INVARIANTS
  CallsInOrder
CHECK_DEADLOCK FALSE
