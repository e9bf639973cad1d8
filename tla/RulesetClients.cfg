\* Scoped use, and everything the classes let a client do.
SPECIFICATION Spec
CONSTANTS
  f1 = f1
  f2 = f2
  lib = lib
  o1 = o1
  o2 = o2
  w1 = w1
  w2 = w2
  s1 = s1
  s2 = s2
  None = None
  Files = {f1, f2, lib}
  Kind <- MCKind
  Objects = {o1, o2}
  Wrappers = {w1, w2}
  Scanners = {s1, s2}
  Policies <- AnyClient
  MaxFailed = 1
  MaxLive = 3
  MaxAgain = 2
SYMMETRY Alike
INVARIANTS
  TypeOK
  NoFault
  NothingLeaks
  ScannerReady
  FaultsFollowUse
CHECK_DEADLOCK FALSE
