\* A Cuckoo report given to a ruleset that uses no mutexes.
SPECIFICATION Spec
CONSTANTS
  Threads = {t1}
  Scanners = {s1, s2}
  MaxDepth = 1
  NumRules = 3
  PublicRules = {1, 3}
  lit = lit
  rgx = rgx
  mtx = mtx
  big = big
  LiteralIds = {lit}
  RegexIds = {rgx}
  MutexIds = {}
  Facts = {big}
  LengthMod = 4
  HsMayFail = FALSE
  NoRequest = NoRequest
  Condition <- NoMutexCondition
  Requests <- CuckooRequests
  Verdict <- MCVerdict
INVARIANTS
  ScansComplete
CHECK_DEADLOCK FALSE
