\* Two threads, and match callbacks that scan, over two scanners of a ruleset without strings.
SPECIFICATION FairSpec
CONSTANTS
  Threads = {t1, t2}
  Scanners = {s1, s2}
  MaxDepth = 2
  NumRules = 3
  PublicRules = {1, 3}
  lit = lit
  rgx = rgx
  mtx = mtx
  big = big
  LiteralIds = {}
  RegexIds = {}
  MutexIds = {mtx}
  Facts = {big}
  LengthMod = 4
  HsMayFail = FALSE
  NoRequest = NoRequest
  Condition <- StringlessCondition
  Requests <- StringlessRequests
  Verdict <- MCVerdict
INVARIANTS
  
  ReportExactAlone
  NoNestedEvaluation
PROPERTIES
  ScanEnds
CHECK_DEADLOCK FALSE
