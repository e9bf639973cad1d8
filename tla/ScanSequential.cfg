\* One thread, two scanners used in turn, every kind of request.
SPECIFICATION FairSpec
CONSTANTS
  Threads = {t1}
  Scanners = {s1, s2}
  MaxDepth = 1
  NumRules = 3
  PublicRules = {1, 3}
  lit = lit
  rgx = rgx
  mtx = mtx
  big = big
  LiteralIds = {lit}
  RegexIds = {rgx}
  MutexIds = {mtx}
  Facts = {big}
  LengthMod = 4
  HsMayFail = TRUE
  NoRequest = NoRequest
  Condition <- MCCondition
  Requests <- SequentialRequests
  Verdict <- MCVerdict
INVARIANTS
  TypeOK
  ReportExact
  ContextIsOwn
  NoNestedEvaluation
PROPERTIES
  ServiceKept
  ScanEnds
CHECK_DEADLOCK FALSE
