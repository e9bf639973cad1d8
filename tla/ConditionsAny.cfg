\* Conditions of every kind over three scans, and every quantifier over sets and ranges.
SPECIFICATION RuleSpec
CONSTANTS
  WordSize = 16
  ByteSize = 2
  Undefined = 14
  NoRule = NoRule
  Rules <- AnyRule
  Calls <- ConditionCalls
  Exprs <- AnyExpr
  Depth <- AnyDepth
  MaxDepth <- DeepestNesting
  StringCount = 2
  MutexCount = 2
  VariableNames <- LoopNames
  BitAnd <- WordAnd
  BitXor <- WordXor
INVARIANTS
  TypeOK
  ResultExact
  LiteralIsCut
  EvaluatedWhileOpen
  ConditionKept
  UndefinedIsFalse
  ReadsExact
  EntriesExact
PROPERTIES
  LoopEnds
CHECK_DEADLOCK FALSE
