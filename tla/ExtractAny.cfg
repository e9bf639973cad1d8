\* Files of two rules with at most two strings each, rules with three strings, and rules with hex strings.
SPECIFICATION StringSpec
CONSTANTS
  n1 = n1
  n2 = n2
  n3 = n3
  x = x
  y = y
  z = z
  NoSource = NoSource
  Names = {n1, n2, n3}
  Texts <- AnyText
  Rulesets <- AnyFileOrConverted
  Sources <- AnySource
  Buffers <- AnyBuffer
  HexStrings <- AnyHexString
  Regexes <- AnyRegex
  Nesting <- AnyNesting
  MaxNesting <- DeepestNesting
INVARIANTS
  TypeOK
  IdsResolve
  IdsWithinMatches
  PatternsDistinct
  SameTextSameId
  MutexIdsResolve
  StringsFound
CHECK_DEADLOCK FALSE
