\* Hex strings without wildcards.
SPECIFICATION StringSpec
CONSTANTS
  n1 = n1
  n2 = n2
  n3 = n3
  x = x
  y = y
  z = z
  NoSource = NoSource
  Names = {n1, n2, n3}
  Texts <- AnyText
  Rulesets <- ConvertedHexes
  Sources <- HexSource
  Buffers <- AnyBuffer
  HexStrings <- AnyHexString
  Regexes <- AnyRegex
  Nesting <- AnyNesting
  MaxNesting <- DeepestNesting
INVARIANTS
  HexLiteralsFound
CHECK_DEADLOCK FALSE
