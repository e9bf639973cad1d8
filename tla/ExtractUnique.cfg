\* Two rules of one literal each.
SPECIFICATION Spec
CONSTANTS
  n1 = n1
  n2 = n2
  n3 = n3
  x = x
  y = y
  z = z
  Names = {n1, n2, n3}
  Texts = {x, y, z}
  Rulesets <- LiteralRules
INVARIANTS
  IdsUnique
CHECK_DEADLOCK FALSE
