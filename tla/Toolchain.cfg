\* Builds of all kinds, and yarang beside the careful ones and after refused ones.
SPECIFICATION ToolSpec
CONSTANTS
  b1 = b1
  b2 = b2
  u1 = u1
  r1 = r1
  r2 = r2
  r3 = r3
  here = here
  scripts = scripts
  c1 = c1
  c2 = c2
  bad = bad
  Absent = Absent
  Partial = Partial
  Empty = Empty
  Builders = {b1, b2}
  Rulesets = {r1, r2, r3}
  Dirs = {here, scripts}
  Dir <- MCDir
  ScriptDir = scripts
  Contents = {c1, c2, bad}
  Accepted = {c1, c2}
  Databases <- MCDatabases
  MaxBuilds <- MCMaxBuilds
  MaxEdits = 1
  Policies <- EachUse
  Users = {u1}
  Words <- MCWords
  Options = {"-c", "-t"}
  BinOf <- MCBinOf
  Kind <- MCKind
  Lines <- PlainLines
  MaxScans <- MCMaxScans
SYMMETRY SomeBuilder
INVARIANTS
  TypeOK
  UntroubledBuildIsExact
  CarefulBuildsAreWhole
  
PROPERTIES
  BuildServiceKept
CHECK_DEADLOCK FALSE
