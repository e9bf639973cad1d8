\* yarang with a Cuckoo report on its command line.
SPECIFICATION ToolSpec
CONSTANTS
  b1 = b1
  b2 = b2
  u1 = u1
  r1 = r1
  r2 = r2
  r3 = r3
  here = here
  scripts = scripts
  c1 = c1
  c2 = c2
  bad = bad
  Absent = Absent
  Partial = Partial
  Empty = Empty
  Builders = {b1, b2}
  Rulesets = {r1}
  Dirs = {here, scripts}
  Dir <- MCDir
  ScriptDir = scripts
  Contents = {c1, c2, bad}
  Accepted = {c1, c2}
  Databases <- MCDatabases
  MaxBuilds <- MCMaxBuilds
  MaxEdits = 1
  Policies = {{}}
  Users = {u1}
  Words <- MCWords
  Options = {"-c", "-t"}
  BinOf <- MCBinOf
  Kind <- MCKind
  Lines <- CuckooLines
  MaxScans <- MCMaxScans
SYMMETRY SomeBuilder
INVARIANTS
  CuckooLineScans
CHECK_DEADLOCK FALSE
