SPECIFICATION Spec
CONSTANTS
  a = a
  b = b
  ma = ma
  mb = mb
  t = t
  None = None
  Files = {a, b}
  Packages = {a, b}
  Mutants = {ma, mb}
  Tests = {t}
  Texts = {0, 1}
  Builds = {0}
  Suites = {0, 1}
  Home <- MCHome
  PackageOf <- MCPackageOf
  Roots <- MCRoots
  Declares <- MCDeclares
  First <- MCFirst
  MaxEdits = 2
  MaxRuns = 2
INVARIANTS RecordIsBound AdoptedWasJudgedHere
PROPERTIES NarrowRunsAccumulate
CHECK_DEADLOCK FALSE
