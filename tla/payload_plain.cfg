SPECIFICATION Spec
CONSTANTS
  Built <- PlainReprs
  Hosts <- MCHosts
  Null = Null
INVARIANTS UpToDate ViewRight
PROPERTIES OnlyChangesTold
