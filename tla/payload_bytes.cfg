SPECIFICATION Spec
CONSTANTS
  Built <- ByteReprs
  Hosts <- MCHosts
  Null = Null
INVARIANTS UpToDate
