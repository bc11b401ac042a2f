\* A 64drive RevB with a firmware below 2.04: burst writes are refused.
SPECIFICATION Spec
CONSTANTS
  Commands <- MCCommands
  Supported <- MCSupported
  Retries = 4
  MaxCalls = 2
INVARIANTS VersionRead
CHECK_DEADLOCK FALSE
