\* A 64drive RevB with a firmware below 2.04: burst writes are refused.
SPECIFICATION FairSpec
CONSTANTS
  Commands <- MCCommands
  Supported <- MCSupported
  Retries = 3
  MaxCalls = 3
INVARIANTS TypeOK InStep OwnAnswer FramedAnswer OnlySupported
PROPERTIES CallsEnd
CHECK_DEADLOCK FALSE
