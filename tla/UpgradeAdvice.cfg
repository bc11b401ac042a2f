SPECIFICATION Spec
CONSTANTS
  Archives <- MCArchives
  Magic = "UDEV"
  Variant = "B"
  MaxCalls = 2
  MaxLate = 3
INVARIANTS AdviceSafe
CHECK_DEADLOCK FALSE
