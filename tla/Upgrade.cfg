SPECIFICATION FairSpec
CONSTANTS
  Archives <- MCArchives
  Magic = "UDEV"
  Variant = "B"
  MaxCalls = 2
  MaxLate = 3
INVARIANTS TypeOK StartsVerified OutcomeTrue DamageDetected
PROPERTIES BarForward UpgradeEnds
CHECK_DEADLOCK FALSE
