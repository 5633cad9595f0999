SPECIFICATION Spec
CONSTANTS
  Period = 16
  Lag = 2
  FirmwareGap = 8
  Rate = 2
INVARIANTS
  OwnHandler
  Calibrated
PROPERTIES
  TimerGoesOn
