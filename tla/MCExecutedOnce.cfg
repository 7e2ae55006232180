SPECIFICATION Spec
CONSTANTS
  SINGLE_ADDRESS_SPACE = TRUE
  Programs  <- CountOnce
  Unmapped  <- JumpHome
  BusData   <- Answer
  PowerOn   <- Power
  DontCare  <- OpenAs0
  ResetTicks <- NoTick
  MaxResets = 0
INVARIANT ExecutedOnce
