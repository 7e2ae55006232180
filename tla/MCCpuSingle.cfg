SPECIFICATION FairSpec
CONSTANTS
  SINGLE_ADDRESS_SPACE = TRUE
  Programs  <- AllPrograms
  Unmapped  <- JumpHome
  BusData   <- Answer
  PowerOn   <- Power
  DontCare  <- OpenAs1
  ResetTicks <- SafeTicks
  MaxResets = 1
PROPERTIES ImplementsMachine StoreHeld LoopsForever
