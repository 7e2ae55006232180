SPECIFICATION FairSpec
CONSTANTS
  SINGLE_ADDRESS_SPACE = FALSE
  Programs  <- AllPrograms
  Unmapped  <- NEG_ONE
  BusData   <- Answer
  PowerOn   <- Power
  DontCare  <- OpenAs0
  ResetTicks <- SafeTicks
  MaxResets = 1
INVARIANTS TypeOK BusPhase ZeroRegister
PROPERTIES ImplementsMachine StoreHeld LoopsForever
