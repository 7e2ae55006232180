SPECIFICATION MipsSpec
CONSTANTS
  SINGLE_ADDRESS_SPACE = TRUE
  Programs   <- BusRoms
  Unmapped   <- JumpHome
  BusData    <- BusWords
  PowerOn    <- Power
  DontCare   <- OpenAs0
  ResetTicks <- SafeTicks
  MaxResets  = 1
  RomOnBus   <- VgaRom
  RamSize    = 32
  VramSize   = 300
  TscModulus = 1
  Floating   <- NEG_ONE
  Blank      <- ZERO
  Simulations <- BothWays
  Pushed     <- OnePush
  Switched   <- BenchDip
  MaxPresses = 0
INVARIANTS FetchesAnswered
PROPERTIES TestbenchPasses LoopingWorks OnlyFirstInstructionLost StoresInTheirBlock
