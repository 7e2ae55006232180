SPECIFICATION MipsSpec
CONSTANTS
  SINGLE_ADDRESS_SPACE = FALSE
  Programs   <- StoreLoad
  Unmapped   <- JumpHome
  BusData    <- Power
  PowerOn    <- Undefined
  DontCare   <- OpenAs0
  ResetTicks <- NoTick
  MaxResets  = 0
  RomOnBus   <- VgaRom
  RamSize    = 32
  VramSize   = 300
  TscModulus = 1
  Floating   <- NEG_ONE
  Blank      <- ZERO
  Simulations <- Synthesised
  Pushed     <- OnePush
  Switched   <- BenchDip
  MaxPresses = 0
PROPERTIES RamReadsBack
