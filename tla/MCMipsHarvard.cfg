SPECIFICATION MipsSpec
CONSTANTS
  SINGLE_ADDRESS_SPACE = FALSE
  Programs   <- ExampleOnly
  Unmapped   <- JumpHome
  BusData    <- Power
  PowerOn    <- Undefined
  DontCare   <- OpenAs0
  ResetTicks <- SafeTicks
  MaxResets  = 1
  RomOnBus   <- VgaRom
  RamSize    = 32
  VramSize   = 300
  TscModulus = 1
  Floating   <- NEG_ONE
  Blank      <- ZERO
  Simulations <- Synthesised
  Pushed     <- TwoPushes
  Switched   <- BenchDip
  MaxPresses = 1
INVARIANTS MipsTypeOK
PROPERTIES LedsFollowButtons PixelsDrawn
