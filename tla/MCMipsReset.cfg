SPECIFICATION MipsSpec
CONSTANTS
  SINGLE_ADDRESS_SPACE = FALSE
  Programs   <- ExampleOnly
  Unmapped   <- JumpHome
  BusData    <- Power
  PowerOn    <- TiedToZero
  DontCare   <- OpenAs0
  ResetTicks <- AnyTick
  MaxResets  = 1
  RomOnBus   <- VgaRom
  RamSize    = 32
  VramSize   = 300
  TscModulus = 1
  Floating   <- NEG_ONE
  Blank      <- ZERO
  Simulations <- Synthesised
  Pushed     <- TwoPushes
  Switched   <- BenchDip
  MaxPresses = 0
PROPERTIES LedsFollowButtons
