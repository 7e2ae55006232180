SPECIFICATION MCSpec
CONSTANTS
  h_display  = 6
  h_front    = 1
  h_sync     = 2
  h_back     = 2
  v_display  = 4
  v_front    = 1
  v_sync     = 1
  v_back     = 1
  AllOnes    = 15
  ticks      = 2
  PIXEL_SIZE = 2
  Bytes      = {31, 225}
  MaxStores  = 2
INVARIANTS ShownIsStored
PROPERTIES ImplementsRaster PulseWidths PhasesWhole StoredIsSeen ClockGoesOn
