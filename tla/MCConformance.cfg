SPECIFICATION Spec
CONSTANTS
  DontCare     <- OpenAs1
  Instructions <- InstructionsConforming
  Situations   <- SituationsAtBorders
INVARIANTS ComputesRight AccessesRight ContinuesRight
CHECK_DEADLOCK FALSE
