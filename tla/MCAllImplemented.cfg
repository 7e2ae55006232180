SPECIFICATION SurveySpec
CONSTANTS
  DontCare     <- OpenAs1
  Instructions <- InstructionsSurveyed
  Situations   <- SituationsAtBorders
INVARIANT AllImplemented
CHECK_DEADLOCK FALSE
