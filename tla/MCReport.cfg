CONSTANTS
  Gadget = {1, 2, 3, 4, 5, 6, 7, 8, 9, 10, 11}
  Named = {1, 6, 7, 11}
  Source = {1}
  RightOrder <- MCRightOrder
  Makes <- MCMakes
  Done <- MCDone
  Deleting = {4, 5, 6, 9}
  Filled <- MCFilled
  Options <- MCOptions
  Late <- MCLate
  MaxFaults = 2
SPECIFICATION Spec
INVARIANTS
  TypeOK
  DerivationsCorrect
  OutcomeJustified
PROPERTIES
  ReportEnds
CHECK_DEADLOCK FALSE
