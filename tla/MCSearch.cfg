CONSTANTS
  Gadget <- MCGadget
  Close <- MCClose
  Mirror <- MCMirror
  Connect <- MCConnect
  Combine <- MCCombine
  Locations <- MCLocations
  Options <- MCOptions
  GadgetsPerTask = 1
  PriorWork <- MCPriorWork
  MaxFaults = 1
SPECIFICATION Spec
INVARIANTS
  TypeOK
  DriverConsistent
  DatabaseConsistent
  CompleteAtStop
  SoundlyFound
PROPERTIES
  SearchEnds
