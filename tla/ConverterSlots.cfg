SPECIFICATION FairSpec
CONSTANTS
    Run <- MCRun
    MaxConcurrent = 1
    MaxFault = 3
INVARIANTS
  SlotsBound
PROPERTIES
  SlotsComeBack
CHECK_DEADLOCK FALSE
