SPECIFICATION Spec
CONSTANTS
  TimerMax = 2
  Channels = {c1, c2, c3}
  Periods = {1, 8, 65}
  Precisions = {3, 4}
  Pulses = {1, 4}
  SrcClk = 250
  Fraction = 16
  DivMax = 127
  BitWidth = 5
INVARIANTS
  Driven
  RefusedRightly
  ClosedIsSilent
