SPECIFICATION FairSpec
CONSTANTS
  BusCap = 1
  Reqs = {r1, r2}
  MaxBody = 3
  Download = {r2}
INVARIANTS
  OneOwner
  AnsweredOnce
  BodyFits
  WholeBody
  Released
PROPERTIES
  Answered
CHECK_DEADLOCK FALSE
