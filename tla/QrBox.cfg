\* Every generation, calm and hurried.
SPECIFICATION FairSpec
CONSTANTS
  Replies <- MCReplies
  Whole   <- MCWhole
INVARIANT TypeOK
INVARIANT SolenoidObeys
INVARIANT SeenMeansOpened
INVARIANT LinesAreCut
PROPERTY OpensAreGranted
PROPERTY GrantedOpens
PROPERTY DoorReported
CHECK_DEADLOCK FALSE
