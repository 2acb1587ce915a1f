SPECIFICATION FairSpec
CONSTANTS
  AutoKinds <- MCAutoKinds
  Commands <- MCCommands
  MaxFrames = 2
  MaxRequests = 3
  MaxAxes <- MCMaxAxes
  Depth = 1
CHECK_DEADLOCK FALSE
INVARIANTS TypeOK TornOnlyByOverlap NotOlderThanStamp LagsByGivenUp
PROPERTIES CallsReturn DataIsPublished DataIsShown
