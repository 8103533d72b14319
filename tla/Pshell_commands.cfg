SPECIFICATION Spec
CONSTANTS
  Scenes <- MCScenes
  MaxFaults = 1
INVARIANTS
  TypeOK
  CopiedIsCopied
  RmAllOrNothing
  ArchiveHoldsTree
  ExtractRestores
  RunsOnlyLoaded
  HandlesClosed
PROPERTIES
  CdGoesWhereAsked
  OnlyTheNamed
  SlipsAreKnown
  CommandsEnd
