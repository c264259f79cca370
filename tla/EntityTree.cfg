SPECIFICATION Spec
CONSTANTS
  Id <- MCIds
  Object <- MCObjects
  NoObject = 0
  NoId = NoId
  Assertion = Assertion
  Files <- MCFiles
  MaxRefusals = 2
  MaxFilters = 1
  MaxOptions = 2
INVARIANTS
  TreeMatchesFile
  CommentsFound
  DefinitionsResolve
  BasesResolve
  EventsNest
  AccessAgrees
  SeparatorsBetween
  WrittenOnce
