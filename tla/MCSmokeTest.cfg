CONSTANTS
  a = a
  b = b
  Unknown = Unknown
  NoCall = NoCall
  Flagged = Flagged
  Codes <- MCCodes
  Ids <- MCIds
  Calls <- MCCalls
  Payload <- MCPayload
  Window = 7
  Vocabulary <- MCVocabulary
  MaxTokens = 4
  MaxRequests = 2

SPECIFICATION Spec

CHECK_DEADLOCK FALSE

INVARIANTS
  TypeOK
  SchemaIsRevision
  ScriptsExecute
  CodeFindsItsSchema
  RenderedAsMarked
  GroundedAreCited
  CitationsResolve
  PaneShowsChoice

PROPERTIES
  DeployEnds
  SourceSettles
