CONSTANTS
  Response = Response
  Status = Status
  Rule = Rule
  C200 = C200
  C500 = C500
  ZeroRecords = ZeroRecords
  NoCode = NoCode
  NoStatus = NoStatus
  NoResource = NoResource
  Names <- MCNames
  Codes <- MCCodes
  Success <- MCSuccess
  Texts <- MCTexts
  MaxDepth = 4
  MaxResources = 2
  MaxText = 2

SPECIFICATION Spec

INVARIANTS
  TypeOK
  DepthAgreesWithStack
  DeliveredResourcesSucceeded

PROPERTY
  ImplementsDocument

\* The function returns: a verdict is a final state.
CHECK_DEADLOCK FALSE
