SPECIFICATION Spec
CONSTANTS
  Segments <- MCSegments
  Urns <- MCUrns
  UserMiids <- MCUserMiids
  NumeralOf <- MCNumeralOf
  Mos = {mo1}
  NoMo = NoMo
  Trees = {tree1}
  Wrap = 2
  NoHandler = NoHandler
  NoMiid = NoMiid
  MaxInstances = 1
  ServerURIs <- MCServerURIs
  URLParse <- MCURLParse
  Uris <- MCUris
  Missing = Missing
  JCommands <- MCFewJCommands
  Packages <- MCPackages
  AlertTypes = {ClientInitiatedMgmt}
  MaxPackage = 2
  MaxSessions = 2
INVARIANTS
  TypeOK
  QueuesAreFifo
  AnsweredOnceInOrder
  OnlyHgetIsSilent
  AlertPackagedOnce
  CompletedLeavesNothing
PROPERTY ImplementsManagementSession
CHECK_DEADLOCK FALSE
