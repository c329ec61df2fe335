SPECIFICATION FairSpec
CONSTANTS
  Segments <- MCSegments
  Urns <- MCUrns
  UserMiids <- MCUserMiids
  NumeralOf <- MCNumeralOf
  Mos = {mo1}
  NoMo = NoMo
  Trees = {tree1}
  Wrap = 2
  NoHandler = NoHandler
  NoMiid = NoMiid
  MaxInstances = 1
  ServerURIs <- MCServerURIs
  URLParse <- MCURLParse
  Uris <- MCUris
  Missing = Missing
  JCommands <- MCJCommands
  Packages <- MCPackages
  AlertTypes = {ServerInitiatedMgmt, ClientInitiatedMgmt}
  MaxPackage = 1
  MaxSessions = 2
PROPERTY SessionReturns
CHECK_DEADLOCK FALSE
