SPECIFICATION PackageSpec
CONSTANTS
  m1 = m1
  m2 = m2
  Segments <- MCSegments
  Mos = {m1, m2}
  NoMo = NoMo
  Trees <- MCTrees
  Wrap = 3
  NumeralOf <- MCNumeralOf
  Urns = {"dmacc", "fumo"}
  NoHandler = NoHandler
  NoMiid = NoMiid
  UserMiids = {"0"}
  MaxInstances = 2
  Names <- MCNames
  Data = {"", "v1"}
  Empty = ""
  Files <- MCFiles
  UrnName <- MCUrnName
  StringOrder <- MCOrder
  ObjectFile <- MCObjectFile
  Refused <- MCRefused
  NodePaths <- MCNodePaths
  MaxNodes = 5
  Reentrant = FALSE
INVARIANT DumpedNodesExist
