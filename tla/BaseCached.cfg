SPECIFICATION CacheSpec
CONSTANTS
  Names <- MCNames
  Data = {Empty, d1}
  Empty = Empty
  NodePaths <- MCNodePaths
  Files <- MCFiles
  MaxNodes = 5
INVARIANT CacheTypeOK
PROPERTIES NoDoubletAdded ImplementsPathStore
