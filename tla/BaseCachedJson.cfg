SPECIFICATION CacheSpec
CONSTANTS
  Names <- MCNames
  Data = {Empty, d1}
  Empty = Empty
  NodePaths <- MCExtPaths
  Files <- MCDevInfo
  MaxNodes = 5
INVARIANT SetIsSerialised
