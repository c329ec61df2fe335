SPECIFICATION ReadSpec
CONSTANTS
  Names <- MCNames
  Data = {"", "v1", "v2"}
  Empty = ""
  Files <- MCFiles
  UrnNames = {"Ext", "throws"}
  URLs <- MCURLs
  PathStrings <- MCPathStrings
  MaxTokens = 6
INVARIANTS
  ParserTypeOK
  SameLeaves
  AskedForIsThere
  OnlyPortTailIsLost
  GoodURLsParse
  SlashMakesNoDifference
CHECK_DEADLOCK FALSE
