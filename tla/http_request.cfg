SPECIFICATION RSpec
CONSTANTS
  Fields = 3
  Word = 2
  NodeSize = 1
  Urls <- MCUrls
  FieldTexts <- MCFieldTexts
  PortNumbers = {8080}
  BlockSizes = {2, 9}
  ReqSize = 4
  StrSize = 1
  HashNodeSize = 2
  BucketsSize = 3
INVARIANTS
  ParsedIsReported Verdict PoolSound FieldsKept UserDataRestored
  UrlSplit
