CONSTANTS
  Calls = {c1, c2}
  Keys = {k1}
  Conversations = {v1}
  Texts = {t1}
  NoRequest = NoRequest
  NoRow = NoRow
  NoText = NoText
  NoId = NoId
SPECIFICATION FairSpec
PROPERTIES
  RetriedKeyCompletes
