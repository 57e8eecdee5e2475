SPECIFICATION Spec
CONSTANTS
  m1 = m1
  m2 = m2
  c1 = c1
  Messages = {m1, m2}
  Conversations = {c1}
  ConversationOf <- OneConversation
  SentAt <- InOrder
  NoMessage = NoMessage
  Isolates = {i1, i2}
  ChannelSize = 1
  WireSize = 1
INVARIANTS
  ConsumerKeepsTrying
