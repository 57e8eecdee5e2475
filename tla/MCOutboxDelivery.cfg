CONSTANTS
  Calls = {c1, c2, c3}
  Keys = {k1}
  Conversations = {v1}
  Texts = {t1, t2}
  NoRequest = NoRequest
  NoRow = NoRow
  NoText = NoText
  NoId = NoId
SPECIFICATION Spec
SYMMETRY Symmetry
INVARIANTS
  TypeOK
  CompletedIsVisible
  MessagesAreVouchedFor
  CallsKnowTheirKey
  SettlementIsReal
  OneTextUnlessReleased
  HoldersOwnTheirKey
PROPERTIES
  FreshReservationIsExclusive
  KeepsPromise
