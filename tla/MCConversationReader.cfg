SPECIFICATION Spec
CONSTANTS
  Messages <- Five
  History <- Ends
  MaxReadLimit = 2
INVARIANTS
  TypeOK
  PagesAreComplete
  ServedOnce
  EmptyMeansFetched
PROPERTIES
  ReadsInOrder
