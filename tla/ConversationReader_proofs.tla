----------------------- MODULE ConversationReader_proofs -----------------------
(***************************************************************************)
(* Proofs about ConversationReader, for any number of messages and any     *)
(* limit: what a page is, and what the pages of a walk add up to.          *)
(***************************************************************************)
EXTENDS ConversationReader, FiniteSetTheorems, TLAPS

USE ReaderAssumption

\* A reader that has no page yet, or only an empty one, has nothing and is owed
\* nothing.
NothingRead ==
  pc \in {"new", "empty", "fetch", "again"} =>
    cursor = NoCursor /\ collected = {} /\ items = 0 /\ owed = {}

\* A cursor separates what was collected from what is still to come.
CursorSeparates ==
  pc = "more" =>
    /\ collected # {}
    /\ \A m \in collected : m <= cursor
    /\ \A m \in owed : m <= cursor => m \in collected

HydratedMeansFetched == hydrated => History \subseteq rows

\* The invariant of a reader.
IInv ==
  /\ TypeOK
  /\ NothingRead
  /\ CursorSeparates
  /\ owed \subseteq rows
  /\ PagesAreComplete
  /\ ServedOnce

-----------------------------------------------------------------------------
(* One page *)

\* A query returns the first limit + 1 rows behind the cursor, without a gap.
LEMMA QueryContents ==
  ASSUME rows \subseteq Messages,
         NEW c \in Int, NEW limit \in Limits,
         NEW found \in SUBSET rows, D1Query(found, c, limit)
  PROVE  /\ found \subseteq Beyond(c)
         /\ \A last \in found : \A m \in Beyond(c) : m <= last => m \in found
         /\ IsFirst(found, Beyond(c), limit + 1)
<1>1. IsFirst(found, Beyond(c), limit + 1)
  BY DEF D1Query
<1>2. found \subseteq Beyond(c)
  BY <1>1 DEF IsFirst
<1>3. ASSUME NEW last \in found, NEW m \in Beyond(c), m <= last
      PROVE  m \in found
  <2>1. last \in Int /\ m \in Int
    BY ReaderAssumption DEF Beyond
  <2> QED BY <1>1, <1>3, <2>1 DEF IsFirst
<1> QED BY <1>1, <1>2, <1>3

\* A page holds the rows behind the cursor from the first on, without a gap. With a
\* cursor something lies beyond it; without one it holds all there is.
LEMMA PageContents ==
  ASSUME rows \subseteq Messages,
         NEW c \in Int, NEW limit \in Limits,
         NEW found \in SUBSET rows, NEW page \in SUBSET found,
         D1Query(found, c, limit), IsFirst(page, found, limit)
  PROVE  /\ page \subseteq Beyond(c)
         /\ IsFiniteSet(page)
         /\ Cardinality(page) \in Nat
         /\ \A last \in page : \A m \in Beyond(c) : m <= last => m \in page
         /\ HasNext(found, page, limit) =>
              page # {} /\ \E m \in Beyond(c) : m \notin page
         /\ ~HasNext(found, page, limit) => page = Beyond(c)
<1>0. limit \in Nat /\ limit >= 1
  BY DEF Limits
<1>1. /\ found \subseteq Beyond(c)
      /\ \A last \in found : \A m \in Beyond(c) : m <= last => m \in found
      /\ IsFirst(found, Beyond(c), limit + 1)
  BY QueryContents
<1>2. Beyond(c) \subseteq Nat
  BY ReaderAssumption DEF Beyond
<1>3. IsFiniteSet(Messages)
  BY ReaderAssumption
<1>4. IsFiniteSet(found) /\ Cardinality(found) \in Nat
  BY <1>3, FS_Subset, FS_CardinalityType
<1>5. /\ IsFiniteSet(page) /\ Cardinality(page) \in Nat
      /\ Cardinality(page) <= Cardinality(found)
      /\ Cardinality(page) = Cardinality(found) => page = found
  BY <1>4, FS_Subset, FS_CardinalityType
<1>6. ASSUME NEW last \in page, NEW m \in Beyond(c), m <= last
      PROVE  m \in page
  <2>1. m \in found
    BY <1>1, <1>6
  <2>2. QED
    BY <1>1, <1>2, <1>6, <2>1 DEF IsFirst
<1>7. ASSUME HasNext(found, page, limit)
      PROVE  page # {} /\ \E m \in Beyond(c) : m \notin page
  <2>1. Cardinality(found) > limit
    BY <1>7 DEF HasNext
  <2>2. Cardinality(page) = limit
    BY <1>0, <1>4, <2>1 DEF IsFirst
  <2>3. page # {}
    BY <1>0, <2>2, FS_EmptySet
  <2>4. page # found
    BY <1>0, <1>4, <2>1, <2>2
  <2>5. QED
    BY <1>1, <2>3, <2>4
<1>8. ~HasNext(found, page, limit) => page = Beyond(c)
  <2>1. ~HasNext(found, page, limit) => found = Beyond(c)
    BY <1>0, <1>1, <1>4 DEF IsFirst, HasNext
  <2>2. ~HasNext(found, page, limit) => page = found
    BY <1>0, <1>4, <1>5 DEF IsFirst, HasNext
  <2>3. QED
    BY <2>1, <2>2
<1>9. QED
  BY <1>1, <1>5, <1>6, <1>7, <1>8

\* Taking the page behind c carries a reader forward that has everything up to c
\* of the rows O.
LEMMA PageStep ==
  ASSUME TypeOK, ServedOnce,
         NEW c \in Messages \union {NoCursor},
         NEW limit \in Limits, NEW stop \in {"empty", "done"},
         TakePage(c, limit, stop),
         \A m \in collected : m <= c,
         NEW O \in SUBSET rows,
         \A m \in O : m <= c => m \in collected
  PROVE  /\ collected' \subseteq Messages
         /\ items' \in Nat
         /\ ServedOnce'
         /\ pc' \in {"more", "empty", "done"}
         /\ pc' = "more" =>
              /\ cursor' \in Messages
              /\ collected' # {}
              /\ \A m \in collected' : m <= cursor'
              /\ \A m \in O : m <= cursor' => m \in collected'
         /\ pc' # "more" => cursor' = cursor
         /\ pc' # "more" => O \subseteq collected'
         /\ pc' = "empty" => collected' = collected /\ items' = items
<1>0. rows \subseteq Messages /\ collected \subseteq Messages /\ c \in Int /\ Messages \subseteq Nat
  BY ReaderAssumption DEF TypeOK, NoCursor
<1>1. PICK found \in SUBSET rows, page \in SUBSET rows :
        /\ page \in SUBSET found
        /\ D1Query(found, c, limit)
        /\ IsFirst(page, found, limit)
        /\ collected' = collected \union page
        /\ items' = items + Cardinality(page)
        /\ \/ /\ HasNext(found, page, limit)
              /\ cursor' \in page
              /\ \A m \in page : m <= cursor'
              /\ pc' = "more"
           \/ /\ ~HasNext(found, page, limit)
              /\ cursor' = cursor
              /\ pc' = IF page = {} THEN stop ELSE "done"
  BY DEF TakePage
<1>2. /\ page \subseteq Beyond(c)
      /\ IsFiniteSet(page)
      /\ Cardinality(page) \in Nat
      /\ \A last \in page : \A m \in Beyond(c) : m <= last => m \in page
      /\ HasNext(found, page, limit) => page # {}
      /\ ~HasNext(found, page, limit) => page = Beyond(c)
  BY <1>0, <1>1, PageContents
<1>3. collected \intersect page = {}
  BY <1>0, <1>2 DEF Beyond
<1>4. collected' \subseteq Messages
  BY <1>0, <1>1
<1>5. items' \in Nat /\ ServedOnce'
  <2>1. IsFiniteSet(collected)
    BY <1>0, FS_Subset, ReaderAssumption
  <2>2. Cardinality(collected \union page) = Cardinality(collected) + Cardinality(page)
    <3>1. Cardinality(collected \union page) =
            Cardinality(collected) + Cardinality(page) - Cardinality(collected \intersect page)
      BY <1>2, <2>1, FS_Union
    <3>2. Cardinality(collected) \in Nat
      BY <2>1, FS_CardinalityType
    <3>3. Cardinality(collected \intersect page) = 0
      BY <1>3, FS_EmptySet
    <3>4. QED
      BY <1>2, <3>1, <3>2, <3>3
  <2>3. QED
    BY <1>1, <1>2, <2>2 DEF ServedOnce, TypeOK
<1>6. ASSUME NEW m \in O, m \notin collected
      PROVE  m \in Beyond(c)
  BY <1>0, <1>6 DEF Beyond
<1>7. CASE HasNext(found, page, limit)
  <2>1. cursor' \in page /\ pc' = "more" /\ \A m \in page : m <= cursor'
    BY <1>1, <1>7
  <2>2. cursor' \in Messages /\ cursor' > c
    BY <1>0, <1>2, <2>1 DEF Beyond
  <2>3. \A m \in collected' : m <= cursor'
    BY <1>0, <1>1, <2>1, <2>2
  <2>4. \A m \in O : m <= cursor' => m \in collected'
    BY <1>1, <1>2, <1>6, <2>1
  <2>5. QED
    BY <1>1, <1>4, <1>5, <2>1, <2>2, <2>3, <2>4
<1>8. CASE ~HasNext(found, page, limit)
  <2>1. cursor' = cursor /\ pc' = IF page = {} THEN stop ELSE "done"
    BY <1>1, <1>8
  <2>2. O \subseteq collected'
    BY <1>1, <1>2, <1>6, <1>8
  <2>3. pc' = "empty" => page = {}
    BY <2>1
  <2>4. pc' = "empty" => collected' = collected /\ items' = items
    <3>1. page = {} => Cardinality(page) = 0
      BY FS_EmptySet
    <3>2. items \in Nat
      BY DEF TypeOK
    <3>3. QED
      BY <1>1, <2>3, <3>1, <3>2
  <2>5. QED
    BY <1>4, <1>5, <2>1, <2>2, <2>4
<1>9. QED
  BY <1>7, <1>8

-----------------------------------------------------------------------------
(* The invariant *)

\* What a page leaves alone.
Elsewhere == UNCHANGED <<rows, hydrated, tool>>

\* The first page of a walk: the reader has nothing and is owed what is stored.
LEMMA FirstPageStep ==
  ASSUME IInv, collected = {},
         NEW limit \in Limits, NEW stop \in {"empty", "done"},
         TakePage(NoCursor, limit, stop), cursor = NoCursor, items = 0,
         owed' = rows, Elsewhere
  PROVE  IInv'
<1>1. TypeOK /\ ServedOnce /\ rows \subseteq Messages /\ Messages \subseteq Nat
  BY ReaderAssumption DEF IInv, TypeOK
<1>2. \A m \in rows : m <= NoCursor => m \in collected
  BY <1>1 DEF NoCursor
<1>3. /\ collected' \subseteq Messages
      /\ items' \in Nat
      /\ ServedOnce'
      /\ pc' \in {"more", "empty", "done"}
      /\ pc' = "more" =>
           /\ cursor' \in Messages
           /\ collected' # {}
           /\ \A m \in collected' : m <= cursor'
           /\ \A m \in rows : m <= cursor' => m \in collected'
      /\ pc' # "more" => cursor' = cursor /\ rows \subseteq collected'
      /\ pc' = "empty" => collected' = collected /\ items' = items
  <2>1. \A m \in collected : m <= NoCursor
    OBVIOUS
  <2>2. NoCursor \in Messages \union {NoCursor} /\ rows \in SUBSET rows
    OBVIOUS
  <2>3. /\ collected' \subseteq Messages
        /\ items' \in Nat
        /\ ServedOnce'
        /\ pc' \in {"more", "empty", "done"}
        /\ pc' = "more" =>
             /\ cursor' \in Messages
             /\ collected' # {}
             /\ \A m \in collected' : m <= cursor'
             /\ \A m \in rows : m <= cursor' => m \in collected'
        /\ pc' # "more" => cursor' = cursor
        /\ pc' # "more" => rows \subseteq collected'
        /\ pc' = "empty" => collected' = collected /\ items' = items
    BY <1>1, <1>2, <2>1, <2>2, PageStep
  <2> QED BY <2>3
<1>4. TypeOK'
  BY <1>1, <1>3 DEF TypeOK, Elsewhere, NoCursor
<1>5. NothingRead'
  BY <1>3 DEF NothingRead
<1>6. CursorSeparates'
  BY <1>3 DEF CursorSeparates
<1>7. (owed \subseteq rows)' /\ PagesAreComplete'
  BY <1>3 DEF Elsewhere, PagesAreComplete
<1>8. QED
  BY <1>3, <1>4, <1>5, <1>6, <1>7 DEF IInv

\* A further page: what it adds joins on to what was collected.
LEMMA NextPageStep ==
  ASSUME IInv, ReadNext
  PROVE  IInv'
<1>1. PICK limit \in Limits : TakePage(cursor, limit, "done")
  BY DEF ReadNext
<1>2. pc = "more" /\ owed' = owed /\ Elsewhere
  BY DEF ReadNext, Elsewhere
<1>3. TypeOK /\ ServedOnce /\ owed \in SUBSET rows /\ cursor \in Messages \union {NoCursor}
  BY DEF IInv, TypeOK
<1>4. /\ \A m \in collected : m <= cursor
      /\ \A m \in owed : m <= cursor => m \in collected
  BY <1>2 DEF IInv, CursorSeparates
<1>5. /\ collected' \subseteq Messages
      /\ items' \in Nat
      /\ ServedOnce'
      /\ pc' \in {"more", "empty", "done"}
      /\ pc' = "more" =>
           /\ cursor' \in Messages
           /\ collected' # {}
           /\ \A m \in collected' : m <= cursor'
           /\ \A m \in owed : m <= cursor' => m \in collected'
      /\ pc' # "more" => cursor' = cursor
      /\ pc' # "more" => owed \subseteq collected'
  BY <1>1, <1>3, <1>4, PageStep
<1>6. pc' # "empty"
  BY <1>1 DEF TakePage
<1>7. TypeOK'
  BY <1>2, <1>3, <1>5, ReaderAssumption DEF TypeOK, Elsewhere, NoCursor
<1>8. NothingRead'
  BY <1>5, <1>6 DEF NothingRead
<1>9. CursorSeparates'
  BY <1>2, <1>5 DEF CursorSeparates
<1>10. (owed \subseteq rows)' /\ PagesAreComplete'
  BY <1>2, <1>3, <1>5 DEF Elsewhere, PagesAreComplete
<1>11. QED
  BY <1>5, <1>7, <1>8, <1>9, <1>10 DEF IInv

\* The steps that take no page only store messages, or move the reader between the
\* places where it has nothing.
LEMMA PagelessStep ==
  ASSUME IInv, rows \subseteq rows', rows' \subseteq Messages, hydrated' \in BOOLEAN,
         hydrated => hydrated', pc' = "again" => hydrated' \/ pc = "again", tool' = tool,
         UNCHANGED <<cursor, collected, items, owed>>,
         \/ pc' = pc
         \/ pc = "empty" /\ pc' \in {"done", "fetch"}
         \/ pc = "fetch" /\ pc' \in {"new", "again"}
  PROVE  IInv'
<1>1. TypeOK'
  BY DEF IInv, TypeOK
<1>2. NothingRead' /\ CursorSeparates'
  BY DEF IInv, NothingRead, CursorSeparates
<1>3. (owed \subseteq rows)' /\ PagesAreComplete' /\ ServedOnce'
  BY DEF IInv, NothingRead, PagesAreComplete, ServedOnce
<1>4. QED
  BY <1>1, <1>2, <1>3 DEF IInv

\* Every step of the reader, and what others do to the store, preserves the invariant.
LEMMA InvariantStep ==
  ASSUME IInv, [Next]_vars
  PROVE  IInv'
<1>0. rows \subseteq Messages /\ History \subseteq Messages /\ hydrated \in BOOLEAN
  BY ReaderAssumption DEF IInv, TypeOK
<1>1. CASE ReadFirst
  <2>1. PICK limit \in Limits :
          TakePage(NoCursor, limit, IF tool = "get" THEN "empty" ELSE "done")
    BY <1>1 DEF ReadFirst
  <2>2. collected = {} /\ cursor = NoCursor /\ items = 0
    BY <1>1 DEF ReadFirst, IInv, NothingRead
  <2>3. owed' = rows /\ Elsewhere
    BY <1>1 DEF ReadFirst, Elsewhere
  <2>4. (IF tool = "get" THEN "empty" ELSE "done") \in {"empty", "done"}
    OBVIOUS
  <2>5. QED
    BY <2>1, <2>2, <2>3, <2>4, FirstPageStep
<1>2. CASE ReadAgain
  <2>1. PICK limit \in Limits : TakePage(NoCursor, limit, "done")
    BY <1>2 DEF ReadAgain
  <2>2. collected = {} /\ cursor = NoCursor /\ items = 0
    BY <1>2 DEF ReadAgain, IInv, NothingRead
  <2>3. owed' = rows /\ Elsewhere
    BY <1>2 DEF ReadAgain, Elsewhere
  <2>4. QED
    BY <2>1, <2>2, <2>3, FirstPageStep
<1>3. CASE ReadNext
  BY <1>3, NextPageStep
<1>4. CASE CheckHydrated
  BY <1>0, <1>4, PagelessStep DEF CheckHydrated
<1>5. CASE FetchHistory
  BY <1>0, <1>5, PagelessStep DEF FetchHistory, PersistMessages
<1>6. CASE FetchFails
  BY <1>0, <1>6, PagelessStep DEF FetchFails
<1>7. CASE ReadAnew
  <2>1. TypeOK'
    BY <1>7 DEF ReadAnew, IInv, TypeOK
  <2>2. NothingRead' /\ CursorSeparates' /\ PagesAreComplete' /\ (owed \subseteq rows)'
    BY <1>7 DEF ReadAnew, NothingRead, CursorSeparates, PagesAreComplete
  <2>3. ServedOnce'
    BY <1>7, FS_EmptySet DEF ReadAnew, ServedOnce
  <2>4. QED
    BY <2>1, <2>2, <2>3 DEF IInv
<1>8. CASE \E m \in Messages : Insert(m)
  BY <1>0, <1>8, PagelessStep DEF Insert, walk
<1>9. CASE HydratedElsewhere
  BY <1>0, <1>9, PagelessStep DEF HydratedElsewhere, PersistMessages, walk
<1>10. CASE UNCHANGED vars
  BY <1>0, <1>10, PagelessStep DEF vars, walk
<1>11. QED
  BY <1>1, <1>2, <1>3, <1>4, <1>5, <1>6, <1>7, <1>8, <1>9, <1>10 DEF Next

\* The invariant of a reader (getConversation and search of messaging-service.ts).
THEOREM Invariant == Spec => []IInv
<1>1. Init => IInv
  <2>1. Init => TypeOK
    <3>1. Init => hydrated \in BOOLEAN
      BY Zenon DEF Init
    <3> QED BY <3>1 DEF Init, TypeOK
  <2>2. Init => ServedOnce
    BY FS_EmptySet DEF Init, ServedOnce
  <2>3. Init => NothingRead /\ CursorSeparates /\ PagesAreComplete /\ owed \subseteq rows
    BY DEF Init, NothingRead, CursorSeparates, PagesAreComplete
  <2> QED BY <2>1, <2>2, <2>3 DEF IInv
<1>2. IInv /\ [Next]_vars => IInv'
  BY InvariantStep
<1>3. QED
  BY <1>1, <1>2, PTL DEF Spec

\* Every variable of the reader keeps its type, and a cursor is always one it was
\* given (getConversation and search of messaging-service.ts).
THEOREM TypeCorrect == Spec => []TypeOK
BY Invariant, PTL DEF IInv

\* Following the cursors to the end yields every message stored when the first page
\* was read (get and search of d1-repository.ts).
THEOREM Complete == Spec => []PagesAreComplete
BY Invariant, PTL DEF IInv

\* No walk is served a message twice (get and search of d1-repository.ts).
THEOREM NoRepeats == Spec => []ServedOnce
BY Invariant, PTL DEF IInv

-----------------------------------------------------------------------------
(* Empty conversations *)

\* The marker and the history come together, and an empty page is reported only with both.
LEMMA FetchedStep ==
  ASSUME IInv, HydratedMeansFetched, EmptyMeansFetched, [Next]_vars
  PROVE  HydratedMeansFetched' /\ EmptyMeansFetched'
<1> USE DEF HydratedMeansFetched, EmptyMeansFetched
<1>1. CASE ReadFirst
  <2>1. PICK limit \in Limits :
          TakePage(NoCursor, limit, IF tool = "get" THEN "empty" ELSE "done")
    BY <1>1 DEF ReadFirst
  <2>2. UNCHANGED <<rows, hydrated, tool>>
    BY <1>1 DEF ReadFirst
  <2>3. (pc' = "done" /\ tool = "get") => collected' # {}
    BY <2>1 DEF TakePage, HasNext
  <2>4. QED
    BY <2>2, <2>3
<1>2. CASE ReadAgain
  <2>1. hydrated /\ UNCHANGED <<rows, hydrated>>
    BY <1>2 DEF ReadAgain, IInv, TypeOK
  <2>2. QED
    BY <2>1
<1>3. CASE ReadNext
  <2>1. PICK limit \in Limits : TakePage(cursor, limit, "done")
    BY <1>3 DEF ReadNext
  <2>2. UNCHANGED <<rows, hydrated, tool>> /\ collected # {}
    BY <1>3 DEF ReadNext, IInv, CursorSeparates
  <2>3. collected' # {}
    BY <2>1, <2>2 DEF TakePage
  <2>4. QED
    BY <2>2, <2>3
<1>4. CASE CheckHydrated
  BY <1>4 DEF CheckHydrated
<1>5. CASE FetchHistory
  BY <1>5 DEF FetchHistory, PersistMessages
<1>6. CASE FetchFails
  BY <1>6 DEF FetchFails
<1>7. CASE ReadAnew
  BY <1>7 DEF ReadAnew
<1>8. CASE \E m \in Messages : Insert(m)
  BY <1>8 DEF Insert, walk
<1>9. CASE HydratedElsewhere
  BY <1>9 DEF HydratedElsewhere, PersistMessages, walk
<1>10. CASE UNCHANGED vars
  BY <1>10 DEF vars, walk
<1>11. QED
  BY <1>1, <1>2, <1>3, <1>4, <1>5, <1>6, <1>7, <1>8, <1>9, <1>10 DEF Next

\* A conversation is reported as empty only once its history was fetched and stored
\* (getConversation of messaging-service.ts, persistMessages of d1-repository.ts).
THEOREM EmptyIsFetched == Spec => []EmptyMeansFetched
<1>1. Init => HydratedMeansFetched /\ EmptyMeansFetched
  BY DEF Init, HydratedMeansFetched, EmptyMeansFetched
<1>2. IInv /\ HydratedMeansFetched /\ EmptyMeansFetched /\ [Next]_vars
        => HydratedMeansFetched' /\ EmptyMeansFetched'
  BY FetchedStep
<1>3. QED
  BY <1>1, <1>2, Invariant, PTL DEF Spec

-----------------------------------------------------------------------------
(* A walk is one scan in order *)

\* A page with a nextCursor is a page of the scan, one without is its last.
LEMMA ScanPage ==
  ASSUME IInv, pc \notin {"empty", "done"},
         NEW limit \in Limits, NEW stop \in {"empty", "done"},
         TakePage(cursor, limit, stop), UNCHANGED rows
  PROVE  Scan!Page \/ Scan!LastPage
<1>0. /\ rows \subseteq Messages /\ Messages \subseteq Nat
      /\ cursor \in Messages \union {NoCursor} /\ cursor \in Int
  BY ReaderAssumption DEF IInv, TypeOK, NoCursor
<1>1. PICK found \in SUBSET rows, page \in SUBSET rows :
        /\ page \in SUBSET found
        /\ D1Query(found, cursor, limit)
        /\ IsFirst(page, found, limit)
        /\ collected' = collected \union page
        /\ \/ /\ HasNext(found, page, limit)
              /\ cursor' \in page
              /\ \A m \in page : m <= cursor'
              /\ pc' = "more"
           \/ /\ ~HasNext(found, page, limit)
              /\ cursor' = cursor
              /\ pc' = IF page = {} THEN stop ELSE "done"
  BY DEF TakePage
<1>2. /\ page \subseteq Beyond(cursor)
      /\ \A last \in page : \A m \in Beyond(cursor) : m <= last => m \in page
      /\ HasNext(found, page, limit) => \E m \in Beyond(cursor) : m \notin page
      /\ ~HasNext(found, page, limit) => page = Beyond(cursor)
  BY <1>0, <1>1, PageContents
<1>3. CASE HasNext(found, page, limit)
  <2>1. cursor' \in page /\ pc' = "more" /\ \A m \in page : m <= cursor'
    BY <1>1, <1>3
  <2>2. cursor' \in rows /\ cursor < cursor'
    BY <1>2, <2>1 DEF Beyond
  <2>3. page = {m \in rows : cursor < m /\ m <= cursor'}
    BY <1>2, <2>1 DEF Beyond
  <2>4. \E m \in rows : cursor' < m
    <3>1. PICK m \in Beyond(cursor) : m \notin page
      BY <1>2, <1>3
    <3>2. m \in rows /\ ~(m <= cursor') /\ m \in Int /\ cursor' \in Int
      BY <1>0, <1>2, <2>1, <2>2, <3>1 DEF Beyond
    <3> QED BY <3>2
  <2>5. Scan!Page
    BY <1>1, <2>1, <2>2, <2>3, <2>4 DEF Scan!Page
  <2> QED BY <2>5
<1>4. CASE ~HasNext(found, page, limit)
  <2>1. cursor' = cursor /\ pc' \in {"empty", "done"}
    BY <1>1, <1>4
  <2>2. page = {m \in rows : cursor < m}
    BY <1>2, <1>4 DEF Beyond
  <2>3. Scan!LastPage
    BY <1>1, <2>1, <2>2 DEF Scan!LastPage
  <2> QED BY <2>3
<1> QED BY <1>3, <1>4

\* What else there is: messages that arrive, the history among them; a reader that goes
\* from an empty page to fetch the history, or a client that begins again; and steps a
\* scan does not see.
LEMMA ScanStep ==
  ASSUME IInv, IInv', [Next]_vars
  PROVE  [Scan!Next]_(Scan!vars)
<1>0. /\ rows \in SUBSET Messages /\ rows' \in SUBSET Messages
      /\ pc \in {"new", "empty", "fetch", "again"} => cursor = NoCursor /\ collected = {}
      /\ Scan!Beginning = NoCursor
  BY DEF IInv, TypeOK, NothingRead, NoCursor, Scan!Beginning
<1> USE DEF Scan!Next, Scan!vars
<1>1. CASE ReadFirst
  <2>1. PICK limit \in Limits :
          TakePage(NoCursor, limit, IF tool = "get" THEN "empty" ELSE "done")
    BY <1>1 DEF ReadFirst
  <2>2. (IF tool = "get" THEN "empty" ELSE "done") \in {"empty", "done"}
    OBVIOUS
  <2>3. pc = "new" /\ UNCHANGED rows /\ cursor = NoCursor
    BY <1>0, <1>1 DEF ReadFirst
  <2> QED BY <2>1, <2>2, <2>3, ScanPage
<1>2. CASE ReadAgain
  <2>1. PICK limit \in Limits : TakePage(NoCursor, limit, "done")
    BY <1>2 DEF ReadAgain
  <2>2. pc = "again" /\ UNCHANGED rows /\ cursor = NoCursor
    BY <1>0, <1>2 DEF ReadAgain
  <2> QED BY <2>1, <2>2, ScanPage
<1>3. CASE ReadNext
  <2>1. PICK limit \in Limits : TakePage(cursor, limit, "done")
    BY <1>3 DEF ReadNext
  <2>2. pc = "more" /\ UNCHANGED rows
    BY <1>3 DEF ReadNext
  <2> QED BY <2>1, <2>2, ScanPage
<1>4. CASE CheckHydrated
  <2>1. CASE pc' = "done"
    BY <1>4, <2>1 DEF CheckHydrated
  <2>2. CASE pc' = "fetch"
    BY <1>0, <1>4, <2>2 DEF CheckHydrated, Scan!Rescan
  <2> QED BY <1>4, <2>1, <2>2 DEF CheckHydrated
<1>5. CASE FetchHistory
  BY <1>0, <1>5 DEF FetchHistory, PersistMessages, Scan!Grow
<1>6. CASE FetchFails
  BY <1>6 DEF FetchFails
<1>7. CASE ReadAnew
  BY <1>0, <1>7 DEF ReadAnew, Scan!Rescan
<1>8. CASE \E m \in Messages : Insert(m)
  BY <1>0, <1>8 DEF Insert, walk, Scan!Grow
<1>9. CASE HydratedElsewhere
  BY <1>0, <1>9 DEF HydratedElsewhere, PersistMessages, walk, Scan!Grow
<1>10. CASE UNCHANGED vars
  BY <1>10 DEF vars, walk
<1>11. QED
  BY <1>1, <1>2, <1>3, <1>4, <1>5, <1>6, <1>7, <1>8, <1>9, <1>10 DEF Next

\* Reading from the D1 repository page by page implements OrderedScan: get and search of
\* d1-repository.ts, getConversation and search of messaging-service.ts.
THEOREM Refinement == Spec => ReadsInOrder
<1>1. Init => Scan!Init
  BY DEF Init, Scan!Init, Scan!Beginning, NoCursor
<1>2. IInv /\ IInv' /\ [Next]_vars => [Scan!Next]_(Scan!vars)
  BY ScanStep
<1>3. QED
  BY <1>1, <1>2, Invariant, PTL DEF Spec, ReadsInOrder, Scan!Spec

=============================================================================
