-------------------------- MODULE ConversationReader --------------------------
(***************************************************************************)
(* Reading a conversation, or the results of a search, page by page while  *)
(* messages keep arriving (getConversation and search of                   *)
(* messaging-service.ts, get and search of d1-repository.ts). The client   *)
(* repeats the call with the nextCursor of the page before until a page    *)
(* has none. The first page of a conversation that looks empty has its     *)
(* history fetched from the provider, once.                                *)
(*                                                                         *)
(* A message is its place in the order (sent_at, id), which a cursor names *)
(* too: encoding and decoding a cursor gives back the same place.          *)
(***************************************************************************)
EXTENDS Integers, FiniteSets

CONSTANTS Messages,      \* what the conversation, or the search, can ever hold
          History,       \* what the provider returns for the conversation
          MaxReadLimit   \* MAX_READ_LIMIT, 100

ASSUME ReaderAssumption ==
  /\ Messages \subseteq Nat /\ IsFiniteSet(Messages)
  /\ History \subseteq Messages
  /\ MaxReadLimit \in Nat \ {0}

VARIABLES rows,       \* the messages stored
          hydrated,   \* isConversationHydrated
          tool,       \* which of the two the client calls
          pc,         \* where the reader is
          cursor,     \* the nextCursor it holds
          collected,  \* the messages of its pages so far
          items,      \* history: how many items those pages had
          owed        \* history: the rows its first page was read from

walk == <<pc, cursor, collected, items, owed>>
vars == <<rows, hydrated, tool, walk>>

NoCursor == -1   \* before every message

TypeOK ==
  /\ rows \subseteq Messages
  /\ hydrated \in BOOLEAN
  /\ tool \in {"get", "search"}
  /\ pc \in {"new", "empty", "fetch", "again", "more", "done"}
  /\ cursor \in Messages \union {NoCursor}
  /\ pc = "more" => cursor # NoCursor
  /\ pc = "again" => hydrated
  /\ collected \subseteq Messages
  /\ items \in Nat
  /\ owed \subseteq Messages

Init ==
  /\ rows = {}
  /\ hydrated = FALSE
  /\ tool \in {"get", "search"}
  /\ pc = "new"
  /\ cursor = NoCursor
  /\ collected = {}
  /\ items = 0
  /\ owed = {}

-----------------------------------------------------------------------------
(* A page *)

\* Wrong: the row the cursor names comes again.
From(c) == {m \in rows : c <= m}

\* sent_at > ? OR (sent_at = ? AND id > ?)
Beyond(c) == {m \in rows : c < m}

\* P holds the first k elements of S, all of S if it has no more.
IsFirst(P, S, k) ==
  /\ P \subseteq S
  /\ \A p \in P, q \in S \ P : p < q
  /\ Cardinality(P) = k \/ (P = S /\ Cardinality(S) <= k)

\* Wrong: without its ORDER BY the database returns any limit + 1 rows.
D1QueryUnordered(found, c, limit) ==
  /\ found \subseteq Beyond(c)
  /\ Cardinality(found) = limit + 1 \/ (found = Beyond(c) /\ Cardinality(found) <= limit)

\* ORDER BY sent_at, id LIMIT limit + 1
D1Query(found, c, limit) == IsFirst(found, Beyond(c), limit + 1)

\* Wrong: only a page and more to spare is followed by another.
TwoBeyond(found, page, limit) == Cardinality(found) > limit + 1

HasNext(found, page, limit) == Cardinality(found) > limit

\* The page after c is added to what the reader has. Without a nextCursor it is
\* the last, and stop says what comes then.
TakePage(c, limit, stop) ==
  \E found \in SUBSET rows : \E page \in SUBSET found :
    /\ D1Query(found, c, limit)
    /\ IsFirst(page, found, limit)
    /\ collected' = collected \union page
    /\ items' = items + Cardinality(page)
    /\ \/ /\ HasNext(found, page, limit)
          /\ cursor' \in page
          /\ \A m \in page : m <= cursor'
          /\ pc' = "more"
       \/ /\ ~HasNext(found, page, limit)
          /\ cursor' = cursor
          /\ pc' = IF page = {} THEN stop ELSE "done"

Limits == 1..MaxReadLimit

-----------------------------------------------------------------------------
(* The reader *)

\* The call without a cursor. Only a conversation is looked at again when empty.
ReadFirst ==
  /\ pc = "new"
  /\ \E limit \in Limits :
       TakePage(NoCursor, limit, IF tool = "get" THEN "empty" ELSE "done")
  /\ owed' = rows
  /\ UNCHANGED <<rows, hydrated, tool>>

\* isConversationHydrated: an empty page of a conversation already fetched stands.
CheckHydrated ==
  /\ pc = "empty"
  /\ pc' = IF hydrated THEN "done" ELSE "fetch"
  /\ UNCHANGED <<rows, hydrated, tool, cursor, collected, items, owed>>

\* Wrong: the marker is written whether or not the messages were.
PersistSeparately ==
  /\ rows' \in {rows, rows \union History}
  /\ hydrated' = TRUE

\* Wrong: the marker is left out.
PersistUnmarked ==
  /\ rows' = rows \union History
  /\ UNCHANGED hydrated

\* persistMessages: the messages and the marker in one batch.
PersistMessages ==
  /\ rows' = rows \union History
  /\ hydrated' = TRUE

FetchHistory ==
  /\ pc = "fetch"
  /\ PersistMessages
  /\ pc' = "again"
  /\ UNCHANGED <<tool, cursor, collected, items, owed>>

\* connect, messages or the batch fails, and so does the call.
FetchFails ==
  /\ pc = "fetch"
  /\ pc' = "new"
  /\ UNCHANGED <<rows, hydrated, tool, cursor, collected, items, owed>>

\* With the same request: the page before was empty under any limit.
ReadAgain ==
  /\ pc = "again"
  /\ \E limit \in Limits : TakePage(NoCursor, limit, "done")
  /\ owed' = rows
  /\ UNCHANGED <<rows, hydrated, tool>>

\* The call with a cursor. Each call may have a limit of its own.
ReadNext ==
  /\ pc = "more"
  /\ \E limit \in Limits : TakePage(cursor, limit, "done")
  /\ UNCHANGED <<rows, hydrated, tool, owed>>

\* The client begins a new walk.
ReadAnew ==
  /\ pc = "done"
  /\ pc' = "new"
  /\ tool' \in {"get", "search"}
  /\ cursor' = NoCursor
  /\ collected' = {}
  /\ items' = 0
  /\ owed' = {}
  /\ UNCHANGED <<rows, hydrated>>

\* An event or a send adds a message, anywhere in the order.
Insert(m) ==
  /\ m \notin rows
  /\ rows' = rows \union {m}
  /\ UNCHANGED <<hydrated, tool, walk>>

\* Another reader has fetched the history.
HydratedElsewhere ==
  /\ ~hydrated
  /\ PersistMessages
  /\ UNCHANGED <<tool, walk>>

Next ==
  \/ ReadFirst \/ CheckHydrated \/ FetchHistory \/ FetchFails \/ ReadAgain
  \/ ReadNext \/ ReadAnew
  \/ \E m \in Messages : Insert(m)
  \/ HydratedElsewhere

Spec == Init /\ [][Next]_vars

-----------------------------------------------------------------------------
(* Properties *)

\* Whoever follows the cursors to the end has seen every message that was stored
\* when the first page was read, whatever arrived before, behind and between the
\* pages, and whatever limits the calls had.
PagesAreComplete == pc = "done" => owed \subseteq collected

\* No message comes twice in one walk: each cursor is further on than the one
\* before.
ServedOnce == items = Cardinality(collected)

\* A conversation reported as empty has had its history fetched.
EmptyMeansFetched ==
  (pc = "done" /\ tool = "get" /\ collected = {}) => hydrated /\ History \subseteq rows

\* The refinement: the scan has ended once the last page is read.
Scan == INSTANCE OrderedScan WITH
  Items <- Messages, stored <- rows, at <- cursor, seen <- collected,
  ended <- pc \in {"empty", "done"}

\* A walk is one scan in order, although it is made of calls with limits of their own,
\* looks one row ahead, and may fetch the history and begin again: each page is an
\* interval without a gap, more follows exactly if something lies beyond, and the
\* walk ends with everything that does.
ReadsInOrder == Scan!Spec

=============================================================================
