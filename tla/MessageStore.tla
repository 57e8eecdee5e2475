---------------------------- MODULE MessageStore ----------------------------
(***************************************************************************)
(* The read model in D1 (d1-repository.ts): conversations with their       *)
(* last_message_at, messages, the events already ingested and the event    *)
(* cursor. The module has the writes of an event and of a conversation     *)
(* list as operators over the tables; who performs them when is said by    *)
(* the module that extends it. Participants and titles are left out.       *)
(*                                                                         *)
(* A message is a name. Its conversation and its time never change, and an *)
(* event has the id of its message (handleEvent and normalizedMessage of   *)
(* main.go both take GetMessageID).                                        *)
(***************************************************************************)
EXTENDS Integers, FiniteSets

CONSTANTS Messages,        \* messages of the account
          Conversations,   \* conversations of the account
          ConversationOf,  \* [Messages -> Conversations]
          SentAt,          \* [Messages -> Nat], the sentAt of a message
          NoMessage        \* null: no event yet

ASSUME MessagesAreFixed ==
  /\ ConversationOf \in [Messages -> Conversations]
  /\ SentAt \in [Messages -> Nat]
  /\ NoMessage \notin Messages

VARIABLES lastMessageAt,   \* [c -> last_message_at of row c], -1 without a row
          messages,        \* rows of messages
          protocolEvents,  \* rows of protocol_events
          cursor           \* sync_state 'google-messages-events'

store == <<lastMessageAt, messages, protocolEvents, cursor>>

NoRow == -1

StoreTypeOK ==
  /\ lastMessageAt \in [Conversations -> {NoRow} \union {SentAt[m] : m \in Messages}]
  /\ messages \subseteq Messages
  /\ protocolEvents \subseteq Messages
  /\ cursor \in Messages \union {NoMessage}

StoreInit ==
  /\ lastMessageAt = [c \in Conversations |-> NoRow]
  /\ messages = {}
  /\ protocolEvents = {}
  /\ cursor = NoMessage

\* Wrong: every event counts as new.
AlwaysNew(m) == m \in Messages

\* The guard of every statement of the batch but the last, which is the one that
\* makes it false.
EventIsNew(m) == m \notin protocolEvents

\* Wrong: the message row is left to the next history fetch.
InsertNothing(ms) == messages' = messages

\* INSERT OR IGNORE INTO messages
InsertMessages(ms) == messages' = messages \union ms

\* Wrong: the statement that moves the cursor has no guard.
IngestMovingTheCursor(m) ==
  /\ IF EventIsNew(m)
     THEN /\ lastMessageAt' = [lastMessageAt EXCEPT ![ConversationOf[m]] = SentAt[m]]
          /\ InsertMessages({m})
     ELSE UNCHANGED <<lastMessageAt, messages>>
  /\ cursor' = m
  /\ protocolEvents' = protocolEvents \union {m}

\* ingestEvent: the conversation row is created if there is none, and its
\* last_message_at set to the time of the event, later than what is there or not.
IngestEvent(m) ==
  /\ IF EventIsNew(m)
     THEN /\ lastMessageAt' = [lastMessageAt EXCEPT ![ConversationOf[m]] = SentAt[m]]
          /\ InsertMessages({m})
          /\ cursor' = m
     ELSE UNCHANGED <<lastMessageAt, messages, cursor>>
  /\ protocolEvents' = protocolEvents \union {m}

\* syncConversations: the list of the provider has c with a last message at t.
SyncConversation(c, t) ==
  /\ lastMessageAt' = [lastMessageAt EXCEPT ![c] = t]
  /\ UNCHANGED <<messages, protocolEvents, cursor>>

=============================================================================
