----------------------------- MODULE EventStream -----------------------------
(***************************************************************************)
(* Inbound events, from libgm to D1. The adapter's handleEvent hands every *)
(* event to the channel of each open SSE stream (main.go); a consumer per  *)
(* Worker isolate reads its stream (readEvents of google-messages-ipc.ts)  *)
(* and ingests what it reads one event after the other (worker.ts and      *)
(* ingestEvent of d1-repository.ts).                                       *)
(*                                                                         *)
(* The same event may be emitted again (libgm reports every change of a    *)
(* message under its id), read by several isolates, and lost with a stream *)
(* or an isolate. Parsing is left out: what is written arrives whole and   *)
(* in order while the stream lasts, malformed events never enter.          *)
(***************************************************************************)
EXTENDS MessageStore, Sequences

CONSTANTS Isolates,     \* Worker isolates
          ChannelSize,  \* capacity of a subscriber's channel, 16 in the code
          WireSize      \* bound of the model: events on their way per stream

ASSUME SizesAreNatural == ChannelSize \in Nat /\ WireSize \in Nat \ {0}

VARIABLES pc,           \* pc[i]: where the consumer of isolate i is
          channel,      \* channel[i]: its subscriber channel in the adapter
          wire,         \* wire[i]: events written to its stream and not read
          current,      \* current[i]: the event it has yielded
          lastEventId,  \* lastEventId[i]: its Last-Event-ID
          reported      \* history: the events libgm has reported

consumer == <<pc, current, lastEventId>>
stream == <<channel, wire>>
vars == <<store, consumer, stream, reported>>

\* off: not started. fetch: connecting. delay: in reconnectDelay. read: waiting
\* for a chunk. ingest: the event is yielded to runForEach. resume: its batch is
\* done, the generator has not run on yet. dead: the stream has failed, and
\* eventConsumerStarted keeps the isolate from starting another.
States == {"off", "fetch", "delay", "read", "ingest", "resume", "dead"}
Connected == {"read", "ingest", "resume"}

TypeOK ==
  /\ StoreTypeOK
  /\ pc \in [Isolates -> States]
  /\ channel \in [Isolates -> Seq(Messages)]
  /\ wire \in [Isolates -> Seq(Messages)]
  /\ current \in [Isolates -> Messages \union {NoMessage}]
  /\ lastEventId \in [Isolates -> Messages \union {NoMessage}]
  /\ reported \subseteq Messages
  /\ \A i \in Isolates :
       /\ Len(channel[i]) <= ChannelSize
       /\ pc[i] \notin Connected => channel[i] = <<>> /\ wire[i] = <<>>
       /\ pc[i] \in {"ingest", "resume"} <=> current[i] # NoMessage

Init ==
  /\ StoreInit
  /\ pc = [i \in Isolates |-> "off"]
  /\ channel = [i \in Isolates |-> <<>>]
  /\ wire = [i \in Isolates |-> <<>>]
  /\ current = [i \in Isolates |-> NoMessage]
  /\ lastEventId = [i \in Isolates |-> NoMessage]
  /\ reported = {}

-----------------------------------------------------------------------------
(* The adapter *)

\* Wrong: a full channel makes room by dropping its oldest event.
OfferNewest(ch, m) ==
  IF Len(ch) < ChannelSize THEN Append(ch, m) ELSE Append(Tail(ch), m)

\* Wrong: the channel grows.
OfferUnbounded(ch, m) == Append(ch, m)

\* handleEvent's select with a default: a full channel drops the event.
Offer(ch, m) == IF Len(ch) < ChannelSize THEN Append(ch, m) ELSE ch

HandleEvent(m) ==
  /\ channel' = [i \in Isolates |->
                   IF pc[i] \in Connected THEN Offer(channel[i], m) ELSE channel[i]]
  /\ reported' = reported \union {m}
  /\ UNCHANGED <<store, consumer, wire>>

\* The loop of events: one event from the channel to the stream.
WriteEvent(i) ==
  /\ channel[i] # <<>>
  /\ Len(wire[i]) < WireSize
  /\ channel' = [channel EXCEPT ![i] = Tail(@)]
  /\ wire' = [wire EXCEPT ![i] = Append(@, Head(channel[i]))]
  /\ UNCHANGED <<store, consumer, reported>>

-----------------------------------------------------------------------------
(* The consumer of an isolate *)

Goto(i, s, t) == pc[i] = s /\ pc' = [pc EXCEPT ![i] = t]

\* The stream of i is gone, with what it still held.
Disconnect(i) ==
  /\ channel' = [channel EXCEPT ![i] = <<>>]
  /\ wire' = [wire EXCEPT ![i] = <<>>]

\* The first real-mode request of the isolate forks the consumer.
StartConsumer(i) ==
  /\ Goto(i, "off", "fetch")
  /\ UNCHANGED <<store, stream, current, lastEventId>>

\* GET /v1/events answers 200 and subscribes. The Last-Event-ID it carries is
\* not read: the channel begins empty.
Subscribe(i) ==
  /\ Goto(i, "fetch", "read")
  /\ UNCHANGED <<store, stream, current, lastEventId>>

\* It answers anything but 2xx.
Refused(i) ==
  /\ Goto(i, "fetch", "delay")
  /\ UNCHANGED <<store, stream, current, lastEventId>>

\* The fetch itself is rejected, which nothing catches.
FetchRejected(i) ==
  /\ Goto(i, "fetch", "dead")
  /\ UNCHANGED <<store, stream, current, lastEventId>>

Retry(i) ==
  /\ Goto(i, "delay", "fetch")
  /\ UNCHANGED <<store, stream, current, lastEventId>>

\* Wrong: the id is remembered when the event is yielded.
ReadEventEagerly(i) ==
  /\ wire[i] # <<>>
  /\ Goto(i, "read", "ingest")
  /\ current' = [current EXCEPT ![i] = Head(wire[i])]
  /\ lastEventId' = [lastEventId EXCEPT ![i] = Head(wire[i])]
  /\ wire' = [wire EXCEPT ![i] = Tail(@)]
  /\ UNCHANGED <<store, channel>>

ReadEvent(i) ==
  /\ wire[i] # <<>>
  /\ Goto(i, "read", "ingest")
  /\ current' = [current EXCEPT ![i] = Head(wire[i])]
  /\ wire' = [wire EXCEPT ![i] = Tail(@)]
  /\ UNCHANGED <<store, channel, lastEventId>>

Ingest(i) ==
  /\ Goto(i, "ingest", "resume")
  /\ IngestEvent(current[i])
  /\ UNCHANGED <<stream, current, lastEventId>>

\* D1 fails, before or after the batch took effect: runForEach ends, and the
\* reader is abandoned with its stream.
IngestFails(i) ==
  /\ pc[i] \in {"ingest", "resume"}
  /\ pc' = [pc EXCEPT ![i] = "dead"]
  /\ current' = [current EXCEPT ![i] = NoMessage]
  /\ Disconnect(i)
  /\ UNCHANGED <<store, lastEventId>>

\* The generator runs on after its yield.
Resume(i) ==
  /\ Goto(i, "resume", "read")
  /\ lastEventId' = [lastEventId EXCEPT ![i] = current[i]]
  /\ current' = [current EXCEPT ![i] = NoMessage]
  /\ UNCHANGED <<store, stream>>

\* The adapter or the container stops and closes the stream: what is on the wire
\* has been read, what is in the channel is lost.
StreamEnds(i) ==
  /\ wire[i] = <<>>
  /\ Goto(i, "read", "delay")
  /\ Disconnect(i)
  /\ UNCHANGED <<store, current, lastEventId>>

\* The connection breaks: reader.read() is rejected, which nothing catches.
StreamBreaks(i) ==
  /\ Goto(i, "read", "dead")
  /\ Disconnect(i)
  /\ UNCHANGED <<store, current, lastEventId>>

\* listConversations: the list is the provider's, which may know more messages than it
\* has reported, and older than the store by the time it is written. Conversations are
\* written independently of each other.
ListConversations ==
  /\ \E m \in Messages : SyncConversation(ConversationOf[m], SentAt[m])
  /\ UNCHANGED <<consumer, stream, reported>>

\* The isolate is evicted, with eventConsumerStarted and lastEventId.
Evict(i) ==
  /\ pc[i] # "off"
  /\ pc' = [pc EXCEPT ![i] = "off"]
  /\ current' = [current EXCEPT ![i] = NoMessage]
  /\ lastEventId' = [lastEventId EXCEPT ![i] = NoMessage]
  /\ Disconnect(i)
  /\ UNCHANGED store

Advance(i) ==
  /\ \/ StartConsumer(i) \/ Subscribe(i) \/ Retry(i) \/ ReadEvent(i) \/ Ingest(i)
     \/ Resume(i)
  /\ UNCHANGED reported

Setback(i) ==
  /\ \/ Refused(i) \/ FetchRejected(i) \/ IngestFails(i) \/ StreamEnds(i)
     \/ StreamBreaks(i) \/ Evict(i)
  /\ UNCHANGED reported

Next ==
  \/ \E m \in Messages : HandleEvent(m)
  \/ ListConversations
  \/ \E i \in Isolates : WriteEvent(i) \/ Advance(i) \/ Setback(i)

Spec == Init /\ [][Next]_vars

\* A consumer and the adapter's writer are scheduled while they have work.
FairSpec ==
  Spec /\ \A i \in Isolates : WF_vars(Advance(i)) /\ WF_vars(WriteEvent(i))

-----------------------------------------------------------------------------
(* Properties *)

\* An event marked as ingested left its message and its conversation behind:
\* marker and rows come from one batch, and the marker is written last.
IngestedIsVisible ==
  \A m \in protocolEvents :
    m \in messages /\ lastMessageAt[ConversationOf[m]] # NoRow

\* "The cursor advances only after the event's durable write batch succeeds"
\* (protocol.md:7), for the cursor in D1 and for the Last-Event-ID of each reader.
CursorIsDurable ==
  /\ cursor # NoMessage => cursor \in protocolEvents
  /\ \A i \in Isolates : lastEventId[i] # NoMessage => lastEventId[i] \in protocolEvents

\* An event that several isolates read, or that libgm reports again, changes the
\* store once: a replay moves neither the cursor nor a last_message_at back.
ReplayChangesNothing ==
  [][\A i \in Isolates :
       (pc[i] = "ingest" /\ pc'[i] = "resume" /\ current[i] \in protocolEvents) =>
         UNCHANGED store]_vars

\* The refinement: an event takes effect when its marker is written.
Intake == INSTANCE EventIntake WITH
  ingested <- protocolEvents, visible <- messages, latest <- cursor, dates <- lastMessageAt

\* However many isolates read an event, however often libgm reports it and whatever is
\* cut off or fails, the read model is as if each event had been ingested at most once,
\* and in one piece; no stream brings forth an event that was not reported.
EventsTakeEffectOnce == Intake!Spec

\* What a consumer has in its stream, or in hand.
Due(i, m) ==
  \/ m = current[i]
  \/ \E n \in 1..Len(channel[i]) : channel[i][n] = m
  \/ \E n \in 1..Len(wire[i]) : wire[i][n] = m

\* An event that made it into a stream is ingested, however many more arrive
\* behind it, unless the stream itself ends first.
DueIsIngested ==
  \A i \in Isolates, m \in Messages :
    Due(i, m) ~> (m \in protocolEvents \/ pc[i] \notin Connected)

\* "A failed connection is recoverable; retain the cursor and retry."
\* (google-messages-ipc.ts:79)
ConsumerKeepsTrying == \A i \in Isolates : pc[i] # "dead"

\* A message ingested late does not date its conversation back: "old and out-of-order
\* valid events are safely persisted" (protocol.md:7).
LastMessageAtIsNewest ==
  [][\A i \in Isolates :
       (pc[i] = "ingest" /\ pc'[i] = "resume") =>
         \A c \in Conversations : lastMessageAt'[c] >= lastMessageAt[c]]_vars

=============================================================================
