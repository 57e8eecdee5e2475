-------------------------- MODULE EventStream_proofs --------------------------
(***************************************************************************)
(* The safety of the event stream, for any isolates, messages and sizes.   *)
(***************************************************************************)
EXTENDS EventStream, TLAPS

\* Between its batch and its return to the generator an event is ingested.
ResumesAfterIngest == \A i \in Isolates : pc[i] = "resume" => current[i] \in protocolEvents

StreamInv == TypeOK /\ IngestedIsVisible /\ CursorIsDurable /\ ResumesAfterIngest

\* What TypeOK says of the tables and of each variable, and what it relates for an isolate.
Typed ==
  /\ StoreTypeOK
  /\ pc \in [Isolates -> States]
  /\ channel \in [Isolates -> Seq(Messages)]
  /\ wire \in [Isolates -> Seq(Messages)]
  /\ current \in [Isolates -> Messages \union {NoMessage}]
  /\ lastEventId \in [Isolates -> Messages \union {NoMessage}]

Sound(i) ==
  /\ Len(channel[i]) <= ChannelSize
  /\ pc[i] \notin Connected => channel[i] = <<>> /\ wire[i] = <<>>
  /\ pc[i] \in {"ingest", "resume"} <=> current[i] # NoMessage

-----------------------------------------------------------------------------
(* Types *)

\* The writes on the store keep its types.
LEMMA StoreTypeStep ==
  ASSUME StoreTypeOK, NEW m \in Messages,
         IngestEvent(m) \/ SyncConversation(ConversationOf[m], SentAt[m])
  PROVE  StoreTypeOK'
BY MessagesAreFixed
   DEF StoreTypeOK, IngestEvent, SyncConversation, InsertMessages, EventIsNew, NoRow

\* What the adapter's select leaves in a channel: it never holds more than its size.
LEMMA OfferFits ==
  ASSUME NEW ch \in Seq(Messages), NEW m \in Messages, Len(ch) <= ChannelSize
  PROVE  Offer(ch, m) \in Seq(Messages) /\ Len(Offer(ch, m)) <= ChannelSize
BY SizesAreNatural DEF Offer

\* What reading the first event of a channel or stream leaves.
LEMMA TakesOne ==
  ASSUME NEW s \in Seq(Messages), s # <<>>
  PROVE  /\ Head(s) \in Messages
         /\ Tail(s) \in Seq(Messages)
         /\ Len(Tail(s)) = Len(s) - 1
OBVIOUS

\* Steps of a consumer. They touch the stream and the state of their own isolate only.
LEMMA ConsumerTypeStep ==
  ASSUME Typed, \A j \in Isolates : Sound(j), NEW i \in Isolates, Advance(i) \/ Setback(i)
  PROVE  Typed' /\ \A j \in Isolates : Sound(j)'
<1> USE MessagesAreFixed DEF Typed, States, Goto
<1>1. CASE StartConsumer(i) \/ Subscribe(i) \/ Refused(i) \/ FetchRejected(i) \/ Retry(i)
  <2> USE <1>1 DEF StartConsumer, Subscribe, Refused, FetchRejected, Retry, stream
  <2>1. Typed'
    BY DEF store, StoreTypeOK
  <2>2. ASSUME NEW j \in Isolates PROVE Sound(j)'
    BY DEF Sound, Connected
  <2> QED BY <2>1, <2>2
<1>2. CASE ReadEvent(i)
  <2> USE <1>2 DEF ReadEvent
  <2>1. Head(wire[i]) \in Messages /\ Tail(wire[i]) \in Seq(Messages)
    BY TakesOne
  <2>2. Typed'
    BY <2>1 DEF store, StoreTypeOK
  <2>3. ASSUME NEW j \in Isolates PROVE Sound(j)'
    BY <2>1 DEF Sound, Connected
  <2> QED BY <2>2, <2>3
<1>3. CASE Ingest(i)
  <2> USE <1>3 DEF Ingest, stream
  <2>1. Sound(i)
    OBVIOUS
  <2>2. current[i] \in Messages
    BY <2>1 DEF Sound
  <2>3. StoreTypeOK'
    BY <2>2, StoreTypeStep
  <2>4. Typed'
    BY <2>3
  <2>5. ASSUME NEW j \in Isolates PROVE Sound(j)'
    BY DEF Sound, Connected
  <2> QED BY <2>4, <2>5
<1>4. CASE Resume(i)
  <2> USE <1>4 DEF Resume, stream
  <2>1. Typed'
    BY DEF store, StoreTypeOK
  <2>2. ASSUME NEW j \in Isolates PROVE Sound(j)'
    BY DEF Sound, Connected
  <2> QED BY <2>1, <2>2
<1>5. CASE IngestFails(i) \/ StreamEnds(i) \/ StreamBreaks(i) \/ Evict(i)
  <2> USE <1>5 DEF IngestFails, StreamEnds, StreamBreaks, Evict, Disconnect
  <2>1. Typed'
    <3>1. <<>> \in Seq(Messages)
      OBVIOUS
    <3>2. StoreTypeOK'
      BY DEF store, StoreTypeOK
    <3>3. /\ channel' = [channel EXCEPT ![i] = <<>>]
          /\ wire' = [wire EXCEPT ![i] = <<>>]
      OBVIOUS
    <3>4. channel' \in [Isolates -> Seq(Messages)] /\ wire' \in [Isolates -> Seq(Messages)]
      BY <3>1, <3>3
    <3>5. /\ pc' \in [Isolates -> States]
          /\ current' \in [Isolates -> Messages \union {NoMessage}]
          /\ lastEventId' \in [Isolates -> Messages \union {NoMessage}]
      OBVIOUS
    <3> QED BY <3>2, <3>4, <3>5
  <2>2. ASSUME NEW j \in Isolates PROVE Sound(j)'
    BY SizesAreNatural DEF Sound, Connected
  <2> QED BY <2>1, <2>2
<1> QED BY <1>1, <1>2, <1>3, <1>4, <1>5 DEF Advance, Setback

\* What was reported stays reported.
LEMMA ReportedStep ==
  ASSUME [Next]_vars
  PROVE  /\ reported \subseteq reported'
         /\ reported \subseteq Messages => reported' \subseteq Messages
BY DEF Next, vars, HandleEvent, ListConversations, WriteEvent, Advance, Setback

\* Every step keeps the types.
LEMMA TypeStep == TypeOK /\ [Next]_vars => TypeOK'
<1> SUFFICES ASSUME Typed, \A j \in Isolates : Sound(j), [Next]_vars
             PROVE  Typed' /\ \A j \in Isolates : Sound(j)'
  BY ReportedStep DEF TypeOK, Typed, Sound
<1>1. ASSUME NEW m \in Messages, HandleEvent(m)
      PROVE  Typed' /\ \A j \in Isolates : Sound(j)'
  <2> USE <1>1 DEF HandleEvent, consumer
  <2>1. ASSUME NEW j \in Isolates
        PROVE  /\ Offer(channel[j], m) \in Seq(Messages)
               /\ Len(Offer(channel[j], m)) <= ChannelSize
    BY OfferFits DEF Typed, Sound
  <2>2. Typed'
    BY <2>1 DEF Typed, store, StoreTypeOK
  <2>3. ASSUME NEW j \in Isolates PROVE Sound(j)'
    BY <2>1 DEF Sound, Connected
  <2> QED BY <2>2, <2>3
<1>2. CASE ListConversations
  <2> USE <1>2 DEF ListConversations, consumer, stream
  <2>1. StoreTypeOK'
    BY StoreTypeStep DEF Typed
  <2>2. Typed'
    BY <2>1 DEF Typed
  <2>3. ASSUME NEW j \in Isolates PROVE Sound(j)'
    BY DEF Sound
  <2> QED BY <2>2, <2>3
<1>3. ASSUME NEW i \in Isolates, WriteEvent(i)
      PROVE  Typed' /\ \A j \in Isolates : Sound(j)'
  <2> USE <1>3 DEF WriteEvent, consumer
  <2>1. /\ Head(channel[i]) \in Messages
        /\ Tail(channel[i]) \in Seq(Messages)
        /\ Len(Tail(channel[i])) = Len(channel[i]) - 1
    BY TakesOne DEF Typed
  <2>2. Typed'
    BY <2>1 DEF Typed, store, StoreTypeOK
  <2>3. Len(channel[i]) \in Nat /\ ChannelSize \in Nat
    BY SizesAreNatural DEF Typed
  <2>4. ASSUME NEW j \in Isolates PROVE Sound(j)'
    BY <2>1, <2>3 DEF Sound, Typed
  <2> QED BY <2>2, <2>4
<1>4. ASSUME NEW i \in Isolates, Advance(i) \/ Setback(i)
      PROVE  Typed' /\ \A j \in Isolates : Sound(j)'
  BY <1>4, ConsumerTypeStep
<1>5. CASE UNCHANGED vars
  <2> USE <1>5 DEF vars, store, consumer, stream
  <2>1. Typed'
    BY DEF Typed, StoreTypeOK
  <2>2. ASSUME NEW j \in Isolates PROVE Sound(j)'
    BY DEF Sound
  <2> QED BY <2>1, <2>2
<1> QED BY <1>1, <1>2, <1>3, <1>4, <1>5 DEF Next

-----------------------------------------------------------------------------
(* Marker, rows and cursors *)

\* Only an ingestion writes the marker, and its batch writes the rows with it.
LEMMA VisibleStep ==
  ASSUME TypeOK, IngestedIsVisible, [Next]_vars
  PROVE  IngestedIsVisible'
<1> USE MessagesAreFixed DEF TypeOK, StoreTypeOK, IngestedIsVisible, NoRow
<1>1. ASSUME NEW i \in Isolates, Ingest(i) PROVE IngestedIsVisible'
  <2>1. current[i] \in Messages
    BY <1>1 DEF Ingest, Goto
  <2> QED BY <1>1, <2>1 DEF Ingest, IngestEvent, InsertMessages, EventIsNew
<1>2. CASE ListConversations
  BY <1>2 DEF ListConversations, SyncConversation
<1>3. CASE UNCHANGED store
  BY <1>3 DEF store
<1> QED
  BY <1>1, <1>2, <1>3
     DEF Next, vars, HandleEvent, WriteEvent, Advance, Setback, StartConsumer, Subscribe,
         Retry, ReadEvent, Resume, Refused, FetchRejected, IngestFails, StreamEnds,
         StreamBreaks, Evict

\* Events are never unmarked, and a step of one consumer leaves the others alone.
LEMMA DurableStep ==
  ASSUME TypeOK, CursorIsDurable, ResumesAfterIngest, [Next]_vars
  PROVE  CursorIsDurable' /\ ResumesAfterIngest'
<1> USE MessagesAreFixed
<1> USE DEF TypeOK, StoreTypeOK, CursorIsDurable, ResumesAfterIngest, Goto
<1>1. ASSUME NEW i \in Isolates, Ingest(i) PROVE CursorIsDurable' /\ ResumesAfterIngest'
  <2>1. current[i] \in Messages
    BY <1>1 DEF Ingest
  <2> QED BY <1>1, <2>1 DEF Ingest, IngestEvent, InsertMessages, EventIsNew
<1>2. CASE ListConversations
  BY <1>2 DEF ListConversations, SyncConversation, consumer
<1>3. ASSUME NEW m \in Messages, HandleEvent(m) PROVE CursorIsDurable' /\ ResumesAfterIngest'
  BY <1>3 DEF HandleEvent, store, consumer
<1>4. ASSUME NEW i \in Isolates, WriteEvent(i) PROVE CursorIsDurable' /\ ResumesAfterIngest'
  BY <1>4 DEF WriteEvent, store, consumer
<1>5. ASSUME NEW i \in Isolates,
             StartConsumer(i) \/ Subscribe(i) \/ Retry(i) \/ ReadEvent(i) \/ Resume(i)
      PROVE  CursorIsDurable' /\ ResumesAfterIngest'
  BY <1>5 DEF StartConsumer, Subscribe, Retry, ReadEvent, Resume, store
<1>6. ASSUME NEW i \in Isolates, Setback(i) PROVE CursorIsDurable' /\ ResumesAfterIngest'
  BY <1>6
     DEF Setback, Refused, FetchRejected, IngestFails, StreamEnds, StreamBreaks, Evict, store
<1>7. CASE UNCHANGED vars
  BY <1>7 DEF vars, store, consumer
<1> QED BY <1>1, <1>2, <1>3, <1>4, <1>5, <1>6, <1>7 DEF Next, Advance

\* The store begins empty, and no consumer runs.
LEMMA InvariantInit == Init => StreamInv
BY MessagesAreFixed, SizesAreNatural
   DEF Init, StoreInit, StreamInv, TypeOK, StoreTypeOK, IngestedIsVisible, CursorIsDurable,
       ResumesAfterIngest, States, Connected, NoRow

\* The parts of the invariant, put together.
LEMMA InvariantStep == StreamInv /\ [Next]_vars => StreamInv'
BY TypeStep, VisibleStep, DurableStep DEF StreamInv

\* The invariant of the streams and the store.
LEMMA Invariant == Spec => []StreamInv
BY InvariantInit, InvariantStep, PTL DEF Spec

-----------------------------------------------------------------------------

\* Subscriber channels stay within their size, a stream holds events only while it is
\* open, and a consumer has an event in hand exactly from its yield to its return.
THEOREM TypeCorrect == Spec => []TypeOK
<1>1. StreamInv => TypeOK
  BY DEF StreamInv
<1> QED BY <1>1, Invariant, PTL

\* What is marked as ingested has its rows, whoever ingested it and in whatever order.
THEOREM Visible == Spec => []IngestedIsVisible
<1>1. StreamInv => IngestedIsVisible
  BY DEF StreamInv
<1> QED BY <1>1, Invariant, PTL

\* No cursor, in D1 or of a reader, is ahead of what was ingested.
THEOREM Durable == Spec => []CursorIsDurable
<1>1. StreamInv => CursorIsDurable
  BY DEF StreamInv
<1> QED BY <1>1, Invariant, PTL

\* Ingesting an event again, by whichever isolate, changes nothing.
THEOREM ReplayIsIdle == Spec => ReplayChangesNothing
<1>1. ASSUME TypeOK, [Next]_vars, NEW i \in Isolates,
             pc[i] = "ingest", pc'[i] = "resume", current[i] \in protocolEvents
      PROVE  UNCHANGED store
  <2> USE <1>1 DEF TypeOK, StoreTypeOK, Goto
  <2>1. ASSUME NEW j \in Isolates, Ingest(j) PROVE UNCHANGED store
    <3>1. i = j
      BY <2>1 DEF Ingest
    <3> QED BY <2>1, <3>1 DEF Ingest, IngestEvent, EventIsNew, store
  <2>2. CASE ListConversations
    BY <2>2 DEF ListConversations, consumer
  <2> QED
    BY <2>1, <2>2
       DEF Next, vars, HandleEvent, WriteEvent, Advance, Setback, StartConsumer, Subscribe,
           Retry, ReadEvent, Resume, Refused, FetchRejected, IngestFails, StreamEnds,
           StreamBreaks, Evict
<1>2. TypeOK /\ [Next]_vars =>
        [\A i \in Isolates :
           (pc[i] = "ingest" /\ pc'[i] = "resume" /\ current[i] \in protocolEvents) =>
             UNCHANGED store]_vars
  BY <1>1
<1> QED BY <1>2, TypeCorrect, PTL DEF Spec, ReplayChangesNothing

-----------------------------------------------------------------------------
(* The refinement *)

\* Streams and isolates hold nothing that libgm did not report.
StreamsHoldReports ==
  /\ channel \in [Isolates -> Seq(reported)]
  /\ wire \in [Isolates -> Seq(reported)]
  /\ current \in [Isolates -> reported \union {NoMessage}]

\* A sequence and one more of its kind.
LEMMA Appended ==
  ASSUME NEW R, NEW s \in Seq(R), NEW x \in R
  PROVE  Append(s, x) \in Seq(R)
OBVIOUS

\* What held reports still does when there are more of them.
LEMMA MoreReported ==
  ASSUME NEW R, NEW S, R \subseteq S
  PROVE  Seq(R) \subseteq Seq(S)
OBVIOUS

\* What an event passes through keeps it as it is: it is offered, written, read, or gone.
LEMMA HoldStep ==
  ASSUME TypeOK, StreamsHoldReports, [Next]_vars
  PROVE  StreamsHoldReports'
<1> USE DEF StreamsHoldReports, Goto
<1>e. <<>> \in Seq(reported)
  OBVIOUS
<1>1. ASSUME NEW m \in Messages, HandleEvent(m) PROVE StreamsHoldReports'
  <2>1. /\ reported' = reported \union {m}
        /\ reported \subseteq reported'
        /\ Seq(reported) \subseteq Seq(reported')
    <3>1. reported' = reported \union {m}
      BY <1>1 DEF HandleEvent
    <3>2. reported \subseteq reported'
      BY <3>1
    <3>3. Seq(reported) \subseteq Seq(reported')
      BY ONLY <3>2, MoreReported
    <3> QED BY <3>1, <3>2, <3>3
  <2>2. ASSUME NEW i \in Isolates PROVE channel'[i] \in Seq(reported')
    <3>1. channel[i] \in Seq(reported') /\ m \in reported'
      BY <2>1
    <3>2. channel'[i] \in {channel[i], Append(channel[i], m)}
      BY <1>1 DEF HandleEvent, Offer
    <3>3. Append(channel[i], m) \in Seq(reported')
      BY ONLY <3>1, Appended
    <3> QED BY ONLY <3>1, <3>2, <3>3
  <2>3. channel' \in [Isolates -> Seq(reported')]
    BY <1>1, <2>2 DEF HandleEvent
  <2>4. UNCHANGED <<wire, current>>
    BY <1>1 DEF HandleEvent, consumer
  <2>5. wire' \in [Isolates -> Seq(reported')]
    <3>1. ASSUME NEW i \in Isolates PROVE wire[i] \in Seq(reported')
      BY <2>1
    <3> QED BY <2>4, <3>1
  <2>6. current' \in [Isolates -> reported' \union {NoMessage}]
    BY <2>1, <2>4
  <2> QED BY <2>3, <2>5, <2>6
<1>2. ASSUME NEW i \in Isolates, WriteEvent(i) PROVE StreamsHoldReports'
  <2>1. Head(channel[i]) \in reported /\ Tail(channel[i]) \in Seq(reported)
    BY <1>2 DEF WriteEvent
  <2> QED BY <1>2, <2>1 DEF WriteEvent, consumer
<1>3. ASSUME NEW i \in Isolates, ReadEvent(i), UNCHANGED reported PROVE StreamsHoldReports'
  <2>1. Head(wire[i]) \in reported /\ Tail(wire[i]) \in Seq(reported)
    BY <1>3 DEF ReadEvent
  <2> QED BY <1>3, <2>1 DEF ReadEvent
<1>4. ASSUME NEW i \in Isolates, UNCHANGED reported,
             IngestFails(i) \/ Resume(i) \/ StreamEnds(i) \/ StreamBreaks(i) \/ Evict(i)
      PROVE  StreamsHoldReports'
  BY <1>4, <1>e
     DEF IngestFails, Resume, StreamEnds, StreamBreaks, Evict, Disconnect, stream
<1>5. ASSUME NEW i \in Isolates, UNCHANGED reported,
             \/ StartConsumer(i) \/ Subscribe(i) \/ Retry(i) \/ Ingest(i)
             \/ Refused(i) \/ FetchRejected(i)
      PROVE  StreamsHoldReports'
  BY <1>5 DEF StartConsumer, Subscribe, Retry, Ingest, Refused, FetchRejected, stream
<1>6. CASE ListConversations \/ UNCHANGED vars
  BY <1>6 DEF ListConversations, vars, consumer, stream
<1> QED BY <1>1, <1>2, <1>3, <1>4, <1>5, <1>6 DEF Next, Advance, Setback

\* In every reachable state the channels, streams and consumers hold reported events only.
LEMMA Holds == Spec => []StreamsHoldReports
<1>1. Init => StreamsHoldReports
  <2>1. <<>> \in Seq(reported)
    OBVIOUS
  <2> QED BY <2>1 DEF Init, StreamsHoldReports
<1> QED BY <1>1, HoldStep, TypeCorrect, PTL DEF Spec

\* Every step reports, ingests a reported event for the first time, rewrites a date from
\* a list, or leaves the read model alone.
LEMMA IntakeStep ==
  ASSUME TypeOK, StreamsHoldReports, [Next]_vars
  PROVE  [Intake!Next]_(Intake!vars)
<1> USE DEF Intake!vars, store
<1>1. ASSUME NEW m \in Messages, HandleEvent(m) PROVE Intake!Next
  BY <1>1 DEF HandleEvent, Intake!Next, Intake!Report
<1>2. CASE ListConversations
  BY <1>2 DEF ListConversations, SyncConversation, Intake!Next, Intake!Relist
<1>3. ASSUME NEW i \in Isolates, Ingest(i), UNCHANGED reported
      PROVE  Intake!Next \/ UNCHANGED Intake!vars
  <2>1. current[i] \in Messages /\ current[i] \in reported
    <3>1. current[i] # NoMessage
      BY <1>3 DEF TypeOK, Ingest, Goto
    <3> QED BY <3>1 DEF TypeOK, StreamsHoldReports
  <2>2. CASE current[i] \in protocolEvents
    BY <1>3, <2>2 DEF Ingest, IngestEvent, EventIsNew
  <2>3. CASE current[i] \notin protocolEvents
    <3>1. Intake!TakeEffect(current[i])
      BY <1>3, <2>1, <2>3
         DEF Ingest, IngestEvent, EventIsNew, InsertMessages, Intake!TakeEffect
    <3> QED BY <2>1, <3>1 DEF Intake!Next
  <2> QED BY <2>2, <2>3
<1>4. CASE UNCHANGED <<store, reported>>
  BY <1>4
<1> QED
  BY <1>1, <1>2, <1>3, <1>4
     DEF Next, vars, WriteEvent, Advance, Setback, StartConsumer, Subscribe, Retry,
         ReadEvent, Resume, Refused, FetchRejected, IngestFails, StreamEnds, StreamBreaks,
         Evict

\* The streams, isolates and replays implement the intake: an event takes effect once, in
\* one piece, and only if it was reported.
THEOREM Refinement == Spec => EventsTakeEffectOnce
<1>1. Init => Intake!Init
  BY DEF Init, StoreInit, NoRow, Intake!Init
<1> QED
  BY <1>1, IntakeStep, TypeCorrect, Holds, PTL
     DEF Spec, EventsTakeEffectOnce, Intake!Spec

=============================================================================
