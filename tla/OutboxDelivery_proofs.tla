----------------------- MODULE OutboxDelivery_proofs -----------------------
(***************************************************************************)
(* What TLAPS proves about OutboxDelivery for every set of calls, keys,    *)
(* conversations and texts.                                                *)
(***************************************************************************)
EXTENDS OutboxDelivery, TLAPS

\* A request of a call that is at work.
LEMMA WorkingCallHasRequest ==
  ASSUME TypeOK, NEW c \in Calls, pc[c] # "idle"
  PROVE  /\ req[c] \in Requests
         /\ Key(c) \in Keys
         /\ Payload(c) \in Payloads
         /\ Sending(c) \in Keys \X Payloads
         /\ ProviderId(Key(c), Payload(c)) \in ExternalIds
  BY NullsAreDistinct
  DEF TypeOK, Requests, Payloads, Key, Payload, Sending, ProviderId, ExternalIds

\* A row that has a status is a row.
LEMMA RowWithStatus ==
  ASSUME TypeOK, NEW k \in Keys, outbox[k] # NoRow
  PROVE  outbox[k] \in Rows
  BY DEF TypeOK

\* Every state has the types of TypeOK, and a call has a request exactly while
\* it works (the local variables of MessagingService.send).
LEMMA TypeStep == TypeOK /\ [Next]_vars => TypeOK'
<1> SUFFICES ASSUME TypeOK, [Next]_vars
             PROVE  TypeOK'
  OBVIOUS
<1> USE DEF TypeOK, database, history, At, Goto
<1>1. ASSUME NEW c \in Calls, Start(c) PROVE TypeOK'
  BY <1>1, NullsAreDistinct DEF Start, States, Answers, Holding
<1>2. ASSUME NEW c \in Calls, FindRow(c) PROVE TypeOK'
  BY <1>2, WorkingCallHasRequest, RowWithStatus
     DEF FindRow, HasStatus, Rows, States, Answers, Holding
<1>3. ASSUME NEW c \in Calls, Lookup(c) PROVE TypeOK'
  BY <1>3 DEF Lookup, States, Answers, Holding
<1>4. ASSUME NEW c \in Calls, Reserve(c) PROVE TypeOK'
  <2>1. Reserved(c) \in Rows
    BY <1>4, WorkingCallHasRequest DEF Reserve, Reserved, Rows
  <2> QED BY <1>4, <2>1 DEF Reserve, States, Answers, Holding
<1>5. ASSUME NEW c \in Calls, Recheck(c) PROVE TypeOK'
  BY <1>5 DEF Recheck, States, Answers, Holding
<1>6. ASSUME NEW c \in Calls, Connect(c) \/ ConnectFails(c) \/ Reply(c) \/ SendFails(c)
      PROVE  TypeOK'
  BY <1>6 DEF Connect, ConnectFails, Reply, SendFails, States, Answers, Holding
<1>7. ASSUME NEW c \in Calls, Release(c) PROVE TypeOK'
  <2>1. Key(c) \in Keys
    BY <1>7, WorkingCallHasRequest DEF Release
  <2> QED BY <1>7, <2>1 DEF Release, States, Answers, Holding
<1>8. ASSUME NEW c \in Calls, HandOver(c) \/ SendTimesOut(c) PROVE TypeOK'
  <2>1. Sending(c) \in Keys \X Payloads
    BY <1>8, WorkingCallHasRequest DEF HandOver, SendTimesOut
  <2> QED BY <1>8, <2>1 DEF HandOver, SendTimesOut, States, Answers, Holding
<1>9. ASSUME NEW c \in Calls, Fail(c) PROVE TypeOK'
  <2>1. Owns(c) => /\ Key(c) \in Keys
                   /\ Failed(outbox[Key(c)]) \in Rows
    BY <1>9, WorkingCallHasRequest, RowWithStatus
       DEF Fail, Owns, HasStatus, Failed, Rows
  <2> QED BY <1>9, <2>1 DEF Fail, States, Answers, Holding
<1>10. ASSUME NEW c \in Calls, Commit(c) PROVE TypeOK'
  <2> DEFINE x == ProviderId(Key(c), Payload(c))
  <2>1. /\ Key(c) \in Keys /\ Payload(c) \in Payloads /\ x \in ExternalIds
    BY <1>10, WorkingCallHasRequest DEF Commit
  <2>2. CASE Owns(c)
    <3>1. Completed(outbox[Key(c)], x) \in Rows
      BY <2>1, <2>2, RowWithStatus DEF Owns, HasStatus, Completed, Rows
    <3>2. Payload(c).conversation \in Conversations /\ Payload(c).text \in Texts
      BY <2>1 DEF Payloads
    <3> QED BY <1>10, <2>1, <2>2, <3>1, <3>2
            DEF Commit, InsertMessage, States, Answers, Holding
  <2>3. CASE ~Owns(c)
    BY <1>10, <2>3 DEF Commit, States, Answers, Holding
  <2> QED BY <2>2, <2>3
<1>11. ASSUME NEW c \in Calls, Answer(c) PROVE TypeOK'
  <2>1. Sending(c) \in Keys \X Payloads
    BY <1>11, WorkingCallHasRequest DEF Answer, Answers
  <2> QED BY <1>11, <2>1 DEF Answer, States, Answers, Holding
<1>12. ASSUME NEW c \in Calls, Abort(c) PROVE TypeOK'
  <2>1. Sending(c) \in Keys \X Payloads
    BY <1>12, WorkingCallHasRequest DEF Abort
  <2> QED BY <1>12, <2>1 DEF Abort, States
<1>13. ASSUME NEW k \in Keys, Age(k) PROVE TypeOK'
  <2>1. [outbox[k] EXCEPT !.stale = TRUE] \in Rows
    BY <1>13, RowWithStatus DEF Age, HasStatus, Rows
  <2> QED BY <1>13, <2>1 DEF Age
<1>14. ASSUME NEW s \in inFlight, LateHandOver(s) \/ LateLoss(s) PROVE TypeOK'
  BY <1>14 DEF LateHandOver, LateLoss
<1>15. CASE UNCHANGED vars
  BY <1>15 DEF vars
<1> QED
  BY <1>1, <1>2, <1>3, <1>4, <1>5, <1>6, <1>7, <1>8, <1>9, <1>10, <1>11, <1>12,
     <1>13, <1>14, <1>15 DEF Next, Advance, Setback

\* The outbox, the messages and the calls keep their types (the columns of outbox and
\* messages, and what send remembers).
THEOREM TypeCorrect == Spec => []TypeOK
<1>1. Init => TypeOK
  BY NullsAreDistinct DEF Init, TypeOK, States
<1> QED BY <1>1, TypeStep, PTL DEF Spec

-----------------------------------------------------------------------------
(* Nothing that was settled is ever taken back *)

\* What only grows: completed rows stay as they are, message rows keep their
\* text (INSERT OR IGNORE), conversations stay listed, and what the provider was
\* handed stays handed.
Grows ==
  /\ \A k \in Keys : HasStatus(k, "completed") => outbox'[k] = outbox[k]
  /\ \A x \in ExternalIds : messages[x] # NoText => messages'[x] = messages[x]
  /\ listed \subseteq listed'
  /\ handed \subseteq handed'

\* Every write of the repository is guarded so that Grows holds.
LEMMA GrowthStep == TypeOK /\ [Next]_vars => Grows
<1> SUFFICES ASSUME TypeOK, [Next]_vars
             PROVE  Grows
  OBVIOUS
<1> USE DEF Grows, database, history, At, Goto
<1>1. ASSUME NEW c \in Calls,
             \/ Start(c) \/ FindRow(c) \/ Lookup(c) \/ Recheck(c) \/ Connect(c)
             \/ Reply(c) \/ Answer(c) \/ ConnectFails(c) \/ SendFails(c)
             \/ SendTimesOut(c) \/ Abort(c) \/ HandOver(c)
      PROVE  Grows
  BY <1>1 DEF Start, FindRow, Lookup, Recheck, Connect, Reply, Answer, ConnectFails,
              SendFails, SendTimesOut, Abort, HandOver
<1>2. ASSUME NEW c \in Calls, Reserve(c) PROVE Grows
  <2>1. HasStatus(Key(c), "completed") => ~Reservable(outbox[Key(c)], Payload(c))
    BY DEF HasStatus, Reservable
  <2> QED BY <1>2, <2>1 DEF Reserve, TypeOK
<1>3. ASSUME NEW c \in Calls, Release(c) \/ Fail(c) PROVE Grows
  BY <1>3 DEF Release, Fail, Owns, HasStatus, TypeOK
<1>4. ASSUME NEW c \in Calls, Commit(c) PROVE Grows
  BY <1>4 DEF Commit, InsertMessage, Owns, HasStatus, TypeOK
<1>5. ASSUME NEW k \in Keys, Age(k) PROVE Grows
  BY <1>5 DEF Age, HasStatus, TypeOK
<1>6. ASSUME NEW s \in inFlight, LateHandOver(s) \/ LateLoss(s) PROVE Grows
  BY <1>6 DEF LateHandOver, LateLoss
<1>7. CASE UNCHANGED vars
  BY <1>7 DEF vars
<1> QED
  BY <1>1, <1>2, <1>3, <1>4, <1>5, <1>6, <1>7 DEF Next, Advance, Setback

-----------------------------------------------------------------------------
(* The inductive invariant *)

Consistent ==
  CompletedIsVisible /\ MessagesAreVouchedFor /\ CallsKnowTheirKey /\ SettlementIsReal

IInv == TypeOK /\ Consistent

\* A call that a step leaves where it is, whose key's row the step leaves alone
\* or takes from it, still knows what it knew.
LEMMA BystanderKnows ==
  ASSUME TypeOK, Grows, NEW d \in Calls, Knows(d),
         UNCHANGED <<pc[d], req[d], found[d]>>,
         pc[d] # "idle" /\ Owns(d)' =>
           Owns(d) /\ outbox'[Key(d)].payload = outbox[Key(d)].payload
  PROVE  Knows(d)'
<1>1. CASE pc[d] = "idle"
  BY <1>1 DEF Knows, At, Holding
<1>2. CASE pc[d] # "idle"
  <2>1. Key(d) \in Keys
    BY <1>2, WorkingCallHasRequest
  <2> QED
    BY <1>2, <2>1 DEF Knows, Grows, At, Holding, Owns, HasStatus, SettledOn, Key,
                      Payload, Sending
<1> QED BY <1>1, <1>2

\* A step that completes no row, writes no message and acknowledges nothing
\* keeps the invariant if every call still knows its key after it.
LEMMA OpenStep ==
  ASSUME IInv, Grows, UNCHANGED <<messages, acks>>,
         \A k \in Keys : HasStatus(k, "completed")' => HasStatus(k, "completed"),
         \A d \in Calls : Knows(d)'
  PROVE  Consistent'
<1>1. CompletedIsVisible'
  BY DEF IInv, TypeOK, Consistent, CompletedIsVisible, Grows, HasStatus
<1>2. MessagesAreVouchedFor'
  <2> SUFFICES ASSUME NEW x \in ExternalIds, messages[x] # NoText
               PROVE  /\ HasStatus(x[2], "completed")'
                      /\ outbox'[x[2]].payload = [conversation |-> x[1], text |-> messages[x]]
    BY DEF MessagesAreVouchedFor
  <2>1. x[2] \in Keys
    BY DEF ExternalIds
  <2> QED
    BY <2>1 DEF IInv, Consistent, MessagesAreVouchedFor, Grows, HasStatus
<1>3. SettlementIsReal'
  <2>1. ASSUME NEW s \in acks PROVE SettledOn(s[1], s[2])'
    <3>1. s[1] \in Keys
      BY DEF IInv, TypeOK
    <3> QED BY <3>1 DEF IInv, Consistent, SettlementIsReal, SettledOn, Grows, HasStatus
  <2>2. ASSUME NEW k \in Keys, HasStatus(k, "completed")'
        PROVE  <<k, outbox'[k].payload>> \in handed'
    BY <2>2 DEF IInv, Consistent, SettlementIsReal, Grows
  <2> QED BY <2>1, <2>2 DEF SettlementIsReal
<1> QED BY <1>1, <1>2, <1>3 DEF Consistent, CallsKnowTheirKey

\* In particular a step that touches neither the tables nor the history: only
\* the call that moved has to be looked at.
LEMMA QuietStep ==
  ASSUME IInv, UNCHANGED <<outbox, messages, listed, handed, acks>>,
         NEW c \in Calls, Knows(c)',
         \A d \in Calls \ {c} : UNCHANGED <<pc[d], req[d], found[d]>>
  PROVE  Consistent'
<1>1. ASSUME NEW d \in Calls, d # c PROVE Knows(d)'
  <2>1. Knows(d) /\ TypeOK
    BY DEF IInv, Consistent, CallsKnowTheirKey
  <2>2. Grows
    BY DEF Grows
  <2>3. Owns(d)' => Owns(d) /\ outbox'[Key(d)].payload = outbox[Key(d)].payload
    BY <1>1 DEF Owns, HasStatus, Key
  <2> QED BY <1>1, <2>1, <2>2, <2>3, BystanderKnows
<1>2. \A d \in Calls : Knows(d)'
  BY <1>1
<1>3. Grows
  BY DEF Grows
<1> QED BY <1>2, <1>3, OpenStep DEF HasStatus

\* The invariant is inductive.
LEMMA InvariantStep == IInv /\ [Next]_vars => IInv'
<1> SUFFICES ASSUME IInv, [Next]_vars
             PROVE  Consistent'
  BY TypeStep DEF IInv
<1> USE DEF database, history, At, Goto
<1>t. TypeOK /\ TypeOK' /\ Grows
  BY TypeStep, GrowthStep DEF IInv
<1>k. ASSUME NEW d \in Calls PROVE Knows(d)
  BY <1>k DEF IInv, Consistent, CallsKnowTheirKey
<1>1. ASSUME NEW c \in Calls, Start(c) PROVE Consistent'
  <2>1. Knows(c)'
    BY <1>1, <1>t DEF Start, Knows, Holding, TypeOK
  <2> QED BY <1>1, <2>1, QuietStep, <1>t DEF Start, TypeOK
<1>2. ASSUME NEW c \in Calls, FindRow(c) PROVE Consistent'
  <2>1. Knows(c)'
    BY <1>2, <1>t DEF FindRow, Knows, Holding, TypeOK, Key, HasStatus
  <2> QED BY <1>2, <2>1, QuietStep, <1>t DEF FindRow, TypeOK
<1>3. ASSUME NEW c \in Calls, Lookup(c) PROVE Consistent'
  <2> DEFINE x == found[c]
  <2>1. /\ Key(c) \in Keys /\ HasStatus(Key(c), "completed")
        /\ x = ProviderId(Key(c), outbox[Key(c)].payload)
        /\ messages[x] = outbox[Key(c)].payload.text
        /\ outbox[Key(c)].payload \in Payloads
    BY <1>3, <1>k, <1>t, WorkingCallHasRequest, RowWithStatus
       DEF Lookup, Knows, IInv, Consistent, CompletedIsVisible, HasStatus, Rows
  <2>2. messages[x] # NoText
    BY <2>1, NullsAreDistinct DEF Payloads
  <2>3. [conversation |-> x[1], text |-> messages[x]] = outbox[Key(c)].payload
    BY <2>1 DEF ProviderId, Payloads
  <2>4. Knows(c)'
    BY <1>3, <1>t, <2>1, <2>2, <2>3
       DEF Lookup, SamePayload, Knows, Holding, TypeOK, SettledOn, Key, Payload, HasStatus
  <2> QED BY <1>3, <2>4, QuietStep, <1>t DEF Lookup, TypeOK
<1>4. ASSUME NEW c \in Calls, Recheck(c) \/ ConnectFails(c) \/ SendFails(c) \/ Connect(c)
      PROVE  Consistent'
  <2>1. Knows(c)'
    BY <1>4, <1>k, <1>t
       DEF Recheck, ConnectFails, SendFails, Connect, Knows, Holding, TypeOK, Owns,
           HasStatus, Key, Payload
  <2> QED
    BY <1>4, <2>1, QuietStep, <1>t DEF Recheck, ConnectFails, SendFails, Connect, TypeOK
<1>5. ASSUME NEW c \in Calls, Reply(c) \/ SendTimesOut(c) PROVE Consistent'
  <2>1. Knows(c)'
    BY <1>5, <1>k, <1>t
       DEF Reply, SendTimesOut, Knows, Holding, TypeOK, Owns, HasStatus, Key, Payload,
           Sending
  <2> QED BY <1>5, <2>1, QuietStep, <1>t DEF Reply, SendTimesOut, TypeOK
<1>6. ASSUME NEW c \in Calls, Abort(c) PROVE Consistent'
  <2>1. Knows(c)'
    BY <1>6, <1>t DEF Abort, Knows, Holding, TypeOK
  <2> QED BY <1>6, <2>1, QuietStep, <1>t DEF Abort, TypeOK
<1>7. ASSUME NEW c \in Calls, Reserve(c) PROVE Consistent'
  <2>1. Key(c) \in Keys /\ Payload(c) \in Payloads
    BY <1>7, <1>t, WorkingCallHasRequest DEF Reserve
  <2>2. CASE ~Reservable(outbox[Key(c)], Payload(c))
    <3>1. Knows(c)'
      BY <1>7, <2>2, <1>t DEF Reserve, Knows, Holding, TypeOK
    <3> QED BY <1>7, <2>2, <3>1, QuietStep, <1>t DEF Reserve, TypeOK
  <2>3. CASE Reservable(outbox[Key(c)], Payload(c))
    <3>0. outbox' = [outbox EXCEPT ![Key(c)] = Reserved(c)] /\ Goto(c, "connect")
      BY <1>7, <2>3 DEF Reserve
    <3>1. Knows(c)'
      BY <1>7, <2>1, <3>0, <1>t DEF Reserve, Reserved, Knows, Holding, TypeOK, Key, Payload
    <3>2. ASSUME NEW d \in Calls, d # c PROVE Knows(d)'
      <4>1. Owns(d)' => Owns(d) /\ outbox'[Key(d)].payload = outbox[Key(d)].payload
        BY <1>7, <2>1, <3>0, <3>2, <1>t
           DEF Reserve, Reserved, Owns, HasStatus, Key, TypeOK
      <4> QED BY <1>7, <3>2, <4>1, <1>t, <1>k, BystanderKnows DEF Reserve, TypeOK
    <3>3. \A k \in Keys : HasStatus(k, "completed")' => HasStatus(k, "completed")
      BY <2>1, <3>0, <1>t DEF HasStatus, Reserved, TypeOK
    <3> QED BY <1>7, <3>1, <3>2, <3>3, <1>t, OpenStep DEF Reserve
  <2> QED BY <1>7, <2>2, <2>3 DEF Reserve
<1>8. ASSUME NEW c \in Calls, Release(c) \/ Fail(c) PROVE Consistent'
  <2>1. Key(c) \in Keys
    BY <1>8, <1>t, WorkingCallHasRequest DEF Release, Fail
  <2>2. Knows(c)'
    BY <1>8, <1>t DEF Release, Fail, Knows, Holding, TypeOK
  <2>w. /\ \A k \in Keys \ {Key(c)} : outbox'[k] = outbox[k]
        /\ \/ outbox'[Key(c)] = outbox[Key(c)]
           \/ outbox'[Key(c)] = NoRow
           \/ outbox'[Key(c)].status = "retryable"
    <3>1. Owns(c) => outbox[Key(c)] \in Rows
      BY <2>1, <1>t, RowWithStatus DEF Owns, HasStatus
    <3>2. Owns(c) => Failed(outbox[Key(c)]).status = "retryable"
      BY <3>1 DEF Failed, Rows
    <3> QED BY <1>8, <2>1, <3>2, <1>t DEF Release, Fail, TypeOK
  <2>3. \A k \in Keys : HasStatus(k, "completed")' => HasStatus(k, "completed")
    BY <2>w DEF HasStatus
  <2>4. ASSUME NEW d \in Calls, d # c PROVE Knows(d)'
    <3>1. pc[d] # "idle" /\ Owns(d)' =>
            Owns(d) /\ outbox'[Key(d)].payload = outbox[Key(d)].payload
      <4>1. Key(d)' = Key(d)
        BY <1>8 DEF Release, Fail, Key
      <4>2. pc[d] # "idle" => Key(d) \in Keys
        BY <1>t, WorkingCallHasRequest
      <4> QED BY <4>1, <4>2, <2>w DEF Owns, HasStatus
    <3> QED BY <1>8, <2>4, <3>1, <1>t, <1>k, BystanderKnows DEF Release, Fail, TypeOK
  <2> QED BY <1>8, <2>2, <2>3, <2>4, <1>t, OpenStep DEF Release, Fail
<1>9. ASSUME NEW c \in Calls, HandOver(c) PROVE Consistent'
  <2>1. Knows(c)'
    BY <1>9, <1>k, <1>t
       DEF HandOver, Knows, Holding, TypeOK, Owns, HasStatus, Key, Payload, Sending
  <2>2. ASSUME NEW d \in Calls, d # c PROVE Knows(d)'
    <3>1. Owns(d)' => Owns(d) /\ outbox'[Key(d)].payload = outbox[Key(d)].payload
      BY <1>9 DEF HandOver, Owns, HasStatus, Key
    <3> QED BY <1>9, <2>2, <3>1, <1>t, <1>k, BystanderKnows DEF HandOver, TypeOK
  <2> QED BY <1>9, <2>1, <2>2, <1>t, OpenStep DEF HandOver, HasStatus
<1>10. ASSUME NEW c \in Calls, Commit(c) PROVE Consistent'
  <2> DEFINE k0 == Key(c)
             p0 == Payload(c)
             x0 == ProviderId(k0, p0)
  <2>1. k0 \in Keys /\ p0 \in Payloads /\ x0 \in ExternalIds
    BY <1>10, <1>t, WorkingCallHasRequest DEF Commit
  <2>2. CASE ~Owns(c)
    <3>1. Knows(c)'
      BY <1>10, <2>2, <1>t DEF Commit, Knows, Holding, TypeOK
    <3> QED BY <1>10, <2>2, <3>1, QuietStep, <1>t DEF Commit, TypeOK
  <2>3. CASE Owns(c)
    <3>1. /\ outbox[k0] \in Rows /\ outbox[k0].payload = p0
          /\ <<k0, p0>> \in handed
      BY <1>10, <2>1, <2>3, <1>k, <1>t, RowWithStatus
         DEF Commit, Knows, Holding, Owns, HasStatus, Sending
    <3>2. messages[x0] = NoText
      <4>1. x0[2] = k0
        BY DEF ProviderId
      <4> QED
        BY <2>1, <2>3, <4>1 DEF IInv, Consistent, MessagesAreVouchedFor, Owns, HasStatus
    <3>3. /\ outbox' = [outbox EXCEPT ![k0] = Completed(@, x0)]
          /\ listed' = listed \union {p0.conversation}
          /\ messages' = [messages EXCEPT ![x0] = p0.text]
          /\ pc' = [pc EXCEPT ![c] = "success"]
          /\ UNCHANGED <<req, found, handed, inFlight, acks>>
      BY <1>10, <2>3, <3>2, <2>1, <1>t DEF Commit, InsertMessage, TypeOK
    <3>4. /\ outbox'[k0].status = "completed" /\ outbox'[k0].payload = p0
          /\ outbox'[k0].external = x0 /\ outbox'[k0] # NoRow
          /\ messages'[x0] = p0.text /\ p0.conversation \in listed'
      <4> DEFINE row == Completed(outbox[k0], x0)
      <4>1. /\ row \in Rows /\ row.status = "completed" /\ row.payload = p0
            /\ row.external = x0
        BY <3>1, <2>1 DEF Completed, Rows
      <4>2. outbox'[k0] = row
        BY <3>3, <2>1, <1>t DEF TypeOK
      <4>3. messages'[x0] = p0.text /\ p0.conversation \in listed'
        BY <3>3, <2>1, <1>t DEF TypeOK
      <4> HIDE DEF row
      <4> QED BY <4>1, <4>2, <4>3, NullsAreDistinct
    <3>5. \A k \in Keys \ {k0} : outbox'[k] = outbox[k]
      BY <3>3, <1>t DEF TypeOK
    <3>6. \A x \in ExternalIds \ {x0} : messages'[x] = messages[x]
      BY <3>3, <1>t DEF TypeOK
    <3>7. CompletedIsVisible'
      <4> SUFFICES ASSUME NEW k \in Keys, HasStatus(k, "completed")'
                   PROVE  LET p == outbox'[k].payload
                          IN  /\ outbox'[k].external = ProviderId(k, p)
                              /\ messages'[outbox'[k].external] = p.text
                              /\ p.conversation \in listed'
        BY DEF CompletedIsVisible
      <4>1. CASE k = k0
        BY <4>1, <3>4
      <4>2. CASE k # k0
        <5> DEFINE p == outbox[k].payload
        <5>1. outbox'[k] = outbox[k] /\ HasStatus(k, "completed")
          BY <4>2, <3>5 DEF HasStatus
        <5>2. /\ outbox[k].external = ProviderId(k, p)
              /\ messages[outbox[k].external] = p.text
              /\ p.conversation \in listed
          BY <5>1 DEF IInv, Consistent, CompletedIsVisible
        <5>3. p \in Payloads
          BY <5>1, <1>t, RowWithStatus DEF HasStatus, Rows
        <5>4. ProviderId(k, p) \in ExternalIds /\ p.text # NoText
          BY <5>3, NullsAreDistinct DEF Payloads, ProviderId, ExternalIds
        <5>5. messages'[outbox[k].external] = p.text
          BY <5>2, <5>4, <1>t DEF Grows
        <5> QED BY <5>1, <5>2, <5>5, <1>t DEF Grows
      <4> QED BY <4>1, <4>2
    <3>8. MessagesAreVouchedFor'
      <4> SUFFICES ASSUME NEW x \in ExternalIds, messages'[x] # NoText
                   PROVE  /\ HasStatus(x[2], "completed")'
                          /\ outbox'[x[2]].payload =
                               [conversation |-> x[1], text |-> messages'[x]]
        BY DEF MessagesAreVouchedFor
      <4>1. CASE x = x0
        <5>1. p0 = [conversation |-> x[1], text |-> p0.text] /\ x[2] = k0
          BY <4>1, <2>1 DEF ProviderId, Payloads
        <5> QED BY <4>1, <5>1, <3>4 DEF HasStatus
      <4>2. CASE x # x0
        <5>1. x[2] \in Keys /\ messages[x] # NoText /\ messages'[x] = messages[x]
          BY <4>2, <3>6 DEF ExternalIds
        <5> QED
          BY <5>1, <1>t DEF IInv, Consistent, MessagesAreVouchedFor, Grows, HasStatus
      <4> QED BY <4>1, <4>2
    <3>9. ASSUME NEW d \in Calls PROVE Knows(d)'
      <4>1. CASE d = c
        BY <4>1, <3>3, <3>4, <2>1, <1>t
           DEF Knows, Holding, TypeOK, SettledOn, HasStatus, Key, Payload
      <4>2. CASE d # c
        <5>1. Owns(d)' => Owns(d) /\ outbox'[Key(d)].payload = outbox[Key(d)].payload
          BY <3>3, <3>4, <2>1, <2>3, <1>t DEF Owns, HasStatus, Key, TypeOK
        <5> QED BY <4>2, <3>3, <5>1, <1>t, <1>k, BystanderKnows DEF TypeOK
      <4> QED BY <4>1, <4>2
    <3>10. SettlementIsReal'
      <4>1. ASSUME NEW s \in acks PROVE SettledOn(s[1], s[2])'
        <5>1. s[1] \in Keys
          BY <1>t DEF TypeOK
        <5> QED
          BY <5>1, <1>t DEF IInv, Consistent, SettlementIsReal, SettledOn, Grows, HasStatus
      <4>2. ASSUME NEW k \in Keys, HasStatus(k, "completed")'
            PROVE  <<k, outbox'[k].payload>> \in handed'
        BY <4>2, <3>1, <3>3, <3>4, <3>5
           DEF IInv, Consistent, SettlementIsReal, HasStatus
      <4> QED BY <4>1, <4>2, <3>3 DEF SettlementIsReal
    <3> QED BY <3>7, <3>8, <3>9, <3>10 DEF Consistent, CallsKnowTheirKey
  <2> QED BY <2>2, <2>3
<1>11. ASSUME NEW c \in Calls, Answer(c) PROVE Consistent'
  <2>1. ASSUME NEW d \in Calls PROVE Knows(d)'
    <3>1. CASE d = c
      BY <3>1, <1>11, <1>t DEF Answer, Knows, Holding, TypeOK
    <3>2. CASE d # c
      <4>1. Owns(d)' => Owns(d) /\ outbox'[Key(d)].payload = outbox[Key(d)].payload
        BY <1>11, <3>2, <1>t DEF Answer, Owns, HasStatus, Key, TypeOK
      <4> QED BY <1>11, <3>2, <4>1, <1>t, <1>k, BystanderKnows DEF Answer, TypeOK
    <3> QED BY <3>1, <3>2
  <2>2. At(c, "success") => SettledOn(Key(c), Payload(c))
    BY <1>k DEF Knows
  <2>3. SettlementIsReal'
    BY <1>11, <2>2
       DEF Answer, IInv, Consistent, SettlementIsReal, SettledOn, HasStatus, Sending
  <2> QED
    BY <1>11, <2>1, <2>3
       DEF Answer, IInv, Consistent, CompletedIsVisible, MessagesAreVouchedFor,
           CallsKnowTheirKey, HasStatus
<1>12. ASSUME NEW k \in Keys, Age(k) PROVE Consistent'
  <2>1. ASSUME NEW d \in Calls PROVE Knows(d)'
    <3>1. Owns(d)' => Owns(d) /\ outbox'[Key(d)].payload = outbox[Key(d)].payload
      BY <1>12, <1>t DEF Age, Owns, HasStatus, Key, TypeOK
    <3> QED BY <1>12, <3>1, <1>t, <1>k, BystanderKnows DEF Age
  <2>2. \A j \in Keys : HasStatus(j, "completed")' => HasStatus(j, "completed")
    BY <1>12, <1>t DEF Age, HasStatus, TypeOK
  <2> QED BY <1>12, <2>1, <2>2, <1>t, OpenStep DEF Age
<1>13. ASSUME NEW s \in inFlight, LateHandOver(s) \/ LateLoss(s) PROVE Consistent'
  <2>1. ASSUME NEW d \in Calls PROVE Knows(d)'
    <3>1. Owns(d)' => Owns(d) /\ outbox'[Key(d)].payload = outbox[Key(d)].payload
      BY <1>13 DEF LateHandOver, LateLoss, Owns, HasStatus, Key
    <3> QED
      BY <1>13, <3>1, <1>t, <1>k, BystanderKnows DEF LateHandOver, LateLoss
  <2> QED BY <1>13, <2>1, <1>t, OpenStep DEF LateHandOver, LateLoss, HasStatus
<1>14. CASE UNCHANGED vars
  <2>1. ASSUME NEW d \in Calls PROVE Knows(d)'
    <3>1. Owns(d)' => Owns(d) /\ outbox'[Key(d)].payload = outbox[Key(d)].payload
      BY <1>14 DEF vars, Owns, HasStatus, Key
    <3> QED BY <1>14, <3>1, <1>t, <1>k, BystanderKnows DEF vars
  <2> QED BY <1>14, <2>1, <1>t, OpenStep DEF vars, HasStatus
<1> QED
  BY <1>1, <1>2, <1>3, <1>4, <1>5, <1>6, <1>7, <1>8, <1>9, <1>10, <1>11, <1>12, <1>13,
     <1>14 DEF Next, Advance, Setback

\* In every reachable state a completed key can be read back, message rows belong
\* to completed keys, calls are right about their key, and settlements are real.
THEOREM Invariant == Spec => []IInv
<1>1. Init => IInv
  <2> SUFFICES ASSUME Init PROVE IInv
    OBVIOUS
  <2>1. TypeOK
    BY NullsAreDistinct DEF Init, TypeOK, States
  <2>2. Consistent
    BY DEF Init, Consistent, CompletedIsVisible, MessagesAreVouchedFor, CallsKnowTheirKey,
           Knows, SettlementIsReal, HasStatus, At, Holding
  <2> QED BY <2>1, <2>2 DEF IInv
<1> QED BY <1>1, InvariantStep, PTL DEF Spec

\* A completed key has its message row and its conversation, whatever calls
\* overlap or stop (commitDelivery).
THEOREM CompletedVisible == Spec => []CompletedIsVisible
<1>1. IInv => CompletedIsVisible
  BY DEF IInv, Consistent
<1> QED BY <1>1, Invariant, PTL

\* No message row without the completed key that vouches for it.
THEOREM MessagesVouchedFor == Spec => []MessagesAreVouchedFor
<1>1. IInv => MessagesAreVouchedFor
  BY DEF IInv, Consistent
<1> QED BY <1>1, Invariant, PTL

\* What a call read before an await is still true when it acts on it.
THEOREM CallsKnow == Spec => []CallsKnowTheirKey
<1>1. IInv => CallsKnowTheirKey
  BY DEF IInv, Consistent
<1> QED BY <1>1, Invariant, PTL

\* Keys are completed and clients are answered only with what was handed over.
THEOREM SettlementsReal == Spec => []SettlementIsReal
<1>1. IInv => SettlementIsReal
  BY DEF IInv, Consistent
<1> QED BY <1>1, Invariant, PTL

-----------------------------------------------------------------------------
(* One text per key, up to a release *)

\* Whether p is on its way under key k, or was handed over: a call that holds a
\* reservation may still hand it over, whether it has lost that reservation or not.
Used(k, p) ==
  \/ <<k, p>> \in handed \union inFlight
  \/ \E c \in Calls : pc[c] \in Holding /\ req[c] = [key |-> k, payload |-> p]

\* Until its first release a key is used with the payload of its row only, and not
\* at all while it has no row.
RowHasTheText ==
  \A k \in Keys \ released, p \in Payloads :
    Used(k, p) => outbox[k] # NoRow /\ outbox[k].payload = p

\* What a call that is at work was asked to send.
LEMMA RequestOfCall ==
  ASSUME TypeOK, NEW c \in Calls, pc[c] # "idle"
  PROVE  req[c] = [key |-> Key(c), payload |-> Payload(c)]
BY WorkingCallHasRequest DEF Requests, Key, Payload

\* A step under which nothing comes into use and every row keeps its payload.
LEMMA TextKept ==
  ASSUME TypeOK, RowHasTheText, released \subseteq released',
         \A k \in Keys \ released', p \in Payloads : Used(k, p)' => Used(k, p),
         \A k \in Keys \ released' :
           outbox[k] # NoRow => outbox'[k] # NoRow /\ outbox'[k].payload = outbox[k].payload
  PROVE  RowHasTheText'
BY DEF RowHasTheText

\* Only Reserve brings a payload into use, and only where there was no row or a row
\* with that payload; only Release takes a row away.
LEMMA TextStep ==
  ASSUME TypeOK, RowHasTheText, [Next]_vars
  PROVE  RowHasTheText'
<1> USE DEF database, history, At, Goto
<1>1. ASSUME NEW c \in Calls,
             \/ Start(c) \/ FindRow(c) \/ Lookup(c) \/ Recheck(c) \/ Connect(c)
             \/ ConnectFails(c) \/ Reply(c) \/ SendFails(c) \/ Answer(c)
      PROVE  RowHasTheText'
  <2>1. /\ UNCHANGED <<outbox, handed, inFlight, released>>
        /\ \A d \in Calls : pc'[d] \in Holding => pc[d] \in Holding /\ req'[d] = req[d]
    BY <1>1 DEF Start, FindRow, Lookup, Recheck, Connect, ConnectFails, Reply, SendFails,
                Answer, Answers, Holding, TypeOK
  <2>2. \A k \in Keys, p \in Payloads : Used(k, p)' => Used(k, p)
    BY <2>1 DEF Used
  <2> QED BY <2>1, <2>2, TextKept
<1>2. ASSUME NEW c \in Calls, HandOver(c) \/ SendTimesOut(c) \/ Abort(c)
      PROVE  RowHasTheText'
  <2>1. req[c] = [key |-> Key(c), payload |-> Payload(c)]
    BY <1>2, RequestOfCall DEF HandOver, SendTimesOut, Abort
  <2>2. /\ UNCHANGED <<outbox, released>>
        /\ \A d \in Calls : pc'[d] \in Holding => pc[d] \in Holding /\ req'[d] = req[d]
        /\ \/ handed' \union inFlight' = handed \union inFlight
           \/ /\ pc[c] \in Holding
              /\ handed' \union inFlight' = (handed \union inFlight) \union {Sending(c)}
    BY <1>2 DEF HandOver, SendTimesOut, Abort, Holding, TypeOK
  <2>3. \A k \in Keys, p \in Payloads : Used(k, p)' => Used(k, p)
    BY <2>1, <2>2 DEF Used, Sending
  <2> QED BY <2>2, <2>3, TextKept
<1>3. ASSUME NEW c \in Calls, Reserve(c) PROVE RowHasTheText'
  <2>1. /\ Key(c) \in Keys /\ Payload(c) \in Payloads
        /\ req[c] = [key |-> Key(c), payload |-> Payload(c)]
    BY <1>3, WorkingCallHasRequest, RequestOfCall DEF Reserve
  <2>2. CASE ~Reservable(outbox[Key(c)], Payload(c))
    <3>1. /\ UNCHANGED <<outbox, handed, inFlight, released>>
          /\ \A d \in Calls : pc'[d] \in Holding => pc[d] \in Holding /\ req'[d] = req[d]
      BY <1>3, <2>2 DEF Reserve, Holding, TypeOK
    <3>2. \A k \in Keys, p \in Payloads : Used(k, p)' => Used(k, p)
      BY <3>1 DEF Used
    <3> QED BY <3>1, <3>2, TextKept
  <2>3. CASE Reservable(outbox[Key(c)], Payload(c))
    <3>1. /\ outbox' = [outbox EXCEPT ![Key(c)] = Reserved(c)]
          /\ UNCHANGED <<req, handed, inFlight, released>>
          /\ \A d \in Calls \ {c} : pc'[d] = pc[d]
          /\ outbox[Key(c)] = NoRow \/ outbox[Key(c)].payload = Payload(c)
      BY <1>3, <2>3 DEF Reserve, Reservable, TypeOK
    <3>2. Reserved(c) \in Rows /\ Reserved(c) # NoRow /\ Reserved(c).payload = Payload(c)
      <4>1. Reserved(c) \in Rows
        BY <2>1 DEF Reserved, Rows
      <4>2. Reserved(c).payload = Payload(c)
        BY DEF Reserved
      <4> QED BY <4>1, <4>2, NullsAreDistinct
    <3>3. SUFFICES ASSUME NEW k \in Keys \ released, NEW p \in Payloads, Used(k, p)'
                   PROVE  outbox'[k] # NoRow /\ outbox'[k].payload = p
      BY <3>1 DEF RowHasTheText
    <3>4. Used(k, p) \/ (k = Key(c) /\ p = Payload(c))
      BY <2>1, <3>1, <3>3 DEF Used
    <3>5. CASE k = Key(c) /\ p = Payload(c)
      BY <3>1, <3>2, <3>5 DEF TypeOK
    <3>6. CASE Used(k, p)
      <4>1. outbox[k] # NoRow /\ outbox[k].payload = p
        BY <3>6 DEF RowHasTheText
      <4> QED BY <3>1, <3>2, <4>1 DEF TypeOK
    <3> QED BY <3>4, <3>5, <3>6
  <2> QED BY <2>2, <2>3
<1>4. ASSUME NEW c \in Calls, Release(c) \/ Fail(c) \/ Commit(c) PROVE RowHasTheText'
  <2>1. /\ UNCHANGED <<handed, inFlight>>
        /\ released \subseteq released'
        /\ \A d \in Calls : pc'[d] \in Holding => pc[d] \in Holding /\ req'[d] = req[d]
    BY <1>4 DEF Release, Fail, Commit, Holding, TypeOK
  <2>2. \A k \in Keys, p \in Payloads : Used(k, p)' => Used(k, p)
    BY <2>1 DEF Used
  <2>3. ASSUME NEW k \in Keys \ released', outbox[k] # NoRow
        PROVE  outbox'[k] # NoRow /\ outbox'[k].payload = outbox[k].payload
    <3>1. CASE outbox'[k] = outbox[k]
      BY <2>3, <3>1
    <3>2. CASE outbox'[k] # outbox[k]
      <4>1. /\ k = Key(c)
            /\ \/ outbox'[k] = Failed(outbox[k])
               \/ outbox'[k] = Completed(outbox[k], ProviderId(Key(c), Payload(c)))
        BY <1>4, <2>3, <3>2 DEF Release, Fail, Commit, TypeOK
      <4>2. outbox[k] \in Rows /\ ProviderId(Key(c), Payload(c)) \in ExternalIds
        BY <1>4, <2>3, RowWithStatus, WorkingCallHasRequest DEF Release, Fail, Commit
      <4>3. outbox'[k] \in Rows /\ outbox'[k].payload = outbox[k].payload
        BY <4>1, <4>2 DEF Failed, Completed, Rows
      <4> QED BY <4>3, NullsAreDistinct
    <3> QED BY <3>1, <3>2
  <2> QED BY <2>1, <2>2, <2>3, TextKept
<1>5. ASSUME NEW k \in Keys, Age(k) PROVE RowHasTheText'
  <2>1. UNCHANGED <<pc, req, handed, inFlight, released>>
    BY <1>5 DEF Age
  <2>2. \A j \in Keys, p \in Payloads : Used(j, p)' => Used(j, p)
    BY <2>1 DEF Used
  <2>3. ASSUME NEW j \in Keys, outbox[j] # NoRow
        PROVE  outbox'[j] # NoRow /\ outbox'[j].payload = outbox[j].payload
    <3>1. outbox[j] \in Rows
      BY <2>3, RowWithStatus
    <3>2. [outbox[j] EXCEPT !.stale = TRUE] \in Rows
      BY <3>1 DEF Rows
    <3>3. outbox'[j] \in {outbox[j], [outbox[j] EXCEPT !.stale = TRUE]}
      BY <1>5 DEF Age, TypeOK
    <3>4. [outbox[j] EXCEPT !.stale = TRUE].payload = outbox[j].payload
      BY <3>1 DEF Rows
    <3> QED BY <3>1, <3>2, <3>3, <3>4, NullsAreDistinct
  <2> QED BY <2>1, <2>2, <2>3, TextKept
<1>6. ASSUME NEW s \in inFlight, LateHandOver(s) \/ LateLoss(s) PROVE RowHasTheText'
  <2>1. /\ UNCHANGED <<pc, req, outbox, released>>
        /\ handed' \union inFlight' \subseteq handed \union inFlight
    BY <1>6 DEF LateHandOver, LateLoss
  <2>2. \A k \in Keys, p \in Payloads : Used(k, p)' => Used(k, p)
    BY <2>1 DEF Used
  <2> QED BY <2>1, <2>2, TextKept
<1>7. CASE UNCHANGED vars
  <2>1. \A k \in Keys, p \in Payloads : Used(k, p)' => Used(k, p)
    BY <1>7 DEF vars, Used
  <2> QED BY <1>7, <2>1, TextKept DEF vars
<1> QED
  BY <1>1, <1>2, <1>3, <1>4, <1>5, <1>6, <1>7 DEF Next, Advance, Setback

\* A key that was never released was handed to the provider with one text, however many
\* calls took it over and however late their requests arrived (the payload comparison
\* of reserveIdempotencyKey).
THEOREM OneText == Spec => []OneTextUnlessReleased
<1>1. Init => RowHasTheText
  BY DEF Init, RowHasTheText, Used, Holding
<1>2. TypeOK /\ RowHasTheText => OneTextUnlessReleased
  <2> SUFFICES ASSUME TypeOK, RowHasTheText, NEW s \in handed, NEW t \in handed,
                      s[1] = t[1], s[1] \notin released
               PROVE  s = t
    BY DEF OneTextUnlessReleased
  <2>1. PICK k \in Keys, p \in Payloads, q \in Payloads : s = <<k, p>> /\ t = <<k, q>>
    BY DEF TypeOK
  <2>2. Used(k, p) /\ Used(k, q)
    BY <2>1 DEF Used
  <2> QED BY <2>1, <2>2 DEF RowHasTheText
<1> QED BY <1>1, <1>2, TextStep, TypeCorrect, PTL DEF Spec

-----------------------------------------------------------------------------
(* Exclusive reservations *)

\* Only a reservation that went stale marks its key, and only such a one can be taken
\* from a call that is at work under it.
Exclusive ==
  /\ HoldersOwnTheirKey
  /\ \A k \in Keys \ aged : HasStatus(k, "pending") => ~outbox[k].stale

\* A step that leaves the rows alone and gives no call a reservation.
LEMMA RowsKept ==
  ASSUME TypeOK, Exclusive, UNCHANGED <<outbox, aged>>,
         \A d \in Calls : pc'[d] \in Holding => pc[d] \in Holding /\ req'[d] = req[d]
  PROVE  Exclusive'
BY DEF Exclusive, HoldersOwnTheirKey, Owns, HasStatus, Key

\* A step that gives a key a holder finds it without one, and no step of another call ends
\* its row.
LEMMA ExclusiveStep ==
  ASSUME TypeOK, Exclusive, [Next]_vars
  PROVE  Exclusive'
<1> USE DEF database, history, At, Goto
<1>1. ASSUME NEW c \in Calls,
             \/ Start(c) \/ FindRow(c) \/ Lookup(c) \/ Recheck(c) \/ Connect(c)
             \/ ConnectFails(c) \/ Reply(c) \/ SendFails(c) \/ Answer(c)
             \/ HandOver(c) \/ SendTimesOut(c) \/ Abort(c)
      PROVE  Exclusive'
  BY <1>1, RowsKept
     DEF Start, FindRow, Lookup, Recheck, Connect, ConnectFails, Reply, SendFails, Answer,
         HandOver, SendTimesOut, Abort, Answers, Holding, TypeOK
<1>2. ASSUME NEW c \in Calls, Reserve(c) PROVE Exclusive'
  <2>1. Key(c) \in Keys
    BY <1>2, WorkingCallHasRequest DEF Reserve
  <2>2. CASE ~Reservable(outbox[Key(c)], Payload(c))
    BY <1>2, <2>2, RowsKept DEF Reserve, Holding, TypeOK
  <2>3. CASE Reservable(outbox[Key(c)], Payload(c))
    <3>1. /\ outbox' = [outbox EXCEPT ![Key(c)] = Reserved(c)]
          /\ UNCHANGED <<req, aged>>
          /\ \A d \in Calls \ {c} : pc'[d] = pc[d]
      BY <1>2, <2>3 DEF Reserve, TypeOK
    <3>2. /\ Reserved(c).status = "pending" /\ Reserved(c).owner = c
          /\ Reserved(c).stale = FALSE
      BY DEF Reserved
    <3>3. Reserved(c) # NoRow
      <4>1. Reserved(c) \in Rows
        BY <1>2, WorkingCallHasRequest DEF Reserve, Reserved, Rows
      <4> QED BY <4>1, NullsAreDistinct
    <3>4. Key(c) \notin aged => ~HasStatus(Key(c), "pending")
      BY <2>1, <2>3 DEF Reservable, Exclusive, HasStatus
    <3>5. ASSUME NEW d \in Calls, pc'[d] \in Holding, Key(d)' \notin aged' PROVE Owns(d)'
      <4>1. Key(d)' = Key(d) /\ aged' = aged
        BY <3>1 DEF Key
      <4>2. CASE d = c
        BY <2>1, <3>1, <3>2, <3>3, <4>1, <4>2 DEF Owns, HasStatus, TypeOK
      <4>3. CASE d # c
        <5>1. Owns(d)
          BY <3>1, <3>5, <4>1, <4>3 DEF Exclusive, HoldersOwnTheirKey
        <5>2. Key(d) # Key(c)
          BY <3>4, <3>5, <4>1, <5>1 DEF Owns
        <5>3. outbox'[Key(d)] = outbox[Key(d)]
          <6>1. Key(d) \in Keys
            BY <3>1, <3>5, <4>3, WorkingCallHasRequest DEF Holding
          <6> QED BY <3>1, <5>2, <6>1 DEF TypeOK
        <5> QED BY <4>1, <5>1, <5>3 DEF Owns, HasStatus
      <4> QED BY <4>2, <4>3
    <3>6. ASSUME NEW k \in Keys \ aged', HasStatus(k, "pending")' PROVE ~outbox'[k].stale
      BY <3>1, <3>2, <3>6 DEF Exclusive, HasStatus, TypeOK
    <3> QED BY <3>5, <3>6 DEF Exclusive, HoldersOwnTheirKey
  <2> QED BY <2>2, <2>3
<1>3. ASSUME NEW c \in Calls, Release(c) \/ Fail(c) \/ Commit(c) PROVE Exclusive'
  <2>1. /\ UNCHANGED <<req, aged>>
        /\ \A d \in Calls \ {c} : pc'[d] = pc[d]
        /\ pc'[c] \notin Holding
        /\ ~Owns(c) => UNCHANGED outbox
    BY <1>3 DEF Release, Fail, Commit, Holding, TypeOK
  <2>2. Key(c) \in Keys
    BY <1>3, WorkingCallHasRequest DEF Release, Fail, Commit
  <2>3. ASSUME Owns(c)
        PROVE  /\ \A k \in Keys \ {Key(c)} : outbox'[k] = outbox[k]
               /\ outbox'[Key(c)] # NoRow => outbox'[Key(c)].status # "pending"
    <3>1. outbox[Key(c)] \in Rows
      BY <2>2, <2>3, RowWithStatus DEF Owns, HasStatus
    <3>2. CASE Release(c)
      BY <2>2, <2>3, <3>2 DEF Release, TypeOK
    <3>3. CASE Fail(c)
      <4>1. Failed(outbox[Key(c)]).status = "retryable"
        BY <3>1 DEF Failed, Rows
      <4> QED BY <2>2, <2>3, <3>3, <4>1 DEF Fail, TypeOK
    <3>4. CASE Commit(c)
      <4>1. Completed(outbox[Key(c)], ProviderId(Key(c), Payload(c))).status = "completed"
        BY <3>1 DEF Completed, Rows
      <4> QED BY <2>2, <2>3, <3>4, <4>1 DEF Commit, TypeOK
    <3> QED BY <1>3, <3>2, <3>3, <3>4
  <2>4. ASSUME NEW d \in Calls, pc'[d] \in Holding, Key(d)' \notin aged' PROVE Owns(d)'
    <3>1. d # c /\ pc[d] \in Holding /\ Key(d)' = Key(d) /\ Key(d) \in Keys /\ Owns(d)
      <4>1. d # c /\ pc[d] \in Holding /\ Key(d)' = Key(d)
        BY <2>1, <2>4 DEF Key
      <4>2. Key(d) \in Keys
        BY <4>1, WorkingCallHasRequest DEF Holding
      <4> QED BY <2>1, <2>4, <4>1, <4>2 DEF Exclusive, HoldersOwnTheirKey
    <3>2. Owns(c) => Key(d) # Key(c)
      BY <3>1 DEF Owns
    <3>3. outbox'[Key(d)] = outbox[Key(d)]
      BY <2>1, <2>3, <3>1, <3>2
    <3> QED BY <3>1, <3>3 DEF Owns, HasStatus
  <2>5. ASSUME NEW k \in Keys \ aged', HasStatus(k, "pending")' PROVE ~outbox'[k].stale
    <3>1. outbox'[k] = outbox[k]
      BY <2>1, <2>3, <2>5 DEF HasStatus
    <3> QED BY <2>1, <2>5, <3>1 DEF Exclusive, HasStatus
  <2> QED BY <2>4, <2>5 DEF Exclusive, HoldersOwnTheirKey
<1>4. ASSUME NEW k \in Keys, Age(k) PROVE Exclusive'
  <2>1. /\ UNCHANGED <<pc, req>> /\ aged' = aged \union {k}
        /\ \A j \in Keys \ {k} : outbox'[j] = outbox[j]
    BY <1>4 DEF Age, TypeOK
  <2>2. ASSUME NEW d \in Calls, pc'[d] \in Holding, Key(d)' \notin aged' PROVE Owns(d)'
    <3>1. pc[d] \in Holding /\ Key(d)' = Key(d) /\ Key(d) \notin aged /\ Key(d) # k
      BY <2>1, <2>2 DEF Key
    <3>2. Key(d) \in Keys
      BY <3>1, WorkingCallHasRequest DEF Holding
    <3> QED BY <2>1, <3>1, <3>2 DEF Exclusive, HoldersOwnTheirKey, Owns, HasStatus
  <2>3. ASSUME NEW j \in Keys \ aged', HasStatus(j, "pending")' PROVE ~outbox'[j].stale
    BY <2>1, <2>3 DEF Exclusive, HasStatus
  <2> QED BY <2>2, <2>3 DEF Exclusive, HoldersOwnTheirKey
<1>5. ASSUME NEW s \in inFlight, LateHandOver(s) \/ LateLoss(s) PROVE Exclusive'
  BY <1>5, RowsKept DEF LateHandOver, LateLoss
<1>6. CASE UNCHANGED vars
  BY <1>6, RowsKept DEF vars
<1> QED
  BY <1>1, <1>2, <1>3, <1>4, <1>5, <1>6 DEF Next, Advance, Setback

\* A key whose reservations never went stale is worked on by one call at a time, and what
\* that call reserved is still its own in its last step (the conditions of the upsert, and
\* the owner and status guards of the three writes that end a reservation).
THEOREM HoldersOwn == Spec => []HoldersOwnTheirKey
<1>1. Init => Exclusive
  BY DEF Init, Exclusive, HoldersOwnTheirKey, Holding, HasStatus
<1>2. Exclusive => HoldersOwnTheirKey
  BY DEF Exclusive
<1> QED BY <1>1, <1>2, ExclusiveStep, TypeCorrect, PTL DEF Spec

\* Two calls are never at work on the same key at once, unless a reservation of it went
\* stale.
THEOREM MutualExclusion ==
  Spec => [](\A c, d \in Calls :
               (pc[c] \in Holding /\ pc[d] \in Holding /\ Key(c) = Key(d)
                  /\ Key(c) \notin aged) => c = d)
<1>1. HoldersOwnTheirKey =>
        \A c, d \in Calls :
          (pc[c] \in Holding /\ pc[d] \in Holding /\ Key(c) = Key(d)
             /\ Key(c) \notin aged) => c = d
  BY DEF HoldersOwnTheirKey, Owns
<1> QED BY <1>1, HoldersOwn, PTL

-----------------------------------------------------------------------------
(* Step properties and the refinement *)

\* A reservation that is not stale is ended by the call that made it or by
\* nobody (the owner and status guards of the repository's writes).
THEOREM FreshReservation == Spec => FreshReservationIsExclusive
<1>1. IInv /\ [Next]_vars => [\A k \in Keys : OnlyOwnerEnds(k)]_vars
  <2> SUFFICES ASSUME IInv, Next, NEW k \in Keys, HasStatus(k, "pending"),
                      ~outbox[k].stale, outbox'[k] # outbox[k]
               PROVE  \/ outbox'[k] = [outbox[k] EXCEPT !.stale = TRUE]
                      \/ /\ pc[outbox[k].owner] \in {"release", "fail", "commit"}
                         /\ Key(outbox[k].owner) = k
                         /\ pc'[outbox[k].owner] # pc[outbox[k].owner]
    BY DEF OnlyOwnerEnds
  <2> USE DEF database, history, At, Goto
  <2>t. TypeOK
    BY DEF IInv
  <2>1. ASSUME NEW c \in Calls, Release(c) \/ Fail(c) \/ Commit(c)
        PROVE  /\ pc[outbox[k].owner] \in {"release", "fail", "commit"}
               /\ Key(outbox[k].owner) = k
               /\ pc'[outbox[k].owner] # pc[outbox[k].owner]
    <3>1. Key(c) = k /\ Owns(c)
      BY <2>1, <2>t DEF Release, Fail, Commit, TypeOK
    <3>2. outbox[k].owner = c
      BY <3>1 DEF Owns
    <3>3. pc[c] \in {"release", "fail", "commit"} /\ pc'[c] # pc[c]
      BY <2>1, <2>t DEF Release, Fail, Commit, TypeOK
    <3> QED BY <3>1, <3>2, <3>3
  <2>2. ASSUME NEW c \in Calls, Reserve(c) PROVE FALSE
    <3>1. Key(c) = k /\ Reservable(outbox[k], Payload(c))
      BY <2>2, <2>t DEF Reserve, TypeOK
    <3> QED BY <3>1 DEF Reservable, HasStatus
  <2>3. ASSUME NEW j \in Keys, Age(j)
        PROVE  outbox'[k] = [outbox[k] EXCEPT !.stale = TRUE]
    <3>1. j = k
      BY <2>3, <2>t DEF Age, TypeOK
    <3> QED BY <2>3, <3>1, <2>t DEF Age, TypeOK
  <2>4. ASSUME NEW c \in Calls,
               \/ Start(c) \/ FindRow(c) \/ Lookup(c) \/ Recheck(c) \/ Connect(c)
               \/ Reply(c) \/ Answer(c) \/ ConnectFails(c) \/ SendFails(c)
               \/ SendTimesOut(c) \/ Abort(c) \/ HandOver(c)
        PROVE  FALSE
    BY <2>4 DEF Start, FindRow, Lookup, Recheck, Connect, Reply, Answer, ConnectFails,
                SendFails, SendTimesOut, Abort, HandOver
  <2>5. ASSUME NEW s \in inFlight, LateHandOver(s) \/ LateLoss(s) PROVE FALSE
    BY <2>5 DEF LateHandOver, LateLoss
  <2> QED BY <2>1, <2>2, <2>3, <2>4, <2>5 DEF Next, Advance, Setback
<1> QED BY <1>1, Invariant, PTL DEF Spec, FreshReservationIsExclusive

\* A step that completes no row settles no key.
LEMMA NothingSettles ==
  ASSUME Grows, \A k \in Keys : HasStatus(k, "completed")' => HasStatus(k, "completed")
  PROVE  settled' = settled
<1>1. ASSUME NEW k \in Keys, NEW p \in Payloads
      PROVE  SettledOn(k, p)' <=> SettledOn(k, p)
  BY DEF Grows, SettledOn, HasStatus
<1> QED BY <1>1 DEF settled

\* Every step of a send is a step of the promise or changes nothing of it.
LEMMA PromiseStep == IInv /\ [Next]_vars => [Promise!Next]_(Promise!vars)
<1> SUFFICES ASSUME IInv, [Next]_vars
             PROVE  [Promise!Next]_(Promise!vars)
  OBVIOUS
<1> USE DEF database, history, At, Goto
<1>t. TypeOK /\ Grows
  BY GrowthStep DEF IInv
<1>1. ASSUME NEW c \in Calls,
             \/ Start(c) \/ FindRow(c) \/ Lookup(c) \/ Recheck(c) \/ Connect(c)
             \/ Reply(c) \/ ConnectFails(c) \/ SendFails(c) \/ SendTimesOut(c)
             \/ Abort(c)
      PROVE  UNCHANGED Promise!vars
  BY <1>1 DEF Start, FindRow, Lookup, Recheck, Connect, Reply, ConnectFails,
              SendFails, SendTimesOut, Abort, Promise!vars, settled, SettledOn, HasStatus
<1>2. ASSUME NEW c \in Calls, Reserve(c) PROVE UNCHANGED Promise!vars
  <2>1. \A k \in Keys : HasStatus(k, "completed")' => HasStatus(k, "completed")
    BY <1>2, <1>t DEF Reserve, Reserved, HasStatus, TypeOK
  <2> QED BY <1>2, <2>1, <1>t, NothingSettles DEF Reserve, Promise!vars
<1>3. ASSUME NEW c \in Calls, Release(c) \/ Fail(c) PROVE UNCHANGED Promise!vars
  <2>1. Owns(c) => Key(c) \in Keys /\ Failed(outbox[Key(c)]).status = "retryable"
    <3>1. Owns(c) => Key(c) \in Keys /\ outbox[Key(c)] \in Rows
      BY <1>3, <1>t, WorkingCallHasRequest, RowWithStatus
         DEF Release, Fail, Owns, HasStatus
    <3> QED BY <3>1 DEF Failed, Rows
  <2>2. \A k \in Keys : HasStatus(k, "completed")' => HasStatus(k, "completed")
    BY <1>3, <2>1, <1>t DEF Release, Fail, HasStatus, TypeOK
  <2> QED BY <1>3, <2>2, <1>t, NothingSettles DEF Release, Fail, Promise!vars
<1>4. ASSUME NEW c \in Calls, HandOver(c) PROVE Promise!Next
  <2>1. Key(c) \in Keys /\ Payload(c) \in Payloads
    BY <1>4, <1>t, WorkingCallHasRequest DEF HandOver
  <2>2. settled' = settled
    BY <1>4, <1>t, NothingSettles DEF HandOver, HasStatus
  <2>3. Promise!Hand(Key(c), Payload(c))
    BY <1>4, <2>2 DEF HandOver, Sending, Promise!Hand
  <2> QED BY <2>1, <2>3 DEF Promise!Next
<1>5. ASSUME NEW c \in Calls, Commit(c) PROVE [Promise!Next]_(Promise!vars)
  <2>1. PICK k0 \in Keys, p0 \in Payloads : k0 = Key(c) /\ p0 = Payload(c)
    BY <1>5, <1>t, WorkingCallHasRequest DEF Commit
  <2>2. CASE ~Owns(c)
    BY <1>5, <2>2, <1>t, NothingSettles DEF Commit, HasStatus, Promise!vars
  <2>3. CASE Owns(c)
    <3>1. /\ outbox[k0] \in Rows /\ outbox[k0].payload = p0
          /\ <<k0, p0>> \in handed
      BY <1>5, <2>1, <2>3, <1>t, RowWithStatus
         DEF Commit, IInv, Consistent, CallsKnowTheirKey, Knows, Holding, Owns, HasStatus,
             Sending
    <3>2. /\ outbox' = [outbox EXCEPT ![k0] = Completed(@, ProviderId(k0, p0))]
          /\ UNCHANGED <<handed, acks>>
      BY <1>5, <2>1, <2>3 DEF Commit
    <3>3. outbox'[k0].status = "completed" /\ outbox'[k0].payload = p0
      BY <3>1, <3>2, <2>1, <1>t DEF Completed, Rows, TypeOK
    <3>4. outbox'[k0] # NoRow
      <4>1. ProviderId(k0, p0) \in ExternalIds
        BY <2>1 DEF ProviderId, ExternalIds, Payloads
      <4>2. Completed(outbox[k0], ProviderId(k0, p0)) \in Rows
        BY <3>1, <4>1 DEF Completed, Rows
      <4>3. outbox'[k0] \in Rows
        BY <3>2, <4>2, <2>1, <1>t DEF TypeOK
      <4> QED BY <4>3, NullsAreDistinct
    <3>5. ASSUME NEW p \in Payloads
          PROVE  ~SettledOn(k0, p) /\ (SettledOn(k0, p)' <=> p = p0)
      BY <2>1, <2>3, <3>3, <3>4 DEF Owns, SettledOn, HasStatus
    <3>6. ASSUME NEW k \in Keys, k # k0, NEW p \in Payloads
          PROVE  SettledOn(k, p)' <=> SettledOn(k, p)
      BY <3>2, <3>6, <1>t DEF SettledOn, HasStatus, TypeOK
    <3>7. settled[k0] = {} /\ settled' = [settled EXCEPT ![k0] = {p0}]
      <4>1. settled[k0] = {} /\ settled'[k0] = {p0}
        BY <2>1, <3>5 DEF settled
      <4>2. \A k \in Keys \ {k0} : settled'[k] = settled[k]
        BY <3>6 DEF settled
      <4>3. settled = [k \in Keys |-> settled[k]] /\ settled' = [k \in Keys |-> settled'[k]]
        BY DEF settled
      <4> QED BY <2>1, <4>1, <4>2, <4>3
    <3>8. Promise!Settle(k0, p0)
      BY <3>1, <3>2, <3>7 DEF Promise!Settle
    <3> QED BY <2>1, <3>8 DEF Promise!Next
  <2> QED BY <2>2, <2>3
<1>6. ASSUME NEW c \in Calls, Answer(c) PROVE [Promise!Next]_(Promise!vars)
  <2>1. settled' = settled
    BY <1>6, <1>t, NothingSettles DEF Answer, HasStatus
  <2>2. CASE ~At(c, "success")
    BY <1>6, <2>1, <2>2 DEF Answer, Promise!vars
  <2>3. CASE At(c, "success")
    <3>1. Key(c) \in Keys /\ Payload(c) \in Payloads
      BY <2>3, <1>t, WorkingCallHasRequest
    <3>2. SettledOn(Key(c), Payload(c))
      BY <2>3 DEF IInv, Consistent, CallsKnowTheirKey, Knows
    <3>3. settled[Key(c)] = {Payload(c)}
      BY <3>1, <3>2 DEF settled, SettledOn
    <3>4. Promise!Acknowledge(Key(c), Payload(c))
      BY <1>6, <2>1, <2>3, <3>3 DEF Answer, Sending, Promise!Acknowledge
    <3> QED BY <3>1, <3>4 DEF Promise!Next
  <2> QED BY <2>2, <2>3
<1>7. ASSUME NEW k \in Keys, Age(k) PROVE UNCHANGED Promise!vars
  <2>1. \A j \in Keys : HasStatus(j, "completed")' => HasStatus(j, "completed")
    BY <1>7, <1>t DEF Age, HasStatus, TypeOK
  <2> QED BY <1>7, <2>1, <1>t, NothingSettles DEF Age, Promise!vars
<1>8. ASSUME NEW s \in inFlight, LateHandOver(s) PROVE Promise!Next
  <2>1. PICK k \in Keys, p \in Payloads : s = <<k, p>>
    BY <1>8, <1>t DEF TypeOK
  <2>2. Promise!Hand(k, p)
    BY <1>8, <2>1, <1>t, NothingSettles DEF LateHandOver, HasStatus, Promise!Hand
  <2> QED BY <2>1, <2>2 DEF Promise!Next
<1>9. ASSUME NEW s \in inFlight, LateLoss(s) PROVE UNCHANGED Promise!vars
  BY <1>9, <1>t, NothingSettles DEF LateLoss, HasStatus, Promise!vars
<1>10. CASE UNCHANGED vars
  BY <1>10, <1>t, NothingSettles DEF vars, HasStatus, Promise!vars
<1> QED
  BY <1>1, <1>2, <1>3, <1>4, <1>5, <1>6, <1>7, <1>8, <1>9, <1>10
     DEF Next, Advance, Setback

\* send implements the write-once promise of IdempotentDelivery.
THEOREM Refinement == Spec => KeepsPromise
<1>1. Init => Promise!Init
  BY DEF Init, Promise!Init, settled, SettledOn, HasStatus
<1> QED BY <1>1, PromiseStep, Invariant, PTL DEF Spec, KeepsPromise, Promise!Spec
=============================================================================
