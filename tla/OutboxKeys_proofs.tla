-------------------------- MODULE OutboxKeys_proofs --------------------------
(***************************************************************************)
(* The keys of OutboxDelivery are independent of each other: what happens  *)
(* to one of them, its row, its messages and the calls that work for it,   *)
(* is what may happen in a system that has no other key. The runs that     *)
(* check OutboxDelivery with a single key therefore miss nothing that      *)
(* several keys could do to each other.                                    *)
(***************************************************************************)
EXTENDS OutboxDelivery_proofs

CONSTANT TheKey

\* Whether c is at work for TheKey.
For(c) == req[c] # NoRequest /\ Key(c) = TheKey

\* The part of a set of <<key, payload>> that is about TheKey.
About(S) == {s \in S : s[1] = TheKey}

\* What can be seen of the state from TheKey: a call that is at work for another key
\* looks idle, and a conversation is listed once it has a message sent under TheKey.
keyPc == [c \in Calls |-> IF For(c) THEN pc[c] ELSE "idle"]
keyReq == [c \in Calls |-> IF For(c) THEN req[c] ELSE NoRequest]
keyFound == [c \in Calls |-> IF For(c) THEN found[c] ELSE NoId]
keyOutbox == [k \in {TheKey} |-> outbox[k]]
keyMessages == [x \in Conversations \X {TheKey} |-> messages[x]]
keyListed == {v \in Conversations : messages[<<v, TheKey>>] # NoText}

One == INSTANCE OutboxDelivery WITH
  Keys <- {TheKey},
  pc <- keyPc, req <- keyReq, found <- keyFound,
  outbox <- keyOutbox, messages <- keyMessages, listed <- keyListed,
  handed <- About(handed), inFlight <- About(inFlight), acks <- About(acks),
  released <- released \intersect {TheKey}, aged <- aged \intersect {TheKey}

views == <<keyPc, keyReq, keyFound, keyOutbox, keyMessages, keyListed, About(handed),
           About(inFlight), About(acks), released \intersect {TheKey},
           aged \intersect {TheKey}>>

-----------------------------------------------------------------------------
(* Calls hold an external_id on their way to the lookup only *)

FoundAtLookup == \A c \in Calls : found[c] # NoId => pc[c] = "lookup"

\* An external id is remembered from the first query of a lookup to the second only.
LEMMA FoundStep == TypeOK /\ FoundAtLookup /\ [Next]_vars => FoundAtLookup'
<1> SUFFICES ASSUME TypeOK, FoundAtLookup, [Next]_vars
             PROVE  FoundAtLookup'
  OBVIOUS
<1> USE DEF TypeOK, FoundAtLookup, At, Goto
<1>1. ASSUME NEW c \in Calls, FindRow(c) \/ Lookup(c) \/ Abort(c) PROVE FoundAtLookup'
  BY <1>1 DEF FindRow, Lookup, Abort
<1>2. ASSUME NEW c \in Calls,
             \/ Start(c) \/ Reserve(c) \/ Recheck(c) \/ Connect(c) \/ Release(c)
             \/ HandOver(c) \/ Reply(c) \/ Fail(c) \/ Commit(c) \/ Answer(c)
             \/ ConnectFails(c) \/ SendFails(c) \/ SendTimesOut(c)
      PROVE  FoundAtLookup'
  BY <1>2 DEF Start, Reserve, Recheck, Connect, Release, HandOver, Reply, Fail, Commit,
              Answer, Answers, ConnectFails, SendFails, SendTimesOut
<1>3. CASE UNCHANGED <<pc, found>>
  BY <1>3
<1> QED
  BY <1>1, <1>2, <1>3
     DEF Next, Advance, Setback, Age, LateHandOver, LateLoss, vars

\* In every reachable state what is remembered belongs to a lookup.
LEMMA Founds == Spec => [](TypeOK /\ FoundAtLookup)
<1>1. Init => FoundAtLookup
  BY DEF Init, FoundAtLookup
<1> QED BY <1>1, FoundStep, TypeCorrect, PTL DEF Spec

-----------------------------------------------------------------------------
(* Steps that are about another key *)

\* What a step of a call leaves alone: the other calls, and what belongs to other keys.
StaysAt(c) ==
  /\ \A d \in Calls \ {c} : pc'[d] = pc[d] /\ req'[d] = req[d] /\ found'[d] = found[d]
  /\ req'[c] \in {req[c], NoRequest}
  /\ \A k \in Keys : k # Key(c) => outbox'[k] = outbox[k]
  /\ \A x \in ExternalIds : x[2] # Key(c) => messages'[x] = messages[x]
  /\ handed \subseteq handed' /\ handed' \subseteq handed \union {Sending(c)}
  /\ inFlight \subseteq inFlight' /\ inFlight' \subseteq inFlight \union {Sending(c)}
  /\ acks \subseteq acks' /\ acks' \subseteq acks \union {Sending(c)}
  /\ released \subseteq released' /\ released' \subseteq released \union {Key(c)}
  /\ aged' = aged

\* A call that has started keeps its request until it is done, and touches its own key only.
LEMMA CallStays ==
  ASSUME TypeOK, NEW c \in Calls, Advance(c) \/ Setback(c), ~Start(c)
  PROVE  StaysAt(c)
<1> USE DEF TypeOK, StaysAt, database, history, At, Goto
<1>1. CASE FindRow(c) \/ Lookup(c) \/ Recheck(c) \/ Connect(c) \/ Reply(c)
             \/ ConnectFails(c) \/ SendFails(c)
  BY <1>1 DEF FindRow, Lookup, Recheck, Connect, Reply, ConnectFails, SendFails
<1>2. CASE Reserve(c) \/ Release(c) \/ Fail(c)
  BY <1>2 DEF Reserve, Release, Fail
<1>3. CASE HandOver(c) \/ SendTimesOut(c) \/ Answer(c) \/ Abort(c)
  BY <1>3 DEF HandOver, SendTimesOut, Answer, Abort
<1>4. CASE Commit(c)
  <2>1. \A x \in ExternalIds : x[2] # Key(c) => messages'[x] = messages[x]
    BY <1>4 DEF Commit, InsertMessage, ProviderId
  <2> QED BY <1>4, <2>1 DEF Commit
<1> QED BY <1>1, <1>2, <1>3, <1>4 DEF Advance, Setback

\* A step of a call for another key cannot be seen from TheKey.
LEMMA Elsewhere ==
  ASSUME TypeOK, TypeOK', TheKey \in Keys, NEW c \in Calls, pc[c] # "idle", ~For(c), StaysAt(c)
  PROVE  UNCHANGED views
<1>1. Key(c) # TheKey /\ Sending(c)[1] # TheKey /\ ~For(c)'
  BY WorkingCallHasRequest, NullsAreDistinct DEF For, Sending, StaysAt, TypeOK, Key
<1>2. \A d \in Calls \ {c} : For(d)' <=> For(d)
  BY DEF StaysAt, For, Key
<1>3. UNCHANGED <<keyPc, keyReq, keyFound>>
  BY <1>1, <1>2 DEF StaysAt, keyPc, keyReq, keyFound
<1>4. UNCHANGED <<keyOutbox, keyMessages, keyListed>>
  <2>1. outbox'[TheKey] = outbox[TheKey]
    BY <1>1 DEF StaysAt
  <2>2. \A v \in Conversations : messages'[<<v, TheKey>>] = messages[<<v, TheKey>>]
    BY <1>1 DEF StaysAt, ExternalIds
  <2> QED BY <2>1, <2>2 DEF keyOutbox, keyMessages, keyListed
<1>5. UNCHANGED <<About(handed), About(inFlight), About(acks)>>
  BY <1>1 DEF StaysAt, About
<1>6. UNCHANGED <<released \intersect {TheKey}, aged \intersect {TheKey}>>
  BY <1>1 DEF StaysAt
<1> QED BY <1>3, <1>4, <1>5, <1>6 DEF views

-----------------------------------------------------------------------------
(* Steps of a call for TheKey *)

\* TheKey sees its own calls, and its row, as they are.
LEMMA Seen ==
  ASSUME TypeOK, TheKey \in Keys, NEW c \in Calls, For(c)
  PROVE  /\ keyPc[c] = pc[c] /\ keyReq[c] = req[c] /\ keyFound[c] = found[c]
         /\ keyOutbox[TheKey] = outbox[TheKey]
         /\ pc[c] # "idle" /\ Key(c) = TheKey /\ Payload(c) \in Payloads
         /\ One!Key(c) = Key(c) /\ One!Payload(c) = Payload(c)
         /\ One!Sending(c) = Sending(c) /\ Sending(c) = <<TheKey, Payload(c)>>
         /\ \A s : One!HasStatus(TheKey, s) <=> HasStatus(TheKey, s)
         /\ One!Owns(c) <=> Owns(c)
<1>1. /\ keyPc[c] = pc[c] /\ keyReq[c] = req[c] /\ keyFound[c] = found[c]
      /\ keyOutbox[TheKey] = outbox[TheKey]
  BY DEF keyPc, keyReq, keyFound, keyOutbox
<1>2. pc[c] # "idle" /\ Key(c) = TheKey
  BY DEF For, TypeOK
<1>3. Payload(c) \in Payloads
  BY <1>2, WorkingCallHasRequest
<1>4. One!Key(c) = Key(c) /\ One!Payload(c) = Payload(c)
  BY <1>1 DEF One!Key, One!Payload, Key, Payload
<1>5. One!Sending(c) = Sending(c) /\ Sending(c) = <<TheKey, Payload(c)>>
  BY <1>2, <1>4 DEF One!Sending, Sending
<1>6. \A s : One!HasStatus(TheKey, s) <=> HasStatus(TheKey, s)
  BY <1>1 DEF One!HasStatus, HasStatus
<1>7. One!Owns(c) <=> Owns(c)
  BY <1>1, <1>2, <1>4, <1>6 DEF One!Owns, Owns
<1> QED BY <1>1, <1>2, <1>3, <1>4, <1>5, <1>6, <1>7

\* A step of such a call that leaves its request alone moves it in the view as well.
LEMMA MovedPc ==
  ASSUME TypeOK, NEW c \in Calls, For(c), UNCHANGED req, NEW t, pc' = [pc EXCEPT ![c] = t]
  PROVE  keyPc' = [keyPc EXCEPT ![c] = t] /\ UNCHANGED keyReq
<1>1. \A d \in Calls : For(d)' <=> For(d)
  BY DEF For, Key
<1> QED BY <1>1 DEF keyPc, keyReq, TypeOK

\* A call that ends is gone from the view.
LEMMA EndedPc ==
  ASSUME TypeOK, FoundAtLookup, NEW c \in Calls, For(c),
         pc' = [pc EXCEPT ![c] = "idle"], req' = [req EXCEPT ![c] = NoRequest],
         found' \in {found, [found EXCEPT ![c] = NoId]}
  PROVE  /\ keyPc' = [keyPc EXCEPT ![c] = "idle"]
         /\ keyReq' = [keyReq EXCEPT ![c] = NoRequest]
         /\ keyFound' = [keyFound EXCEPT ![c] = NoId]
<1>1. ~For(c)' /\ \A d \in Calls \ {c} : For(d)' <=> For(d)
  BY DEF For, Key, TypeOK
<1> QED BY <1>1 DEF keyPc, keyReq, keyFound, TypeOK

\* What a call remembers of the key changes with its request or its memory only.
LEMMA KeptFound ==
  ASSUME UNCHANGED <<req, found>>
  PROVE  UNCHANGED keyFound
BY DEF keyFound, For, Key

\* What a step leaves of the tables, it leaves of the part that belongs to the key.
LEMMA KeptTables ==
  ASSUME UNCHANGED database
  PROVE  UNCHANGED <<keyOutbox, keyMessages, keyListed>>
BY DEF database, keyOutbox, keyMessages, keyListed

\* The same of the messages, from which the conversations of the key are read.
LEMMA KeptRows ==
  ASSUME UNCHANGED messages
  PROVE  UNCHANGED <<keyMessages, keyListed>>
BY DEF keyMessages, keyListed

\* A step that only moves the call.
LEMMA OnlyMoves ==
  ASSUME TypeOK, TheKey \in Keys, NEW c \in Calls, For(c),
         NEW t, Goto(c, t), UNCHANGED <<req, found, database, handed, inFlight, acks, history>>
  PROVE  /\ One!Goto(c, t)
         /\ UNCHANGED <<keyReq, keyFound, One!database, About(handed), About(inFlight),
                        About(acks), One!history>>
<1>1. One!Goto(c, t) /\ UNCHANGED <<keyReq, keyFound>>
  BY MovedPc, KeptFound DEF Goto, One!Goto
<1>2. UNCHANGED <<One!database, One!history>>
  BY KeptTables DEF One!database, history, One!history
<1> QED BY <1>1, <1>2 DEF About

\* Every step of a call for TheKey is a step of the same name of a call of One.
LEMMA OwnCallStep ==
  ASSUME IInv, FoundAtLookup, TheKey \in Keys, NEW c \in Calls, For(c), ~Start(c),
         Advance(c) \/ Setback(c)
  PROVE  One!Advance(c) \/ One!Setback(c)
<1>t. TypeOK
  BY DEF IInv
<1>s. /\ keyPc[c] = pc[c] /\ keyReq[c] = req[c] /\ keyFound[c] = found[c]
      /\ keyOutbox[TheKey] = outbox[TheKey]
      /\ pc[c] # "idle" /\ Key(c) = TheKey /\ Payload(c) \in Payloads
      /\ One!Key(c) = TheKey /\ One!Payload(c) = Payload(c)
      /\ One!Sending(c) = Sending(c) /\ Sending(c) = <<TheKey, Payload(c)>>
      /\ \A s : One!HasStatus(TheKey, s) <=> HasStatus(TheKey, s)
      /\ One!Owns(c) <=> Owns(c)
  BY <1>t, Seen
<1>a. \A s : One!At(c, s) <=> At(c, s)
  BY <1>s DEF One!At, At
<1>1. CASE Connect(c)
  BY <1>1, <1>t, <1>a, OnlyMoves DEF Connect, One!Connect, One!Advance
<1>2. CASE ConnectFails(c)
  BY <1>2, <1>t, <1>a, OnlyMoves DEF ConnectFails, One!ConnectFails, One!Setback
<1>3. CASE Reply(c)
  BY <1>3, <1>t, <1>a, OnlyMoves DEF Reply, One!Reply, One!Advance
<1>4. CASE SendFails(c)
  BY <1>4, <1>t, <1>a, OnlyMoves DEF SendFails, One!SendFails, One!Setback
<1>5. CASE Recheck(c)
  BY <1>5, <1>t, <1>s, <1>a, OnlyMoves DEF Recheck, One!Recheck, One!Advance
<1>6. CASE FindRow(c)
  <2>1. /\ keyReq' = keyReq
        /\ UNCHANGED <<One!database, About(handed), About(inFlight), About(acks), One!history>>
    BY <1>6, <1>t, MovedPc, KeptTables
       DEF FindRow, Goto, One!database, One!history, history, About
  <2>2. ASSUME NEW t, Goto(c, t) PROVE One!Goto(c, t)
    BY <1>6, <1>t, <2>2, MovedPc DEF FindRow, Goto, One!Goto
  <2>3. ASSUME NEW x, found' = [found EXCEPT ![c] = x]
        PROVE  keyFound' = [keyFound EXCEPT ![c] = x]
    BY <1>6, <1>t, <2>3 DEF FindRow, keyFound, For, Key, TypeOK
  <2>4. UNCHANGED found => UNCHANGED keyFound
    BY <1>6, KeptFound DEF FindRow
  <2>5. One!FindRow(c)
    BY <1>6, <1>s, <1>a, <2>1, <2>2, <2>3, <2>4 DEF FindRow, One!FindRow
  <2> QED BY <2>5 DEF One!Advance
<1>7. CASE Lookup(c)
  <2>1. /\ keyReq' = keyReq
        /\ UNCHANGED <<One!database, About(handed), About(inFlight), About(acks), One!history>>
    BY <1>7, <1>t, MovedPc, KeptTables
       DEF Lookup, Goto, One!database, One!history, history, About
  <2>2. ASSUME NEW t, Goto(c, t) PROVE One!Goto(c, t)
    BY <1>7, <1>t, <2>2, MovedPc DEF Lookup, Goto, One!Goto
  <2>3. keyFound' = [keyFound EXCEPT ![c] = NoId]
    BY <1>7, <1>t DEF Lookup, keyFound, For, Key, TypeOK
  <2>4. keyMessages[found[c]] = messages[found[c]]
    <3>1. HasStatus(TheKey, "completed") /\ found[c] = outbox[TheKey].external
      BY <1>7, <1>s DEF Lookup, IInv, Consistent, CallsKnowTheirKey, Knows
    <3>2. outbox[TheKey].payload \in Payloads
      BY <1>t, <3>1, RowWithStatus DEF HasStatus, Rows
    <3>3. found[c] = ProviderId(TheKey, outbox[TheKey].payload)
      BY <3>1 DEF IInv, Consistent, CompletedIsVisible
    <3>4. found[c] \in Conversations \X {TheKey}
      BY <3>2, <3>3 DEF ProviderId, Payloads
    <3> QED BY <3>4 DEF keyMessages
  <2>5. One!Lookup(c)
    BY <1>7, <1>s, <1>a, <2>1, <2>2, <2>3, <2>4
       DEF Lookup, One!Lookup, SamePayload, One!SamePayload
  <2> QED BY <2>5 DEF One!Advance
<1>8. CASE Reserve(c)
  <2>1. /\ UNCHANGED <<keyReq, keyFound, keyMessages, keyListed>>
        /\ UNCHANGED <<About(handed), About(inFlight), About(acks), One!history>>
    BY <1>8, <1>t, MovedPc, KeptFound, KeptRows
       DEF Reserve, Goto, One!history, history, About
  <2>2. ASSUME NEW t, Goto(c, t) PROVE One!Goto(c, t)
    BY <1>8, <1>t, <2>2, MovedPc DEF Reserve, Goto, One!Goto
  <2>3. One!Reserved(c) = Reserved(c)
    BY <1>s DEF One!Reserved, Reserved
  <2>4. One!Reservable(keyOutbox[TheKey], Payload(c)) <=> Reservable(outbox[TheKey], Payload(c))
    BY <1>s DEF One!Reservable, Reservable
  <2>5. outbox' = [outbox EXCEPT ![TheKey] = Reserved(c)] =>
          keyOutbox' = [keyOutbox EXCEPT ![TheKey] = Reserved(c)]
    BY <1>t DEF keyOutbox, TypeOK
  <2>6. UNCHANGED outbox => UNCHANGED keyOutbox
    BY DEF keyOutbox
  <2>7. One!Reserve(c)
    BY <1>8, <1>s, <1>a, <2>1, <2>2, <2>3, <2>4, <2>5, <2>6 DEF Reserve, One!Reserve
  <2> QED BY <2>7 DEF One!Advance
<1>9. CASE Release(c)
  <2>1. /\ UNCHANGED <<keyReq, keyFound, keyMessages, keyListed>>
        /\ UNCHANGED <<About(handed), About(inFlight), About(acks), aged \intersect {TheKey}>>
        /\ One!Goto(c, "provider_error")
    BY <1>9, <1>t, MovedPc, KeptFound, KeptRows DEF Release, Goto, One!Goto, About
  <2>2. CASE Owns(c)
    <3>1. keyOutbox' = [keyOutbox EXCEPT ![TheKey] = NoRow]
      BY <1>9, <1>s, <1>t, <2>2 DEF Release, keyOutbox, TypeOK
    <3>2. released' \intersect {TheKey} = (released \intersect {TheKey}) \union {TheKey}
      BY <1>9, <1>s, <2>2 DEF Release
    <3>3. One!Release(c)
      BY <1>9, <1>s, <1>a, <2>1, <2>2, <3>1, <3>2 DEF Release, One!Release
    <3> QED BY <3>3 DEF One!Advance
  <2>3. CASE ~Owns(c)
    <3>1. UNCHANGED <<keyOutbox, released \intersect {TheKey}>>
      BY <1>9, <2>3 DEF Release, keyOutbox
    <3>2. One!Release(c)
      BY <1>9, <1>s, <1>a, <2>1, <2>3, <3>1 DEF Release, One!Release
    <3> QED BY <3>2 DEF One!Advance
  <2> QED BY <2>2, <2>3
<1>10. CASE Fail(c)
  <2>1. /\ UNCHANGED <<keyReq, keyFound, keyMessages, keyListed>>
        /\ UNCHANGED <<About(handed), About(inFlight), About(acks), One!history>>
        /\ One!Goto(c, "provider_error")
    BY <1>10, <1>t, MovedPc, KeptFound, KeptRows
       DEF Fail, Goto, One!Goto, One!history, history, About
  <2>2. One!Failed(keyOutbox[TheKey]) = Failed(outbox[TheKey])
    BY <1>s DEF One!Failed, Failed
  <2>3. keyOutbox' = IF Owns(c) THEN [keyOutbox EXCEPT ![TheKey] = Failed(outbox[TheKey])]
                                ELSE keyOutbox
    BY <1>10, <1>s, <1>t DEF Fail, keyOutbox, TypeOK
  <2>4. One!Fail(c)
    BY <1>10, <1>s, <1>a, <2>1, <2>2, <2>3 DEF Fail, One!Fail
  <2> QED BY <2>4 DEF One!Advance
<1>11. CASE Commit(c)
  <2> DEFINE x == ProviderId(TheKey, Payload(c))
  <2>1. /\ UNCHANGED <<keyReq, keyFound>>
        /\ UNCHANGED <<About(handed), About(inFlight), About(acks), One!history>>
    BY <1>11, <1>t, MovedPc, KeptFound
       DEF Commit, Goto, One!history, history, About
  <2>2. ASSUME NEW t, Goto(c, t) PROVE One!Goto(c, t)
    BY <1>11, <1>t, <2>2, MovedPc DEF Commit, Goto, One!Goto
  <2>3. One!ProviderId(TheKey, Payload(c)) = x
    BY DEF One!ProviderId, ProviderId
  <2>4. CASE ~Owns(c)
    <3>1. UNCHANGED One!database
      BY <1>11, <2>4, KeptTables DEF Commit, One!database
    <3>2. One!Commit(c)
      BY <1>11, <1>s, <1>a, <2>1, <2>2, <2>4, <3>1 DEF Commit, One!Commit
    <3> QED BY <3>2 DEF One!Advance
  <2>5. CASE Owns(c)
    <3>1. One!Completed(keyOutbox[TheKey], x) = Completed(outbox[TheKey], x)
      BY <1>s DEF One!Completed, Completed
    <3>2. keyOutbox' = [keyOutbox EXCEPT ![TheKey] = Completed(outbox[TheKey], x)]
      BY <1>11, <1>s, <1>t, <2>5 DEF Commit, keyOutbox, TypeOK
    <3>3. PICK v \in Conversations, t \in Texts :
            v = Payload(c).conversation /\ t = Payload(c).text /\ x = <<v, TheKey>>
      BY <1>s DEF Payloads, ProviderId
    <3>4. messages' = [messages EXCEPT ![x] = IF @ = NoText THEN t ELSE @]
      BY <1>11, <1>s, <2>5, <3>3 DEF Commit, InsertMessage
    <3>5. One!InsertMessage(x, t)
      BY <1>t, <3>3, <3>4 DEF One!InsertMessage, keyMessages, TypeOK, ExternalIds
    <3>6. keyListed' = keyListed \union {v}
      <4>1. x \in ExternalIds /\ t # NoText
        BY <3>3, NullsAreDistinct DEF ExternalIds
      <4>2. messages'[x] # NoText
        BY <1>t, <3>4, <4>1 DEF TypeOK
      <4>3. \A w \in Conversations \ {v} : messages'[<<w, TheKey>>] = messages[<<w, TheKey>>]
        BY <1>t, <3>3, <3>4 DEF TypeOK, ExternalIds
      <4> QED BY <3>3, <4>2, <4>3 DEF keyListed
    <3>7. One!Goto(c, "success")
      BY <1>11, <2>2, <2>5 DEF Commit
    <3>8. One!Commit(c)
      BY <1>11, <1>s, <1>a, <2>1, <2>3, <2>5, <3>1, <3>2, <3>3, <3>5, <3>6, <3>7
         DEF Commit, One!Commit
    <3> QED BY <3>8 DEF One!Advance
  <2> QED BY <2>4, <2>5
<1>12. CASE HandOver(c)
  <2>1. /\ UNCHANGED <<keyReq, keyFound, One!database>>
        /\ UNCHANGED <<About(inFlight), About(acks), One!history>>
        /\ One!Goto(c, "handed")
    BY <1>12, <1>t, MovedPc, KeptFound, KeptTables
       DEF HandOver, Goto, One!Goto, One!database, One!history, history, About
  <2>2. About(handed)' = About(handed) \union {Sending(c)}
    BY <1>12, <1>s DEF HandOver, About
  <2>3. One!HandOver(c)
    BY <1>12, <1>s, <1>a, <2>1, <2>2 DEF HandOver, One!HandOver
  <2> QED BY <2>3 DEF One!Advance
<1>13. CASE SendTimesOut(c)
  <2>1. /\ UNCHANGED <<keyReq, keyFound, One!database>>
        /\ UNCHANGED <<About(handed), About(acks), One!history>>
        /\ One!Goto(c, "fail")
    BY <1>13, <1>t, MovedPc, KeptFound, KeptTables
       DEF SendTimesOut, Goto, One!Goto, One!database, One!history, history, About
  <2>2. About(inFlight)' = About(inFlight) \union {Sending(c)}
    BY <1>13, <1>s DEF SendTimesOut, About
  <2>3. One!SendTimesOut(c)
    BY <1>13, <1>s, <1>a, <2>1, <2>2 DEF SendTimesOut, One!SendTimesOut
  <2> QED BY <2>3 DEF One!Setback
<1>14. CASE Answer(c)
  <2>1. /\ UNCHANGED <<One!database, About(handed), About(inFlight), One!history>>
        /\ keyPc' = [keyPc EXCEPT ![c] = "idle"]
        /\ keyReq' = [keyReq EXCEPT ![c] = NoRequest]
        /\ keyFound' = [keyFound EXCEPT ![c] = NoId]
    BY <1>14, <1>t, EndedPc, KeptTables
       DEF Answer, Goto, One!database, One!history, history, About
  <2>2. keyFound[c] = NoId
    BY <1>14, <1>s DEF Answer, Answers, FoundAtLookup
  <2>3. UNCHANGED keyFound
    BY <2>1, <2>2 DEF keyFound
  <2>4. About(acks)' = IF pc[c] = "success" THEN About(acks) \union {Sending(c)}
                                           ELSE About(acks)
    BY <1>14, <1>s DEF Answer, About
  <2>5. One!Answer(c)
    BY <1>14, <1>s, <2>1, <2>3, <2>4 DEF Answer, One!Answer, One!Answers, Answers, One!Goto
  <2> QED BY <2>5 DEF One!Advance
<1>15. CASE Abort(c)
  <2>1. /\ UNCHANGED <<One!database, About(handed), About(acks), One!history>>
        /\ keyPc' = [keyPc EXCEPT ![c] = "idle"]
        /\ keyReq' = [keyReq EXCEPT ![c] = NoRequest]
        /\ keyFound' = [keyFound EXCEPT ![c] = NoId]
    BY <1>15, <1>t, EndedPc, KeptTables
       DEF Abort, Goto, One!database, One!history, history, About
  <2>2. \/ At(c, "send") /\ About(inFlight)' = About(inFlight) \union {Sending(c)}
        \/ UNCHANGED About(inFlight)
    BY <1>15, <1>s DEF Abort, About
  <2>3. One!Abort(c)
    BY <1>15, <1>s, <1>a, <2>1, <2>2 DEF Abort, One!Abort, One!Goto
  <2> QED BY <2>3 DEF One!Setback
<1> QED
  BY <1>1, <1>2, <1>3, <1>4, <1>5, <1>6, <1>7, <1>8, <1>9, <1>10, <1>11, <1>12, <1>13,
     <1>14, <1>15 DEF Advance, Setback

\* A call begins to work for TheKey, or for another key.
LEMMA StartStep ==
  ASSUME TypeOK, TypeOK', FoundAtLookup, TheKey \in Keys, NEW c \in Calls, Start(c)
  PROVE  One!Start(c) \/ UNCHANGED views
<1>1. PICK r \in Requests : req' = [req EXCEPT ![c] = r]
  BY DEF Start
<1>2. /\ pc[c] = "idle" /\ pc' = [pc EXCEPT ![c] = "find"]
      /\ UNCHANGED <<found, database, handed, inFlight, acks, history>>
  BY DEF Start, At, Goto
<1>3. ~For(c) /\ (For(c)' <=> r.key = TheKey) /\ \A d \in Calls \ {c} : For(d)' <=> For(d)
  <2>1. req[c] = NoRequest /\ req'[c] = r /\ r # NoRequest
    BY <1>1, <1>2, NullsAreDistinct DEF TypeOK
  <2> QED BY <1>1, <2>1 DEF For, Key, TypeOK
<1>4. UNCHANGED keyFound
  <2>1. found[c] = NoId
    BY <1>2 DEF FoundAtLookup
  <2> QED BY <1>2, <1>3, <2>1 DEF keyFound
<1>5. UNCHANGED <<One!database, About(handed), About(inFlight), About(acks), One!history>>
  BY <1>2, KeptTables DEF One!database, One!history, history, About
<1>6. CASE r.key = TheKey
  <2>1. keyPc' = [keyPc EXCEPT ![c] = "find"] /\ keyReq' = [keyReq EXCEPT ![c] = r]
    BY <1>1, <1>2, <1>3, <1>6 DEF keyPc, keyReq, TypeOK
  <2>2. keyPc[c] = "idle" /\ r \in One!Requests
    BY <1>3, <1>6 DEF keyPc, Requests, One!Requests, Payloads, One!Payloads
  <2> QED BY <1>4, <1>5, <2>1, <2>2 DEF One!Start, One!At, One!Goto
<1>7. CASE r.key # TheKey
  <2>1. UNCHANGED <<keyPc, keyReq>>
    BY <1>1, <1>2, <1>3, <1>7 DEF keyPc, keyReq, TypeOK
  <2> QED BY <1>4, <1>5, <2>1 DEF views, One!database, One!history
<1> QED BY <1>6, <1>7

-----------------------------------------------------------------------------
(* What happens beside the calls *)

\* A row of the key grows old, or one of another key, which is nothing to it.
LEMMA AgeStep ==
  ASSUME TypeOK, TheKey \in Keys, NEW k \in Keys, Age(k)
  PROVE  One!Age(TheKey) \/ UNCHANGED views
<1>1. /\ UNCHANGED <<keyPc, keyReq, keyFound, keyMessages, keyListed, About(handed)>>
      /\ UNCHANGED <<About(inFlight), About(acks), released \intersect {TheKey}>>
  BY KeptRows DEF Age, keyPc, keyReq, keyFound, For, Key, About
<1>2. CASE k = TheKey
  <2>1. keyOutbox[TheKey] = outbox[TheKey]
    BY DEF keyOutbox
  <2>2. keyOutbox' = [keyOutbox EXCEPT ![TheKey].stale = TRUE]
    BY <1>2, <2>1 DEF Age, keyOutbox, TypeOK
  <2>3. aged' \intersect {TheKey} = (aged \intersect {TheKey}) \union {TheKey}
    BY <1>2 DEF Age
  <2> QED BY <1>1, <1>2, <2>1, <2>2, <2>3 DEF Age, One!Age, HasStatus, One!HasStatus
<1>3. CASE k # TheKey
  BY <1>1, <1>3 DEF Age, keyOutbox, TypeOK, views
<1> QED BY <1>2, <1>3

\* A late request of the key arrives or is lost, or one of another key.
LEMMA LateStep ==
  ASSUME NEW s \in inFlight, LateHandOver(s) \/ LateLoss(s)
  PROVE  \/ \E t \in About(inFlight) : One!LateHandOver(t) \/ One!LateLoss(t)
         \/ UNCHANGED views
<1>1. UNCHANGED <<keyPc, keyReq, keyFound, keyOutbox, keyMessages, keyListed, About(acks),
                  released \intersect {TheKey}, aged \intersect {TheKey}>>
  BY KeptTables
     DEF LateHandOver, LateLoss, keyPc, keyReq, keyFound, For, Key, About, history
<1>2. CASE s[1] = TheKey
  <2>1. s \in About(inFlight) /\ About(inFlight)' = About(inFlight) \ {s}
    BY <1>2 DEF LateHandOver, LateLoss, About
  <2>2. LateHandOver(s) => About(handed)' = About(handed) \union {s}
    BY <1>2 DEF LateHandOver, About
  <2>3. LateLoss(s) => UNCHANGED About(handed)
    BY DEF LateLoss, About
  <2> QED
    BY <1>1, <2>1, <2>2, <2>3
       DEF One!LateHandOver, One!LateLoss, One!database, One!history
<1>3. CASE s[1] # TheKey
  <2>1. UNCHANGED <<About(inFlight), About(handed)>>
    BY <1>3 DEF LateHandOver, LateLoss, About
  <2> QED BY <1>1, <2>1 DEF views
<1> QED BY <1>2, <1>3

-----------------------------------------------------------------------------

\* Every step of the outbox is a step of the one key or leaves it as it is.
LEMMA OneStep ==
  ASSUME IInv, FoundAtLookup, TheKey \in Keys, [Next]_vars
  PROVE  [One!Next]_(One!vars)
<1>t. TypeOK /\ TypeOK'
  BY TypeStep DEF IInv
<1>v. UNCHANGED views => UNCHANGED One!vars
  BY DEF views, One!vars, One!history
<1>1. ASSUME NEW c \in Calls, Advance(c) \/ Setback(c) PROVE [One!Next]_(One!vars)
  <2>1. CASE Start(c)
    BY <1>t, <1>v, <2>1, StartStep DEF One!Next, One!Advance
  <2>2. CASE ~Start(c) /\ For(c)
    BY <1>1, <2>2, OwnCallStep DEF One!Next
  <2>3. CASE ~Start(c) /\ ~For(c)
    <3>1. pc[c] # "idle"
      BY <1>1, <2>3
         DEF Advance, Setback, FindRow, Lookup, Reserve, Recheck, Connect, Release, HandOver,
             Reply, Fail, Commit, Answer, Answers, ConnectFails, SendFails, SendTimesOut,
             Abort, At
    <3> QED BY <1>1, <1>t, <1>v, <2>3, <3>1, CallStays, Elsewhere
  <2> QED BY <2>1, <2>2, <2>3
<1>2. ASSUME NEW k \in Keys, Age(k) PROVE [One!Next]_(One!vars)
  BY <1>2, <1>t, <1>v, AgeStep DEF One!Next
<1>3. ASSUME NEW s \in inFlight, LateHandOver(s) \/ LateLoss(s)
      PROVE  [One!Next]_(One!vars)
  BY <1>3, <1>v, LateStep DEF One!Next
<1>4. CASE UNCHANGED vars
  <2>1. UNCHANGED views
    BY <1>4
       DEF vars, history, views, keyPc, keyReq, keyFound, keyOutbox, keyMessages, keyListed,
           For, Key, About
  <2> QED BY <1>v, <2>1
<1> QED BY <1>1, <1>2, <1>3, <1>4 DEF Next

\* Whatever keys the clients use, each of them sees what it may see if it is the only one:
\* no call, row, message or provider request of another key makes a difference to it.
THEOREM KeysAreIndependent ==
  ASSUME TheKey \in Keys
  PROVE  Spec => One!Spec
<1>1. Init => One!Init
  <2> SUFFICES ASSUME Init PROVE One!Init
    OBVIOUS
  <2>1. /\ keyPc = [c \in Calls |-> "idle"] /\ keyReq = [c \in Calls |-> NoRequest]
        /\ keyFound = [c \in Calls |-> NoId]
    BY DEF Init, keyPc, keyReq, keyFound, For
  <2>2. /\ keyOutbox = [k \in {TheKey} |-> NoRow]
        /\ keyMessages = [x \in One!ExternalIds |-> NoText]
        /\ keyListed = {}
    BY DEF Init, keyOutbox, keyMessages, keyListed, ExternalIds, One!ExternalIds
  <2>3. /\ About(handed) = {} /\ About(inFlight) = {} /\ About(acks) = {}
        /\ released \intersect {TheKey} = {} /\ aged \intersect {TheKey} = {}
    BY DEF Init, About
  <2> QED BY <2>1, <2>2, <2>3 DEF One!Init
<1>2. IInv /\ FoundAtLookup /\ [Next]_vars => [One!Next]_(One!vars)
  BY OneStep
<1> QED BY <1>1, <1>2, Invariant, Founds, PTL DEF Spec, One!Spec

=============================================================================
