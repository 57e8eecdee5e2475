--------------------------- MODULE OutboxDelivery ---------------------------
(***************************************************************************)
(* MessagingService.send (messaging-service.ts) over the D1 repository     *)
(* (d1-repository.ts) and the provider reached through                     *)
(* google-messages-ipc.ts: how one idempotency key is looked up, reserved, *)
(* handed to the provider, failed, released, taken over and completed by   *)
(* calls of several Worker isolates at once.                               *)
(*                                                                         *)
(* A call is a slot: at most one send runs in it at a time, and the slot's *)
(* name stands for the owner that reserveIdempotencyKey draws with         *)
(* randomUUID (d1-repository.ts:382). Reusing a slot's name is sound: an   *)
(* attempt writes as owner only to the row of its own key, and only after  *)
(* it reserved that row itself.                                            *)
(*                                                                         *)
(* Each D1 statement or batch is one step, each await a point where other  *)
(* calls may run or where the call may end for good (Abort): the isolate   *)
(* is evicted, the client is gone, or D1 answers with a StorageError       *)
(* before (Abort instead of the step) or after (the step, then Abort) the  *)
(* statement took effect.                                                  *)
(***************************************************************************)
EXTENDS Naturals

CONSTANTS Calls,          \* slots for concurrent send calls, in all isolates
          Keys,           \* idempotency keys the clients use
          Conversations,  \* conversations they send to
          Texts,          \* texts they send
          NoRequest, NoRow, NoText, NoId   \* null values

Payloads == [conversation : Conversations, text : Texts]
Requests == [key : Keys, payload : Payloads]

\* providerMessageID: a hash of the conversation and the key, not of the text.
ExternalIds == Conversations \X Keys
ProviderId(k, p) == <<p.conversation, k>>

\* A row of the outbox. "stale" is updated_at < reservationCutoff(). The status
\* "failed" of failDelivery is out of reach: every error the IPC provider or the
\* timeout raises is retryable.
Rows == [status   : {"pending", "retryable", "completed"},
         payload  : Payloads,
         owner    : Calls,
         external : ExternalIds \union {NoId},
         stale    : BOOLEAN]

ASSUME NullsAreDistinct ==
  /\ NoRequest \notin Requests
  /\ NoRow \notin Rows
  /\ NoText \notin Texts
  /\ NoId \notin ExternalIds

Answers == {"success", "payload_error", "in_progress", "provider_error",
            "commit_error"}
\* The states of a call that has a reservation in its hand.
Holding == {"connect", "release", "send", "handed", "fail", "commit"}
States == {"idle", "find", "lookup", "reserve", "recheck"} \union Holding \union Answers

VARIABLES pc,        \* pc[c]: where call c is
          req,       \* req[c]: what it was asked to send
          found,     \* found[c]: the external_id its first read returned
          outbox,    \* outbox[k]: the row of key k, or NoRow
          messages,  \* messages[x]: text of the message row with external_id x
          listed,    \* conversations that have a row
          handed,    \* history: the <<key, payload>> the provider was handed
          inFlight,  \* provider requests whose caller has given up on them
          acks,      \* history: the <<key, payload>> clients were told are sent
          released,  \* history: the keys that were released
          aged       \* history: the keys with a reservation that went stale

history == <<released, aged>>
vars == <<pc, req, found, outbox, messages, listed, handed, inFlight, acks, history>>
database == <<outbox, messages, listed>>

Key(c) == req[c].key
Payload(c) == req[c].payload
Sending(c) == <<Key(c), Payload(c)>>

HasStatus(k, s) == outbox[k] # NoRow /\ outbox[k].status = s

\* Wrong: the guard without its owner = ?.
OwnsPending(c) == HasStatus(Key(c), "pending")

\* The condition of the guarded writes: idempotency_key = ? AND owner = ? AND
\* status = 'pending'.
Owns(c) == HasStatus(Key(c), "pending") /\ outbox[Key(c)].owner = c

TypeOK ==
  /\ pc \in [Calls -> States]
  /\ req \in [Calls -> Requests \union {NoRequest}]
  /\ found \in [Calls -> ExternalIds \union {NoId}]
  /\ outbox \in [Keys -> Rows \union {NoRow}]
  /\ messages \in [ExternalIds -> Texts \union {NoText}]
  /\ listed \subseteq Conversations
  /\ handed \subseteq Keys \X Payloads
  /\ inFlight \subseteq Keys \X Payloads
  /\ acks \subseteq Keys \X Payloads
  /\ released \subseteq Keys
  /\ aged \subseteq Keys
  /\ \A c \in Calls : pc[c] = "idle" <=> req[c] = NoRequest

Init ==
  /\ pc = [c \in Calls |-> "idle"]
  /\ req = [c \in Calls |-> NoRequest]
  /\ found = [c \in Calls |-> NoId]
  /\ outbox = [k \in Keys |-> NoRow]
  /\ messages = [x \in ExternalIds |-> NoText]
  /\ listed = {}
  /\ handed = {}
  /\ inFlight = {}
  /\ acks = {}
  /\ released = {}
  /\ aged = {}

-----------------------------------------------------------------------------
(* The steps of a call *)

At(c, s) == pc[c] = s
Goto(c, t) == pc' = [pc EXCEPT ![c] = t]

Start(c) ==
  /\ At(c, "idle")
  /\ Goto(c, "find")
  /\ \E r \in Requests : req' = [req EXCEPT ![c] = r]
  /\ UNCHANGED <<found, database, handed, inFlight, acks, history>>

\* The first read of findByIdempotencyKey: the row of the key.
FindRow(c) ==
  /\ At(c, "find")
  /\ \/ /\ HasStatus(Key(c), "completed")
        /\ Goto(c, "lookup")
        /\ found' = [found EXCEPT ![c] = outbox[Key(c)].external]
     \/ /\ ~HasStatus(Key(c), "completed")
        /\ Goto(c, "reserve")
        /\ UNCHANGED found
  /\ UNCHANGED <<req, database, handed, inFlight, acks, history>>

\* Wrong: the comparison without the text.
SameConversation(c, p) == p.conversation = Payload(c).conversation

SamePayload(c, p) == p = Payload(c)

\* Its second read, the message by external_id, and send's comparison of what
\* was found with what was asked. A missing message means "not sent yet".
Lookup(c) ==
  /\ At(c, "lookup")
  /\ LET text == messages[found[c]]
         existing == [conversation |-> found[c][1], text |-> text]
     IN  Goto(c, IF text = NoText THEN "reserve"
                 ELSE IF SamePayload(c, existing) THEN "success"
                 ELSE "payload_error")
  /\ found' = [found EXCEPT ![c] = NoId]
  /\ UNCHANGED <<req, database, handed, inFlight, acks, history>>

\* Wrong: pending rows are never taken over, or at once.
ReservableUnlessPending(row, p) ==
  row = NoRow \/ (row # NoRow /\ row.status = "retryable" /\ row.payload = p)
ReservableAtOnce(row, p) ==
  row = NoRow \/ (row # NoRow /\ row.status # "completed" /\ row.payload = p)

\* Wrong: whoever asks takes over a retryable row.
ReservableByAnyText(row, p) ==
  \/ row = NoRow
  \/ row # NoRow /\ row.status = "retryable"
  \/ row # NoRow /\ row.status = "pending" /\ row.stale /\ row.payload = p

\* The upsert of reserveIdempotencyKey applies: no row, or a retryable or stale
\* pending row of the same conversation and text.
Reservable(row, p) ==
  \/ row = NoRow
  \/ /\ row # NoRow
     /\ \/ row.status = "retryable"
        \/ row.status = "pending" /\ row.stale
     /\ row.payload = p

Reserved(c) ==
  [status |-> "pending", payload |-> Payload(c), owner |-> c, external |-> NoId,
   stale |-> FALSE]

Reserve(c) ==
  /\ At(c, "reserve")
  /\ \/ /\ Reservable(outbox[Key(c)], Payload(c))
        /\ Goto(c, "connect")
        /\ outbox' = [outbox EXCEPT ![Key(c)] = Reserved(c)]
     \/ /\ ~Reservable(outbox[Key(c)], Payload(c))
        /\ Goto(c, "recheck")
        /\ UNCHANGED outbox
  /\ UNCHANGED <<req, found, messages, listed, handed, inFlight, acks, history>>

\* The read after an upsert that changed nothing; by now the row may be another.
Recheck(c) ==
  LET row == outbox[Key(c)]
      differs == row # NoRow /\ row.payload # Payload(c)
  IN  /\ At(c, "recheck")
      /\ \/ differs /\ Goto(c, "payload_error")
         \/ ~differs /\ Goto(c, "in_progress")
      /\ UNCHANGED <<req, found, database, handed, inFlight, acks, history>>

Connect(c) ==
  /\ At(c, "connect")
  /\ Goto(c, "send")
  /\ UNCHANGED <<req, found, database, handed, inFlight, acks, history>>

ConnectFails(c) ==
  /\ At(c, "connect")
  /\ Goto(c, "release")
  /\ UNCHANGED <<req, found, database, handed, inFlight, acks, history>>

\* releaseIdempotencyKey deletes the row, whatever happened under it before.
Release(c) ==
  /\ At(c, "release")
  /\ Goto(c, "provider_error")
  /\ \/ /\ Owns(c)
        /\ outbox' = [outbox EXCEPT ![Key(c)] = NoRow]
        /\ released' = released \union {Key(c)}
     \/ /\ ~Owns(c)
        /\ UNCHANGED <<outbox, released>>
  /\ UNCHANGED <<req, found, messages, listed, handed, inFlight, acks, aged>>

\* The adapter passes the message on to Google Messages.
HandOver(c) ==
  /\ At(c, "send")
  /\ Goto(c, "handed")
  /\ handed' = handed \union {Sending(c)}
  /\ UNCHANGED <<req, found, database, inFlight, acks, history>>

\* Wrong: an answer that did not come counts as one.
ReplyOrSilence(c) ==
  /\ At(c, "handed") \/ At(c, "send")
  /\ Goto(c, "commit")
  /\ UNCHANGED <<req, found, database, handed, inFlight, acks, history>>

Reply(c) ==
  /\ At(c, "handed")
  /\ Goto(c, "commit")
  /\ UNCHANGED <<req, found, database, handed, inFlight, acks, history>>

\* The request is refused on its way (rate limit, 503, no container), or the
\* answer is an error or never arrives although the message went out.
SendFails(c) ==
  /\ At(c, "send") \/ At(c, "handed")
  /\ Goto(c, "fail")
  /\ UNCHANGED <<req, found, database, handed, inFlight, acks, history>>

\* Effect.timeout("30 seconds") gives up on a request that is still on its way
\* and that nothing cancels.
SendTimesOut(c) ==
  /\ At(c, "send")
  /\ Goto(c, "fail")
  /\ inFlight' = inFlight \union {Sending(c)}
  /\ UNCHANGED <<req, found, database, handed, acks, history>>

\* Wrong: the error is taken for a permanent one.
FailedForGood(row) == [row EXCEPT !.status = "failed", !.stale = FALSE]

Failed(row) == [row EXCEPT !.status = "retryable", !.stale = FALSE]

Fail(c) ==
  /\ At(c, "fail")
  /\ Goto(c, "provider_error")
  /\ outbox' = IF Owns(c) THEN [outbox EXCEPT ![Key(c)] = Failed(@)] ELSE outbox
  /\ UNCHANGED <<req, found, messages, listed, handed, inFlight, acks, history>>

\* Wrong: the row does not say which message it became.
CompletedNameless(row, x) == [row EXCEPT !.status = "completed", !.stale = FALSE]

Completed(row, x) ==
  [row EXCEPT !.status = "completed", !.external = x, !.stale = FALSE]

\* INSERT OR IGNORE INTO messages
InsertMessage(x, t) ==
  messages' = [messages EXCEPT ![x] = IF @ = NoText THEN t ELSE @]

\* commitDelivery: one batch of guarded statements.
Commit(c) ==
  LET x == ProviderId(Key(c), Payload(c))
  IN  /\ At(c, "commit")
      /\ \/ /\ Owns(c)
            /\ Goto(c, "success")
            /\ outbox' = [outbox EXCEPT ![Key(c)] = Completed(@, x)]
            /\ listed' = listed \union {Payload(c).conversation}
            /\ InsertMessage(x, Payload(c).text)
         \/ /\ ~Owns(c)
            /\ Goto(c, "commit_error")
            /\ UNCHANGED database
      /\ UNCHANGED <<req, found, handed, inFlight, acks, history>>

\* The answer reaches the client, and the slot is free again.
Answer(c) ==
  /\ pc[c] \in Answers
  /\ Goto(c, "idle")
  /\ acks' = IF pc[c] = "success" THEN acks \union {Sending(c)} ELSE acks
  /\ req' = [req EXCEPT ![c] = NoRequest]
  /\ UNCHANGED <<found, database, handed, inFlight, history>>

\* The call ends without an answer. Its provider request, if one is on its way,
\* may still arrive; its reservation, if it has one, stays.
Abort(c) ==
  /\ ~At(c, "idle")
  /\ Goto(c, "idle")
  /\ req' = [req EXCEPT ![c] = NoRequest]
  /\ found' = [found EXCEPT ![c] = NoId]
  /\ \/ At(c, "send") /\ inFlight' = inFlight \union {Sending(c)}
     \/ UNCHANGED inFlight
  /\ UNCHANGED <<database, handed, acks, history>>

-----------------------------------------------------------------------------
(* What happens beside the calls *)

\* Five minutes pass: a pending row is older than the cutoff. The owner may well
\* be at work still, its connect has no timeout of its own.
Age(k) ==
  /\ HasStatus(k, "pending")
  /\ ~outbox[k].stale
  /\ outbox' = [outbox EXCEPT ![k].stale = TRUE]
  /\ aged' = aged \union {k}
  /\ UNCHANGED <<pc, req, found, messages, listed, handed, inFlight, acks, released>>

LateHandOver(s) ==
  /\ s \in inFlight
  /\ handed' = handed \union {s}
  /\ inFlight' = inFlight \ {s}
  /\ UNCHANGED <<pc, req, found, database, acks, history>>

LateLoss(s) ==
  /\ s \in inFlight
  /\ inFlight' = inFlight \ {s}
  /\ UNCHANGED <<pc, req, found, database, handed, acks, history>>

-----------------------------------------------------------------------------
\* A step that gets the call ahead, and a step that sets it back.
Advance(c) ==
  \/ Start(c) \/ FindRow(c) \/ Lookup(c) \/ Reserve(c) \/ Recheck(c)
  \/ Connect(c) \/ Release(c) \/ HandOver(c) \/ Reply(c) \/ Fail(c)
  \/ Commit(c) \/ Answer(c)

Setback(c) == ConnectFails(c) \/ SendFails(c) \/ SendTimesOut(c) \/ Abort(c)

Next ==
  \/ \E c \in Calls : Advance(c) \/ Setback(c)
  \/ \E k \in Keys : Age(k)
  \/ \E s \in inFlight : LateHandOver(s) \/ LateLoss(s)

Spec == Init /\ [][Next]_vars

\* A running call is scheduled, a client whose key is not settled tries again,
\* and time passes.
Fairness ==
  /\ \A c \in Calls : WF_vars(Advance(c))
  /\ \A k \in Keys : WF_vars(Age(k))

FairSpec == Spec /\ Fairness

-----------------------------------------------------------------------------
(* Safety *)

\* A completed key has what a later send with that key reads back: the message
\* row under the external_id the outbox row names, with the payload the key was
\* used for, and the conversation it belongs to (commitDelivery's one batch).
CompletedIsVisible ==
  \A k \in Keys :
    HasStatus(k, "completed") =>
      LET p == outbox[k].payload
      IN  /\ outbox[k].external = ProviderId(k, p)
          /\ messages[outbox[k].external] = p.text
          /\ p.conversation \in listed

\* No delivery leaves a message row behind that its key does not vouch for: not
\* an owner that lost its reservation, and not one whose commit came too late
\* (the WHERE EXISTS guards of commitDelivery).
MessagesAreVouchedFor ==
  \A x \in ExternalIds :
    messages[x] # NoText =>
      /\ HasStatus(x[2], "completed")
      /\ outbox[x[2]].payload = [conversation |-> x[1], text |-> messages[x]]

SettledOn(k, p) == HasStatus(k, "completed") /\ outbox[k].payload = p

\* What a call learned before its last await still holds when it acts on it: the
\* row it is about to look up is still completed under the external_id it read,
\* a reservation it owns is still for its payload, what it is about to commit
\* was handed over, and "sent" is about to be answered for a settled key.
Knows(c) ==
  /\ At(c, "lookup") =>
       HasStatus(Key(c), "completed") /\ found[c] = outbox[Key(c)].external
  /\ (pc[c] \in Holding /\ Owns(c)) => outbox[Key(c)].payload = Payload(c)
  /\ pc[c] \in {"handed", "commit"} => Sending(c) \in handed
  /\ At(c, "success") => SettledOn(Key(c), Payload(c))

CallsKnowTheirKey == \A c \in Calls : Knows(c)

\* No key is completed on a payload the provider was never handed, and no client
\* is told "sent" of anything but what its key is completed with.
SettlementIsReal ==
  /\ \A k \in Keys :
       HasStatus(k, "completed") => <<k, outbox[k].payload>> \in handed
  /\ \A a \in acks : SettledOn(a[1], a[2])

\* As long as nobody releases it, a key keeps its text, whatever its calls are set back
\* by: timeouts, answers that came too late, takeovers of stale or retryable rows, and
\* requests still under way when their call was given up.
OneTextUnlessReleased ==
  \A s, t \in handed : (s[1] = t[1] /\ s[1] \notin released) => s = t

\* Unless a reservation of its key has gone stale, a call that reserved the key has it
\* to itself until it is done: nobody takes over, releases, fails or completes the row
\* under it, so no two calls are at work on one key and no commit comes too late.
HoldersOwnTheirKey ==
  \A c \in Calls : (pc[c] \in Holding /\ Key(c) \notin aged) => Owns(c)

\* A reservation younger than the cutoff is ended by nobody but the call that
\* made it, in its release, fail or commit step; all anybody else can do to it
\* is wait until it is stale (reserveIdempotencyKey against the three guarded
\* writes).
OnlyOwnerEnds(k) ==
  LET row == outbox[k]
  IN  (HasStatus(k, "pending") /\ ~row.stale /\ outbox'[k] # row) =>
        \/ outbox'[k] = [row EXCEPT !.stale = TRUE]
        \/ /\ pc[row.owner] \in {"release", "fail", "commit"}
           /\ Key(row.owner) = k
           /\ pc'[row.owner] # pc[row.owner]

FreshReservationIsExclusive == [][\A k \in Keys : OnlyOwnerEnds(k)]_vars

\* The refinement: a key settles when its row is completed.
settled == [k \in Keys |-> {p \in Payloads : SettledOn(k, p)}]

Promise == INSTANCE IdempotentDelivery WITH
  outcome <- settled, handed <- handed, acked <- acks

\* Whatever calls overlap, stop, time out or are taken over, send keeps the
\* promise of IdempotentDelivery: a key settles once, on a payload the provider
\* was handed, and every "sent" a client hears is about that payload.
KeepsPromise == Promise!Spec

-----------------------------------------------------------------------------
(* Liveness *)

\* A call still works under the reservation of the row of k.
Held(k) ==
  /\ HasStatus(k, "pending")
  /\ LET c == outbox[k].owner
     IN  pc[c] \in Holding /\ Key(c) = k

\* What the program cannot rule out: a call set back before it has its answer,
\* and one so slow that its reservation goes stale under it.
Trouble ==
  \/ \E c \in Calls : pc[c] \notin Answers /\ Setback(c)
  \/ \E k \in Keys : Held(k) /\ Age(k)

\* No history of failures wedges a key: once the trouble ends, a key whose
\* clients keep retrying one payload is completed (failDelivery, the takeover of
\* retryable and stale rows, releaseIdempotencyKey).
RetriedKeyCompletes ==
  (<>[][~Trouble]_vars) => \A k \in Keys : <>HasStatus(k, "completed")

-----------------------------------------------------------------------------
(* What the repository says, and the code does not keep *)

\* One key, one payload, as far as the provider can tell: "rejects reusing an
\* idempotency key with a different payload" (messaging.test.ts:128).
OneTextPerKey ==
  \A s, t \in handed : s[1] = t[1] => s = t

=============================================================================
