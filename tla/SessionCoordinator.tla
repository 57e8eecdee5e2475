-------------------------- MODULE SessionCoordinator --------------------------
(***************************************************************************)
(* The Durable Object that owns the one session (session-coordinator.ts).  *)
(* fetch runs under blockConcurrencyWhile, so requests are served one at a *)
(* time; between its awaits the adapter goes on: libgm's events arrive,    *)
(* login goroutines return, the container restarts. The object itself can  *)
(* be reset between any two awaits (eviction, the limit of                 *)
(* blockConcurrencyWhile, a rejected storage call) and then only its       *)
(* storage is left.                                                        *)
(*                                                                         *)
(* A request is its kind. Left out, as they change nothing: unknown paths  *)
(* and methods, /status, a missing container binding, the request count.   *)
(* The send window, which turns a send away and touches nothing else, is   *)
(* SendWindow; a send that gets through it is a "read" here.               *)
(***************************************************************************)
EXTENDS Adapter

CONSTANTS Requests,      \* the kinds of request that are made
          NoEnvelope     \* undefined: no session was stored

Kinds == {"start", "account", "status", "connect", "read", "events"}

ASSUME CoordinatorAssumption ==
  /\ Requests \subseteq Kinds
  /\ NoEnvelope \notin Envelopes

VARIABLES envelope,       \* storage "session-envelope"
          pairingActive,  \* storage "pairing-active"
          unread,         \* history: a poll that could not read its answer took the
                          \* flag of a pairing down, and it has not gone up since
          pc,             \* the await that fetch is at
          kind,           \* the request it serves
          reply,          \* what a pair/status answer said
          exported,       \* the envelope read from the adapter
          failed          \* history: the last step was a failure

storage == <<envelope, pairingActive, unread>>
request == <<pc, kind, reply, exported>>
vars == <<adapter, storage, request, failed>>

Steps == {"idle", "import", "flag", "forward", "wait", "ready", "unflag", "export", "put"}
\* What fetch knows of a pair/status answer. One that is ok but breaks off, or does not
\* decode, is not read: both fields are then left as they were initialised.
Reply == [read : BOOLEAN, paired : BOOLEAN, pairing : BOOLEAN]
NoReply == [read |-> FALSE, paired |-> FALSE, pairing |-> FALSE]

TypeOK ==
  /\ AdapterTypeOK
  /\ envelope \in Envelopes \union {NoEnvelope}
  /\ pairingActive \in BOOLEAN
  /\ unread \in BOOLEAN
  /\ pc \in Steps
  /\ kind \in Kinds \union {"none"}
  /\ (pc = "idle") <=> (kind = "none")
  /\ reply \in Reply
  /\ exported \in Envelopes \union {NoEnvelope}
  /\ (pc = "put") <=> (exported # NoEnvelope)
  /\ failed \in BOOLEAN

Init ==
  /\ AdapterInit
  /\ envelope = NoEnvelope
  /\ pairingActive = FALSE
  /\ unread = FALSE
  /\ pc = "idle"
  /\ kind = "none"
  /\ reply = NoReply
  /\ exported = NoEnvelope
  /\ failed = FALSE

Starts(k) == k \in {"start", "account"}
PairingRequest(k) == Starts(k) \/ k = "status"

At(s) == pc = s
Goto(t) == pc' = t /\ UNCHANGED <<kind, reply, exported>>

\* Wrong: what one request has exported is still in hand in the next.
DoneWithoutCleanup ==
  /\ pc' = "idle"
  /\ kind' = "none"
  /\ reply' = NoReply
  /\ UNCHANGED exported

\* fetch returns its response, or is cut off.
Done ==
  /\ pc' = "idle"
  /\ kind' = "none"
  /\ reply' = NoReply
  /\ exported' = NoEnvelope

-----------------------------------------------------------------------------
(* Serving a request *)

\* Wrong: a poll is taken for any other request.
ImportsUnlessStarting(k) == envelope # NoEnvelope /\ ~Starts(k)

\* Whether the stored session is handed to the adapter first.
Imports(k) ==
  /\ envelope # NoEnvelope
  /\ ~PairingRequest(k) \/ (k = "status" /\ ~pairingActive)

Accept(k) ==
  /\ At("idle")
  /\ kind' = k
  /\ pc' = IF Imports(k) THEN "import" ELSE IF Starts(k) THEN "flag" ELSE "forward"
  /\ UNCHANGED <<adapter, storage, reply, exported>>

\* Without an ok the request ends here: "Session recovery failed".
ImportEnvelope ==
  /\ At("import")
  /\ IF Opens(envelope)
     THEN ImportSession(envelope) /\ Goto("forward")
     ELSE UNCHANGED adapter /\ Done
  /\ UNCHANGED storage

\* The adapter was not reached, or its answer was lost.
ImportFails ==
  /\ At("import")
  /\ (Opens(envelope) /\ ImportSession(envelope)) \/ UNCHANGED adapter
  /\ Done
  /\ UNCHANGED storage

SetPairingActive ==
  /\ At("flag")
  /\ pairingActive' = TRUE
  /\ unread' = FALSE
  /\ Goto("forward")
  /\ UNCHANGED <<adapter, envelope>>

\* What a start answers does not matter: it is not followed by an export.
ForwardStart ==
  /\ At("forward")
  /\ \/ kind = "start" /\ StartPairing
     \/ kind = "account" /\ StartAccountPairing
  /\ Done
  /\ UNCHANGED storage

ForwardStatus ==
  /\ At("forward") /\ kind = "status"
  /\ reply' = [read |-> TRUE, paired |-> lifecycle = "paired", pairing |-> pairing]
  /\ pc' = "unflag"
  /\ UNCHANGED <<adapter, storage, kind, exported>>

\* The answer is ok, but its body cannot be read or decoded: fetch catches that, and goes
\* on as if the adapter were neither paired nor pairing.
StatusUnread ==
  /\ At("forward") /\ kind = "status"
  /\ reply' = NoReply
  /\ pc' = "unflag"
  /\ UNCHANGED <<adapter, storage, kind, exported>>

\* conversations, messages and send need a linked device that answers.
ForwardRead ==
  /\ At("forward") /\ kind = "read"
  /\ connected /\ auth \in Sessions
  /\ Goto("export")
  /\ UNCHANGED <<adapter, storage>>

\* The event stream is answered 200 whatever the state of the session.
ForwardEvents ==
  /\ At("forward") /\ kind = "events"
  /\ Goto("export")
  /\ UNCHANGED <<adapter, storage>>

\* POST /v1/connect: connected and ready; or SetActiveSession, or Connect, and then
\* waitUntilReady.
ForwardConnect ==
  /\ At("forward") /\ kind = "connect"
  /\ \/ connected /\ ready /\ Goto("export") /\ UNCHANGED adapter
     \/ connected /\ ~ready /\ Goto("wait") /\ UNCHANGED adapter
     \/ ConnectOpens /\ Goto("wait")
     \/ ConnectFails /\ Done
  /\ UNCHANGED storage

SeesReady ==
  /\ At("wait")
  /\ ready
  /\ Goto("ready")
  /\ UNCHANGED <<adapter, storage>>

ConnectReplies ==
  /\ At("ready")
  /\ ConnectSettles
  /\ Goto("export")
  /\ UNCHANGED storage

\* The adapter answers an error: the provider failed, or connect's 15 seconds have
\* passed.
ForwardErrs ==
  /\ \/ At("forward") /\ kind \in {"read", "connect"}
     \/ At("wait")
  /\ Done
  /\ UNCHANGED <<adapter, storage>>

\* A connect that has seen ready settles, whoever still waits for its answer.
Abandoned == IF At("ready") THEN ConnectSettles ELSE UNCHANGED adapter

\* The adapter is not reached, or its answer is lost.
ForwardFails ==
  /\ pc \in {"forward", "wait", "ready"}
  /\ Abandoned
  /\ Done
  /\ UNCHANGED storage

\* Wrong: only the poll that takes the flag down exports.
CompletedJustNow(r) == r.paired /\ pairingActive

\* A poll is followed by an export when the pairing has completed.
PairingCompleted(r) == r.paired

\* The flag is about to go down under a pairing that goes on.
FlagLost == pairing /\ pairingActive /\ ~reply.read

\* Wrong: the first poll that gets an answer takes the flag down.
ClearAtFirstPoll ==
  /\ At("unflag")
  /\ pairingActive' = FALSE
  /\ unread' = (unread \/ FlagLost)
  /\ IF PairingCompleted(reply) THEN Goto("export") ELSE Done
  /\ UNCHANGED <<adapter, envelope>>

\* A pairing that is not seen to go on has its flag taken down; a completed one is
\* exported.
ClearPairingActive ==
  /\ At("unflag")
  /\ pairingActive' = (pairingActive /\ reply.pairing)
  /\ unread' = (unread \/ FlagLost)
  /\ IF PairingCompleted(reply) THEN Goto("export") ELSE Done
  /\ UNCHANGED <<adapter, envelope>>

ExportSession ==
  /\ At("export")
  /\ exported' = ExportedSession
  /\ pc' = "put"
  /\ UNCHANGED <<adapter, storage, kind, reply>>

ExportFails ==
  /\ At("export")
  /\ Done
  /\ UNCHANGED <<adapter, storage>>

PutEnvelope ==
  /\ At("put")
  /\ envelope' = exported
  /\ Done
  /\ UNCHANGED <<adapter, pairingActive, unread>>

\* The object is reset while it serves a request.
Reset ==
  /\ ~At("idle")
  /\ Abandoned
  /\ Done
  /\ UNCHANGED storage

-----------------------------------------------------------------------------

Unserved == UNCHANGED <<storage, request>>
AdapterMoves == (PairingChanges \/ ConnectionEvents) /\ Unserved

\* A connect ends with the process it runs in. What is yet to be forwarded is not lost: it
\* reaches the new process.
RestartContainer ==
  /\ Restart
  /\ UNCHANGED storage
  /\ IF pc \in {"wait", "ready"} THEN Done ELSE UNCHANGED request

Serve ==
  \/ ImportEnvelope \/ SetPairingActive \/ ForwardStart \/ ForwardStatus
  \/ ForwardRead \/ ForwardEvents \/ ForwardConnect \/ SeesReady \/ ConnectReplies
  \/ ForwardErrs \/ ClearPairingActive \/ ExportSession \/ PutEnvelope

Fail == ImportFails \/ ForwardFails \/ StatusUnread \/ ExportFails \/ Reset

\* A failure may look like a step that succeeds: failed tells them apart.
Good(A) == A /\ failed' = FALSE
Bad(A) == A /\ failed' = TRUE

Next ==
  \/ \E k \in Requests : Good(Accept(k))
  \/ Good(Serve)
  \/ Bad(Fail)
  \/ Good(AdapterMoves)
  \/ Bad(RestartContainer)

Spec == Init /\ [][Next]_vars

\* The object goes on with the request it serves, and login goroutines return.
FairSpec ==
  /\ Spec
  /\ WF_vars(Good(Serve))
  /\ WF_vars(Good((LoginReturns \/ LoginFails) /\ Unserved))
  /\ WF_vars(Good(GaiaPairingReturns /\ Unserved))

-----------------------------------------------------------------------------
(* Properties *)

\* While the adapter has a pairing under way the coordinator knows of it, through lost
\* answers, resets of the object and restarts of the container: the flag goes up before
\* the start is forwarded and comes down only once a poll has seen the pairing over, with
\* one exception, a poll whose ok answer cannot be read (session-coordinator.ts:145).
PairingIsFlagged == pairing => (pairingActive \/ unread)

\* Polling a pairing does not overwrite it, again with that exception: when a poll hands
\* the stored session to an adapter that is pairing, an unreadable answer had cost the
\* pairing its flag.
PollsSpareTheFlagged == (pc = "import" /\ kind = "status" /\ pairing) => unread

\* "does not restore a stale session while Gaia pairing is active"
\* (session-coordinator.test.ts:154), where the request that must not is a poll.
PollsSpareThePairing == (pc = "import" /\ kind = "status") => ~pairing

\* From some moment on nothing fails and the container stays up.
Calm == <>[]~failed

\* Requests of kind k keep coming, and get their turn.
Repeated(k) == SF_vars(Good(Accept(k)))

\* The stored session cannot be restored: the container runs under another key.
Unreadable == envelope # NoEnvelope /\ ~Opens(envelope)

\* "The Durable Object captures the encrypted session after the status request"
\* (runbook.md:39): once paired, if the operator keeps polling, the session ends up
\* in storage, unless it is replaced in the adapter or stops being paired, or an
\* envelope of another key is in the way ("Delete the old encrypted session
\* envelope", runbook.md:45).
PairedIsPersisted ==
  (Calm /\ Repeated("status")) =>
    \A s \in Sessions :
      (lifecycle = "paired" /\ auth = s) ~>
        (envelope = ExportedSession \/ lifecycle # "paired" \/ auth # s \/ Unreadable)

\* "allow the Durable Object to restore the encrypted session envelope"
\* (runbook.md:15): an empty container gets the stored session back as long as
\* requests other than pairing keep coming and it has the key the session was
\* sealed with, unless a pairing is begun.
Stored(s) == envelope # NoEnvelope /\ envelope.session = s
EnvelopeIsRestored ==
  (Calm /\ Repeated("connect")) =>
    \A s \in Sessions :
      (Stored(s) /\ auth = Blank) ~> (auth # Blank \/ ~Stored(s) \/ Unreadable \/ pairing)

\* The adapter has been paired and what it holds was not stored yet.
Unsaved ==
  lifecycle = "paired" /\ auth \in Sessions /\ ~Stored(auth)

\* "does not restore a stale session while Gaia pairing is active"
\* (session-coordinator.test.ts:154), nor over the session that came of it, which
\* the object captures "after the status request" (runbook.md:39).
Usable(e) == e # NoEnvelope /\ e.session \in Sessions
StaleSessionStaysOut ==
  [][(Usable(envelope) /\ pc = "import" /\ pc' # "import" /\ auth' # auth) =>
       ~pairing /\ ~Unsaved]_vars

\* "A transient pairing session is not sufficient for restart recovery."
\* (protocol.md:5): a stored session is replaced by a session.
EnvelopeStaysUsable == [][Usable(envelope) => Usable(envelope')]_vars

=============================================================================
