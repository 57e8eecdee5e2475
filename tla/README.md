# A verification model of gmessages-cf

gmessages-cf lets an MCP client read and send the messages of one Google Messages account. These
modules model the parts of it that run concurrently, fail half-way or have to agree on state:
sending under an idempotency key, ingesting events, reading page by page, keeping the
linked-device session through restarts, and getting a request to what serves it. TLC checks them
on small instances, and TLAPS proves the main safety properties for all instances. Paths below
are relative to the repository.

## The system

| Part | State it keeps | Operations | Talks to |
| --- | --- | --- | --- |
| `MessagingService` (`src/services/messaging-service.ts`) | none | list, get, search, send | repository, provider |
| D1 repository (`src/services/d1-repository.ts`) | `conversations`, `messages`, `outbox`, `protocol_events`, `sync_state` | reserve, release, fail, commit, find, ingest, persist, sync, get, search | D1 |
| IPC provider (`src/services/google-messages-ipc.ts`) | Last-Event-ID of its reader | connect, conversations, messages, send, events | coordinator |
| Worker (`src/worker/worker.ts`) | `eventConsumerStarted`, per isolate | routing, pairing, the event consumer | all of the above |
| Session coordinator (`src/worker/session-coordinator.ts`) | envelope, pairing flag, send window (durable) | one `fetch` that wraps every request to the container | Go adapter |
| Go adapter (`adapter/cmd/server/main.go`) | `AuthData`, connection, lifecycle, pairing, subscribers (lost on restart) | connect, pairing, import, export, events, conversations, messages, send | libgm |
| In-memory repository (`src/services/repositories.ts`) | arrays and maps | as the D1 repository | fake provider |
| MCP tools (`src/worker/mcp.ts`), Access authentication (`src/services/access-authentication.ts`), attachments, D1 and R2 wrappers | none | tool calls, principals, read-through | `MessagingService`, D1, R2 |
| Stack (`alchemy.run.ts`) | what is deployed | Worker, environment, domain, Access applications | Cloudflare |

An MCP call runs in a Worker isolate; there are many isolates and any of them can be evicted
at any await. They share D1 and the one Durable Object `primary`, which serves one request at
a time and forwards it to the one container. The container's adapter runs handlers, login
goroutines and libgm's callbacks concurrently and loses everything when it stops.

What is hard, and what correctness means, part by part:

- **Send.** Concurrent calls for one key, from clients that retry; a provider whose answer can
  be lost or late; a call that can stop anywhere. A key must settle once, on one payload, with
  its message stored; only the owner of a live reservation may end it; no failure may wedge it.
- **Events.** Every isolate runs a consumer, so an event is read many times, out of order, and
  lost with a stream. What is marked as ingested must be there, a replay must change nothing,
  cursors must not run ahead of the store.
- **Reading.** Cursors over a table that grows meanwhile: complete, no repeats; and a one-time
  fetch of the history whose marker must not outlive a failed fetch.
- **Session.** A pairing takes many requests, during which the stored session must stay out of
  the adapter; a finished one has to reach storage; a restarted container has to get it back.
- **Gateway.** Stack, edge and Worker each decide who may do what, and change one after the
  other: a route must serve its own clients over any mixture of them, and serve them at all.
  Sends outlive the calls that made them, and still have to keep to a limit.

`PROJECT.json` lists every hazard at its line, with the properties that would catch it.

## Modules

| Module | What it is |
| --- | --- |
| `IdempotentDelivery` | What `send` promises, without database, owners or retries (abstract) |
| `OutboxDelivery` | `send` over D1 and the provider; implements `IdempotentDelivery` |
| `EventIntake` | What ingestion promises, without streams, isolates or markers (abstract) |
| `MessageStore` | The tables of the read model and the writes on them |
| `EventStream` | Adapter subscribers, SSE streams, consumers of the isolates; extends `MessageStore`, implements `EventIntake` |
| `OrderedScan` | What reading page by page promises, without limits or queries (abstract) |
| `ConversationReader` | Pages of a conversation or search, and hydration; implements `OrderedScan` |
| `Adapter` | The Go adapter's session state: handlers, goroutines, libgm's callbacks |
| `SessionCoordinator` | The Durable Object's `fetch`, step by step, around `Adapter` |
| `SendWindow` | The Durable Object's limit on sends |
| `Gateway` | Deployments, Cloudflare Access, the Worker's routes and the tools, around `SendWindow` |
| `MC*` | Instances for TLC |
| `*_proofs` | Theorems, checked by TLAPS |

The definitions whose comment begins with "Wrong:" are not part of any specification. Each is
a plausible bug in the definition it precedes, and shows that a property notices it.

### OutboxDelivery

A call is a slot with a program counter; each D1 statement or batch is one step, since D1 runs
it atomically, and each await lies between two steps. `FindRow` and `Lookup` are the two
queries of `findByIdempotencyKey`, `Reserve` and `Recheck` those of `reserveIdempotencyKey`.
`HandOver` is the moment the adapter passes the message to libgm. `SendTimesOut` leaves the
request in `inFlight`, since nothing cancels it, and `LateHandOver` delivers it later.
`Abort` ends a call at any point: eviction, a client that is gone, or a D1 error, before the
statement or after it took effect. `Age` makes a pending row older than the five minutes of
`reservationCutoff`; no clock is needed beyond that. The owner drawn by `randomUUID` is the
name of the slot, which is sound because an attempt writes as owner only to a row it has
reserved itself. The status `failed` cannot occur: every error the IPC provider raises is
retryable. Four variables are histories for the properties and guard nothing: `handed` and
`acks`, what was handed to the provider and acknowledged to clients, and `released` and `aged`,
the keys whose row was ever deleted by its owner or went stale.

### MessageStore and EventStream

A message is a name with a fixed conversation and time. `IngestEvent` is the batch of
`ingestEvent` with its `NOT EXISTS` guard, in which the marker is the last statement, so that
the guard is the same for all. `HandleEvent` is the adapter's non-blocking select,
`WriteEvent` the loop of `events`. A consumer goes through `fetch`, `read`, `ingest` and
`resume`; in `resume` the batch is done and the generator has not yet set its Last-Event-ID.
`Subscribe` starts from an empty channel: the adapter ignores the Last-Event-ID. `StreamEnds`
and `Refused` lead to a retry; `StreamBreaks`, `FetchRejected` and `IngestFails` end the
consumer for good, as nothing in the code catches them. `Evict` is the only way out of that.
The list of conversations is answered by the provider at some time before it is synced, so it
may date a conversation by any of its messages. `reported` is a history: the events libgm has
given the adapter.

### ConversationReader

A message is its place in the order `(sent_at, id)`, which is what a cursor encodes; a cursor
is decoded to the same place. A query returns the first `limit + 1` rows beyond the cursor and
a page keeps `limit` of them. Any message can arrive at any place between two pages, and
every call may use another limit.

### Adapter and SessionCoordinator

The coordinator's `fetch` is cut at its awaits: `Accept` (the reads and the decision to import),
`ImportEnvelope`, `SetPairingActive`, one `Forward...` per kind of request,
`ClearPairingActive`, `ExportSession`, `PutEnvelope`. `blockConcurrencyWhile` makes requests
follow each other, so there is one program counter, but the adapter moves between any two steps:
pairing completes or fails (`PairingChanges`), libgm reports (`ConnectionEvents`), the container
restarts. `Reset`, `ForwardFails`, `ImportFails` and `ExportFails` cut a request off; an import
or a start may have had its effect then. `StatusUnread` is the poll whose ok answer cannot be
read or decoded: `fetch` catches that and goes on with `NoReply`, to `ClearPairingActive`. A
cut-off request may look like one that succeeds (it stores what was stored), so the history
`failed` tells failures and restarts from other steps, for the premise of the liveness
properties. A second history, `unread`, remembers that such a poll took the flag of a pairing
down, until the flag goes up again. Credentials are `Blank` (`NewAuthData`), `Transient` (a
pairing has begun to write them) or one of `Sessions`. An envelope is the credentials it seals
and the key it was sealed with. A container may come back with another key; it then answers the
import with 503 and the request ends there, until the old envelope is deleted (`Unreadable`).
`connect` is cut where it waits: the call that opens the connection, `SeesReady`, and the
assignment that follows it. A restart ends a connect that waits or is about to answer, as it
runs in that process; what the coordinator has yet to forward reaches the new one. A connect
whose caller is cut off goes on to its assignment (`Abandoned`).

One assumption about the platform: a request forwarded by the coordinator reaches the adapter
while it is being served, or not at all. `OutboxDelivery` does not assume this of a send.

### SendWindow and Gateway

`SendWindow` is the part of the coordinator's `fetch` that counts sends, which touches nothing
of the rest: `Stamp` or `TurnAway`, and then `ForwardSend` or `CutOffSend`, some time later.
`forwarded` is a history, how long ago the container was sent what. A name of a send is free
again once both its ages have reached the window.

`Gateway` follows one request from the edge to its answer. `Settings` are what an operator may
set; `Env`, `Applications` and `Reachable` are what the stack makes of it, `Deployable` what it
insists on. `Arrive` is a client and the edge: a request for a hostname with an Access
application gets past it only for the client that the application admits, with an assertion for
the application's own audience. With it comes any of the local tokens, or none, whoever the
client is: in test mode the Worker looks at the token alone (`TestPrincipal`). `Serve` is the
Worker's `fetch` in some isolate: `Deploy` leaves isolates with the earlier environment running
until `Retire`, so that the environment that decides need not be the one that let the request
in. `Route` is the order of the checks. `CallTool` and `CallSend` are the tools; a send in real
mode gets to `SendWindow`, `GiveUp` is the timeout of the call, and the object goes on
(`SendGoesOn`). The Worker keeps nothing between requests but `eventConsumerStarted`, which is
in `EventStream`, so one request at a time is enough, next to the send of an earlier one.

## Runs

| Run | Instance | Result |
| --- | --- | --- |
| `outbox_safety` | 3 calls, 1 key, 1 conversation, 2 texts, symmetry | 318,204 states: holds |
| `outbox_liveness` | 2 calls, 1 key, 1 text, fairness | 7,721 states: holds |
| `outbox_one_text` | 2 calls, 1 key, 2 texts | violated, see findings |
| `events` | 2 isolates, 2 messages, channel and wire of 1, fairness | 116,730 states: holds |
| `event_newest`, `event_consumer_dies` | as `events` | violated, see findings |
| `reader` | 5 messages, a history of 2, limits 1 and 2 | 3,468 states: holds |
| `session` | 2 sessions, 2 keys, all kinds of request, fairness | 308,504 states: holds |
| `session_stale_import`, `session_unread_poll`, `session_envelope` | as `session`, 1 key | violated, see findings |
| `gateway` | 9 settings of two stages, 3 sends, a limit of 1, a window of 2, symmetry | 1,241,328 states: holds |

Deadlock is checked in every run.

**Why the bounds are enough to be interesting.** Three calls are needed for a reservation to be
taken over while a third call looks on; two texts for a key to be used for different payloads.
One key is enough for safety: `KeysAreIndependent` (below) proves that what happens to one key
among any others is a behaviour of an outbox that has only that key. For liveness the argument
is the same, but informal, as fairness is out of the prover's reach. Two isolates are needed for
a replay by another reader, two messages for one out of order, a channel of one to overflow. A
limit of two with five messages gives walks of one to five pages with full, partial and empty
last ones; every insertion point occurs. Two sessions make a stale one, two keys an envelope
that cannot be opened. The settings of `gateway` are production with either audience, with an
empty one and with its hostnames exchanged, a production without its mandatory email, a stage
with the default test tokens, with and without Access for its admin hostname, and local
development with and without hostname, in real and fake mode; a limit of one is exceeded by the
second send, and a third shows that it is by one only. The real numbers (16 events, 100
messages, 10 sends, 60 seconds) are constants of the modules; TLC uses small ones. `WireSize`,
at most one login goroutine of a kind, and one tick as the unit of the send window are bounds of
the models only.

**Properties.** `CompletedIsVisible`, `MessagesAreVouchedFor` relate the outbox to the messages
in both directions. `CallsKnowTheirKey` says that what a call read before an await still holds
when it acts on it. `SettlementIsReal` ties success to a hand-over.
`FreshReservationIsExclusive` is an action property: only the owner ends a young reservation.
`KeepsPromise` is the refinement. `OneTextUnlessReleased` and `HoldersOwnTheirKey` say what the
reservations are for, up to the two events that end them without their owner's success: a key
keeps one text until it is released, and one holder until it goes stale. `RetriedKeyCompletes`:
if trouble ends some time, a retried key is completed. `IngestedIsVisible`, `CursorIsDurable`
and `ReplayChangesNothing` relate marker, rows and cursors; `DueIsIngested` says that an event
in a stream is ingested unless the stream ends. `EventsTakeEffectOnce` is the refinement:
marker, rows, cursor and date change together, once. `PagesAreComplete`, `ServedOnce` and
`EmptyMeansFetched` are about whole walks, and `ReadsInOrder` is their refinement: consecutive
intervals of a set that grows meanwhile. `PairingIsFlagged` relates the adapter to the storage
of the coordinator, and `PollsSpareTheFlagged` is what it is for; both except a poll that could
not read its answer, and `PollsSpareThePairing`, which does not, is violated.
`PairedIsPersisted` and `EnvelopeIsRestored` are the two directions of recovery.
`RoutesHaveTheirClients` and `ClientsAreServed` are the two directions of access: nobody without
the hostname and the credential the serving isolate asks for, and those who have them.
`GuardedRoutesHaveTheirClients` is about clients, not credentials: where Access stands before a
hostname, a token that is sent by another changes nothing. `GatewayTypeOK` says besides types
that a client that waits for its send is not forgotten by the object. `SendsAreLimited` counts
what the container is sent, not what is stamped: within a window that is up to one more than
`sendLimit`, since the time from stamp to forward varies, and never two more, since sends are
served one by one.

**Fairness.** `outbox_liveness` assumes that a running call is scheduled, that a client whose
key is not settled sends again (the runbook tells it to keep its keys), and that time passes.
It does not assume that failures stop; the property says so as a premise. `events` assumes
that a consumer and the adapter's writer run while they have work, which the event loop and the
goroutine scheduler give them; nothing is assumed of eviction, failure or libgm.
`session` assumes that the object goes on with the request it serves and that login
goroutines return, which libgm's timeouts ensure; that failures cease and that requests keep
coming are premises of the properties (`Calm`, `Repeated`).

## Findings

- `OneTextPerKey` (`outbox_one_text`): a send reaches the provider but fails or times out; its
  retry reserves the row, cannot connect, and deletes it. The key is then free for another text,
  although a test says that reuse with a different payload is rejected. The release is the only
  way to it: `OneTextUnlessReleased` holds, and is proved.
- `LastMessageAtIsNewest` (`event_newest`): an older event ingested late moves
  `last_message_at` back. Two ingestions alone do it; in the trace TLC prints a list of
  conversations has been synced before, which only gives the conversation its first date.
- `ConsumerKeepsTrying` (`event_consumer_dies`): "A failed connection is recoverable", says the
  reader, but a rejected fetch or read, or one failed ingestion, ends the consumer of the
  isolate, and `eventConsumerStarted` keeps it from another.
- `StaleSessionStaysOut` (`session_stale_import`): only the poll is held back by the pairing
  flag; every other request imports the stored session during a pairing. Any request, even a
  poll, imports it over a paired session that was not stored, once the flag is down.
- `EnvelopeStaysUsable` (`session_envelope`): a usable envelope is overwritten by blank or
  transient credentials, as `/v1/events` is answered 200 without a session.
- `PollsSpareThePairing` (`session_unread_poll`): a poll whose ok answer breaks off or does not
  decode is taken for one that saw no pairing (the `catch` of `session-coordinator.ts:145`), so
  the flag is deleted and the next poll imports the stored session into the pairing. It is the
  only way: `PairingIsFlagged` and `PollsSpareTheFlagged` hold, and are proved.

Four limits that no document denies show up in `gateway` as cases its properties exclude. The
stack creates two Access applications, each with its own audience, and the Worker checks one,
so that only the client of that one gets past the Worker in mode `access`. A service token's
assertion needs a `sub` that is not empty. And without `GMESSAGES_HOSTNAME` the Worker compares
hostnames with the empty string, so that `/mcp` is refused everywhere. And a stage other than
production asks for a local token unless `GMESSAGES_AUTH_MODE` says otherwise (`alchemy.run.ts:40`,
while `README.md:34` of the repository says that deployments default to `access`): over a
hostname without an Access application that token is then the only credential, whoever sends it,
which is what `RoutesHaveTheirClients` says, and all it says.

## Proofs

All constants are arbitrary: any sets of calls, keys, texts, isolates and sessions, any finite
set of messages, any limit, window and settings. Of the constants only the named assumptions of
the modules are used: `NullsAreDistinct`, `ReaderAssumption`, `AuthsDiffer`,
`CoordinatorAssumption`, `MessagesAreFixed`, `SizesAreNatural`, `WindowAssumption` and
`SettingsAssumption`.

- **`OutboxDelivery_proofs`.** `TypeCorrect` first, with one lemma for the step. None of the
  four safety invariants is inductive alone: a completed row has its message only if a
  committing owner's row is still for its payload (`CallsKnowTheirKey`) and no foreign message
  sits under its id (`MessagesAreVouchedFor`); success is real only if the committing call has
  handed over (`CallsKnowTheirKey` again). `IInv` is their conjunction with `TypeOK`. Before it,
  `GrowthStep` shows that histories only grow and completed rows never change, so that what is
  settled stays settled. `InvariantStep` goes action by action; steps that touch no table share
  `QuietStep`, steps that complete nothing share `OpenStep`, and `BystanderKnows` carries the
  knowledge of the calls that do not move. `FreshReservation` follows from the types and a look
  at each guarded write. `Refinement` maps `Commit` to `Settle`, `HandOver` and `LateHandOver`
  to `Hand`, `Answer` to `Acknowledge`, and all else to stuttering. `OneText` needs an invariant
  over everything that carries a text: unless its key was released, what was handed over, the
  requests under way and the calls that may still hand over agree with the row, even calls whose
  reservation was taken over (`RowHasTheText`). `HoldersOwn` needs in addition that a row of a
  key that never went stale is not stale (`Exclusive`): then a reservation finds no row or a
  retryable one, and the owner of such a row is no longer at work. `MutualExclusion` follows at
  once.
- **`OutboxKeys_proofs`.** The instance `One` of `OutboxDelivery` has a single, arbitrary key,
  and sees of each variable the part that belongs to it; a call with another key looks idle.
  `KeysAreIndependent` is a refinement: each step on the key is the same step of `One`, each
  step on another key leaves every view as it is (`CallStays`). It needs the invariant of the
  outbox, and that an external id is remembered during a lookup only.
- **`ConversationReader_proofs`.** The invariant says that what was collected lies at or before
  the cursor and contains all that was owed up to it, that a reader without a page is owed
  nothing yet, and that the number of items is the number of collected messages. `PageContents`
  says what a page is, once, and the steps that read one are built on it. `EmptyMeansFetched`
  has an invariant of its own: the marker implies the history. `Refinement` shows each query to
  return an interval (`QueryContents`, `PageContents`), so that a page is a step of
  `OrderedScan`.
- **`SessionCoordinator_proofs`.** `PairingIsFlagged` needs that a start is only forwarded with
  the flag up, and that a poll that has read its answer takes the flag down only if no pairing
  was under way (`RepliesAreSafe`), while none can begin before the request is over.
  `PollsAreSafe` needs in addition that a poll only imports with the flag down. `TypeCorrect` is
  an invariant of its own.
- **`EventStream_proofs`.** The types, including that a consumer has an event in hand exactly
  from its yield to its return; with them, that rows come with their marker, and that a consumer
  about to remember an event has ingested it (`ResumesAfterIngest`), from which the cursors
  follow. `ReplayIsIdle` is then the guard of the batch, seen from the consumer. `Refinement` to
  `EventIntake` has one thing to show that no invariant before it says: what a consumer has in
  hand was reported. `StreamsHoldReports` follows events through channels, streams and
  consumers.
- **`SendWindow_proofs`.** The limit on forwarded sends is not inductive, and the limit on
  stamps does not imply it. `OneAtATime` is what is missing: of two forwarded sends one was
  stamped after the other was forwarded. Then at most one send that was forwarded within the
  window was stamped before it (`OneStraggler`), and all others are among the stamps that are
  counted.
- **`Gateway_proofs`.** Every step of the gateway is a step of `SendWindow` or leaves it alone
  (`WindowRefined`), which gives the limit for the whole. `RequestInv` says that an assertion is
  its client's, that what guards the hostname has admitted that client, and that an answer is
  what `Route` makes of the request in the environment that served it, whatever is deployed by
  now; both directions of access follow from it.

Only model-checked: all liveness (`RetriedKeyCompletes`, `DueIsIngested`, `PairedIsPersisted`,
`EnvelopeIsRestored`), which TLAPS does not reach.

## Not modelled

The SSE line parser and the wire schemas, input schemas and texts of the tools, participants and
titles, the fake provider, migrations, and of the stack the buckets, the database, the container
image and the rotation of tokens. Within the modelled parts: `/status` and its counter, error
codes and pairing emoji, answers for bindings that the stack always provides, tables no code
writes. The in-memory repository of fake mode is not modelled: its layer is built anew for each
tool call (`mcp.ts:38`), over a fixture of one message and with an `ingestEvent` that does
nothing, so nothing of it is there when a call is retried, and no walk has a second page. Its
`slice(start, limit + 1)` (`repositories.ts:164` and `243`) takes an end for a length and would
cut later pages short: a latent defect, which no call of the program reaches.

Each module takes the others as they should be: a send of `OutboxDelivery` does not know of the
limit, nor a conversation of `ConversationReader` of the sends. What hydration misses when an
event or a send stores the first message of a conversation is therefore listed as a hazard
without a property, and so is a start that outlives the object that forwarded it.

## Plan

Done: the outbox with its refinement; store, event stream and reader; coordinator, adapter and
session keys; send window and gateway; proofs of every safety property that holds, of the three
refinements, and of the independence of keys. Next, in
this order:

1. Compose sends, events and the reader over one store, to state what hydration misses when an
   event or a send comes first, and what `last_message_at` is after a commit.
2. Session: a request that outlives its caller, and what a poll may report after a logout that
   `connect` overwrites; an abstract specification of the session's ownership that the
   coordinator implements as far as it can.
3. Messages whose text the adapter does not accept, as a provider that refuses for good.
