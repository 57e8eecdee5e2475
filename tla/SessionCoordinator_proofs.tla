----------------------- MODULE SessionCoordinator_proofs -----------------------
(***************************************************************************)
(* Proofs about SessionCoordinator: its types, and that the pairing-active *)
(* flag in storage tracks the adapter's pairing through every failure.     *)
(***************************************************************************)
EXTENDS SessionCoordinator, TLAPS

\* What the handlers of the adapter and the events of libgm leave of its types. An
\* import is of an envelope's credentials.
LEMMA AdapterTypeStep ==
  ASSUME AdapterTypeOK,
         \/ Restart \/ PairingChanges \/ ConnectionEvents
         \/ StartPairing \/ StartAccountPairing
         \/ ConnectOpens \/ ConnectFails \/ ConnectSettles
         \/ \E e \in Envelopes : ImportSession(e)
         \/ UNCHANGED adapter
  PROVE  AdapterTypeOK'
<1>0. Blank # Transient /\ Blank \notin Sessions
  BY AuthsDiffer
<1> USE DEF AdapterTypeOK, Auths, Lifecycles
<1>1. CASE Restart
  BY <1>1 DEF Restart
<1>2. CASE PairingChanges
  <2>1. CASE LoginReturns
    BY <2>1, <1>0 DEF LoginReturns
  <2>2. CASE LoginFails
    BY <2>2 DEF LoginFails
  <2>3. CASE GaiaPairingReturns
    BY <2>3 DEF GaiaPairingReturns
  <2>4. ASSUME NEW s \in Sessions, PairSuccessful(s) PROVE AdapterTypeOK'
    BY <2>4, <1>0 DEF PairSuccessful
  <2> QED BY <1>2, <2>1, <2>2, <2>3, <2>4 DEF PairingChanges
<1>3. CASE ConnectionEvents
  BY <1>3 DEF ConnectionEvents, ClientReady, GaiaLoggedOut, ListenFatalError,
              ConnectionChanges
<1>4. CASE StartPairing \/ StartAccountPairing
  BY <1>4, <1>0 DEF StartPairing, StartAccountPairing, adapter
<1>5. CASE ConnectOpens \/ ConnectFails \/ ConnectSettles
  <2>1. CASE ConnectOpens
    BY <2>1, <1>0 DEF ConnectOpens
  <2>2. CASE ConnectFails
    BY <2>2 DEF ConnectFails
  <2>3. CASE ConnectSettles
    BY <2>3 DEF ConnectSettles
  <2> QED BY <1>5, <2>1, <2>2, <2>3
<1>6. CASE \E e \in Envelopes : ImportSession(e)
  BY <1>6 DEF ImportSession, Envelopes
<1>7. CASE UNCHANGED adapter
  BY <1>7 DEF adapter
<1> QED BY <1>1, <1>2, <1>3, <1>4, <1>5, <1>6, <1>7

\* The rest of TypeOK: what the object has stored and what it has in hand.
CoordinatorTypeOK ==
  /\ envelope \in Envelopes \union {NoEnvelope}
  /\ pairingActive \in BOOLEAN
  /\ unread \in BOOLEAN
  /\ pc \in Steps
  /\ kind \in Kinds \union {"none"}
  /\ (pc = "idle") <=> (kind = "none")
  /\ reply \in Reply
  /\ exported \in Envelopes \union {NoEnvelope}
  /\ (pc = "put") <=> (exported # NoEnvelope)
  /\ (pc = "import") => (envelope # NoEnvelope)

\* Every step keeps the types of the object's storage and of the request it serves.
LEMMA CoordinatorTypeStep ==
  ASSUME AdapterTypeOK, CoordinatorTypeOK, [Next]_vars
  PROVE  CoordinatorTypeOK'
<1>r. NoReply \in Reply
  BY DEF NoReply, Reply
<1> USE CoordinatorAssumption, <1>r DEF CoordinatorTypeOK, At, Goto, Done, storage
<1>1. CASE (\E k \in Requests : Accept(k)) \/ StatusUnread
  BY <1>1 DEF Accept, StatusUnread, Imports, Kinds, Steps
<1>2. CASE ImportEnvelope \/ ImportFails
  BY <1>2 DEF ImportEnvelope, ImportFails, Steps, Kinds
<1>3. CASE SetPairingActive
  BY <1>3 DEF SetPairingActive, Steps
<1>4. CASE ForwardStart \/ ForwardRead \/ ForwardEvents \/ ForwardConnect \/ SeesReady
           \/ ConnectReplies \/ ForwardErrs
  BY <1>4 DEF ForwardStart, ForwardRead, ForwardEvents, ForwardConnect, SeesReady,
              ConnectReplies, ForwardErrs, Steps, Kinds
<1>5. CASE ForwardStatus
  BY <1>5 DEF ForwardStatus, AdapterTypeOK, Steps, Reply, storage
<1>6. CASE ClearPairingActive
  BY <1>6 DEF ClearPairingActive, FlagLost, AdapterTypeOK, Reply, Steps, Kinds
<1>7. CASE ExportSession
  BY <1>7 DEF ExportSession, ExportedSession, Envelopes, AdapterTypeOK, Steps
<1>8. CASE PutEnvelope
  BY <1>8 DEF PutEnvelope, Steps, Kinds
<1>9. CASE ForwardFails \/ ExportFails \/ Reset
  BY <1>9 DEF ForwardFails, ExportFails, Reset, Steps, Kinds
<1>10. CASE AdapterMoves \/ UNCHANGED vars
  BY <1>10 DEF AdapterMoves, Unserved, request, vars
<1>11. CASE RestartContainer
  BY <1>11 DEF RestartContainer, request, Steps, Kinds
<1> QED
  BY <1>1, <1>2, <1>3, <1>4, <1>5, <1>6, <1>7, <1>8, <1>9, <1>10, <1>11
     DEF Next, Serve, Fail, Good, Bad

\* Every step keeps the types of the adapter.
LEMMA AdapterTypeNext ==
  ASSUME AdapterTypeOK, CoordinatorTypeOK, [Next]_vars
  PROVE  AdapterTypeOK'
<1>1. CASE ImportEnvelope \/ ImportFails
  <2>1. pc = "import" /\ envelope \in Envelopes
    BY <1>1 DEF ImportEnvelope, ImportFails, At, CoordinatorTypeOK
  <2>2. ImportSession(envelope) \/ UNCHANGED adapter
    BY <1>1 DEF ImportEnvelope, ImportFails
  <2> QED BY <2>1, <2>2, AdapterTypeStep
<1>2. CASE ForwardStart \/ ForwardConnect \/ ConnectReplies
  BY <1>2, AdapterTypeStep DEF ForwardStart, ForwardConnect, ConnectReplies, adapter
<1>3. CASE AdapterMoves \/ RestartContainer
  BY <1>3, AdapterTypeStep DEF AdapterMoves, RestartContainer
<1>4. CASE \/ \E k \in Requests : Accept(k)
           \/ SetPairingActive \/ ForwardStatus \/ StatusUnread \/ ForwardRead
           \/ ForwardEvents
           \/ SeesReady \/ ForwardErrs \/ ClearPairingActive \/ ExportSession
           \/ PutEnvelope \/ ExportFails \/ UNCHANGED vars
  <2>1. UNCHANGED adapter
    BY <1>4 DEF Accept, SetPairingActive, ForwardStatus, StatusUnread, ForwardRead,
                ForwardEvents, SeesReady, ForwardErrs, ClearPairingActive, ExportSession, PutEnvelope,
                ExportFails, vars
  <2> QED BY <2>1, AdapterTypeStep
<1>5. CASE ForwardFails \/ Reset
  BY <1>5, AdapterTypeStep DEF ForwardFails, Reset, Abandoned
<1> QED BY <1>1, <1>2, <1>3, <1>4, <1>5 DEF Next, Serve, Fail, Good, Bad

\* The object stores and holds what its fields are declared to, and an envelope is
\* in hand exactly between its export and its storage (fetch).
THEOREM TypeCorrect == Spec => []TypeOK
<1> DEFINE Types == AdapterTypeOK /\ CoordinatorTypeOK /\ failed \in BOOLEAN
<1>1. Init => Types
  <2>1. NoReply \in Reply
    BY DEF NoReply, Reply
  <2>2. Init => AdapterTypeOK
    BY DEF Init, AdapterInit, AdapterTypeOK, Auths, Lifecycles
  <2> QED BY <2>1, <2>2 DEF Init, CoordinatorTypeOK, Steps
<1>2. Types /\ [Next]_vars => Types'
  <2>1. failed \in BOOLEAN /\ [Next]_vars => failed' \in BOOLEAN
    BY DEF Next, Good, Bad, vars
  <2> QED BY <2>1, CoordinatorTypeStep, AdapterTypeNext
<1>3. Types => TypeOK
  BY DEF CoordinatorTypeOK, TypeOK
<1> QED BY <1>1, <1>2, <1>3, PTL DEF Spec

-----------------------------------------------------------------------------
(* The flag *)

\* A start is forwarded with the flag up, and never by way of an import.
StartsAreFlagged ==
  Starts(kind) => pc # "import" /\ (pc = "forward" => pairingActive)

\* What was read of a pairing is so until the pairing ends, and no other begins
\* meanwhile.
RepliesAreSafe == (pc = "unflag" /\ reply.read /\ pairing) => reply.pairing

\* A poll that imports has found the flag down.
PollsImportUnflagged == (pc = "import" /\ kind = "status") => ~pairingActive

IInv ==
  /\ PairingIsFlagged
  /\ StartsAreFlagged
  /\ RepliesAreSafe
  /\ PollsImportUnflagged

-----------------------------------------------------------------------------

\* By itself the adapter may end a pairing but not begin one.
LEMMA AdapterStep ==
  ASSUME IInv, PairingChanges \/ ConnectionEvents \/ Restart,
         UNCHANGED <<pairingActive, unread, pc, kind, reply>>
  PROVE  IInv'
<1>1. pairing' => pairing
  BY DEF PairingChanges, ConnectionEvents, Restart, LoginReturns, LoginFails,
         GaiaPairingReturns, PairSuccessful, ClientReady, GaiaLoggedOut,
         ListenFatalError, ConnectionChanges
<1>2. QED
  BY <1>1 DEF IInv, PairingIsFlagged, StartsAreFlagged, RepliesAreSafe,
              PollsImportUnflagged

\* So does a step of the coordinator that leaves flag and pairing alone and does not
\* come to one of the places the invariant speaks of.
LEMMA PlainStep ==
  ASSUME IInv, UNCHANGED <<pairing, pairingActive, unread>>,
         pc' \notin {"import", "forward", "unflag"}
  PROVE  IInv'
BY DEF IInv, PairingIsFlagged, StartsAreFlagged, RepliesAreSafe, PollsImportUnflagged

\* Every step keeps the flag up while a pairing is under way or may still begin.
LEMMA InvariantStep ==
  ASSUME IInv, [Next]_vars
  PROVE  IInv'
<1> USE DEF At, Goto, Done
<1>1. CASE \E k \in Requests : Accept(k)
  <2>1. PICK k \in Requests : Accept(k)
    BY <1>1
  <2>2. UNCHANGED <<pairing, pairingActive, unread>> /\ kind' = k /\ pc' # "unflag"
    BY <2>1 DEF Accept, adapter, storage
  <2>3. pc' = "import" => ~Starts(k) /\ (k = "status" => ~pairingActive)
    BY <2>1 DEF Accept, Imports, PairingRequest, Starts
  <2>4. pc' = "forward" => ~Starts(k)
    BY <2>1 DEF Accept
  <2>5. QED
    BY <2>2, <2>3, <2>4
       DEF IInv, PairingIsFlagged, StartsAreFlagged, RepliesAreSafe,
           PollsImportUnflagged, Starts
<1>2. CASE ImportEnvelope
  BY <1>2 DEF ImportEnvelope, ImportSession, adapter, storage, IInv, PairingIsFlagged,
              StartsAreFlagged, RepliesAreSafe, PollsImportUnflagged, Starts
<1>3. CASE SetPairingActive
  BY <1>3 DEF SetPairingActive, adapter, IInv, PairingIsFlagged,
              StartsAreFlagged, RepliesAreSafe, PollsImportUnflagged, Starts
<1>4. CASE ForwardStart
  <2>1. pairingActive /\ pairingActive' = pairingActive /\ pc' = "idle"
    BY <1>4 DEF ForwardStart, storage, IInv, StartsAreFlagged, Starts
  <2>2. QED
    BY <2>1 DEF IInv, PairingIsFlagged, StartsAreFlagged, RepliesAreSafe,
                PollsImportUnflagged
<1>5. CASE ForwardStatus \/ StatusUnread
  <2>1. /\ UNCHANGED <<pairing, pairingActive, unread>>
        /\ pc' = "unflag"
        /\ reply'.read => reply'.pairing = pairing
    BY <1>5 DEF ForwardStatus, StatusUnread, NoReply, adapter, storage
  <2>2. QED
    BY <2>1 DEF IInv, PairingIsFlagged, StartsAreFlagged, RepliesAreSafe,
                PollsImportUnflagged
<1>6. CASE ClearPairingActive
  <2>1. /\ pairing' = pairing
        /\ pairingActive' = (pairingActive /\ reply.pairing)
        /\ unread' = (unread \/ (pairing /\ pairingActive /\ ~reply.read))
        /\ pc' \in {"export", "idle"}
    BY <1>6 DEF ClearPairingActive, FlagLost, adapter
  <2>2. pairing => (pairingActive \/ unread) /\ (reply.read => reply.pairing)
    BY <1>6 DEF ClearPairingActive, IInv, PairingIsFlagged, RepliesAreSafe
  <2>3. QED
    BY <2>1, <2>2 DEF IInv, PairingIsFlagged, StartsAreFlagged, RepliesAreSafe,
                      PollsImportUnflagged
<1>7. CASE ForwardRead \/ ForwardEvents \/ SeesReady \/ ForwardErrs \/ ExportSession
  BY <1>7, PlainStep
     DEF ForwardRead, ForwardEvents, SeesReady, ForwardErrs, ExportSession,
         adapter, storage
<1>8. CASE ForwardConnect
  BY <1>8, PlainStep DEF ForwardConnect, ConnectOpens, ConnectFails, adapter, storage
<1>9. CASE ConnectReplies
  BY <1>9, PlainStep DEF ConnectReplies, ConnectSettles, storage
<1>10. CASE PutEnvelope
  BY <1>10, PlainStep DEF PutEnvelope, adapter
<1>11. CASE ImportFails \/ ForwardFails \/ ExportFails \/ Reset
  BY <1>11, PlainStep
     DEF ImportFails, ForwardFails, ExportFails, Reset, Abandoned, ConnectSettles,
         ImportSession, adapter, storage
<1>12. CASE AdapterMoves
  BY <1>12, AdapterStep DEF AdapterMoves, Unserved, storage, request
<1>13. CASE UNCHANGED vars
  <2>1. UNCHANGED <<pairing, pairingActive, unread, pc, kind, reply>>
    BY <1>13 DEF vars, adapter, storage, request
  <2>2. QED
    BY <2>1 DEF IInv, PairingIsFlagged, StartsAreFlagged, RepliesAreSafe,
                PollsImportUnflagged
<1>14. CASE RestartContainer
  <2>1. CASE UNCHANGED request
    BY <1>14, <2>1, AdapterStep DEF RestartContainer, storage, request
  <2>2. CASE ~UNCHANGED request
    <3>1. ~pairing' /\ pc' = "idle" /\ UNCHANGED pairingActive
      BY <1>14, <2>2 DEF RestartContainer, Restart, storage
    <3> QED
      BY <3>1 DEF IInv, PairingIsFlagged, StartsAreFlagged, RepliesAreSafe,
                  PollsImportUnflagged
  <2> QED BY <2>1, <2>2
<1>15. QED
  BY <1>1, <1>2, <1>3, <1>4, <1>5, <1>6, <1>7, <1>8, <1>9, <1>10, <1>11, <1>12, <1>13, <1>14
     DEF Next, Serve, Fail, Good, Bad

\* In every reachable state a pairing is flagged, and so is a start on its way (fetch of
\* session-coordinator.ts).
THEOREM Invariant == Spec => []IInv
<1>1. Init => IInv
  BY DEF Init, AdapterInit, IInv, PairingIsFlagged, StartsAreFlagged,
         RepliesAreSafe, PollsImportUnflagged
<1>2. IInv /\ [Next]_vars => IInv'
  BY InvariantStep
<1>3. QED
  BY <1>1, <1>2, PTL DEF Spec

\* While the adapter has a pairing under way the flag is up in storage, whatever fails,
\* is reset or restarts, unless a poll could not read its answer since it went up (fetch
\* of session-coordinator.ts).
THEOREM Flagged == Spec => []PairingIsFlagged
BY Invariant, PTL DEF IInv

\* A poll hands the stored session to an adapter that is pairing only when the flag was
\* lost to an answer that could not be read (fetch of session-coordinator.ts).
THEOREM PollsAreSafe == Spec => []PollsSpareTheFlagged
<1>1. IInv => PollsSpareTheFlagged
  BY DEF IInv, PairingIsFlagged, PollsImportUnflagged, PollsSpareTheFlagged
<1>2. QED
  BY <1>1, Invariant, PTL

=============================================================================
