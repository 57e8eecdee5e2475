------------------------------- MODULE Adapter -------------------------------
(***************************************************************************)
(* The Go adapter in the container (adapter/cmd/server/main.go): what it   *)
(* knows of the linked device, and the handlers and goroutines that change *)
(* it. libgm is external: it calls handleEvent, it opens and closes its    *)
(* connection, and it writes AuthData while a pairing is under way.        *)
(*                                                                         *)
(* A handler is an operator that constrains the next state of the adapter; *)
(* SessionCoordinator, which forwards the requests, says when it runs.     *)
(* Errors, QR codes and emoji are display only: of them only whether a QR  *)
(* code is out to be scanned is kept.                                      *)
(***************************************************************************)
EXTENDS Integers, FiniteSets

CONSTANTS Sessions,    \* credentials of completed pairings
          Blank,       \* libgm.NewAuthData()
          Transient,   \* credentials a pairing has begun to write
          SessionKeys  \* values LIBGM_SESSION_KEY is given

ASSUME AuthsDiffer == Blank # Transient /\ {Blank, Transient} \cap Sessions = {}

VARIABLES auth,        \* client.AuthData
          connected,   \* client.IsConnected()
          lifecycle,
          ready,
          pairing,
          pairingURL,  \* a QR code is out to be scanned
          logins,      \* goroutines of startPairing and startAccountPairing
          sessionKey   \* LIBGM_SESSION_KEY of the process

adapter == <<auth, connected, lifecycle, ready, pairing, pairingURL, logins, sessionKey>>

Auths == Sessions \union {Blank, Transient}
Lifecycles == {"unpaired", "paired", "reauthentication_required", "disconnected"}

AdapterTypeOK ==
  /\ auth \in Auths
  /\ connected \in BOOLEAN
  /\ lifecycle \in Lifecycles
  /\ ready \in BOOLEAN
  /\ pairing \in BOOLEAN
  /\ pairingURL \in BOOLEAN
  /\ logins \subseteq {"qr", "gaia"}
  /\ sessionKey \in SessionKeys
  /\ connected => auth # Blank

AdapterInit ==
  /\ auth = Blank
  /\ connected = FALSE
  /\ lifecycle = "unpaired"
  /\ ready = FALSE
  /\ pairing = FALSE
  /\ pairingURL = FALSE
  /\ logins = {}
  /\ sessionKey \in SessionKeys

\* The container stops at any moment and a new process starts from nothing, with
\* the key the operator has provisioned by then.
Restart ==
  /\ auth' = Blank
  /\ connected' = FALSE
  /\ lifecycle' = "unpaired"
  /\ ready' = FALSE
  /\ pairing' = FALSE
  /\ pairingURL' = FALSE
  /\ logins' = {}
  /\ sessionKey' \in SessionKeys

-----------------------------------------------------------------------------
(* Pairing *)

MayPair == lifecycle # "paired" /\ ~pairing

\* startPairing up to its answer. One goroutine of a kind at a time is a bound of
\* the model: a second one waits for the first.
StartPairing ==
  IF MayPair
  THEN /\ "qr" \notin logins
       /\ pairing' = TRUE
       /\ pairingURL' = FALSE
       /\ logins' = logins \union {"qr"}
       /\ UNCHANGED <<auth, connected, lifecycle, ready, sessionKey>>
  ELSE UNCHANGED adapter

\* startAccountPairing up to its answer: the cookies go into the live AuthData.
StartAccountPairing ==
  IF MayPair
  THEN /\ "gaia" \notin logins
       /\ auth' = Transient
       /\ pairing' = TRUE
       /\ pairingURL' = FALSE
       /\ logins' = logins \union {"gaia"}
       /\ UNCHANGED <<connected, lifecycle, ready, sessionKey>>
  ELSE UNCHANGED adapter

\* StartLogin has registered with Google and returned a QR code.
LoginReturns ==
  /\ "qr" \in logins
  /\ logins' = logins \ {"qr"}
  /\ auth' = Transient
  /\ pairingURL' = (IF lifecycle = "paired" THEN pairingURL ELSE TRUE)
  /\ UNCHANGED <<connected, lifecycle, ready, pairing, sessionKey>>

LoginFails ==
  /\ "qr" \in logins
  /\ logins' = logins \ {"qr"}
  /\ pairing' = FALSE
  /\ lifecycle' = "unpaired"
  /\ UNCHANGED <<auth, connected, ready, pairingURL, sessionKey>>

\* DoGaiaPairing has returned: an error counts unless the lifecycle is paired.
GaiaPairingReturns ==
  /\ "gaia" \in logins
  /\ logins' = logins \ {"gaia"}
  /\ \/ UNCHANGED <<pairing, lifecycle>>
     \/ /\ lifecycle # "paired"
        /\ pairing' = FALSE
        /\ lifecycle' = "unpaired"
  /\ UNCHANGED <<auth, connected, ready, pairingURL, sessionKey>>

-----------------------------------------------------------------------------
(* Events of libgm: updateLifecycle *)

\* The code was scanned, or the emoji confirmed.
PairSuccessful(s) ==
  /\ pairingURL \/ (pairing /\ "gaia" \in logins)
  /\ auth' = s
  /\ pairing' = FALSE
  /\ pairingURL' = FALSE
  /\ lifecycle' = "paired"
  /\ UNCHANGED <<connected, ready, logins, sessionKey>>

\* ClientReady, or the alert that the browser is active.
ClientReady ==
  /\ connected /\ auth \in Sessions
  /\ ready' = TRUE
  /\ lifecycle' = "paired"
  /\ UNCHANGED <<auth, connected, pairing, pairingURL, logins, sessionKey>>

GaiaLoggedOut ==
  /\ connected
  /\ ready' = FALSE
  /\ lifecycle' = "reauthentication_required"
  /\ UNCHANGED <<auth, connected, pairing, pairingURL, logins, sessionKey>>

ListenFatalError ==
  /\ connected
  /\ ready' = FALSE
  /\ lifecycle' = "disconnected"
  /\ UNCHANGED <<auth, connected, pairing, pairingURL, logins, sessionKey>>

\* libgm opens and closes its long poll by itself: a pairing needs it, a finished
\* pairing reconnects, an expired poll is renewed.
ConnectionChanges ==
  /\ auth # Blank
  /\ connected' = ~connected
  /\ UNCHANGED <<auth, lifecycle, ready, pairing, pairingURL, logins, sessionKey>>

-----------------------------------------------------------------------------
(* Sessions and connecting *)

\* exportSession: what the adapter holds, sealed with its key.
Envelopes == [session : Auths, key : SessionKeys]
ExportedSession == [session |-> auth, key |-> sessionKey]

\* decryptSession authenticates: another key does not open the envelope.
Opens(e) == e.key = sessionKey

\* Wrong: only a paired adapter takes a session.
ImportWhenPaired(e) ==
  /\ auth' = IF connected \/ lifecycle # "paired" THEN auth ELSE e.session
  /\ UNCHANGED <<connected, lifecycle, ready, pairing, pairingURL, logins, sessionKey>>

\* importSession of an envelope it can open: a session in use is left alone. What
\* the lifecycle says, and a pairing under way, are not looked at.
ImportSession(e) ==
  /\ auth' = IF connected THEN auth ELSE e.session
  /\ UNCHANGED <<connected, lifecycle, ready, pairing, pairingURL, logins, sessionKey>>

\* connect finds no connection, and Connect fails: without a linked device the
\* session is unpaired, with one it must be re-authenticated. A transient AuthData
\* may still have the device of the session it was.
ConnectFails ==
  /\ ~connected
  /\ \/ auth # Blank /\ lifecycle' = "reauthentication_required"
     \/ auth \notin Sessions /\ lifecycle' = "unpaired"
  /\ UNCHANGED <<auth, connected, ready, pairing, pairingURL, logins, sessionKey>>

ConnectOpens ==
  /\ ~connected
  /\ auth \in Sessions
  /\ connected' = TRUE
  /\ UNCHANGED <<auth, lifecycle, ready, pairing, pairingURL, logins, sessionKey>>

\* The last step of connect, some time after it has seen ready.
ConnectSettles ==
  /\ lifecycle' = "paired"
  /\ UNCHANGED <<auth, connected, ready, pairing, pairingURL, logins, sessionKey>>

PairingChanges ==
  \/ LoginReturns
  \/ LoginFails
  \/ GaiaPairingReturns
  \/ \E s \in Sessions : PairSuccessful(s)

ConnectionEvents == ClientReady \/ GaiaLoggedOut \/ ListenFatalError \/ ConnectionChanges

=============================================================================
