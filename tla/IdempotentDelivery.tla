------------------------- MODULE IdempotentDelivery -------------------------
(***************************************************************************)
(* What MessagingService.send promises for an idempotency key, without the *)
(* database, the owners or the retries: a key settles at most once, on one *)
(* payload, only after the provider was handed that payload, and whoever   *)
(* is told "sent" is told so about the payload the key settled on.         *)
(*                                                                         *)
(* The provider may be handed a payload more than once, and may be handed  *)
(* different payloads of one key before it settles: the code does not      *)
(* prevent that (see OneTextPerKey in OutboxDelivery).                     *)
(***************************************************************************)

CONSTANTS Keys,      \* idempotency keys
          Payloads   \* what a key is used for: a conversation and a text

VARIABLES outcome,   \* outcome[k]: {} while k is open, {p} once it settled on p
          handed,    \* the <<key, payload>> pairs the provider was handed
          acked      \* the <<key, payload>> pairs a client was told are sent

vars == <<outcome, handed, acked>>

Init ==
  /\ outcome = [k \in Keys |-> {}]
  /\ handed = {}
  /\ acked = {}

Hand(k, p) ==
  /\ handed' = handed \union {<<k, p>>}
  /\ UNCHANGED <<outcome, acked>>

Settle(k, p) ==
  /\ outcome[k] = {}
  /\ <<k, p>> \in handed
  /\ outcome' = [outcome EXCEPT ![k] = {p}]
  /\ UNCHANGED <<handed, acked>>

Acknowledge(k, p) ==
  /\ outcome[k] = {p}
  /\ acked' = acked \union {<<k, p>>}
  /\ UNCHANGED <<outcome, handed>>

Next ==
  \E k \in Keys, p \in Payloads :
    \/ Hand(k, p)
    \/ Settle(k, p)
    \/ Acknowledge(k, p)

Spec == Init /\ [][Next]_vars
=============================================================================
