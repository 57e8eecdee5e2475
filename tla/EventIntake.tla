------------------------------ MODULE EventIntake ------------------------------
(***************************************************************************)
(* What the ingestion of events promises, without streams, channels,       *)
(* isolates or markers: an event that the provider has reported takes      *)
(* effect at most once, all of it at once, however often it is reported    *)
(* and by however many it is read; nothing takes effect that was not       *)
(* reported. That every event takes effect is not promised.                *)
(***************************************************************************)
EXTENDS Integers

CONSTANTS Messages,        \* messages of the account
          Conversations,   \* conversations of the account
          ConversationOf,  \* [Messages -> Conversations]
          SentAt,          \* [Messages -> Nat]
          NoMessage        \* no event yet

VARIABLES reported,   \* messages the provider has reported
          ingested,   \* those of them that took effect
          visible,    \* messages that can be read
          latest,     \* the last event that took effect
          dates       \* what dates each conversation, -1 if nothing does

vars == <<reported, ingested, visible, latest, dates>>

Init ==
  /\ reported = {}
  /\ ingested = {}
  /\ visible = {}
  /\ latest = NoMessage
  /\ dates = [c \in Conversations |-> -1]

Report(m) ==
  /\ reported' = reported \union {m}
  /\ UNCHANGED <<ingested, visible, latest, dates>>

TakeEffect(m) ==
  /\ m \in reported \ ingested
  /\ ingested' = ingested \union {m}
  /\ visible' = visible \union {m}
  /\ latest' = m
  /\ dates' = [dates EXCEPT ![ConversationOf[m]] = SentAt[m]]
  /\ UNCHANGED reported

\* A list of conversations dates one of them by any of its messages.
Relist(m) ==
  /\ dates' = [dates EXCEPT ![ConversationOf[m]] = SentAt[m]]
  /\ UNCHANGED <<reported, ingested, visible, latest>>

Next == \E m \in Messages : Report(m) \/ TakeEffect(m) \/ Relist(m)

Spec == Init /\ [][Next]_vars
=============================================================================
