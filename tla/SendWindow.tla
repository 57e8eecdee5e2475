------------------------------ MODULE SendWindow ------------------------------
(***************************************************************************)
(* The rate limit of the Durable Object (fetch of session-coordinator.ts): *)
(* a send is stamped and counted before the stored session is imported and *)
(* the send forwarded. All that is served one request at a time, but takes *)
(* its time, and the object may be reset on the way.                       *)
(*                                                                         *)
(* A send is a name, free again when nothing of its last use is within the *)
(* window. Time is counted in ticks; an age of SendWindow stands for that  *)
(* and all greater ones.                                                   *)
(***************************************************************************)
EXTENDS Integers, FiniteSets

CONSTANTS Sends,       \* names for sends
          SendLimit,   \* sendLimit, 10
          SendWindow,  \* sendWindowMs in ticks
          NoSend       \* the object serves no send

ASSUME WindowAssumption ==
  /\ SendLimit \in Nat
  /\ SendWindow \in Nat \ {0}
  /\ NoSend \notin Sends

VARIABLES stamp,      \* storage "send-window": the ages of the timestamps
          forwarded,  \* history: how long ago the container was sent them
          serving     \* the send between its stamp and the answer

windowVars == <<stamp, forwarded, serving>>

Ages == 0..SendWindow

WindowTypeOK ==
  /\ stamp \in [Sends -> Ages]
  /\ forwarded \in [Sends -> Ages]
  /\ serving \in Sends \union {NoSend}

WindowInit ==
  /\ stamp = [s \in Sends |-> SendWindow]
  /\ forwarded = [s \in Sends |-> SendWindow]
  /\ serving = NoSend

\* Wrong: a timestamp is dropped a tick early.
ExpiresEarly(ages) == {s \in Sends : ages[s] < SendWindow - 1}

\* The timestamps the filter keeps.
Recent(ages) == {s \in Sends : ages[s] < SendWindow}

\* A send comes in and there is room: it is stamped, whatever becomes of it.
Stamp(s) ==
  /\ serving = NoSend
  /\ stamp[s] = SendWindow /\ forwarded[s] = SendWindow
  /\ Cardinality(Recent(stamp)) < SendLimit
  /\ stamp' = [stamp EXCEPT ![s] = 0]
  /\ serving' = s
  /\ UNCHANGED forwarded

\* 429, and nothing is stored.
TurnAway ==
  /\ serving = NoSend
  /\ Cardinality(Recent(stamp)) >= SendLimit
  /\ UNCHANGED windowVars

ForwardSend ==
  /\ serving # NoSend
  /\ forwarded' = [forwarded EXCEPT ![serving] = 0]
  /\ serving' = NoSend
  /\ UNCHANGED stamp

\* The import fails, there is no container, or the object is reset.
CutOffSend ==
  /\ serving # NoSend
  /\ serving' = NoSend
  /\ UNCHANGED <<stamp, forwarded>>

Older(ages) == [s \in Sends |-> IF ages[s] < SendWindow THEN ages[s] + 1 ELSE ages[s]]

Tick ==
  /\ stamp' = Older(stamp)
  /\ forwarded' = Older(forwarded)
  /\ UNCHANGED serving

WindowNext ==
  \/ \E s \in Sends : Stamp(s)
  \/ TurnAway \/ ForwardSend \/ CutOffSend \/ Tick

WindowSpec == WindowInit /\ [][WindowNext]_windowVars

\* The limit is on the stamps, but what a provider sees is when sends are forwarded:
\* of those, at most one more than SendLimit falls within SendWindow, however long
\* they take from stamp to forward and wherever the object is reset.
Passed == {s \in Sends : forwarded[s] < SendWindow}
SendsAreLimited == Cardinality(Passed) <= SendLimit + 1

=============================================================================
