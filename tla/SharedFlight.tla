---------------------------- MODULE SharedFlight ----------------------------
(***************************************************************************)
(* What the single-flight operations of packages/api promise: at most one  *)
(* flight is under way, whoever asks during it shares it, and when it      *)
(* settles everyone who shares it is told its outcome, in that very step.  *)
(* createRefreshFetch (RefreshFetch) and createTokenRefresh (TokenRefresh) *)
(* implement it.                                                           *)
(***************************************************************************)
EXTENDS Naturals

CONSTANT Callers

VARIABLES
  flight,    \* the number of the flight under way, 0 for none
  flights,   \* how many have started
  waiting,   \* waiting[c]: the flight caller c awaits, 0 for none
  outcome    \* outcome[c]: "kept" or "failed" once its flight has settled

vars == <<flight, flights, waiting, outcome>>

Init ==
  /\ flight = 0 /\ flights = 0
  /\ waiting = [c \in Callers |-> 0]
  /\ outcome = [c \in Callers |-> "none"]

Open == flight = 0 /\ flight' = flights + 1 /\ flights' = flights + 1

Share == flight # 0 /\ UNCHANGED <<flight, flights>>

\* A caller asks, and waits.
Ask(c) ==
  /\ waiting[c] = 0 /\ outcome[c] = "none"
  /\ Open \/ Share
  /\ waiting' = [waiting EXCEPT ![c] = flight']
  /\ UNCHANGED outcome

\* A flight nobody waits for.
Background == Open /\ UNCHANGED <<waiting, outcome>>

Settle(result) ==
  /\ flight # 0 /\ flight' = 0
  /\ waiting' = [c \in Callers |-> 0]
  /\ outcome' = [c \in Callers |-> IF waiting[c] = flight THEN result ELSE outcome[c]]
  /\ UNCHANGED flights

Next ==
  \/ \E c \in Callers : Ask(c)
  \/ Background
  \/ \E result \in {"kept", "failed"} : Settle(result)

Spec == Init /\ [][Next]_vars
=============================================================================
