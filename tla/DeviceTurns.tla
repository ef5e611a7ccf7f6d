----------------------------- MODULE DeviceTurns -----------------------------
(***************************************************************************)
(* What the five command queues of the drivers promise: a device serves    *)
(* one call at a time, urgent calls before the others, calls of the same   *)
(* urgency in the order they were made.  DeviceQueue says how.             *)
(***************************************************************************)
CONSTANTS
  Calls,       \* the callers; one call of each at a time
  DeviceOf,    \* the device each of them calls
  Background   \* the callers that are not urgent

VARIABLES
  stage,  \* idle, waiting or served
  ahead   \* the waiting calls of the same urgency made before a waiting call

vars == <<stage, ahead>>

At(c)     == {e \in Calls : DeviceOf[e] = DeviceOf[c]}
Peers(c)  == {e \in At(c) : e \in Background <=> c \in Background}
Waiting   == {c \in Calls : stage[c] = "waiting"}
Serving(c) == {e \in At(c) : stage[e] = "served"}

Init == /\ stage = [c \in Calls |-> "idle"]
        /\ ahead = [c \in Calls |-> {}]

\* A call is made and waits.
Ask(c) ==
  /\ stage[c] = "idle"
  /\ stage' = [stage EXCEPT ![c] = "waiting"]
  /\ ahead' = [ahead EXCEPT ![c] = Peers(c) \cap Waiting]

\* A call is made to a device nobody is using and is served at once.
AskServed(c) ==
  /\ stage[c] = "idle"
  /\ At(c) \cap Waiting = {} /\ Serving(c) = {}
  /\ stage' = [stage EXCEPT ![c] = "served"]
  /\ UNCHANGED ahead

\* A waiting call gets its turn.
Serve(c) ==
  /\ stage[c] = "waiting"
  /\ Serving(c) = {}
  /\ ahead[c] = {}
  /\ c \in Background => At(c) \cap Waiting \subseteq Background
  /\ stage' = [stage EXCEPT ![c] = "served"]
  /\ ahead' = [e \in Calls |-> ahead[e] \ {c}]

\* The device has answered, or refused.
Settle(c) ==
  /\ stage[c] = "served"
  /\ stage' = [stage EXCEPT ![c] = "idle"]
  /\ UNCHANGED ahead

Next == \E c \in Calls : Ask(c) \/ AskServed(c) \/ Serve(c) \/ Settle(c)

Spec == Init /\ [][Next]_vars
=============================================================================
