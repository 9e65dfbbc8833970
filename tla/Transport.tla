------------------------------ MODULE Transport ------------------------------
(***************************************************************************)
(* What McpTransport promises to the proxy server, whatever the bridge     *)
(* behind it: a call() returns a promise that settles exactly once, and a  *)
(* promise that resolves does so with the result of the response to that   *)
(* very call.  Nothing is promised about which calls fail, or when.        *)
(***************************************************************************)
CONSTANTS Calls,   \* the invocations of call()
          NoCall   \* "no response yet"

VARIABLES state,   \* state[c]: the promise of call c
          reply    \* reply[c]: the call whose response resolved c's promise

vars == <<state, reply>>

Init ==
  /\ state = [c \in Calls |-> "idle"]
  /\ reply = [c \in Calls |-> NoCall]

(* call() is invoked and its promise stays pending. *)
Issue(c) ==
  /\ state[c] = "idle"
  /\ state' = [state EXCEPT ![c] = "waiting"]
  /\ UNCHANGED reply

(* call() is invoked and its promise is rejected at once. *)
Refuse(c) ==
  /\ state[c] = "idle"
  /\ state' = [state EXCEPT ![c] = "rejected"]
  /\ UNCHANGED reply

(* The upstream's response to c arrives. *)
Resolve(c) ==
  /\ state[c] = "waiting"
  /\ state' = [state EXCEPT ![c] = "resolved"]
  /\ reply' = [reply EXCEPT ![c] = c]

(* One event may fail any number of pending calls together. *)
Reject(S) ==
  /\ \A c \in S : state[c] = "waiting"
  /\ state' = [c \in Calls |-> IF c \in S THEN "rejected" ELSE state[c]]
  /\ UNCHANGED reply

Next ==
  \/ \E c \in Calls : Issue(c) \/ Refuse(c) \/ Resolve(c)
  \/ \E S \in SUBSET Calls : Reject(S)

Spec == Init /\ [][Next]_vars
=============================================================================
