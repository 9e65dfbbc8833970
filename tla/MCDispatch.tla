----------------------------- MODULE MCDispatch -----------------------------
(* Instances of Dispatch for TLC: dispatches of one manifest, which names   *)
(* the sandbox and the workspace.                                           *)
EXTENDS Dispatch, TLC

SameSandbox   == [c \in Sessions |-> "box"]
SameWorkspace == [c \in Sessions |-> "tree"]
OwnSandbox    == [c \in Sessions |-> c]
=============================================================================
