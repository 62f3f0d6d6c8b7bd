------------------------------ MODULE Console ------------------------------
(***************************************************************************)
(* What the two pages of the V3 web console have in common: the incidents, *)
(* the user and the network, and what a page says of its connection.       *)
(***************************************************************************)
EXTENDS Integers, FiniteSets

CONSTANTS
    Cases,        \* the incidents
    None,         \* null
    MaxFailures,  \* bound on the failures of the network
    MaxGestures   \* bound on what the user does

ASSUME ConsoleAssumption == MaxFailures \in Nat /\ MaxGestures \in Nat

VARIABLES
    failures,  \* how often the network failed
    gestures   \* how often the user did something

Connections == {"connecting", "connected", "reconnecting", "stale", "degraded"}

Gesture == gestures < MaxGestures /\ gestures' = gestures + 1

Fails == failures < MaxFailures /\ failures' = failures + 1
=============================================================================
