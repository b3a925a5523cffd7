------------------------ MODULE MCHummingbirdSession ------------------------
(* Instances of HummingbirdSession for TLC. *)
EXTENDS HummingbirdSession

\* The bridge subscribes connection, command, sunapi and http; the broker
\* connection and command.
BridgeTopics == [l \in Links |-> IF l = Bridge THEN 4 ELSE 2]
=============================================================================
