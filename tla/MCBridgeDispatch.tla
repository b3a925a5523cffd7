-------------------------- MODULE MCBridgeDispatch --------------------------
(* Instances of BridgeDispatch for TLC. *)
EXTENDS BridgeDispatch
=============================================================================
