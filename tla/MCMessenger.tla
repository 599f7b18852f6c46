---------------------------- MODULE MCMessenger ----------------------------
(* Instances of Messenger for TLC. *)
EXTENDS Messenger
=============================================================================
