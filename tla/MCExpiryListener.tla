-------------------------- MODULE MCExpiryListener --------------------------
(* Instances of ExpiryListener for TLC. *)
EXTENDS ExpiryListener
=============================================================================
