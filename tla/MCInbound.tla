------------------------------ MODULE MCInbound ------------------------------
(* Instances of Inbound for TLC: a status, and a webhook of another inbox. *)
EXTENDS Inbound, TLC

CONSTANTS w1, w2

MCKind == w1 :> "status" @@ w2 :> "refused"
=============================================================================
