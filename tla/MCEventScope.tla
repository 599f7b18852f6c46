---------------------------- MODULE MCEventScope ----------------------------
(* A client that follows one user in one inbox.                            *)
EXTENDS EventScope

MCInbox == [d \in Dispatches |-> "i1"]

MCFilter ==
    [c \in Clients |-> [inbox |-> "i1", user |-> "resolved",
                        types |-> {"incoming", "outgoing", "report"}]]
=============================================================================
