--------------------------- MODULE MCDirectDialer ---------------------------
(* One dialing request against the whole life of the manager. *)
EXTENDS DirectDialer

CONSTANT r1

MCRequest == {r1}

=============================================================================
