----------------------------- MODULE MCLocalPump -----------------------------
(* One stream is enough for its pump and the session loop to wait on each    *)
(* other.                                                                    *)
EXTENDS LocalPump

MCStream == {"s"}

=============================================================================
