-------------------------- MODULE MCHelperSession ---------------------------
(* Two streams, one of them in the directory at a time. *)
EXTENDS HelperSession

MCId == {1, 2}
MCNone == {}

=============================================================================
