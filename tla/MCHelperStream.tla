---------------------------- MODULE MCHelperStream ----------------------------
(* Three distinct bytes, so that a byte lost, repeated or swapped shows. *)
EXTENDS HelperStream

MCSource == <<1, 2, 3>>

MCByte == {1, 2, 3}

=============================================================================
