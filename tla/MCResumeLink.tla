---------------------------- MODULE MCResumeLink ----------------------------
(* Instances of ResumeLink for TLC: four distinct bytes, so that a swap, a  *)
(* repeat or a loss of any one shows.                                       *)
EXTENDS ResumeLink

MCSource == <<"a", "b", "c", "d">>
MCByte == {"a", "b", "c", "d"}

=============================================================================
