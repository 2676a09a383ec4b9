--------------------------- MODULE MCTunnelManager ---------------------------
(* Two requests; they only differ in their names. *)
EXTENDS TunnelManager, TLC

CONSTANTS r1, r2

MCRequest == {r1, r2}

Symmetry == Permutations(MCRequest)

=============================================================================
