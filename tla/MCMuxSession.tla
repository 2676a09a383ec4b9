----------------------------- MODULE MCMuxSession -----------------------------
(* Two requests, of which one writes more than its window holds. *)
EXTENDS MuxSession

CONSTANTS r1, r2

MCRequest == {r1, r2}

MCMaxWrites == [r \in MCRequest |-> IF r = r1 THEN 3 ELSE 0]

MCEnds == {r1}

=============================================================================
