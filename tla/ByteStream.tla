----------------------------- MODULE ByteStream -----------------------------
(***************************************************************************)
(* What one direction of a logical stream promises to the two sockets it   *)
(* joins, whatever happens to the SSH channel in between: the reader gets  *)
(* a prefix of what the writer wrote, at most Window bytes are in transit, *)
(* end of stream is reported only after the last byte, and a stream that   *)
(* cannot be continued is aborted, never silently shortened.               *)
(***************************************************************************)
EXTENDS Integers, Sequences

CONSTANTS
  Source,   \* the bytes the writing socket offers
  Window    \* most bytes accepted and not delivered

VARIABLES
  accepted, \* how many bytes of Source were taken in
  closed,   \* the writer has reached its end of file
  got,      \* the bytes handed to the reader
  status    \* what the reader knows: "open", "eof" or "aborted"

vars == <<accepted, closed, got, status>>

Init ==
  /\ accepted = 0
  /\ closed = FALSE
  /\ got = <<>>
  /\ status = "open"

Write ==
  /\ ~closed
  /\ \E n \in accepted + 1 .. Len(Source) :
       /\ n <= Len(got) + Window
       /\ accepted' = n
  /\ UNCHANGED <<closed, got, status>>

Close ==
  /\ closed' = TRUE
  /\ UNCHANGED <<accepted, got, status>>

Deliver ==
  /\ status = "open"
  /\ \E n \in Len(got) + 1 .. accepted : got' = SubSeq(Source, 1, n)
  /\ UNCHANGED <<accepted, closed, status>>

EndOfStream ==
  /\ status = "open"
  /\ closed
  /\ Len(got) = accepted
  /\ status' = "eof"
  /\ UNCHANGED <<accepted, closed, got>>

Abort ==
  /\ status = "open"
  /\ status' = "aborted"
  /\ UNCHANGED <<accepted, closed, got>>

Next == Write \/ Close \/ Deliver \/ EndOfStream \/ Abort

Spec == Init /\ [][Next]_vars

=============================================================================
