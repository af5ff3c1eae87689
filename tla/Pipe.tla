------------------------------- MODULE Pipe --------------------------------
(***************************************************************************)
(* What a tunnel promises of one direction of a relayed connection: the    *)
(* receiving end sees the bytes of the sending end, each once and in       *)
(* order, and unless the connection is cut it sees the end of the stream   *)
(* only after the last of them.                                            *)
(***************************************************************************)
EXTENDS Naturals, Sequences

VARIABLES
  sent,    \* the bytes the sending end has written
  got,     \* the bytes that reached the receiving end's socket
  closed,  \* the sending end has closed its direction
  ended,   \* the receiving end has been shown the end of the stream
  cut      \* the relay gave up on the connection

vars == <<sent, got, closed, ended, cut>>

Init ==
  /\ sent = <<>>
  /\ got = <<>>
  /\ closed = FALSE
  /\ ended = FALSE
  /\ cut = FALSE

Send ==
  /\ ~closed
  /\ sent' = Append(sent, Len(sent) + 1)
  /\ UNCHANGED <<got, closed, ended, cut>>

Close ==
  /\ closed' = TRUE
  /\ UNCHANGED <<sent, got, ended, cut>>

Deliver ==
  /\ ~ended
  /\ Len(got) < Len(sent)
  /\ got' = Append(got, sent[Len(got) + 1])
  /\ UNCHANGED <<sent, closed, ended, cut>>

\* The relay may give up at any time, and may end the stream as it does.
Cut ==
  /\ cut' = TRUE
  /\ ended' \in {ended, TRUE}
  /\ UNCHANGED <<sent, got, closed>>

Finish ==
  /\ closed /\ got = sent
  /\ ended' = TRUE
  /\ UNCHANGED <<sent, got, closed, cut>>

Next == Send \/ Close \/ Deliver \/ Cut \/ Finish

Spec == Init /\ [][Next]_vars
=============================================================================
