------------------------------ MODULE Channel ------------------------------
(***************************************************************************)
(* What a pipe promises: a bounded first-in first-out channel of bytes     *)
(* with two ends.  A read end that finds the channel empty sees the end of *)
(* the stream only once the write end is closed; what was sent before that *)
(* is still received.                                                      *)
(***************************************************************************)
EXTENDS Naturals, Sequences

CONSTANTS Bytes, Capacity

VARIABLES queue,   \* bytes sent and not yet received
          sending, \* the write end is open
          eof      \* a reader has been told that the stream has ended

vars == <<queue, sending, eof>>

Init == queue = <<>> /\ sending = TRUE /\ eof = FALSE

Send(b) ==
  /\ sending /\ Len(queue) < Capacity
  /\ queue' = Append(queue, b)
  /\ UNCHANGED <<sending, eof>>

Receive ==
  /\ queue # <<>>
  /\ queue' = Tail(queue)
  /\ UNCHANGED <<sending, eof>>

CloseWrite ==
  /\ sending' = FALSE
  /\ UNCHANGED <<queue, eof>>

EndOfStream ==
  /\ ~sending /\ queue = <<>>
  /\ eof' = TRUE
  /\ UNCHANGED <<queue, sending>>

Next == (\E b \in Bytes : Send(b)) \/ Receive \/ CloseWrite \/ EndOfStream

Spec == Init /\ [][Next]_vars
=============================================================================
