----------------------------- MODULE LineQueue -----------------------------
(***************************************************************************)
(* What console.c promises of its input: a queue of characters of finished *)
(* lines, read in the order typed, and a line that can still be edited.    *)
(* Together they hold at most Cap characters.                              *)
(***************************************************************************)
EXTENDS Integers, Sequences

CONSTANTS Chars, Ends, Cap  \* Ends: the characters that finish a line

VARIABLES done, line

Init == done = <<>> /\ line = <<>>

Type(c) ==
  /\ Len(done \o line) < Cap
  /\ LET l == Append(line, c)
     IN  IF c \in Ends \/ Len(done \o l) = Cap
           THEN done' = done \o l /\ line' = <<>>
           ELSE line' = l /\ UNCHANGED done
Erase == line # <<>> /\ line' = SubSeq(line, 1, Len(line) - 1) /\ UNCHANGED done
Kill  == line' = <<>> /\ UNCHANGED done
Read  == done # <<>> /\ done' = Tail(done) /\ UNCHANGED line

Next == (\E c \in Chars : Type(c)) \/ Erase \/ Kill \/ Read
Spec == Init /\ [][Next]_<<done, line>>
=============================================================================
