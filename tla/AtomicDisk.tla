----------------------------- MODULE AtomicDisk -----------------------------
(***************************************************************************)
(* What the xv6 log (log.c) promises to the file system above it: a disk   *)
(* whose blocks survive a crash, and a volatile view that operations       *)
(* update in place.  The durable blocks change only when no operation is   *)
(* active, and then become the whole volatile view at once; a crash        *)
(* returns the volatile view to the durable one.                           *)
(***************************************************************************)
CONSTANTS Procs,  \* processes that issue file system calls
          Blocks, \* home blocks of the file system
          Vals    \* contents of a block

VARIABLES durable, \* what a crash leaves behind
          view,    \* what bread() returns
          active   \* processes between begin_op() and end_op()

vars == <<durable, view, active>>

Init ==
  /\ durable \in [Blocks -> Vals]
  /\ view = durable
  /\ active = {}

Begin(p) ==
  /\ p \notin active
  /\ active' = active \cup {p}
  /\ UNCHANGED <<durable, view>>

Write(p, b, v) ==
  /\ p \in active
  /\ view' = [view EXCEPT ![b] = v]
  /\ UNCHANGED <<durable, active>>

End(p) ==
  /\ p \in active
  /\ active' = active \ {p}
  /\ UNCHANGED <<durable, view>>

Commit ==
  /\ active = {}
  /\ durable' = view
  /\ UNCHANGED <<view, active>>

Crash ==
  /\ view' = durable
  /\ active' = {}
  /\ UNCHANGED durable

Next ==
  \/ \E p \in Procs : Begin(p) \/ End(p)
  \/ \E p \in Procs, b \in Blocks, v \in Vals : Write(p, b, v)
  \/ Commit
  \/ Crash

Spec == Init /\ [][Next]_vars
=============================================================================
