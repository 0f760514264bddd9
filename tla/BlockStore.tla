----------------------------- MODULE BlockStore -----------------------------
(***************************************************************************)
(* What the buffer cache promises: blocks with contents, each used by at   *)
(* most one process at a time between bread() and brelse(), and a process  *)
(* that uses a block sees the contents that were last put there.           *)
(***************************************************************************)
CONSTANTS Procs, Blocks, Vals, None

VARIABLES contents, \* contents of each block
          user,     \* process that uses the block, or None
          seen      \* contents of the block that a process uses, or None

vars == <<contents, user, seen>>

Init ==
  /\ contents \in [Blocks -> Vals]
  /\ user = [k \in Blocks |-> None]
  /\ seen = [p \in Procs |-> None]

Take(p, k) ==
  /\ user[k] = None /\ \A j \in Blocks : user[j] # p
  /\ user' = [user EXCEPT ![k] = p]
  /\ seen' = [seen EXCEPT ![p] = contents[k]]
  /\ UNCHANGED contents

Put(p, k, v) ==
  /\ user[k] = p
  /\ contents' = [contents EXCEPT ![k] = v]
  /\ seen' = [seen EXCEPT ![p] = v]
  /\ UNCHANGED user

Release(p, k) ==
  /\ user[k] = p
  /\ user' = [user EXCEPT ![k] = None]
  /\ seen' = [seen EXCEPT ![p] = None]
  /\ UNCHANGED contents

Next ==
  \E p \in Procs, k \in Blocks :
    Take(p, k) \/ (\E v \in Vals : Put(p, k, v)) \/ Release(p, k)

Spec == Init /\ [][Next]_vars
=============================================================================
