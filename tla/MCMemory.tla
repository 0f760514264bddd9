------------------------------ MODULE MCMemory ------------------------------
(* Two processes compete for too few pages.  States that differ only in    *)
(* which page is where are explored once: Shape replaces each page by its  *)
(* contents and keeps the number of free ones, and nothing the processes   *)
(* do depends on more as long as PageOnce holds, whose value it keeps too. *)
EXTENDS Memory

Contents(q) == IF q = 0 THEN -2 ELSE mem[q]
DirShape(d) == <<d.page # 0, Cardinality(d.ktabs), [t \in Tables |-> d.tabs[t] # 0],
                 [a \in VA |-> Contents(d.pte[a])]>>
Shape == <<[p \in Procs |-> <<DirShape(dir[p]), DirShape(new[p]), Contents(hold[p]), kstack[p] # 0>>],
           sz, child, state, todo, view, Cardinality(free), PageOnce>>
=============================================================================
