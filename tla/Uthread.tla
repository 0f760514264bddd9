------------------------------ MODULE Uthread ------------------------------
(***************************************************************************)
(* The user-level threads of COL331/HW1/xv6: uthread.c, uthread_student.c  *)
(* and uthread_switch.S.  Threads run one at a time until they call        *)
(* thread_yield() or end; each of these, with the thread_schedule() and    *)
(* the thread_switch() it calls, is one step.                              *)
(***************************************************************************)
EXTENDS Naturals, FiniteSetsExt

CONSTANTS
  MAX_THREAD, \* slots of all_thread[]
  Priorities, \* 1 is the highest
  LIVE        \* bound: slots in use, main() included, when a thread is created

ASSUME UthreadConstants ==
  /\ MAX_THREAD \in Nat /\ MAX_THREAD > 1
  /\ Priorities \subseteq Nat /\ Priorities # {} /\ LIVE \in Nat

Slots == 0..(MAX_THREAD - 1)

VARIABLES
  state, priority, \* by slot
  sp,              \* by slot: is there a stack to switch to?
  current_thread,  \* a slot, or MAX_THREAD for the address after the last
  astray           \* thread_switch() has gone to no runnable thread

vars == <<state, priority, sp, current_thread, astray>>

(* thread_init(): main() is thread 0.  The rest is zero (bss).             *)
Init ==
  /\ state = [t \in Slots |-> IF t = 0 THEN "RUNNING" ELSE "FREE"]
  /\ priority = [t \in Slots |-> 0]
  /\ sp = [t \in Slots |-> FALSE]
  /\ current_thread = 0 /\ astray = FALSE

-----------------------------------------------------------------------------
(* Where the search starts; it wraps inside the loop only.                 *)
Start == current_thread + 1

(* The i-th slot of the search.                                            *)
Nth(i) == (Start + i) % MAX_THREAD

(* The loop of thread_schedule() over the states st: the first thread of   *)
(* the best priority, and bestthread's initial value if none is runnable.  *)
(* The other forms take the last such thread, or any runnable one.         *)
Runnable(st) == {i \in Slots : st[Nth(i)] = "RUNNABLE"}
Best(st)     == {i \in Runnable(st) :
                   \A j \in Runnable(st) : priority[Nth(i)] <= priority[Nth(j)]}

bestthread(st)       == IF Best(st) = {} THEN Start ELSE Nth(Min(Best(st)))

(* After the loop t is past the end only if the search began at slot 0.    *)
next_thread(st) ==
  IF current_thread = MAX_THREAD - 1 /\ st[current_thread] = "RUNNABLE"
    THEN current_thread ELSE bestthread(st)

(* thread_schedule() with the states st, and thread_switch().              *)
thread_schedule(st) ==
  LET next == next_thread(st)
  IN  /\ ~astray
      /\ current_thread' = next
      /\ state' = IF next = current_thread \/ next \notin Slots THEN st
                  ELSE [st EXCEPT ![next] = "RUNNING"]
      /\ sp' = [sp EXCEPT ![current_thread] = (next # current_thread) \/ @]
      /\ astray' = (next # current_thread /\ Best(st) = {})
      /\ UNCHANGED priority

(* main() after it has created its threads.                                *)
main == current_thread = 0 /\ state[1] # "FREE" /\ thread_schedule(state)

(* The first form would leave the thread RUNNING.                          *)
thread_yield_running == current_thread # 0 /\ thread_schedule(state)
thread_yield ==
  /\ current_thread # 0
  /\ thread_schedule([state EXCEPT ![current_thread] = "RUNNABLE"])

(* The end of mythread().                                                  *)
thread_exit ==
  /\ current_thread # 0
  /\ thread_schedule([state EXCEPT ![current_thread] = "FREE"])

(* thread_create(): without a FREE slot t stays at the last one.           *)
FreeSlots == {t \in Slots : state[t] = "FREE"}

thread_create(prio) ==
  LET t == IF FreeSlots = {} THEN MAX_THREAD - 1 ELSE Min(FreeSlots)
  IN  /\ ~astray /\ Cardinality(Slots \ FreeSlots) < LIVE
      /\ sp' = [sp EXCEPT ![t] = TRUE]
      /\ priority' = [priority EXCEPT ![t] = prio]
      /\ state' = [state EXCEPT ![t] = "RUNNABLE"]
      /\ UNCHANGED <<current_thread, astray>>

Schedule == main \/ thread_yield \/ thread_exit
Next == Schedule \/ \E prio \in Priorities : thread_create(prio)
Spec == Init /\ [][Next]_vars

(* A running thread yields, unless it ends, after finitely many steps.  A  *)
(* yield that changes nothing may be the last step: the thread is alone.   *)
FairSpec == Spec /\ WF_vars(main) /\ WF_vars(thread_yield)

-----------------------------------------------------------------------------
(* Types; as long as a slot stays free the scheduler stays inside          *)
(* all_thread[].                                                           *)
TypeOK ==
  /\ state \in [Slots -> {"FREE", "RUNNABLE", "RUNNING"}]
  /\ priority \in [Slots -> Priorities \cup {0}]
  /\ sp \in [Slots -> BOOLEAN] /\ astray \in BOOLEAN
  /\ current_thread \in 0..MAX_THREAD
  /\ LIVE < MAX_THREAD => current_thread \in Slots

(* Only the current thread is RUNNING, beside main(), which                *)
(* thread_schedule() "won't run ... ever again" (uthread.c), and every     *)
(* thread that waits has a stack to be switched to.                        *)
OneRuns ==
  ~astray =>
    /\ \A t \in Slots \ {0, current_thread} : state[t] # "RUNNING"
    /\ \A t \in Slots : state[t] = "RUNNABLE" => sp[t]
    /\ state[0] = "RUNNING"

(* The threads as a whole.                                                 *)
ThreadsSound == TypeOK /\ OneRuns


(* "If there are more than one thread with same priority, then they need   *)
(* to be scheduled in round-robin manner" (uthread_student.c): a thread    *)
(* that is runnable with the best priority from some point on gets to run. *)
Top(t) ==
  /\ state[t] = "RUNNABLE"
  /\ \A u \in Slots : state[u] = "RUNNABLE" => priority[t] <= priority[u]


=============================================================================
