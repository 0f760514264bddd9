-------------------------------- MODULE Proc -------------------------------
(***************************************************************************)
(* The process table of xv6 (COL331/HW1/xv6/proc.c): the per-CPU scheduler,*)
(* fork, exit, wait, kill and sleep/wakeup, with the timer interrupt of    *)
(* trap.c and sys_sleep() as the client of sleep() that uses another lock. *)
(*                                                                         *)
(* ptable.lock belongs to a CPU and is handed over by swtch(): a process   *)
(* that gives up the CPU leaves it held, the scheduler scans on with it,   *)
(* and the next process to run releases it.  A section under ptable.lock   *)
(* is one step unless it contains a swtch(); fork() is cut where it runs   *)
(* without the lock.                                                       *)
(***************************************************************************)
EXTENDS Integers

CONSTANTS
  CPUs,
  BOOTCPU,  \* the CPU whose timer interrupt counts the ticks
  NPROC,    \* slots of the process table
  MAXPID,   \* bound on nextpid
  MAXTICKS  \* bound on ticks

Slots    == 1 .. NPROC
initproc == 1
None     == "none"
Ticks    == NPROC + 1 \* the channel &ticks; a slot is its own channel

ASSUME ProcConstants ==
  /\ NPROC \in Nat \ {0} /\ MAXPID \in Nat \ {0} /\ MAXTICKS \in Nat
  /\ BOOTCPU \in CPUs /\ None \notin CPUs

VARIABLES
  state, pid, parent, chan, killed, \* struct proc, by slot
  kstack,    \* p->kstack is allocated
  ctx,       \* what p->context resumes: "forkret", "yield", "sleep", "wait"
  at,        \* where the process is in its system call, "user" if in none
  np, until, \* locals of fork() and of sys_sleep()
  nextpid,
  lock,      \* CPU that holds ptable.lock, or None
  tickslock, \* CPU that holds tickslock, or None
  ticks,
  proc,      \* per CPU: the current process, 0 in the scheduler
  cpc,       \* per CPU: what it executes
  scan,      \* per CPU: where scheduler() goes on in the table
  panicked   \* panic() stops the machine

tableVars == <<state, pid, parent, chan, killed, kstack, nextpid>>
codeVars  == <<ctx, at, np, until>>
cpuVars   == <<lock, proc, cpc, scan>>
tickVars  == <<tickslock, ticks>>
vars == <<tableVars, codeVars, cpuVars, tickVars, panicked>>

States == {"UNUSED", "EMBRYO", "SLEEPING", "RUNNABLE", "RUNNING", "ZOMBIE"}
Points == {"user", "fork_kstack", "fork_copy", "fork_run", "sleep_test",
           "sleep", "sleep_lock", "sleep_spin"}
CPCs   == {"scheduler", "scan", "resume", "run", "sched", "tick", "trap"}

(* main() has called userinit(), and the CPUs enter scheduler().           *)
Init ==
  /\ state = [p \in Slots |-> IF p = initproc THEN "RUNNABLE" ELSE "UNUSED"]
  /\ pid = [p \in Slots |-> IF p = initproc THEN 1 ELSE 0]
  /\ parent = [p \in Slots |-> 0] /\ chan = [p \in Slots |-> 0]
  /\ killed = [p \in Slots |-> FALSE]
  /\ kstack = [p \in Slots |-> p = initproc]
  /\ nextpid = 2
  /\ ctx = [p \in Slots |-> "forkret"] /\ at = [p \in Slots |-> "user"]
  /\ np = [p \in Slots |-> 0] /\ until = [p \in Slots |-> 0]
  /\ lock = None /\ tickslock = None /\ ticks = 0
  /\ proc = [c \in CPUs |-> 0]
  /\ cpc = [c \in CPUs |-> "scheduler"]
  /\ scan = [c \in CPUs |-> 0]
  /\ panicked = FALSE

-----------------------------------------------------------------------------
(* Where a loop over the table stops that looks for a slot of S: the first.*)
First(S) == {p \in S : \A q \in S : p <= q}

(* scheduler().                                                            *)

scheduler_acquire(c) ==
  /\ cpc[c] = "scheduler" /\ lock = None
  /\ lock' = c
  /\ cpc' = [cpc EXCEPT ![c] = "scan"]
  /\ scan' = [scan EXCEPT ![c] = 1]
  /\ UNCHANGED <<tableVars, codeVars, proc, tickVars, panicked>>

(* The for loop, from where it is to the next RUNNABLE slot or to the end. *)
scheduler_pick(c) ==
  LET Runnable == {p \in Slots : p >= scan[c] /\ state[p] = "RUNNABLE"}
  IN  /\ cpc[c] = "scan"
      /\ scan' = [scan EXCEPT ![c] = 0]
      /\ IF Runnable = {}
           THEN /\ lock' = None
                /\ cpc' = [cpc EXCEPT ![c] = "scheduler"]
                /\ UNCHANGED <<state, proc>>
           ELSE /\ \E p \in First(Runnable) :
                     /\ proc' = [proc EXCEPT ![c] = p]
                     /\ state' = [state EXCEPT ![p] = "RUNNING"]
                /\ cpc' = [cpc EXCEPT ![c] = "resume"]
                /\ UNCHANGED lock
      /\ UNCHANGED <<pid, parent, chan, killed, kstack, nextpid, codeVars,
                     tickVars, panicked>>

(* Faulty variant: the scan starts over.                                   *)
sched_restart(c) ==
  /\ cpc[c] = "sched"
  /\ proc' = [proc EXCEPT ![c] = 0]
  /\ cpc' = [cpc EXCEPT ![c] = "scan"]
  /\ scan' = [scan EXCEPT ![c] = 1]
  /\ UNCHANGED <<tableVars, codeVars, lock, tickVars, panicked>>

(* sched(): swtch() to the scheduler, which scans on with the lock held.   *)
sched(c) ==
  /\ cpc[c] = "sched"
  /\ proc' = [proc EXCEPT ![c] = 0]
  /\ cpc' = [cpc EXCEPT ![c] = "scan"]
  /\ scan' = [scan EXCEPT ![c] = proc[c] + 1]
  /\ UNCHANGED <<tableVars, codeVars, lock, tickVars, panicked>>

(* The current process of c gives up the CPU with its new state set.       *)
EnterSched(c, context) ==
  /\ lock' = c
  /\ cpc' = [cpc EXCEPT ![c] = "sched"]
  /\ ctx' = [ctx EXCEPT ![proc[c]] = context]

(* Back from swtch() in forkret(), yield() or the end of sleep(): release  *)
(* ptable.lock; sys_sleep() must then take tickslock again.                *)
resume(c) ==
  LET p == proc[c]
  IN  /\ cpc[c] = "resume" /\ ctx[p] # "wait"
      /\ lock' = None
      /\ cpc' = [cpc EXCEPT ![c] = "run"]
      /\ IF ctx[p] = "sleep"
           THEN /\ chan' = [chan EXCEPT ![p] = 0]
                /\ at' = [at EXCEPT ![p] = "sleep_lock"]
           ELSE UNCHANGED <<chan, at>>
      /\ ctx' = [ctx EXCEPT ![p] = "yield"]
      /\ UNCHANGED <<state, pid, parent, killed, kstack, nextpid, np, until,
                     proc, scan, tickVars, panicked>>

(* wakeup1().                                                              *)
wakeup1(f, ch) ==
  [p \in Slots |-> IF f[p] = "SLEEPING" /\ chan[p] = ch THEN "RUNNABLE" ELSE f[p]]

(* The current process is in point x of its own code and interruptible.    *)
Running(c, x) == cpc[c] = "run" /\ at[proc[c]] = x

(* A system call begins: trap() turns a killed process to exit() first.    *)
Enters(c) == Running(c, "user") /\ ~killed[proc[c]]

-----------------------------------------------------------------------------
(* fork().                                                                 *)

(* allocproc(): a slot and a pid, under ptable.lock.                       *)
fork_alloc(c) ==
  LET Unused == {p \in Slots : state[p] = "UNUSED"}
  IN  /\ Enters(c) /\ lock = None /\ nextpid <= MAXPID
      /\ \E q \in First(Unused) :
           /\ state' = [state EXCEPT ![q] = "EMBRYO"]
           /\ pid' = [pid EXCEPT ![q] = nextpid]
           /\ np' = [np EXCEPT ![proc[c]] = q]
      /\ nextpid' = nextpid + 1
      /\ at' = [at EXCEPT ![proc[c]] = "fork_kstack"]
      /\ UNCHANGED <<parent, chan, killed, kstack, ctx, until, cpuVars,
                     tickVars, panicked>>

(* No memory: the slot is given back without ptable.lock, pid and all.     *)
fork_fail(c) ==
  LET p == proc[c]
  IN  /\ Running(c, "fork_kstack") \/ Running(c, "fork_copy")
      /\ kstack' = [kstack EXCEPT ![np[p]] = FALSE]
      /\ state' = [state EXCEPT ![np[p]] = "UNUSED"]
      /\ np' = [np EXCEPT ![p] = 0]
      /\ at' = [at EXCEPT ![p] = "user"]
      /\ UNCHANGED <<pid, parent, chan, killed, nextpid, ctx, until, cpuVars,
                     tickVars, panicked>>

fork_kstack(c) ==
  LET p == proc[c]
  IN  /\ Running(c, "fork_kstack")
      /\ kstack' = [kstack EXCEPT ![np[p]] = TRUE]
      /\ ctx' = [ctx EXCEPT ![np[p]] = "forkret"]
      /\ at' = [at EXCEPT ![p] = "fork_copy"]
      /\ UNCHANGED <<state, pid, parent, chan, killed, nextpid, np, until,
                     cpuVars, tickVars, panicked>>

fork_copy(c) ==
  LET p == proc[c]
  IN  /\ Running(c, "fork_copy")
      /\ parent' = [parent EXCEPT ![np[p]] = p]
      /\ at' = [at EXCEPT ![p] = "fork_run"]
      /\ UNCHANGED <<state, pid, chan, killed, kstack, nextpid, ctx, np, until,
                     cpuVars, tickVars, panicked>>

fork_run(c) ==
  LET p == proc[c]
  IN  /\ Running(c, "fork_run") /\ lock = None
      /\ state' = [state EXCEPT ![np[p]] = "RUNNABLE"]
      /\ np' = [np EXCEPT ![p] = 0]
      /\ at' = [at EXCEPT ![p] = "user"]
      /\ UNCHANGED <<pid, parent, chan, killed, kstack, nextpid, ctx, until,
                     cpuVars, tickVars, panicked>>

-----------------------------------------------------------------------------
(* Children of p, and those that wait() can reap.                          *)
Children(p) == {q \in Slots : parent[q] = p}
Zombies(p)  == {q \in Children(p) : state[q] = "ZOMBIE"}

(* The wakeups of exit(): the parent, and init if it inherits a zombie.    *)
(* Faulty variant: only the parent.                                        *)
ExitWakeupParent(p) == wakeup1(state, parent[p])
ExitWakeup(p) ==
  IF Zombies(p) # {} THEN wakeup1(wakeup1(state, parent[p]), initproc)
                     ELSE wakeup1(state, parent[p])

(* Abandoned children pass to init.                                        *)
Reparent(p) ==
  [q \in Slots |-> IF q \in Children(p) THEN initproc ELSE parent[q]]

(* exit(), for a process that asked for it or that trap() found killed.    *)
(* (Closing its files and its directory is the business of file.c.)        *)
exit(c) ==
  LET p == proc[c]
  IN  /\ Running(c, "user") \/ (cpc[c] = "trap" /\ at[p] = "user" /\ killed[p])
      /\ IF p = initproc
           THEN /\ panicked' = TRUE
                /\ UNCHANGED <<state, parent, ctx, lock, cpc>>
           ELSE /\ lock = None
                /\ state' = [ExitWakeup(p) EXCEPT ![p] = "ZOMBIE"]
                /\ parent' = Reparent(p)
                /\ EnterSched(c, "forkret")
                /\ UNCHANGED panicked
      /\ UNCHANGED <<pid, chan, killed, kstack, nextpid, at, np, until, proc,
                     scan, tickVars>>

(* wait(), on entry and each time its sleep() returns: reap the first      *)
(* zombie child, or give up, or sleep on the process's own address.        *)
wait(c) ==
  LET p == proc[c]
  IN  /\ \/ Enters(c) /\ lock = None
         \/ cpc[c] = "resume" /\ ctx[p] = "wait"
      /\ IF Zombies(p) # {} \/ Children(p) = {} \/ killed[p]
           THEN /\ lock' = None
                /\ cpc' = [cpc EXCEPT ![c] = "run"]
                /\ ctx' = [ctx EXCEPT ![p] = "yield"]
                /\ chan' = [chan EXCEPT ![p] = 0]
                /\ IF Zombies(p) # {}
                     THEN \E z \in First(Zombies(p)) :
                            /\ kstack' = [kstack EXCEPT ![z] = FALSE]
                            /\ state' = [state EXCEPT ![z] = "UNUSED"]
                            /\ pid' = [pid EXCEPT ![z] = 0]
                            /\ parent' = [parent EXCEPT ![z] = 0]
                            /\ killed' = [killed EXCEPT ![z] = FALSE]
                     ELSE UNCHANGED <<kstack, state, pid, parent, killed>>
           ELSE /\ chan' = [chan EXCEPT ![p] = p]
                /\ state' = [state EXCEPT ![p] = "SLEEPING"]
                /\ EnterSched(c, "wait")
                /\ UNCHANGED <<kstack, pid, parent, killed>>
      /\ UNCHANGED <<nextpid, at, np, until, proc, scan, tickVars,
                     panicked>>

(* Faulty variant: the process is not woken.                               *)
kill_sleeps_on(c, n) ==
  LET Match == {p \in Slots : pid[p] = n}
  IN  /\ Enters(c) /\ lock = None
      /\ \E p \in First(Match) : killed' = [killed EXCEPT ![p] = TRUE]
      /\ UNCHANGED <<state, pid, parent, chan, kstack, nextpid, codeVars,
                     cpuVars, tickVars, panicked>>

(* kill(n): the first slot with that pid, whatever its state.              *)
kill(c, n) ==
  LET Match == {p \in Slots : pid[p] = n}
  IN  /\ Enters(c) /\ lock = None
      /\ \E p \in First(Match) :
           /\ killed' = [killed EXCEPT ![p] = TRUE]
           /\ state' = [state EXCEPT ![p] =
                          IF @ = "SLEEPING" THEN "RUNNABLE" ELSE @]
      /\ UNCHANGED <<pid, parent, chan, kstack, nextpid, codeVars, cpuVars,
                     tickVars, panicked>>

(* trap(), default case: a fault in user space kills the process.          *)
fault(c) ==
  /\ Running(c, "user")
  /\ killed' = [killed EXCEPT ![proc[c]] = TRUE]
  /\ cpc' = [cpc EXCEPT ![c] = "trap"]
  /\ UNCHANGED <<state, pid, parent, chan, kstack, nextpid, codeVars, lock,
                 proc, scan, tickVars, panicked>>

-----------------------------------------------------------------------------
(* sys_sleep(k): acquire(&tickslock), and the while loop.                  *)
sys_sleep(c, k) ==
  /\ Enters(c) /\ tickslock = None
  /\ tickslock' = c
  /\ until' = [until EXCEPT ![proc[c]] = ticks + k]
  /\ at' = [at EXCEPT ![proc[c]] = "sleep_test"]
  /\ UNCHANGED <<tableVars, ctx, np, cpuVars, ticks, panicked>>

(* Faulty variant: tickslock is released before ptable.lock is taken.      *)
sleep_test_early(c) ==
  LET p == proc[c]
  IN  /\ Running(c, "sleep_test")
      /\ at' = [at EXCEPT ![p] =
                  IF ticks >= until[p] \/ killed[p] THEN "user" ELSE "sleep"]
      /\ until' = [until EXCEPT ![p] = IF at'[p] = "user" THEN 0 ELSE @]
      /\ tickslock' = None
      /\ UNCHANGED <<tableVars, ctx, np, cpuVars, ticks, panicked>>

sleep_test(c) ==
  LET p == proc[c]
  IN  /\ Running(c, "sleep_test")
      /\ at' = [at EXCEPT ![p] =
                  IF ticks >= until[p] \/ killed[p] THEN "user" ELSE "sleep"]
      /\ until' = [until EXCEPT ![p] = IF at'[p] = "user" THEN 0 ELSE @]
      /\ tickslock' = IF at'[p] = "user" THEN None ELSE tickslock
      /\ UNCHANGED <<tableVars, ctx, np, cpuVars, ticks, panicked>>

(* sleep(&ticks, &tickslock) up to the swtch().                            *)
sleep(c) ==
  LET p == proc[c]
  IN  /\ Running(c, "sleep") /\ lock = None
      /\ tickslock' = None
      /\ chan' = [chan EXCEPT ![p] = Ticks]
      /\ state' = [state EXCEPT ![p] = "SLEEPING"]
      /\ EnterSched(c, "sleep")
      /\ UNCHANGED <<pid, parent, killed, kstack, nextpid, at, np, until, proc,
                     scan, ticks, panicked>>

(* acquire(lk) at the end of sleep(), which spins with interrupts off.     *)
sleep_pushcli(c) ==
  /\ Running(c, "sleep_lock")
  /\ at' = [at EXCEPT ![proc[c]] = "sleep_spin"]
  /\ UNCHANGED <<tableVars, ctx, np, until, cpuVars, tickVars, panicked>>

sleep_lock(c) ==
  /\ Running(c, "sleep_spin") /\ tickslock = None
  /\ tickslock' = c
  /\ at' = [at EXCEPT ![proc[c]] = "sleep_test"]
  /\ UNCHANGED <<tableVars, ctx, np, until, cpuVars, ticks, panicked>>

-----------------------------------------------------------------------------
(* The timer interrupt: taken when the CPU holds no lock, in a process or  *)
(* in the idle scheduler; BOOTCPU counts the tick under tickslock.         *)
timer(c) ==
  /\ \/ cpc[c] = "run" /\ tickslock # c /\ at[proc[c]] # "sleep_spin"
     \/ c = BOOTCPU /\ cpc[c] = "scheduler"
  /\ IF c = BOOTCPU
       THEN /\ tickslock = None
            /\ tickslock' = c
            /\ ticks' = IF ticks < MAXTICKS THEN ticks + 1 ELSE ticks
            /\ cpc' = [cpc EXCEPT ![c] = "tick"]
       ELSE /\ cpc' = [cpc EXCEPT ![c] = "trap"]
            /\ UNCHANGED tickVars
  /\ UNCHANGED <<tableVars, codeVars, lock, proc, scan, panicked>>

(* wakeup(&ticks); release(&tickslock).                                    *)
timer_wakeup(c) ==
  /\ cpc[c] = "tick" /\ lock = None
  /\ state' = wakeup1(state, Ticks)
  /\ tickslock' = None
  /\ cpc' = [cpc EXCEPT ![c] = IF proc[c] = 0 THEN "scheduler" ELSE "trap"]
  /\ UNCHANGED <<pid, parent, chan, killed, kstack, nextpid, codeVars, lock,
                 proc, scan, ticks, panicked>>

(* yield(), at the end of trap().                                          *)
yield(c) ==
  LET p == proc[c]
  IN  /\ cpc[c] = "trap" /\ ~(killed[p] /\ at[p] = "user") /\ lock = None
      /\ state' = [state EXCEPT ![p] = "RUNNABLE"]
      /\ EnterSched(c, "yield")
      /\ UNCHANGED <<pid, parent, chan, killed, kstack, nextpid, at, np, until,
                     proc, scan, tickVars, panicked>>

-----------------------------------------------------------------------------
(* What a CPU does without being asked: the kernel's own steps.            *)
Kernel(c) ==
  \/ scheduler_acquire(c) \/ scheduler_pick(c) \/ sched(c) \/ resume(c)
  \/ cpc[c] = "resume" /\ wait(c)
  \/ fork_kstack(c) \/ fork_fail(c) \/ fork_copy(c) \/ fork_run(c)
  \/ sleep_test(c) \/ sleep(c) \/ sleep_pushcli(c) \/ sleep_lock(c)
  \/ timer_wakeup(c) \/ yield(c)
  \/ cpc[c] = "trap" /\ exit(c)

(* System calls and faults of the process that runs on a CPU.              *)
User(c) ==
  \/ fork_alloc(c) \/ exit(c) \/ wait(c) \/ fault(c)
  \/ \E n \in 0 .. MAXPID : kill(c, n)
  \/ \E k \in 0 .. MAXTICKS - ticks : sys_sleep(c, k)

Next == ~panicked /\ \E c \in CPUs : Kernel(c) \/ User(c) \/ timer(c)

Spec == Init /\ [][Next]_vars

(* Each CPU goes on and wins a contended lock in the end, timer interrupts *)
(* keep coming, and a system call that is scheduled again and again makes  *)
(* progress between them.                                                  *)
InCall(p) ==
  \E c \in CPUs : /\ proc[c] = p /\ cpc[c] = "run"
                 /\ \/ fork_kstack(c) \/ fork_fail(c) \/ fork_copy(c)
                    \/ fork_run(c) \/ sleep_test(c) \/ sleep(c)
                    \/ sleep_pushcli(c) \/ sleep_lock(c)

Fairness ==
  /\ \A c \in CPUs : /\ SF_vars(~panicked /\ Kernel(c))
                    /\ SF_vars(~panicked /\ scheduler_acquire(c))
                    /\ SF_vars(~panicked /\ timer(c))
  /\ \A p \in Slots : SF_vars(~panicked /\ InCall(p))

FairSpec == Spec /\ Fairness
-----------------------------------------------------------------------------
(* Properties.                                                             *)

(* Type of the state.                                                      *)
TypeOK ==
  /\ state \in [Slots -> States] /\ pid \in [Slots -> 0 .. MAXPID]
  /\ parent \in [Slots -> 0 .. NPROC] /\ chan \in [Slots -> 0 .. NPROC + 1]
  /\ killed \in [Slots -> BOOLEAN] /\ kstack \in [Slots -> BOOLEAN]
  /\ ctx \in [Slots -> {"forkret", "yield", "sleep", "wait"}]
  /\ at \in [Slots -> Points]
  /\ np \in [Slots -> 0 .. NPROC] /\ until \in [Slots -> 0 .. MAXTICKS]
  /\ nextpid \in 2 .. MAXPID + 1
  /\ lock \in CPUs \cup {None} /\ tickslock \in CPUs \cup {None}
  /\ ticks \in 0 .. MAXTICKS
  /\ proc \in [CPUs -> 0 .. NPROC] /\ cpc \in [CPUs -> CPCs]
  /\ scan \in [CPUs -> 0 .. NPROC + 1]
  /\ panicked \in BOOLEAN

(* No two CPUs run one process, and a process that is not RUNNING is on a  *)
(* CPU only until that CPU, which holds ptable.lock, has left its stack.   *)
RunsOnce ==
  \A c \in CPUs : proc[c] # 0 =>
    /\ \A d \in CPUs : proc[d] = proc[c] => d = c
    /\ state[proc[c]] = "RUNNING" \/ lock = c

(* No CPU executes on a kernel stack that wait() has freed.                *)
StackSafe == \A c \in CPUs : proc[c] # 0 => kstack[proc[c]]

(* A process sleeps in wait() only while it has children and none of them  *)
(* is a zombie, whoever had the children before.                           *)
WaitNotLate ==
  \A p \in Slots : state[p] = "SLEEPING" /\ chan[p] = p =>
    /\ \E q \in Slots : parent[q] = p
    /\ \A q \in Slots : parent[q] = p => state[q] # "ZOMBIE"

(* Every process but init has a parent that can still wait() for it.       *)
ParentAlive ==
  \A p \in Slots \ {initproc} :
    state[p] \notin {"UNUSED", "EMBRYO"} =>
      parent[p] # 0 /\ state[parent[p]] \notin {"UNUSED", "EMBRYO", "ZOMBIE"}

(* Between clock ticks, a process asleep in sys_sleep() is not due: the    *)
(* sleep() that gives up tickslock misses no wakeup(&ticks).               *)
SleeperNotDue ==
  tickslock = None =>
    \A p \in Slots : state[p] = "SLEEPING" /\ chan[p] = Ticks => ticks < until[p]

(* The process table as a whole: no process runs twice or on a stack that  *)
(* is gone, wait() and sleep() miss nothing, and nobody is orphaned.       *)
TableSound ==
  TypeOK /\ RunsOnce /\ StackSafe /\ WaitNotLate /\ ParentAlive /\ SleeperNotDue

(* Every RUNNABLE process gets a CPU.                                      *)
RunnableRuns ==
  \A p \in Slots : state[p] = "RUNNABLE" ~> (state[p] # "RUNNABLE" \/ panicked)

(* A killed process exits, wherever kill() found it.                       *)
KilledExits ==
  \A p \in Slots :
    killed[p] /\ state[p] \notin {"UNUSED", "EMBRYO"} ~>
      (state[p] \in {"ZOMBIE", "UNUSED"} \/ panicked)
=============================================================================
