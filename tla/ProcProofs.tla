----------------------------- MODULE ProcProofs ----------------------------
(***************************************************************************)
(* Proofs about the process table, for every number of CPUs and slots.     *)
(* TableInv is inductive and implies TableSound.                           *)
(***************************************************************************)
EXTENDS Proc, TLAPS

OnCPU   == {"resume", "run", "sched", "trap"}
Locking == {"scan", "resume", "sched"}
Live    == {"SLEEPING", "RUNNABLE", "RUNNING"}
Forking == {"fork_kstack", "fork_copy", "fork_run"}
Ticking == {"sleep_test", "sleep"}

(* CPUs: which of them hold ptable.lock and have a process, and in which   *)
(* state that process is.                                                  *)
CpuInv ==
  /\ \A c \in CPUs :
       /\ lock = c <=> cpc[c] \in Locking
       /\ cpc[c] \in {"scheduler", "scan"} => proc[c] = 0
       /\ cpc[c] \in OnCPU => proc[c] # 0
       /\ proc[c] # 0 /\ cpc[c] # "sched" => state[proc[c]] = "RUNNING"
       /\ proc[c] # 0 /\ cpc[c] = "sched" => state[proc[c]] \in {"SLEEPING", "RUNNABLE", "ZOMBIE"}
  /\ \A c, d \in CPUs : proc[c] = proc[d] /\ proc[c] # 0 => c = d

(* fork(): the child's slot belongs to one process and stays EMBRYO, a     *)
(* process in a system call is alive, and so is its kernel stack.          *)
ForkInv ==
  /\ \A p \in Slots :
       /\ at[p] \in Forking => np[p] \in Slots /\ state[np[p]] = "EMBRYO"
       /\ at[p] \in {"fork_copy", "fork_run"} => kstack[np[p]]
       /\ at[p] # "user" => state[p] \in Live
       /\ state[p] \in Live \cup {"ZOMBIE"} => kstack[p]
  /\ \A p, q \in Slots : at[p] \in Forking /\ at[q] \in Forking /\ np[p] = np[q] => p = q

(* Families.                                                               *)
FamilyInv ==
  /\ state[initproc] \in Live /\ parent[initproc] = 0
  /\ \A p \in Slots :
       /\ at[p] \in {"fork_kstack", "fork_copy"} => parent[np[p]] = 0
       /\ at[p] = "fork_run" => parent[np[p]] = p
       /\ state[p] = "UNUSED" => parent[p] = 0
       /\ state[p] = "EMBRYO" /\ parent[p] # 0 => at[parent[p]] = "fork_run" /\ np[parent[p]] = p
       /\ parent[p] # p

(* tickslock belongs to the CPU that counts a tick, or whose process is in *)
(* the loop of sys_sleep().                                                *)
TickHeld ==
  \A c \in CPUs :
    /\ tickslock = c <=> cpc[c] = "tick" \/ (cpc[c] = "run" /\ at[proc[c]] \in Ticking)
    /\ cpc[c] = "run" /\ at[proc[c]] = "sleep" => ticks < until[proc[c]]

(* A process in that loop is on a CPU, or has given it up in sleep().      *)
OnClock(p) == \E c \in CPUs : proc[c] = p /\ cpc[c] = "run"
Sleepers ==
  \A p \in Slots :
    /\ at[p] = "sleep_test" => OnClock(p)
    /\ at[p] = "sleep" =>
         \/ OnClock(p)
         \/ ctx[p] = "sleep" /\ \A c \in CPUs : proc[c] = p => cpc[c] \in {"sched", "resume"}
    /\ ctx[p] = "sleep" => at[p] = "sleep"
    /\ state[p] = "SLEEPING" => chan[p] \in {p, Ticks}

(* Unless a tick is being counted, no sleeper is due.                      *)
NotDue ==
  (\A c \in CPUs : cpc[c] # "tick") =>
    \A p \in Slots : state[p] = "SLEEPING" /\ chan[p] = Ticks => ticks < until[p]

SleepInv == TickHeld /\ Sleepers /\ NotDue

TableInv == TypeOK /\ CpuInv /\ ForkInv /\ FamilyInv /\ SleepInv /\ WaitNotLate /\ ParentAlive

(* A CPU on a process has a slot.                                          *)
LEMMA Current ==
  ASSUME TypeOK, CpuInv, NEW c \in CPUs, cpc[c] \in OnCPU \/ proc[c] # 0
  PROVE  proc[c] \in Slots
<1>1. proc[c] # 0
  BY Zenon DEF CpuInv
<1>2. proc[c] \in 0 .. NPROC
  BY Zenon DEF TypeOK
<1>. QED
  BY <1>1, <1>2, ProcConstants DEF ProcConstants, Slots

(* The same, for all CPUs at once.                                         *)
LEMMA Currents ==
  ASSUME TypeOK, CpuInv
  PROVE  \A c \in CPUs : cpc[c] \in OnCPU \/ proc[c] # 0 => proc[c] \in Slots
  BY Current, Zenon

(* Nor is a parent, or a fork()'s child, anything but a slot.              *)
LEMMA Relatives ==
  ASSUME TypeOK
  PROVE  \A p \in Slots : /\ parent[p] # 0 => parent[p] \in Slots
                          /\ np[p] # 0 => np[p] \in Slots
<1>1. \A p \in Slots : parent[p] \in 0 .. NPROC /\ np[p] \in 0 .. NPROC
  BY Zenon DEF TypeOK
<1>. QED
  BY <1>1, ProcConstants DEF ProcConstants, Slots

(* What the constants say of slots.                                        *)
LEMMA SlotFacts ==
  /\ initproc \in Slots /\ 0 \notin Slots /\ Ticks \notin Slots /\ None \notin CPUs
  /\ Slots \subseteq 0 .. NPROC /\ Slots \subseteq 0 .. NPROC + 1
  /\ Ticks \in 0 .. NPROC + 1 /\ 0 \in 0 .. NPROC + 1 /\ 0 \in 0 .. NPROC
  BY ProcConstants DEF ProcConstants, Slots, initproc, Ticks

(* The first state.                                                        *)
LEMMA TableInit ==
  ASSUME Init
  PROVE  TableInv
<1>. USE DEF Init
<1>1. TypeOK
  <2>1. /\ state \in [Slots -> States] /\ pid \in [Slots -> 0 .. MAXPID]
        /\ parent \in [Slots -> 0 .. NPROC] /\ chan \in [Slots -> 0 .. NPROC + 1]
        /\ nextpid \in 2 .. MAXPID + 1
    BY ProcConstants DEF ProcConstants, States
  <2>2. /\ killed \in [Slots -> BOOLEAN] /\ kstack \in [Slots -> BOOLEAN]
        /\ ctx \in [Slots -> {"forkret", "yield", "sleep", "wait"}]
        /\ at \in [Slots -> Points] /\ panicked \in BOOLEAN
    BY Zenon DEF Points
  <2>3. /\ np \in [Slots -> 0 .. NPROC] /\ until \in [Slots -> 0 .. MAXTICKS]
        /\ lock \in CPUs \cup {None} /\ tickslock \in CPUs \cup {None} /\ ticks \in 0 .. MAXTICKS
        /\ proc \in [CPUs -> 0 .. NPROC] /\ cpc \in [CPUs -> CPCs] /\ scan \in [CPUs -> 0 .. NPROC + 1]
    BY ProcConstants DEF ProcConstants, CPCs
  <2>. QED
    BY <2>1, <2>2, <2>3, Zenon DEF TypeOK
<1>2. CpuInv
  BY SlotFacts, Zenon DEF CpuInv, OnCPU, Locking
<1>3. ForkInv
  BY SlotFacts, Zenon DEF ForkInv, Forking, Live
<1>4. FamilyInv
  BY SlotFacts, Zenon DEF FamilyInv, Forking, Live
<1>5. SleepInv
  BY SlotFacts, Zenon DEF SleepInv, TickHeld, Sleepers, NotDue, OnClock, Ticking
<1>6. WaitNotLate /\ ParentAlive
  BY SlotFacts, Zenon DEF WaitNotLate, ParentAlive
<1>. QED
  BY <1>1, <1>2, <1>3, <1>4, <1>5, <1>6, Zenon DEF TableInv

-----------------------------------------------------------------------------
(* What a step leaves alone.                                               *)

(* The CPUs' part: the CPUs stay where they are, and only a child that is  *)
(* being made, or a sleeper, changes its state.                            *)
LEMMA CpuFrame ==
  ASSUME TypeOK, CpuInv, UNCHANGED <<lock, cpc, proc>>,
         \A q \in Slots : \/ state'[q] = state[q] \/ state[q] \in {"UNUSED", "EMBRYO"}
                          \/ state[q] = "SLEEPING" /\ state'[q] = "RUNNABLE"
  PROVE  CpuInv'
<1>1. \A d \in CPUs : proc[d] # 0 => proc[d] \in Slots
  BY Currents, Zenon
<1>2. \A d \in CPUs : proc[d] # 0 =>
        /\ cpc[d] # "sched" => state'[proc[d]] = "RUNNING"
        /\ cpc[d] = "sched" => state'[proc[d]] \in {"SLEEPING", "RUNNABLE", "ZOMBIE"}
  BY <1>1, Zenon DEF CpuInv
<1>. QED
  BY <1>2, Zenon DEF CpuInv

(* The families' part: only processes that live change their state, and    *)
(* they live on.                                                           *)
LEMMA KinFrame ==
  ASSUME TypeOK, ForkInv, FamilyInv, ParentAlive, UNCHANGED <<parent, kstack, at, np>>,
         \A q \in Slots : state'[q] = state[q] \/ (state[q] \in Live /\ state'[q] \in Live)
  PROVE  ForkInv' /\ FamilyInv' /\ ParentAlive'
<1>1. ForkInv'
  BY Zenon DEF ForkInv, Live
<1>2. FamilyInv'
  <2>1. state'[initproc] \in Live
    BY SlotFacts, Zenon DEF FamilyInv, Live
  <2>2. \A q \in Slots : state'[q] \in {"UNUSED", "EMBRYO"} => state[q] = state'[q]
    BY Zenon DEF Live
  <2>. QED
    BY <2>1, <2>2, ZenonT(30) DEF FamilyInv
<1>3. ParentAlive'
  BY Relatives, Zenon DEF ParentAlive, Live
<1>. QED
  BY <1>1, <1>2, <1>3, Zenon

(* ... and the waiting parents too, when none of them falls asleep.        *)
LEMMA FamilyFrame ==
  ASSUME TypeOK, ForkInv, FamilyInv, WaitNotLate, ParentAlive, UNCHANGED <<parent, kstack, at, np>>,
         \A q \in Slots : \/ state'[q] = state[q]
                          \/ state[q] \in Live /\ state'[q] \in {"RUNNABLE", "RUNNING"},
         \A q \in Slots : state'[q] = "SLEEPING" => chan'[q] = chan[q]
  PROVE  ForkInv' /\ FamilyInv' /\ WaitNotLate' /\ ParentAlive'
<1>1. ForkInv' /\ FamilyInv' /\ ParentAlive'
  BY KinFrame, Zenon DEF Live
<1>2. WaitNotLate'
  BY DEF WaitNotLate, Live
<1>. QED
  BY <1>1, <1>2, Zenon

(* The sleepers' part: an idle CPU takes or gives up ptable.lock, and      *)
(* nobody falls asleep.                                                    *)
LEMMA SleepFrame ==
  ASSUME SleepInv, UNCHANGED <<tickslock, ticks, proc, until, at, ctx>>,
         \A d \in CPUs : \/ cpc'[d] = cpc[d]
                         \/ cpc[d] \in {"scheduler", "scan"} /\ cpc'[d] \in {"scheduler", "scan"},
         \A q \in Slots : state'[q] = "SLEEPING" => state[q] = "SLEEPING" /\ chan'[q] = chan[q]
  PROVE  SleepInv'
<1>1. TickHeld'
  BY DEF SleepInv, TickHeld
<1>2. \A q \in Slots : OnClock(q) => OnClock(q)'
  BY Zenon DEF OnClock
<1>3. Sleepers'
  BY <1>2, Zenon DEF SleepInv, Sleepers
<1>4. NotDue'
  BY Zenon DEF SleepInv, NotDue
<1>. QED
  BY <1>1, <1>3, <1>4, Zenon DEF SleepInv

(* ... and the same for a step of a system call outside sys_sleep()'s loop *)
(* of the process p.                                                       *)
LEMMA CallFrame ==
  ASSUME TypeOK, CpuInv, SleepInv, UNCHANGED <<tickslock, ticks, proc, until, cpc>>,
         NEW c \in CPUs, NEW p \in Slots, p = proc[c], cpc[c] = "run", at[p] \notin Ticking,
         \A q \in Slots : q # p => at'[q] = at[q], at'[p] \notin Ticking,
         \A q \in Slots : ctx'[q] = ctx[q] \/ (ctx'[q] = "forkret" /\ at[q] = "user"),
         \A q \in Slots : state'[q] = "SLEEPING" => state[q] = "SLEEPING" /\ chan'[q] = chan[q]
  PROVE  SleepInv'
<1>1. TickHeld'
  <2>1. \A d \in CPUs : cpc[d] = "run" => proc[d] \in Slots
    BY Currents, Zenon DEF OnCPU
  <2>. QED
    BY <2>1 DEF SleepInv, TickHeld, Ticking
<1>2. \A q \in Slots : OnClock(q) => OnClock(q)'
  BY Zenon DEF OnClock
<1>3. ctx[p] # "sleep"
  BY Zenon DEF SleepInv, Sleepers, Ticking
<1>4. Sleepers'
  BY <1>2, <1>3 DEF SleepInv, Sleepers, Ticking
<1>5. NotDue'
  BY Zenon DEF SleepInv, NotDue
<1>. QED
  BY <1>1, <1>4, <1>5, Zenon DEF SleepInv

(* The kernel stops, or nothing happens.                                   *)
LEMMA TableFrame ==
  ASSUME TableInv, UNCHANGED <<tableVars, codeVars, cpuVars, tickVars>>, panicked' \in BOOLEAN
  PROVE  TableInv'
<1>1. UNCHANGED <<state, pid, parent, chan, killed, kstack, nextpid, ctx, at, np, until,
                  lock, proc, cpc, scan, tickslock, ticks>>
  BY Zenon DEF tableVars, codeVars, cpuVars, tickVars
<1>2. TypeOK'
  BY <1>1, Zenon DEF TableInv, TypeOK
<1>3. CpuInv'
  BY <1>1, CpuFrame, Zenon DEF TableInv
<1>4. ForkInv' /\ FamilyInv' /\ WaitNotLate' /\ ParentAlive'
  BY <1>1, FamilyFrame, Zenon DEF TableInv
<1>5. SleepInv'
  BY <1>1, SleepFrame, Zenon DEF TableInv
<1>. QED
  BY <1>2, <1>3, <1>4, <1>5, Zenon DEF TableInv

-----------------------------------------------------------------------------
(* The scheduler.                                                          *)

(* scheduler() takes the lock.                                             *)
LEMMA AcquireStep ==
  ASSUME TableInv, NEW c \in CPUs, scheduler_acquire(c)
  PROVE  TableInv'
<1>. USE DEF TableInv, scheduler_acquire, tableVars, codeVars, tickVars
<1>1. TypeOK'
  BY ProcConstants DEF TypeOK, ProcConstants, CPCs
<1>2. CpuInv'
  BY SlotFacts DEF CpuInv, TypeOK, OnCPU, Locking
<1>3. ForkInv' /\ FamilyInv' /\ WaitNotLate' /\ ParentAlive'
  BY FamilyFrame, Zenon
<1>4. cpc'[c] = "scan" /\ \A d \in CPUs \ {c} : cpc'[d] = cpc[d]
  BY Zenon DEF TypeOK
<1>5. SleepInv'
  BY <1>4, SleepFrame, Zenon
<1>. QED
  BY <1>1, <1>2, <1>3, <1>5, Zenon

(* ... and runs the first RUNNABLE process, or gives the lock up.          *)
LEMMA PickStep ==
  ASSUME TableInv, NEW c \in CPUs, scheduler_pick(c)
  PROVE  TableInv'
<1>. USE DEF TableInv
<1>. DEFINE R == {p \in Slots : p >= scan[c] /\ state[p] = "RUNNABLE"}
<1>1. CASE R = {}
  <2>. USE <1>1 DEF scheduler_pick, codeVars, tickVars
  <2>1. TypeOK'
    BY ProcConstants DEF TypeOK, ProcConstants, CPCs
  <2>2. CpuInv'
    BY SlotFacts DEF CpuInv, TypeOK, OnCPU, Locking
  <2>3. ForkInv' /\ FamilyInv' /\ WaitNotLate' /\ ParentAlive'
    BY FamilyFrame, Zenon
  <2>4. cpc[c] = "scan" /\ cpc'[c] = "scheduler" /\ \A d \in CPUs \ {c} : cpc'[d] = cpc[d]
    BY Zenon DEF TypeOK
  <2>5. SleepInv'
    BY <2>4, SleepFrame, Zenon
  <2>. QED
    BY <2>1, <2>2, <2>3, <2>5, Zenon
<1>2. CASE R # {}
  <2>1. PICK r \in Slots : /\ state[r] = "RUNNABLE"
                           /\ proc' = [proc EXCEPT ![c] = r] /\ state' = [state EXCEPT ![r] = "RUNNING"]
    BY <1>2, Zenon DEF scheduler_pick, First
  <2>2. /\ cpc[c] = "scan" /\ scan' = [scan EXCEPT ![c] = 0]
        /\ cpc' = [cpc EXCEPT ![c] = "resume"] /\ lock' = lock
    BY <1>2, Zenon DEF scheduler_pick
  <2>3. UNCHANGED <<pid, parent, chan, killed, kstack, nextpid, ctx, at, np, until, tickslock, ticks, panicked>>
    BY <1>2, Zenon DEF scheduler_pick, codeVars, tickVars
  <2>. HIDE DEF R
  <2>4. TypeOK'
    BY <2>1, <2>2, <2>3, SlotFacts, ProcConstants, Zenon DEF TypeOK, ProcConstants, CPCs, States
  <2>5. /\ state'[r] = "RUNNING" /\ \A q \in Slots \ {r} : state'[q] = state[q]
        /\ cpc'[c] = "resume" /\ proc'[c] = r
        /\ \A d \in CPUs \ {c} : cpc'[d] = cpc[d] /\ proc'[d] = proc[d]
    BY <2>1, <2>2, Zenon DEF TypeOK
  <2>6. CpuInv'
    BY <2>1, <2>2, <2>5, SlotFacts, Currents DEF CpuInv, OnCPU, Locking
  <2>7. ForkInv' /\ FamilyInv' /\ WaitNotLate' /\ ParentAlive'
    BY <2>1, <2>3, <2>5, FamilyFrame, Zenon DEF Live
  <2>8. SleepInv'
    <3>1. TickHeld' /\ NotDue'
      BY <2>2, <2>3, <2>5 DEF SleepInv, TickHeld, NotDue
    <3>2. \A q \in Slots : OnClock(q) => OnClock(q)'
      BY <2>2, <2>5, Zenon DEF OnClock
    <3>3. Sleepers'
      BY <2>1, <2>3, <2>5, <3>2 DEF SleepInv, Sleepers
    <3>. QED
      BY <3>1, <3>3, Zenon DEF SleepInv
  <2>. QED
    BY <2>4, <2>6, <2>7, <2>8, Zenon
<1>. QED
  BY <1>1, <1>2, Zenon

(* sched() leaves the process's stack.                                     *)
LEMMA SchedStep ==
  ASSUME TableInv, NEW c \in CPUs, sched(c)
  PROVE  TableInv'
<1>. USE DEF TableInv, sched, tableVars, codeVars, tickVars
<1>1. TypeOK'
  BY ProcConstants DEF TypeOK, ProcConstants, CPCs
<1>2. CpuInv'
  BY DEF CpuInv, TypeOK, OnCPU, Locking
<1>3. ForkInv' /\ FamilyInv' /\ WaitNotLate' /\ ParentAlive'
  BY FamilyFrame, Zenon
<1>4. /\ cpc[c] = "sched"
      /\ cpc'[c] = "scan" /\ proc'[c] = 0
      /\ \A d \in CPUs \ {c} : cpc'[d] = cpc[d] /\ proc'[d] = proc[d]
  BY Zenon DEF TypeOK
<1>5. SleepInv'
  <2>1. TickHeld' /\ NotDue'
    BY <1>4 DEF SleepInv, TickHeld, NotDue
  <2>2. \A q \in Slots : OnClock(q) => OnClock(q)'
    BY <1>4, Zenon DEF OnClock
  <2>3. Sleepers'
    BY <1>4, <2>2, SlotFacts DEF SleepInv, Sleepers
  <2>. QED
    BY <2>1, <2>3, Zenon DEF SleepInv
<1>. QED
  BY <1>1, <1>2, <1>3, <1>5, Zenon

(* Back from swtch() in forkret(), yield() or sleep().                     *)
LEMMA ResumeStep ==
  ASSUME TableInv, NEW c \in CPUs, resume(c)
  PROVE  TableInv'
<1>. USE DEF TableInv
<1>1. PICK p \in Slots : p = proc[c] /\ cpc[c] = "resume" /\ state[p] = "RUNNING" /\ lock = c
  BY Current, Zenon DEF resume, OnCPU, CpuInv, Locking
<1>2. /\ lock' = None /\ cpc' = [cpc EXCEPT ![c] = "run"] /\ ctx' = [ctx EXCEPT ![p] = "yield"]
      /\ UNCHANGED <<state, pid, parent, killed, kstack, nextpid, np, until, proc, scan, tickslock, ticks, panicked>>
  BY <1>1, Zenon DEF resume, tickVars
<1>3. \/ ctx[p] = "sleep" /\ chan' = [chan EXCEPT ![p] = 0] /\ at' = [at EXCEPT ![p] = "sleep_lock"]
      \/ ctx[p] # "sleep" /\ UNCHANGED <<chan, at>>
  BY <1>1, Zenon DEF resume
<1>4. TypeOK'
  BY <1>1, <1>2, <1>3, SlotFacts DEF TypeOK, CPCs, Points
<1>5. /\ cpc'[c] = "run" /\ \A d \in CPUs \ {c} : cpc'[d] = cpc[d]
      /\ ctx'[p] = "yield"
      /\ \A q \in Slots \ {p} : ctx'[q] = ctx[q] /\ at'[q] = at[q] /\ chan'[q] = chan[q]
      /\ at'[p] = (IF ctx[p] = "sleep" THEN "sleep_lock" ELSE at[p])
  BY <1>1, <1>2, <1>3 DEF TypeOK
<1>6. ~OnClock(p) /\ (ctx[p] = "sleep" => at[p] = "sleep") /\ (ctx[p] # "sleep" => at[p] \notin Ticking)
  <2>1. ~OnClock(p)
    BY <1>1, SlotFacts, Zenon DEF OnClock, CpuInv
  <2>. QED
    BY <1>1, <2>1, Zenon DEF SleepInv, Sleepers, Ticking
<1>7. CpuInv'
  BY <1>1, <1>2, <1>5, SlotFacts, SMTT(20) DEF CpuInv, OnCPU, Locking
<1>8. ForkInv'
  BY <1>1, <1>2, <1>5, <1>6 DEF ForkInv, Forking, Live
<1>9. FamilyInv'
  <2>1. \A q \in Slots : (at'[q] = at[q]) \/ (at[q] \notin Forking /\ at'[q] \notin Forking)
    BY <1>5, <1>6, Zenon DEF Forking
  <2>. QED
    BY <1>2, <2>1, Relatives DEF FamilyInv, Forking
<1>10. TickHeld'
  <2>1. \A d \in CPUs \ {c} : proc[d] # p
    BY <1>1, SlotFacts, Zenon DEF CpuInv
  <2>2. \A d \in CPUs : cpc[d] = "run" => proc[d] \in Slots
    BY Currents, Zenon DEF OnCPU
  <2>3. at'[p] \notin Ticking
    BY <1>5, <1>6, Zenon DEF Ticking
  <2>. QED
    BY <1>1, <1>2, <1>5, <2>1, <2>2, <2>3 DEF SleepInv, TickHeld, Ticking
<1>11. Sleepers'
  <2>1. \A q \in Slots : OnClock(q) => OnClock(q)'
    BY <1>1, <1>2, <1>5, ZenonT(30) DEF OnClock
  <2>2. at'[p] \notin Ticking
    BY <1>5, <1>6, Zenon DEF Ticking
  <2>. QED
    BY <1>1, <1>2, <1>5, <2>1, <2>2 DEF SleepInv, Sleepers, Ticking
<1>12. NotDue'
  BY <1>1, <1>2, <1>5 DEF SleepInv, NotDue
<1>13. WaitNotLate' /\ ParentAlive'
  BY <1>1, <1>2, <1>5 DEF WaitNotLate, ParentAlive
<1>. QED
  BY <1>4, <1>7, <1>8, <1>9, <1>10, <1>11, <1>12, <1>13, Zenon DEF SleepInv

-----------------------------------------------------------------------------
(* fork(): p is the process, q the child.                                  *)

(* allocproc() takes the first UNUSED slot.                                *)
LEMMA ForkAllocStep ==
  ASSUME TableInv, NEW c \in CPUs, fork_alloc(c)
  PROVE  TableInv'
<1>. USE DEF TableInv
<1>1. PICK p \in Slots : p = proc[c] /\ cpc[c] = "run" /\ at[p] = "user" /\ state[p] = "RUNNING"
  BY Current, Zenon DEF fork_alloc, Enters, Running, OnCPU, CpuInv
<1>2. PICK q \in Slots : /\ state[q] = "UNUSED"
                         /\ state' = [state EXCEPT ![q] = "EMBRYO"] /\ pid' = [pid EXCEPT ![q] = nextpid]
                         /\ np' = [np EXCEPT ![p] = q]
  BY <1>1, Zenon DEF fork_alloc, First
<1>3. nextpid <= MAXPID /\ nextpid' = nextpid + 1 /\ at' = [at EXCEPT ![p] = "fork_kstack"]
  BY <1>1, Zenon DEF fork_alloc
<1>4. UNCHANGED <<parent, chan, killed, kstack, ctx, until, lock, proc, cpc, scan, tickslock, ticks, panicked>>
  BY Zenon DEF fork_alloc, cpuVars, tickVars
<1>5. TypeOK'
  <2>1. nextpid' \in 2 .. MAXPID + 1 /\ nextpid \in 0 .. MAXPID
    BY <1>3, ProcConstants DEF TypeOK, ProcConstants
  <2>. QED
    BY <1>1, <1>2, <1>3, <1>4, <2>1, SlotFacts, Zenon DEF TypeOK, States, Points
<1>6. /\ state'[q] = "EMBRYO" /\ \A s \in Slots \ {q} : state'[s] = state[s]
      /\ np'[p] = q /\ \A s \in Slots \ {p} : np'[s] = np[s]
      /\ at'[p] = "fork_kstack" /\ \A s \in Slots \ {p} : at'[s] = at[s]
  BY <1>1, <1>2, <1>3, Zenon DEF TypeOK
<1>7. CpuInv'
  BY <1>2, <1>4, <1>6, CpuFrame, Zenon
<1>8. ForkInv'
  BY <1>1, <1>2, <1>4, <1>6 DEF ForkInv, Forking, Live
<1>9. FamilyInv'
  <2>1. parent[q] = 0 /\ q # p /\ \A s \in Slots : at[s] \in Forking => np[s] # q
    BY <1>1, <1>2, Zenon DEF FamilyInv, ForkInv
  <2>2. state'[initproc] \in Live /\ parent'[initproc] = 0
    BY <1>2, <1>4, <1>6, SlotFacts, Zenon DEF FamilyInv, Live
  <2>3. \A s \in Slots : /\ at'[s] \in {"fork_kstack", "fork_copy"} => parent'[np'[s]] = 0
                         /\ at'[s] = "fork_run" => parent'[np'[s]] = s
    BY <1>4, <1>6, <2>1 DEF FamilyInv
  <2>4. \A s \in Slots : state'[s] = "EMBRYO" /\ parent'[s] # 0 => at'[parent'[s]] = "fork_run" /\ np'[parent'[s]] = s
    BY <1>1, <1>4, <1>6, <2>1, Relatives DEF FamilyInv
  <2>5. \A s \in Slots : (state'[s] = "UNUSED" => parent'[s] = 0) /\ parent'[s] # s
    BY <1>4, <1>6 DEF FamilyInv
  <2>. QED
    BY <2>1, <2>2, <2>3, <2>4, <2>5, Zenon DEF FamilyInv
<1>10. SleepInv'
  BY <1>1, <1>4, <1>6, CallFrame, Zenon DEF Ticking
<1>11. WaitNotLate'
  BY <1>2, <1>4, <1>6, SlotFacts DEF WaitNotLate
<1>12. ParentAlive'
  BY <1>2, <1>4, <1>6, SlotFacts, Relatives DEF ParentAlive
<1>. QED
  BY <1>5, <1>7, <1>8, <1>9, <1>10, <1>11, <1>12, Zenon

(* fork() gives the slot back, ...                                         *)
LEMMA ForkFailStep ==
  ASSUME TableInv, NEW c \in CPUs, fork_fail(c)
  PROVE  TableInv'
<1>. USE DEF TableInv
<1>1. PICK p \in Slots : p = proc[c] /\ cpc[c] = "run" /\ at[p] \in {"fork_kstack", "fork_copy"}
                         /\ state[p] = "RUNNING"
  BY Current, Zenon DEF fork_fail, Running, OnCPU, CpuInv
<1>2. PICK q \in Slots : q = np[p] /\ state[q] = "EMBRYO" /\ parent[q] = 0
  BY <1>1 DEF ForkInv, FamilyInv, Forking
<1>3. /\ kstack' = [kstack EXCEPT ![q] = FALSE] /\ state' = [state EXCEPT ![q] = "UNUSED"]
      /\ np' = [np EXCEPT ![p] = 0] /\ at' = [at EXCEPT ![p] = "user"]
  BY <1>1, <1>2, Zenon DEF fork_fail
<1>4. UNCHANGED <<pid, parent, chan, killed, nextpid, ctx, until, lock, proc, cpc, scan, tickslock, ticks, panicked>>
  BY Zenon DEF fork_fail, cpuVars, tickVars
<1>5. TypeOK'
  BY <1>1, <1>2, <1>3, <1>4, SlotFacts, Zenon DEF TypeOK, States, Points
<1>6. /\ state'[q] = "UNUSED" /\ \A s \in Slots \ {q} : state'[s] = state[s]
      /\ kstack'[q] = FALSE /\ \A s \in Slots \ {q} : kstack'[s] = kstack[s]
      /\ np'[p] = 0 /\ \A s \in Slots \ {p} : np'[s] = np[s]
      /\ at'[p] = "user" /\ \A s \in Slots \ {p} : at'[s] = at[s]
  BY <1>1, <1>2, <1>3, ZenonT(30) DEF TypeOK
<1>7. CpuInv'
  BY <1>2, <1>4, <1>6, CpuFrame, Zenon
<1>8. ForkInv'
  BY <1>1, <1>2, <1>6 DEF ForkInv, Forking, Live
<1>9. FamilyInv'
  <2>1. state'[initproc] \in Live /\ parent'[initproc] = 0
    BY <1>2, <1>4, <1>6, SlotFacts, ZenonT(30) DEF FamilyInv, Live
  <2>2. \A s \in Slots : /\ at'[s] \in {"fork_kstack", "fork_copy"} => parent'[np'[s]] = 0
                         /\ at'[s] = "fork_run" => parent'[np'[s]] = s
    BY <1>4, <1>6 DEF FamilyInv
  <2>3. \A s \in Slots : state'[s] = "EMBRYO" /\ parent'[s] # 0 => at'[parent'[s]] = "fork_run" /\ np'[parent'[s]] = s
    BY <1>1, <1>4, <1>6, Relatives DEF FamilyInv
  <2>4. \A s \in Slots : (state'[s] = "UNUSED" => parent'[s] = 0) /\ parent'[s] # s
    BY <1>2, <1>4, <1>6 DEF FamilyInv
  <2>. QED
    BY <2>1, <2>2, <2>3, <2>4, Zenon DEF FamilyInv
<1>10. SleepInv'
  BY <1>1, <1>4, <1>6, CallFrame, Zenon DEF Ticking
<1>11. WaitNotLate'
  BY <1>2, <1>4, <1>6, Relatives, SlotFacts DEF WaitNotLate
<1>12. ParentAlive'
  <2>1. \A s \in Slots \ {initproc} : state'[s] \notin {"UNUSED", "EMBRYO"} =>
          s # q /\ parent[s] \in Slots /\ parent[s] # q
    BY <1>2, <1>6, Relatives, Zenon DEF ParentAlive
  <2>. QED
    BY <1>4, <1>6, <2>1, Zenon DEF ParentAlive
<1>. QED
  BY <1>5, <1>7, <1>8, <1>9, <1>10, <1>11, <1>12, Zenon

(* ... or gives the child its stack, ...                                   *)
LEMMA ForkKstackStep ==
  ASSUME TableInv, NEW c \in CPUs, fork_kstack(c)
  PROVE  TableInv'
<1>. USE DEF TableInv
<1>1. PICK p \in Slots : p = proc[c] /\ cpc[c] = "run" /\ at[p] = "fork_kstack" /\ state[p] = "RUNNING"
  BY Current, Zenon DEF fork_kstack, Running, OnCPU, CpuInv
<1>2. PICK q \in Slots : q = np[p] /\ state[q] = "EMBRYO" /\ at[q] = "user"
  BY <1>1 DEF ForkInv, Forking, Live
<1>3. /\ kstack' = [kstack EXCEPT ![q] = TRUE] /\ ctx' = [ctx EXCEPT ![q] = "forkret"]
      /\ at' = [at EXCEPT ![p] = "fork_copy"]
  BY <1>1, <1>2, Zenon DEF fork_kstack
<1>4. UNCHANGED <<state, pid, parent, chan, killed, nextpid, np, until, lock, proc, cpc, scan, tickslock, ticks, panicked>>
  BY Zenon DEF fork_kstack, cpuVars, tickVars
<1>5. TypeOK'
  BY <1>1, <1>2, <1>3, <1>4, Zenon DEF TypeOK, Points
<1>6. /\ kstack'[q] = TRUE /\ \A s \in Slots \ {q} : kstack'[s] = kstack[s]
      /\ ctx'[q] = "forkret" /\ \A s \in Slots \ {q} : ctx'[s] = ctx[s]
      /\ at'[p] = "fork_copy" /\ \A s \in Slots \ {p} : at'[s] = at[s]
  BY <1>1, <1>2, <1>3, Zenon DEF TypeOK
<1>7. CpuInv'
  BY <1>4, CpuFrame, Zenon
<1>8. ForkInv'
  BY <1>1, <1>2, <1>4, <1>6 DEF ForkInv, Forking, Live
<1>9. FamilyInv'
  BY <1>1, <1>4, <1>6, Relatives, SMTT(20) DEF FamilyInv, Forking
<1>10. SleepInv'
  BY <1>1, <1>2, <1>4, <1>6, CallFrame DEF Ticking
<1>11. WaitNotLate' /\ ParentAlive'
  BY <1>4, Zenon DEF WaitNotLate, ParentAlive
<1>. QED
  BY <1>5, <1>7, <1>8, <1>9, <1>10, <1>11, Zenon

(* ... its parent, ...                                                     *)
LEMMA ForkCopyStep ==
  ASSUME TableInv, NEW c \in CPUs, fork_copy(c)
  PROVE  TableInv'
<1>. USE DEF TableInv
<1>1. PICK p \in Slots : p = proc[c] /\ cpc[c] = "run" /\ at[p] = "fork_copy" /\ state[p] = "RUNNING"
  BY Current, Zenon DEF fork_copy, Running, OnCPU, CpuInv
<1>2. PICK q \in Slots : q = np[p] /\ state[q] = "EMBRYO" /\ parent[q] = 0
  BY <1>1 DEF ForkInv, FamilyInv, Forking
<1>3. parent' = [parent EXCEPT ![q] = p] /\ at' = [at EXCEPT ![p] = "fork_run"]
  BY <1>1, <1>2, Zenon DEF fork_copy
<1>4. UNCHANGED <<state, pid, chan, killed, kstack, nextpid, ctx, np, until, lock, proc, cpc, scan, tickslock, ticks, panicked>>
  BY Zenon DEF fork_copy, cpuVars, tickVars
<1>5. TypeOK'
  BY <1>1, <1>2, <1>3, <1>4, SlotFacts, Zenon DEF TypeOK, Points
<1>6. /\ parent'[q] = p /\ \A s \in Slots \ {q} : parent'[s] = parent[s]
      /\ at'[p] = "fork_run" /\ \A s \in Slots \ {p} : at'[s] = at[s]
  BY <1>1, <1>2, <1>3, Zenon DEF TypeOK
<1>7. CpuInv'
  BY <1>4, CpuFrame, Zenon
<1>8. ForkInv'
  BY <1>1, <1>2, <1>4, <1>6 DEF ForkInv, Forking, Live
<1>9. FamilyInv'
  <2>1. q # p /\ q # initproc /\ \A s \in Slots : s # p /\ at[s] \in Forking => np[s] # q /\ np[s] \in Slots
    BY <1>1, <1>2 DEF ForkInv, FamilyInv, Forking, Live
  <2>2. state'[initproc] \in Live /\ parent'[initproc] = 0
    BY <1>4, <1>6, <2>1, SlotFacts, Zenon DEF FamilyInv
  <2>3. \A s \in Slots : /\ at'[s] \in {"fork_kstack", "fork_copy"} => parent'[np'[s]] = 0
                         /\ at'[s] = "fork_run" => parent'[np'[s]] = s
    BY <1>2, <1>4, <1>6, <2>1 DEF FamilyInv, Forking
  <2>4. \A s \in Slots : state'[s] = "EMBRYO" /\ parent'[s] # 0 => at'[parent'[s]] = "fork_run" /\ np'[parent'[s]] = s
    BY <1>1, <1>2, <1>4, <1>6, Relatives DEF FamilyInv
  <2>5. \A s \in Slots : (state'[s] = "UNUSED" => parent'[s] = 0) /\ parent'[s] # s
    BY <1>2, <1>4, <1>6, <2>1 DEF FamilyInv
  <2>. QED
    BY <2>1, <2>2, <2>3, <2>4, <2>5, Zenon DEF FamilyInv
<1>10. SleepInv'
  BY <1>1, <1>4, <1>6, CallFrame, Zenon DEF Ticking
<1>11. WaitNotLate'
  BY <1>1, <1>2, <1>4, <1>6, SlotFacts DEF WaitNotLate
<1>12. ParentAlive'
  BY <1>1, <1>2, <1>4, <1>6, SlotFacts, Relatives DEF ParentAlive
<1>. QED
  BY <1>5, <1>7, <1>8, <1>9, <1>10, <1>11, <1>12, Zenon

(* ... and makes it RUNNABLE.                                              *)
LEMMA ForkRunStep ==
  ASSUME TableInv, NEW c \in CPUs, fork_run(c)
  PROVE  TableInv'
<1>. USE DEF TableInv
<1>1. PICK p \in Slots : p = proc[c] /\ cpc[c] = "run" /\ at[p] = "fork_run" /\ state[p] = "RUNNING"
  BY Current, Zenon DEF fork_run, Running, OnCPU, CpuInv
<1>2. PICK q \in Slots : q = np[p] /\ state[q] = "EMBRYO" /\ kstack[q] /\ parent[q] = p
  BY <1>1 DEF ForkInv, FamilyInv, Forking
<1>3. /\ state' = [state EXCEPT ![q] = "RUNNABLE"] /\ np' = [np EXCEPT ![p] = 0]
      /\ at' = [at EXCEPT ![p] = "user"]
  BY <1>1, <1>2, Zenon DEF fork_run
<1>4. UNCHANGED <<pid, parent, chan, killed, kstack, nextpid, ctx, until, lock, proc, cpc, scan, tickslock, ticks, panicked>>
  BY Zenon DEF fork_run, cpuVars, tickVars
<1>5. TypeOK'
  BY <1>1, <1>2, <1>3, <1>4, SlotFacts, Zenon DEF TypeOK, Points, States
<1>6. /\ state'[q] = "RUNNABLE" /\ \A s \in Slots \ {q} : state'[s] = state[s]
      /\ np'[p] = 0 /\ \A s \in Slots \ {p} : np'[s] = np[s]
      /\ at'[p] = "user" /\ \A s \in Slots \ {p} : at'[s] = at[s]
  BY <1>1, <1>2, <1>3, ZenonT(30) DEF TypeOK
<1>7. CpuInv'
  BY <1>2, <1>4, <1>6, CpuFrame, Zenon
<1>8. ForkInv'
  BY <1>1, <1>2, <1>4, <1>6 DEF ForkInv, Forking, Live
<1>9. FamilyInv'
  <2>1. state'[initproc] \in Live /\ parent'[initproc] = 0
    BY <1>4, <1>6, SlotFacts, Zenon DEF FamilyInv, Live
  <2>2. \A s \in Slots : /\ at'[s] \in {"fork_kstack", "fork_copy"} => parent'[np'[s]] = 0
                         /\ at'[s] = "fork_run" => parent'[np'[s]] = s
    BY <1>4, <1>6 DEF FamilyInv
  <2>3. \A s \in Slots : state'[s] = "EMBRYO" /\ parent'[s] # 0 => at'[parent'[s]] = "fork_run" /\ np'[parent'[s]] = s
    BY <1>1, <1>2, <1>4, <1>6, Relatives DEF FamilyInv
  <2>4. \A s \in Slots : (state'[s] = "UNUSED" => parent'[s] = 0) /\ parent'[s] # s
    BY <1>2, <1>4, <1>6 DEF FamilyInv
  <2>. QED
    BY <2>1, <2>2, <2>3, <2>4, Zenon DEF FamilyInv
<1>10. SleepInv'
  BY <1>1, <1>4, <1>6, CallFrame, Zenon DEF Ticking
<1>11. WaitNotLate'
  BY <1>1, <1>2, <1>4, <1>6, Relatives, SlotFacts DEF WaitNotLate
<1>12. ParentAlive'
  <2>1. \A s \in Slots \ {initproc} : state'[s] \notin {"UNUSED", "EMBRYO"} =>
          parent[s] # 0 /\ parent[s] \in Slots \ {q} /\ state[parent[s]] \notin {"UNUSED", "EMBRYO", "ZOMBIE"}
    BY <1>1, <1>2, <1>6, Relatives, SlotFacts DEF ParentAlive
  <2>. QED
    BY <1>4, <1>6, <2>1, Zenon DEF ParentAlive
<1>. QED
  BY <1>5, <1>7, <1>8, <1>9, <1>10, <1>11, <1>12, Zenon

-----------------------------------------------------------------------------
(* kill, fault and exit.                                                   *)

(* kill() marks a process, and wakes it.                                   *)
LEMMA KillStep ==
  ASSUME TableInv, NEW c \in CPUs, NEW n, kill(c, n)
  PROVE  TableInv'
<1>. USE DEF TableInv
<1>2. PICK m \in Slots :
        /\ killed' = [killed EXCEPT ![m] = TRUE]
        /\ state' = [state EXCEPT ![m] = IF @ = "SLEEPING" THEN "RUNNABLE" ELSE @]
  BY Zenon DEF kill, First
<1>3. UNCHANGED <<pid, parent, chan, kstack, nextpid, ctx, at, np, until, lock, proc, cpc, scan,
                  tickslock, ticks, panicked>>
  BY Zenon DEF kill, codeVars, cpuVars, tickVars
<1>4. /\ state' \in [Slots -> States] /\ killed' \in [Slots -> BOOLEAN]
      /\ \A q \in Slots : state'[q] = state[q] \/ (state[q] = "SLEEPING" /\ state'[q] = "RUNNABLE")
  BY <1>2, Zenon DEF TypeOK, States
<1>5. TypeOK'
  BY <1>3, <1>4, Zenon DEF TypeOK
<1>6. CpuInv'
  BY <1>3, <1>4, CpuFrame, Zenon
<1>7. ForkInv' /\ FamilyInv' /\ WaitNotLate' /\ ParentAlive'
  BY <1>3, <1>4, FamilyFrame, Zenon DEF Live
<1>8. SleepInv'
  BY <1>3, <1>4, SleepFrame, Zenon
<1>. QED
  BY <1>5, <1>6, <1>7, <1>8, Zenon

(* A fault marks the process that runs.                                    *)
LEMMA FaultStep ==
  ASSUME TableInv, NEW c \in CPUs, fault(c)
  PROVE  TableInv'
<1>. USE DEF TableInv
<1>1. cpc[c] = "run" /\ proc[c] \in Slots /\ at[proc[c]] = "user"
  BY Current, Zenon DEF fault, Running, OnCPU
<1>2. killed' = [killed EXCEPT ![proc[c]] = TRUE] /\ cpc' = [cpc EXCEPT ![c] = "trap"]
  BY Zenon DEF fault
<1>3. UNCHANGED <<state, pid, parent, chan, kstack, nextpid, ctx, at, np, until, lock, proc, scan,
                  tickslock, ticks, panicked>>
  BY Zenon DEF fault, codeVars, tickVars
<1>4. TypeOK'
  BY <1>1, <1>2, <1>3, Zenon DEF TypeOK, CPCs
<1>5. cpc'[c] = "trap" /\ \A d \in CPUs \ {c} : cpc'[d] = cpc[d]
  BY <1>2, Zenon DEF TypeOK
<1>6. CpuInv'
  BY <1>1, <1>3, <1>5 DEF CpuInv, Locking, OnCPU
<1>7. ForkInv' /\ FamilyInv' /\ WaitNotLate' /\ ParentAlive'
  BY <1>3, FamilyFrame, Zenon
<1>8. TickHeld' /\ NotDue'
  BY <1>1, <1>3, <1>5 DEF SleepInv, TickHeld, NotDue, Ticking
<1>9. Sleepers'
  <2>1. \A q \in Slots : at[q] \in Ticking /\ OnClock(q) => OnClock(q)'
    BY <1>1, <1>3, <1>5, Zenon DEF OnClock, Ticking
  <2>2. \A q \in Slots : at[q] \in Ticking => proc[c] # q
    BY <1>1, Zenon DEF Ticking
  <2>. QED
    BY <1>3, <1>5, <2>1, <2>2, ZenonT(30) DEF SleepInv, Sleepers, Ticking
<1>. QED
  BY <1>4, <1>6, <1>7, <1>8, <1>9, Zenon DEF SleepInv

(* wakeup1() makes sleepers RUNNABLE, all of them that wait for ch.        *)
LEMMA Wakeup1 ==
  ASSUME NEW f \in [Slots -> States], NEW ch
  PROVE  /\ wakeup1(f, ch) \in [Slots -> States]
         /\ \A q \in Slots :
              /\ \/ wakeup1(f, ch)[q] = f[q]
                 \/ f[q] = "SLEEPING" /\ wakeup1(f, ch)[q] = "RUNNABLE"
              /\ wakeup1(f, ch)[q] = "SLEEPING" => f[q] = "SLEEPING" /\ chan[q] # ch
  BY Zenon DEF wakeup1, States

(* The process p leaves the CPU c in sched(): the CPUs' part.              *)
LeavesCpu(c, p) ==
  /\ p = proc[c] /\ cpc[c] \in OnCPU /\ lock' = c /\ cpc'[c] = "sched" /\ proc' = proc
  /\ \A d \in CPUs \ {c} : cpc'[d] = cpc[d] /\ cpc[d] \notin Locking
  /\ state'[p] \in {"SLEEPING", "RUNNABLE", "ZOMBIE"}
  /\ \A q \in Slots \ {p} : state[q] = "RUNNING" => state'[q] = "RUNNING"

(* sched() leaves one process current on each CPU.                         *)
LEMMA LeaveFrame ==
  ASSUME TypeOK, CpuInv, NEW c \in CPUs, NEW p \in Slots, LeavesCpu(c, p)
  PROVE  CpuInv'
<1>1. /\ lock' = c /\ cpc'[c] = "sched" /\ proc' = proc /\ p = proc[c] /\ proc[c] # 0
      /\ state'[p] \in {"SLEEPING", "RUNNABLE", "ZOMBIE"}
  BY Zenon DEF LeavesCpu, CpuInv
<1>2. ASSUME NEW d \in CPUs \ {c}
      PROVE  /\ cpc'[d] = cpc[d] /\ cpc[d] \notin Locking /\ cpc[d] # "sched"
             /\ cpc[d] \in {"scheduler", "scan"} => proc[d] = 0
             /\ cpc[d] \in OnCPU => proc[d] # 0
             /\ proc[d] # 0 => state'[proc[d]] = "RUNNING"
  <2>1. cpc'[d] = cpc[d] /\ cpc[d] \notin Locking
    BY <1>2, Zenon DEF LeavesCpu
  <2>2. cpc[d] # "sched"
    BY <2>1, Zenon DEF Locking
  <2>3. ASSUME proc[d] # 0 PROVE state'[proc[d]] = "RUNNING"
    <3>1. proc[d] \in Slots
      BY <1>2, <2>3, Currents, Zenon
    <3>2. state[proc[d]] = "RUNNING" /\ proc[d] # p
      BY <1>1, <1>2, <2>2, <2>3, Zenon DEF CpuInv
    <3>. QED
      BY <3>1, <3>2, Zenon DEF LeavesCpu
  <2>. QED
    BY <1>2, <2>1, <2>2, <2>3, Zenon DEF CpuInv
<1>3. \A d \in CPUs : lock' = d <=> cpc'[d] \in Locking
  BY <1>1, <1>2, Zenon DEF Locking
<1>4. \A d \in CPUs : /\ cpc'[d] \in {"scheduler", "scan"} => proc'[d] = 0
                      /\ cpc'[d] \in OnCPU => proc'[d] # 0
  BY <1>1, <1>2, Zenon
<1>5. \A d \in CPUs : /\ proc'[d] # 0 /\ cpc'[d] # "sched" => state'[proc'[d]] = "RUNNING"
                      /\ proc'[d] # 0 /\ cpc'[d] = "sched" =>
                           state'[proc'[d]] \in {"SLEEPING", "RUNNABLE", "ZOMBIE"}
  BY <1>1, <1>2, Zenon
<1>6. \A d, e \in CPUs : proc'[d] = proc'[e] /\ proc'[d] # 0 => d = e
  BY <1>1, Zenon DEF CpuInv
<1>. QED
  BY <1>3, <1>4, <1>5, <1>6, Zenon DEF CpuInv

(* The CPU c leaves or stays out of the sections under tickslock.          *)
TickKept(c) ==
  /\ tickslock' # c /\ cpc'[c] # "tick" /\ UNCHANGED <<proc, ticks, until, at>>
  /\ cpc'[c] = "run" => at[proc[c]] \notin Ticking
  /\ \A d \in CPUs \ {c} : cpc'[d] = cpc[d] /\ (tickslock' = d <=> tickslock = d)

(* tickslock still has the one holder that TickHeld gives it.              *)
LEMMA TickFrame ==
  ASSUME TickHeld, NEW c \in CPUs, TickKept(c)
  PROVE  TickHeld'
<1>1. /\ tickslock' # c /\ cpc'[c] # "tick" /\ proc' = proc /\ ticks' = ticks /\ until' = until
      /\ at' = at /\ (cpc'[c] = "run" => at[proc[c]] \notin Ticking)
  BY Zenon DEF TickKept
<1>2. cpc'[c] = "run" => at[proc[c]] # "sleep"
  BY <1>1, Zenon DEF Ticking
<1>3. ASSUME NEW d \in CPUs \ {c}
      PROVE  /\ tickslock' = d <=> cpc'[d] = "tick" \/ (cpc'[d] = "run" /\ at[proc[d]] \in Ticking)
             /\ cpc'[d] = "run" /\ at[proc[d]] = "sleep" => ticks < until[proc[d]]
  <2>1. cpc'[d] = cpc[d] /\ (tickslock' = d <=> tickslock = d)
    BY <1>3, Zenon DEF TickKept
  <2>. QED
    BY <1>3, <2>1, Zenon DEF TickHeld
<1>4. ASSUME NEW d \in CPUs
      PROVE  /\ tickslock' = d <=> cpc'[d] = "tick" \/ (cpc'[d] = "run" /\ at'[proc'[d]] \in Ticking)
             /\ cpc'[d] = "run" /\ at'[proc'[d]] = "sleep" => ticks' < until'[proc'[d]]
  <2>1. at'[proc'[d]] = at[proc[d]] /\ until'[proc'[d]] = until[proc[d]] /\ ticks' = ticks
    BY <1>1, Zenon
  <2>2. /\ tickslock' = d <=> cpc'[d] = "tick" \/ (cpc'[d] = "run" /\ at[proc[d]] \in Ticking)
        /\ cpc'[d] = "run" /\ at[proc[d]] = "sleep" => ticks < until[proc[d]]
    BY <1>1, <1>2, <1>3, <1>4, Zenon
  <2>. QED
    BY <2>1, <2>2, Zenon
<1>. QED
  BY <1>4, Zenon DEF TickHeld

(* A process outside the loop of sys_sleep() that goes on running, dies or *)
(* waits for its children leaves the sleepers as they are.                 *)
ClockKept(c, p) ==
  /\ p = proc[c] /\ cpc[c] \in {"run", "trap", "resume"} /\ cpc'[c] \in {"run", "sched"}
  /\ \A d \in CPUs \ {c} : cpc'[d] = cpc[d] /\ proc[d] # p
  /\ at[p] \notin Ticking /\ ctx'[p] # "sleep" /\ \A q \in Slots \ {p} : ctx'[q] = ctx[q]
  /\ UNCHANGED <<at, until, proc, tickslock, ticks>>
  /\ \A q \in Slots : state'[q] = "SLEEPING" => \/ state[q] = "SLEEPING" /\ chan'[q] = chan[q]
                                                \/ q = p /\ chan'[q] = q

(* A step that keeps off the clock leaves the sleepers as they were.       *)
LEMMA ClockFrame ==
  ASSUME SleepInv, NEW c \in CPUs, NEW p \in Slots, ClockKept(c, p)
  PROVE  SleepInv'
<1>1. TickHeld'
  <2>1. tickslock # c
    BY Zenon DEF SleepInv, TickHeld, ClockKept
  <2>2. TickKept(c)
    BY <2>1, Zenon DEF TickKept, ClockKept
  <2>. QED
    BY <2>2, TickFrame, Zenon DEF SleepInv
<1>2. \A q \in Slots \ {p} : OnClock(q) => OnClock(q)'
  <2>1. proc' = proc /\ \A d \in CPUs : proc[d] # p => cpc'[d] = cpc[d]
    BY Zenon DEF ClockKept
  <2>. QED
    BY <2>1, Zenon DEF OnClock
<1>3. Sleepers'
  <2>1. SUFFICES ASSUME NEW q \in Slots
                 PROVE  /\ at'[q] = "sleep_test" => OnClock(q)'
                        /\ at'[q] = "sleep" =>
                             \/ OnClock(q)'
                             \/ /\ ctx'[q] = "sleep"
                                /\ \A d \in CPUs : proc'[d] = q => cpc'[d] \in {"sched", "resume"}
                        /\ ctx'[q] = "sleep" => at'[q] = "sleep"
                        /\ state'[q] = "SLEEPING" => chan'[q] \in {q, Ticks}
    BY Zenon DEF Sleepers
  <2>2. state'[q] = "SLEEPING" => chan'[q] \in {q, Ticks}
    BY Zenon DEF SleepInv, Sleepers, ClockKept
  <2>3. CASE q = p
    BY <2>2, <2>3, Zenon DEF Ticking, ClockKept
  <2>4. CASE q # p
    <3>1. /\ ctx'[q] = ctx[q] /\ at'[q] = at[q] /\ proc' = proc
          /\ \A d \in CPUs : proc[d] = q => cpc'[d] = cpc[d]
      BY <2>4, Zenon DEF ClockKept
    <3>. QED
      BY <1>2, <2>2, <2>4, <3>1, Zenon DEF SleepInv, Sleepers
  <2>. QED
    BY <2>3, <2>4, Zenon
<1>4. NotDue'
  <2>1. p # Ticks
    BY SlotFacts, Zenon
  <2>2. (\A d \in CPUs : cpc'[d] # "tick") => \A d \in CPUs : cpc[d] # "tick"
    BY Zenon DEF ClockKept
  <2>3. \A q \in Slots : state'[q] = "SLEEPING" /\ chan'[q] = Ticks => state[q] = "SLEEPING" /\ chan[q] = Ticks
    BY <2>1, Zenon DEF ClockKept
  <2>4. ticks' = ticks /\ until' = until
    BY Zenon DEF ClockKept
  <2>. QED
    BY <2>2, <2>3, <2>4, Zenon DEF SleepInv, NotDue
<1>. QED
  BY <1>1, <1>3, <1>4, Zenon DEF SleepInv

(* exit(): children pass to init, the parent is woken, and init if it got  *)
(* a zombie.                                                               *)
LEMMA ExitStep ==
  ASSUME TableInv, NEW c \in CPUs, exit(c)
  PROVE  TableInv'
<1>. USE DEF TableInv
<1>1. PICK p \in Slots : /\ p = proc[c] /\ cpc[c] \in {"run", "trap"} /\ at[p] = "user"
                         /\ state[p] = "RUNNING"
  BY Current, Zenon DEF exit, Running, OnCPU, CpuInv
<1>2. CASE p = initproc
  <2>1. UNCHANGED <<tableVars, codeVars, cpuVars, tickVars>> /\ panicked' \in BOOLEAN
    BY <1>1, <1>2, Zenon DEF exit, tableVars, codeVars, cpuVars, tickVars
  <2>. QED
    BY <2>1, TableFrame, Zenon
<1>3. CASE p # initproc
  <2>. DEFINE w == ExitWakeup(p)
  <2>1. /\ lock = None /\ lock' = c /\ cpc' = [cpc EXCEPT ![c] = "sched"]
        /\ ctx' = [ctx EXCEPT ![p] = "forkret"]
        /\ state' = [w EXCEPT ![p] = "ZOMBIE"] /\ parent' = Reparent(p)
        /\ UNCHANGED <<pid, chan, killed, kstack, nextpid, at, np, until, proc, scan, tickVars, panicked>>
    BY <1>1, <1>3, Zenon DEF exit, EnterSched
  <2>2. /\ w \in [Slots -> States]
        /\ \A q \in Slots : \/ w[q] = state[q]
                            \/ state[q] = "SLEEPING" /\ w[q] = "RUNNABLE"
        /\ \A q \in Slots : w[q] = "SLEEPING" =>
             state[q] = "SLEEPING" /\ chan[q] # parent[p] /\ (Zombies(p) # {} => chan[q] # initproc)
    <3>1. state \in [Slots -> States]
      BY Zenon DEF TypeOK
    <3>2. CASE Zombies(p) = {}
      BY <3>1, <3>2, Wakeup1 DEF ExitWakeup
    <3>3. CASE Zombies(p) # {}
      <4>. DEFINE v == wakeup1(state, parent[p])
      <4>1. /\ v \in [Slots -> States]
            /\ \A q \in Slots : \/ v[q] = state[q]
                                \/ state[q] = "SLEEPING" /\ v[q] = "RUNNABLE"
            /\ \A q \in Slots : v[q] = "SLEEPING" => state[q] = "SLEEPING" /\ chan[q] # parent[p]
        BY <3>1, Wakeup1
      <4>2. w = wakeup1(v, initproc)
        BY <3>3, Zenon DEF ExitWakeup
      <4>. HIDE DEF v, w
      <4>3. /\ w \in [Slots -> States]
            /\ \A q \in Slots : \/ w[q] = v[q]
                                \/ v[q] = "SLEEPING" /\ w[q] = "RUNNABLE"
            /\ \A q \in Slots : w[q] = "SLEEPING" => v[q] = "SLEEPING" /\ chan[q] # initproc
        BY <4>1, <4>2, Wakeup1
      <4>. QED
        BY <4>1, <4>3, Zenon
    <3>. QED
      BY <3>2, <3>3, Zenon
  <2>3. /\ parent' \in [Slots -> 0 .. NPROC]
        /\ \A q \in Slots : parent'[q] = IF parent[q] = p THEN initproc ELSE parent[q]
    BY <2>1, SlotFacts, Zenon DEF TypeOK, Reparent, Children
  <2>. HIDE DEF w
  <2>4. /\ state' \in [Slots -> States] /\ state'[p] = "ZOMBIE"
        /\ \A q \in Slots \ {p} : \/ state'[q] = state[q]
                                  \/ state[q] = "SLEEPING" /\ state'[q] = "RUNNABLE"
        /\ \A q \in Slots : state'[q] = "SLEEPING" =>
             /\ state[q] = "SLEEPING" /\ q # p /\ chan[q] # parent[p]
             /\ Zombies(p) # {} => chan[q] # initproc
    BY <2>1, <2>2, Zenon DEF States
  <2>5. /\ lock = None /\ lock' = c /\ cpc' = [cpc EXCEPT ![c] = "sched"]
        /\ ctx' = [ctx EXCEPT ![p] = "forkret"]
        /\ UNCHANGED <<pid, chan, killed, kstack, nextpid, at, np, until, proc, scan, tickslock, ticks, panicked>>
    BY <2>1, Zenon DEF tickVars
  <2>6. TypeOK'
    BY <1>1, <2>3, <2>4, <2>5, SlotFacts, Zenon DEF TypeOK, CPCs
  <2>7. /\ cpc'[c] = "sched" /\ \A d \in CPUs \ {c} : cpc'[d] = cpc[d]
        /\ ctx'[p] = "forkret" /\ \A q \in Slots \ {p} : ctx'[q] = ctx[q]
        /\ \A d \in CPUs \ {c} : proc[d] # p
    <3>1. \A d \in CPUs \ {c} : proc[d] # p
      BY <1>1, SlotFacts, ZenonT(30) DEF CpuInv
    <3>. QED
      BY <2>5, <3>1, Zenon DEF TypeOK
  <2>8. CpuInv'
    <3>1. \A d \in CPUs : cpc[d] \notin Locking
      BY <2>5, SlotFacts, Zenon DEF CpuInv
    <3>2. LeavesCpu(c, p)
      BY <1>1, <2>4, <2>5, <2>7, <3>1, Zenon DEF LeavesCpu, OnCPU
    <3>. QED
      BY <3>2, LeaveFrame, Zenon
  <2>9. ForkInv'
    <3>1. \A q \in Slots : at[q] \in Forking => np[q] \in Slots /\ state'[np[q]] = "EMBRYO"
      <4>1. ASSUME NEW q \in Slots, at[q] \in Forking
            PROVE  np[q] \in Slots /\ state'[np[q]] = "EMBRYO"
        <5>1. np[q] \in Slots /\ state[np[q]] = "EMBRYO"
          BY <4>1, Zenon DEF ForkInv
        <5>2. np[q] # p
          BY <1>1, <5>1, Zenon
        <5>. QED
          BY <2>4, <5>1, <5>2, Zenon
      <4>. QED
        BY <4>1, Zenon
    <3>2. \A q \in Slots : at[q] # "user" => state'[q] \in Live
      BY <1>1, <2>4, ZenonT(30) DEF ForkInv, Live
    <3>3. \A q \in Slots : state'[q] \in Live \cup {"ZOMBIE"} => state[q] \in Live \cup {"ZOMBIE"}
      BY <1>1, <2>4, Zenon DEF Live
    <3>. QED
      BY <2>5, <3>1, <3>2, <3>3, Zenon DEF ForkInv
  <2>10. FamilyInv'
    <3>1. \A q \in Slots : state[q] = "EMBRYO" \/ state[q] = "UNUSED" => parent[q] # p
      BY <1>1, SlotFacts, Zenon DEF FamilyInv
    <3>2. \A q \in Slots : at[q] \in Forking =>
            np[q] \in Slots /\ state[np[q]] = "EMBRYO" /\ parent'[np[q]] = parent[np[q]]
      BY <2>3, <3>1, Zenon DEF ForkInv
    <3>3. \A q \in Slots : parent'[q] # q
      BY <1>1, <2>3, SlotFacts DEF FamilyInv
    <3>4. state'[initproc] \in Live /\ parent'[initproc] = 0
      BY <1>1, <1>3, <2>3, <2>4, SlotFacts, Zenon DEF FamilyInv, Live
    <3>5. \A q \in Slots : state'[q] \in {"UNUSED", "EMBRYO"} => state'[q] = state[q] /\ parent'[q] = parent[q]
      BY <2>3, <2>4, <3>1, Zenon
    <3>6. \A q \in Slots : /\ at[q] \in {"fork_kstack", "fork_copy"} => parent'[np[q]] = 0
                           /\ at[q] = "fork_run" => parent'[np[q]] = q
      BY <3>2, Zenon DEF FamilyInv, Forking
    <3>. QED
      BY <2>5, <3>3, <3>4, <3>5, <3>6 DEF FamilyInv
  <2>11. SleepInv'
    <3>1. at[p] \notin Ticking /\ ctx'[p] # "sleep"
      BY <1>1, <2>7, Zenon DEF Ticking
    <3>2. \A q \in Slots : state'[q] = "SLEEPING" => state[q] = "SLEEPING" /\ chan'[q] = chan[q]
      BY <2>4, <2>5, Zenon
    <3>3. ClockKept(c, p)
      BY <1>1, <2>5, <2>7, <3>1, <3>2, Zenon DEF ClockKept
    <3>. QED
      BY <3>3, ClockFrame, Zenon
  <2>12. WaitNotLate'
    <3>1. SUFFICES ASSUME NEW q \in Slots, state'[q] = "SLEEPING", chan'[q] = q
                   PROVE  /\ \E s \in Slots : parent'[s] = q
                          /\ \A s \in Slots : parent'[s] = q => state'[s] # "ZOMBIE"
      BY Zenon DEF WaitNotLate
    <3>2. /\ state[q] = "SLEEPING" /\ q # p /\ q # parent[p] /\ (q = initproc => Zombies(p) = {})
          /\ chan[q] = q
      BY <2>4, <2>5, <3>1, Zenon
    <3>3. PICK s \in Slots : parent[s] = q
      BY <3>2, Zenon DEF WaitNotLate
    <3>4. parent'[s] = q
      BY <2>3, <3>2, <3>3, Zenon
    <3>5. ASSUME NEW t \in Slots, parent'[t] = q
          PROVE  state'[t] # "ZOMBIE"
      <4>1. CASE parent[t] = p
        <5>1. q = initproc /\ state[t] # "ZOMBIE"
          BY <2>3, <3>2, <3>5, <4>1, Zenon DEF Zombies, Children
        <5>. QED
          BY <1>1, <2>4, <4>1, <5>1 DEF FamilyInv
      <4>2. CASE parent[t] # p
        <5>1. parent[t] = q /\ t # p
          BY <2>3, <3>2, <3>5, <4>2, Zenon
        <5>2. state[t] # "ZOMBIE"
          BY <3>2, <5>1, Zenon DEF WaitNotLate
        <5>. QED
          BY <2>4, <5>1, <5>2, Zenon
      <4>. QED
        BY <4>1, <4>2, Zenon
    <3>. QED
      BY <3>4, <3>5, Zenon
  <2>13. ParentAlive'
    <3>1. \A q \in Slots \ {initproc} : state'[q] \notin {"UNUSED", "EMBRYO"} =>
            /\ parent[q] # 0 /\ parent[q] \in Slots
            /\ state[parent[q]] \notin {"UNUSED", "EMBRYO", "ZOMBIE"}
      BY <1>1, <2>4, Relatives, Zenon DEF ParentAlive
    <3>2. state'[initproc] \in Live
      BY <1>3, <2>4, SlotFacts, Zenon DEF FamilyInv, Live
    <3>. QED
      BY <2>3, <2>4, <3>1, <3>2, SlotFacts DEF ParentAlive, Live
  <2>. QED
    BY <2>6, <2>8, <2>9, <2>10, <2>11, <2>12, <2>13, Zenon
<1>. QED
  BY <1>2, <1>3, Zenon

-----------------------------------------------------------------------------
(* wait(): a zombie is reaped, or there is nothing to wait for, or the     *)
(* process sleeps.                                                         *)
LEMMA WaitStep ==
  ASSUME TableInv, NEW c \in CPUs, wait(c)
  PROVE  TableInv'
<1>. USE DEF TableInv
<1>1. PICK p \in Slots : /\ p = proc[c] /\ cpc[c] \in {"run", "resume"} /\ state[p] = "RUNNING"
                         /\ lock \in {None, c} /\ at[p] \notin Ticking
  <2>1. cpc[c] \in {"run", "resume"}
    BY Zenon DEF wait, Enters, Running
  <2>2. proc[c] \in Slots /\ state[proc[c]] = "RUNNING"
    BY <2>1, Current, Zenon DEF OnCPU, CpuInv
  <2>3. lock \in {None, c}
    BY Zenon DEF wait, CpuInv, Locking
  <2>4. at[proc[c]] \notin Ticking
    <3>1. CASE cpc[c] = "run"
      BY <3>1, Zenon DEF wait, Enters, Running, Ticking
    <3>2. CASE cpc[c] = "resume"
      <4>1. ctx[proc[c]] = "wait"
        BY <3>2, Zenon DEF wait, Enters, Running
      <4>2. ~OnClock(proc[c])
        BY <2>2, <3>2, SlotFacts, Zenon DEF OnClock, CpuInv
      <4>. QED
        BY <2>2, <4>1, <4>2, Zenon DEF SleepInv, Sleepers, Ticking
    <3>. QED
      BY <2>1, <3>1, <3>2, Zenon
  <2>. QED
    BY <2>1, <2>2, <2>3, <2>4, Zenon
<1>2. \A d \in CPUs : d # c => proc[d] # p /\ cpc[d] \notin Locking
  BY <1>1, SlotFacts, ZenonT(30) DEF CpuInv
<1>3. ASSUME Zombies(p) # {} \/ Children(p) = {} \/ killed[p]
      PROVE  /\ lock' = None /\ cpc' = [cpc EXCEPT ![c] = "run"]
             /\ ctx' = [ctx EXCEPT ![p] = "yield"] /\ chan' = [chan EXCEPT ![p] = 0]
             /\ UNCHANGED <<nextpid, at, np, until, proc, scan, tickslock, ticks, panicked>>
  BY <1>1, <1>3, Zenon DEF wait, tickVars
(* The CPU and the sleepers when wait() returns.                           *)
<1>4. ASSUME Zombies(p) # {} \/ Children(p) = {} \/ killed[p],
             \A q \in Slots : state'[q] \in Live => state'[q] = state[q],
             \A q \in Slots : state[q] \in Live => state'[q] = state[q]
      PROVE  CpuInv' /\ SleepInv'
  <2>1. /\ cpc'[c] = "run" /\ \A d \in CPUs \ {c} : cpc'[d] = cpc[d]
        /\ ctx'[p] = "yield" /\ chan'[p] = 0
        /\ \A q \in Slots \ {p} : ctx'[q] = ctx[q] /\ chan'[q] = chan[q]
    BY <1>3, <1>4 DEF TypeOK
  <2>2. lock' = None /\ UNCHANGED <<at, until, proc, tickslock, ticks>>
    BY <1>3, <1>4, Zenon
  <2>3. CpuInv'
    <3>1. \A d \in CPUs : proc[d] # 0 => state'[proc[d]] = "RUNNING" /\ state[proc[d]] = "RUNNING"
      BY <1>1, <1>2, <1>4, Currents DEF CpuInv, Locking, Live
    <3>2. \A d \in CPUs : cpc'[d] \notin Locking
      BY <1>2, <2>1, Zenon DEF Locking
    <3>3. \A d \in CPUs : /\ cpc'[d] \in {"scheduler", "scan"} => proc[d] = 0
                          /\ cpc'[d] \in OnCPU => proc[d] # 0
      BY <1>1, <2>1, SlotFacts, ZenonT(30) DEF CpuInv, OnCPU
    <3>. QED
      BY <2>2, <3>1, <3>2, <3>3, SlotFacts, Zenon DEF CpuInv, Locking
  <2>4. \A q \in Slots : state'[q] = "SLEEPING" => state[q] = "SLEEPING" /\ chan'[q] = chan[q]
    BY <1>1, <1>4, <2>1, Zenon DEF Live
  <2>5. SleepInv'
    <3>1. ClockKept(c, p)
      BY <1>1, <1>2, <2>1, <2>2, <2>4, Zenon DEF ClockKept
    <3>. QED
      BY <3>1, ClockFrame, Zenon
  <2>. QED
    BY <2>3, <2>5, Zenon
<1>5. CASE Zombies(p) # {}
  <2>2. PICK z \in Zombies(p) :
          /\ kstack' = [kstack EXCEPT ![z] = FALSE] /\ state' = [state EXCEPT ![z] = "UNUSED"]
          /\ pid' = [pid EXCEPT ![z] = 0] /\ parent' = [parent EXCEPT ![z] = 0]
          /\ killed' = [killed EXCEPT ![z] = FALSE]
    BY <1>1, <1>5, Zenon DEF wait, First
  <2>1. z \in Slots /\ state[z] = "ZOMBIE" /\ parent[z] = p
    BY ZenonT(30) DEF Zombies, Children
  <2>3. TypeOK'
    BY <1>1, <1>3, <1>5, <2>1, <2>2, SlotFacts, ProcConstants DEF TypeOK, States, CPCs, ProcConstants
  <2>4. /\ kstack'[z] = FALSE /\ \A q \in Slots \ {z} : kstack'[q] = kstack[q]
        /\ state'[z] = "UNUSED" /\ \A q \in Slots \ {z} : state'[q] = state[q]
        /\ parent'[z] = 0 /\ \A q \in Slots \ {z} : parent'[q] = parent[q]
    BY <2>1, <2>2, Zenon DEF TypeOK
  <2>5. UNCHANGED <<at, np>> /\ chan'[p] = 0 /\ \A q \in Slots \ {p} : chan'[q] = chan[q]
    BY <1>3, <1>5, Zenon DEF TypeOK
  <2>6. CpuInv' /\ SleepInv'
    BY <1>4, <1>5, <2>1, <2>4, Zenon DEF Live
  <2>7. \A q \in Slots : at[q] \in Forking => np[q] \in Slots \ {z}
    BY <2>1, ZenonT(30) DEF ForkInv
  <2>8. ForkInv'
    BY <2>1, <2>4, <2>5, <2>7 DEF ForkInv, Live, Forking
  <2>9. FamilyInv'
    <3>1. state'[initproc] \in Live /\ parent'[initproc] = 0
      BY <2>1, <2>4, SlotFacts, ZenonT(30) DEF FamilyInv, Live
    <3>2. \A q \in Slots : /\ at[q] \in {"fork_kstack", "fork_copy"} => parent'[np[q]] = 0
                           /\ at[q] = "fork_run" => parent'[np[q]] = q
      <4>1. \A q \in Slots : at[q] \in Forking => parent'[np[q]] = parent[np[q]]
        BY <2>4, <2>7, Zenon
      <4>. QED
        BY <4>1, Zenon DEF FamilyInv, Forking
    <3>3. \A q \in Slots : /\ state'[q] = "UNUSED" => parent'[q] = 0
                           /\ state'[q] = "EMBRYO" /\ parent'[q] # 0 => at[parent'[q]] = "fork_run" /\ np[parent'[q]] = q
                           /\ parent'[q] # q
      <4>1. ASSUME NEW q \in Slots, q # z
            PROVE  /\ state'[q] = "UNUSED" => parent'[q] = 0
                   /\ state'[q] = "EMBRYO" /\ parent'[q] # 0 => at[parent'[q]] = "fork_run" /\ np[parent'[q]] = q
                   /\ parent'[q] # q
        <5>1. state'[q] = state[q] /\ parent'[q] = parent[q]
          BY <2>4, <4>1, Zenon
        <5>. QED
          BY <5>1, Zenon DEF FamilyInv
      <4>2. z # 0
        BY <2>1, SlotFacts, Zenon
      <4>. QED
        BY <2>4, <4>1, <4>2, Zenon
    <3>. QED
      BY <2>5, <3>1, <3>2, <3>3, Zenon DEF FamilyInv
  <2>10. WaitNotLate'
    <3>1. SUFFICES ASSUME NEW q \in Slots, state'[q] = "SLEEPING", chan'[q] = q
                   PROVE  /\ \E s \in Slots : parent'[s] = q
                          /\ \A s \in Slots : parent'[s] = q => state'[s] # "ZOMBIE"
      BY Zenon DEF WaitNotLate
    <3>2. q # z /\ q # p /\ q # 0
      <4>1. q # 0
        BY SlotFacts, Zenon
      <4>2. q # z
        BY <2>4, <3>1, Zenon
      <4>. QED
        BY <2>5, <3>1, <4>1, <4>2, Zenon
    <3>3. state[q] = "SLEEPING" /\ chan[q] = q
      BY <2>4, <2>5, <3>1, <3>2, Zenon
    <3>4. PICK s \in Slots : parent[s] = q
      BY <3>3, Zenon DEF WaitNotLate
    <3>5. parent'[s] = q
      BY <2>1, <2>4, <3>2, <3>4, Zenon
    <3>6. ASSUME NEW t \in Slots, parent'[t] = q PROVE state'[t] # "ZOMBIE"
      <4>1. t # z /\ parent[t] = q
        BY <2>4, <3>2, <3>6, Zenon
      <4>. QED
        BY <2>4, <3>3, <4>1, Zenon DEF WaitNotLate
    <3>. QED
      BY <3>5, <3>6, Zenon
  <2>11. ParentAlive'
    <3>1. \A q \in Slots \ {initproc} : state'[q] \notin {"UNUSED", "EMBRYO"} =>
            /\ q # z /\ parent[q] # 0 /\ parent[q] \in Slots \ {z}
            /\ state[parent[q]] \notin {"UNUSED", "EMBRYO", "ZOMBIE"}
      BY <2>1, <2>4, Relatives, Zenon DEF ParentAlive
    <3>2. ASSUME NEW q \in Slots \ {initproc}, state'[q] \notin {"UNUSED", "EMBRYO"}
          PROVE  parent'[q] # 0 /\ state'[parent'[q]] \notin {"UNUSED", "EMBRYO", "ZOMBIE"}
      <4>1. parent'[q] = parent[q] /\ state'[parent[q]] = state[parent[q]]
        BY <2>4, <3>1, <3>2, Zenon
      <4>. QED
        BY <3>1, <3>2, <4>1, Zenon
    <3>. QED
      BY <3>2, Zenon DEF ParentAlive
  <2>. QED
    BY <2>3, <2>6, <2>8, <2>9, <2>10, <2>11, Zenon
<1>6. CASE Zombies(p) = {} /\ (Children(p) = {} \/ killed[p])
  <2>1. UNCHANGED <<kstack, state, pid, parent, killed>>
    BY <1>1, <1>6, ZenonT(30) DEF wait
  <2>2. TypeOK'
    BY <1>1, <1>3, <1>6, <2>1, SlotFacts DEF TypeOK, CPCs
  <2>3. CpuInv' /\ SleepInv'
    BY <1>4, <1>6, <2>1, Zenon
  <2>4. UNCHANGED <<at, np>> /\ \A q \in Slots : q # p => chan'[q] = chan[q]
    BY <1>3, <1>6, Zenon DEF TypeOK
  <2>5. ForkInv' /\ FamilyInv' /\ WaitNotLate' /\ ParentAlive'
    BY <1>1, <2>1, <2>4, FamilyFrame, Zenon
  <2>. QED
    BY <2>2, <2>3, <2>5, Zenon
<1>7. CASE Zombies(p) = {} /\ Children(p) # {} /\ ~killed[p]
  <2>1. /\ chan' = [chan EXCEPT ![p] = p] /\ state' = [state EXCEPT ![p] = "SLEEPING"]
        /\ lock' = c /\ cpc' = [cpc EXCEPT ![c] = "sched"] /\ ctx' = [ctx EXCEPT ![p] = "wait"]
    BY <1>1, <1>7, Zenon DEF wait, EnterSched
  <2>2. UNCHANGED <<kstack, pid, parent, killed, nextpid, at, np, until, proc, scan, tickslock, ticks, panicked>>
    BY <1>1, <1>7, Zenon DEF wait, tickVars
  <2>3. TypeOK'
    BY <1>1, <2>1, <2>2, SlotFacts, Zenon DEF TypeOK, States, CPCs
  <2>4. /\ chan'[p] = p /\ \A q \in Slots \ {p} : chan'[q] = chan[q]
        /\ state'[p] = "SLEEPING" /\ \A q \in Slots \ {p} : state'[q] = state[q]
        /\ ctx'[p] = "wait" /\ \A q \in Slots \ {p} : ctx'[q] = ctx[q]
        /\ cpc'[c] = "sched" /\ \A d \in CPUs \ {c} : cpc'[d] = cpc[d]
    BY <1>1, <2>1, Zenon DEF TypeOK
  <2>5. CpuInv'
    <3>1. LeavesCpu(c, p)
      BY <1>1, <1>2, <2>1, <2>2, <2>4, Zenon DEF LeavesCpu, OnCPU
    <3>. QED
      BY <3>1, LeaveFrame, Zenon
  <2>6. ForkInv' /\ FamilyInv' /\ ParentAlive'
    <3>1. \A q \in Slots : state'[q] = state[q] \/ (state[q] \in Live /\ state'[q] \in Live)
      BY <1>1, <2>4, ZenonT(30) DEF Live
    <3>. QED
      BY <2>2, <3>1, KinFrame, Zenon
  <2>8. SleepInv'
    <3>1. ClockKept(c, p)
      BY <1>1, <1>2, <2>2, <2>4, Zenon DEF ClockKept
    <3>. QED
      BY <3>1, ClockFrame, Zenon
  <2>9. WaitNotLate'
    <3>1. /\ \E q \in Slots : parent[q] = p
          /\ \A q \in Slots : parent[q] = p => state[q] # "ZOMBIE"
      BY <1>7, Zenon DEF Zombies, Children
    <3>. QED
      BY <2>2, <2>4, <3>1, ZenonT(30) DEF WaitNotLate
  <2>. QED
    BY <2>3, <2>5, <2>6, <2>8, <2>9, Zenon
<1>. QED
  BY <1>5, <1>6, <1>7, Zenon

-----------------------------------------------------------------------------
(* sys_sleep() and the clock.                                              *)

(* A process that is not in the run point of its CPU holds no tickslock.   *)
LEMMA OffClock ==
  ASSUME TableInv, NEW c \in CPUs, proc[c] \in Slots, cpc[c] \in {"trap", "tick"}
  PROVE  at[proc[c]] \notin Ticking
<1>1. ~OnClock(proc[c])
  BY SlotFacts, Zenon DEF TableInv, OnClock, CpuInv
<1>. QED
  BY <1>1, Zenon DEF TableInv, SleepInv, Sleepers, Ticking

(* The steps of a system call that change only where the process is, its   *)
(* deadline and tickslock.                                                 *)
LEMMA CallStep ==
  ASSUME TableInv, NEW c \in CPUs, NEW p \in Slots, p = proc[c], cpc[c] = "run",
         NEW a \in Points \ Forking, NEW u \in 0 .. MAXTICKS,
         at[p] \notin Forking, at' = [at EXCEPT ![p] = a], until' = [until EXCEPT ![p] = u],
         tickslock' \in CPUs \cup {None}, tickslock' = c <=> a \in Ticking,
         \A d \in CPUs \ {c} : tickslock' = d <=> tickslock = d,
         a = "sleep" => ticks < u, ctx[p] # "sleep",
         UNCHANGED <<tableVars, ctx, np, cpuVars, ticks, panicked>>
  PROVE  TableInv'
<1>. USE DEF TableInv
<1>1. /\ state[p] = "RUNNING" /\ \A d \in CPUs \ {c} : proc[d] # p
      /\ UNCHANGED <<state, pid, parent, chan, killed, kstack, nextpid, lock, proc, cpc, scan>>
  BY SlotFacts, Zenon DEF CpuInv, tableVars, cpuVars
<1>2. TypeOK'
  BY <1>1, Zenon DEF TypeOK
<1>3. CpuInv'
  BY <1>1, CpuFrame, Zenon
<1>4. /\ at'[p] = a /\ \A q \in Slots \ {p} : at'[q] = at[q]
      /\ until'[p] = u /\ \A q \in Slots \ {p} : until'[q] = until[q]
  BY Zenon DEF TypeOK
<1>5. ForkInv'
  <2>1. \A q \in Slots : at'[q] \in Forking => q # p /\ at'[q] = at[q]
    BY <1>4, ZenonT(30)
  <2>2. \A q \in Slots : at'[q] \in {"fork_copy", "fork_run"} => at[q] = at'[q]
    BY <2>1, Zenon DEF Forking
  <2>3. \A q \in Slots : at'[q] # "user" => state[q] \in Live
    <3>1. state[p] \in Live
      BY <1>1, Zenon DEF Live
    <3>. QED
      BY <1>4, <3>1, ZenonT(30) DEF ForkInv
  <2>. QED
    BY <1>1, <2>1, <2>2, <2>3, ZenonT(30) DEF ForkInv
<1>6. FamilyInv'
  <2>1. \A q \in Slots : at'[q] \in Forking => at'[q] = at[q]
    BY <1>4, Zenon
  <2>2. \A q \in Slots : at'[q] \in {"fork_kstack", "fork_copy", "fork_run"} => at[q] = at'[q]
    BY <2>1, Zenon DEF Forking
  <2>3. \A q \in Slots : at[q] = "fork_run" => at'[q] = "fork_run"
    BY <1>4, Zenon DEF Forking
  <2>4. \A q \in Slots : parent[q] # 0 => parent[q] \in Slots
    BY Relatives, Zenon
  <2>5. ASSUME NEW q \in Slots
        PROVE  /\ at'[q] \in {"fork_kstack", "fork_copy"} => parent[np[q]] = 0
               /\ at'[q] = "fork_run" => parent[np[q]] = q
    BY <2>2, ZenonT(30) DEF FamilyInv
  <2>6. ASSUME NEW q \in Slots, state[q] = "EMBRYO", parent[q] # 0
        PROVE  at'[parent[q]] = "fork_run" /\ np[parent[q]] = q
    BY <2>3, <2>4, <2>6, Zenon DEF FamilyInv
  <2>7. state' = state /\ parent' = parent /\ np' = np
    BY <1>1, Zenon
  <2>8. ASSUME NEW q \in Slots
        PROVE  /\ at'[q] \in {"fork_kstack", "fork_copy"} => parent'[np'[q]] = 0
               /\ at'[q] = "fork_run" => parent'[np'[q]] = q
               /\ state'[q] = "UNUSED" => parent'[q] = 0
               /\ state'[q] = "EMBRYO" /\ parent'[q] # 0 =>
                    at'[parent'[q]] = "fork_run" /\ np'[parent'[q]] = q
               /\ parent'[q] # q
    <3>1. /\ state'[q] = state[q] /\ parent'[q] = parent[q] /\ parent'[np'[q]] = parent[np[q]]
          /\ np'[parent'[q]] = np[parent[q]] /\ at'[parent'[q]] = at'[parent[q]]
      BY <2>7, Zenon
    <3>2. (state[q] = "UNUSED" => parent[q] = 0) /\ parent[q] # q
      BY <2>8, Zenon DEF FamilyInv
    <3>. QED
      BY <2>5, <2>6, <2>8, <3>1, <3>2, Zenon
  <2>9. state'[initproc] \in Live /\ parent'[initproc] = 0
    BY <2>7, Zenon DEF FamilyInv
  <2>. QED
    BY <2>8, <2>9, Zenon DEF FamilyInv
<1>7. TickHeld'
  <2>1. \A d \in CPUs : cpc[d] = "run" => proc[d] \in Slots
    BY Currents, ZenonT(30) DEF OnCPU
  <2>. QED
    BY <1>1, <1>4, <2>1 DEF SleepInv, TickHeld, Ticking
<1>8. Sleepers'
  <2>1. OnClock(p)'
    BY <1>1, Zenon DEF OnClock
  <2>2. \A q \in Slots : OnClock(q) => OnClock(q)'
    BY <1>1, Zenon DEF OnClock
  <2>. QED
    BY <1>1, <1>4, <2>1, <2>2 DEF SleepInv, Sleepers
<1>9. NotDue'
  BY <1>1, <1>4, Zenon DEF SleepInv, NotDue
<1>10. WaitNotLate' /\ ParentAlive'
  BY <1>1, Zenon DEF WaitNotLate, ParentAlive
<1>. QED
  BY <1>2, <1>3, <1>5, <1>6, <1>7, <1>8, <1>9, <1>10, Zenon DEF SleepInv

(* sys_sleep() takes tickslock and computes the tick to wait for.          *)
LEMMA SysSleepStep ==
  ASSUME TableInv, NEW c \in CPUs, NEW k \in 0 .. MAXTICKS - ticks, sys_sleep(c, k)
  PROVE  TableInv'
<1>1. PICK p \in Slots : p = proc[c] /\ cpc[c] = "run" /\ at[p] = "user"
  BY Current, Zenon DEF TableInv, sys_sleep, Enters, Running, OnCPU
<1>2. PICK a \in Points \ Forking : a = "sleep_test"
  BY Zenon DEF Points, Forking
<1>3. PICK u \in 0 .. MAXTICKS : u = ticks + k
  BY ProcConstants DEF ProcConstants, TableInv, TypeOK
<1>4. ctx[p] # "sleep"
  BY <1>1, Zenon DEF TableInv, SleepInv, Sleepers
<1>5. /\ tickslock = None /\ tickslock' = c
      /\ at' = [at EXCEPT ![p] = a] /\ until' = [until EXCEPT ![p] = u]
      /\ UNCHANGED <<tableVars, ctx, np, cpuVars, ticks, panicked>>
  BY <1>1, <1>2, <1>3, Zenon DEF sys_sleep
<1>. QED
  BY <1>1, <1>2, <1>4, <1>5, SlotFacts, CallStep, ZenonT(30) DEF Ticking, Forking

(* The loop of sys_sleep() returns, when the tick has come or the process  *)
(* is killed, or goes on to sleep().                                       *)
LEMMA SleepTestStep ==
  ASSUME TableInv, NEW c \in CPUs, sleep_test(c)
  PROVE  TableInv'
<1>1. PICK p \in Slots : p = proc[c] /\ cpc[c] = "run" /\ at[p] = "sleep_test"
  BY Current, Zenon DEF TableInv, sleep_test, Running, OnCPU
<1>2. ctx[p] # "sleep" /\ tickslock = c
  BY <1>1, Zenon DEF TableInv, SleepInv, Sleepers, TickHeld, Ticking
<1>3. at \in [Slots -> Points] /\ until \in [Slots -> 0 .. MAXTICKS] /\ ticks \in 0 .. MAXTICKS
  BY Zenon DEF TableInv, TypeOK
<1>4. CASE ticks >= until[p] \/ killed[p]
  <2>1. PICK a \in Points \ Forking : a = "user"
    BY Zenon DEF Points, Forking
  <2>2. PICK u \in 0 .. MAXTICKS : u = 0
    BY ProcConstants DEF ProcConstants
  <2>3. at' = [at EXCEPT ![p] = a]
    BY <1>1, <1>4, <2>1, Zenon DEF sleep_test
  <2>4. at'[p] = "user"
    BY <1>3, <2>1, <2>3, Zenon
  <2>5. /\ until' = [until EXCEPT ![p] = u] /\ tickslock' = None
        /\ UNCHANGED <<tableVars, ctx, np, cpuVars, ticks, panicked>>
    BY <1>1, <2>2, <2>4, Zenon DEF sleep_test
  <2>. QED
    <3>1. /\ tickslock' \in CPUs \cup {None} /\ tickslock' # c
          /\ \A d \in CPUs \ {c} : tickslock' = d <=> tickslock = d
      BY <1>2, <2>5, SlotFacts, Zenon
    <3>2. at[p] \notin Forking /\ a \notin Ticking /\ a # "sleep"
      BY <1>1, <2>1, Zenon DEF Ticking, Forking
    <3>. QED
      BY <1>1, <1>2, <2>3, <2>5, <3>1, <3>2, CallStep, Zenon
<1>5. CASE ~(ticks >= until[p] \/ killed[p])
  <2>1. PICK a \in Points \ Forking : a = "sleep"
    BY Zenon DEF Points, Forking
  <2>2. PICK u \in 0 .. MAXTICKS : u = until[p]
    BY <1>3, Zenon
  <2>3. at' = [at EXCEPT ![p] = a]
    BY <1>1, <1>5, <2>1, Zenon DEF sleep_test
  <2>4. at'[p] = "sleep"
    BY <1>3, <2>1, <2>3, Zenon
  <2>5. /\ until' = [until EXCEPT ![p] = u] /\ tickslock' = tickslock
        /\ UNCHANGED <<tableVars, ctx, np, cpuVars, ticks, panicked>>
    BY <1>1, <1>3, <2>2, <2>4, Zenon DEF sleep_test
  <2>6. ticks < u
    BY <1>3, <1>5, <2>2
  <2>. QED
    <3>1. at[p] \notin Forking /\ a \in Ticking
      BY <1>1, <2>1, Zenon DEF Ticking, Forking
    <3>. QED
      BY <1>1, <1>2, <2>3, <2>5, <2>6, <3>1, CallStep, Zenon
<1>. QED
  BY <1>4, <1>5, Zenon

(* Woken in sleep(), a process turns interrupts off to get its lock back.  *)
LEMMA SleepPushcliStep ==
  ASSUME TableInv, NEW c \in CPUs, sleep_pushcli(c)
  PROVE  TableInv'
<1>1. PICK p \in Slots : p = proc[c] /\ cpc[c] = "run" /\ at[p] = "sleep_lock"
  BY Current, Zenon DEF TableInv, sleep_pushcli, Running, OnCPU
<1>2. PICK a \in Points \ Forking : a = "sleep_spin"
  BY Zenon DEF Points, Forking
<1>3. PICK u \in 0 .. MAXTICKS : u = until[p]
  BY Zenon DEF TableInv, TypeOK
<1>4. ctx[p] # "sleep" /\ tickslock # c /\ tickslock \in CPUs \cup {None}
  BY <1>1, Zenon DEF TableInv, SleepInv, Sleepers, TickHeld, Ticking, TypeOK
<1>5. until = [until EXCEPT ![p] = u]
  BY <1>3, Zenon DEF TableInv, TypeOK
<1>6. /\ tickslock' = tickslock
      /\ at' = [at EXCEPT ![p] = a] /\ until' = [until EXCEPT ![p] = u]
      /\ UNCHANGED <<tableVars, ctx, np, cpuVars, ticks, panicked>>
  BY <1>1, <1>2, <1>5, Zenon DEF sleep_pushcli, tickVars
<1>. QED
  BY <1>1, <1>2, <1>4, <1>6, CallStep, ZenonT(30) DEF Ticking, Forking

(* It has the lock again and tests its condition once more.                *)
LEMMA SleepLockStep ==
  ASSUME TableInv, NEW c \in CPUs, sleep_lock(c)
  PROVE  TableInv'
<1>1. PICK p \in Slots : p = proc[c] /\ cpc[c] = "run" /\ at[p] = "sleep_spin"
  BY Current, Zenon DEF TableInv, sleep_lock, Running, OnCPU
<1>2. PICK a \in Points \ Forking : a = "sleep_test"
  BY Zenon DEF Points, Forking
<1>3. PICK u \in 0 .. MAXTICKS : u = until[p]
  BY Zenon DEF TableInv, TypeOK
<1>4. ctx[p] # "sleep"
  BY <1>1, Zenon DEF TableInv, SleepInv, Sleepers
<1>5. until = [until EXCEPT ![p] = u]
  BY <1>3, Zenon DEF TableInv, TypeOK
<1>6. /\ tickslock = None /\ tickslock' = c
      /\ at' = [at EXCEPT ![p] = a] /\ until' = [until EXCEPT ![p] = u]
      /\ UNCHANGED <<tableVars, ctx, np, cpuVars, ticks, panicked>>
  BY <1>1, <1>2, <1>5, Zenon DEF sleep_lock
<1>. QED
  BY <1>1, <1>2, <1>4, <1>6, SlotFacts, CallStep, Zenon DEF Ticking, Forking

(* sleep() and yield() give the CPU up: the process p gets the state s,    *)
(* the channel ch and the context x.                                       *)
GivesUp(c, p, s, ch, x) ==
  /\ lock = None /\ lock' = c /\ cpc' = [cpc EXCEPT ![c] = "sched"]
  /\ state' = [state EXCEPT ![p] = s] /\ chan' = [chan EXCEPT ![p] = ch] /\ ctx' = [ctx EXCEPT ![p] = x]
  /\ tickslock' = IF cpc[c] = "run" THEN None ELSE tickslock
  /\ UNCHANGED <<pid, parent, killed, kstack, nextpid, at, np, until, proc, scan, ticks, panicked>>

(* Giving the CPU up keeps the table: the sleeper is not late and no       *)
(* wakeup passed it.                                                       *)
LEMMA GiveUpStep ==
  ASSUME TableInv, NEW c \in CPUs, NEW p \in Slots, p = proc[c],
         NEW s, NEW ch, NEW x, GivesUp(c, p, s, ch, x),
         \/ cpc[c] = "run" /\ at[p] = "sleep" /\ s = "SLEEPING" /\ ch = Ticks /\ x = "sleep"
         \/ cpc[c] = "trap" /\ s = "RUNNABLE" /\ ch = chan[p] /\ x = "yield"
  PROVE  TableInv'
<1>. USE DEF TableInv
<1>1. /\ state[p] = "RUNNING" /\ \A d \in CPUs \ {c} : proc[d] # p
      /\ \A d \in CPUs : cpc[d] \notin Locking
  BY SlotFacts, Zenon DEF GivesUp, CpuInv
<1>2. /\ cpc[c] = "run" => tickslock = c /\ ticks < until[p]
      /\ cpc[c] = "trap" => tickslock # c /\ at[p] \notin Ticking
  BY OffClock, Zenon DEF SleepInv, TickHeld, Ticking
<1>3. s \in States /\ ch \in 0 .. NPROC + 1 /\ x \in {"forkret", "yield", "sleep", "wait"}
  BY SlotFacts DEF TypeOK, States
<1>4. TypeOK'
  BY <1>3, SlotFacts, Zenon DEF GivesUp, TypeOK, CPCs
<1>5. /\ state'[p] = s /\ \A q \in Slots \ {p} : state'[q] = state[q]
      /\ chan'[p] = ch /\ \A q \in Slots \ {p} : chan'[q] = chan[q]
      /\ ctx'[p] = x /\ \A q \in Slots \ {p} : ctx'[q] = ctx[q]
      /\ cpc'[c] = "sched" /\ \A d \in CPUs \ {c} : cpc'[d] = cpc[d]
  BY Zenon DEF GivesUp, TypeOK
<1>6. /\ lock' = c /\ tickslock' = (IF cpc[c] = "run" THEN None ELSE tickslock)
      /\ UNCHANGED <<parent, kstack, at, np, until, proc, ticks>>
  BY Zenon DEF GivesUp
<1>7. CpuInv'
  <2>1. LeavesCpu(c, p)
    BY <1>1, <1>5, <1>6, Zenon DEF LeavesCpu, OnCPU
  <2>. QED
    BY <2>1, LeaveFrame, Zenon
<1>8. ForkInv' /\ FamilyInv' /\ ParentAlive'
  <2>1. \A q \in Slots : state'[q] = state[q] \/ (state[q] \in Live /\ state'[q] \in Live)
    BY <1>1, <1>5, ZenonT(30) DEF Live
  <2>. QED
    BY <1>6, <2>1, KinFrame, Zenon
<1>10. TickHeld'
  <2>1. tickslock' # c /\ \A d \in CPUs \ {c} : tickslock' = d <=> tickslock = d
    BY <1>2, <1>6, SlotFacts, Zenon
  <2>2. TickKept(c)
    BY <1>5, <1>6, <2>1, ZenonT(30) DEF TickKept
  <2>. QED
    BY <2>2, TickFrame, Zenon DEF SleepInv
<1>11. Sleepers'
  <2>1. \A q \in Slots \ {p} : OnClock(q) => OnClock(q)'
    <3>1. proc' = proc /\ \A d \in CPUs : proc[d] # p => cpc'[d] = cpc[d]
      BY <1>5, <1>6, Zenon
    <3>. QED
      BY <3>1, Zenon DEF OnClock
  <2>. QED
    BY <1>1, <1>2, <1>5, <1>6, <2>1 DEF SleepInv, Sleepers, Ticking
<1>12. NotDue'
  <2>1. (\A d \in CPUs : cpc'[d] # "tick") => \A d \in CPUs : cpc[d] # "tick"
    BY <1>5, Zenon
  <2>2. s = "SLEEPING" => ticks < until[p]
    BY <1>2, Zenon
  <2>3. \A q \in Slots \ {p} : state'[q] = state[q] /\ chan'[q] = chan[q]
    BY <1>5, Zenon
  <2>4. state'[p] = s /\ ticks' = ticks /\ until' = until
    BY <1>5, <1>6, ZenonT(30)
  <2>. QED
    BY <2>1, <2>2, <2>3, <2>4, Zenon DEF SleepInv, NotDue
<1>13. WaitNotLate'
  BY <1>1, <1>5, <1>6, SlotFacts DEF WaitNotLate
<1>. QED
  BY <1>4, <1>7, <1>8, <1>10, <1>11, <1>12, <1>13, Zenon DEF SleepInv

(* sleep() on the clock.                                                   *)
LEMMA SleepStep ==
  ASSUME TableInv, NEW c \in CPUs, sleep(c)
  PROVE  TableInv'
<1>1. PICK p \in Slots : p = proc[c] /\ cpc[c] = "run" /\ at[p] = "sleep"
  BY Current, Zenon DEF TableInv, sleep, Running, OnCPU
<1>2. GivesUp(c, p, "SLEEPING", Ticks, "sleep")
  BY <1>1, Zenon DEF GivesUp, sleep, EnterSched
<1>. QED
  BY <1>1, <1>2, GiveUpStep, Zenon

(* yield() at a timer interrupt.                                           *)
LEMMA YieldStep ==
  ASSUME TableInv, NEW c \in CPUs, yield(c)
  PROVE  TableInv'
<1>1. PICK p \in Slots : p = proc[c] /\ cpc[c] = "trap"
  BY Current, Zenon DEF TableInv, yield, OnCPU
<1>2. chan = [chan EXCEPT ![p] = chan[p]]
  BY Zenon DEF TableInv, TypeOK
<1>3. GivesUp(c, p, "RUNNABLE", chan[p], "yield")
  BY <1>1, <1>2, Zenon DEF GivesUp, yield, EnterSched, tickVars
<1>. QED
  BY <1>1, <1>3, GiveUpStep, Zenon

-----------------------------------------------------------------------------
(* The timer interrupt leaves the table alone.                             *)
LEMMA TimerStep ==
  ASSUME TableInv, NEW c \in CPUs, timer(c)
  PROVE  TableInv'
<1>. USE DEF TableInv
<1>1. /\ cpc[c] \in {"run", "scheduler"} /\ tickslock # c
      /\ cpc[c] = "scheduler" => c = BOOTCPU
      /\ cpc[c] = "run" => at[proc[c]] \notin Ticking /\ proc[c] \in Slots
  BY SlotFacts, Current, Zenon DEF timer, SleepInv, TickHeld, OnCPU
<1>2. PICK x : /\ x = (IF c = BOOTCPU THEN "tick" ELSE "trap") /\ cpc' = [cpc EXCEPT ![c] = x]
               /\ x = "tick" => tickslock = None /\ tickslock' = c
               /\ x = "trap" => UNCHANGED <<tickslock, ticks>>
  BY Zenon DEF timer, tickVars
<1>3. UNCHANGED <<state, pid, parent, chan, killed, kstack, nextpid, ctx, at, np, until, lock, proc, scan, panicked>>
  BY Zenon DEF timer, tableVars, codeVars
<1>4. TypeOK'
  <2>1. ticks' \in 0 .. MAXTICKS
    BY ProcConstants DEF ProcConstants, TypeOK, timer, tickVars
  <2>. QED
    BY <1>2, <1>3, <2>1, ZenonT(30) DEF TypeOK, CPCs
<1>5. cpc'[c] = x /\ \A d \in CPUs \ {c} : cpc'[d] = cpc[d]
  BY <1>2, ZenonT(30) DEF TypeOK
<1>6. CpuInv'
  BY <1>1, <1>2, <1>3, <1>5, SlotFacts DEF CpuInv, Locking, OnCPU
<1>7. ForkInv' /\ FamilyInv' /\ WaitNotLate' /\ ParentAlive'
  BY <1>3, FamilyFrame, Zenon
<1>8. TickHeld'
  <2>1. CASE x = "tick"
    <3>1. \A d \in CPUs \ {c} : ~(cpc[d] = "tick" \/ (cpc[d] = "run" /\ at[proc[d]] \in Ticking))
      BY <1>2, <2>1, SlotFacts, Zenon DEF SleepInv, TickHeld
    <3>. QED
      BY <1>2, <1>3, <1>5, <2>1, <3>1, Zenon DEF TickHeld, Ticking
  <2>2. CASE x = "trap"
    BY <1>1, <1>2, <1>3, <1>5, <2>2, ZenonT(30) DEF SleepInv, TickHeld
  <2>. QED
    BY <1>2, <2>1, <2>2, Zenon
<1>9. Sleepers'
  <2>1. \A q \in Slots : at[q] \in Ticking /\ OnClock(q) => OnClock(q)'
    BY <1>1, <1>3, <1>5, Zenon DEF OnClock
  <2>2. \A q \in Slots, d \in CPUs : proc[d] = q /\ cpc[d] \in {"sched", "resume"} => cpc'[d] = cpc[d]
    BY <1>1, <1>5, Zenon
  <2>. QED
    BY <1>3, <2>1, <2>2, ZenonT(30) DEF SleepInv, Sleepers, Ticking
<1>10. NotDue'
  BY <1>1, <1>2, <1>3, <1>5, Zenon DEF SleepInv, NotDue
<1>. QED
  BY <1>4, <1>6, <1>7, <1>8, <1>9, <1>10, Zenon DEF SleepInv

(* ... and wakeup(&ticks) wakes every sleeper of sys_sleep().              *)
LEMMA TimerWakeupStep ==
  ASSUME TableInv, NEW c \in CPUs, timer_wakeup(c)
  PROVE  TableInv'
<1>. USE DEF TableInv
<1>1. cpc[c] = "tick" /\ tickslock = c /\ lock = None
  BY Zenon DEF timer_wakeup, SleepInv, TickHeld
<1>2. PICK x : x = (IF proc[c] = 0 THEN "scheduler" ELSE "trap") /\ cpc' = [cpc EXCEPT ![c] = x]
  BY Zenon DEF timer_wakeup
<1>3. /\ tickslock' = None
      /\ UNCHANGED <<pid, parent, chan, killed, kstack, nextpid, ctx, at, np, until, lock, proc, scan, ticks, panicked>>
  BY Zenon DEF timer_wakeup, codeVars
<1>4. /\ state' \in [Slots -> States]
      /\ \A q \in Slots :
           /\ state'[q] = state[q] \/ (state[q] = "SLEEPING" /\ state'[q] = "RUNNABLE")
           /\ state'[q] = "SLEEPING" => state[q] = "SLEEPING" /\ chan[q] # Ticks
  <2>1. state \in [Slots -> States] /\ state' = wakeup1(state, Ticks)
    BY Zenon DEF TypeOK, timer_wakeup
  <2>. QED
    BY <2>1, Wakeup1
<1>5. TypeOK'
  BY <1>2, <1>3, <1>4, SlotFacts, Zenon DEF TypeOK, CPCs
<1>6. cpc'[c] = x /\ \A d \in CPUs \ {c} : cpc'[d] = cpc[d]
  BY <1>2, Zenon DEF TypeOK
<1>7. CpuInv'
  <2>1. \A d \in CPUs : cpc[d] \notin Locking
    BY <1>1, SlotFacts, Zenon DEF CpuInv
  <2>2. \A d \in CPUs : proc[d] # 0 => state'[proc[d]] = "RUNNING"
    BY <1>4, <2>1, Currents, Zenon DEF CpuInv, Locking
  <2>3. \A d \in CPUs : cpc'[d] \notin Locking
    <3>1. x \notin Locking
      BY <1>2, Zenon DEF Locking
    <3>. QED
      BY <1>6, <2>1, <3>1, Zenon
  <2>4. \A d \in CPUs : /\ cpc'[d] \in {"scheduler", "scan"} => proc[d] = 0
                        /\ cpc'[d] \in OnCPU => proc[d] # 0
    BY <1>2, <1>6 DEF CpuInv, OnCPU
  <2>. QED
    BY <1>1, <1>3, <2>2, <2>3, <2>4, SlotFacts, ZenonT(30) DEF CpuInv, Locking
<1>8. ForkInv' /\ FamilyInv' /\ WaitNotLate' /\ ParentAlive'
  BY <1>3, <1>4, FamilyFrame, Zenon DEF Live
<1>9. TickHeld'
  <2>1. c # None /\ \A d \in CPUs \ {c} : tickslock' = d <=> tickslock = d
    BY <1>1, <1>3, SlotFacts, Zenon
  <2>2. x \notin {"run", "tick"}
    BY <1>2, Zenon
  <2>3. TickKept(c)
    BY <1>3, <1>6, <2>1, <2>2, ZenonT(30) DEF TickKept
  <2>. QED
    BY <2>3, TickFrame, Zenon DEF SleepInv
<1>10. Sleepers'
  <2>1. \A q \in Slots : OnClock(q) => OnClock(q)'
    BY <1>1, <1>3, <1>6, Zenon DEF OnClock
  <2>2. \A q \in Slots, d \in CPUs : proc[d] = q /\ cpc[d] \in {"sched", "resume"} => cpc'[d] = cpc[d]
    BY <1>1, <1>6, Zenon
  <2>. QED
    BY <1>3, <1>4, <2>1, <2>2 DEF SleepInv, Sleepers
<1>11. NotDue'
  BY <1>3, <1>4, Zenon DEF NotDue
<1>. QED
  BY <1>5, <1>7, <1>8, <1>9, <1>10, <1>11, Zenon DEF SleepInv

-----------------------------------------------------------------------------
(* Every step preserves the invariant.                                     *)
LEMMA TableStep ==
  ASSUME TableInv, [Next]_vars
  PROVE  TableInv'
<1>1. CASE UNCHANGED vars
  <2>1. UNCHANGED <<tableVars, codeVars, cpuVars, tickVars>> /\ panicked' \in BOOLEAN
    BY <1>1, Zenon DEF vars, TableInv, TypeOK
  <2>. QED
    BY <2>1, TableFrame, Zenon
<1>2. ASSUME NEW c \in CPUs, Kernel(c)
      PROVE  TableInv'
  BY <1>2, AcquireStep, PickStep, SchedStep, ResumeStep, WaitStep, ForkKstackStep, ForkFailStep,
     ForkCopyStep, ForkRunStep, SleepTestStep, SleepStep, SleepPushcliStep, SleepLockStep, TimerWakeupStep, YieldStep, ExitStep, Zenon DEF Kernel
<1>3. ASSUME NEW c \in CPUs, User(c)
      PROVE  TableInv'
  BY <1>3, ForkAllocStep, ExitStep, WaitStep, FaultStep, KillStep, SysSleepStep, Zenon DEF User
<1>. QED
  BY <1>1, <1>2, <1>3, TimerStep, Zenon DEF Next

(* The invariant of the process table, for every number of slots, CPUs,    *)
(* pids and ticks.                                                         *)
THEOREM Table == Spec => []TableInv
<1>1. Init => TableInv
  BY TableInit, Zenon
<1>2. TableInv /\ [Next]_vars => TableInv'
  BY TableStep, Zenon
<1>. QED
  BY <1>1, <1>2, PTL DEF Spec

(* proc.c keeps the table sound: no process runs on two CPUs, a process    *)
(* that may run has its kernel stack, a process asleep in wait() has a     *)
(* child and no zombie, every process has a live parent, and no sleeper is *)
(* left behind by a tick.                                                  *)
THEOREM TableIsSound == Spec => []TableSound
<1>1. TableInv => TableSound
  <2>. SUFFICES ASSUME TableInv PROVE TableSound
    BY Zenon
  <2>. USE DEF TableInv
  <2>1. RunsOnce
    BY Zenon DEF RunsOnce, CpuInv, Locking
  <2>2. StackSafe
    BY Currents, Zenon DEF StackSafe, CpuInv, ForkInv, Live
  <2>3. SleeperNotDue
    BY SlotFacts, Zenon DEF SleeperNotDue, SleepInv, TickHeld, NotDue
  <2>. QED
    BY <2>1, <2>2, <2>3, Zenon DEF TableSound
<1>. QED
  BY <1>1, Table, PTL
====
