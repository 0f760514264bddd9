------------------------------ MODULE Console ------------------------------
(***************************************************************************)
(* Spinlocks with interrupts, and the console's input (COL331/HW1/xv6:     *)
(* spinlock.c, console.c, and kbd.c and uart.c for what raises an          *)
(* interrupt).  Threads read and write the console on CPUs that may be     *)
(* interrupted, at any instruction with IF set, by a key (consoleintr())   *)
(* or by the timer, which takes the thread off its CPU.  An interrupt      *)
(* handler is an actor of its own, on top of the thread of its CPU.  What  *)
(* an actor does with IF clear and without shared state is one step.       *)
(***************************************************************************)
EXTENDS Integers, Sequences, FiniteSets

CONSTANTS CPUs, Readers, Writers,
          kbdintr, KbdCPU, \* the interrupt handler, and the CPU that takes it
          INPUT_BUF, MOD, \* MOD: where the indices wrap, 2^32 in the code
          Chars          \* characters other than newline, ^D, ^U and backspace

ASSUME InputConstants ==
  /\ INPUT_BUF \in Nat \ {0} /\ MOD \in Nat
  /\ MOD % INPUT_BUF = 0 /\ MOD > INPUT_BUF
ASSUME ConsoleConstants ==
  /\ KbdCPU \in CPUs /\ 0 \notin CPUs
  /\ Readers \cap Writers = {} /\ kbdintr \notin Readers \cup Writers

Threads  == Readers \cup Writers
Actors   == Threads \cup {kbdintr}
Ends     == {"nl", "eof"}

VARIABLES
  IF_,                \* by CPU: the interrupt flag
  ncli, intena,       \* by CPU: depth of pushcli(), and the flag to restore
  locked,             \* cons.lock: 0, or its CPU
  where,              \* by thread: its CPU, or 0
  pc,                 \* by actor: where it is
  eflags,             \* by actor: the local variable of pushcli()
  n, target,          \* by reader: the variables of consoleread()
  killed,             \* by thread: proc->killed
  buf, r, w, e        \* input

cpus  == <<IF_, ncli, intena>>
input == <<buf, r, w, e>>
vars  == <<cpus, locked, where, pc, eflags, n, target, killed, input>>

Init ==
  /\ IF_ = [c \in CPUs |-> TRUE]
  /\ ncli = [c \in CPUs |-> 0] /\ intena = [c \in CPUs |-> FALSE]
  /\ locked = 0
  /\ where = [t \in Threads |-> 0]
  /\ pc = [a \in Actors |-> IF a \in Threads THEN "user" ELSE "off"]
  /\ eflags = [a \in Actors |-> FALSE]
  /\ n = [t \in Readers |-> 0] /\ target = [t \in Readers |-> 0]
  /\ killed = [t \in Readers |-> FALSE]
  /\ buf = [k \in 0 .. INPUT_BUF - 1 |-> "nul"]
  /\ r = 0 /\ w = 0 /\ e = 0

-----------------------------------------------------------------------------
(* Actor a is what runs on CPU c.                                          *)
InHandler(c) == c = KbdCPU /\ pc[kbdintr] # "off"
Runs(a, c) == \/ a = kbdintr /\ InHandler(c)
              \/ a \in Threads /\ where[a] = c /\ ~InHandler(c)
Idle(c)    == \A t \in Threads : where[t] # c
Go(a, l)   == pc' = [pc EXCEPT ![a] = l]

(* The timer takes a thread off its CPU, and a free CPU takes it up again. *)
yield(t, c) ==
  /\ Runs(t, c) /\ IF_[c]
  /\ where' = [where EXCEPT ![t] = 0]
  /\ UNCHANGED <<cpus, locked, pc, eflags, n, target, killed, input>>
schedule(t, c) ==
  /\ Idle(c) /\ where[t] = 0 /\ pc[t] # "sleep" /\ ~InHandler(c)
  /\ where' = [where EXCEPT ![t] = c]
  /\ UNCHANGED <<cpus, locked, pc, eflags, n, target, killed, input>>

(* A key: the interrupt gate clears IF until the handler returns.          *)
interrupt ==
  /\ IF_[KbdCPU] /\ pc[kbdintr] = "off"
  /\ IF_' = [IF_ EXCEPT ![KbdCPU] = FALSE]
  /\ Go(kbdintr, "acquire")
  /\ UNCHANGED <<ncli, intena, locked, where, eflags, n, target, killed, input>>

(* A thread calls consoleread() or consolewrite().                         *)
consoleread(t, c) ==
  /\ t \in Readers /\ Runs(t, c) /\ pc[t] = "user" /\ ~killed[t]
  /\ \E k \in 1 .. 2 : n' = [n EXCEPT ![t] = k] /\ target' = [target EXCEPT ![t] = k]
  /\ Go(t, "acquire")
  /\ UNCHANGED <<cpus, locked, where, eflags, killed, input>>
consolewrite(t, c) ==
  /\ t \in Writers /\ Runs(t, c) /\ pc[t] = "user"
  /\ Go(t, "acquire")
  /\ UNCHANGED <<cpus, locked, where, eflags, n, target, killed, input>>

-----------------------------------------------------------------------------
(* acquire(): pushcli() reads the flags, ...                               *)
readeflags(a, c) ==
  /\ Runs(a, c) /\ pc[a] = "acquire"
  /\ eflags' = [eflags EXCEPT ![a] = IF_[c]] /\ Go(a, "cli")
  /\ UNCHANGED <<cpus, locked, where, n, target, killed, input>>

(* ... disables interrupts on the CPU it is on by then, and counts; the    *)
(* lock must not be held by this CPU.                                      *)
Pushcli(a, c, saved) ==
  /\ Runs(a, c) /\ pc[a] = "cli"
  /\ IF_' = [IF_ EXCEPT ![c] = FALSE]
  /\ ncli' = [ncli EXCEPT ![c] = @ + 1]
  /\ intena' = [intena EXCEPT ![c] = IF ncli[c] = 0 THEN saved ELSE @]
  /\ eflags' = [eflags EXCEPT ![a] = FALSE]
  /\ Go(a, IF locked = c THEN "panic" ELSE "spin")
  /\ UNCHANGED <<locked, where, n, target, killed, input>>
pushcli_after(a, c) == Pushcli(a, c, FALSE)
pushcli(a, c)       == Pushcli(a, c, eflags[a])

(* The xchg that finds the lock free.                                      *)
xchg(a, c) ==
  /\ Runs(a, c) /\ pc[a] = "spin" /\ locked = 0
  /\ locked' = c /\ Go(a, "locked")
  /\ UNCHANGED <<cpus, where, eflags, n, target, killed, input>>

(* popcli() after the lock is free, and after it the return from the       *)
(* interrupt, or to the program.                                           *)
Popcli(c, on) ==
  /\ ncli' = [ncli EXCEPT ![c] = @ - 1]
  /\ IF_' = [IF_ EXCEPT ![c] = on \/ (ncli[c] = 1 /\ intena[c])]
  /\ UNCHANGED intena
release(a, c) ==
  /\ Runs(a, c) /\ pc[a] = "release"
  /\ IF IF_[c] \/ ncli[c] < 1 \/ locked # c
       THEN Go(a, "panic") /\ UNCHANGED <<cpus, locked>>
       ELSE /\ locked' = 0 /\ Popcli(c, a = kbdintr)
            /\ Go(a, IF a = kbdintr THEN "off" ELSE "user")
  /\ n' = [t \in Readers |-> IF t = a THEN 0 ELSE n[t]]
  /\ target' = [t \in Readers |-> IF t = a THEN 0 ELSE target[t]]
  /\ UNCHANGED <<where, eflags, killed, input>>

-----------------------------------------------------------------------------
(* consoleintr(), one character of its loop.                               *)
Wake(p) == [a \in Actors |-> IF p[a] = "sleep" THEN "acquire" ELSE p[a]]
Full(k) == (e - r) % MOD >= k

Key(ch, full, wake) ==
  CASE ch = "kill" -> e' = w /\ UNCHANGED <<buf, w, pc>>
    [] ch = "bs"   -> e' = (IF e = w THEN e ELSE (e - 1) % MOD) /\ UNCHANGED <<buf, w, pc>>
    [] OTHER -> IF full THEN UNCHANGED <<buf, w, e, pc>> ELSE
         /\ buf' = [buf EXCEPT ![e % INPUT_BUF] = ch]
         /\ e' = (e + 1) % MOD
         /\ LET ends == ch \in Ends \/ e' = (r + INPUT_BUF) % MOD
            IN  /\ w' = IF ends THEN e' ELSE w
                /\ pc' = IF ends /\ (wake \/ ch \in Ends) THEN Wake(pc) ELSE pc
Consoleintr(full, wake) ==
  /\ pc[kbdintr] = "locked"
  /\ \E ch \in Chars \cup Ends \cup {"kill", "bs"} : Key(ch, full, wake)
  /\ UNCHANGED <<cpus, locked, where, eflags, n, target, killed, r>>
consoleintr_over  == Consoleintr(Full(INPUT_BUF + 1), TRUE)
consoleintr_quiet == Consoleintr(Full(INPUT_BUF), FALSE)
consoleintr       == Consoleintr(Full(INPUT_BUF), TRUE)

(* consolewrite() has written, and the handler's getc() has no more.       *)
finish(a, c) ==
  /\ a \notin Readers /\ Runs(a, c) /\ pc[a] = "locked"
  /\ Go(a, "release")
  /\ UNCHANGED <<cpus, locked, where, eflags, n, target, killed, input>>

(* consoleread(), one character: it takes it, or puts ^D back, ...         *)
read(t, c) ==
  LET ch == buf[r % INPUT_BUF]
  IN  /\ t \in Readers /\ Runs(t, c) /\ pc[t] = "locked" /\ r # w
      /\ r' = IF ch = "eof" /\ n[t] < target[t] THEN r ELSE (r + 1) % MOD
      /\ n' = [n EXCEPT ![t] = IF ch = "eof" THEN @ ELSE @ - 1]
      /\ Go(t, IF ch \in Ends \/ n[t] = 1 THEN "release" ELSE "locked")
      /\ UNCHANGED <<cpus, locked, where, eflags, target, killed, buf, w, e>>

(* ... finds that there is none and was not killed, ...                    *)
read_empty(t, c) ==
  /\ t \in Readers /\ Runs(t, c) /\ pc[t] = "locked" /\ r = w /\ ~killed[t]
  /\ Go(t, "tosleep")
  /\ UNCHANGED <<cpus, locked, where, eflags, n, target, killed, input>>

(* ... sleeps, also if it is killed by now, giving up the lock and the     *)
(* CPU, ...                                                                *)
sleep(t, c) ==
  /\ t \in Readers /\ Runs(t, c) /\ pc[t] = "tosleep"
  /\ locked' = 0 /\ Popcli(c, TRUE)
  /\ where' = [where EXCEPT ![t] = 0] /\ Go(t, "sleep")
  /\ UNCHANGED <<eflags, n, target, killed, input>>

(* ... and returns when it finds itself killed.                            *)
read_killed(t, c) ==
  /\ t \in Readers /\ Runs(t, c) /\ pc[t] = "locked" /\ r = w /\ killed[t]
  /\ Go(t, "release")
  /\ UNCHANGED <<cpus, locked, where, eflags, n, target, killed, input>>

(* kill() wakes a sleeper; it takes ptable.lock, not cons.lock.            *)
kill(t) ==
  /\ ~killed[t] /\ killed' = [killed EXCEPT ![t] = TRUE]
  /\ Go(t, IF pc[t] = "sleep" THEN "acquire" ELSE pc[t])
  /\ UNCHANGED <<cpus, locked, where, eflags, n, target, input>>

Next ==
  \/ interrupt \/ consoleintr
  \/ \E t \in Readers : kill(t)
  \/ \E c \in CPUs :
       \/ \E t \in Threads : yield(t, c) \/ schedule(t, c) \/ consoleread(t, c) \/ consolewrite(t, c)
                             \/ read(t, c) \/ read_empty(t, c) \/ sleep(t, c) \/ read_killed(t, c)
       \/ \E a \in Actors : readeflags(a, c) \/ pushcli(a, c) \/ xchg(a, c) \/ release(a, c) \/ finish(a, c)

Spec == Init /\ [][Next]_vars

-----------------------------------------------------------------------------
(* acquire(), release() and popcli() never panic: an interrupt handler     *)
(* never finds the lock held by its own CPU, and pushes and pops match     *)
(* also when a thread changes CPUs inside pushcli().                       *)
LocksNest == \A a \in Actors : pc[a] # "panic"

(* A CPU that holds no lock and is not in a handler takes interrupts:      *)
(* popcli() restores the flag that pushcli() found.                        *)
InterruptsBack ==
  \A c \in CPUs : ~InHandler(c) /\ (\A t \in Threads : where[t] = c => pc[t] = "user")
                    => IF_[c] /\ ncli[c] = 0

(* At most one thread or handler is between acquire() and release().       *)
OneHolder ==
  \A a, b \in Actors : {pc[a], pc[b]} \subseteq {"locked", "tosleep", "release"} => a = b

(* Spinlocks and interrupts as a whole.                                    *)
SpinlocksSound == LocksNest /\ InterruptsBack /\ OneHolder

(* A reader sleeps only while there is no finished line: consoleintr()     *)
(* wakes it for a newline, for ^D and for a full buffer.  (It may sleep    *)
(* though it was killed: between its test of proc->killed and sleep().)    *)
NoLostWakeup == \A t \in Readers : pc[t] = "sleep" => r = w

(* The ring and its three indices, which wrap, implement a queue of        *)
(* finished lines and a line being edited.                                 *)
Between(i, j) == [k \in 1 .. (j - i) % MOD |-> buf[(i + k - 1) % INPUT_BUF]]
Queue == INSTANCE LineQueue WITH Chars <- Chars \cup Ends, Cap <- INPUT_BUF,
                                 done <- Between(r, w), line <- Between(w, e)
Lines == Queue!Spec
=============================================================================
