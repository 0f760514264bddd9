--------------------------- MODULE ConsoleProofs ---------------------------
(***************************************************************************)
(* Proofs about spinlocks with interrupts and about the console's reader   *)
(* and its ring, for every number of CPUs and threads and every size of    *)
(* the ring.                                                               *)
(***************************************************************************)
EXTENDS Console, Rings, TLAPS

ThreadPCs  == {"user", "acquire", "cli", "spin", "locked", "tosleep", "release", "sleep"}
HandlerPCs == {"off", "acquire", "cli", "spin", "locked", "release"}

(* Between pushcli() and popcli(), and with the lock.                      *)
Pushed(a) == pc[a] \in {"spin", "locked", "tosleep", "release"}
Holds(a)  == pc[a] \in {"locked", "tosleep", "release"}
CpuOf(a)  == IF a = kbdintr THEN KbdCPU ELSE where[a]
Handling  == pc[kbdintr] # "off"

(* The program counters have no panic.                                     *)
Types ==
  /\ IF_ \in [CPUs -> BOOLEAN] /\ ncli \in [CPUs -> Nat] /\ intena \in [CPUs -> BOOLEAN]
  /\ locked \in CPUs \cup {0} /\ where \in [Threads -> CPUs \cup {0}]
  /\ eflags \in [Actors -> BOOLEAN] /\ pc \in [Actors -> ThreadPCs \cup HandlerPCs]
  /\ \A t \in Threads : pc[t] \in ThreadPCs
  /\ pc[kbdintr] \in HandlerPCs

(* Where threads are: one on a CPU, none while asleep, and none is taken   *)
(* off its CPU or interrupted inside a critical section.                   *)
Placed ==
  /\ \A t, u \in Threads : where[t] = where[u] /\ where[t] # 0 => t = u
  /\ \A t \in Threads : pc[t] = "sleep" => where[t] = 0
  /\ \A t \in Threads : Pushed(t) => where[t] # 0
  /\ \A t \in Threads : Pushed(t) /\ where[t] = KbdCPU => ~Handling

(* The CPU's flag and count follow what runs there: pushcli() by a thread  *)
(* has saved an enabled flag, also if it was read on another CPU.          *)
Flags ==
  /\ \A t \in Threads : Pushed(t) => ~IF_[where[t]] /\ ncli[where[t]] = 1 /\ intena[where[t]]
  /\ \A t \in Threads : pc[t] = "cli" => eflags[t]
  /\ Handling => ~IF_[KbdCPU] /\ ncli[KbdCPU] = (IF Pushed(kbdintr) THEN 1 ELSE 0)
  /\ \A c \in CPUs : ~InHandler(c) /\ (\A t \in Threads : where[t] = c => ~Pushed(t))
                       => IF_[c] /\ ncli[c] = 0

(* cons.lock names the CPU of the one actor that holds it.                 *)
Lock ==
  /\ \A a \in Actors : Holds(a) => locked = CpuOf(a)
  /\ \A a, b \in Actors : Holds(a) /\ Holds(b) => a = b
  /\ locked # 0 => \E a \in Actors : Holds(a) /\ CpuOf(a) = locked

LockInv == Types /\ Placed /\ Flags /\ Lock

(* Every step keeps the lock, the flags and the threads in step.           *)
THEOREM LockInvInductive == LockInv /\ [Next]_vars => LockInv'
<1>. SUFFICES ASSUME LockInv, [Next]_vars PROVE LockInv'
  BY Zenon
<1>. USE ConsoleConstants
     DEF ConsoleConstants, LockInv, Threads, Actors, ThreadPCs, HandlerPCs,
         Runs, InHandler, Handling, Pushed, Holds, CpuOf, Go, cpus, input
<1>1. CASE interrupt
  <2>1. Types'
    BY <1>1, Zenon DEF interrupt, Types
  <2>2. Placed'
    BY <1>1 DEF interrupt, Types, Placed, Flags
  <2>3. Flags'
    BY <1>1 DEF interrupt, Types, Flags
  <2>4. Lock'
    BY <1>1, Zenon DEF interrupt, Types, Lock
  <2>. QED
    BY <2>1, <2>2, <2>3, <2>4, Zenon
<1>2. CASE consoleintr
  <2>1. Types'
    BY <1>2 DEF consoleintr, Consoleintr, Key, Wake, Full, Ends, Types
  <2>2. Placed'
    BY <1>2 DEF consoleintr, Consoleintr, Key, Wake, Full, Ends, Types, Placed
  <2>3. Flags'
    BY <1>2 DEF consoleintr, Consoleintr, Key, Wake, Full, Ends, Types, Flags
  <2>4. Lock'
    BY <1>2 DEF consoleintr, Consoleintr, Key, Wake, Full, Ends, Types, Lock
  <2>. QED
    BY <2>1, <2>2, <2>3, <2>4, Zenon
<1>3. ASSUME NEW t \in Readers, kill(t)
      PROVE  LockInv'
  <2>1. Types'
    BY <1>3, Zenon DEF kill, Types
  <2>2. Placed'
    BY <1>3, Zenon DEF kill, Types, Placed
  <2>3. Flags'
    BY <1>3, Zenon DEF kill, Types, Flags
  <2>4. Lock'
    BY <1>3 DEF kill, Types, Lock
  <2>. QED
    BY <2>1, <2>2, <2>3, <2>4, Zenon
<1>4. ASSUME NEW c \in CPUs, NEW t \in Threads, yield(t, c)
      PROVE  LockInv'
  <2>1. Types'
    BY <1>4, Zenon DEF yield, Types
  <2>2. Placed'
    BY <1>4 DEF yield, Types, Placed, Flags
  <2>3. Flags'
    BY <1>4 DEF yield, Types, Flags
  <2>4. Lock'
    BY <1>4 DEF yield, Types, Placed, Flags, Lock
  <2>. QED
    BY <2>1, <2>2, <2>3, <2>4, Zenon
<1>5. ASSUME NEW c \in CPUs, NEW t \in Threads, schedule(t, c)
      PROVE  LockInv'
  <2>1. Types'
    BY <1>5, Zenon DEF schedule, Idle, Types
  <2>2. Placed'
    BY <1>5, Zenon DEF schedule, Idle, Types, Placed
  <2>3. Flags'
    BY <1>5, Zenon DEF schedule, Idle, Types, Placed, Flags
  <2>4. Lock'
    BY <1>5, Zenon DEF schedule, Idle, Types, Placed, Lock
  <2>. QED
    BY <2>1, <2>2, <2>3, <2>4, Zenon
<1>6. ASSUME NEW c \in CPUs, NEW t \in Threads, consoleread(t, c)
      PROVE  LockInv'
  <2>1. Types'
    BY <1>6, Zenon DEF consoleread, Types
  <2>2. Placed'
    BY <1>6, Zenon DEF consoleread, Types, Placed
  <2>3. Flags'
    BY <1>6, Zenon DEF consoleread, Types, Flags
  <2>4. Lock'
    BY <1>6, Zenon DEF consoleread, Types, Lock
  <2>. QED
    BY <2>1, <2>2, <2>3, <2>4, Zenon
<1>7. ASSUME NEW c \in CPUs, NEW t \in Threads, consolewrite(t, c)
      PROVE  LockInv'
  <2>1. Types'
    BY <1>7, Zenon DEF consolewrite, Types
  <2>2. Placed'
    BY <1>7, Zenon DEF consolewrite, Types, Placed
  <2>3. Flags'
    BY <1>7, Zenon DEF consolewrite, Types, Flags
  <2>4. Lock'
    BY <1>7, Zenon DEF consolewrite, Types, Lock
  <2>. QED
    BY <2>1, <2>2, <2>3, <2>4, Zenon
<1>8. ASSUME NEW c \in CPUs, NEW t \in Threads, read(t, c)
      PROVE  LockInv'
  <2>1. Types'
    BY <1>8, Zenon DEF read, Types
  <2>2. Placed'
    BY <1>8, Zenon DEF read, Types, Placed
  <2>3. Flags'
    BY <1>8, Zenon DEF read, Types, Flags
  <2>4. Lock'
    BY <1>8, Zenon DEF read, Types, Lock
  <2>. QED
    BY <2>1, <2>2, <2>3, <2>4, Zenon
<1>9. ASSUME NEW c \in CPUs, NEW t \in Threads, sleep(t, c)
      PROVE  LockInv'
  <2>1. Types'
    BY <1>9 DEF sleep, Popcli, Types, Placed, Flags
  <2>2. Placed'
    BY <1>9, Zenon DEF sleep, Popcli, Types, Placed
  <2>3. Flags'
    BY <1>9 DEF sleep, Popcli, Types, Placed, Flags
  <2>4. Lock'
    BY <1>9, Zenon DEF sleep, Popcli, Types, Lock
  <2>. QED
    BY <2>1, <2>2, <2>3, <2>4, Zenon
<1>10. ASSUME NEW c \in CPUs, NEW t \in Threads, read_killed(t, c)
      PROVE  LockInv'
  <2>1. Types'
    BY <1>10, Zenon DEF read_killed, Types
  <2>2. Placed'
    BY <1>10, Zenon DEF read_killed, Types, Placed
  <2>3. Flags'
    BY <1>10, Zenon DEF read_killed, Types, Flags
  <2>4. Lock'
    BY <1>10, Zenon DEF read_killed, Types, Lock
  <2>. QED
    BY <2>1, <2>2, <2>3, <2>4, Zenon
<1>11. ASSUME NEW c \in CPUs, NEW a \in Actors, readeflags(a, c)
      PROVE  LockInv'
  <2>1. Types'
    BY <1>11, Zenon DEF readeflags, Types
  <2>2. Placed'
    BY <1>11, Zenon DEF readeflags, Types, Placed
  <2>3. Flags'
    BY <1>11 DEF readeflags, Types, Placed, Flags
  <2>4. Lock'
    BY <1>11, Zenon DEF readeflags, Types, Lock
  <2>. QED
    BY <2>1, <2>2, <2>3, <2>4, Zenon
<1>12. ASSUME NEW c \in CPUs, NEW a \in Actors, pushcli(a, c)
      PROVE  LockInv'
  <2>1. Types'
    BY <1>12 DEF pushcli, Pushcli, Types, Placed, Flags, Lock
  <2>2. Placed'
    BY <1>12, Zenon DEF pushcli, Pushcli, Types, Placed
  <2>3. Flags'
    BY <1>12 DEF pushcli, Pushcli, Types, Placed, Flags, Lock
  <2>4. Lock'
    BY <1>12, Zenon DEF pushcli, Pushcli, Types, Lock
  <2>. QED
    BY <2>1, <2>2, <2>3, <2>4, Zenon
<1>13. ASSUME NEW c \in CPUs, NEW a \in Actors, xchg(a, c)
      PROVE  LockInv'
  <2>1. Types'
    BY <1>13, Zenon DEF xchg, Types
  <2>2. Placed'
    BY <1>13, Zenon DEF xchg, Types, Placed
  <2>3. Flags'
    BY <1>13, Zenon DEF xchg, Types, Flags
  <2>4. Lock'
    BY <1>13 DEF xchg, Types, Placed, Lock
  <2>. QED
    BY <2>1, <2>2, <2>3, <2>4, Zenon
<1>14. ASSUME NEW c \in CPUs, NEW a \in Actors, release(a, c)
      PROVE  LockInv'
  <2>0. /\ Holds(a) /\ CpuOf(a) = c /\ ~IF_[c] /\ ncli[c] = 1 /\ locked = c
        /\ a # kbdintr => intena[c]
    BY <1>14 DEF release, Types, Placed, Flags, Lock
  <2>1. /\ locked' = 0 /\ Popcli(c, a = kbdintr)
        /\ Go(a, IF a = kbdintr THEN "off" ELSE "user")
        /\ UNCHANGED <<where, eflags>>
    BY <1>14, <2>0 DEF release
  <2>2. ncli' = [ncli EXCEPT ![c] = 0] /\ intena' = intena
    BY <2>0, <2>1 DEF Popcli, Types
  <2>3. IF_' = [IF_ EXCEPT ![c] = TRUE]
    <3>1. a = kbdintr \/ (ncli[c] = 1 /\ intena[c])
      BY <2>0, Zenon
    <3>2. (a = kbdintr \/ (ncli[c] = 1 /\ intena[c])) = TRUE
      BY <3>1, Zenon
    <3>. QED
      BY <2>1, <3>2, Zenon DEF Popcli
  <2>4. Types'
    BY <2>0, <2>1, <2>2, <2>3, Zenon DEF Types
  <2>5. Placed'
    BY <2>0, <2>1, Zenon DEF Types, Placed
  <2>6. Flags'
    BY <1>14, <2>0, <2>1, <2>2, <2>3 DEF release, Types, Placed, Flags, Lock
  <2>7. Lock'
    BY <2>0, <2>1, Zenon DEF Types, Lock
  <2>. QED
    BY <2>4, <2>5, <2>6, <2>7, Zenon
<1>15. ASSUME NEW c \in CPUs, NEW a \in Actors, finish(a, c)
      PROVE  LockInv'
  <2>1. Types'
    BY <1>15, Zenon DEF finish, Types
  <2>2. Placed'
    BY <1>15, Zenon DEF finish, Types, Placed
  <2>3. Flags'
    BY <1>15, Zenon DEF finish, Types, Flags
  <2>4. Lock'
    BY <1>15, Zenon DEF finish, Types, Lock
  <2>. QED
    BY <2>1, <2>2, <2>3, <2>4, Zenon
<1>16. ASSUME NEW c \in CPUs, NEW t \in Threads, read_empty(t, c)
      PROVE  LockInv'
  <2>1. Types'
    BY <1>16, Zenon DEF read_empty, Types
  <2>2. Placed'
    BY <1>16, Zenon DEF read_empty, Types, Placed
  <2>3. Flags'
    BY <1>16, Zenon DEF read_empty, Types, Flags
  <2>4. Lock'
    BY <1>16, Zenon DEF read_empty, Types, Lock
  <2>. QED
    BY <2>1, <2>2, <2>3, <2>4, Zenon
<1>17. CASE UNCHANGED vars
  BY <1>17 DEF vars, Types, Placed, Flags, Lock
<1>. QED
  BY <1>1, <1>2, <1>3, <1>4, <1>5, <1>6, <1>7, <1>8, <1>9, <1>10, <1>11, <1>12, <1>13, <1>14, <1>15,
     <1>16, <1>17, Zenon DEF Next

(* It holds at the start.                                                  *)
THEOREM LockInvInit == Init => LockInv
  BY ConsoleConstants
  DEF ConsoleConstants, Init, LockInv, Types, Placed, Flags, Lock, Threads, Actors, ThreadPCs,
      HandlerPCs, Runs, InHandler, Handling, Pushed, Holds, CpuOf

(* It gives mutual exclusion, matching pushcli() and popcli(), and         *)
(* interrupts that come back.                                              *)
THEOREM LockInvSound == LockInv => SpinlocksSound
<1>. SUFFICES ASSUME LockInv PROVE SpinlocksSound
  BY Zenon
<1>. USE DEF LockInv
<1>1. LocksNest
  BY Zenon DEF LocksNest, Types, Actors, ThreadPCs, HandlerPCs
<1>2. InterruptsBack
  BY Zenon DEF InterruptsBack, Flags, Pushed
<1>3. OneHolder
  BY Zenon DEF OneHolder, Lock, Holds
<1>. QED
  BY <1>1, <1>2, <1>3, Zenon DEF SpinlocksSound

(* acquire() and release() exclude each other between CPUs and between a   *)
(* thread and an interrupt handler, on any number of CPUs.                 *)
THEOREM SpinlocksAreSound == Spec => []SpinlocksSound
<1>. QED
  BY LockInvInit, LockInvInductive, LockInvSound, PTL DEF Spec

(* A reader that goes to sleep, or sleeps, has nothing to read.            *)
NothingToRead == \A t \in Readers : pc[t] \in {"tosleep", "sleep"} => r = w

(* The lock keeps r and w still between the test in consoleread() and the  *)
(* sleep(), and consoleintr() makes every sleeping reader runnable when it *)
(* finishes a line.                                                        *)
THEOREM WakeupInductive == LockInv /\ NothingToRead /\ [Next]_vars => NothingToRead'
<1>. SUFFICES ASSUME LockInv, NothingToRead, [Next]_vars PROVE NothingToRead'
  BY Zenon
<1>. USE ConsoleConstants
     DEF ConsoleConstants, LockInv, Types, NothingToRead, Threads, Actors, Go, input, cpus
<1>1. CASE interrupt
  BY <1>1, Zenon DEF interrupt
<1>2. CASE consoleintr
  <2>1. \A t \in Readers : pc[t] # "tosleep"
    BY <1>2, Zenon DEF consoleintr, Consoleintr, Lock, Holds
  <2>. QED
    BY <1>2, <2>1 DEF consoleintr, Consoleintr, Key, Wake
<1>3. ASSUME NEW t \in Readers, kill(t) PROVE NothingToRead'
  BY <1>3, Zenon DEF kill
<1>4. ASSUME NEW c \in CPUs, NEW t \in Threads, yield(t, c) \/ schedule(t, c) PROVE NothingToRead'
  BY <1>4, Zenon DEF yield, schedule
<1>5. ASSUME NEW c \in CPUs, NEW t \in Threads, consoleread(t, c) \/ consolewrite(t, c) PROVE NothingToRead'
  BY <1>5, Zenon DEF consoleread, consolewrite
<1>6. ASSUME NEW c \in CPUs, NEW t \in Threads,
             read(t, c) \/ read_empty(t, c) \/ sleep(t, c) \/ read_killed(t, c)
      PROVE  NothingToRead'
  BY <1>6, Zenon DEF read, read_empty, sleep, read_killed
<1>7. ASSUME NEW c \in CPUs, NEW a \in Actors, readeflags(a, c) \/ pushcli(a, c) \/ xchg(a, c)
      PROVE  NothingToRead'
  BY <1>7, Zenon DEF readeflags, pushcli, Pushcli, xchg
<1>8. ASSUME NEW c \in CPUs, NEW a \in Actors, release(a, c) \/ finish(a, c) PROVE NothingToRead'
  BY <1>8, Zenon DEF release, finish
<1>9. CASE UNCHANGED vars
  BY <1>9, Zenon DEF vars
<1>. QED
  BY <1>1, <1>2, <1>3, <1>4, <1>5, <1>6, <1>7, <1>8, <1>9, Zenon DEF Next

(* No reader of the console sleeps through the end of a line.              *)
THEOREM ReadersAreWoken == Spec => []NoLostWakeup
<1>1. Init => NothingToRead
  BY ConsoleConstants, Zenon DEF ConsoleConstants, Init, NothingToRead, Threads, Actors
<1>2. NothingToRead => NoLostWakeup
  BY Zenon DEF NothingToRead, NoLostWakeup
<1>. QED
  BY <1>1, <1>2, LockInvInit, LockInvInductive, WakeupInductive, PTL DEF Spec

-----------------------------------------------------------------------------
(* The ring of the console's input: r, w and e follow each other within    *)
(* INPUT_BUF characters, wherever the indices have wrapped.                *)
Dist(i, j) == (j - i) % MOD
Held == Chars \cup Ends \cup {"nul"}

InputTypes ==
  /\ r \in 0 .. MOD - 1 /\ w \in 0 .. MOD - 1 /\ e \in 0 .. MOD - 1
  /\ buf \in [0 .. INPUT_BUF - 1 -> Held]

InputInv == InputTypes /\ Dist(r, w) + Dist(w, e) <= INPUT_BUF

(* The constants without the divisibility, which only slots need.          *)
LEMMA InputSizes ==
  /\ MOD \in Nat \ {0} /\ INPUT_BUF \in Nat \ {0} /\ INPUT_BUF < MOD
  BY InputConstants DEF InputConstants

(* The distance from one index to another.                                 *)
LEMMA DistIs ==
  ASSUME NEW i \in 0 .. MOD - 1, NEW j \in 0 .. MOD - 1
  PROVE  /\ Dist(i, j) = IF j >= i THEN j - i ELSE j - i + MOD
         /\ Dist(i, j) \in 0 .. MOD - 1
         /\ Dist(i, j) = 0 <=> i = j
<1>1. Dist(i, j) = IF j >= i THEN j - i ELSE j - i + MOD
  BY InputSizes, DistanceInt, Zenon DEF Dist
<1>. QED
  BY <1>1, InputSizes

(* The indices after and before one.                                       *)
LEMMA IndexStep ==
  ASSUME NEW i \in 0 .. MOD - 1
  PROVE  /\ (i + 1) % MOD = IF i + 1 = MOD THEN 0 ELSE i + 1
         /\ (i - 1) % MOD = IF i = 0 THEN MOD - 1 ELSE i - 1
<1>1. (i + 1) % MOD = IF i + 1 = MOD THEN 0 ELSE i + 1
  BY InputSizes, ModNext, Zenon
<1>2. (i - 1) % MOD = IF i = 0 THEN MOD - 1 ELSE i - 1
  <2>1. 1 \in 0 .. MOD - 1
    BY InputSizes
  <2>. QED
    BY <2>1, InputSizes, DistanceInt
<1>. QED
  BY <1>1, <1>2, Zenon

(* A step of an index changes its distance from another one by one.        *)
LEMMA DistStep ==
  ASSUME NEW i \in 0 .. MOD - 1, NEW j \in 0 .. MOD - 1
  PROVE  /\ Dist(i, j) < MOD - 1 => Dist(i, (j + 1) % MOD) = Dist(i, j) + 1
         /\ i # j => Dist(i, (j - 1) % MOD) = Dist(i, j) - 1
         /\ i # j => Dist((i + 1) % MOD, j) = Dist(i, j) - 1
         /\ (i + 1) % MOD \in 0 .. MOD - 1 /\ (i - 1) % MOD \in 0 .. MOD - 1
<1>. DEFINE up(x) == IF x + 1 = MOD THEN 0 ELSE x + 1
            down(x) == IF x = 0 THEN MOD - 1 ELSE x - 1
<1>1. \A x \in 0 .. MOD - 1 : (x + 1) % MOD = up(x) /\ (x - 1) % MOD = down(x)
  BY IndexStep, Zenon
<1>2. \A x \in 0 .. MOD - 1 : up(x) \in 0 .. MOD - 1 /\ down(x) \in 0 .. MOD - 1
  BY InputSizes
<1>3. \A x, y \in 0 .. MOD - 1 : Dist(x, y) = IF y >= x THEN y - x ELSE y - x + MOD
  BY DistIs, Zenon
<1>4. Dist(i, j) < MOD - 1 => Dist(i, up(j)) = Dist(i, j) + 1
  <2>1. Dist(i, j) = IF j >= i THEN j - i ELSE j - i + MOD
    BY <1>3, Zenon
  <2>2. Dist(i, up(j)) = IF up(j) >= i THEN up(j) - i ELSE up(j) - i + MOD
    BY <1>2, <1>3, Zenon
  <2>3. CASE j + 1 = MOD
    BY <2>1, <2>2, <2>3, InputSizes
  <2>4. CASE j + 1 # MOD
    BY <2>1, <2>2, <2>4, InputSizes
  <2>. QED
    BY <2>3, <2>4, Zenon
<1>5. i # j => Dist(i, down(j)) = Dist(i, j) - 1
  BY <1>2, <1>3, InputSizes
<1>6. i # j => Dist(up(i), j) = Dist(i, j) - 1
  BY <1>2, <1>3, InputSizes
<1>. HIDE DEF up, down
<1>. QED
  BY <1>1, <1>2, <1>4, <1>5, <1>6, Zenon

(* The index at a distance from another stands for the same slots.         *)
LEMMA DistSlots ==
  ASSUME NEW i \in 0 .. MOD - 1, NEW j \in 0 .. MOD - 1
  PROVE  /\ SameSlots(j, i + Dist(i, j), INPUT_BUF)
         /\ j % INPUT_BUF = (i + Dist(i, j)) % INPUT_BUF
<1>. DEFINE a == i + Dist(i, j)
<1>1. a \in 0 .. 2 * MOD - 1 /\ (IF a < MOD THEN a ELSE a - MOD) = j
  <2>1. Dist(i, j) = IF j >= i THEN j - i ELSE j - i + MOD
    BY DistIs, Zenon
  <2>2. a = IF j >= i THEN j ELSE j + MOD
    BY <2>1, InputSizes
  <2>. HIDE DEF a
  <2>. QED
    BY <2>2, InputSizes
<1>2. MOD % INPUT_BUF = 0
  BY InputConstants, Zenon DEF InputConstants
<1>3. SameSlots(j, a, INPUT_BUF) /\ j % INPUT_BUF = a % INPUT_BUF
  <2>. HIDE DEF a
  <2>1. a % MOD = j
    BY <1>1, InputSizes, ModOnce, Zenon
  <2>2. SameSlots(a % MOD, a, INPUT_BUF)
    BY <1>1, <1>2, InputSizes, SlotsOfCounter, Zenon
  <2>3. (a % MOD) % INPUT_BUF = a % INPUT_BUF
    BY <1>1, <1>2, InputSizes, SlotOfCounter, Zenon
  <2>. QED
    BY <2>1, <2>2, <2>3, Zenon
<1>. QED
  BY <1>3, Zenon

(* The two parts of the ring as sequences of characters.                   *)
LEMMA InputWindows ==
  ASSUME InputTypes
  PROVE  /\ Between(r, w) = Window(buf, r, Dist(r, w), INPUT_BUF)
         /\ Between(w, e) = Window(buf, w, Dist(w, e), INPUT_BUF)
         /\ SlotsIn(buf, INPUT_BUF, Held)
         /\ r \in Nat /\ w \in Nat /\ Dist(r, w) \in Nat /\ Dist(w, e) \in Nat
         /\ Between(r, w) \in Seq(Held) /\ Len(Between(r, w)) = Dist(r, w)
         /\ Between(w, e) \in Seq(Held) /\ Len(Between(w, e)) = Dist(w, e)
<1>1. /\ Between(r, w) = Window(buf, r, Dist(r, w), INPUT_BUF)
      /\ Between(w, e) = Window(buf, w, Dist(w, e), INPUT_BUF)
  BY Zenon DEF Between, Window, Dist
<1>2. SlotsIn(buf, INPUT_BUF, Held)
  BY Zenon DEF InputTypes, SlotsIn
<1>3. r \in Nat /\ w \in Nat /\ Dist(r, w) \in Nat /\ Dist(w, e) \in Nat
  BY DistIs DEF InputTypes
<1>. QED
  BY <1>1, <1>2, <1>3, InputSizes, WindowType

(* The characters of the ring that a key may be.                           *)
QueueStep == [Queue!Next]_<<Between(r, w), Between(w, e)>>

(* Nothing happens to the queue when the ring stays as it is.              *)
LEMMA InputSame ==
  ASSUME InputInv, UNCHANGED <<buf, r, w, e>>
  PROVE  InputInv' /\ QueueStep
  BY Zenon DEF InputInv, InputTypes, Dist, QueueStep, Between

(* ^U: e goes back to w.                                                   *)
LEMMA KillStep ==
  ASSUME InputInv, e' = w, UNCHANGED <<buf, r, w>>
  PROVE  InputInv' /\ QueueStep
<1>. USE DEF InputInv
<1>1. InputTypes'
  BY Zenon DEF InputTypes
<1>2. Dist(w, w) = 0 /\ Dist(r, w) \in Nat /\ Dist(w, e) \in Nat
  BY DistIs DEF InputTypes
<1>3. Dist(r, w)' = Dist(r, w) /\ Dist(w, e)' = 0
  BY <1>2, Zenon DEF Dist
<1>4. InputInv'
  BY <1>1, <1>2, <1>3, InputSizes
<1>5. Between(r, w)' = Between(r, w)
  BY Zenon DEF Between
<1>6. Between(w, e)' = <<>>
  <2>1. Between(w, e)' = Window(buf, w, Dist(w, e)', INPUT_BUF)
    BY Zenon DEF Between, Window, Dist
  <2>. QED
    BY <1>3, <2>1, WindowEmpty, Zenon
<1>7. Queue!Kill
  BY <1>5, <1>6, Zenon DEF Queue!Kill
<1>. QED
  BY <1>4, <1>7, Zenon DEF QueueStep, Queue!Next

(* Backspace: e steps back, unless the line is empty.                      *)
LEMMA EraseStep ==
  ASSUME InputInv, e # w, e' = (e - 1) % MOD, UNCHANGED <<buf, r, w>>
  PROVE  InputInv' /\ QueueStep
<1>. USE DEF InputInv
<1>1. e' \in 0 .. MOD - 1 /\ Dist(w, e') = Dist(w, e) - 1
  BY DistStep, Zenon DEF InputTypes
<1>2. InputTypes'
  BY <1>1, Zenon DEF InputTypes
<1>3. /\ Dist(w, e) = Dist(w, e') + 1 /\ Dist(w, e') \in Nat
      /\ Dist(r, w) \in Nat
  <2>1. /\ Dist(w, e') \in 0 .. MOD - 1 /\ Dist(r, w) \in 0 .. MOD - 1
        /\ Dist(w, e) \in 0 .. MOD - 1
    BY <1>1, DistIs, Zenon DEF InputTypes
  <2>. QED
    BY <1>1, <2>1, InputSizes
<1>4. Dist(r, w)' = Dist(r, w) /\ Dist(w, e)' = Dist(w, e')
  BY Zenon DEF Dist
<1>5. InputInv'
  <2>1. PICK x \in Nat, y \in Nat : x = Dist(r, w) /\ y = Dist(w, e')
    BY <1>3, Zenon
  <2>2. x + (y + 1) <= INPUT_BUF
    BY <1>3, <2>1, Zenon
  <2>3. x + y <= INPUT_BUF
    BY <2>2, InputSizes
  <2>. QED
    BY <1>2, <1>4, <2>1, <2>3, Zenon
<1>6. Between(r, w)' = Between(r, w)
  BY Zenon DEF Between
<1>7. FrontOf(Between(w, e)', Between(w, e))
  <2>1. /\ SlotsIn(buf, INPUT_BUF, Held) /\ w \in Nat
        /\ Between(w, e) = Window(buf, w, Dist(w, e), INPUT_BUF)
    BY InputWindows, Zenon
  <2>2. Between(w, e)' = Window(buf, w, Dist(w, e'), INPUT_BUF)
    BY Zenon DEF Between, Window, Dist
  <2>3. FrontOf(Window(buf, w, Dist(w, e'), INPUT_BUF), Window(buf, w, Dist(w, e') + 1, INPUT_BUF))
    BY <1>3, <2>1, InputSizes, WindowFront, Zenon
  <2>. QED
    BY <1>3, <2>1, <2>2, <2>3, Zenon
<1>8. Queue!Erase
  BY <1>6, <1>7, Zenon DEF Queue!Erase, FrontOf
<1>. QED
  BY <1>5, <1>8, Zenon DEF QueueStep, Queue!Next

(* consoleread() takes a character.                                        *)
LEMMA ReadStep ==
  ASSUME InputInv, r # w, r' = (r + 1) % MOD, UNCHANGED <<buf, w, e>>
  PROVE  InputInv' /\ QueueStep
<1>. USE DEF InputInv
<1>1. r' \in 0 .. MOD - 1 /\ Dist(r', w) = Dist(r, w) - 1
  BY DistStep, Zenon DEF InputTypes
<1>2. InputTypes'
  BY <1>1, Zenon DEF InputTypes
<1>3. /\ Dist(r, w) = Dist(r', w) + 1 /\ Dist(r', w) \in Nat
      /\ Dist(w, e) \in Nat
  <2>1. /\ Dist(r', w) \in 0 .. MOD - 1 /\ Dist(r, w) \in 0 .. MOD - 1
        /\ Dist(w, e) \in 0 .. MOD - 1
    BY <1>1, DistIs, Zenon DEF InputTypes
  <2>. QED
    BY <1>1, <2>1, InputSizes
<1>4. Dist(r, w)' = Dist(r', w) /\ Dist(w, e)' = Dist(w, e)
  BY Zenon DEF Dist
<1>5. InputInv'
  <2>1. PICK x \in Nat, y \in Nat : x = Dist(r', w) /\ y = Dist(w, e)
    BY <1>3, Zenon
  <2>2. x + 1 + y <= INPUT_BUF
    BY <1>3, <2>1, Zenon
  <2>3. x + y <= INPUT_BUF
    BY <2>2, InputSizes
  <2>. QED
    BY <1>2, <1>4, <2>1, <2>3, Zenon
<1>6. Between(w, e)' = Between(w, e)
  BY Zenon DEF Between
<1>7. RestOf(Between(r, w)', Between(r, w))
  <2>1. /\ SlotsIn(buf, INPUT_BUF, Held) /\ r \in Nat /\ r' \in Nat
        /\ Between(r, w) = Window(buf, r, Dist(r, w), INPUT_BUF)
    BY <1>1, InputWindows
  <2>2. Between(r, w)' = Window(buf, r', Dist(r', w), INPUT_BUF)
    BY Zenon DEF Between, Window, Dist
  <2>3. SameSlots(r', r + 1, INPUT_BUF)
    <3>1. MOD % INPUT_BUF = 0
      BY InputConstants, Zenon DEF InputConstants
    <3>. QED
      BY <3>1, InputSizes, SlotsOfNext, Zenon DEF InputTypes
  <2>4. RestOf(Window(buf, r', Dist(r', w), INPUT_BUF), Window(buf, r, Dist(r', w) + 1, INPUT_BUF))
    BY <1>3, <2>1, <2>3, InputSizes, WindowDrop, Zenon
  <2>. QED
    BY <1>3, <2>1, <2>2, <2>4, Zenon
<1>8. Queue!Read
  BY <1>6, <1>7, Zenon DEF Queue!Read, RestOf
<1>. QED
  BY <1>5, <1>8, Zenon DEF QueueStep, Queue!Next

(* A character typed, with room in the ring, goes to the end of the line;  *)
(* a newline, ^D or the last free slot finishes the line.                  *)
LEMMA TypeStep ==
  ASSUME InputInv, NEW ch \in Chars \cup Ends, ~Full(INPUT_BUF), r' = r,
         buf' = [buf EXCEPT ![e % INPUT_BUF] = ch], e' = (e + 1) % MOD,
         w' = IF ch \in Ends \/ e' = (r + INPUT_BUF) % MOD THEN e' ELSE w
  PROVE  InputInv' /\ QueueStep
<1>. USE DEF InputInv
<1>1. PICK x \in Nat, y \in Nat : x = Dist(r, w) /\ y = Dist(w, e)
  BY InputWindows, Zenon
<1>2. x + y < INPUT_BUF /\ Dist(r, e) = x + y
  <2>1. /\ x = (IF w >= r THEN w - r ELSE w - r + MOD)
        /\ y = (IF e >= w THEN e - w ELSE e - w + MOD)
        /\ Dist(r, e) = (IF e >= r THEN e - r ELSE e - r + MOD)
    BY <1>1, DistIs, Zenon DEF InputTypes
  <2>2. x + y <= INPUT_BUF
    BY <1>1, Zenon
  <2>3. Dist(r, e) = x + y
    BY <2>1, <2>2, InputSizes DEF InputTypes
  <2>4. Dist(r, e) < INPUT_BUF
    BY <2>2, <2>3, InputSizes DEF Full, Dist
  <2>. QED
    BY <2>3, <2>4, Zenon
<1>3. /\ e' \in 0 .. MOD - 1
      /\ Dist(w, e') = y + 1 /\ Dist(r, e') = x + y + 1
  <2>1. y < MOD - 1 /\ x + y < MOD - 1
    BY <1>2, InputSizes
  <2>. QED
    BY <1>1, <1>2, <2>1, DistStep DEF InputTypes
<1>4. (e' = (r + INPUT_BUF) % MOD) <=> (x + y + 1 = INPUT_BUF)
  <2>1. (r + INPUT_BUF) % MOD = IF r + INPUT_BUF < MOD THEN r + INPUT_BUF ELSE r + INPUT_BUF - MOD
    <3>1. INPUT_BUF \in 0 .. MOD - 1
      BY InputSizes
    <3>. QED
      BY <3>1, InputSizes, Ahead, Zenon DEF InputTypes
  <2>2. x + y + 1 = IF e' >= r THEN e' - r ELSE e' - r + MOD
    BY <1>3, DistIs, Zenon DEF InputTypes
  <2>3. r \in 0 .. MOD - 1 /\ e' \in 0 .. MOD - 1
    BY <1>3, Zenon DEF InputTypes
  <2>. QED
    BY <2>1, <2>2, <2>3, InputSizes
<1>5. e % INPUT_BUF \in 0 .. INPUT_BUF - 1
  BY InputSizes, DivMod DEF InputTypes
<1>6. InputTypes'
  BY <1>3, <1>5, Zenon DEF InputTypes, Held
<1>7. Put(buf', buf, (w + y) % INPUT_BUF, ch, INPUT_BUF)
  <2>1. e % INPUT_BUF = (w + y) % INPUT_BUF
    BY <1>1, DistSlots, Zenon DEF InputTypes
  <2>. QED
    BY <1>5, <2>1, Zenon DEF InputTypes, Put
<1>8. SameSlots(w, r + x, INPUT_BUF)
  BY <1>1, DistSlots, Zenon DEF InputTypes
<1>9. SlotsIn(buf, INPUT_BUF, Held) /\ r \in Nat /\ w \in Nat /\ ch \in Held
  BY InputWindows, Zenon DEF Held
<1>. DEFINE done == Window(buf, r, x, INPUT_BUF)
            line == Window(buf, w, y, INPUT_BUF)
            long == Window(buf', w, y + 1, INPUT_BUF)
            all  == Window(buf', r, x + (y + 1), INPUT_BUF)
<1>10. /\ Window(buf', r, x, INPUT_BUF) = done
       /\ AddOf(long, line, ch) /\ JoinOf(all, done, long)
  <2>1. ASSUME NEW g, NEW f, NEW i \in Nat, NEW j \in Nat, NEW c \in Held,
               SlotsIn(f, INPUT_BUF, Held), SameSlots(j, i + x, INPUT_BUF),
               Put(g, f, (j + y) % INPUT_BUF, c, INPUT_BUF)
        PROVE  /\ Window(g, i, x, INPUT_BUF) = Window(f, i, x, INPUT_BUF)
               /\ AddOf(Window(g, j, y + 1, INPUT_BUF), Window(f, j, y, INPUT_BUF), c)
               /\ JoinOf(Window(g, i, x + (y + 1), INPUT_BUF), Window(f, i, x, INPUT_BUF),
                         Window(g, j, y + 1, INPUT_BUF))
    BY <1>2, <2>1, InputSizes, WindowsPut, Zenon
  <2>2. PICK g, f, c : g = buf' /\ f = buf /\ c = ch
    BY Zenon
  <2>3. /\ Put(g, f, (w + y) % INPUT_BUF, c, INPUT_BUF) /\ SlotsIn(f, INPUT_BUF, Held) /\ c \in Held
    BY <1>7, <1>9, <2>2, Zenon
  <2>. QED
    BY <1>8, <1>9, <2>1, <2>2, <2>3, Zenon
<1>11. Between(r, w) = done /\ Between(w, e) = line
  BY <1>1, InputWindows, Zenon
<1>12. done \in Seq(Held) /\ line \in Seq(Held) /\ Len(done) = x /\ Len(line) = y
  BY <1>9, InputSizes, WindowType
<1>. HIDE DEF done, line, long, all
<1>13. Len(done \o line) < INPUT_BUF
  BY <1>2, <1>12
<1>14. Len(done \o Append(line, ch)) = x + (y + 1)
  BY <1>9, <1>12
<1>15. CASE ch \in Ends \/ e' = (r + INPUT_BUF) % MOD
  <2>1. w' = e' /\ Dist(w, e)' = 0 /\ Dist(r, w)' = x + (y + 1)
    <3>1. Dist(e', e') = 0
      BY <1>3, DistIs, Zenon
    <3>2. w' = e'
      BY <1>15, Zenon
    <3>. QED
      BY <1>3, <3>1, <3>2 DEF Dist
  <2>2. InputInv'
    BY <1>2, <1>6, <2>1, InputSizes
  <2>3. Between(w, e)' = <<>>
    <3>1. Between(w, e)' = Window(buf', w', Dist(w, e)', INPUT_BUF)
      BY Zenon DEF Between, Window, Dist
    <3>. QED
      BY <2>1, <3>1, WindowEmpty, Zenon
  <2>4. Between(r, w)' = all
    <3>1. Between(r, w)' = Window(buf', r', Dist(r, w)', INPUT_BUF)
      BY Zenon DEF Between, Window, Dist
    <3>. QED
      BY <2>1, <3>1, Zenon DEF all
  <2>5. ch \in Ends \/ Len(done \o Append(line, ch)) = INPUT_BUF
    BY <1>4, <1>14, <1>15
  <2>6. Between(r, w)' = done \o Append(line, ch)
    BY <1>10, <2>4, Zenon DEF AddOf, JoinOf
  <2>7. Queue!Type(ch)
    BY <1>11, <1>13, <2>3, <2>5, <2>6, Zenon DEF Queue!Type
  <2>. QED
    BY <2>2, <2>7, Zenon DEF QueueStep, Queue!Next
<1>16. CASE ~(ch \in Ends \/ e' = (r + INPUT_BUF) % MOD)
  <2>1. w' = w /\ Dist(w, e)' = y + 1 /\ Dist(r, w)' = x
    <3>1. w' = w
      BY <1>16, Zenon
    <3>. QED
      BY <1>1, <1>3, <3>1, Zenon DEF Dist
  <2>2. InputInv'
    BY <1>2, <1>6, <2>1, InputSizes
  <2>3. Between(w, e)' = long
    <3>1. Between(w, e)' = Window(buf', w', Dist(w, e)', INPUT_BUF)
      BY Zenon DEF Between, Window, Dist
    <3>. QED
      BY <2>1, <3>1, Zenon DEF long
  <2>4. Between(r, w)' = done
    <3>1. Between(r, w)' = Window(buf', r', Dist(r, w)', INPUT_BUF)
      BY Zenon DEF Between, Window, Dist
    <3>. QED
      BY <1>10, <2>1, <3>1, Zenon
  <2>5. ~(ch \in Ends \/ Len(done \o Append(line, ch)) = INPUT_BUF)
    BY <1>4, <1>14, <1>16
  <2>6. Between(w, e)' = Append(line, ch)
    BY <1>10, <2>3, Zenon DEF AddOf
  <2>7. Queue!Type(ch)
    BY <1>11, <1>13, <2>4, <2>5, <2>6, Zenon DEF Queue!Type
  <2>. QED
    BY <2>2, <2>7, Zenon DEF QueueStep, Queue!Next
<1>. QED
  BY <1>15, <1>16, Zenon

(* Every step of the console's input is one of these, or none.             *)
LEMMA InputStep ==
  ASSUME InputInv, [Next]_vars
  PROVE  InputInv' /\ QueueStep
<1>1. CASE consoleintr
  <2>1. PICK ch \in Chars \cup Ends \cup {"kill", "bs"} : Key(ch, Full(INPUT_BUF), TRUE)
    BY <1>1, Zenon DEF consoleintr, Consoleintr
  <2>2. r' = r
    BY <1>1, Zenon DEF consoleintr, Consoleintr
  <2>3. CASE ch = "kill"
    BY <2>1, <2>2, <2>3, KillStep, Zenon DEF Key
  <2>4. CASE ch = "bs"
    BY <2>1, <2>2, <2>4, EraseStep, InputSame, Zenon DEF Key
  <2>5. CASE ch \notin {"kill", "bs"} /\ Full(INPUT_BUF)
    BY <2>1, <2>2, <2>5, InputSame, Zenon DEF Key
  <2>6. CASE ch \notin {"kill", "bs"} /\ ~Full(INPUT_BUF)
    <3>1. ch \in Chars \cup Ends
      BY <2>6, Zenon
    <3>2. /\ buf' = [buf EXCEPT ![e % INPUT_BUF] = ch] /\ e' = (e + 1) % MOD
          /\ w' = IF ch \in Ends \/ e' = (r + INPUT_BUF) % MOD THEN e' ELSE w
      BY <2>1, <2>6, Zenon DEF Key
    <3>. QED
      BY <2>2, <2>6, <3>1, <3>2, TypeStep, Zenon
  <2>. QED
    BY <2>3, <2>4, <2>5, <2>6, Zenon
<1>2. CASE \E t \in Threads, c \in CPUs : read(t, c)
  <2>1. r # w /\ (r' = r \/ r' = (r + 1) % MOD) /\ UNCHANGED <<buf, w, e>>
    BY <1>2, Zenon DEF read
  <2>. QED
    BY <2>1, InputSame, ReadStep, Zenon
<1>3. CASE ~consoleintr /\ ~(\E t \in Threads, c \in CPUs : read(t, c))
  <2>. USE DEF input
  <2>1. CASE UNCHANGED vars \/ interrupt \/ \E t \in Readers : kill(t)
    BY <2>1, InputSame, ZenonT(30) DEF vars, interrupt, kill
  <2>2. CASE \E c \in CPUs, t \in Threads : \/ yield(t, c) \/ schedule(t, c) \/ consoleread(t, c)
                                            \/ consolewrite(t, c) \/ read_empty(t, c)
                                            \/ sleep(t, c) \/ read_killed(t, c)
    BY ZenonT(30), <2>2, InputSame DEF yield, schedule, consoleread, consolewrite, read_empty, sleep, read_killed
  <2>3. CASE \E c \in CPUs, a \in Actors : \/ readeflags(a, c) \/ pushcli(a, c) \/ xchg(a, c)
                                           \/ release(a, c) \/ finish(a, c)
    BY <2>3, InputSame DEF readeflags, pushcli, Pushcli, xchg, release, finish
  <2>. QED
    BY <1>3, <2>1, <2>2, <2>3, Zenon DEF Next
<1>. QED
  BY <1>1, <1>2, <1>3, Zenon

(* consoleintr() and consoleread() keep the three indices in order around  *)
(* the ring, with at most INPUT_BUF characters between the first and the   *)
(* last, also when they wrap.                                              *)
THEOREM InputRing == Spec => []InputInv
<1>1. Init => InputInv
  <2>1. ASSUME Init PROVE InputTypes
    BY <2>1, InputSizes DEF Init, InputTypes, Held
  <2>2. Dist(0, 0) = 0
    BY InputSizes, DistIs
  <2>. QED
    BY <2>1, <2>2, InputSizes DEF Init, InputInv
<1>2. InputInv /\ [Next]_vars => InputInv'
  BY InputStep, Zenon
<1>. QED
  BY <1>1, <1>2, PTL DEF Spec

(* The console's input implements the queue of lines: what is read is what *)
(* was typed, less what was erased, in order, whatever the interleaving of *)
(* keys and readers and the size of the ring.                              *)
THEOREM InputIsLineQueue == Spec => Lines
<1>1. Init => Queue!Init
  <2>1. Dist(0, 0) = 0
    BY InputSizes, DistIs
  <2>2. Between(0, 0) = Window(buf, 0, Dist(0, 0), INPUT_BUF)
    BY Zenon DEF Between, Window, Dist
  <2>. QED
    BY <2>1, <2>2, WindowEmpty, Zenon DEF Init, Queue!Init
<1>2. InputInv /\ [Next]_vars => [Queue!Next]_<<Between(r, w), Between(w, e)>>
  BY InputStep, Zenon DEF QueueStep
<1>. QED
  BY <1>1, <1>2, InputRing, PTL DEF Spec, Lines, Queue!Spec
=============================================================================
