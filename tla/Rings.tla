------------------------------- MODULE Rings -------------------------------
(***************************************************************************)
(* Arithmetic of ring buffers whose counters wrap: a counter modulo M, and *)
(* the slot it stands for modulo P, where P divides M.  The pipe and the   *)
(* console's input ring use it.                                            *)
(***************************************************************************)
EXTENDS Integers, SequenceTheorems, TLAPS

(* Division with remainder.                                                *)
LEMMA DivMod ==
  ASSUME NEW P \in Nat \ {0}, NEW a \in Nat
  PROVE  /\ a = P * (a \div P) + (a % P)
         /\ a % P \in 0 .. P - 1 /\ a \div P \in Nat
  OBVIOUS

(* The remainder is the only one.                                          *)
LEMMA ModUnique ==
  ASSUME NEW P \in Nat \ {0}, NEW q \in Nat, NEW r \in 0 .. P - 1
  PROVE  (P * q + r) % P = r
  OBVIOUS

(* Counters less than a turn apart stand for different slots.              *)
LEMMA ModDistinct ==
  ASSUME NEW P \in Nat \ {0}, NEW a \in Nat, NEW b \in Nat, a < b, b < a + P
  PROVE  a % P # b % P
<1>1. SUFFICES ASSUME a % P = b % P PROVE FALSE
  BY Zenon
<1>2. PICK qa \in Nat : a = P * qa + (a % P)
  BY DivMod, Zenon
<1>3. PICK qb \in Nat : b = P * qb + (b % P)
  BY DivMod, Zenon
<1>4. qb - qa \in Int /\ b - a = P * (qb - qa)
  BY <1>1, <1>2, <1>3
<1>5. qb - qa >= 1 => P * (qb - qa) >= P
  BY <1>4
<1>6. qb - qa <= 0 => P * (qb - qa) <= 0
  BY <1>4
<1>. QED
  BY <1>4, <1>5, <1>6

(* A whole number of turns changes no slot.                                *)
LEMMA ModWrap ==
  ASSUME NEW P \in Nat \ {0}, NEW M \in Nat, M % P = 0, NEW a \in Nat
  PROVE  (M + a) % P = a % P
<1>. DEFINE q == M \div P d == a \div P r == a % P
<1>1. M = P * q /\ a = P * d + r /\ q \in Nat /\ d \in Nat /\ r \in 0 .. P - 1
  BY DivMod
<1>2. M + a = P * (q + d) + r /\ q + d \in Nat
  BY <1>1
<1>. QED
  BY ZenonT(30), <1>1, <1>2, ModUnique

(* The counters' own arithmetic: a sum of less than two turns.             *)
LEMMA ModOnce ==
  ASSUME NEW M \in Nat \ {0}, NEW a \in 0 .. 2 * M - 1
  PROVE  a % M = IF a < M THEN a ELSE a - M
<1>1. CASE a < M
  <2>1. a = M * 0 + a
    OBVIOUS
  <2>. QED
    BY <1>1, <2>1, ModUnique
<1>2. CASE ~(a < M)
  <2>1. a = M * 1 + (a - M) /\ a - M \in 0 .. M - 1
    BY <1>2
  <2>. QED
    BY <1>2, <2>1, ModUnique
<1>. QED
  BY <1>1, <1>2, Zenon

(* One step of a counter.                                                  *)
LEMMA ModNext ==
  ASSUME NEW M \in Nat \ {0}, NEW a \in 0 .. M - 1
  PROVE  /\ (a + 1) % M = IF a + 1 = M THEN 0 ELSE a + 1
         /\ (a + 1) % M \in 0 .. M - 1
<1>. DEFINE c == a + 1
<1>1. c \in 0 .. 2 * M - 1
  OBVIOUS
<1>2. c % M = IF c < M THEN c ELSE c - M
  <2>. HIDE DEF c
  <2>. QED
    BY <1>1, ModOnce, Zenon
<1>. QED
  BY <1>1, <1>2

(* How far the counter w is ahead of r.                                    *)
LEMMA Distance ==
  ASSUME NEW M \in Nat \ {0}, NEW r \in 0 .. M - 1, NEW w \in 0 .. M - 1
  PROVE  (w + M - r) % M = IF w >= r THEN w - r ELSE w + M - r
<1>. DEFINE c == w + M - r
<1>1. c \in 0 .. 2 * M - 1
  OBVIOUS
<1>2. c % M = IF c < M THEN c ELSE c - M
  <2>. HIDE DEF c
  <2>. QED
    BY <1>1, ModOnce, Zenon
<1>. QED
  BY <1>1, <1>2

(* The counter that is k ahead of r.                                       *)
LEMMA Ahead ==
  ASSUME NEW M \in Nat \ {0}, NEW r \in 0 .. M - 1, NEW k \in 0 .. M - 1
  PROVE  (r + k) % M = IF r + k < M THEN r + k ELSE r + k - M
<1>. DEFINE c == r + k
<1>1. c \in 0 .. 2 * M - 1
  OBVIOUS
<1>2. c % M = IF c < M THEN c ELSE c - M
  <2>. HIDE DEF c
  <2>. QED
    BY <1>1, ModOnce, Zenon
<1>. QED
  BY <1>1, <1>2

(* A counter taken modulo M stands for the same slot.                      *)
LEMMA SlotOfCounter ==
  ASSUME NEW P \in Nat \ {0}, NEW M \in Nat \ {0}, M % P = 0,
         NEW a \in 0 .. 2 * M - 1
  PROVE  (a % M) % P = a % P
<1>1. CASE a < M
  BY <1>1, ModOnce, Zenon
<1>2. CASE ~(a < M)
  <2>1. a % M = a - M
    BY <1>2, ModOnce, Zenon
  <2>2. a - M \in Nat
    BY <1>2
  <2>3. (M + (a - M)) % P = (a - M) % P
    BY <2>2, ModWrap, Zenon
  <2>4. M + (a - M) = a
    OBVIOUS
  <2>. QED
    BY <2>1, <2>3, <2>4, Zenon
<1>. QED
  BY <1>1, <1>2, Zenon

-----------------------------------------------------------------------------
(* The c elements of the ring f with P slots from the counter r on.        *)
Window(f, r, c, P) == [k \in 1 .. c |-> f[(r + k - 1) % P]]

(* Every counter has a slot.                                               *)
LEMMA SlotRange ==
  ASSUME NEW P \in Nat \ {0}, NEW r \in Nat, NEW k \in Nat \ {0}
  PROVE  (r + k - 1) % P \in 0 .. P - 1
<1>. DEFINE a == r + k - 1
<1>1. a \in Nat
  OBVIOUS
<1>2. a % P \in 0 .. P - 1
  <2>. HIDE DEF a
  <2>. QED
    BY <1>1, DivMod, Zenon
<1>. QED
  BY <1>2, Zenon

(* What the slots of the ring hold.                                        *)
SlotsIn(f, P, S) == \A j \in 0 .. P - 1 : f[j] \in S

(* A window is a sequence of what the ring holds.                          *)
LEMMA WindowType ==
  ASSUME NEW P \in Nat \ {0}, NEW S, NEW f, SlotsIn(f, P, S),
         NEW r \in Nat, NEW c \in Nat
  PROVE  Window(f, r, c, P) \in Seq(S) /\ Len(Window(f, r, c, P)) = c
<1>1. \A k \in 1 .. c : f[(r + k - 1) % P] \in S
  BY SlotRange DEF SlotsIn
<1>. QED
  BY <1>1 DEF Window

(* The window of no elements.                                              *)
LEMMA WindowEmpty == ASSUME NEW P, NEW f, NEW r PROVE Window(f, r, 0, P) = <<>>
  BY DEF Window

(* g is f with v in the slot at.                                           *)
Put(g, f, at, v, P) == \A j \in 0 .. P - 1 : g[j] = IF j = at THEN v ELSE f[j]

(* t is s with v added at its end.                                         *)
AddOf(t, s, v) == t = Append(s, v)

(* Filling the slot after the window lengthens it by one element.          *)
LEMMA WindowPut ==
  ASSUME NEW P \in Nat \ {0}, NEW S, NEW f, SlotsIn(f, P, S),
         NEW r \in Nat, NEW c \in 0 .. P - 1, NEW v \in S, NEW g,
         Put(g, f, (r + c) % P, v, P)
  PROVE  AddOf(Window(g, r, c + 1, P), Window(f, r, c, P), v)
<1>. DEFINE old == Window(f, r, c, P)
            new == Window(g, r, c + 1, P)
<1>1. old \in Seq(S) /\ Len(old) = c
  BY WindowType
<1>2. SlotsIn(g, P, S)
  BY Zenon DEF SlotsIn, Put
<1>3. new \in Seq(S) /\ Len(new) = c + 1
  <2>1. c + 1 \in Nat
    OBVIOUS
  <2>. QED
    BY <1>2, <2>1, WindowType
<1>4. ASSUME NEW k \in 1 .. c PROVE new[k] = old[k]
  <2>1. new[k] = g[(r + k - 1) % P] /\ old[k] = f[(r + k - 1) % P]
    BY DEF Window
  <2>2. (r + k - 1) % P \in 0 .. P - 1
    BY SlotRange
  <2>3. (r + k - 1) % P # (r + c) % P
    <3>1. /\ r + k - 1 \in Nat /\ r + c \in Nat
          /\ r + k - 1 < r + c /\ r + c < r + k - 1 + P
      OBVIOUS
    <3>. QED
      BY <3>1, ModDistinct, Zenon
  <2>. QED
    BY <2>1, <2>2, <2>3, Zenon DEF Put
<1>5. new[c + 1] = v
  <2>1. r + (c + 1) - 1 = r + c
    OBVIOUS
  <2>2. new[c + 1] = g[(r + c) % P]
    BY <2>1 DEF Window
  <2>3. (r + c) % P \in 0 .. P - 1
    BY <2>1, SlotRange
  <2>. QED
    BY <2>2, <2>3, Zenon DEF Put
<1>. HIDE DEF old, new
<1>6. new = Append(old, v)
  <2>1. Append(old, v) \in Seq(S) /\ Len(Append(old, v)) = c + 1
        /\ \A k \in 1 .. c : Append(old, v)[k] = old[k]
        /\ Append(old, v)[c + 1] = v
    BY <1>1, AppendProperties
  <2>2. \A k \in 1 .. c + 1 : new[k] = Append(old, v)[k]
    BY <1>4, <1>5, <2>1
  <2>. QED
    BY <1>3, <2>1, <2>2, SeqEqual, Zenon
<1>. QED
  BY <1>6, Zenon DEF old, new, AddOf

(* The counters from q on stand for the same slots as those from r on.     *)
SameSlots(q, r, P) == \A k \in Nat : (q + k) % P = (r + k) % P

(* t is the rest of s.                                                     *)
RestOf(t, s) == s # <<>> /\ t = Tail(s)

(* Moving the first counter on by one drops the first element.             *)
LEMMA WindowDrop ==
  ASSUME NEW P \in Nat \ {0}, NEW S, NEW f, SlotsIn(f, P, S),
         NEW r \in Nat, NEW q \in Nat, NEW c \in Nat, SameSlots(q, r + 1, P)
  PROVE  RestOf(Window(f, q, c, P), Window(f, r, c + 1, P))
<1>. DEFINE old == Window(f, r, c + 1, P)
            new == Window(f, q, c, P)
<1>1. old \in Seq(S) /\ Len(old) = c + 1
  <2>1. c + 1 \in Nat
    OBVIOUS
  <2>. QED
    BY <2>1, WindowType
<1>2. new \in Seq(S) /\ Len(new) = c
  BY WindowType
<1>3. ASSUME NEW k \in 1 .. c PROVE (q + k - 1) % P = (r + (k + 1) - 1) % P
  <2>1. k - 1 \in Nat /\ q + k - 1 = q + (k - 1) /\ r + (k + 1) - 1 = r + 1 + (k - 1)
    OBVIOUS
  <2>. QED
    BY <2>1, Zenon DEF SameSlots
<1>. HIDE DEF old, new
<1>4. old # <<>>
  BY <1>1
<1>5. Tail(old) \in Seq(S) /\ Len(Tail(old)) = c
      /\ \A k \in 1 .. c : Tail(old)[k] = old[k + 1]
  BY <1>1, <1>4, HeadTailProperties
<1>6. ASSUME NEW k \in 1 .. c PROVE new[k] = Tail(old)[k]
  <2>1. new[k] = f[(q + k - 1) % P]
    BY Zenon DEF new, Window
  <2>2. k + 1 \in 1 .. c + 1 /\ old[k + 1] = f[(r + (k + 1) - 1) % P]
    BY DEF old, Window
  <2>. QED
    BY <1>3, <1>5, <2>1, <2>2, Zenon
<1>7. new = Tail(old)
  BY <1>2, <1>5, <1>6, SeqEqual, Zenon
<1>. QED
  BY <1>4, <1>7, Zenon DEF old, new, RestOf

(* A counter taken modulo M stands for the same slots.                     *)
LEMMA SlotsOfCounter ==
  ASSUME NEW P \in Nat \ {0}, NEW M \in Nat \ {0}, M % P = 0,
         NEW a \in 0 .. 2 * M - 1
  PROVE  SameSlots(a % M, a, P)
<1>. SUFFICES ASSUME NEW k \in Nat
              PROVE  ((a % M) + k) % P = (a + k) % P
  BY Zenon DEF SameSlots
<1>1. CASE a < M
  BY <1>1, ModOnce, Zenon
<1>2. CASE ~(a < M)
  <2>1. a % M = a - M
    BY <1>2, ModOnce, Zenon
  <2>2. a - M + k \in Nat
    BY <1>2
  <2>3. (M + (a - M + k)) % P = (a - M + k) % P
    BY <2>2, ModWrap, Zenon
  <2>4. M + (a - M + k) = a + k
    OBVIOUS
  <2>. QED
    BY <2>1, <2>3, <2>4, Zenon
<1>. QED
  BY <1>1, <1>2, Zenon

(* In particular the counter after r.                                      *)
LEMMA SlotsOfNext ==
  ASSUME NEW P \in Nat \ {0}, NEW M \in Nat \ {0}, M % P = 0,
         NEW r \in 0 .. M - 1
  PROVE  SameSlots((r + 1) % M, r + 1, P)
<1>. DEFINE a == r + 1
<1>1. a \in 0 .. 2 * M - 1
  OBVIOUS
<1>2. SameSlots(a % M, a, P)
  <2>. HIDE DEF a
  <2>. QED
    BY <1>1, SlotsOfCounter, Zenon
<1>. QED
  BY <1>2, Zenon

(* The slot at is d places after the one of r.                             *)
SlotAfter(at, r, d, P) == at = (r + d) % P

(* A slot after the window can be filled without changing the window.      *)
LEMMA WindowKeep ==
  ASSUME NEW P \in Nat \ {0}, NEW f, NEW g, NEW v, NEW r \in Nat,
         NEW d \in 0 .. P - 1, NEW c \in 0 .. d,
         NEW at, SlotAfter(at, r, d, P), Put(g, f, at, v, P)
  PROVE  Window(g, r, c, P) = Window(f, r, c, P)
<1>1. ASSUME NEW k \in 1 .. c PROVE g[(r + k - 1) % P] = f[(r + k - 1) % P]
  <2>1. (r + k - 1) % P \in 0 .. P - 1
    BY SlotRange
  <2>2. (r + k - 1) % P # (r + d) % P
    <3>1. /\ r + k - 1 \in Nat /\ r + d \in Nat
          /\ r + k - 1 < r + d /\ r + d < r + k - 1 + P
      OBVIOUS
    <3>. QED
      BY <3>1, ModDistinct, Zenon
  <2>. QED
    BY <2>1, <2>2, Zenon DEF Put, SlotAfter
<1>. QED
  BY <1>1, Zenon DEF Window

(* t is s without its last element.                                        *)
FrontOf(t, s) == s # <<>> /\ t = SubSeq(s, 1, Len(s) - 1)

(* A window that is shorter by one has lost its last element.              *)
LEMMA WindowFront ==
  ASSUME NEW P \in Nat \ {0}, NEW S, NEW f, SlotsIn(f, P, S),
         NEW r \in Nat, NEW c \in Nat
  PROVE  FrontOf(Window(f, r, c, P), Window(f, r, c + 1, P))
<1>. DEFINE old == Window(f, r, c + 1, P)
            new == Window(f, r, c, P)
<1>1. old \in Seq(S) /\ Len(old) = c + 1
  <2>1. c + 1 \in Nat
    OBVIOUS
  <2>. QED
    BY <2>1, WindowType
<1>2. new \in Seq(S) /\ Len(new) = c
  BY WindowType
<1>3. \A k \in 1 .. c : new[k] = old[k]
  BY DEF Window
<1>. HIDE DEF old, new
<1>4. SubSeq(old, 1, c) \in Seq(S) /\ Len(SubSeq(old, 1, c)) = c
      /\ \A k \in 1 .. c : SubSeq(old, 1, c)[k] = old[k]
  BY <1>1
<1>5. new = SubSeq(old, 1, c)
  BY <1>2, <1>3, <1>4, SeqEqual, Zenon
<1>6. old # <<>> /\ Len(old) - 1 = c
  BY <1>1
<1>. QED
  BY <1>5, <1>6, Zenon DEF old, new, FrontOf

(* t is the sequence s followed by u.                                      *)
JoinOf(t, s, u) == t = s \o u

(* Two adjacent windows make one.                                          *)
LEMMA WindowJoin ==
  ASSUME NEW P \in Nat \ {0}, NEW S, NEW f, SlotsIn(f, P, S),
         NEW r \in Nat, NEW q \in Nat, NEW c \in Nat, NEW d \in Nat,
         SameSlots(q, r + c, P)
  PROVE  JoinOf(Window(f, r, c + d, P), Window(f, r, c, P), Window(f, q, d, P))
<1>. DEFINE one == Window(f, r, c + d, P)
            s == Window(f, r, c, P)
            u == Window(f, q, d, P)
<1>1. one \in Seq(S) /\ Len(one) = c + d
  <2>1. c + d \in Nat
    OBVIOUS
  <2>. QED
    BY <2>1, WindowType
<1>2. s \in Seq(S) /\ Len(s) = c
  BY WindowType
<1>3. u \in Seq(S) /\ Len(u) = d
  BY WindowType
<1>4. \A k \in 1 .. c : one[k] = s[k]
  BY DEF Window
<1>5. ASSUME NEW k \in c + 1 .. c + d PROVE one[k] = u[k - c]
  <2>1. /\ k - c - 1 \in Nat /\ k \in 1 .. c + d /\ k - c \in 1 .. d
        /\ q + (k - c) - 1 = q + (k - c - 1) /\ r + k - 1 = r + c + (k - c - 1)
    OBVIOUS
  <2>2. (q + (k - c) - 1) % P = (r + k - 1) % P
    BY <2>1, Zenon DEF SameSlots
  <2>3. one[k] = f[(r + k - 1) % P] /\ u[k - c] = f[(q + (k - c) - 1) % P]
    BY <2>1, Zenon DEF Window
  <2>. QED
    BY <2>2, <2>3, Zenon
<1>. HIDE DEF one, s, u
<1>6. /\ s \o u \in Seq(S) /\ Len(s \o u) = c + d
      /\ \A k \in 1 .. c + d : (s \o u)[k] = IF k <= c THEN s[k] ELSE u[k - c]
  BY ZenonT(30), <1>2, <1>3, ConcatProperties
<1>7. \A k \in 1 .. c + d : one[k] = (s \o u)[k]
  BY <1>4, <1>5, <1>6
<1>8. one = s \o u
  BY <1>1, <1>6, <1>7, SeqEqual, Zenon
<1>. QED
  BY <1>8, Zenon DEF one, s, u, JoinOf

(* Two adjacent windows, of x elements from r on and y from q on, when the *)
(* slot after the second is filled: the first stays, the second grows, and *)
(* so do both as one.                                                      *)
LEMMA WindowsPut ==
  ASSUME NEW P \in Nat \ {0}, NEW S, NEW f, SlotsIn(f, P, S),
         NEW r \in Nat, NEW q \in Nat, NEW x \in Nat, NEW y \in Nat, x + y < P,
         SameSlots(q, r + x, P), NEW v \in S, NEW g, Put(g, f, (q + y) % P, v, P)
  PROVE  /\ Window(g, r, x, P) = Window(f, r, x, P)
         /\ AddOf(Window(g, q, y + 1, P), Window(f, q, y, P), v)
         /\ JoinOf(Window(g, r, x + (y + 1), P), Window(f, r, x, P), Window(g, q, y + 1, P))
<1>1. (q + y) % P = (r + (x + y)) % P
  <2>1. r + x + y = r + (x + y)
    OBVIOUS
  <2>. QED
    BY <2>1, Zenon DEF SameSlots
<1>2. Window(g, r, x, P) = Window(f, r, x, P)
  <2>1. PICK d \in 0 .. P - 1 : d = x + y
    OBVIOUS
  <2>2. x \in 0 .. d /\ SlotAfter((q + y) % P, r, d, P)
    BY <1>1, <2>1 DEF SlotAfter
  <2>. QED
    BY <2>2, WindowKeep
<1>3. AddOf(Window(g, q, y + 1, P), Window(f, q, y, P), v)
  <2>1. y \in 0 .. P - 1
    OBVIOUS
  <2>. QED
    BY <2>1, WindowPut, Zenon
<1>4. SlotsIn(g, P, S)
  BY Zenon DEF SlotsIn, Put
<1>5. JoinOf(Window(g, r, x + (y + 1), P), Window(g, r, x, P), Window(g, q, y + 1, P))
  <2>1. y + 1 \in Nat
    OBVIOUS
  <2>. QED
    BY <1>4, <2>1, WindowJoin, Zenon
<1>. QED
  BY <1>2, <1>3, <1>5, Zenon

-----------------------------------------------------------------------------
(* The distance from i to j, for counters that wrap at M.                  *)
LEMMA DistanceInt ==
  ASSUME NEW M \in Nat \ {0}, NEW i \in 0 .. M - 1, NEW j \in 0 .. M - 1
  PROVE  /\ (j - i) % M = IF j >= i THEN j - i ELSE j - i + M
         /\ (j - i) % M \in 0 .. M - 1
  OBVIOUS

=============================================================================
