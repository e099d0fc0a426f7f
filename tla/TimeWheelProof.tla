--------------------------- MODULE TimeWheelProof ---------------------------
(***************************************************************************)
(* For wheels of any size, any number of timers and any delays, with the   *)
(* clock wrapping and timers added and deleted at any time: a timer is in  *)
(* one list at a time, until an add_timer meets the unlocked clear_timer   *)
(* at one list; it is dispatched exactly in its tick; it is overdue only   *)
(* in a list that timer_shift never moves; and clear_timer frees every     *)
(* timer that it finds set.                                                *)
(***************************************************************************)
EXTENDS TimeWheel, FiniteSetTheorems, TLAPS

\* How far a time lies ahead of the clock, as the code computes it.
Ahead(at, now) == (at - now) % Range32

\* A place that a timer may be in: the one that its digits name, within reach, and
\* on a level only while the level's digit has still to be reached.  Of the lists
\* that are never moved nothing can be said.
RightPlace(p, at, now) ==
    \/ p \in NeverMoved
    \/ p[1] = 0 /\ p[2] = at % TIME_NEAR /\ Ahead(at, now) < TIME_NEAR
    \/ /\ p[1] \in Levels /\ p[2] = Slot(p[1], at)
       /\ at % Reach(p[1] - 1) < Ahead(at, now)

\* A node is in one list once, and in none when it is freed; only a race of add_timer
\* with clear_timer leaves an allocated node in none.
OneList ==
    \A n \in Nodes :
        /\ current[n] <= 1 /\ \A p \in Places : lists[p][n] <= 1
        /\ \A p, q \in Places : lists[p][n] > 0 /\ lists[q][n] > 0 => p = q
        /\ \A p \in Places : lists[p][n] > 0 => current[n] = 0
        /\ (current[n] > 0 \/ \E p \in Places : lists[p][n] > 0) => n \in Set
        /\ n \in Set /\ pc # "raced" => (current[n] > 0 \/ \E p \in Places : lists[p][n] > 0)

InPlace ==
    \A n \in Nodes, p \in Places : lists[p][n] > 0 => RightPlace(p, expire[n], time)

\* What is taken off the wheel is dispatched after the shift of the tick.
Phases ==
    /\ pc # "dispatch" => current = EmptyList
    /\ pc = "dispatch" => shifted

\* The order in which clear_timer visits the lists.
Before(p, q) == p[1] < q[1] \/ (p[1] = q[1] /\ p[2] < q[2])

\* What clear_timer found set is freed, or in a list that it has still to walk.
Cleared ==
    /\ pc \in {"idle", "execute", "dispatch"} => old = {}
    /\ Clearing => \A n \in old : \E p \in Places : lists[p][n] > 0 /\ ~Before(p, list)

WheelInv ==
    /\ TypeOK
    /\ OneList
    /\ InPlace
    /\ Phases
    /\ Cleared
    /\ FiresOnTime
    /\ OverdueOnlyInNeverMoved
    /\ FirstExecuteFindsNothing

-----------------------------------------------------------------------------
(* Quotients and remainders *)

\* Multiples, without products of unknowns in the steps that use them.
LEMMA Product ==
  ASSUME NEW m \in Nat \ {0}, NEW q \in Int, NEW s \in Int
  PROVE  /\ m * q \in Int /\ m * s \in Int
         /\ q < s => m * q + m <= m * s
  <1>1. m * q \in Int /\ m * s \in Int
    OBVIOUS
  <1>2. ASSUME q < s PROVE m * q + m <= m * s
    <2>1. PICK d \in Nat : s = q + 1 + d
      <3>1. s - q - 1 \in Nat /\ s = q + 1 + (s - q - 1)
        BY <1>2
      <3> QED
        BY <3>1
    <2>2. m * s = m * q + m + m * d /\ m * d \in Nat
      BY <2>1
    <2> QED
      BY <1>1, <2>2
  <1> QED
    BY <1>1, <1>2

LEMMA Quotient ==
  ASSUME NEW m \in Nat \ {0}, NEW x \in Int
  PROVE  x \div m \in Int /\ x % m \in 0 .. m - 1 /\ x = m * (x \div m) + (x % m)
  <1>1. m \in Nat /\ m > 0
    OBVIOUS
  <1>2. x \div m \in Int /\ x % m \in 0 .. m - 1
    BY <1>1
  <1>3. x = m * (x \div m) + (x % m)
    BY <1>1
  <1> QED
    BY <1>2, <1>3

\* There is only one quotient and one remainder.
LEMMA OneQuotient ==
  ASSUME NEW m \in Nat \ {0}, NEW x \in Int, NEW k \in Int, NEW i \in 0 .. m - 1, x = m * k + i
  PROVE  x \div m = k /\ x % m = i
  <1>1. PICK q, j : q = x \div m /\ j = x % m
    OBVIOUS
  <1>2. q \in Int /\ j \in 0 .. m - 1 /\ x = m * q + j
    BY <1>1, Quotient
  <1>3. PICK a, b : a = m * k /\ b = m * q
    OBVIOUS
  <1>4. a \in Int /\ b \in Int /\ a + i = b + j
    BY <1>2, <1>3
  <1>5. (k < q => a + m <= b) /\ (q < k => b + m <= a)
    BY <1>2, <1>3, Product, Zenon
  <1>6. i \in Nat /\ j \in Nat /\ i < m /\ j < m /\ m \in Nat
    BY <1>2
  <1>7. ~(k < q) /\ ~(q < k)
    BY <1>4, <1>5, <1>6
  <1>8. k = q
    BY <1>2, <1>7
  <1> QED
    BY <1>1, <1>3, <1>4, <1>6, <1>8

\* Multiples of m have no remainder, and adding one changes none.
LEMMA Multiples ==
  ASSUME NEW m \in Nat \ {0}, NEW x \in Int, NEW k \in Int
  PROVE  (x + m * k) % m = x % m /\ (m * k) % m = 0 /\ (m * k) \div m = k
  <1>1. PICK q, i : q = x \div m /\ i = x % m
    OBVIOUS
  <1>2. q \in Int /\ i \in 0 .. m - 1 /\ x = m * q + i
    BY <1>1, Quotient
  <1>3. x + m * k = m * (q + k) + i /\ q + k \in Int /\ x + m * k \in Int
    BY <1>2
  <1>4. (x + m * k) % m = i
    BY <1>2, <1>3, OneQuotient
  <1>5. m * k = m * k + 0 /\ 0 \in 0 .. m - 1 /\ m * k \in Int
    OBVIOUS
  <1>6. (m * k) % m = 0 /\ (m * k) \div m = k
    BY <1>5, OneQuotient
  <1> QED
    BY <1>1, <1>4, <1>6

\* Numbers with the same remainder are the same or a multiple apart.
LEMMA SameRemainder ==
  ASSUME NEW m \in Nat \ {0}, NEW x \in Int, NEW y \in Int, x % m = y % m, 0 <= x - y, x - y < m
  PROVE  x = y
  <1>1. PICK k, q, i : k = x \div m /\ q = y \div m /\ i = x % m
    OBVIOUS
  <1>2. k \in Int /\ i \in 0 .. m - 1 /\ x = m * k + i
    BY <1>1, Quotient
  <1>3. q \in Int /\ y = m * q + i
    BY <1>1, Quotient
  <1>4. PICK a, b : a = m * k /\ b = m * q
    OBVIOUS
  <1>5. a \in Int /\ b \in Int /\ (k < q => a + m <= b) /\ (q < k => b + m <= a)
    BY <1>2, <1>3, <1>4, Product, Zenon
  <1>6. x = a + i /\ y = b + i /\ i \in Int /\ m \in Int /\ m > 0
    BY <1>2, <1>3, <1>4
  <1>7. ~(k < q) /\ ~(q < k)
    BY <1>5, <1>6
  <1>8. k = q
    BY <1>2, <1>3, <1>7
  <1> QED
    BY <1>4, <1>6, <1>8

-----------------------------------------------------------------------------
(* The levels *)

LEMMA ReachFacts ==
  /\ TIME_NEAR \in Nat \ {0} /\ TIME_LEVEL \in Nat \ {0}
  /\ Reach(0) = TIME_NEAR /\ Reach(4) = Range32
  /\ \A l \in 0 .. 4 : Reach(l) \in Nat \ {0}
  /\ \A l \in Levels : Reach(l) = Reach(l - 1) * TIME_LEVEL
  <1>1. TIME_NEAR \in Nat /\ TIME_NEAR > 0 /\ TIME_LEVEL \in Nat /\ TIME_LEVEL > 0
    BY SizesAssumption
  <1>2. \A a, b \in Nat : a > 0 /\ b > 0 => a * b \in Nat /\ a * b > 0
    OBVIOUS
  <1>3. /\ Reach(0) = TIME_NEAR
        /\ Reach(1) = Reach(0) * TIME_LEVEL
        /\ Reach(2) = Reach(1) * TIME_LEVEL
        /\ Reach(3) = Reach(2) * TIME_LEVEL
        /\ Reach(4) = Reach(3) * TIME_LEVEL
    BY DEF Reach
  <1>4. Reach(0) \in Nat /\ Reach(0) > 0
    BY <1>1, <1>3
  <1>5. Reach(1) \in Nat /\ Reach(1) > 0
    BY <1>1, <1>2, <1>3, <1>4
  <1>6. Reach(2) \in Nat /\ Reach(2) > 0
    BY <1>1, <1>2, <1>3, <1>5
  <1>7. Reach(3) \in Nat /\ Reach(3) > 0
    BY <1>1, <1>2, <1>3, <1>6
  <1>8. Reach(4) \in Nat /\ Reach(4) > 0
    BY <1>1, <1>2, <1>3, <1>7
  <1>9. ASSUME NEW l \in 0 .. 4 PROVE Reach(l) \in Nat \ {0}
    <2>1. l = 0 \/ l = 1 \/ l = 2 \/ l = 3 \/ l = 4
      OBVIOUS
    <2> QED
      BY <1>4, <1>5, <1>6, <1>7, <1>8, <2>1
  <1>10. ASSUME NEW l \in Levels PROVE Reach(l) = Reach(l - 1) * TIME_LEVEL
    <2>1. (l = 1 /\ l - 1 = 0) \/ (l = 2 /\ l - 1 = 1) \/ (l = 3 /\ l - 1 = 2) \/ (l = 4 /\ l - 1 = 3)
      BY DEF Levels
    <2> QED
      BY <1>3, <2>1
  <1> QED
    BY <1>1, <1>3, <1>9, <1>10 DEF Range32

\* The reach of a level is a multiple of that of every lower one.
LEMMA ReachDivides ==
  ASSUME NEW l \in 0 .. 4, NEW h \in l .. 4
  PROVE  \E c \in Nat \ {0} : Reach(h) = Reach(l) * c
  <1>1. /\ TIME_LEVEL \in Nat /\ TIME_LEVEL > 0
        /\ \A k \in 0 .. 4 : Reach(k) \in Nat
        /\ Reach(1) = Reach(0) * TIME_LEVEL /\ Reach(2) = Reach(1) * TIME_LEVEL
        /\ Reach(3) = Reach(2) * TIME_LEVEL /\ Reach(4) = Reach(3) * TIME_LEVEL
    <2>1. /\ 1 \in Levels /\ 2 \in Levels /\ 3 \in Levels /\ 4 \in Levels
          /\ 1 - 1 = 0 /\ 2 - 1 = 1 /\ 3 - 1 = 2 /\ 4 - 1 = 3
      BY DEF Levels
    <2> QED
      BY <2>1, ReachFacts
  <1>2. \A a, b \in Nat : a > 0 /\ b > 0 => a * b \in Nat /\ a * b > 0
    OBVIOUS
  <1>3. PICK c1, c2, c3, c4 : /\ c1 = TIME_LEVEL /\ c2 = c1 * TIME_LEVEL
                              /\ c3 = c2 * TIME_LEVEL /\ c4 = c3 * TIME_LEVEL
    OBVIOUS
  <1>4. c1 \in Nat /\ c1 > 0 /\ c2 \in Nat /\ c2 > 0
    BY <1>1, <1>2, <1>3
  <1>5. c3 \in Nat /\ c3 > 0
    BY <1>1, <1>2, <1>3, <1>4
  <1>6. c4 \in Nat /\ c4 > 0
    BY <1>1, <1>2, <1>3, <1>5
  <1>7. \A a, b, c \in Nat : (a * b) * c = a * (b * c)
    OBVIOUS
  <1>8. ASSUME NEW k \in 0 .. 4
        PROVE  /\ Reach(k) = Reach(k) * 1
               /\ k = 0 => /\ Reach(1) = Reach(0) * c1 /\ Reach(2) = Reach(0) * c2
                           /\ Reach(3) = Reach(0) * c3 /\ Reach(4) = Reach(0) * c4
               /\ k = 1 => Reach(2) = Reach(1) * c1 /\ Reach(3) = Reach(1) * c2 /\ Reach(4) = Reach(1) * c3
               /\ k = 2 => Reach(3) = Reach(2) * c1 /\ Reach(4) = Reach(2) * c2
               /\ k = 3 => Reach(4) = Reach(3) * c1
    <2>1. Reach(k) = Reach(k) * 1
      BY <1>1
    <2>2. 0 \in 0 .. 4 /\ 1 \in 0 .. 4 /\ 2 \in 0 .. 4 /\ 3 \in 0 .. 4
      OBVIOUS
    <2>3. Reach(0) \in Nat /\ Reach(1) \in Nat /\ Reach(2) \in Nat /\ Reach(3) \in Nat
      BY <1>1, <2>2
    <2>4. Reach(2) = Reach(0) * c2 /\ Reach(3) = Reach(1) * c2 /\ Reach(4) = Reach(2) * c2
      BY <1>1, <1>3, <1>7, <2>3
    <2>5. Reach(3) = Reach(0) * c3 /\ Reach(4) = Reach(1) * c3
      BY <1>1, <1>3, <1>4, <1>7, <2>3, <2>4
    <2>6. Reach(4) = Reach(0) * c4
      BY <1>1, <1>3, <1>5, <1>7, <2>3, <2>5
    <2> QED
      BY <1>1, <1>3, <2>1, <2>4, <2>5, <2>6
  <1>9. 1 \in Nat \ {0} /\ c1 \in Nat \ {0} /\ c2 \in Nat \ {0} /\ c3 \in Nat \ {0} /\ c4 \in Nat \ {0}
    BY <1>4, <1>5, <1>6
  <1>10. \/ h = l
         \/ l = 0 /\ (h = 1 \/ h = 2 \/ h = 3 \/ h = 4)
         \/ l = 1 /\ (h = 2 \/ h = 3 \/ h = 4)
         \/ l = 2 /\ (h = 3 \/ h = 4)
         \/ l = 3 /\ h = 4
    OBVIOUS
  <1> QED
    BY <1>8, <1>9, <1>10

-----------------------------------------------------------------------------
(* The clock *)

Clock == 0 .. Range32 - 1

LEMMA ClockType ==
  Range32 \in Nat \ {0} /\ 0 \in Clock /\ Clock \subseteq Nat
  <1>1. Range32 \in Nat \ {0}
    <2>1. 4 \in 0 .. 4
      OBVIOUS
    <2> QED
      BY <2>1, ReachFacts
  <1> QED
    BY <1>1 DEF Clock

\* The distance that the clock still has to run, with and without a wrap.
LEMMA AheadIs ==
  ASSUME NEW e \in Clock, NEW t \in Clock
  PROVE  /\ Ahead(e, t) \in Clock
         /\ t <= e => Ahead(e, t) = e - t
         /\ e < t => Ahead(e, t) = (e - t) + Range32
  <1>1. PICK r : r = Range32
    OBVIOUS
  <1>2. r \in Nat \ {0} /\ e \in 0 .. r - 1 /\ t \in 0 .. r - 1
    BY <1>1, ClockType DEF Clock
  <1>3. CASE t <= e
    <2>1. e - t \in 0 .. r - 1 /\ e - t = r * 0 + (e - t) /\ 0 \in Int /\ e - t \in Int
      BY <1>2, <1>3
    <2>2. (e - t) % r = e - t
      BY <1>2, <2>1, OneQuotient
    <2> QED
      BY <1>1, <1>2, <1>3, <2>1, <2>2 DEF Ahead, Clock
  <1>4. CASE e < t
    <2>1. (e - t) + r \in 0 .. r - 1 /\ e - t = r * (-1) + ((e - t) + r) /\ -1 \in Int /\ e - t \in Int
      BY <1>2, <1>4
    <2>2. (e - t) % r = (e - t) + r
      BY <1>2, <2>1, OneQuotient
    <2> QED
      BY <1>1, <1>2, <1>4, <2>1, <2>2 DEF Ahead, Clock
  <1> QED
    BY <1>2, <1>3, <1>4

\* A sum of a time and something below the range wraps at most once.
LEMMA SumIs ==
  ASSUME NEW t \in Clock, NEW d \in Clock
  PROVE  /\ (d + t) % Range32 \in Clock
         /\ d + t < Range32 => (d + t) % Range32 = d + t
         /\ d + t >= Range32 => (d + t) % Range32 = (d + t) - Range32
  <1>1. PICK r : r = Range32
    OBVIOUS
  <1>2. r \in Nat \ {0} /\ d \in 0 .. r - 1 /\ t \in 0 .. r - 1
    BY <1>1, ClockType DEF Clock
  <1>3. CASE d + t < r
    <2>1. d + t \in 0 .. r - 1 /\ d + t = r * 0 + (d + t) /\ 0 \in Int /\ d + t \in Int
      BY <1>2, <1>3
    <2>2. (d + t) % r = d + t
      BY <1>2, <2>1, OneQuotient
    <2> QED
      BY <1>1, <1>2, <1>3, <2>1, <2>2 DEF Clock
  <1>4. CASE d + t >= r
    <2>1. (d + t) - r \in 0 .. r - 1 /\ d + t = r * 1 + ((d + t) - r) /\ 1 \in Int /\ d + t \in Int
      BY <1>2, <1>4
    <2>2. (d + t) % r = (d + t) - r
      BY <1>2, <2>1, OneQuotient
    <2> QED
      BY <1>1, <1>2, <1>4, <2>1, <2>2 DEF Clock
  <1> QED
    BY <1>2, <1>3, <1>4

\* A tick brings every time but the present one nearer.
LEMMA Tick ==
  ASSUME NEW e \in Clock, NEW t \in Clock
  PROVE  /\ (t + 1) % Range32 \in Clock
         /\ e # t => Ahead(e, (t + 1) % Range32) = Ahead(e, t) - 1
         /\ e = t <=> Ahead(e, t) = 0
  <1>1. PICK r, ct : r = Range32 /\ ct = (t + 1) % Range32
    OBVIOUS
  <1>2. r \in Nat /\ r > 1 /\ e \in 0 .. r - 1 /\ t \in 0 .. r - 1 /\ 1 \in Clock
    <2>1. Range32 > 1
      <3>1. /\ Range32 = Reach(3) * TIME_LEVEL /\ Reach(3) \in Nat /\ Reach(3) > 0
            /\ TIME_LEVEL \in Nat /\ TIME_LEVEL > 1
        <4>1. 4 \in Levels /\ 4 - 1 = 3 /\ 3 \in 0 .. 4
          BY DEF Levels
        <4> QED
          BY <4>1, ReachFacts, SizesAssumption
      <3>2. \A a, b \in Nat : a > 0 /\ b > 1 => a * b > 1
        OBVIOUS
      <3> QED
        BY <3>1, <3>2
    <2> QED
      BY <1>1, <2>1, ClockType DEF Clock
  <1>3. 1 + t = t + 1
    BY <1>2
  <1>4. ct \in Clock /\ (t + 1 < r => ct = t + 1) /\ (t + 1 >= r => ct = (t + 1) - r)
    BY <1>1, <1>2, <1>3, SumIs
  <1>5. ct \in 0 .. r - 1
    BY <1>1, <1>4 DEF Clock
  <1>6. PICK a, b : a = Ahead(e, t) /\ b = Ahead(e, ct)
    OBVIOUS
  <1>7. (t <= e => a = e - t) /\ (e < t => a = (e - t) + r)
    BY <1>1, <1>6, AheadIs
  <1>8. (ct <= e => b = e - ct) /\ (e < ct => b = (e - ct) + r)
    BY <1>1, <1>4, <1>6, AheadIs
  <1>9. e # t => b = a - 1
    BY <1>2, <1>4, <1>5, <1>7, <1>8
  <1>10. e = t <=> a = 0
    BY <1>2, <1>7
  <1> QED
    BY <1>1, <1>4, <1>6, <1>9, <1>10

\* A timer that is set expires its delay ahead.
LEMMA SetAhead ==
  ASSUME NEW t \in Clock, NEW d \in Delays
  PROVE  (d + t) % Range32 \in Clock /\ (d + t) % Range32 # t
  <1>1. PICK r, e : r = Range32 /\ e = (d + t) % Range32
    OBVIOUS
  <1>2. r \in Nat /\ r > 0 /\ d \in 1 .. r - 1 /\ t \in 0 .. r - 1 /\ d \in Clock
    BY <1>1, ClockType, DelaysAssumption DEF Clock
  <1>3. e \in Clock /\ (d + t < r => e = d + t) /\ (d + t >= r => e = (d + t) - r)
    BY <1>1, <1>2, SumIs
  <1>4. e # t
    BY <1>2, <1>3
  <1> QED
    BY <1>1, <1>3, <1>4

-----------------------------------------------------------------------------
(* The places of a time *)

LEMMA NoRemainder ==
  ASSUME NEW m \in Nat \ {0}, NEW x \in Int, x % m = 0
  PROVE  x \div m \in Int /\ x = m * (x \div m)
  <1>1. x \div m \in Int /\ x = m * (x \div m) + (x % m)
    BY Quotient
  <1>2. PICK q : q = x \div m
    OBVIOUS
  <1>3. m * q \in Int
    BY <1>1, <1>2
  <1>4. x = m * q + 0
    BY <1>1, <1>2
  <1> QED
    BY <1>1, <1>2, <1>3, <1>4

\* Within reach of the near wheel, only the present time has the present list.
LEMMA NearNow ==
  ASSUME NEW e \in Clock, NEW t \in Clock, e % TIME_NEAR = t % TIME_NEAR, Ahead(e, t) < TIME_NEAR
  PROVE  e = t
  <1>1. PICK r, m : r = Range32 /\ m = TIME_NEAR
    OBVIOUS
  <1>2. r \in Nat /\ m \in Nat \ {0} /\ e \in 0 .. r - 1 /\ t \in 0 .. r - 1
    BY <1>1, ClockType, ReachFacts DEF Clock
  <1>3. CASE t <= e
    <2>1. Ahead(e, t) = e - t
      BY <1>3, AheadIs
    <2>2. e \in Int /\ t \in Int /\ 0 <= e - t /\ e - t < m /\ e % m = t % m
      BY <1>1, <1>2, <1>3, <2>1
    <2> QED
      BY <1>2, <2>2, SameRemainder
  <1>4. CASE e < t
    <2>1. Ahead(e, t) = (e - t) + r
      BY <1>1, <1>4, AheadIs
    <2>2. PICK c \in Nat \ {0} : r = m * c
      <3>1. 0 \in 0 .. 4 /\ 4 \in 0 .. 4
        OBVIOUS
      <3> QED
        BY <1>1, <3>1, ReachFacts, ReachDivides
    <2>3. e \in Int /\ c \in Int
      BY <1>2
    <2>4. (e + m * c) % m = e % m
      BY <1>2, <2>3, Multiples
    <2>5. /\ e + r \in Int /\ t \in Int /\ 0 <= (e + r) - t /\ (e + r) - t < m
          /\ (e + r) % m = t % m
      BY <1>1, <1>2, <1>4, <2>1, <2>2, <2>4
    <2>6. e + r = t
      BY <1>2, <2>5, SameRemainder
    <2> QED
      BY <1>2, <2>6
  <1> QED
    BY <1>2, <1>3, <1>4

\* When the clock has reached a level's digit of a time and not its lower digits,
\* the lower digits of the clock are zero and the level's digit is the same.
LEMMA DigitReached ==
  ASSUME NEW e \in Clock, NEW ct \in Clock, NEW l \in Levels, Ahead(e, ct) = e % Reach(l - 1)
  PROVE  ct % Reach(l - 1) = 0 /\ Slot(l, ct) = Slot(l, e)
  <1>1. PICK r, m, q, i : r = Range32 /\ m = Reach(l - 1) /\ q = e \div m /\ i = e % m
    OBVIOUS
  <1>2. l - 1 \in 0 .. 4 /\ 4 \in (l - 1) .. 4
    BY DEF Levels
  <1>3. m \in Nat \ {0} /\ r \in Nat /\ e \in 0 .. r - 1 /\ ct \in 0 .. r - 1 /\ e \in Int
    BY <1>1, <1>2, ClockType, ReachFacts DEF Clock
  <1>4. q \in Int /\ i \in 0 .. m - 1 /\ e = m * q + i
    BY <1>1, <1>3, Quotient
  <1>5. PICK c \in Nat \ {0} : r = m * c
    BY <1>1, <1>2, ReachFacts, ReachDivides
  <1>6. PICK a : a = m * q
    OBVIOUS
  <1>7. a \in Int /\ 0 <= a
    <2>1. m * q \in Int /\ (q < 0 => m * q + m <= m * 0)
      BY <1>3, <1>4, Product
    <2>2. e = a + i /\ (q < 0 => a + m <= 0) /\ a \in Int
      BY <1>3, <1>4, <1>6, <2>1
    <2>3. ~(q < 0)
      BY <1>3, <1>4, <2>2
    <2>4. q >= 0
      BY <1>4, <2>3
    <2>5. m * q \in Nat
      BY <1>3, <1>4, <2>4
    <2> QED
      BY <1>6, <2>5
  <1>8. e = a + i
    BY <1>4, <1>6
  <1>9. PICK d : d = Ahead(e, ct)
    OBVIOUS
  <1>10. d = i /\ (ct <= e => d = e - ct) /\ (e < ct => d = (e - ct) + r)
    BY <1>1, <1>9, AheadIs
  <1>11. ct = a
    BY <1>3, <1>4, <1>7, <1>8, <1>10
  <1>12. ct % m = 0 /\ ct \div m = q
    BY <1>3, <1>4, <1>6, <1>11, Multiples
  <1> QED
    BY <1>1, <1>12 DEF Slot

\* Below a level whose lower digits are zero, every digit is zero.
LEMMA ZeroBelow ==
  ASSUME NEW ct \in Clock, NEW b \in Levels, NEW a \in 1 .. b - 1, ct % Reach(b - 1) = 0
  PROVE  Slot(a, ct) = 0
  <1>1. /\ a \in Levels /\ b - 1 \in 0 .. 4 /\ a - 1 \in 0 .. 4 /\ a \in 0 .. 4 /\ b - 1 \in a .. 4
        /\ ct \in Int
    BY ClockType DEF Levels
  <1>2. PICK m, h, k : m = Reach(a - 1) /\ h = Reach(b - 1) /\ k = ct \div h
    OBVIOUS
  <1>3. m \in Nat \ {0} /\ h \in Nat \ {0} /\ TIME_LEVEL \in Nat \ {0} /\ Reach(a) = m * TIME_LEVEL
    BY <1>1, <1>2, ReachFacts
  <1>4. PICK c \in Nat \ {0} : h = (m * TIME_LEVEL) * c
    BY <1>1, <1>2, <1>3, ReachDivides
  <1>5. k \in Int /\ ct = h * k
    <2>1. ct % h = 0
      BY <1>2
    <2> QED
      BY <1>1, <1>2, <1>3, <2>1, NoRemainder
  <1>6. ct = m * (TIME_LEVEL * (c * k)) /\ c * k \in Int /\ TIME_LEVEL * (c * k) \in Int
    <2>1. \A x, y, z, w \in Int : ((x * y) * z) * w = x * (y * (z * w)) /\ z * w \in Int /\ y * (z * w) \in Int
      OBVIOUS
    <2>2. m \in Int /\ TIME_LEVEL \in Int /\ c \in Int
      BY <1>3
    <2> QED
      BY <1>4, <1>5, <2>1, <2>2
  <1>7. ct \div m = TIME_LEVEL * (c * k)
    BY <1>3, <1>6, Multiples
  <1>8. (TIME_LEVEL * (c * k)) % TIME_LEVEL = 0
    BY <1>3, <1>6, Multiples
  <1> QED
    BY <1>2, <1>7, <1>8 DEF Slot

\* All digits are zero only at the wrap.
LEMMA ZeroAll ==
  ASSUME NEW ct \in Clock, ct % Reach(3) = 0, Slot(4, ct) = 0
  PROVE  ct = 0
  <1>1. PICK r, m, q, j : r = Range32 /\ m = Reach(3) /\ q = ct \div m /\ j = q \div TIME_LEVEL
    OBVIOUS
  <1>2. 4 \in Levels /\ 4 - 1 = 3 /\ 3 \in 0 .. 4
    BY DEF Levels
  <1>3. /\ m \in Nat \ {0} /\ r \in Nat \ {0} /\ TIME_LEVEL \in Nat \ {0} /\ r = m * TIME_LEVEL
        /\ ct \in 0 .. r - 1 /\ ct \in Int
    BY <1>1, <1>2, ClockType, ReachFacts DEF Clock
  <1>4. q \in Int /\ ct = m * q
    <2>1. ct % m = 0
      BY <1>1
    <2> QED
      BY <1>1, <1>3, <2>1, NoRemainder
  <1>5. q % TIME_LEVEL = 0
    BY <1>1, <1>2 DEF Slot
  <1>6. j \in Int /\ q = TIME_LEVEL * j
    BY <1>1, <1>3, <1>4, <1>5, NoRemainder
  <1>7. ct = r * j
    <2>1. \A x, y, z \in Int : x * (y * z) = (x * y) * z
      OBVIOUS
    <2>2. m \in Int /\ TIME_LEVEL \in Int
      BY <1>3
    <2> QED
      BY <1>3, <1>4, <1>6, <2>1, <2>2
  <1>8. ct % r = 0
    BY <1>3, <1>6, <1>7, Multiples
  <1>9. ct = r * 0 + ct /\ 0 \in Int
    BY <1>3
  <1>10. ct % r = ct
    BY <1>3, <1>9, OneQuotient
  <1> QED
    BY <1>8, <1>10

LEMMA SlotType ==
  ASSUME NEW e \in Clock, NEW l \in Levels
  PROVE  Slot(l, e) \in 0 .. TIME_LEVEL - 1
  <1>1. l - 1 \in 0 .. 4 /\ e \in Int
    BY ClockType DEF Levels
  <1>2. Reach(l - 1) \in Nat \ {0} /\ TIME_LEVEL \in Nat \ {0}
    BY <1>1, ReachFacts
  <1>3. e \div Reach(l - 1) \in Int
    BY <1>1, <1>2, Quotient
  <1> QED
    BY <1>2, <1>3, Quotient DEF Slot

\* add_node puts a timer where it may be.
LEMMA Placed ==
  ASSUME NEW e \in Clock, NEW t \in Clock
  PROVE  PlaceOf(e, t) \in Places /\ RightPlace(PlaceOf(e, t), e, t)
  <1>1. PICK x : x = Ahead(e, t)
    OBVIOUS
  <1>2. x \in Nat /\ e \in Int /\ TIME_NEAR \in Nat \ {0} /\ \A l \in 0 .. 4 : Reach(l) \in Nat
    BY <1>1, AheadIs, ClockType, ReachFacts
  <1>3. CASE x < TIME_NEAR
    <2>1. PlaceOf(e, t) = <<0, e % TIME_NEAR>>
      BY <1>1, <1>3 DEF PlaceOf, Ahead
    <2>2. e % TIME_NEAR \in 0 .. TIME_NEAR - 1
      BY <1>2, Quotient
    <2>3. <<0, e % TIME_NEAR>> \in Places
      BY <2>2 DEF Places, Near
    <2>4. RightPlace(<<0, e % TIME_NEAR>>, e, t)
      BY <1>1, <1>3 DEF RightPlace
    <2> QED
      BY <2>1, <2>3, <2>4
  <1>4. CASE ~(x < TIME_NEAR)
    <2> DEFINE Fits(l) == (l = 4 \/ x < Reach(l)) /\ \A k \in 1 .. l - 1 : x >= Reach(k)
    <2> DEFINE level == CHOOSE l \in Levels : Fits(l)
    <2>1. \E l \in Levels : Fits(l)
      <3>1. Reach(1) \in Nat /\ Reach(2) \in Nat /\ Reach(3) \in Nat
        <4>1. 1 \in 0 .. 4 /\ 2 \in 0 .. 4 /\ 3 \in 0 .. 4
          OBVIOUS
        <4> QED
          BY <1>2, <4>1
      <3>2. 1 .. 1 - 1 = {} /\ 1 .. 2 - 1 = {1} /\ 1 .. 3 - 1 = {1, 2} /\ 1 .. 4 - 1 = {1, 2, 3}
        OBVIOUS
      <3>3. 1 \in Levels /\ 2 \in Levels /\ 3 \in Levels /\ 4 \in Levels
        BY DEF Levels
      <3>4. CASE x < Reach(1)
        <4>1. Fits(1)
          BY <3>2, <3>4
        <4> QED
          BY <3>3, <4>1
      <3>5. CASE x >= Reach(1) /\ x < Reach(2)
        <4>1. Fits(2)
          BY <3>2, <3>5
        <4> QED
          BY <3>3, <4>1
      <3>6. CASE x >= Reach(1) /\ x >= Reach(2) /\ x < Reach(3)
        <4>1. Fits(3)
          BY <3>2, <3>6
        <4> QED
          BY <3>3, <4>1
      <3>7. CASE x >= Reach(1) /\ x >= Reach(2) /\ x >= Reach(3)
        <4>1. Fits(4)
          BY <3>2, <3>7
        <4> QED
          BY <3>3, <4>1
      <3> HIDE DEF Fits
      <3> QED
        BY <1>2, <3>1, <3>4, <3>5, <3>6, <3>7
    <2>2. level \in Levels /\ Fits(level)
      <3> HIDE DEF Fits
      <3> QED
        BY <2>1
    <2>3. PlaceOf(e, t) = <<level, Slot(level, e)>>
      BY <1>1, <1>4 DEF PlaceOf, Ahead
    <2> HIDE DEF level
    <2>4. e % Reach(level - 1) < x
      <3>1. level - 1 \in 0 .. 4
        BY <2>2 DEF Levels
      <3>2. Reach(level - 1) \in Nat \ {0}
        BY <3>1, ReachFacts
      <3>3. e % Reach(level - 1) \in 0 .. Reach(level - 1) - 1
        BY <1>2, <3>2, Quotient
      <3>4. x >= Reach(level - 1)
        <4>1. CASE level = 1
          <5>1. level - 1 = 0
            BY <4>1
          <5> QED
            BY <1>2, <1>4, <5>1, ReachFacts
        <4>2. CASE level # 1
          <5>1. level - 1 \in 1 .. level - 1
            BY <2>2, <4>2 DEF Levels
          <5> QED
            BY <2>2, <5>1
        <4> QED
          BY <4>1, <4>2
      <3> QED
        BY <1>2, <3>2, <3>3, <3>4
    <2>5. Slot(level, e) \in 0 .. TIME_LEVEL - 1
      BY <2>2, SlotType
    <2>6. <<level, Slot(level, e)>> \in Places
      BY <2>2, <2>5 DEF Places
    <2>7. RightPlace(<<level, Slot(level, e)>>, e, t)
      BY <1>1, <2>2, <2>4 DEF RightPlace
    <2> QED
      BY <2>3, <2>6, <2>7
  <1> QED
    BY <1>3, <1>4

\* What a place in each part of the wheel says of the times it may hold.
LEMMA PlaceFacts ==
  ASSUME NEW e \in Clock, NEW t \in Clock, NEW p \in Places \ NeverMoved, RightPlace(p, e, t)
  PROVE  \/ p = <<0, e % TIME_NEAR>> /\ Ahead(e, t) < TIME_NEAR
         \/ \E l \in Levels : p = <<l, Slot(l, e)>> /\ e % Reach(l - 1) < Ahead(e, t)
  <1>1. CASE p[1] = 0 /\ p[2] = e % TIME_NEAR /\ Ahead(e, t) < TIME_NEAR
    <2>1. p = <<p[1], p[2]>>
      BY DEF Places, Near, Levels
    <2> QED
      BY <1>1, <2>1
  <1>2. CASE p[1] \in Levels /\ p[2] = Slot(p[1], e) /\ e % Reach(p[1] - 1) < Ahead(e, t)
    <2>1. p = <<p[1], p[2]>>
      BY DEF Places, Near, Levels
    <2> QED
      BY <1>2, <2>1
  <1> QED
    BY <1>1, <1>2 DEF RightPlace

\* What expires now is in the present list, wherever the clock is moved from.
LEMMA NowIsHere ==
  ASSUME NEW e \in Clock, NEW t \in Clock, NEW p \in Places \ NeverMoved, RightPlace(p, e, t)
  PROVE  e = t <=> p = <<0, t % TIME_NEAR>>
  <1>1. ASSUME e = t PROVE p = <<0, t % TIME_NEAR>>
    <2>1. Ahead(e, t) = 0
      BY <1>1, Tick
    <2>2. ASSUME NEW l \in Levels PROVE ~(e % Reach(l - 1) < 0)
      <3>1. l - 1 \in 0 .. 4 /\ e \in Int
        BY ClockType DEF Levels
      <3>2. Reach(l - 1) \in Nat \ {0}
        BY <3>1, ReachFacts
      <3>3. e % Reach(l - 1) \in 0 .. Reach(l - 1) - 1
        BY <3>1, <3>2, Quotient
      <3> QED
        BY <3>2, <3>3
    <2> QED
      BY <1>1, <2>1, <2>2, PlaceFacts
  <1>2. ASSUME p = <<0, t % TIME_NEAR>> PROVE e = t
    <2>1. \A l \in Levels : l # 0
      BY DEF Levels
    <2>2. e % TIME_NEAR = t % TIME_NEAR /\ Ahead(e, t) < TIME_NEAR
      BY <1>2, <2>1, PlaceFacts
    <2> QED
      BY <2>2, NearNow
  <1> QED
    BY <1>1, <1>2

\* timer_shift moves lists that clear their place, and never one of NeverMoved.
LEMMA DueType ==
  ASSUME NEW ct \in Clock
  PROVE  Due(ct) \subseteq Places \ NeverMoved
  <1>1. <<4, 0>> \in Places \ NeverMoved
    <2>1. 4 \in Levels /\ 0 \in 0 .. TIME_LEVEL - 1
      BY ReachFacts DEF Levels
    <2> QED
      BY <2>1 DEF Places, NeverMoved
  <1>2. ASSUME NEW l \in Levels, Slot(l, ct) # 0 PROVE <<l, Slot(l, ct)>> \in Places \ NeverMoved
    <2>1. Slot(l, ct) \in 0 .. TIME_LEVEL - 1
      BY SlotType
    <2> QED
      BY <1>2, <2>1 DEF Places, NeverMoved
  <1> QED
    BY <1>1, <1>2 DEF Due

\* When the clock reaches the level's digit of a time, the list it is in is moved,
\* and it is the only one.
LEMMA DueWhen ==
  ASSUME NEW e \in Clock, NEW ct \in Clock, NEW l \in Levels, Ahead(e, ct) = e % Reach(l - 1),
         <<l, Slot(l, e)>> \notin NeverMoved
  PROVE  Due(ct) = {<<l, Slot(l, e)>>}
  <1>1. ct % Reach(l - 1) = 0 /\ Slot(l, ct) = Slot(l, e)
    BY DigitReached
  <1>2. CASE ct = 0
    <2>1. Slot(l, ct) = 0
      <3>1. l - 1 \in 0 .. 4
        BY DEF Levels
      <3>2. Reach(l - 1) \in Nat \ {0} /\ TIME_LEVEL \in Nat \ {0}
        BY <3>1, ReachFacts
      <3>3. /\ 0 = Reach(l - 1) * 0 + 0 /\ 0 = TIME_LEVEL * 0 + 0 /\ 0 \in Int
            /\ 0 \in 0 .. Reach(l - 1) - 1 /\ 0 \in 0 .. TIME_LEVEL - 1
        BY <3>2
      <3>4. 0 \div Reach(l - 1) = 0
        BY <3>2, <3>3, OneQuotient
      <3>5. 0 % TIME_LEVEL = 0
        BY <3>2, <3>3, OneQuotient
      <3> QED
        BY <1>2, <3>4, <3>5 DEF Slot
    <2>2. l = 4
      <3>1. l \in 1 .. 3 \/ l = 4
        BY DEF Levels
      <3> QED
        BY <1>1, <2>1, <3>1 DEF NeverMoved
    <2> QED
      BY <1>1, <1>2, <2>1, <2>2 DEF Due
  <1>3. CASE ct # 0
    <2>1. Slot(l, ct) # 0
      <3>1. SUFFICES ASSUME Slot(l, ct) = 0 PROVE FALSE
        OBVIOUS
      <3>2. l = 4 /\ l - 1 = 3
        <4>1. l \in 1 .. 3 \/ l = 4
          BY DEF Levels
        <4>2. l \notin 1 .. 3
          BY <1>1, <3>1 DEF NeverMoved
        <4> QED
          BY <4>1, <4>2
      <3> QED
        BY <1>1, <1>3, <3>1, <3>2, ZeroAll
    <2>2. ASSUME NEW k \in Levels, ct % Reach(k - 1) = 0, Slot(k, ct) # 0 PROVE k = l
      <3>1. k \in 1 .. l - 1 \/ l \in 1 .. k - 1 \/ k = l
        BY DEF Levels
      <3>2. k \notin 1 .. l - 1
        BY <1>1, <2>2, ZeroBelow
      <3>3. l \notin 1 .. k - 1
        BY <2>1, <2>2, ZeroBelow
      <3> QED
        BY <3>1, <3>2, <3>3
    <2>3. Due(ct) = {<<j, Slot(j, ct)>> : j \in {k \in Levels : ct % Reach(k - 1) = 0 /\ Slot(k, ct) # 0}}
      BY <1>3 DEF Due
    <2>4. {k \in Levels : ct % Reach(k - 1) = 0 /\ Slot(k, ct) # 0} = {l}
      BY <1>1, <2>1, <2>2
    <2> QED
      BY <1>1, <2>3, <2>4
  <1> QED
    BY <1>2, <1>3

\* A tick leaves a timer in a place where it may be, or moves its list; only the
\* timers that expired had to be gone.
LEMMA Carried ==
  ASSUME NEW e \in Clock, NEW t \in Clock, NEW p \in Places, RightPlace(p, e, t),
         e # t \/ p \in NeverMoved
  PROVE  RightPlace(p, e, (t + 1) % Range32) \/ Due((t + 1) % Range32) = {p}
  <1>1. CASE p \in NeverMoved
    BY <1>1 DEF RightPlace
  <1>2. CASE p \notin NeverMoved
    <2>1. PICK ct : ct = (t + 1) % Range32
      OBVIOUS
    <2>2. ct \in Clock /\ Ahead(e, ct) = Ahead(e, t) - 1 /\ Ahead(e, t) \in Nat
      BY <1>2, <2>1, Tick, AheadIs, ClockType
    <2>3. CASE p = <<0, e % TIME_NEAR>> /\ Ahead(e, t) < TIME_NEAR
      <3>1. Ahead(e, ct) < TIME_NEAR
        BY <2>2, <2>3, ReachFacts
      <3>2. p[1] = 0 /\ p[2] = e % TIME_NEAR
        BY <2>3
      <3> QED
        BY <2>1, <3>1, <3>2 DEF RightPlace
    <2>4. ASSUME NEW l \in Levels, p = <<l, Slot(l, e)>>, e % Reach(l - 1) < Ahead(e, t)
          PROVE  RightPlace(p, e, ct) \/ Due(ct) = {p}
      <3>1. e % Reach(l - 1) \in Nat
        <4>1. l - 1 \in 0 .. 4 /\ e \in Int
          BY ClockType DEF Levels
        <4>2. Reach(l - 1) \in Nat \ {0}
          BY <4>1, ReachFacts
        <4>3. e % Reach(l - 1) \in 0 .. Reach(l - 1) - 1
          BY <4>1, <4>2, Quotient
        <4> QED
          BY <4>2, <4>3
      <3>2. e % Reach(l - 1) < Ahead(e, ct) \/ Ahead(e, ct) = e % Reach(l - 1)
        BY <2>2, <2>4, <3>1
      <3>3. CASE e % Reach(l - 1) < Ahead(e, ct)
        <4>1. p[1] = l /\ p[2] = Slot(l, e)
          BY <2>4
        <4> QED
          BY <3>3, <4>1 DEF RightPlace
      <3>4. CASE Ahead(e, ct) = e % Reach(l - 1)
        BY <1>2, <2>2, <2>4, <3>4, DueWhen
      <3> QED
        BY <3>2, <3>3, <3>4
    <2> QED
      BY <1>2, <2>1, <2>3, <2>4, PlaceFacts
  <1> QED
    BY <1>1, <1>2

-----------------------------------------------------------------------------
(* The steps *)

LEMMA HereIsAPlace ==
  ASSUME TypeOK
  PROVE  Here \in Places \ NeverMoved
  <1>1. time \in Int /\ TIME_NEAR \in Nat \ {0}
    BY ClockType, ReachFacts DEF TypeOK
  <1>2. time % TIME_NEAR \in 0 .. TIME_NEAR - 1
    BY <1>1, Quotient
  <1> QED
    BY <1>2 DEF Here, Places, Near, NeverMoved

\* clear_timer begins with a list, and comes to every list that is not before it.
LEMMA FirstIsAPlace ==
  /\ <<0, 0>> \in Places
  /\ \A p \in Places : ~Before(p, <<0, 0>>)
  <1>1. TIME_NEAR \in Nat /\ TIME_NEAR > 0
    BY ReachFacts
  <1>2. <<0, 0>> \in Places
    BY <1>1 DEF Places, Near
  <1>3. ASSUME NEW p \in Places PROVE p[1] \in Nat /\ p[2] \in Nat
    BY DEF Places, Near, Levels
  <1>4. <<0, 0>>[1] = 0 /\ <<0, 0>>[2] = 0
    OBVIOUS
  <1> QED
    BY <1>2, <1>3, <1>4 DEF Before

LEMMA AfterIsNext ==
  ASSUME NEW q \in Places, NEW p \in Places, ~Before(p, q), p # q
  PROVE  After(q) \in Places /\ ~Before(p, After(q))
  <1>1. ASSUME NEW r \in Places
        PROVE  /\ r = <<r[1], r[2]>> /\ r[1] \in 0 .. 4 /\ r[2] \in Nat
               /\ r[1] = 0 => r[2] <= TIME_NEAR - 1
               /\ r[1] # 0 => r[2] <= TIME_LEVEL - 1
    BY ReachFacts DEF Places, Near, Levels
  <1>2. ASSUME NEW l \in 0 .. 4, NEW i \in Nat,
               IF l = 0 THEN i <= TIME_NEAR - 1 ELSE i <= TIME_LEVEL - 1
        PROVE  <<l, i>> \in Places
    <2>1. TIME_NEAR \in Nat /\ TIME_LEVEL \in Nat
      BY ReachFacts
    <2>2. CASE l = 0
      BY <1>2, <2>1, <2>2 DEF Places, Near
    <2>3. CASE l # 0
      <3>1. l \in Levels /\ i \in 0 .. TIME_LEVEL - 1
        BY <1>2, <2>1, <2>3 DEF Levels
      <3> QED
        BY <3>1 DEF Places
    <2> QED
      BY <2>2, <2>3
  <1>3. PICK a, b, c, d : a = p[1] /\ b = p[2] /\ c = q[1] /\ d = q[2]
    OBVIOUS
  <1>4. PICK last : last = IF c = 0 THEN TIME_NEAR - 1 ELSE TIME_LEVEL - 1
    OBVIOUS
  <1>5. /\ a \in 0 .. 4 /\ b \in Nat /\ c \in 0 .. 4 /\ d \in Nat
        /\ last \in Nat /\ d <= last /\ (a = c => b <= last)
        /\ TIME_NEAR \in Nat \ {0} /\ TIME_LEVEL \in Nat \ {0}
    BY <1>1, <1>3, <1>4, ReachFacts
  <1>6. a # c \/ b # d
    BY <1>1, <1>3
  <1>7. ~(a < c) /\ ~(a = c /\ b < d)
    BY <1>3 DEF Before
  <1>8. CASE d < last
    <2>1. After(q) = <<c, d + 1>>
      BY <1>3, <1>4, <1>8 DEF After
    <2>2. IF c = 0 THEN d + 1 <= TIME_NEAR - 1 ELSE d + 1 <= TIME_LEVEL - 1
      BY <1>4, <1>5, <1>8
    <2>3. d + 1 \in Nat
      BY <1>5
    <2>4. <<c, d + 1>> \in Places
      BY <1>2, <1>5, <2>2, <2>3
    <2>5. ~(a < c) /\ ~(a = c /\ b < d + 1)
      BY <1>5, <1>6, <1>7
    <2>6. <<c, d + 1>>[1] = c /\ <<c, d + 1>>[2] = d + 1
      OBVIOUS
    <2> QED
      BY <1>3, <2>1, <2>4, <2>5, <2>6 DEF Before
  <1>9. CASE ~(d < last)
    <2>1. After(q) = <<c + 1, 0>>
      BY <1>3, <1>4, <1>9 DEF After
    <2>2. a # c
      BY <1>5, <1>6, <1>7, <1>9
    <2>3. a >= c + 1 /\ c + 1 \in 0 .. 4 /\ c + 1 # 0
      BY <1>5, <1>7, <2>2
    <2>4. <<c + 1, 0>> \in Places
      <3>1. 0 \in Nat /\ 0 <= TIME_LEVEL - 1
        BY <1>5
      <3> QED
        BY <1>2, <2>3, <3>1
    <2>5. ~(a < c + 1) /\ ~(b < 0)
      BY <1>5, <2>3
    <2>6. <<c + 1, 0>>[1] = c + 1 /\ <<c + 1, 0>>[2] = 0
      OBVIOUS
    <2> QED
      BY <1>3, <2>1, <2>4, <2>5, <2>6 DEF Before
  <1> QED
    BY <1>8, <1>9

LEMMA InitInv == Init => WheelInv
  <1>1. SUFFICES ASSUME Init PROVE WheelInv
    OBVIOUS
  <1>2. TypeOK
    BY <1>1, ClockType, FirstIsAPlace DEF Init, TypeOK, EmptyList, Set, Clock
  <1>3. \A n \in Nodes : EmptyList[n] = 0
    BY DEF EmptyList
  <1>4. lists[Here] = EmptyList
    BY <1>1, <1>2, HereIsAPlace DEF Init
  <1> QED
    BY <1>1, <1>2, <1>3, <1>4 DEF Init, WheelInv, OneList, InPlace, Phases, Cleared, Clearing,
       FiresOnTime, OverdueOnlyInNeverMoved, FirstExecuteFindsNothing, Set

\* What add_timer does to the node, wherever it is linked.
LEMMA AddFacts ==
  ASSUME WheelInv, NEW n \in Nodes, NEW d \in Delays, add_timer(n, d)
  PROVE  LET e == (d + time) % Range32
             p == PlaceOf(e, time)
         IN /\ e \in Clock /\ e # time /\ p \in Places /\ RightPlace(p, e, time)
            /\ expire'[n] = e /\ \A k \in Nodes : k # n => expire'[k] = expire[k]
            /\ expire' \in [Nodes -> 0 .. Range32 - 1] /\ cancel' \in [Nodes -> BOOLEAN]
            /\ state' \in [Nodes -> {"free", "set", "fired"}]
            /\ n \notin Set /\ Set' = Set \cup {n}
            /\ current[n] = 0 /\ \A q \in Places : lists[q][n] = 0
            /\ UNCHANGED <<time, current, shifted, list, late, old>>
            /\ \/ /\ ~(pc = "freed" /\ p = list) /\ pc \notin {"execute", "raced"}
                  /\ lists' = [lists EXCEPT ![p][n] = @ + 1] /\ pc' = pc
               \/ Clearing /\ p = list /\ pc' = "raced" /\ lists' = lists
  <1> DEFINE e == (d + time) % Range32
  <1> DEFINE p == PlaceOf(e, time)
  <1>1. TypeOK /\ OneList
    BY DEF WheelInv
  <1>2. time \in Clock /\ e \in Clock /\ e # time
    BY <1>1, SetAhead DEF TypeOK, Clock
  <1>3. p \in Places /\ RightPlace(p, e, time)
    BY <1>2, Placed
  <1>4. /\ expire' = [expire EXCEPT ![n] = e]
        /\ state' = [state EXCEPT ![n] = "set"]
        /\ cancel' \in [Nodes -> BOOLEAN]
        /\ n \notin Set /\ pc \notin {"execute", "raced"}
        /\ UNCHANGED <<time, current, shifted, list, late, old>>
    BY <1>1 DEF add_timer, TypeOK
  <1>5. expire'[n] = e /\ \A k \in Nodes : k # n => expire'[k] = expire[k]
    BY <1>1, <1>4 DEF TypeOK
  <1>6. \/ /\ ~(pc = "freed" /\ p = list)
           /\ lists' = [lists EXCEPT ![p][n] = @ + 1] /\ pc' = pc
        \/ Clearing /\ p = list /\ pc' = "raced" /\ lists' = lists
    BY <1>5 DEF add_timer
  <1>7. expire' \in [Nodes -> 0 .. Range32 - 1] /\ state' \in [Nodes -> {"free", "set", "fired"}]
    BY <1>1, <1>2, <1>4 DEF TypeOK, Clock
  <1>8. Set' = Set \cup {n}
    BY <1>1, <1>4 DEF Set, TypeOK
  <1> HIDE DEF e, p
  <1>9. current[n] = 0 /\ \A q \in Places : lists[q][n] = 0
    <2>1. current[n] \in Nat /\ \A q \in Places : lists[q][n] \in Nat
      BY <1>1 DEF TypeOK
    <2> QED
      BY <1>1, <1>4, <2>1 DEF OneList
  <1> QED
    BY <1>2, <1>3, <1>4, <1>5, <1>6, <1>7, <1>8, <1>9 DEF e, p

LEMMA AddInv ==
  ASSUME WheelInv, NEW n \in Nodes, NEW d \in Delays, add_timer(n, d)
  PROVE  WheelInv'
  <1>1. /\ TypeOK /\ OneList /\ InPlace /\ Phases /\ Cleared
        /\ FiresOnTime /\ OverdueOnlyInNeverMoved /\ FirstExecuteFindsNothing
    BY DEF WheelInv
  <1>2. PICK e, p :
          /\ e \in Clock /\ e # time /\ p \in Places /\ RightPlace(p, e, time)
          /\ expire'[n] = e /\ \A k \in Nodes : k # n => expire'[k] = expire[k]
          /\ expire' \in [Nodes -> 0 .. Range32 - 1] /\ cancel' \in [Nodes -> BOOLEAN]
          /\ state' \in [Nodes -> {"free", "set", "fired"}]
          /\ n \notin Set /\ Set' = Set \cup {n}
          /\ current[n] = 0 /\ \A q \in Places : lists[q][n] = 0
          /\ UNCHANGED <<time, current, shifted, list, late, old>>
          /\ \/ /\ ~(pc = "freed" /\ p = list) /\ pc \notin {"execute", "raced"}
                /\ lists' = [lists EXCEPT ![p][n] = @ + 1] /\ pc' = pc
             \/ Clearing /\ p = list /\ pc' = "raced" /\ lists' = lists
    BY AddFacts, Zenon
  <1>3. Here' = Here /\ Here \in Places \ NeverMoved /\ n \notin old /\ EmptyList' = EmptyList
    BY <1>1, <1>2, HereIsAPlace DEF Here, TypeOK, EmptyList
  <1>4. CASE Clearing /\ p = list /\ pc' = "raced" /\ lists' = lists
    <2>1. TypeOK'
      BY <1>1, <1>2, <1>4 DEF TypeOK
    <2>2. OneList'
      BY <1>1, <1>2, <1>4 DEF OneList
    <2>3. InPlace'
      <3>1. SUFFICES ASSUME NEW k \in Nodes, NEW q \in Places, lists[q][k] > 0
                     PROVE  RightPlace(q, expire'[k], time)
        BY <1>2, <1>4 DEF InPlace
      <3>2. k # n
        BY <1>2, <3>1
      <3> QED
        BY <1>1, <1>2, <3>1, <3>2 DEF InPlace
    <2>4. current = EmptyList /\ pc \notin {"execute", "dispatch"}
      BY <1>1, <1>4 DEF Phases, Clearing
    <2>5. Phases' /\ Cleared' /\ FiresOnTime'
      BY <1>2, <1>3, <1>4, <2>4 DEF Phases, Cleared, Clearing, FiresOnTime, EmptyList
    <2>6. OverdueOnlyInNeverMoved'
      BY <1>1, <1>2, <1>4 DEF OverdueOnlyInNeverMoved
    <2>7. FirstExecuteFindsNothing'
      BY <1>1, <1>2, <1>3, <1>4, <2>4 DEF FirstExecuteFindsNothing
    <2> QED
      BY <2>1, <2>2, <2>3, <2>5, <2>6, <2>7 DEF WheelInv
  <1>5. CASE /\ ~(pc = "freed" /\ p = list) /\ pc \notin {"execute", "raced"}
             /\ lists' = [lists EXCEPT ![p][n] = @ + 1] /\ pc' = pc
    <2>1. /\ lists' \in [Places -> [Nodes -> Nat]]
          /\ \A q \in Places, k \in Nodes : lists'[q][k] = IF q = p /\ k = n THEN 1 ELSE lists[q][k]
          /\ \A q \in Places : q # p => lists'[q] = lists[q]
      BY <1>1, <1>2, <1>5 DEF TypeOK
    <2>2. TypeOK'
      BY <1>1, <1>2, <1>5, <2>1 DEF TypeOK
    <2>3. OneList'
      BY <1>1, <1>2, <1>5, <2>1 DEF OneList
    <2>4. InPlace'
      <3>1. SUFFICES ASSUME NEW k \in Nodes, NEW q \in Places, lists'[q][k] > 0
                     PROVE  RightPlace(q, expire'[k], time')
        BY DEF InPlace
      <3>2. CASE k = n
        <4>1. q = p
          BY <1>2, <2>1, <3>1, <3>2
        <4> QED
          BY <1>2, <3>2, <4>1
      <3>3. CASE k # n
        <4>1. lists[q][k] > 0
          BY <2>1, <3>1, <3>3
        <4> QED
          BY <1>1, <1>2, <3>3, <4>1 DEF InPlace
      <3> QED
        BY <3>2, <3>3
    <2>5. Phases' /\ FiresOnTime'
      BY <1>1, <1>2, <1>3, <1>5 DEF Phases, FiresOnTime
    <2>6. Cleared'
      <3>1. \A k \in old : k \in Nodes /\ k # n
        BY <1>1, <1>3 DEF TypeOK, Set
      <3>2. Clearing => \A k \in old : \E q \in Places : lists'[q][k] > 0 /\ ~Before(q, list)
        BY <1>1, <2>1, <3>1 DEF Cleared
      <3> QED
        BY <1>1, <1>2, <1>3, <1>5, <3>2 DEF Cleared, Clearing
    <2>7. OverdueOnlyInNeverMoved'
      BY <1>1, <1>2, <2>1 DEF OverdueOnlyInNeverMoved, TypeOK
    <2>8. FirstExecuteFindsNothing'
      <3>1. time \in Clock
        BY <1>1 DEF TypeOK, Clock
      <3>2. p # Here
        BY <1>2, <1>3, <3>1, NowIsHere DEF Here
      <3>3. lists'[Here] = lists[Here]
        BY <1>3, <2>1, <3>2
      <3> QED
        BY <1>1, <1>2, <1>3, <1>5, <3>3 DEF FirstExecuteFindsNothing
    <2> QED
      BY <2>2, <2>3, <2>4, <2>5, <2>6, <2>7, <2>8 DEF WheelInv
  <1> QED
    BY <1>2, <1>4, <1>5

LEMMA DelInv ==
  ASSUME WheelInv, NEW n \in Nodes, del_timer(n)
  PROVE  WheelInv'
  BY DEF WheelInv, del_timer, TypeOK, OneList, InPlace, Phases, Cleared, Clearing, FiresOnTime,
         OverdueOnlyInNeverMoved, FirstExecuteFindsNothing, Set, Here, EmptyList

\* clear_timer begins, finds a list empty, or goes to the next list.
LEMMA ClearInv ==
  ASSUME WheelInv, clear_timer \/ FoundEmpty \/ (ClearList /\ lists[list] = EmptyList)
  PROVE  WheelInv'
  <1>1. /\ TypeOK /\ OneList /\ InPlace /\ Phases /\ Cleared
        /\ FiresOnTime /\ OverdueOnlyInNeverMoved /\ FirstExecuteFindsNothing
    BY DEF WheelInv
  <1>2. ClearList /\ lists[list] = EmptyList => lists' = lists
    BY <1>1 DEF ClearList, TypeOK
  <1>3. /\ UNCHANGED <<lists, time, expire, cancel, state, current, shifted, late>>
        /\ pc \in {"idle", "clear", "empty", "freed"} /\ pc' \in {"idle", "clear", "empty", "freed"}
        /\ list' \in Places /\ Set' = Set /\ old' \subseteq Set
    BY <1>1, <1>2, FirstIsAPlace DEF TypeOK, Set, clear_timer, FoundEmpty, ClearList
  <1>4. EmptyList' = EmptyList /\ Here' = Here
    BY <1>3 DEF EmptyList, Here
  <1>5. TypeOK'
    BY <1>1, <1>3 DEF TypeOK
  <1>6. OneList' /\ InPlace' /\ FiresOnTime' /\ OverdueOnlyInNeverMoved'
    BY <1>1, <1>3 DEF OneList, InPlace, FiresOnTime, OverdueOnlyInNeverMoved
  <1>7. Phases' /\ FirstExecuteFindsNothing'
    BY <1>1, <1>3, <1>4 DEF Phases, FirstExecuteFindsNothing
  <1>8. Cleared'
    <2>1. CASE clear_timer
      <3>1. /\ pc = "idle" /\ pc' = "clear" /\ list' = <<0, 0>> /\ old' = Set
            /\ current = EmptyList
        BY <1>1, <2>1 DEF clear_timer, Phases
      <3>2. \A n \in old' : \E p \in Places : lists'[p][n] > 0 /\ ~Before(p, <<0, 0>>)
        BY <1>1, <1>3, <3>1, FirstIsAPlace DEF OneList, Set, EmptyList
      <3> QED
        BY <3>1, <3>2 DEF Cleared, Clearing
    <2>2. CASE FoundEmpty
      BY <1>1, <1>4, <2>2 DEF FoundEmpty, Cleared, Clearing
    <2>3. CASE ClearList /\ lists[list] = EmptyList
      <3>1. /\ Clearing /\ old' = old /\ lists' = lists /\ list \in Places
            /\ IF After(list) \in Places THEN pc' = "clear" /\ list' = After(list)
                                         ELSE pc' = "idle"
        BY <1>1, <1>3, <2>3 DEF ClearList, Clearing, TypeOK
      <3>2. ASSUME NEW n \in old
            PROVE  /\ After(list) \in Places
                   /\ \E p \in Places : lists[p][n] > 0 /\ ~Before(p, After(list))
        <4>1. n \in Nodes
          BY <1>1 DEF TypeOK, Set
        <4>2. PICK p \in Places : lists[p][n] > 0 /\ ~Before(p, list)
          BY <1>1, <3>1 DEF Cleared
        <4>3. p # list
          BY <2>3, <4>1, <4>2 DEF EmptyList
        <4> QED
          BY <3>1, <4>2, <4>3, AfterIsNext
      <3>3. CASE After(list) \in Places
        BY <3>1, <3>2, <3>3 DEF Cleared, Clearing
      <3>4. CASE After(list) \notin Places
        BY <3>1, <3>2, <3>4 DEF Cleared, Clearing
      <3> QED
        BY <3>3, <3>4
    <2> QED
      BY <2>1, <2>2, <2>3
  <1> QED
    BY <1>5, <1>6, <1>7, <1>8 DEF WheelInv

\* link_clear drops a node that was linked after the walk.
LEMMA DroppedInv ==
  ASSUME WheelInv, ClearList, lists[list] # EmptyList
  PROVE  WheelInv'
  <1>1. /\ TypeOK /\ OneList /\ InPlace /\ Phases /\ Cleared
        /\ FiresOnTime /\ OverdueOnlyInNeverMoved /\ FirstExecuteFindsNothing
    BY DEF WheelInv
  <1>2. /\ lists' = [lists EXCEPT ![list] = EmptyList] /\ pc' = "raced"
        /\ pc \in {"empty", "freed"} /\ list \in Places
        /\ UNCHANGED <<time, expire, cancel, state, current, shifted, list, late, old>>
    BY <1>1 DEF ClearList, TypeOK
  <1>3. EmptyList' = EmptyList /\ EmptyList \in [Nodes -> Nat] /\ \A n \in Nodes : EmptyList[n] = 0
    BY DEF EmptyList
  <1>4. /\ lists' \in [Places -> [Nodes -> Nat]]
        /\ \A p \in Places : lists'[p] = IF p = list THEN EmptyList ELSE lists[p]
    BY <1>1, <1>2, <1>3 DEF TypeOK
  <1>5. \A p \in Places, n \in Nodes : lists'[p][n] = 0 \/ lists'[p][n] = lists[p][n]
    BY <1>3, <1>4
  <1>6. Set' = Set
    BY <1>2 DEF Set
  <1>7. TypeOK'
    BY <1>1, <1>2, <1>4, <1>6 DEF TypeOK
  <1>8. \A p \in Places, n \in Nodes : /\ lists'[p][n] > 0 => lists[p][n] > 0
                                       /\ lists[p][n] <= 1 => lists'[p][n] <= 1
    BY <1>5
  <1>9. OneList'
    BY <1>1, <1>2, <1>6, <1>8 DEF OneList
  <1>10. InPlace' /\ FiresOnTime' /\ OverdueOnlyInNeverMoved'
    BY <1>1, <1>2, <1>8 DEF InPlace, FiresOnTime, OverdueOnlyInNeverMoved
  <1>11. Phases' /\ Cleared'
    BY <1>1, <1>2, <1>3 DEF Phases, Cleared, Clearing
  <1>12. FirstExecuteFindsNothing'
    <2>1. Here' = Here /\ Here \in Places /\ lists[Here] = EmptyList
      BY <1>1, <1>2, HereIsAPlace DEF Here, FirstExecuteFindsNothing
    <2> QED
      BY <1>3, <1>4, <2>1 DEF FirstExecuteFindsNothing
  <1> QED
    BY <1>7, <1>9, <1>10, <1>11, <1>12 DEF WheelInv

\* clear_timer frees a node.
LEMMA ClearNodeInv ==
  ASSUME WheelInv, ClearNode
  PROVE  WheelInv'
  <1>1. /\ TypeOK /\ OneList /\ InPlace /\ Phases /\ Cleared
        /\ FiresOnTime /\ OverdueOnlyInNeverMoved /\ FirstExecuteFindsNothing
    BY DEF WheelInv
  <1>2. PICK n \in Nodes :
          /\ lists[list][n] > 0
          /\ lists' = [lists EXCEPT ![list][n] = @ - 1]
          /\ state' = [state EXCEPT ![n] = "free"]
          /\ late' = late \ {n} /\ old' = old \ {n}
          /\ Forget({n})
    BY DEF ClearNode
  <1>3. /\ pc = "clear" /\ UNCHANGED <<time, current, shifted, list>> /\ list \in Places
        /\ pc' = IF lists'[list] = EmptyList THEN "freed" ELSE "clear"
        /\ current = EmptyList
    BY <1>1 DEF ClearNode, TypeOK, Phases
  <1>4. \A k \in Nodes : k # n => expire'[k] = expire[k]
    BY <1>2 DEF Forget
  <1>5. lists[list][n] = 1 /\ \A p \in Places : p # list => ~(lists[p][n] > 0)
    BY <1>1, <1>2, <1>3 DEF OneList, TypeOK
  <1>6. /\ lists' \in [Places -> [Nodes -> Nat]]
        /\ \A p \in Places, k \in Nodes : lists'[p][k] = IF p = list /\ k = n THEN 0 ELSE lists[p][k]
    BY <1>1, <1>2, <1>3, <1>5 DEF TypeOK
  <1>7. Set' = Set \ {n} /\ \A k \in Nodes : current[k] = 0
    BY <1>1, <1>2, <1>3 DEF Set, TypeOK, EmptyList
  <1>8. TypeOK'
    <2>1. expire' \in [Nodes -> 0 .. Range32 - 1]
      BY <1>1, <1>2, ClockType DEF Forget, TypeOK, Clock
    <2>2. cancel' \in [Nodes -> BOOLEAN] /\ state' \in [Nodes -> {"free", "set", "fired"}]
      BY <1>1, <1>2 DEF Forget, TypeOK
    <2>3. late' \subseteq Set' /\ old' \subseteq Set'
      BY <1>1, <1>2, <1>7 DEF TypeOK
    <2> QED
      BY <1>1, <1>3, <1>6, <2>1, <2>2, <2>3 DEF TypeOK
  <1>9. OneList'
    <2>1. \A p \in Places : ~(lists'[p][n] > 0)
      BY <1>5, <1>6
    <2>2. \A k \in Nodes : k # n => \A p \in Places : lists'[p][k] = lists[p][k]
      BY <1>6
    <2> QED
      BY <1>1, <1>3, <1>6, <1>7, <2>1, <2>2 DEF OneList
  <1>10. InPlace'
    <2>1. SUFFICES ASSUME NEW k \in Nodes, NEW p \in Places, lists'[p][k] > 0
                   PROVE  RightPlace(p, expire'[k], time)
      BY <1>3 DEF InPlace
    <2>2. k # n /\ lists[p][k] > 0
      BY <1>5, <1>6, <2>1
    <2> QED
      BY <1>1, <1>4, <2>2 DEF InPlace
  <1>11. FiresOnTime' /\ Phases'
    BY <1>3, <1>7 DEF FiresOnTime, Phases, EmptyList
  <1>12. OverdueOnlyInNeverMoved'
    BY <1>1, <1>2, <1>6 DEF OverdueOnlyInNeverMoved
  <1>13. FirstExecuteFindsNothing'
    <2>1. Here' = Here /\ Here \in Places /\ EmptyList' = EmptyList /\ lists[Here] = EmptyList
      BY <1>1, <1>3, HereIsAPlace DEF Here, EmptyList, FirstExecuteFindsNothing
    <2>2. list # Here
      BY <1>2, <2>1 DEF EmptyList
    <2>3. lists'[Here] = lists[Here]
      BY <1>1, <1>2, <2>1, <2>2 DEF TypeOK
    <2> QED
      BY <2>1, <2>3 DEF FirstExecuteFindsNothing
  <1>14. Cleared'
    <2>1. EmptyList' = EmptyList
      BY DEF EmptyList
    <2>2. \A k \in old' : k \in old /\ k \in Nodes /\ k # n
      BY <1>1, <1>2 DEF TypeOK, Set
    <2>3. \A k \in old' : \E p \in Places : lists'[p][k] > 0 /\ ~Before(p, list)
      BY <1>1, <1>3, <1>6, <2>2 DEF Cleared, Clearing
    <2> QED
      BY <1>3, <2>1, <2>3 DEF Cleared, Clearing
  <1> QED
    BY <1>8, <1>9, <1>10, <1>11, <1>12, <1>13, <1>14 DEF WheelInv

\* The steps that only change where timer_update is.
LEMMA UpdateInv ==
  ASSUME WheelInv, expire_timer \/ Relock \/ UpdateEnds
  PROVE  WheelInv'
  <1>1. /\ TypeOK /\ OneList /\ InPlace /\ Phases /\ Cleared
        /\ FiresOnTime /\ OverdueOnlyInNeverMoved /\ FirstExecuteFindsNothing
    BY DEF WheelInv
  <1>2. /\ UNCHANGED <<lists, time, expire, cancel, state, current, list, late, old>>
        /\ pc # "raced" /\ pc' # "raced"
    BY DEF expire_timer, Relock, UpdateEnds
  <1>3. TypeOK'
    BY <1>1, <1>2 DEF TypeOK, Set, expire_timer, Relock, UpdateEnds
  <1>4. OneList' /\ InPlace' /\ FiresOnTime' /\ OverdueOnlyInNeverMoved'
    BY <1>1, <1>2 DEF OneList, InPlace, FiresOnTime, OverdueOnlyInNeverMoved, Set
  <1>5. Phases' /\ FirstExecuteFindsNothing'
    BY <1>1, <1>2 DEF Phases, FirstExecuteFindsNothing, Here, EmptyList, expire_timer, Relock, UpdateEnds
  <1>6. Cleared'
    BY <1>1, <1>2 DEF Cleared, Clearing, expire_timer, Relock, UpdateEnds
  <1> QED
    BY <1>3, <1>4, <1>5, <1>6 DEF WheelInv

LEMMA ExecuteInv ==
  ASSUME WheelInv, timer_execute
  PROVE  WheelInv'
  <1>1. /\ TypeOK /\ OneList /\ InPlace /\ Phases /\ Cleared
        /\ FiresOnTime /\ OverdueOnlyInNeverMoved /\ FirstExecuteFindsNothing
    BY DEF WheelInv
  <1>2. Here \in Places \ NeverMoved /\ Here' = Here
    BY <1>1, HereIsAPlace DEF timer_execute, Here
  <1>3. /\ current' = lists[Here] /\ lists' = [lists EXCEPT ![Here] = EmptyList]
        /\ current = EmptyList /\ shifted /\ pc = "execute" /\ pc' = "dispatch"
        /\ UNCHANGED <<time, expire, cancel, state, shifted, list, late, old>>
    BY <1>1 DEF timer_execute, Phases, FirstExecuteFindsNothing, TypeOK
  <1>4. EmptyList \in [Nodes -> Nat] /\ \A n \in Nodes : EmptyList[n] = 0
    BY DEF EmptyList
  <1>5. \A n \in Nodes : current[n] = 0 /\ current'[n] = lists[Here][n]
    BY <1>3, <1>4
  <1>6. \A p \in Places, n \in Nodes : lists'[p][n] = IF p = Here THEN 0 ELSE lists[p][n]
    BY <1>1, <1>3, <1>4 DEF TypeOK
  <1>7. Set' = Set
    BY <1>3 DEF Set
  <1>8. TypeOK'
    <2>1. lists' \in [Places -> [Nodes -> Nat]] /\ current' \in [Nodes -> Nat]
      BY <1>1, <1>2, <1>3, <1>4 DEF TypeOK
    <2> QED
      BY <1>1, <1>3, <1>7, <2>1 DEF TypeOK
  <1>9. OneList'
    <2>1. SUFFICES ASSUME NEW n \in Nodes
                   PROVE  /\ current'[n] <= 1 /\ \A p \in Places : lists'[p][n] <= 1
                          /\ \A p, q \in Places : lists'[p][n] > 0 /\ lists'[q][n] > 0 => p = q
                          /\ \A p \in Places : lists'[p][n] > 0 => current'[n] = 0
                          /\ n \in Set' <=> (current'[n] > 0 \/ \E p \in Places : lists'[p][n] > 0)
      BY DEF OneList
    <2>2. lists[Here][n] \in Nat
      BY <1>1, <1>2 DEF TypeOK
    <2> QED
      BY <1>1, <1>2, <1>3, <1>5, <1>6, <1>7, <2>2 DEF OneList
  <1>10. InPlace'
    <2>1. SUFFICES ASSUME NEW n \in Nodes, NEW p \in Places, lists'[p][n] > 0
                   PROVE  RightPlace(p, expire'[n], time')
      BY DEF InPlace
    <2>2. lists[p][n] > 0
      BY <1>6, <2>1
    <2> QED
      BY <1>1, <1>3, <2>2 DEF InPlace
  <1>11. FiresOnTime'
    <2>1. SUFFICES ASSUME NEW n \in Nodes, lists[Here][n] > 0
                   PROVE  expire[n] = time /\ n \notin late
      BY <1>3, <1>5 DEF FiresOnTime
    <2>2. RightPlace(Here, expire[n], time)
      BY <1>1, <1>2, <2>1 DEF InPlace
    <2>3. expire[n] \in Clock /\ time \in Clock
      BY <1>1 DEF TypeOK, Clock
    <2>4. expire[n] = time
      BY <1>2, <2>2, <2>3, NowIsHere DEF Here
    <2> QED
      BY <1>1, <1>2, <2>1, <2>4 DEF OverdueOnlyInNeverMoved
  <1>12. OverdueOnlyInNeverMoved'
    BY <1>1, <1>3, <1>6 DEF OverdueOnlyInNeverMoved
  <1>13. Phases' /\ FirstExecuteFindsNothing' /\ Cleared'
    BY <1>1, <1>3 DEF Phases, FirstExecuteFindsNothing, Cleared, Clearing
  <1> QED
    BY <1>8, <1>9, <1>10, <1>11, <1>12, <1>13 DEF WheelInv

LEMMA DispatchInv ==
  ASSUME WheelInv, DispatchNode
  PROVE  WheelInv'
  <1>1. /\ TypeOK /\ OneList /\ InPlace /\ Phases /\ Cleared
        /\ FiresOnTime /\ OverdueOnlyInNeverMoved /\ FirstExecuteFindsNothing
    BY DEF WheelInv
  <1>2. PICK n \in Nodes :
          /\ current[n] > 0
          /\ state' = [state EXCEPT ![n] = IF cancel[n] THEN "free" ELSE "fired"]
          /\ late' = late \ {n}
          /\ current' = [current EXCEPT ![n] = @ - 1]
          /\ Forget({n})
    BY DEF DispatchNode
  <1>3. pc = "dispatch" /\ shifted /\ UNCHANGED <<lists, time, pc, shifted, list, old>> /\ old = {}
    BY <1>1 DEF DispatchNode, Phases, Cleared
  <1>4. \A k \in Nodes : k # n => expire'[k] = expire[k]
    BY <1>2 DEF Forget
  <1>5. current[n] = 1 /\ \A p \in Places : ~(lists[p][n] > 0)
    BY <1>1, <1>2 DEF OneList, TypeOK
  <1>6. current' \in [Nodes -> Nat] /\ \A k \in Nodes : current'[k] = IF k = n THEN 0 ELSE current[k]
    BY <1>1, <1>2, <1>5 DEF TypeOK
  <1>7. Set' = Set \ {n}
    BY <1>1, <1>2 DEF Set, TypeOK
  <1>8. TypeOK'
    <2>1. expire' \in [Nodes -> 0 .. Range32 - 1]
      BY <1>1, <1>2, ClockType DEF Forget, TypeOK, Clock
    <2>2. cancel' \in [Nodes -> BOOLEAN] /\ state' \in [Nodes -> {"free", "set", "fired"}]
      BY <1>1, <1>2 DEF Forget, TypeOK
    <2> QED
      BY <1>1, <1>2, <1>3, <1>6, <1>7, <2>1, <2>2 DEF TypeOK
  <1>9. OneList'
    BY <1>1, <1>3, <1>5, <1>6, <1>7 DEF OneList
  <1>10. InPlace'
    <2>1. SUFFICES ASSUME NEW k \in Nodes, NEW p \in Places, lists[p][k] > 0
                   PROVE  RightPlace(p, expire'[k], time)
      BY <1>3 DEF InPlace
    <2> QED
      BY <1>1, <1>4, <1>5, <2>1 DEF InPlace
  <1>11. FiresOnTime'
    BY <1>1, <1>2, <1>3, <1>4, <1>6 DEF FiresOnTime
  <1>12. OverdueOnlyInNeverMoved'
    BY <1>1, <1>2, <1>3 DEF OverdueOnlyInNeverMoved
  <1>13. Phases' /\ FirstExecuteFindsNothing' /\ Cleared'
    BY <1>1, <1>3 DEF Phases, FirstExecuteFindsNothing, Cleared, Clearing
  <1> QED
    BY <1>8, <1>9, <1>10, <1>11, <1>12, <1>13 DEF WheelInv

\* A tick moves a node to its new place, or leaves it in a list that is not due.
LEMMA ShiftNode ==
  ASSUME WheelInv, timer_shift, NEW n \in Nodes
  PROVE  \/ /\ \A q \in Places : lists'[q][n] = lists[q][n]
            /\ \A q \in Places : lists[q][n] > 0 => Due(time') # {q}
         \/ \E p \in Places \ NeverMoved, o \in Places :
               /\ lists[p][n] > 0 /\ RightPlace(o, expire[n], time')
               /\ \A q \in Places : lists'[q][n] = IF q = o THEN 1 ELSE 0
  <1>1. TypeOK /\ OneList
    BY DEF WheelInv
  <1>2. PICK ct : ct = (time + 1) % Range32
    OBVIOUS
  <1>3. /\ time' = ct
        /\ lists' = IF Due(ct) = {} THEN lists
                    ELSE move_list(lists, CHOOSE p \in Due(ct) : TRUE, ct)
    BY <1>2 DEF timer_shift
  <1>4. ct \in Clock /\ expire[n] \in Clock /\ time \in Clock
    BY <1>1, <1>2, Tick DEF TypeOK, Clock
  <1>5. CASE Due(ct) = {}
    BY <1>3, <1>5
  <1>6. CASE Due(ct) # {}
    <2> DEFINE p == CHOOSE x \in Due(ct) : TRUE
    <2> DEFINE o == PlaceOf(expire[n], ct)
    <2>1. p \in Due(ct)
      BY <1>6
    <2>2. p \in Places \ NeverMoved
      BY <1>4, <2>1, DueType
    <2>3. o \in Places /\ RightPlace(o, expire[n], ct)
      BY <1>4, Placed
    <2>4. ASSUME NEW q \in Places
          PROVE  lists'[q][n] = (IF q = p THEN 0 ELSE lists[q][n]) + (IF o = q THEN lists[p][n] ELSE 0)
      <3>1. lists' = move_list(lists, p, ct)
        BY <1>3, <1>6
      <3>2. lists'[q][n] = [lists EXCEPT ![p] = EmptyList][q][n] + IF o = q THEN lists[p][n] ELSE 0
        BY <3>1 DEF move_list
      <3>3. [lists EXCEPT ![p] = EmptyList][q][n] = IF q = p THEN 0 ELSE lists[q][n]
        BY <1>1, <2>2 DEF TypeOK, EmptyList
      <3> QED
        BY <3>2, <3>3
    <2> HIDE DEF p, o
    <2>5. \A q \in Places : lists[q][n] \in Nat
      BY <1>1 DEF TypeOK
    <2>6. CASE lists[p][n] > 0
      <3>1. lists[p][n] = 1
        BY <1>1, <2>2, <2>5, <2>6 DEF OneList
      <3>2. \A q \in Places : q # p => lists[q][n] = 0
        BY <1>1, <2>2, <2>5, <2>6 DEF OneList
      <3>3. \A q \in Places : lists'[q][n] = IF q = o THEN 1 ELSE 0
        BY <2>4, <3>1, <3>2
      <3> QED
        BY <1>3, <2>2, <2>3, <2>6, <3>3
    <2>7. CASE ~(lists[p][n] > 0)
      <3>1. lists[p][n] = 0
        BY <2>2, <2>5, <2>7
      <3>2. \A q \in Places : lists'[q][n] = lists[q][n]
        BY <2>4, <2>5, <3>1
      <3> QED
        BY <1>3, <2>1, <2>7, <3>2
    <2> QED
      BY <2>6, <2>7
  <1> QED
    BY <1>5, <1>6

LEMMA ShiftInv ==
  ASSUME WheelInv, timer_shift
  PROVE  WheelInv'
  <1>1. /\ TypeOK /\ OneList /\ InPlace /\ Phases /\ Cleared
        /\ FiresOnTime /\ OverdueOnlyInNeverMoved /\ FirstExecuteFindsNothing
    BY DEF WheelInv
  <1>2. /\ lists[Here] = EmptyList /\ ~shifted /\ pc = "execute"
        /\ time' = (time + 1) % Range32 /\ shifted' = TRUE
        /\ late' = late \cup {n \in Set : expire[n] = time}
        /\ UNCHANGED <<expire, cancel, state, current, pc, list, old>> /\ old = {}
    BY <1>1 DEF timer_shift, Cleared
  <1>3. time \in Clock /\ time' \in Clock /\ \A n \in Nodes : expire[n] \in Clock
    BY <1>1, <1>2, Tick DEF TypeOK, Clock
  <1>4. current = EmptyList /\ \A n \in Nodes : current[n] = 0
    BY <1>1, <1>2 DEF Phases, EmptyList
  <1>5. Here \in Places \ NeverMoved
    BY <1>1, HereIsAPlace
  <1>6. \A p \in Places \ NeverMoved, n \in Nodes : lists[p][n] > 0 => expire[n] # time
    <2>1. SUFFICES ASSUME NEW p \in Places \ NeverMoved, NEW n \in Nodes, lists[p][n] > 0, expire[n] = time
                   PROVE  FALSE
      OBVIOUS
    <2>2. RightPlace(p, expire[n], time)
      BY <1>1, <2>1 DEF InPlace
    <2>3. p = Here
      BY <1>3, <2>1, <2>2, NowIsHere DEF Here
    <2> QED
      BY <1>2, <2>1, <2>3 DEF EmptyList
  <1>7. Set' = Set
    BY <1>2 DEF Set
  <1>8. lists' \in [Places -> [Nodes -> Nat]]
    <2>1. CASE Due(time') = {}
      BY <1>1, <1>2, <2>1 DEF timer_shift, TypeOK
    <2>2. CASE Due(time') # {}
      <3>1. PICK p : p \in Due(time') /\ lists' = move_list(lists, p, time')
        BY <1>2, <2>2 DEF timer_shift
      <3>2. p \in Places
        BY <1>3, <3>1, DueType
      <3>3. [lists EXCEPT ![p] = EmptyList] \in [Places -> [Nodes -> Nat]]
        BY <1>1, <3>2 DEF TypeOK, EmptyList
      <3>4. lists[p] \in [Nodes -> Nat]
        BY <1>1, <3>2 DEF TypeOK
      <3> QED
        BY <3>1, <3>3, <3>4 DEF move_list
    <2> QED
      BY <2>1, <2>2
  <1>9. TypeOK'
    BY <1>1, <1>2, <1>3, <1>7, <1>8 DEF TypeOK, Clock
  <1>10. OneList'
    <2>1. SUFFICES ASSUME NEW n \in Nodes
                   PROVE  /\ current'[n] <= 1 /\ \A p \in Places : lists'[p][n] <= 1
                          /\ \A p, q \in Places : lists'[p][n] > 0 /\ lists'[q][n] > 0 => p = q
                          /\ \A p \in Places : lists'[p][n] > 0 => current'[n] = 0
                          /\ n \in Set' <=> (current'[n] > 0 \/ \E p \in Places : lists'[p][n] > 0)
      BY DEF OneList
    <2>2. current'[n] = 0
      BY <1>2, <1>4
    <2>3. CASE \A q \in Places : lists'[q][n] = lists[q][n]
      BY <1>1, <1>2, <1>4, <1>7, <2>2, <2>3 DEF OneList
    <2>4. ASSUME NEW p \in Places, NEW o \in Places, lists[p][n] > 0,
                 \A q \in Places : lists'[q][n] = IF q = o THEN 1 ELSE 0
          PROVE  /\ \A q \in Places : lists'[q][n] <= 1
                 /\ \A r, q \in Places : lists'[r][n] > 0 /\ lists'[q][n] > 0 => r = q
                 /\ n \in Set' /\ \E q \in Places : lists'[q][n] > 0
      BY <1>1, <1>7, <2>4 DEF OneList
    <2> QED
      BY <2>2, <2>3, <2>4, ShiftNode
  <1>11. ASSUME NEW n \in Nodes, NEW q \in Places, lists'[q][n] > 0
         PROVE  /\ RightPlace(q, expire[n], time')
                /\ q \notin NeverMoved => \E p \in Places \ NeverMoved : lists[p][n] > 0
    <2>1. CASE /\ \A r \in Places : lists'[r][n] = lists[r][n]
               /\ \A r \in Places : lists[r][n] > 0 => Due(time') # {r}
      <3>1. lists[q][n] > 0 /\ Due(time') # {q}
        BY <1>11, <2>1
      <3>2. RightPlace(q, expire[n], time)
        BY <1>1, <3>1 DEF InPlace
      <3>3. expire[n] # time \/ q \in NeverMoved
        BY <1>6, <3>1
      <3> QED
        BY <1>2, <1>3, <3>1, <3>2, <3>3, Carried
    <2>2. ASSUME NEW p \in Places \ NeverMoved, NEW o \in Places, lists[p][n] > 0,
                 RightPlace(o, expire[n], time'),
                 \A r \in Places : lists'[r][n] = IF r = o THEN 1 ELSE 0
          PROVE  /\ RightPlace(q, expire[n], time')
                 /\ \E r \in Places \ NeverMoved : lists[r][n] > 0
      <3>1. q = o
        BY <1>11, <2>2
      <3> QED
        BY <2>2, <3>1
    <2> QED
      BY <2>1, <2>2, ShiftNode
  <1>12. InPlace'
    <2>1. SUFFICES ASSUME NEW n \in Nodes, NEW q \in Places, lists'[q][n] > 0
                   PROVE  RightPlace(q, expire'[n], time')
      BY DEF InPlace
    <2> QED
      BY <1>2, <1>11, <2>1
  <1>13. OverdueOnlyInNeverMoved'
    <2>1. SUFFICES ASSUME NEW q \in Places \ NeverMoved, NEW n \in Nodes, lists'[q][n] > 0
                   PROVE  n \notin late'
      BY DEF OverdueOnlyInNeverMoved
    <2>2. PICK p \in Places \ NeverMoved : lists[p][n] > 0
      BY <1>11, <2>1
    <2> QED
      BY <1>1, <1>2, <1>6, <2>2 DEF OverdueOnlyInNeverMoved
  <1>14. FiresOnTime' /\ Phases' /\ FirstExecuteFindsNothing' /\ Cleared'
    BY <1>2, <1>4 DEF FiresOnTime, Phases, FirstExecuteFindsNothing, Cleared, Clearing, EmptyList
  <1> QED
    BY <1>9, <1>10, <1>12, <1>13, <1>14 DEF WheelInv

LEMMA StutterInv ==
  ASSUME WheelInv, UNCHANGED vars
  PROVE  WheelInv'
  BY DEF WheelInv, vars, TypeOK, OneList, InPlace, Phases, Cleared, Clearing, FiresOnTime,
         OverdueOnlyInNeverMoved, FirstExecuteFindsNothing, Set, Here, EmptyList

-----------------------------------------------------------------------------
(* The theorems *)

\* Where each timer is: in one list, the one its expiry names, within reach, and on a
\* level only while timer_shift has still to bring the clock to the level's digit
\* (add_node, move_list, timer_shift, dispatch_list).
THEOREM Inductive == Spec => []WheelInv
  <1>1. Init => WheelInv
    BY InitInv
  <1>2. WheelInv /\ [Next]_vars => WheelInv'
    <2>1. SUFFICES ASSUME WheelInv, [Next]_vars PROVE WheelInv'
      OBVIOUS
    <2>2. ASSUME NEW n \in Nodes, NEW d \in Delays, add_timer(n, d) PROVE WheelInv'
      BY <2>1, <2>2, AddInv
    <2>3. ASSUME NEW n \in Nodes, del_timer(n) PROVE WheelInv'
      BY <2>1, <2>3, DelInv
    <2>4. CASE clear_timer \/ FoundEmpty \/ ClearList
      BY <2>1, <2>4, ClearInv, DroppedInv
    <2>5. CASE expire_timer \/ Relock \/ UpdateEnds
      BY <2>1, <2>5, UpdateInv
    <2>6. CASE timer_execute
      BY <2>1, <2>6, ExecuteInv
    <2>7. CASE DispatchNode
      BY <2>1, <2>7, DispatchInv
    <2>8. CASE timer_shift
      BY <2>1, <2>8, ShiftInv
    <2>9. CASE UNCHANGED vars
      BY <2>1, <2>9, StutterInv
    <2>10. CASE ClearNode
      BY <2>1, <2>10, ClearNodeInv
    <2> QED
      BY <2>1, <2>2, <2>3, <2>4, <2>5, <2>6, <2>7, <2>8, <2>9, <2>10 DEF Next
  <1> QED
    BY <1>1, <1>2, PTL DEF Spec

LEMMA CountsAre ==
  ASSUME WheelInv, pc # "raced"
  PROVE  EachNodeOnce
  <1>1. TypeOK /\ OneList
    BY DEF WheelInv
  <1>2. SUFFICES ASSUME NEW n \in Nodes
                 PROVE  /\ \A p \in Places : lists[p][n] <= 1
                        /\ Cardinality({p \in Places : lists[p][n] > 0}) + current[n] =
                              IF n \in Set THEN 1 ELSE 0
    BY DEF EachNodeOnce
  <1> DEFINE In == {p \in Places : lists[p][n] > 0}
  <1>3. current[n] \in Nat /\ current[n] <= 1
    BY <1>1 DEF TypeOK, OneList
  <1>4. CASE \E p \in Places : lists[p][n] > 0
    <2>1. PICK p \in Places : lists[p][n] > 0
      BY <1>4
    <2>2. In = {p}
      BY <1>1, <2>1 DEF OneList
    <2>3. Cardinality(In) = 1
      BY <2>2, FS_Singleton
    <2>4. current[n] = 0 /\ n \in Set
      BY <1>1, <2>1 DEF OneList
    <2> HIDE DEF In
    <2>5. Cardinality(In) + current[n] = IF n \in Set THEN 1 ELSE 0
      BY <2>3, <2>4
    <2> QED
      BY <1>1, <2>5 DEF OneList, In
  <1>5. CASE ~ \E p \in Places : lists[p][n] > 0
    <2>1. In = {}
      BY <1>5
    <2>2. Cardinality(In) = 0
      BY <2>1, FS_EmptySet
    <2>3. n \in Set <=> current[n] > 0
      BY <1>1, <1>5 DEF OneList
    <2> HIDE DEF In
    <2>4. Cardinality(In) + current[n] = IF n \in Set THEN 1 ELSE 0
      BY <1>3, <2>2, <2>3
    <2> QED
      BY <1>1, <2>4 DEF OneList, In
  <1> QED
    BY <1>4, <1>5

\* No callback runs twice, no list leads into freed memory, no allocated node is lost,
\* and timer_update finds the present list empty before it shifts, whatever add_timer
\* and del_timer do while the lock is free (link, move_list, dispatch_list); and
\* clear_timer, which takes no lock, endangers none of this but by meeting an add_timer
\* at one and the same list.
THEOREM Sound == Spec => []WheelSound
  <1>1. WheelInv => WheelSound
    BY CountsAre DEF WheelInv, WheelSound
  <1> QED
    BY <1>1, Inductive, PTL

\* When clear_timer has returned, every timer that it found set is freed, with timers
\* being added to other lists while it runs.
THEOREM ClearedAll == Spec => []ClearFreesAll
  <1>1. WheelInv => ClearFreesAll
    BY DEF WheelInv, Cleared, ClearFreesAll
  <1> QED
    BY <1>1, Inductive, PTL

\* dispatch_list only runs what expires in the present tick, through all levels and
\* wraps of the clock.
THEOREM OnTime == Spec => []FiresOnTime
  <1>1. WheelInv => FiresOnTime
    BY DEF WheelInv
  <1> QED
    BY <1>1, Inductive, PTL

\* A timer that missed its tick is in one of the three lists that timer_shift never
\* moves.
THEOREM Overdue == Spec => []OverdueOnlyInNeverMoved
  <1>1. WheelInv => OverdueOnlyInNeverMoved
    BY DEF WheelInv
  <1> QED
    BY <1>1, Inductive, PTL

\* A node is freed in the tick of its expiry, after its callback unless del_timer
\* cancelled it, or by clear_timer.
THEOREM Freed == Spec => FreedInItsTick
  <1> DEFINE A == \A n \in Set : n \notin Set' =>
                     \/ expire[n] = time /\ (cancel[n] \/ state'[n] = "fired")
                     \/ ClearNode
  <1>1. WheelInv /\ [Next]_vars => [A]_vars
    <2>1. SUFFICES ASSUME WheelInv, Next, NEW n \in Set, n \notin Set', ~ClearNode
                   PROVE  expire[n] = time /\ (cancel[n] \/ state'[n] = "fired")
      OBVIOUS
    <2>2. TypeOK /\ FiresOnTime /\ n \in Nodes /\ state[n] = "set" /\ state'[n] # "set"
      BY <2>1 DEF WheelInv, Set
    <2>3. ASSUME NEW k \in Nodes, NEW d \in Delays, add_timer(k, d) PROVE FALSE
      BY <2>2, <2>3 DEF add_timer, TypeOK
    <2>4. ASSUME NEW k \in Nodes, del_timer(k) PROVE FALSE
      BY <2>2, <2>4 DEF del_timer
    <2>5. CASE expire_timer \/ timer_execute \/ Relock \/ timer_shift \/ UpdateEnds
      BY <2>2, <2>5 DEF expire_timer, timer_execute, Relock, timer_shift, UpdateEnds
    <2>7. CASE clear_timer \/ FoundEmpty \/ ClearList
      BY <2>2, <2>7 DEF clear_timer, FoundEmpty, ClearList
    <2>6. CASE DispatchNode
      <3>1. PICK k \in Nodes :
              /\ current[k] > 0
              /\ state' = [state EXCEPT ![k] = IF cancel[k] THEN "free" ELSE "fired"]
        BY <2>6 DEF DispatchNode
      <3>2. k = n
        BY <2>2, <3>1 DEF TypeOK
      <3> QED
        BY <2>2, <3>1, <3>2 DEF FiresOnTime, TypeOK
    <2> QED
      BY <2>1, <2>3, <2>4, <2>5, <2>6, <2>7 DEF Next
  <1>2. Spec => [][A]_vars
    <2>1. Spec => []WheelInv
      BY Inductive
    <2> HIDE DEF A
    <2> QED
      BY <1>1, <2>1, PTL DEF Spec
  <1> QED
    BY <1>2 DEF FreedInItsTick
=============================================================================
