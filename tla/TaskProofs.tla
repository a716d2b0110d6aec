------------------------------ MODULE TaskProofs ------------------------------
(***************************************************************************)
(* The two ways to run the tasks: the periodic scheduler for every cascade *)
(* of frequencies, and the start of the task framework for any tasks,      *)
(* stacks and priorities.                                                  *)
(***************************************************************************)
EXTENDS MCTasks, WellFoundedInduction, TLAPS

-----------------------------------------------------------------------------
(* Arithmetic of multiples.                                                *)

LEMMA Distribute ==
  ASSUME NEW a \in Nat, NEW b \in Nat, NEW c \in Nat
  PROVE  /\ a * (b + c) = a * b + a * c
         /\ a * (b * c) = (a * b) * c
         /\ a * b \in Nat
  BY SMT

(* A product of factors, one of which exceeds another, is spaced by n.     *)
LEMMA Spaced ==
  ASSUME NEW n \in Nat, NEW i \in Nat, NEW j \in Nat, i < j
  PROVE  n * i + n <= n * j
<1>1. PICK e \in Nat : j = i + 1 + e
  <2>1. j - (i + 1) \in Nat /\ j = i + 1 + (j - (i + 1))
    OBVIOUS
  <2> QED BY <2>1
<1>2. n * j = n * (i + 1) + n * e /\ n * (i + 1) = n * i + n
  BY <1>1, Distribute
<1>3. n * e \in Nat /\ n * i \in Nat
  BY <1>1
<1> QED BY <1>2, <1>3

(* No number strictly between two consecutive multiples of n is a multiple.*)
LEMMA NotMultiple ==
  ASSUME NEW n \in Nat, NEW q \in Nat, NEW r \in 1 .. (n - 1)
  PROVE  \A k \in Nat : r + n * q # k * n
<1> SUFFICES ASSUME NEW k \in Nat, r + n * q = k * n
             PROVE  FALSE
  OBVIOUS
<1>0. k * n = n * k /\ n * q \in Nat /\ n * k \in Nat
  OBVIOUS
<1>1. CASE q < k
  BY <1>1, <1>0, Spaced
<1>2. CASE k < q
  BY <1>2, <1>0, Spaced
<1>3. CASE k = q
  BY <1>3, <1>0
<1> QED BY <1>1, <1>2, <1>3

LEMMA MultipleBound ==
  ASSUME NEW n \in Nat \ {0}, NEW k \in Nat
  PROVE  /\ k <= n * k
         /\ n * k = k * n
<1>1. n * k = (n - 1) * k + k
  <2>1. n - 1 \in Nat /\ n = (n - 1) + 1
    OBVIOUS
  <2>2. k * n = k * (n - 1) + k * 1
    BY <2>1, Distribute
  <2> QED BY <2>1, <2>2
<1>2. (n - 1) * k \in Nat
  OBVIOUS
<1> QED BY <1>1, <1>2

LEMMA NotItself ==
  ASSUME NEW n \in Nat, NEW p \in Nat, \A k \in Nat : p # k * n
  PROVE  p # n
<1>1. 1 * n = n
  OBVIOUS
<1> QED BY <1>1

LEMMA IsMultipleIff ==
  ASSUME NEW n \in Nat \ {0}, NEW q \in Nat
  PROVE  IsMultiple(n * q, n)
<1>1. q \in 0 .. n * q /\ n * q = q * n
  BY MultipleBound
<1> QED BY <1>1 DEF IsMultiple

-----------------------------------------------------------------------------
(* The cascade as a number: x, y, z, w are the counters of a mixed-radix   *)
(* number with radices a, b, c, d.                                         *)

LEMMA Products ==
  ASSUME NEW a \in Nat \ {0}, NEW b \in Nat \ {0}
  PROVE  /\ a * b \in Nat \ {0}
         /\ \A k \in Nat : k * (a * b) = (k * b) * a
<1>1. a * b \in Nat /\ a * b >= a
  <2>1. a <= b * a /\ b * a = a * b
    BY MultipleBound
  <2> QED BY <2>1
<1>2. ASSUME NEW k \in Nat
      PROVE  k * (a * b) = (k * b) * a
  <2>1. a * b = b * a
    OBVIOUS
  <2>2. k * (b * a) = (k * b) * a
    BY Distribute
  <2> QED BY <2>1, <2>2
<1> QED BY <1>1, <1>2

(* A number that is no multiple of a is no multiple of a * b.              *)
LEMMA NotHigherMultiple ==
  ASSUME NEW a \in Nat \ {0}, NEW b \in Nat \ {0}, NEW p \in Nat,
         \A k \in Nat : p # k * a
  PROVE  \A k \in Nat : p # k * (a * b)
<1> SUFFICES ASSUME NEW k \in Nat
             PROVE  p # k * (a * b)
  OBVIOUS
<1>1. k * b \in Nat
  OBVIOUS
<1>2. k * (a * b) = (k * b) * a
  BY Products
<1> QED BY <1>1, <1>2

(* Digit x does not wrap.                                                  *)
LEMMA LowDigit ==
  ASSUME NEW a \in Nat \ {0}, NEW b \in Nat \ {0}, NEW c \in Nat \ {0},
         NEW x \in 0 .. (a - 1), NEW y \in Nat, NEW z \in Nat, NEW w \in Nat,
         x + 1 < a
  PROVE  \A k \in Nat : x + a * y + (a * b) * z + (a * b * c) * w + 1 # k * a
<1> DEFINE q == y + b * z + (b * c) * w
<1>1. q \in Nat
  OBVIOUS
<1>2. a * q = a * y + (a * b) * z + (a * b * c) * w
  <2>1. a * (y + b * z + (b * c) * w) = a * (y + b * z) + a * ((b * c) * w)
    BY Distribute
  <2>2. a * (y + b * z) = a * y + a * (b * z)
    BY Distribute
  <2>3. a * (b * z) = (a * b) * z
    BY Distribute
  <2>4. a * ((b * c) * w) = (a * (b * c)) * w /\ a * (b * c) = a * b * c
    BY Distribute
  <2> QED BY <2>1, <2>2, <2>3, <2>4
<1>3. x + 1 \in 1 .. (a - 1)
  OBVIOUS
<1>4. \A k \in Nat : (x + 1) + a * q # k * a
  BY <1>1, <1>3, NotMultiple
<1> QED BY <1>2, <1>4

(* The digit of weight m wraps no further: y + 1 < b.                      *)
LEMMA MidDigit ==
  ASSUME NEW m \in Nat \ {0}, NEW b \in Nat \ {0}, NEW y \in Nat, NEW q \in Nat,
         y + 1 < b
  PROVE  \A k \in Nat : m * (y + 1) + (m * b) * q # k * (m * b)
<1>1. m * b \in Nat \ {0}
  BY Products
<1>2. m * (y + 1) + m <= m * b
  BY Spaced
<1>3. m * (y + 1) = m * y + m
  BY Distribute
<1>4. m * y \in Nat
  OBVIOUS
<1>5. m * (y + 1) \in 1 .. (m * b - 1)
  BY <1>1, <1>2, <1>3, <1>4
<1> QED BY <1>1, <1>5, NotMultiple

(* p, with digits x, y, z, w below its last place, is a multiple of each  *)
(* period exactly when the digits below that period have all wrapped.      *)
CascadeFacts(a, b, c, d, x, y, z, w, p) ==
  /\ x + 1 # a => \A k \in Nat : p # k * a
  /\ x + 1 = a =>
       /\ p = a * (y + 1 + b * z + (b * c) * w)
       /\ y + 1 # b => \A k \in Nat : p # k * (a * b)
       /\ y + 1 = b =>
            /\ p = (a * b) * (z + 1 + c * w)
            /\ z + 1 # c => \A k \in Nat : p # k * (a * b * c)
            /\ z + 1 = c =>
                 /\ p = (a * b * c) * (w + 1)
                 /\ w + 1 # d => \A k \in Nat : p # k * (a * b * c * d)
                 /\ w + 1 = d => p = a * b * c * d

LEMMA CascadeArithmetic ==
  ASSUME NEW a \in Nat \ {0}, NEW b \in Nat \ {0}, NEW c \in Nat \ {0}, NEW d \in Nat \ {0},
         NEW x \in 0 .. (a - 1), NEW y \in 0 .. (b - 1),
         NEW z \in 0 .. (c - 1), NEW w \in 0 .. (d - 1),
         NEW p \in Nat, p = x + a * y + (a * b) * z + (a * b * c) * w + 1
  PROVE  CascadeFacts(a, b, c, d, x, y, z, w, p)
<1> USE DEF CascadeFacts
<1>0. /\ a * b \in Nat \ {0}
      /\ a * b * c \in Nat \ {0}
      /\ a * b * c * d \in Nat \ {0}
  BY Products
<1>1. ASSUME x + 1 # a
      PROVE  \A k \in Nat : p # k * a
  <2>1. x + 1 < a /\ y \in Nat /\ z \in Nat /\ w \in Nat
    BY <1>1
  <2>2. \A k \in Nat : x + a * y + (a * b) * z + (a * b * c) * w + 1 # k * a
    BY <2>1, LowDigit, Zenon
  <2> QED BY <2>2
<1>2. ASSUME x + 1 = a
      PROVE  /\ p = a * (y + 1) + (a * b) * z + (a * b * c) * w
             /\ p = a * (y + 1 + b * z + (b * c) * w)
  <2>1. a * (y + 1) = a * y + a
    BY Distribute
  <2>2. p = a * (y + 1) + (a * b) * z + (a * b * c) * w
    BY <1>2, <2>1
  <2>3. a * (y + 1 + b * z + (b * c) * w) = a * (y + 1 + b * z) + a * ((b * c) * w)
    BY Distribute
  <2>4. a * (y + 1 + b * z) = a * (y + 1) + a * (b * z)
    BY Distribute
  <2>5. a * (b * z) = (a * b) * z
    BY Distribute
  <2>6. a * ((b * c) * w) = (a * (b * c)) * w /\ a * (b * c) = a * b * c
    BY Distribute
  <2> QED BY <2>2, <2>3, <2>4, <2>5, <2>6
<1>3. (a * b) * (z + c * w) = (a * b) * z + (a * b * c) * w
  <2>1. (a * b) * (z + c * w) = (a * b) * z + (a * b) * (c * w)
    BY Distribute
  <2>2. (a * b) * (c * w) = (a * b * c) * w
    BY Distribute
  <2> QED BY <2>1, <2>2
<1>4. ASSUME x + 1 = a, y + 1 # b
      PROVE  \A k \in Nat : p # k * (a * b)
  <2>1. y + 1 < b /\ z + c * w \in Nat
    BY <1>4
  <2>2. \A k \in Nat : a * (y + 1) + (a * b) * (z + c * w) # k * (a * b)
    BY <2>1, MidDigit
  <2>3. p = a * (y + 1) + (a * b) * (z + c * w)
    <3>1. p = a * (y + 1) + (a * b) * z + (a * b * c) * w
      BY <1>2, <1>4
    <3>2. /\ a * (y + 1) \in Nat
          /\ (a * b) * z \in Nat
          /\ (a * b * c) * w \in Nat
      BY <1>0
    <3> QED BY <3>1, <3>2, <1>3
  <2> QED BY <2>2, <2>3
<1>5. ASSUME x + 1 = a, y + 1 = b
      PROVE  /\ p = (a * b) * (z + 1) + (a * b * c) * w
             /\ p = (a * b) * (z + 1 + c * w)
  <2>1. (a * b) * (z + 1) = (a * b) * z + a * b
    BY <1>0, Distribute
  <2>2. p = (a * b) * (z + 1) + (a * b * c) * w
    BY <1>2, <1>5, <2>1
  <2>3. (a * b) * (z + 1 + c * w) = (a * b) * (z + 1) + (a * b) * (c * w)
    BY <1>0, Distribute
  <2>4. (a * b) * (c * w) = (a * b * c) * w
    BY Distribute
  <2> QED BY <2>2, <2>3, <2>4
<1>6. ASSUME x + 1 = a, y + 1 = b, z + 1 # c
      PROVE  \A k \in Nat : p # k * (a * b * c)
  <2>1. \A k \in Nat : (a * b) * (z + 1) + (a * b * c) * w # k * (a * b * c)
    BY <1>0, <1>6, MidDigit
  <2> QED BY <1>5, <1>6, <2>1
<1>7. ASSUME x + 1 = a, y + 1 = b, z + 1 = c
      PROVE  p = (a * b * c) * (w + 1)
  <2>1. (a * b * c) * (w + 1) = (a * b * c) * w + a * b * c
    BY <1>0, Distribute
  <2> QED BY <1>5, <1>7, <2>1
<1>8. ASSUME x + 1 = a, y + 1 = b, z + 1 = c, w + 1 # d
      PROVE  \A k \in Nat : p # k * (a * b * c * d)
  <2>1. \A k \in Nat : (a * b * c) * (w + 1) + (a * b * c * d) * 0 # k * (a * b * c * d)
    BY <1>0, <1>8, MidDigit
  <2>2. (a * b * c * d) * 0 = 0 /\ (a * b * c) * (w + 1) \in Nat
    BY <1>0
  <2> QED BY <1>7, <1>8, <2>1, <2>2
<1> QED BY <1>1, <1>2, <1>4, <1>5, <1>6, <1>7, <1>8

-----------------------------------------------------------------------------
(* The cascade of counters follows the schedule.                           *)

(* Every faster level wraps in this millisecond.                           *)
CarryInto(l) == \A k \in (l + 1) .. prd_1000Hz : Wraps(k)

Carried(l) == IF CarryInto(l) THEN NextCounter(l) ELSE counters[l]

LEMMA LevelSet == Levels = {0, 1, 2, 3}
  BY DEF Levels, prd_1Hz, prd_1000Hz

LEMMA CarryCases ==
  /\ CarryInto(3)
  /\ CarryInto(2) <=> Wraps(3)
  /\ CarryInto(1) <=> Wraps(3) /\ Wraps(2)
  /\ CarryInto(0) <=> Wraps(3) /\ Wraps(2) /\ Wraps(1)
<1>1. (3 + 1) .. 3 = {} /\ (2 + 1) .. 3 = {3} /\ (1 + 1) .. 3 = {2, 3} /\ (0 + 1) .. 3 = {1, 2, 3}
  BY SMT
<1> QED BY <1>1 DEF CarryInto, prd_1000Hz

LEMMA PeriodValues ==
  LET a == Frequency[3]  b == Frequency[2]  c == Frequency[1]  d == Frequency[0]
  IN  /\ {a, b, c, d} \subseteq Nat \ {0}
      /\ Period1000Hz = a /\ Period100Hz = a * b
      /\ Period10Hz = a * b * c /\ Period1Hz = a * b * c * d
      /\ Period[3] = a /\ Period[2] = a * b /\ Period[1] = a * b * c /\ Period[0] = a * b * c * d
  BY FrequencyAssumption, LevelSet
     DEF Period, Period1000Hz, Period100Hz, Period10Hz, Period1Hz,
         prd_1Hz, prd_10Hz, prd_100Hz, prd_1000Hz

(* A level is due exactly when it and every faster level wrap, and the     *)
(* digits that this leaves count the next millisecond.                     *)
LEMMA CascadeIsSchedule ==
  ASSUME PrdTypeOK, PhaseIsCount, dispatcher = "sleeping"
  PROVE  /\ \A l \in Levels : Due(l) <=> CarryInto(l) /\ Wraps(l)
         /\ NextPhase = Carried(3) + Period1000Hz * Carried(2)
                          + Period100Hz * Carried(1) + Period10Hz * Carried(0)
<1> DEFINE a == Frequency[3]  b == Frequency[2]  c == Frequency[1]  d == Frequency[0]
           x == counters[3]  y == counters[2]  z == counters[1]  w == counters[0]
           p == x + a * y + (a * b) * z + (a * b * c) * w + 1
<1>1. a \in Nat \ {0} /\ b \in Nat \ {0} /\ c \in Nat \ {0} /\ d \in Nat \ {0}
  BY PeriodValues
<1>2. x \in 0 .. (a - 1) /\ y \in 0 .. (b - 1) /\ z \in 0 .. (c - 1) /\ w \in 0 .. (d - 1)
  BY <1>1, LevelSet DEF PrdTypeOK
<1>3. p = phase + 1 /\ p \in Nat \ {0}
  BY PeriodValues DEF PhaseIsCount, PrdTypeOK, prd_1Hz, prd_10Hz, prd_100Hz, prd_1000Hz
<1>4. /\ a * b \in Nat \ {0}
      /\ a * b * c \in Nat \ {0}
      /\ a * b * c * d \in Nat \ {0}
  BY <1>1, Products
<1>5. CascadeFacts(a, b, c, d, x, y, z, w, p)
  <2>1. p \in Nat /\ p = x + a * y + (a * b) * z + (a * b * c) * w + 1
    BY <1>3
  <2> HIDE DEF a, b, c, d, x, y, z, w, p
  <2> QED BY <1>1, <1>2, <2>1, CascadeArithmetic, Zenon
<1>6. /\ NextPhase = IF p = a * b * c * d THEN 0 ELSE p
      /\ Due(3) <=> IsMultiple(NextPhase, a)
      /\ Due(2) <=> IsMultiple(NextPhase, a * b)
      /\ Due(1) <=> IsMultiple(NextPhase, a * b * c)
      /\ Due(0) <=> IsMultiple(NextPhase, a * b * c * d)
  BY <1>3, PeriodValues DEF NextPhase, Due
<1>7. /\ Wraps(3) <=> x + 1 = a
      /\ Wraps(2) <=> y + 1 = b
      /\ Wraps(1) <=> z + 1 = c
      /\ Wraps(0) <=> w + 1 = d
  BY DEF Wraps
<1>8. ASSUME NEW m \in Nat, \A k \in Nat : p # k * m, p # a * b * c * d
      PROVE  ~ IsMultiple(NextPhase, m)
  BY <1>3, <1>6, <1>8 DEF IsMultiple
<1>9. ASSUME NEW m \in Nat \ {0}, NEW q \in Nat, p = m * q, p # a * b * c * d
      PROVE  IsMultiple(NextPhase, m)
  <2>1. IsMultiple(m * q, m)
    BY IsMultipleIff
  <2> QED BY <2>1, <1>6, <1>9
<1>10. /\ Carried(3) = IF x + 1 = a THEN 0 ELSE x + 1
       /\ Carried(2) = IF x + 1 = a THEN IF y + 1 = b THEN 0 ELSE y + 1 ELSE y
       /\ Carried(1) = IF x + 1 = a /\ y + 1 = b THEN IF z + 1 = c THEN 0 ELSE z + 1 ELSE z
       /\ Carried(0) = IF x + 1 = a /\ y + 1 = b /\ z + 1 = c
                       THEN IF w + 1 = d THEN 0 ELSE w + 1 ELSE w
  BY <1>7, CarryCases DEF Carried, NextCounter
<1> DEFINE Fired == /\ Due(3) <=> x + 1 = a
                    /\ Due(2) <=> x + 1 = a /\ y + 1 = b
                    /\ Due(1) <=> x + 1 = a /\ y + 1 = b /\ z + 1 = c
                    /\ Due(0) <=> x + 1 = a /\ y + 1 = b /\ z + 1 = c /\ w + 1 = d
           Counted == NextPhase = Carried(3) + a * Carried(2)
                                    + (a * b) * Carried(1) + (a * b * c) * Carried(0)
<1>11. p = x + 1 + a * y + (a * b) * z + (a * b * c) * w
  BY <1>1, <1>2
<1>12. a * y \in Nat /\ (a * b) * z \in Nat /\ (a * b * c) * w \in Nat
  BY <1>1, <1>2
<1>13. /\ a * (y + 1) = a * y + a
       /\ (a * b) * (z + 1) = (a * b) * z + a * b
       /\ (a * b * c) * (w + 1) = (a * b * c) * w + a * b * c
       /\ a * 0 = 0 /\ (a * b) * 0 = 0 /\ (a * b * c) * 0 = 0
  <2>1. y \in Nat /\ z \in Nat /\ w \in Nat /\ 1 \in Nat
    BY <1>2
  <2> QED BY <2>1, <1>1, <1>4, Distribute
<1> HIDE DEF a, b, c, d, x, y, z, w, p
<1>14. ASSUME x + 1 # a
       PROVE  Fired /\ Counted
  <2>1. \A k \in Nat : p # k * a
    BY <1>5, <1>14 DEF CascadeFacts
  <2>2. \A k \in Nat : p # k * (a * b)
    BY <2>1, <1>1, <1>3, NotHigherMultiple
  <2>3. \A k \in Nat : p # k * (a * b * c)
    BY <2>2, <1>1, <1>3, <1>4, NotHigherMultiple
  <2>4. \A k \in Nat : p # k * (a * b * c * d)
    BY <2>3, <1>1, <1>3, <1>4, NotHigherMultiple
  <2>5. p # a * b * c * d
    BY <2>4, <1>3, <1>4, NotItself
  <2>6. ~ Due(3) /\ ~ Due(2) /\ ~ Due(1) /\ ~ Due(0)
    BY <2>1, <2>2, <2>3, <2>4, <2>5, <1>1, <1>4, <1>6, <1>8
  <2>7. NextPhase = p
    BY <1>6, <2>5
  <2>8. Counted
    BY <2>7, <1>10, <1>11, <1>14
  <2> QED BY <2>6, <2>8, <1>14
<1>15. ASSUME x + 1 = a /\ y + 1 # b
       PROVE  Fired /\ Counted
  <2>1. p = a * (y + 1 + b * z + (b * c) * w) /\ y + 1 + b * z + (b * c) * w \in Nat
    BY <1>1, <1>2, <1>5, <1>15 DEF CascadeFacts
  <2>2. \A k \in Nat : p # k * (a * b)
    BY <1>5, <1>15 DEF CascadeFacts
  <2>3. \A k \in Nat : p # k * (a * b * c)
    BY <2>2, <1>1, <1>3, <1>4, NotHigherMultiple
  <2>4. \A k \in Nat : p # k * (a * b * c * d)
    BY <2>3, <1>1, <1>3, <1>4, NotHigherMultiple
  <2>5. p # a * b * c * d
    BY <2>4, <1>3, <1>4, NotItself
  <2>6. Due(3) /\ ~ Due(2) /\ ~ Due(1) /\ ~ Due(0)
    BY <2>1, <2>2, <2>3, <2>4, <2>5, <1>1, <1>4, <1>6, <1>8, <1>9
  <2>7. NextPhase = a + a * y + (a * b) * z + (a * b * c) * w
    BY <1>6, <1>11, <1>15, <2>5
  <2>8. Counted
    BY <2>7, <1>1, <1>10, <1>12, <1>13, <1>15
  <2> QED BY <2>6, <2>8, <1>15
<1>16. ASSUME x + 1 = a /\ y + 1 = b /\ z + 1 # c
       PROVE  Fired /\ Counted
  <2>1. p = a * (y + 1 + b * z + (b * c) * w) /\ y + 1 + b * z + (b * c) * w \in Nat
    BY <1>1, <1>2, <1>5, <1>16 DEF CascadeFacts
  <2>2. p = (a * b) * (z + 1 + c * w) /\ z + 1 + c * w \in Nat
    BY <1>1, <1>2, <1>5, <1>16 DEF CascadeFacts
  <2>3. \A k \in Nat : p # k * (a * b * c)
    BY <1>5, <1>16 DEF CascadeFacts
  <2>4. \A k \in Nat : p # k * (a * b * c * d)
    BY <2>3, <1>1, <1>3, <1>4, NotHigherMultiple
  <2>5. p # a * b * c * d
    BY <2>4, <1>3, <1>4, NotItself
  <2>6. Due(3) /\ Due(2) /\ ~ Due(1) /\ ~ Due(0)
    BY <2>1, <2>2, <2>3, <2>4, <2>5, <1>1, <1>4, <1>6, <1>8, <1>9
  <2>7. NextPhase = a + a * y + (a * b) * z + (a * b * c) * w
    BY <1>6, <1>11, <1>16, <2>5
  <2>8. a + a * y = a * b
    BY <1>12, <1>13, <1>16, <1>1
  <2>9. Counted
    BY <2>7, <2>8, <1>1, <1>4, <1>10, <1>12, <1>13, <1>16
  <2> QED BY <2>6, <2>9, <1>16
<1>17. ASSUME x + 1 = a /\ y + 1 = b /\ z + 1 = c
       PROVE  Fired /\ Counted
  <2>1. p = a * (y + 1 + b * z + (b * c) * w) /\ y + 1 + b * z + (b * c) * w \in Nat
    BY <1>1, <1>2, <1>5, <1>17 DEF CascadeFacts
  <2>2. p = (a * b) * (z + 1 + c * w) /\ z + 1 + c * w \in Nat
    BY <1>1, <1>2, <1>5, <1>17 DEF CascadeFacts
  <2>3. p = (a * b * c) * (w + 1) /\ w + 1 \in Nat
    BY <1>1, <1>2, <1>5, <1>17 DEF CascadeFacts
  <2>4. CASE w + 1 # d
    <3>1. \A k \in Nat : p # k * (a * b * c * d)
      BY <1>5, <1>17, <2>4 DEF CascadeFacts
    <3>2. p # a * b * c * d
      BY <3>1, <1>3, <1>4, NotItself
    <3>3. Due(3) /\ Due(2) /\ Due(1) /\ ~ Due(0)
      BY <2>1, <2>2, <2>3, <3>1, <3>2, <1>1, <1>4, <1>6, <1>8, <1>9
    <3>4. NextPhase = (a * b * c) * (w + 1)
      BY <1>6, <2>3, <3>2
    <3>5. Counted
      BY <3>4, <1>4, <1>10, <1>12, <1>13, <1>17, <2>4
    <3> QED BY <3>3, <3>5, <1>17, <2>4
  <2>5. CASE w + 1 = d
    <3>1. p = a * b * c * d
      BY <1>5, <1>17, <2>5 DEF CascadeFacts
    <3>2. NextPhase = 0
      BY <1>6, <3>1
    <3>3. \A m \in Nat : IsMultiple(0, m)
      BY SMT DEF IsMultiple
    <3>4. Due(3) /\ Due(2) /\ Due(1) /\ Due(0)
      BY <3>2, <3>3, <1>1, <1>4, <1>6
    <3>5. Counted
      BY <3>2, <1>10, <1>13, <1>17, <2>5
    <3> QED BY <3>4, <3>5, <1>17, <2>5
  <2> QED BY <2>4, <2>5
<1>18. Fired /\ Counted
  BY <1>14, <1>15, <1>16, <1>17
<1>19. \A l \in Levels : Due(l) <=> CarryInto(l) /\ Wraps(l)
  BY <1>7, <1>18, CarryCases, LevelSet
<1>20. Period1000Hz = a /\ Period100Hz = a * b /\ Period10Hz = a * b * c
  BY PeriodValues DEF a, b, c
<1> QED BY <1>18, <1>19, <1>20

(* Without an overrun, run() reaches the levels that the carry reaches.    *)
LEMMA ReachedCases ==
  /\ Reached(3)
  /\ Reached(2) <=> Wraps(3) /\ ~ sems[3]
  /\ Reached(1) <=> Wraps(3) /\ ~ sems[3] /\ Wraps(2) /\ ~ sems[2]
  /\ Reached(0) <=> Wraps(3) /\ ~ sems[3] /\ Wraps(2) /\ ~ sems[2] /\ Wraps(1) /\ ~ sems[1]
<1>1. (3 + 1) .. 3 = {} /\ (2 + 1) .. 3 = {3} /\ (1 + 1) .. 3 = {2, 3} /\ (0 + 1) .. 3 = {1, 2, 3}
  BY SMT
<1> QED BY <1>1 DEF Reached, prd_1000Hz

LEMMA ReachedIsCarry ==
  /\ \A l \in Levels : Reached(l) => CarryInto(l)
  /\ (\A l \in Levels : ~ Overruns(l)) => \A l \in Levels : Reached(l) <=> CarryInto(l)
<1>1. \A l \in Levels : Overruns(l) <=> Reached(l) /\ Wraps(l) /\ sems[l]
  BY DEF Overruns, Fires
<1> QED BY <1>1, ReachedCases, CarryCases, LevelSet, Zenon

-----------------------------------------------------------------------------
(* The inductive invariant.                                                *)

LEMMA InitInv == PrdInit => PrdIInv
<1> SUFFICES ASSUME PrdInit PROVE PrdIInv
  OBVIOUS
<1>1. PrdTypeOK
  BY FrequencyAssumption DEF PrdInit, PrdTypeOK, MaxOwed
<1>2. PhaseIsCount
  <2>1. Period1000Hz \in Nat /\ Period100Hz \in Nat /\ Period10Hz \in Nat
    BY PeriodValues, FrequencyAssumption, LevelSet
  <2> QED BY <2>1, LevelSet DEF PrdInit, PhaseIsCount, prd_1Hz, prd_10Hz, prd_100Hz, prd_1000Hz
<1>3. SemsAreOwed /\ ActivationsOnSchedule
  BY DEF PrdInit, SemsAreOwed, ActivationsOnSchedule
<1> QED BY <1>1, <1>2, <1>3 DEF PrdIInv

LEMMA DispatchInv == PrdIInv /\ Dispatch => PrdIInv'
<1> SUFFICES ASSUME PrdIInv, Dispatch PROVE PrdIInv'
  OBVIOUS
<1> USE DEF PrdIInv
<1>1. \A l \in Levels : Due(l) <=> CarryInto(l) /\ Wraps(l)
  BY CascadeIsSchedule DEF Dispatch
<1>2. \A l \in Levels : Fires(l) => Due(l)
  BY <1>1, ReachedIsCarry DEF Fires
<1>3. PrdTypeOK'
  <2>1. counters' \in [Levels -> Nat] /\ \A l \in Levels : counters'[l] < Frequency[l]
    <3>1. ASSUME NEW l \in Levels
          PROVE  /\ counters[l] \in Nat /\ counters[l] < Frequency[l]
                 /\ NextCounter(l) \in Nat /\ NextCounter(l) < Frequency[l]
      <4>1. counters[l] \in Nat /\ counters[l] < Frequency[l]
        BY DEF PrdTypeOK
      <4>2. Frequency[l] \in 1 .. 255
        BY FrequencyAssumption
      <4>3. CASE Wraps(l)
        BY <4>1, <4>2, <4>3 DEF NextCounter
      <4>4. CASE counters[l] + 1 # Frequency[l]
        BY <4>1, <4>2, <4>4 DEF NextCounter, Wraps
      <4> QED BY <4>1, <4>3, <4>4 DEF Wraps
    <3> QED BY <3>1 DEF Dispatch
  <2>2. sems' \in [Levels -> BOOLEAN]
    BY DEF Dispatch, PrdTypeOK, Overruns, Fires, Reached, Wraps
  <2>3. owed' \in [Levels -> 0 .. MaxOwed]
    BY DEF Dispatch, PrdTypeOK, MaxOwed
  <2>4. phase' \in Nat
    BY DEF Dispatch, PrdTypeOK, NextPhase
  <2> QED BY <2>1, <2>2, <2>3, <2>4 DEF Dispatch, PrdTypeOK
<1>4. SemsAreOwed'
  <2> SUFFICES ASSUME NEW l \in Levels, sems'[l] PROVE owed'[l] >= 1
    BY DEF SemsAreOwed
  <2>1. owed[l] \in 0 .. 2 /\ (sems[l] => owed[l] >= 1)
    BY DEF PrdTypeOK, SemsAreOwed, MaxOwed
  <2>2. owed'[l] = IF Due(l) /\ owed[l] < 2 THEN owed[l] + 1 ELSE owed[l]
    BY DEF Dispatch, MaxOwed
  <2>3. Due(l) \/ sems[l]
    BY <1>2 DEF Dispatch
  <2> QED BY <2>1, <2>2, <2>3
<1>5. CASE \E l \in Levels : Overruns(l)
  BY <1>3, <1>4, <1>5 DEF Dispatch, PhaseIsCount, ActivationsOnSchedule
<1>6. CASE \A l \in Levels : ~ Overruns(l)
  <2>1. \A l \in Levels : Reached(l) <=> CarryInto(l)
    BY <1>6, ReachedIsCarry
  <2>2. \A l \in Levels : counters'[l] = Carried(l)
    BY <2>1 DEF Dispatch, Carried
  <2>3. PhaseIsCount'
    BY <2>2, CascadeIsSchedule, LevelSet
       DEF Dispatch, PhaseIsCount, prd_1Hz, prd_10Hz, prd_100Hz, prd_1000Hz,
           Period1000Hz, Period100Hz, Period10Hz
  <2>4. ActivationsOnSchedule'
    <3> SUFFICES ASSUME NEW l \in Levels
                 PROVE  owed'[l] = IF sems'[l] THEN 1 ELSE 0
      BY DEF ActivationsOnSchedule
    <3>1. owed[l] = IF sems[l] THEN 1 ELSE 0
      BY DEF Dispatch, ActivationsOnSchedule
    <3>2. Fires(l) <=> Due(l)
      BY <1>1, <2>1 DEF Fires
    <3>3. sems'[l] = IF Fires(l) THEN TRUE ELSE sems[l]
      BY <1>6 DEF Dispatch
    <3>4. Fires(l) => ~ sems[l]
      BY <1>6 DEF Overruns
    <3>5. owed'[l] = IF Due(l) /\ owed[l] < 2 THEN owed[l] + 1 ELSE owed[l]
      BY DEF Dispatch, MaxOwed
    <3>6. sems[l] \in BOOLEAN
      BY DEF PrdTypeOK
    <3>7. CASE Due(l)
      <4>1. sems'[l] = TRUE /\ owed[l] = 0
        BY <3>1, <3>2, <3>3, <3>4, <3>7
      <4> QED BY <4>1, <3>5, <3>7
    <3>8. CASE ~ Due(l)
      BY <3>1, <3>2, <3>3, <3>5, <3>8
    <3> QED BY <3>7, <3>8
  <2> QED BY <1>3, <1>4, <2>3, <2>4
<1> QED BY <1>5, <1>6

LEMMA RebootInv == PrdIInv /\ Reboot => PrdIInv'
<1> SUFFICES ASSUME Reboot PROVE PrdIInv'
  OBVIOUS
<1>1. PrdTypeOK'
  BY FrequencyAssumption DEF Reboot, PrdTypeOK, MaxOwed
<1>2. PhaseIsCount'
  <2>1. Period1000Hz \in Nat /\ Period100Hz \in Nat /\ Period10Hz \in Nat
    BY PeriodValues, FrequencyAssumption, LevelSet
  <2> QED BY <2>1, LevelSet
          DEF Reboot, PhaseIsCount, prd_1Hz, prd_10Hz, prd_100Hz, prd_1000Hz,
              Period1000Hz, Period100Hz, Period10Hz
<1>3. SemsAreOwed' /\ ActivationsOnSchedule'
  BY DEF Reboot, SemsAreOwed, ActivationsOnSchedule
<1> QED BY <1>1, <1>2, <1>3 DEF PrdIInv

LEMMA BeginInv == ASSUME NEW l \in Levels, PrdIInv, Begin(l) PROVE PrdIInv'
<1> USE DEF PrdIInv
<1>1. owed[l] \in 1 .. 2
  BY DEF Begin, SemsAreOwed, PrdTypeOK, MaxOwed
<1>2. PrdTypeOK'
  <2>1. owed' \in [Levels -> 0 .. MaxOwed]
    BY <1>1 DEF Begin, PrdTypeOK, MaxOwed
  <2> QED BY <2>1 DEF Begin, PrdTypeOK
<1>3. PhaseIsCount'
  BY DEF Begin, PhaseIsCount, Period1000Hz, Period100Hz, Period10Hz
<1>4. SemsAreOwed'
  BY DEF Begin, SemsAreOwed, PrdTypeOK
<1>5. ActivationsOnSchedule'
  BY DEF Begin, ActivationsOnSchedule, PrdTypeOK
<1> QED BY <1>2, <1>3, <1>4, <1>5

LEMMA FinishInv == ASSUME NEW l \in Levels, PrdIInv, Finish(l) PROVE PrdIInv'
<1> USE DEF PrdIInv
<1>1. PrdTypeOK'
  BY DEF Finish, PrdTypeOK
<1>2. PhaseIsCount'
  BY DEF Finish, PhaseIsCount, Period1000Hz, Period100Hz, Period10Hz
<1>3. SemsAreOwed' /\ ActivationsOnSchedule'
  BY DEF Finish, SemsAreOwed, ActivationsOnSchedule
<1> QED BY <1>1, <1>2, <1>3

LEMMA StutterInv == PrdIInv /\ UNCHANGED prdVars => PrdIInv'
  BY DEF PrdIInv, prdVars, PrdTypeOK, PhaseIsCount, SemsAreOwed, ActivationsOnSchedule,
         Period1000Hz, Period100Hz, Period10Hz

LEMMA StepInv == PrdIInv /\ [PrdNext]_prdVars => PrdIInv'
  BY DispatchInv, RebootInv, BeginInv, FinishInv, StutterInv DEF PrdNext

THEOREM Invariance == PrdSpec => []PrdIInv
  BY InitInv, StepInv, PTL DEF PrdSpec

-----------------------------------------------------------------------------
(* Every variable keeps its type and every counter stays below its         *)
(* frequency.                                                              *)
THEOREM TypeCorrect == PrdSpec => []PrdTypeOK
<1>1. PrdIInv => PrdTypeOK
  BY DEF PrdIInv
<1> QED BY <1>1, Invariance, PTL

(* handlePeriodicSemaphore() gives each task its semaphore exactly at the  *)
(* multiples of its period, whatever the four frequencies, and an          *)
(* activation is lost only in a system that is about to reboot.            *)
THEOREM Scheduled == PrdSpec => []ActivationsOnSchedule
<1>1. PrdIInv => ActivationsOnSchedule
  BY DEF PrdIInv
<1> QED BY <1>1, Invariance, PTL

(* sys_reboot_abnormal() is reached only for a task that is due a second   *)
(* time before it began.                                                   *)
THEOREM NoSpuriousReboot == PrdSpec => RebootsOnlyForOverrun
<1> DEFINE A == dispatcher' = "reporting" /\ dispatcher = "sleeping" =>
                  \E l \in Levels : owed'[l] = MaxOwed
<1>1. PrdIInv /\ [PrdNext]_prdVars => A
  <2> SUFFICES ASSUME PrdIInv, [PrdNext]_prdVars, dispatcher' = "reporting", dispatcher = "sleeping"
               PROVE  \E l \in Levels : owed'[l] = MaxOwed
    OBVIOUS
  <2>1. Dispatch
    BY DEF PrdNext, prdVars, Reboot, Begin, Finish
  <2>2. PICK l \in Levels : Overruns(l)
    BY <2>1 DEF Dispatch
  <2>3. Due(l)
    BY <2>1, <2>2, CascadeIsSchedule, ReachedIsCarry DEF Overruns, Fires, PrdIInv
  <2>4. owed[l] = 1
    BY <2>2 DEF PrdIInv, ActivationsOnSchedule, Overruns
  <2>5. owed'[l] = 2
    BY <2>1, <2>3, <2>4 DEF Dispatch, MaxOwed
  <2> QED BY <2>5 DEF MaxOwed
<1> QED BY <1>1, Invariance, PTL DEF RebootsOnlyForOverrun, PrdSpec

-----------------------------------------------------------------------------
(* The task framework.                                                     *)

(* No task starts to loop before the last taskEntry() has succeeded.       *)
EntriesInv ==
  /\ entered \subseteq Listed
  /\ ~ entryFailed => \A i \in DOMAIN taskList : i < nextEntry => taskList[i] \in entered

EntriesDone == ~ entryFailed /\ nextEntry > Len(taskList)

(* The semaphore is given, and the tasks run, after that only.             *)
SemaphoreInv == given > 0 \/ permits > 0 \/ ran # {} => EntriesDone
LoopInv == \A t \in TfTasks : tfPc[t] \in {"give", "run", "delay"} => EntriesDone

(* One task calls taskEntry() for all and gives the semaphore to all.      *)
EntryTaskInv ==
  \A t \in TfTasks :
    /\ tfPc[t] \in {"entries", "give"} => t = entryTask
    /\ tfPc[t] = "entries" => given = 0
    /\ tfPc[t] = "give" => given < Len(taskList)

NotStartedInv ==
  tfOs # "started" =>
    /\ given = 0 /\ permits = 0 /\ ran = {} /\ nextEntry = 1 /\ entered = {} /\ ~ entryFailed
    /\ \A t \in TfTasks : tfPc[t] = "none"

TfInv ==
  TfTypeOK /\ EntriesInv /\ SemaphoreInv /\ LoopInv /\ EntryTaskInv /\ NotStartedInv

-----------------------------------------------------------------------------
(* A set of numbers has a least one ...                                    *)
LEMMA LeastNatural ==
  ASSUME NEW S \in SUBSET Nat, S # {}
  PROVE  \E x \in S : \A y \in S : x <= y
<1> DEFINE R == OpToRel(<, Nat)
<1>1. IsWellFoundedOn(R, Nat)
  BY NatLessThanWellFounded
<1>2. \E x \in S : \A y \in S : ~ (<<y, x>> \in R)
  <2> HIDE DEF R
  <2> QED BY <1>1, WFMin
<1>3. PICK x \in S : \A y \in S : ~ (<<y, x>> \in R)
  BY <1>2
<1>4. ASSUME NEW y \in S PROVE x <= y
  <2>1. ~ (<<y, x>> \in R)
    BY <1>3
  <2>2. ~ (y < x)
    BY <2>1 DEF OpToRel
  <2> HIDE DEF R
  <2> QED BY <2>2
<1> HIDE DEF R
<1> QED BY <1>3, <1>4

(* ... and a list of numbers a largest one: the shortest beginning of the  *)
(* list without one would be longer by one than a beginning that has one.  *)
HasLargest(f, m) == \E i \in 1 .. m : \A j \in 1 .. m : f[j] <= f[i]

LEMMA Largest ==
  ASSUME NEW n \in Nat \ {0}, NEW f \in [1 .. n -> Nat]
  PROVE  HasLargest(f, n)
<1> DEFINE S == {m \in 1 .. n : ~ HasLargest(f, m)}
<1> SUFFICES ASSUME S # {} PROVE FALSE
  OBVIOUS
<1>1. S \in SUBSET Nat
  OBVIOUS
<1>2. PICK m \in S : \A k \in S : m <= k
  <2> HIDE DEF S
  <2> QED BY <1>1, LeastNatural
<1>3. m \in 1 .. n /\ ~ HasLargest(f, m) /\ m \in Nat
  OBVIOUS
<1>4. m # 1
  <2>1. f[1] <= f[1]
    BY <1>3
  <2> QED BY <2>1, <1>3 DEF HasLargest
<1>5. m - 1 \in 1 .. n /\ m - 1 < m
  BY <1>3, <1>4
<1>6. HasLargest(f, m - 1)
  <2>1. m - 1 \notin S
    <3> HIDE DEF S
    <3> QED BY <1>2, <1>3, <1>5
  <2> QED BY <1>5, <2>1
<1> HIDE DEF S
<1>7. PICK i \in 1 .. (m - 1) : \A j \in 1 .. (m - 1) : f[j] <= f[i]
  BY <1>6 DEF HasLargest
<1>8. /\ i \in 1 .. m /\ m \in 1 .. m /\ i \in 1 .. n
      /\ \A j \in 1 .. m : j \in 1 .. (m - 1) \/ j = m
      /\ \A j \in 1 .. (m - 1) : j \in 1 .. n
  BY <1>3, <1>5
<1>9. f[m] \in Nat /\ f[i] \in Nat
  BY <1>3, <1>8
<1>10. CASE f[m] <= f[i]
  BY <1>3, <1>7, <1>8, <1>10 DEF HasLargest
<1>11. CASE f[i] < f[m]
  <2>1. ASSUME NEW j \in 1 .. (m - 1) PROVE f[j] <= f[m]
    <3>1. f[j] \in Nat
      BY <1>8
    <3>2. f[j] <= f[i]
      BY <1>7
    <3> QED BY <1>9, <1>11, <3>1, <3>2
  <2>2. \A j \in 1 .. m : f[j] <= f[m]
    BY <1>8, <1>9, <2>1
  <2> QED BY <1>3, <1>8, <2>2 DEF HasLargest
<1> QED BY <1>9, <1>10, <1>11

(* The task with the largest stack is in the list.                         *)
LEMMA HighestStackListed ==
  ASSUME TfTypeOK, taskList # <<>>
  PROVE  HighestStack \in Listed /\ HighestStack \in TfTasks
<1> DEFINE Largests == {i \in DOMAIN taskList :
                          \A j \in DOMAIN taskList : stack[taskList[j]] <= stack[taskList[i]]}
           f == [i \in 1 .. Len(taskList) |-> stack[taskList[i]]]
<1>1. /\ taskList \in Seq(TfTasks) /\ Len(taskList) \in Nat \ {0} /\ DOMAIN taskList = 1 .. Len(taskList)
      /\ stack \in [TfTasks -> Nat \ {0}]
  BY TfAssumption DEF TfTypeOK
<1>2. f \in [1 .. Len(taskList) -> Nat]
  BY <1>1
<1>3. \E i \in 1 .. Len(taskList) : \A j \in 1 .. Len(taskList) : f[j] <= f[i]
  <2> HIDE DEF f
  <2> QED BY <1>1, <1>2, Largest DEF HasLargest
<1>4. Largests # {} /\ Largests \in SUBSET Nat
  <2>1. PICK i \in 1 .. Len(taskList) : \A j \in 1 .. Len(taskList) : f[j] <= f[i]
    BY <1>3
  <2>2. \A j \in 1 .. Len(taskList) : f[j] = stack[taskList[j]]
    OBVIOUS
  <2>3. i \in Largests
    BY <1>1, <2>1, <2>2
  <2>4. Largests \in SUBSET Nat
    BY <1>1
  <2> QED BY <2>3, <2>4
<1>5. \E x \in Largests : \A y \in Largests : x <= y
  <2> HIDE DEF Largests
  <2> QED BY <1>4, LeastNatural
<1>6. Min(Largests) \in Largests
  BY <1>5 DEF Min
<1>7. HighestStack = taskList[Min(Largests)]
  BY DEF HighestStack
<1>8. Min(Largests) \in DOMAIN taskList
  BY <1>6
<1> HIDE DEF Largests
<1> QED BY <1>1, <1>7, <1>8 DEF Listed, Range

-----------------------------------------------------------------------------
LEMMA TfInitInv == TfInit => TfInv
<1> SUFFICES ASSUME TfInit PROVE TfInv
  OBVIOUS
<1>1. taskList \in Seq(TfTasks) /\ Len(taskList) = 0 /\ DOMAIN taskList = {}
  BY DEF TfInit
<1>2. TfTypeOK
  <2>1. given \in 0 .. Len(taskList) /\ nextEntry \in 1 .. (Len(taskList) + 1) /\ permits \in Nat
    BY <1>1 DEF TfInit
  <2>2. /\ taskList \in Seq(TfTasks) /\ tfOs \in {"boot", "refused", "started"}
        /\ entryTask \in TfTasks \cup {NobodyTask}
    BY <1>1 DEF TfInit
  <2>3. tfPc \in [TfTasks -> {"none", "entries", "give", "take", "run", "delay"}]
    BY DEF TfInit
  <2>4. priority \in Priorities /\ stack \in Stacks /\ delays \in Delaying
    BY DEF TfInit
  <2>5. /\ suspended \subseteq TfTasks /\ entered \subseteq TfTasks /\ ran \subseteq TfTasks
        /\ meddled \in BOOLEAN /\ entryFailed \in BOOLEAN
    BY DEF TfInit
  <2> QED BY <2>1, <2>2, <2>3, <2>4, <2>5 DEF TfTypeOK
<1> QED BY <1>1, <1>2 DEF TfInit, TfInv, EntriesInv, SemaphoreInv, LoopInv, EntryTaskInv, NotStartedInv

(* main() adds a task to the list.                                         *)
LEMMA TfAdd ==
  ASSUME TfInv, NEW t \in TfTasks, scheduler_add_task(t)
  PROVE  TfInv'
<1>0. TfTypeOK /\ EntriesInv /\ SemaphoreInv /\ LoopInv /\ EntryTaskInv /\ NotStartedInv
  BY DEF TfInv
<1>1. /\ UNCHANGED <<priority, stack, delays, tfOs, entryTask, nextEntry, entryFailed, entered,
                     permits, given, tfPc, suspended, ran, meddled>>
      /\ tfOs = "boot" /\ taskList' = <<t>> \o taskList
  BY DEF scheduler_add_task, config, entryVars, semVars
<1>2. /\ taskList' \in Seq(TfTasks) /\ Len(taskList') = Len(taskList) + 1 /\ Len(taskList) \in Nat
      /\ DOMAIN taskList' = 1 .. (Len(taskList) + 1)
  BY <1>0, <1>1 DEF TfTypeOK
<1>3. /\ given = 0 /\ permits = 0 /\ ran = {} /\ nextEntry = 1 /\ entered = {} /\ ~ entryFailed
      /\ \A u \in TfTasks : tfPc[u] = "none"
  BY <1>0, <1>1 DEF NotStartedInv
<1>4. TfTypeOK'
  BY <1>0, <1>1, <1>2, <1>3 DEF TfTypeOK
<1>5. \A i \in DOMAIN taskList' : ~ (i < 1)
  BY <1>2
<1> QED BY <1>1, <1>3, <1>4, <1>5
        DEF TfInv, EntriesInv, SemaphoreInv, LoopInv, EntryTaskInv, NotStartedInv

LEMMA TfStart ==
  ASSUME TfInv, scheduler_start
  PROVE  TfInv'
<1>0. TfTypeOK /\ EntriesInv /\ SemaphoreInv /\ LoopInv /\ EntryTaskInv /\ NotStartedInv
  BY DEF TfInv
<1>1. /\ UNCHANGED <<priority, stack, delays, taskList, nextEntry, entryFailed, entered,
                     permits, given, suspended, ran, meddled>>
      /\ tfOs = "boot" /\ tfOs' \in {"refused", "started"}
      /\ tfOs' = "started" => taskList # <<>>
      /\ entryTask' = IF taskList = <<>> THEN NobodyTask ELSE HighestStack
      /\ tfPc' = IF tfOs' = "refused" THEN tfPc
                 ELSE [t \in TfTasks |-> IF t = entryTask' THEN "entries"
                                         ELSE IF t \in Listed THEN "take" ELSE "none"]
  BY DEF scheduler_start, config, entryVars, semVars
<1>2. entryTask' \in TfTasks \cup {NobodyTask}
  BY <1>0, <1>1, HighestStackListed
<1>3. /\ given = 0 /\ permits = 0 /\ ran = {} /\ nextEntry = 1 /\ entered = {} /\ ~ entryFailed
      /\ \A u \in TfTasks : tfPc[u] = "none"
  BY <1>0, <1>1 DEF NotStartedInv
<1>4. /\ tfPc' \in [TfTasks -> {"none", "entries", "take"}]
      /\ \A u \in TfTasks : tfPc'[u] = "entries" => u = entryTask'
      /\ tfOs' # "started" => \A u \in TfTasks : tfPc'[u] = "none"
  BY <1>0, <1>1, <1>3 DEF TfTypeOK
<1>5. TfTypeOK'
  BY <1>0, <1>1, <1>2, <1>4 DEF TfTypeOK
<1>6. EntriesInv' /\ SemaphoreInv'
  BY <1>0, <1>1, <1>3 DEF EntriesInv, SemaphoreInv, Listed, EntriesDone
<1>7. LoopInv' /\ EntryTaskInv' /\ NotStartedInv'
  BY <1>1, <1>3, <1>4 DEF LoopInv, EntryTaskInv, NotStartedInv
<1> QED BY <1>5, <1>6, <1>7 DEF TfInv

(* A task that has the processor is started and in the list.               *)
LEMMA ProcessorFacts ==
  ASSUME NEW t \in TfTasks, TfInv, HasProcessor(t)
  PROVE  tfOs = "started" /\ Len(taskList) > 0 /\ (tfPc[t] = "take" => permits > 0)
<1>1. tfOs = "started" /\ t \in Range(taskList) /\ (tfPc[t] = "take" => permits > 0)
  BY DEF HasProcessor, Ready, Listed
<1>2. taskList \in Seq(TfTasks)
  BY DEF TfInv, TfTypeOK
<1> QED BY <1>1, <1>2 DEF Range

LEMMA TfCallEntry ==
  ASSUME TfInv, NEW t \in TfTasks, CallTaskEntry(t)
  PROVE  TfInv'
<1>0. TfTypeOK /\ EntriesInv /\ SemaphoreInv /\ LoopInv /\ EntryTaskInv /\ NotStartedInv
  BY DEF TfInv
<1>1. /\ UNCHANGED <<priority, stack, delays, taskList, tfOs, entryTask, permits, given, tfPc,
                     suspended, ran, meddled>>
      /\ tfPc[t] = "entries" /\ nextEntry <= Len(taskList) /\ nextEntry' = nextEntry + 1
      /\ \/ entered' = entered \cup {taskList[nextEntry]} /\ UNCHANGED entryFailed
         \/ entryFailed' = TRUE /\ UNCHANGED entered
  BY DEF CallTaskEntry, config, startVars, semVars
<1>2. tfOs = "started"
  BY ProcessorFacts DEF CallTaskEntry
<1>3. /\ nextEntry \in 1 .. Len(taskList) /\ taskList \in Seq(TfTasks) /\ Len(taskList) \in Nat
      /\ nextEntry \in DOMAIN taskList /\ DOMAIN taskList = 1 .. Len(taskList)
  BY <1>0, <1>1 DEF TfTypeOK
<1>4. taskList[nextEntry] \in TfTasks /\ taskList[nextEntry] \in Listed
  BY <1>3 DEF Listed, Range
<1>5. TfTypeOK'
  <2>1. nextEntry' \in 1 .. (Len(taskList) + 1)
    BY <1>1, <1>3
  <2>2. entered' \subseteq TfTasks /\ entryFailed' \in BOOLEAN
    BY <1>0, <1>1, <1>4 DEF TfTypeOK
  <2> QED BY <1>0, <1>1, <2>1, <2>2 DEF TfTypeOK
<1>6. EntriesInv'
  <2>1. entered' \subseteq Listed'
    BY <1>0, <1>1, <1>4 DEF EntriesInv, Listed
  <2>2. ASSUME ~ entryFailed', NEW i \in DOMAIN taskList, i < nextEntry' PROVE taskList[i] \in entered'
    <3>1. i = nextEntry \/ i < nextEntry
      BY <1>1, <1>3, <2>2
    <3> QED BY <1>0, <1>1, <2>2, <3>1 DEF EntriesInv
  <2> QED BY <1>1, <2>1, <2>2 DEF EntriesInv
<1>7. ~ EntriesDone
  BY <1>3 DEF EntriesDone
<1>8. SemaphoreInv' /\ LoopInv'
  BY <1>0, <1>1, <1>7 DEF SemaphoreInv, LoopInv
<1>9. EntryTaskInv' /\ NotStartedInv'
  BY <1>0, <1>1, <1>2 DEF EntryTaskInv, NotStartedInv
<1> QED BY <1>5, <1>6, <1>8, <1>9 DEF TfInv

(* What the other steps of a task leave alone, and what it is enough to    *)
(* show of them.                                                           *)
LEMMA TfFrame ==
  ASSUME TfInv, tfOs = "started",
         UNCHANGED <<priority, stack, delays, taskList, tfOs, entryTask, nextEntry, entryFailed, entered>>,
         permits' \in Nat, given' \in 0 .. Len(taskList),
         tfPc' \in [TfTasks -> {"none", "entries", "give", "take", "run", "delay"}],
         suspended' \subseteq TfTasks, ran' \subseteq TfTasks, meddled' \in BOOLEAN,
         given' > 0 \/ permits' > 0 \/ ran' # {} => EntriesDone,
         LoopInv', EntryTaskInv'
  PROVE  TfInv'
<1>0. TfTypeOK /\ EntriesInv
  BY DEF TfInv
<1>1. TfTypeOK' /\ EntriesInv'
  BY <1>0 DEF TfTypeOK, EntriesInv, Listed
<1>2. SemaphoreInv' /\ NotStartedInv'
  BY DEF SemaphoreInv, NotStartedInv, EntriesDone
<1> QED BY <1>1, <1>2 DEF TfInv

(* A step that only moves tasks between the places of their loops.         *)
LEMMA TfLoop ==
  ASSUME TfInv, tfOs = "started",
         UNCHANGED <<priority, stack, delays, taskList, tfOs, entryTask, nextEntry, entryFailed, entered,
                     permits, given, ran>>,
         tfPc' \in [TfTasks -> {"none", "entries", "give", "take", "run", "delay"}],
         \A u \in TfTasks : tfPc'[u] = tfPc[u] \/ (tfPc[u] \in {"run", "delay"} /\ tfPc'[u] \in {"run", "delay"}),
         suspended' \subseteq TfTasks, meddled' \in BOOLEAN
  PROVE  TfInv'
<1>0. TfTypeOK /\ SemaphoreInv /\ LoopInv /\ EntryTaskInv
  BY DEF TfInv
<1>1. EntriesDone' = EntriesDone
  BY DEF EntriesDone
<1>2. LoopInv' /\ EntryTaskInv'
  BY <1>0, <1>1 DEF LoopInv, EntryTaskInv
<1>3. permits' \in Nat /\ given' \in 0 .. Len(taskList) /\ ran' \subseteq TfTasks
  BY <1>0 DEF TfTypeOK
<1>4. given' > 0 \/ permits' > 0 \/ ran' # {} => EntriesDone
  BY <1>0 DEF SemaphoreInv
<1> QED BY <1>2, <1>3, <1>4, TfFrame

LEMMA TfEndEntries ==
  ASSUME TfInv, NEW t \in TfTasks, EndEntries(t)
  PROVE  TfInv'
<1>0. TfTypeOK /\ EntriesInv /\ SemaphoreInv /\ LoopInv /\ EntryTaskInv
  BY DEF TfInv
<1>1. /\ UNCHANGED <<priority, stack, delays, taskList, tfOs, entryTask, nextEntry, entryFailed, entered,
                     permits, given, suspended, ran, meddled>>
      /\ tfPc[t] = "entries" /\ nextEntry > Len(taskList)
      /\ tfPc' = [tfPc EXCEPT ![t] = IF entryFailed THEN "take" ELSE "give"]
  BY DEF EndEntries, config, startVars, entryVars, semVars
<1>2. tfOs = "started" /\ Len(taskList) > 0
  BY ProcessorFacts DEF EndEntries
<1>3. /\ tfPc' \in [TfTasks -> {"none", "entries", "give", "take", "run", "delay"}]
      /\ tfPc'[t] = "take" \/ (tfPc'[t] = "give" /\ ~ entryFailed)
      /\ \A u \in TfTasks \ {t} : tfPc'[u] = tfPc[u]
  BY <1>0, <1>1 DEF TfTypeOK
<1>4. EntriesDone' = EntriesDone
  BY <1>1 DEF EntriesDone
<1>5. LoopInv'
  BY <1>0, <1>1, <1>3, <1>4 DEF LoopInv, EntriesDone
<1>6. EntryTaskInv'
  BY <1>0, <1>1, <1>2, <1>3 DEF EntryTaskInv
<1>7. /\ permits' \in Nat /\ given' \in 0 .. Len(taskList) /\ ran' \subseteq TfTasks
      /\ suspended' \subseteq TfTasks /\ meddled' \in BOOLEAN
  BY <1>0, <1>1 DEF TfTypeOK
<1>8. given' > 0 \/ permits' > 0 \/ ran' # {} => EntriesDone
  BY <1>0, <1>1 DEF SemaphoreInv
<1> QED BY <1>1, <1>2, <1>3, <1>5, <1>6, <1>7, <1>8, TfFrame

LEMMA TfGive ==
  ASSUME TfInv, NEW t \in TfTasks, GiveRun(t)
  PROVE  TfInv'
<1>0. TfTypeOK /\ EntriesInv /\ SemaphoreInv /\ LoopInv /\ EntryTaskInv
  BY DEF TfInv
<1>1. /\ UNCHANGED <<priority, stack, delays, taskList, tfOs, entryTask, nextEntry, entryFailed, entered,
                     suspended, ran, meddled>>
      /\ tfPc[t] = "give" /\ permits' = permits + 1 /\ given' = given + 1
      /\ tfPc' = [tfPc EXCEPT ![t] = IF given' = Len(taskList) THEN "take" ELSE "give"]
  BY DEF GiveRun, config, startVars, entryVars
<1>2. tfOs = "started"
  BY ProcessorFacts DEF GiveRun
<1>3. given \in Nat /\ given < Len(taskList) /\ Len(taskList) \in Nat /\ permits \in Nat
  BY <1>0, <1>1 DEF TfTypeOK, EntryTaskInv
<1>4. given' \in 0 .. Len(taskList) /\ permits' \in Nat /\ (given' # Len(taskList) => given' < Len(taskList))
  BY <1>1, <1>3
<1>5. /\ tfPc' \in [TfTasks -> {"none", "entries", "give", "take", "run", "delay"}]
      /\ tfPc'[t] = "take" \/ (tfPc'[t] = "give" /\ given' < Len(taskList))
      /\ \A u \in TfTasks \ {t} : tfPc'[u] = tfPc[u]
  BY <1>0, <1>1, <1>4 DEF TfTypeOK
<1>6. EntriesDone /\ EntriesDone' = EntriesDone
  BY <1>0, <1>1 DEF EntriesDone, LoopInv
<1>7. LoopInv'
  BY <1>6 DEF LoopInv
<1>8. EntryTaskInv'
  <2>1. t = entryTask
    BY <1>0, <1>1 DEF EntryTaskInv
  <2>2. \A u \in TfTasks \ {t} : tfPc[u] \notin {"entries", "give"}
    BY <1>0, <2>1 DEF EntryTaskInv
  <2> QED BY <1>1, <1>5, <2>1, <2>2 DEF EntryTaskInv
<1>9. ran' \subseteq TfTasks /\ suspended' \subseteq TfTasks /\ meddled' \in BOOLEAN
  BY <1>0, <1>1 DEF TfTypeOK
<1> QED BY <1>1, <1>2, <1>4, <1>5, <1>6, <1>7, <1>8, <1>9, TfFrame

LEMMA TfTake ==
  ASSUME TfInv, NEW t \in TfTasks, TakeRun(t)
  PROVE  TfInv'
<1>0. TfTypeOK /\ EntriesInv /\ SemaphoreInv /\ LoopInv /\ EntryTaskInv
  BY DEF TfInv
<1>1. /\ UNCHANGED <<priority, stack, delays, taskList, tfOs, entryTask, nextEntry, entryFailed, entered,
                     given, suspended, meddled>>
      /\ tfPc[t] = "take" /\ permits' = permits - 1 /\ ran' = ran \cup {t}
      /\ tfPc' = [tfPc EXCEPT ![t] = "run"]
  BY DEF TakeRun, config, startVars, entryVars
<1>2. tfOs = "started" /\ permits > 0
  BY <1>1, ProcessorFacts DEF TakeRun
<1>3. permits' \in Nat /\ given' \in 0 .. Len(taskList) /\ ran' \subseteq TfTasks
      /\ suspended' \subseteq TfTasks /\ meddled' \in BOOLEAN
  BY <1>0, <1>1, <1>2 DEF TfTypeOK
<1>4. /\ tfPc' \in [TfTasks -> {"none", "entries", "give", "take", "run", "delay"}]
      /\ tfPc'[t] = "run" /\ \A u \in TfTasks \ {t} : tfPc'[u] = tfPc[u]
  BY <1>0, <1>1 DEF TfTypeOK
<1>5. EntriesDone /\ EntriesDone' = EntriesDone
  BY <1>0, <1>1, <1>2 DEF EntriesDone, SemaphoreInv
<1>6. LoopInv' /\ EntryTaskInv'
  BY <1>0, <1>1, <1>4, <1>5 DEF LoopInv, EntryTaskInv
<1> QED BY <1>1, <1>2, <1>3, <1>4, <1>5, <1>6, TfFrame

LEMMA TfLoopStep ==
  ASSUME TfInv, NEW t \in TfTasks, NEW u \in TfTasks,
         RunDelays(t) \/ DelayEnds(t) \/ RunFails(t) \/ suspend(t, u) \/ resume(t, u)
  PROVE  TfInv'
<1>0. TfTypeOK /\ NotStartedInv
  BY DEF TfInv
<1>1. /\ UNCHANGED <<priority, stack, delays, taskList, tfOs, entryTask, nextEntry, entryFailed, entered,
                     permits, given, ran>>
  BY DEF RunDelays, DelayEnds, RunFails, suspend, resume, config, startVars, entryVars, semVars
<1>2. tfOs = "started"
  BY <1>0 DEF NotStartedInv, RunDelays, DelayEnds, RunFails, suspend, resume
<1>3. tfPc \in [TfTasks -> {"none", "entries", "give", "take", "run", "delay"}]
  BY <1>0 DEF TfTypeOK
<1>4. /\ tfPc' \in [TfTasks -> {"none", "entries", "give", "take", "run", "delay"}]
      /\ \A v \in TfTasks :
           tfPc'[v] = tfPc[v] \/ (tfPc[v] \in {"run", "delay"} /\ tfPc'[v] \in {"run", "delay"})
  BY <1>3 DEF RunDelays, DelayEnds, RunFails, suspend, resume
<1>5. suspended' \subseteq TfTasks /\ meddled' \in BOOLEAN
  BY <1>0 DEF TfTypeOK, RunDelays, DelayEnds, RunFails, suspend, resume
<1> QED BY <1>1, <1>2, <1>4, <1>5, TfLoop

LEMMA TfStutter == TfInv /\ UNCHANGED tfVars => TfInv'
BY DEF TfInv, tfVars, config, startVars, entryVars, semVars, TfTypeOK, EntriesInv, SemaphoreInv, LoopInv,
       EntryTaskInv, NotStartedInv, EntriesDone, Listed

LEMMA TfStepInv == TfInv /\ [TfNext]_tfVars => TfInv'
BY TfAdd, TfStart, TfCallEntry, TfEndEntries, TfGive, TfTake, TfLoopStep, TfStutter
DEF TfNext, taskStep

(* What the invariant says of every state of the framework.                *)
THEOREM FrameworkInvariance == TfSpec => []TfInv
BY TfInitInv, TfStepInv, PTL DEF TfSpec

(* scheduler_start() and scheduler_c_task_private(): no task calls its     *)
(* run() before every taskEntry() has returned true, for any tasks, order  *)
(* of the list, stacks and priorities, whoever suspends whom; if a         *)
(* taskEntry() fails, no run() is ever called.                             *)
THEOREM EntriesBeforeRun == TfSpec => []RunAfterEntries
<1>1. TfInv => RunAfterEntries
  <2> SUFFICES ASSUME TfInv, ran # {} PROVE entered = Listed
    BY DEF RunAfterEntries
  <2>1. ~ entryFailed /\ nextEntry > Len(taskList) /\ EntriesInv /\ TfTypeOK
    BY DEF TfInv, SemaphoreInv, EntriesDone
  <2>2. \A i \in DOMAIN taskList : i < nextEntry
    BY <2>1 DEF TfTypeOK
  <2>3. Listed \subseteq entered
    BY <2>1, <2>2 DEF EntriesInv, Listed, Range
  <2> QED BY <2>1, <2>3 DEF EntriesInv
<1> QED BY <1>1, FrameworkInvariance, PTL

-----------------------------------------------------------------------------
(* Both parts together, as module MCTasks composes them: every variable    *)
(* keeps its type.                                                         *)
THEOREM TasksTyped == Spec => []TasksTypeOK
<1>1. Init => PrdIInv /\ TfInv
  BY InitInv, TfInitInv DEF Init
<1>2. PrdIInv /\ TfInv /\ [Next]_vars => PrdIInv' /\ TfInv'
  <2>1. [Next]_vars => [PrdNext]_prdVars /\ [TfNext]_tfVars
    BY DEF Next, vars
  <2> QED BY <2>1, StepInv, TfStepInv
<1>3. PrdIInv /\ TfInv => TasksTypeOK
  BY DEF PrdIInv, TfInv, TasksTypeOK
<1> QED BY <1>1, <1>2, <1>3, PTL DEF Spec

=============================================================================
