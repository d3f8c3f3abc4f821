-------------------------------- MODULE Induction ------------------------------
(***************************************************************************)
(* Induction over the natural numbers, for the recursive functions of the  *)
(* models: a set of numbers has a least one, what holds step by step holds *)
(* throughout, and values that arise one from the other are those of a     *)
(* function, so that the CHOOSE a recursive function stands for is met.    *)
(***************************************************************************)
EXTENDS Naturals, WellFoundedInduction, TLAPS

Less == {r \in Nat \X Nat : r[1] < r[2]}

\* A set of numbers that is not empty has a least member.
LEMMA LeastNatural ==
  ASSUME NEW T \in SUBSET Nat, T # {}
  PROVE  \E n \in T : \A m \in T : n <= m
<1>1. IsWellFoundedOn(Less, Nat)
  BY NatLessThanWellFounded DEF OpToRel, Less
<1>2. PICK n \in T : \A m \in T : <<m, n>> \notin Less
  BY <1>1, WFMin
<1>3. ASSUME NEW m \in T PROVE n <= m
  <2>1. ~(m < n)
    BY <1>2 DEF Less
  <2> QED BY <2>1
<1> QED BY <1>3

\* A property of 0 that each number hands on to the next.
LEMMA StepByStep ==
  ASSUME NEW N \in Nat, NEW Good \in SUBSET (0 .. N), 0 \in Good,
         \A n \in 1 .. N : n - 1 \in Good => n \in Good
  PROVE  Good = 0 .. N
<1> DEFINE T == (0 .. N) \ Good
<1>1. SUFFICES ASSUME T # {} PROVE FALSE
  OBVIOUS
<1>2. T \in SUBSET Nat
  OBVIOUS
<1>3. PICK m \in T : \A k \in T : m <= k
  <2> HIDE DEF T
  <2> QED BY <1>1, <1>2, LeastNatural
<1>4. m \in 1 .. N /\ m - 1 \in 0 .. N /\ ~(m <= m - 1)
  OBVIOUS
<1> QED BY <1>3, <1>4

\* Values that arise one from the other are those of a function.
StepsOn(S, N) == [1 .. N -> [S -> S]]
Iterates(p, S, N, x, step) ==
  p \in [0 .. N -> S] /\ p[0] = x /\ \A n \in 1 .. N : p[n] = step[n][p[n - 1]]

LEMMA Iteration ==
  ASSUME NEW S, NEW x \in S, NEW N \in Nat, NEW step \in StepsOn(S, N)
  PROVE  \E p : Iterates(p, S, N, x, step)
<1> DEFINE Reaches(m) == \E p \in [0 .. m -> S] :
                           p[0] = x /\ \A n \in 1 .. m : p[n] = step[n][p[n - 1]]
           Good == {m \in 0 .. N : Reaches(m)}
<1>1. 0 \in Good
  <2> DEFINE p == [n \in 0 .. 0 |-> x]
  <2>1. p \in [0 .. 0 -> S] /\ p[0] = x /\ \A n \in 1 .. 0 : FALSE
    OBVIOUS
  <2> HIDE DEF p
  <2>2. Reaches(0)
    BY <2>1
  <2> HIDE DEF Reaches
  <2> QED BY <2>2
<1>2. ASSUME NEW m \in 1 .. N, m - 1 \in Good PROVE m \in Good
  <2>1. PICK p \in [0 .. m - 1 -> S] :
          p[0] = x /\ \A n \in 1 .. m - 1 : p[n] = step[n][p[n - 1]]
    BY <1>2
  <2> DEFINE y == step[m][p[m - 1]]
  <2>2. y \in S
    BY <2>1 DEF StepsOn
  <2> HIDE DEF y
  <2>3. PICK q : q = [n \in 0 .. m |-> IF n = m THEN y ELSE p[n]]
    OBVIOUS
  <2>4. q \in [0 .. m -> S] /\ q[0] = x
    <3>1. \A n \in 0 .. m : n # m => n \in 0 .. m - 1
      OBVIOUS
    <3> QED BY <2>1, <2>2, <2>3, <3>1
  <2>5. ASSUME NEW n \in 1 .. m PROVE q[n] = step[n][q[n - 1]]
    <3>1. n - 1 \in 0 .. m /\ n - 1 # m /\ q[n - 1] = p[n - 1]
      BY <2>3
    <3>2. CASE n = m
      BY <2>3, <3>1, <3>2 DEF y
    <3>3. CASE n # m
      <4>1. n \in 1 .. m - 1 /\ q[n] = p[n]
        BY <2>3, <3>3
      <4> QED BY <2>1, <3>1, <4>1
    <3> QED BY <3>2, <3>3
  <2>6. Reaches(m)
    BY <2>4, <2>5
  <2> HIDE DEF Reaches
  <2> QED BY <2>6
<1> HIDE DEF Reaches
<1>3. Good = 0 .. N
  <2>1. Good \in SUBSET (0 .. N)
    OBVIOUS
  <2> HIDE DEF Good
  <2> QED BY <1>1, <1>2, <2>1, StepByStep
<1>4. Reaches(N)
  BY <1>3
<1> QED BY <1>4 DEF Reaches, Iterates

\* A product grows with its first factor.
LEMMA TimesMonotonic ==
  ASSUME NEW a \in Nat, NEW b \in Nat, NEW c \in Nat, a <= b
  PROVE  a * c \in Nat /\ b * c \in Nat /\ a * c <= b * c
<1>1. PICK d \in Nat : b = a + d
  <2>1. b - a \in Nat /\ b = a + (b - a)
    OBVIOUS
  <2> QED BY <2>1
<1>2. b * c = a * c + d * c
  BY <1>1
<1>3. a * c \in Nat /\ d * c \in Nat
  OBVIOUS
<1> QED BY <1>2, <1>3

================================================================================
