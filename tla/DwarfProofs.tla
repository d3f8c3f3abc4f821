------------------------------ MODULE DwarfProofs ------------------------------
(***************************************************************************)
(* Proofs about DwarfFile: for every file whose sections are well encoded  *)
(* it implements the walk of DieWalk over the DIEs that they encode.       *)
(*                                                                         *)
(* The invariant, InPlace, says that the walk is always at the place of a  *)
(* unit, a declaration, an entry or a value of the encoding, with the      *)
(* declarations of its unit loaded.  What lies at each of these places is  *)
(* what the lemmas before it are about: numbers, the DIEs read up to a     *)
(* place, values and declarations.                                         *)
(***************************************************************************)
EXTENDS DwarfSections, Induction, FiniteSetTheorems, SequenceTheorems, TLAPS

Numbers == INSTANCE Uleb128Proofs WITH bytes <- <<>>, MaxLength <- 0

--------------------------------------------------------------------------------
(* Numbers.                                                                *)

\* What a recursive sum of digits is, the lowest first.
Horner(v, digit, base, from, to) ==
  /\ v \in [from .. to -> Nat] /\ v[to] = 0
  /\ \A i \in from .. to - 1 : v[i] = digit[i + 1] + base * v[i + 1]

IsSum(f, digit, base, from, to) ==
  f = [i \in from .. to |-> IF i = to THEN 0 ELSE digit[i + 1] + base * f[i + 1]]

\* There is such a sum, whatever the digits.
LEMMA SumExists ==
  ASSUME NEW from \in Nat, NEW to \in Nat, from <= to, NEW base \in Nat,
         NEW digit, \A i \in from + 1 .. to : digit[i] \in Nat
  PROVE  \E v : Horner(v, digit, base, from, to) /\ IsSum(v, digit, base, from, to)
<1> DEFINE N == to - from
           step == [n \in 1 .. N |-> [x \in Nat |-> digit[(to - n) + 1] + base * x]]
<1>1. N \in Nat /\ \A n \in 1 .. N : (to - n) + 1 \in from + 1 .. to
  OBVIOUS
<1>2. \A n \in 1 .. N : \A x \in Nat : digit[(to - n) + 1] + base * x \in Nat
  BY <1>1
<1>3. /\ step \in StepsOn(Nat, N)
      /\ \A n \in 1 .. N : \A x \in Nat : step[n][x] = digit[(to - n) + 1] + base * x
  BY <1>2 DEF StepsOn
<1> HIDE DEF step
<1>4. PICK p : Iterates(p, Nat, N, 0, step)
  <2> HIDE DEF N
  <2> QED BY <1>1, <1>3, Iteration
<1>5. p \in [0 .. N -> Nat] /\ p[0] = 0 /\ \A n \in 1 .. N : p[n] = step[n][p[n - 1]]
  BY <1>4 DEF Iterates
<1>6. PICK v : v = [i \in from .. to |-> p[to - i]]
  OBVIOUS
<1>7. v \in [from .. to -> Nat] /\ v[to] = 0
  <2>1. \A i \in from .. to : to - i \in 0 .. N
    OBVIOUS
  <2>2. to \in from .. to /\ to - to = 0
    OBVIOUS
  <2> HIDE DEF N
  <2> QED BY <1>5, <1>6, <2>1, <2>2
<1>8. ASSUME NEW i \in from .. to - 1 PROVE v[i] = digit[i + 1] + base * v[i + 1]
  <2>1. /\ i \in from .. to /\ i + 1 \in from .. to /\ to - i \in 1 .. N
        /\ (to - i) - 1 = to - (i + 1) /\ (to - (to - i)) + 1 = i + 1
        /\ to - (i + 1) \in 0 .. N
    OBVIOUS
  <2> HIDE DEF N
  <2>2. v[i] = p[to - i] /\ v[i + 1] = p[to - (i + 1)] /\ p[to - (i + 1)] \in Nat
    BY <1>5, <1>6, <2>1
  <2>3. p[to - i] = step[to - i][p[to - (i + 1)]]
    BY <1>5, <2>1
  <2>4. step[to - i][p[to - (i + 1)]] = digit[i + 1] + base * p[to - (i + 1)]
    BY <1>3, <2>1, <2>2
  <2> QED BY <2>2, <2>3, <2>4
<1>9. Horner(v, digit, base, from, to)
  BY <1>7, <1>8 DEF Horner
<1>10. \A i \in from .. to : v[i] = IF i = to THEN 0 ELSE digit[i + 1] + base * v[i + 1]
  <2>1. \A i \in from .. to : i # to => i \in from .. to - 1
    OBVIOUS
  <2> QED BY <1>7, <1>8, <2>1
<1>11. IsSum(v, digit, base, from, to)
  BY <1>6, <1>10 DEF IsSum
<1> QED BY <1>9, <1>11

\* A function that is defined as such a sum is one.
LEMMA SumIs ==
  ASSUME NEW from \in Nat, NEW to \in Nat, from <= to, NEW base \in Nat,
         NEW digit, \A i \in from + 1 .. to : digit[i] \in Nat,
         NEW f, IsSum(f, digit, base, from, to)
  PROVE  Horner(f, digit, base, from, to)
<1>1. \A i \in from .. to : f[i] = IF i = to THEN 0 ELSE digit[i + 1] + base * f[i + 1]
  BY DEF IsSum
<1>2. f = [i \in from .. to |-> f[i]]
  BY DEF IsSum
<1> DEFINE N == to - from
           Good == {n \in 0 .. N : f[to - n] \in Nat}
<1>3. N \in Nat /\ \A i \in from .. to : to - i \in 0 .. N /\ to - (to - i) = i
  OBVIOUS
<1>4. 0 \in Good
  <2>1. to - 0 = to /\ to \in from .. to /\ 0 \in 0 .. N
    OBVIOUS
  <2> QED BY <1>1, <2>1
<1>5. ASSUME NEW n \in 1 .. N, n - 1 \in Good PROVE n \in Good
  <2>1. /\ to - n \in from .. to /\ to - n # to /\ (to - n) + 1 = to - (n - 1) /\ n \in 0 .. N
        /\ (to - n) + 1 \in from + 1 .. to
    OBVIOUS
  <2>2. f[to - (n - 1)] \in Nat /\ digit[(to - n) + 1] \in Nat
    BY <1>5, <2>1
  <2>3. f[to - n] = digit[(to - n) + 1] + base * f[to - (n - 1)]
    BY <1>1, <2>1
  <2> QED BY <2>1, <2>2, <2>3
<1>6. Good = 0 .. N
  <2>1. Good \in SUBSET (0 .. N)
    OBVIOUS
  <2> HIDE DEF N, Good
  <2> QED BY <1>3, <1>4, <1>5, <2>1, StepByStep
<1>7. ASSUME NEW i \in from .. to PROVE f[i] \in Nat
  <2>1. to - i \in Good
    <3> HIDE DEF Good, N
    <3> QED BY <1>3, <1>6
  <2> QED BY <1>3, <2>1
<1>8. f \in [from .. to -> Nat]
  BY <1>2, <1>7
<1>9. to \in from .. to /\ \A i \in from .. to - 1 : i \in from .. to /\ i # to
  OBVIOUS
<1> QED BY <1>1, <1>8, <1>9 DEF Horner

\* The number that some bytes are.
LEMMA LittleEndianIs ==
  ASSUME NEW bytes, NEW from \in Nat, NEW to \in Nat, from <= to,
         \A i \in from + 1 .. to : bytes[i] \in Nat
  PROVE  Format!LittleEndian(bytes, from, to) \in Nat
<1> DEFINE Is(f) == f = [i \in from .. to |-> IF i = to THEN 0 ELSE bytes[i + 1] + 256 * f[i + 1]]
<1>1. Format!LittleEndian(bytes, from, to) = (CHOOSE f : Is(f))[from]
  BY DEF Format!LittleEndian
<1>2. \A f : Is(f) <=> IsSum(f, bytes, 256, from, to)
  BY DEF IsSum
<1> HIDE DEF Is
<1>3. \E f : Is(f)
  BY <1>2, SumExists
<1>4. PICK f : f = (CHOOSE g : Is(g)) /\ Is(f)
  BY <1>3
<1>5. Horner(f, bytes, 256, from, to)
  BY <1>2, <1>4, SumIs
<1>6. from \in from .. to
  OBVIOUS
<1> QED BY <1>1, <1>4, <1>5, <1>6 DEF Horner

\* LebValue is a sum of septets.
LEMMA LebValueIs ==
  ASSUME NEW bytes, NEW from \in Nat, NEW to \in Nat, from <= to,
         \A i \in from + 1 .. to : bytes[i] \in Nat
  PROVE  \E v : /\ v[from] = Format!LebValue(bytes, from, to)
                /\ Horner(v, [i \in from + 1 .. to |-> bytes[i] % 128], 128, from, to)
<1> DEFINE digit == [i \in from + 1 .. to |-> bytes[i] % 128]
           Is(f) == f = [i \in from .. to |->
                           IF i = to THEN 0 ELSE (bytes[i + 1] % 128) + 128 * f[i + 1]]
<1>1. Format!LebValue(bytes, from, to) = (CHOOSE f : Is(f))[from]
  BY DEF Format!LebValue
<1>2. \A i \in from + 1 .. to : digit[i] = bytes[i] % 128 /\ digit[i] \in Nat
  OBVIOUS
<1>3. \A i \in from .. to : i # to => i + 1 \in from + 1 .. to
  OBVIOUS
<1> HIDE DEF digit
<1>4. \A f : Is(f) <=> IsSum(f, digit, 128, from, to)
  <2> SUFFICES ASSUME NEW f PROVE Is(f) <=> IsSum(f, digit, 128, from, to)
    OBVIOUS
  <2>1. [i \in from .. to |-> IF i = to THEN 0 ELSE (bytes[i + 1] % 128) + 128 * f[i + 1]]
          = [i \in from .. to |-> IF i = to THEN 0 ELSE digit[i + 1] + 128 * f[i + 1]]
    BY <1>2, <1>3
  <2> QED BY <2>1 DEF IsSum
<1> HIDE DEF Is
<1>5. \E f : Is(f)
  BY <1>2, <1>4, SumExists
<1>6. PICK f : f = (CHOOSE g : Is(g)) /\ Is(f)
  BY <1>5
<1>7. Horner(f, digit, 128, from, to)
  BY <1>2, <1>4, <1>6, SumIs
<1> QED BY <1>1, <1>6, <1>7 DEF digit

\* ULEB128 finds the end of a number, and the number if it fits.
Understood(bytes, from, to, available) ==
  /\ ULEB128(bytes, from, available).length = to - from
  /\ NumberFits(bytes, from, to) =>
       ULEB128(bytes, from, available).result = Format!LebValue(bytes, from, to)

\* More and TwoTo are the powers of two that they should be.
LEMMA Powers ==
  More = 128 /\ \A n \in Nat : TwoTo(n) \in Nat /\ TwoTo(7 * (n + 1)) = TwoTo(7 * n) * 128
<1>1. Numbers!TwoTo(0) = 1 /\ \A n \in Nat : Numbers!TwoTo(n) \in Nat /\ Numbers!TwoTo(n + 1) = 2 * Numbers!TwoTo(n)
  BY Numbers!TwoToIs, WidthAssumption DEF Numbers!WidthAssumption
<1>2. \A n : Numbers!TwoTo(n) = TwoTo(n)
  BY DEF Numbers!TwoTo, TwoTo
<1>3. TwoTo(0) = 1 /\ \A n \in Nat : TwoTo(n) \in Nat /\ TwoTo(n + 1) = 2 * TwoTo(n)
  BY <1>1, <1>2
<1>4. TwoTo(1) = 2 /\ TwoTo(2) = 4 /\ TwoTo(3) = 8
  <2>1. 0 + 1 = 1 /\ 1 + 1 = 2 /\ 2 + 1 = 3
    OBVIOUS
  <2> QED BY <1>3, <2>1
<1>5. TwoTo(4) = 16 /\ TwoTo(5) = 32
  <2>1. 3 + 1 = 4 /\ 4 + 1 = 5
    OBVIOUS
  <2> QED BY <1>3, <1>4, <2>1
<1>6. TwoTo(6) = 64 /\ TwoTo(7) = 128
  <2>1. 5 + 1 = 6 /\ 6 + 1 = 7
    OBVIOUS
  <2> QED BY <1>3, <1>5, <2>1
<1>7. \A n \in Nat : TwoTo(7 * (n + 1)) = TwoTo(7 * n) * 128
  <2> SUFFICES ASSUME NEW n \in Nat PROVE TwoTo(7 * (n + 1)) = TwoTo(7 * n) * 128
    OBVIOUS
  <2>1. Numbers!TwoTo(7 * n + 7) = Numbers!TwoTo(7 * n) * Numbers!TwoTo(7)
    <3>1. 7 * n \in Nat /\ 7 \in Nat
      OBVIOUS
    <3> QED BY <3>1, Numbers!TwoToSum, WidthAssumption DEF Numbers!WidthAssumption
  <2>2. 7 * (n + 1) = 7 * n + 7
    OBVIOUS
  <2> QED BY <1>2, <1>6, <2>1, <2>2
<1> QED BY <1>3, <1>6, <1>7, SectionsAssumption DEF More

\* The sums of NumberRead, from the lowest digit on, come to the same.
LEMMA SumsMeet ==
  ASSUME NEW bytes, NEW from \in Nat, NEW n \in Nat,
         \A i \in from + 1 .. from + n : bytes[i] \in Nat,
         NEW w, Numbers!Sums(w, bytes, from, n)
  PROVE  w[n] = Format!LebValue(bytes, from, from + n)
<1> DEFINE digit == [i \in from + 1 .. from + n |-> bytes[i] % 128]
<1>1. PICK v : /\ v[from] = Format!LebValue(bytes, from, from + n)
               /\ Horner(v, digit, 128, from, from + n)
  <2>1. from + n \in Nat /\ from <= from + n
    OBVIOUS
  <2> QED BY <2>1, LebValueIs
<1>2. /\ v \in [from .. from + n -> Nat] /\ v[from + n] = 0
      /\ \A i \in from .. (from + n) - 1 : v[i] = digit[i + 1] + 128 * v[i + 1]
  BY <1>1 DEF Horner
<1>3. /\ w \in [0 .. n -> Nat] /\ w[0] = 0
      /\ \A i \in 1 .. n : w[i] = w[i - 1] + (bytes[from + i] % 128) * TwoTo((i - 1) * 7)
  <2>1. /\ w \in [0 .. n -> Nat] /\ w[0] = 0
        /\ \A i \in 1 .. n : w[i] = w[i - 1] + (bytes[from + i] % Numbers!More) * Numbers!TwoTo((i - 1) * Group)
    BY DEF Numbers!Sums
  <2>2. Numbers!More = More /\ \A k : Numbers!TwoTo(k) = TwoTo(k)
    BY DEF Numbers!More, More, Numbers!TwoTo, TwoTo
  <2> QED BY <2>1, <2>2, Powers, SectionsAssumption
<1> DEFINE Good == {i \in 0 .. n : w[i] + TwoTo(7 * i) * v[from + i] = v[from]}
<1>4. 0 \in Good
  <2>1. TwoTo(7 * 0) = 1
    <3>1. Numbers!TwoTo(0) = 1 /\ Numbers!TwoTo(0) = TwoTo(0) /\ 7 * 0 = 0
      BY Numbers!TwoToIs, WidthAssumption DEF Numbers!WidthAssumption, Numbers!TwoTo, TwoTo
    <3> QED BY <3>1
  <2>2. from + 0 = from /\ from \in from .. from + n /\ 0 \in 0 .. n
    OBVIOUS
  <2>3. v[from] \in Nat
    BY <1>2, <2>2
  <2> QED BY <1>3, <2>1, <2>2, <2>3
<1>5. ASSUME NEW i \in 1 .. n, i - 1 \in Good PROVE i \in Good
  <2> DEFINE t == TwoTo(7 * (i - 1))
  <2>1. /\ i - 1 \in Nat /\ (i - 1) + 1 = i /\ from + (i - 1) \in from .. (from + n) - 1
        /\ (from + (i - 1)) + 1 = from + i /\ from + i \in from + 1 .. from + n
        /\ from + i \in from .. from + n /\ i - 1 \in 0 .. n /\ i \in 0 .. n
        /\ (i - 1) * 7 = 7 * (i - 1)
    OBVIOUS
  <2>2. t \in Nat /\ TwoTo(7 * i) = t * 128
    <3>1. 7 * (i - 1) \in Nat
      BY <2>1
    <3> QED BY <2>1, <3>1, Powers
  <2>3. w[i - 1] + t * v[from + (i - 1)] = v[from]
    BY <1>5
  <2>4. v[from + (i - 1)] = (bytes[from + i] % 128) + 128 * v[from + i]
    BY <1>2, <2>1
  <2>5. w[i] = w[i - 1] + (bytes[from + i] % 128) * t
    BY <1>3, <2>1
  <2>6. w[i - 1] \in Nat /\ v[from + i] \in Nat /\ bytes[from + i] % 128 \in Nat
    BY <1>2, <1>3, <2>1
  <2> HIDE DEF t
  <2>7. w[i] + (t * 128) * v[from + i] = w[i - 1] + t * ((bytes[from + i] % 128) + 128 * v[from + i])
    BY <2>2, <2>5, <2>6
  <2> QED BY <2>1, <2>2, <2>3, <2>4, <2>7
<1>6. n \in Good
  <2>1. Good \in SUBSET (0 .. n)
    OBVIOUS
  <2> HIDE DEF Good
  <2>2. Good = 0 .. n
    BY <1>4, <1>5, <2>1, StepByStep
  <2> QED BY <2>2
<1>7. w[n] + TwoTo(7 * n) * 0 = v[from] /\ TwoTo(7 * n) \in Nat /\ w[n] \in Nat
  <2>1. 7 * n \in Nat /\ n \in 0 .. n
    OBVIOUS
  <2> QED BY <1>2, <1>3, <1>6, <2>1, Powers
<1> QED BY <1>1, <1>7

\* ULEB128 reads a number that fits: its length, and its value.
LEMMA NumberUnderstood ==
  ASSUME NEW bytes, Len(bytes) \in Nat, \A i \in 1 .. Len(bytes) : bytes[i] \in Nat,
         NEW from \in Nat, NEW to \in Nat,
         Format!LebAt(bytes, from, to), NEW available \in Nat, to - from <= available
  PROVE  Understood(bytes, from, to, available)
<1> DEFINE n == to - from
<1>1. /\ n \in 1 .. available /\ from + n = to /\ n \in Nat
      /\ \A i \in 1 .. n : bytes[from + i] \in Nat
      /\ \A i \in 1 .. n - 1 : bytes[from + i] >= 128
      /\ bytes[to] < 128
  <2>1. /\ from < to /\ to <= Len(bytes) /\ bytes[to] < 128
        /\ \A i \in from + 1 .. to - 1 : bytes[i] >= 128
    BY DEF Format!LebAt
  <2>2. \A i \in 1 .. n : from + i \in 1 .. Len(bytes)
    BY <2>1
  <2>3. \A i \in 1 .. n - 1 : from + i \in from + 1 .. to - 1
    BY <2>1
  <2>4. n \in 1 .. available /\ from + n = to /\ n \in Nat
    BY <2>1
  <2> HIDE DEF n
  <2>5. \A i \in 1 .. n : bytes[from + i] \in Nat
    BY <2>2
  <2>6. \A i \in 1 .. n - 1 : bytes[from + i] >= 128
    BY <2>1, <2>3
  <2> QED BY <2>1, <2>4, <2>5, <2>6
<1> HIDE DEF n
<1>2. \A i \in from + 1 .. from + n : bytes[i] \in Nat
  <2>1. \A i \in from + 1 .. from + n : i - from \in 1 .. n /\ from + (i - from) = i
    BY <1>1
  <2>2. ASSUME NEW i \in from + 1 .. from + n PROVE bytes[i] \in Nat
    <3>1. bytes[from + (i - from)] \in Nat
      BY <1>1, <2>1
    <3> QED BY <2>1, <3>1
  <2> QED BY <2>2
<1>3. \A i \in 1 .. n : bytes[from + i] \in Nat
  BY <1>1
<1>4. PICK w : Numbers!Sums(w, bytes, from, n)
  BY <1>1, <1>3, Numbers!SumsExist, WidthAssumption DEF Numbers!WidthAssumption
<1>5. Numbers!EndsAt(bytes, from, available, n)
  <2>1. Numbers!More = 128
    BY Powers DEF Numbers!More, More, Numbers!TwoTo, TwoTo
  <2>2. ASSUME NEW i \in 1 .. n - 1 PROVE ~(bytes[from + i] < 128)
    <3>1. i \in 1 .. n
      BY <1>1
    <3>2. bytes[from + i] \in Nat /\ bytes[from + i] >= 128
      BY <1>1, <3>1
    <3> QED BY <3>2
  <2>3. n \in 0 .. available /\ n > 0
    BY <1>1
  <2> QED BY <1>1, <1>3, <2>1, <2>2, <2>3 DEF Numbers!EndsAt
<1>6. Numbers!Reads(bytes, from, available, n, w[n])
  BY <1>4, <1>5, Numbers!NumberRead, WidthAssumption DEF Numbers!WidthAssumption
<1>7. Numbers!ULEB128(bytes, from, available) = ULEB128(bytes, from, available)
  BY DEF Numbers!ULEB128, ULEB128, Numbers!More, More, Numbers!Modulus, Modulus, Numbers!Shifted, Shifted, Numbers!TwoTo, TwoTo
<1>8. Numbers!Modulus = Modulus
  BY DEF Numbers!Modulus, Modulus, Numbers!TwoTo, TwoTo
<1>9. w[n] = Format!LebValue(bytes, from, to)
  <2>1. n \in Nat /\ from + n = to
    BY <1>1
  <2>2. Numbers!Sums(w, bytes, from, n)
    BY <1>4
  <2>3. w[n] = Format!LebValue(bytes, from, from + n)
    BY <1>2, <2>1, <2>2, SumsMeet
  <2> QED BY <2>1, <2>3
<1>10. ULEB128(bytes, from, available).length = n
  BY <1>6, <1>7 DEF Numbers!Reads
<1>11. ASSUME NumberFits(bytes, from, to)
       PROVE  ULEB128(bytes, from, available).result = Format!LebValue(bytes, from, to)
  <2>1. (n - 1) * Group < Width /\ w[n] < Modulus
    BY <1>9, <1>11 DEF NumberFits, n
  <2>2. ULEB128(bytes, from, available).result = w[n] % Modulus
    BY <1>6, <1>7, <1>8, <2>1 DEF Numbers!Reads
  <2>3. w[n] \in Nat
    BY <1>1, <1>4 DEF Numbers!Sums
  <2>4. Modulus \in Nat
    BY Powers, WidthAssumption DEF Modulus
  <2>5. w[n] % Modulus = w[n]
    <3> DEFINE m == Modulus
               a == w[n]
    <3>1. a < m /\ a \in Nat /\ m \in Nat
      BY <2>1, <2>3, <2>4
    <3> HIDE DEF a, m
    <3>2. a \in 0 .. m - 1 /\ m \in Nat \ {0}
      BY <3>1
    <3>3. a % m = a
      BY <3>2, Numbers!RestOfLess
    <3> QED BY <3>3 DEF a, m
  <2> QED BY <1>9, <2>2, <2>5
<1> QED BY <1>10, <1>11 DEF Understood, n

(***************************************************************************)
(* Sets of numbers in their order.                                         *)
(***************************************************************************)

\* Members of S have different ranks, and every rank up to the size of S is taken.
Ranked(S) ==
  /\ \A c, d \in S : c < d => Cardinality(UpTo(S, c)) < Cardinality(UpTo(S, d))
  /\ \A d \in S : Cardinality(UpTo(S, d)) \in 1 .. Cardinality(S)
  /\ \A k \in 1 .. Cardinality(S) : \E d \in S : Cardinality(UpTo(S, d)) = k

\* Every finite set of numbers is ranked.
LEMMA SetsAreRanked ==
  ASSUME NEW S \in SUBSET Nat, IsFiniteSet(S)
  PROVE  Ranked(S)
<1>1. ASSUME NEW d \in S
      PROVE  /\ UpTo(S, d) \subseteq S /\ d \in UpTo(S, d)
             /\ IsFiniteSet(UpTo(S, d)) /\ Cardinality(UpTo(S, d)) \in 1 .. Cardinality(S)
  <2>1. UpTo(S, d) \subseteq S /\ d \in UpTo(S, d)
    BY DEF UpTo
  <2>2. IsFiniteSet(UpTo(S, d)) /\ Cardinality(UpTo(S, d)) <= Cardinality(S)
    BY <2>1, FS_Subset
  <2>3. Cardinality(UpTo(S, d)) \in Nat /\ Cardinality(S) \in Nat
    BY <2>2, FS_CardinalityType
  <2>4. Cardinality(UpTo(S, d)) # 0
    BY <2>1, <2>2, FS_EmptySet
  <2> QED BY <2>1, <2>2, <2>3, <2>4
<1>2. ASSUME NEW c \in S, NEW d \in S, c < d
      PROVE  Cardinality(UpTo(S, c)) < Cardinality(UpTo(S, d))
  <2>1. UpTo(S, c) \subseteq UpTo(S, d) /\ d \notin UpTo(S, c)
    <3>1. c \in Nat /\ d \in Nat /\ ~(d <= c) /\ \A x \in Nat : x <= c => x <= d
      BY <1>2
    <3> QED BY <3>1 DEF UpTo
  <2>2. /\ Cardinality(UpTo(S, c)) <= Cardinality(UpTo(S, d))
        /\ Cardinality(UpTo(S, c)) # Cardinality(UpTo(S, d))
    <3>1. d \in UpTo(S, d) /\ UpTo(S, c) # UpTo(S, d)
      BY <1>1, <2>1
    <3> QED BY <1>1, <2>1, <3>1, FS_Subset
  <2>3. Cardinality(UpTo(S, c)) \in 1 .. Cardinality(S) /\ Cardinality(UpTo(S, d)) \in 1 .. Cardinality(S)
    BY <1>1
  <2>4. Cardinality(S) \in Nat
    BY FS_CardinalityType
  <2> QED BY <2>2, <2>3, <2>4
<1>3. ASSUME NEW k \in 1 .. Cardinality(S) PROVE \E d \in S : Cardinality(UpTo(S, d)) = k
  <2> DEFINE r == [d \in S |-> Cardinality(UpTo(S, d))]
             T == 1 .. Cardinality(S)
  <2>1. r \in [S -> T] /\ \A d \in S : r[d] = Cardinality(UpTo(S, d))
    BY <1>1
  <2>2. \A c, d \in S : r[c] = r[d] => c = d
    <3>1. SUFFICES ASSUME NEW c \in S, NEW d \in S, r[c] = r[d], c # d PROVE FALSE
      OBVIOUS
    <3>2. c < d \/ d < c
      BY <3>1
    <3>3. Cardinality(UpTo(S, c)) \in Nat /\ Cardinality(UpTo(S, d)) \in Nat
      BY <1>1
    <3>4. Cardinality(UpTo(S, c)) = Cardinality(UpTo(S, d))
      BY <3>1
    <3> HIDE DEF r
    <3> QED BY <1>2, <3>2, <3>3, <3>4
  <2> HIDE DEF r
  <2>3. r \in Injection(S, T)
    BY <2>1, <2>2 DEF Injection, IsInjective
  <2>4. IsFiniteSet(T) /\ Cardinality(T) = Cardinality(S)
    <3>1. Cardinality(S) \in Nat
      BY FS_CardinalityType
    <3> DEFINE n == Cardinality(S)
    <3>2. IsFiniteSet(1 .. n) /\ Cardinality(1 .. n) = IF 1 > n THEN 0 ELSE n - 1 + 1
      BY <3>1, FS_Interval
    <3> HIDE DEF n
    <3>3. n \in Nat => (IF 1 > n THEN 0 ELSE n - 1 + 1) = n
      OBVIOUS
    <3> QED BY <3>1, <3>2, <3>3 DEF n
  <2>5. r \in Surjection(S, T)
    BY <2>3, <2>4, FS_Injection
  <2>6. \E d \in S : r[d] = k
    BY <2>5 DEF Surjection
  <2> QED BY <2>1, <2>6
<1> QED BY <1>1, <1>2, <1>3 DEF Ranked

\* A set in its order: the member at place k is that of rank k.
InOrder(s, S) ==
  /\ s \in [1 .. Cardinality(S) -> S]
  /\ \A k \in 1 .. Cardinality(S) : Cardinality(UpTo(S, s[k])) = k

\* Ordered(S) has the members of S, each at its rank.
LEMMA OrderedIs ==
  ASSUME NEW S \in SUBSET Nat, IsFiniteSet(S)
  PROVE  /\ InOrder(Ordered(S), S)
         /\ \A s : InOrder(s, S) => s = Ordered(S)
<1>1. Ranked(S)
  BY SetsAreRanked
<1>2. InOrder(Ordered(S), S)
  <2>1. ASSUME NEW k \in 1 .. Cardinality(S)
        PROVE  LET d == CHOOSE d \in S : Cardinality(UpTo(S, d)) = k
               IN  d \in S /\ Cardinality(UpTo(S, d)) = k
    <3>1. \E d \in S : Cardinality(UpTo(S, d)) = k
      BY <1>1 DEF Ranked
    <3> QED BY <3>1
  <2>2. \A k \in 1 .. Cardinality(S) :
          Ordered(S)[k] = CHOOSE d \in S : Cardinality(UpTo(S, d)) = k
    BY DEF Ordered
  <2>3. Ordered(S) = [k \in 1 .. Cardinality(S) |-> Ordered(S)[k]]
    BY DEF Ordered
  <2>4. \A k \in 1 .. Cardinality(S) : Ordered(S)[k] \in S /\ Cardinality(UpTo(S, Ordered(S)[k])) = k
    BY <2>1, <2>2
  <2>5. Ordered(S) \in [1 .. Cardinality(S) -> S]
    BY <2>3, <2>4
  <2> QED BY <2>4, <2>5 DEF InOrder
<1>3. ASSUME NEW s, InOrder(s, S) PROVE s = Ordered(S)
  <2>1. \A c, d \in S : Cardinality(UpTo(S, c)) = Cardinality(UpTo(S, d)) => c = d
    <3>1. SUFFICES ASSUME NEW c \in S, NEW d \in S,
                          Cardinality(UpTo(S, c)) = Cardinality(UpTo(S, d)), c # d
                   PROVE FALSE
      OBVIOUS
    <3>2. c < d \/ d < c
      BY <3>1
    <3>3. Cardinality(UpTo(S, c)) < Cardinality(UpTo(S, d)) \/ Cardinality(UpTo(S, d)) < Cardinality(UpTo(S, c))
      BY <1>1, <3>2 DEF Ranked
    <3>4. Cardinality(UpTo(S, c)) \in Nat
      BY <1>1 DEF Ranked
    <3> QED BY <3>1, <3>3, <3>4
  <2>2. \A k \in 1 .. Cardinality(S) : s[k] = Ordered(S)[k]
    BY <1>2, <1>3, <2>1 DEF InOrder
  <2>3. /\ s = [k \in 1 .. Cardinality(S) |-> s[k]]
        /\ Ordered(S) = [k \in 1 .. Cardinality(S) |-> Ordered(S)[k]]
    BY <1>2, <1>3 DEF InOrder
  <2>4. [k \in 1 .. Cardinality(S) |-> s[k]] = [k \in 1 .. Cardinality(S) |-> Ordered(S)[k]]
    BY <2>2
  <2> QED BY <2>3, <2>4
<1> QED BY <1>2, <1>3

\* It is a sequence of them.
LEMMA OrderedIsSequence ==
  ASSUME NEW S \in SUBSET Nat, IsFiniteSet(S)
  PROVE  /\ Ordered(S) \in Seq(S) /\ Ordered(S) \in Seq(Nat) /\ Len(Ordered(S)) = Cardinality(S)
         /\ Ordered(S) = <<>> <=> S = {}
<1>1. Cardinality(S) \in Nat /\ (Cardinality(S) = 0 <=> S = {})
  BY FS_CardinalityType, FS_EmptySet
<1>2. Ordered(S) \in [1 .. Cardinality(S) -> S]
  BY OrderedIs DEF InOrder
<1>3. Ordered(S) \in Seq(S) /\ Len(Ordered(S)) = Cardinality(S)
  BY <1>1, <1>2
<1>4. Ordered(S) \in Seq(Nat)
  <2>1. Ordered(S) \in [1 .. Cardinality(S) -> Nat]
    BY <1>2
  <2> QED BY <1>1, <2>1
<1> QED BY <1>1, <1>3, <1>4, EmptySeq

\* A number greater than all of S comes last.
LEMMA OrderedGrows ==
  ASSUME NEW S \in SUBSET Nat, IsFiniteSet(S), NEW m \in Nat, \A d \in S : d < m
  PROVE  Ordered(S \union {m}) = Append(Ordered(S), m)
<1> DEFINE T == S \union {m}
           s == Ordered(S)
           t == Append(s, m)
           n == Cardinality(S)
<1>1. /\ m \notin S /\ T \in SUBSET Nat /\ IsFiniteSet(T) /\ Cardinality(T) = n + 1 /\ n \in Nat
  BY FS_AddElement, FS_CardinalityType
<1>2. InOrder(s, S)
  BY OrderedIs
<1>3. s \in Seq(S) /\ Len(s) = n
  BY OrderedIsSequence
<1>4. \A d \in S : UpTo(T, d) = UpTo(S, d)
  BY DEF UpTo
<1>5. UpTo(T, m) = T
  <2>1. \A d \in T : d <= m
    <3>1. \A d \in S : d <= m
      BY <1>1
    <3> QED BY <3>1
  <2> HIDE DEF T
  <2> QED BY <2>1 DEF UpTo
<1> HIDE DEF s, n
<1>6. t \in Seq(T) /\ Len(t) = n + 1 /\ t[n + 1] = m /\ \A k \in 1 .. n : t[k] = s[k]
  <2>1. s \in Seq(T) /\ m \in T
    BY <1>2, <1>3, <1>1 DEF InOrder, n
  <2> HIDE DEF T
  <2> QED BY <1>3, <2>1, AppendProperties
<1> HIDE DEF t
<1>7. t \in [1 .. n + 1 -> T]
  BY <1>6, LenProperties
<1>8. ASSUME NEW k \in 1 .. n + 1 PROVE Cardinality(UpTo(T, t[k])) = k
  <2>1. CASE k = n + 1
    BY <1>1, <1>5, <1>6, <2>1
  <2>2. CASE k \in 1 .. n
    <3>1. s[k] \in S /\ Cardinality(UpTo(S, s[k])) = k
      BY <1>2, <2>2 DEF InOrder, n
    <3> QED BY <1>4, <1>6, <2>2, <3>1
  <2> QED BY <1>1, <2>1, <2>2
<1> HIDE DEF T
<1>9. InOrder(t, T)
  BY <1>1, <1>7, <1>8 DEF InOrder
<1>10. t = Ordered(T)
  BY <1>1, <1>9, OrderedIs
<1> QED BY <1>10 DEF s, t, T

\* Nothing is ordered where there is nothing.
LEMMA OrderedEmpty == Ordered({}) = <<>>
BY OrderedIsSequence, FS_EmptySet

\* What was appended is the last, and the rest is the front.
LEMMA FrontOfAppend ==
  ASSUME NEW S, NEW s \in Seq(S), NEW m \in S
  PROVE  Append(s, m) # <<>> /\ Front(Append(s, m)) = s /\ Last(Append(s, m)) = m
<1> DEFINE t == Append(s, m)
           n == Len(s)
<1>1. n \in Nat /\ t \in Seq(S) /\ Len(t) = n + 1 /\ t[n + 1] = m /\ \A k \in 1 .. n : t[k] = s[k]
  BY AppendProperties, LenProperties
<1>2. Front(t) = SubSeq(t, 1, n)
  <2> HIDE DEF t, n
  <2>1. (n + 1) - 1 = n
    BY <1>1
  <2> QED BY <1>1, <2>1 DEF Front
<1>3. \A k \in 1 .. n : t[k] \in S
  BY <1>1, ElementOfSeq
<1> DEFINE f == SubSeq(t, 1, n)
<1>4. f \in Seq(S) /\ Len(f) = n /\ \A k \in 1 .. n : f[k] = t[k]
  <2> HIDE DEF t, n
  <2>1. 1 \in Int /\ n \in Int /\ \A i \in 1 .. n : t[i] \in S
    BY <1>1, <1>3
  <2>2. /\ f \in Seq(S)
        /\ Len(f) = IF 1 <= n THEN n - 1 + 1 ELSE 0
        /\ \A i \in 1 .. n - 1 + 1 : f[i] = t[1 + i - 1]
    BY ONLY <2>1, SubSeqProperties
  <2> HIDE DEF f
  <2>3. Len(f) = n /\ \A k \in 1 .. n : k \in 1 .. n - 1 + 1 /\ 1 + k - 1 = k
    BY <1>1, <2>2
  <2> QED BY <2>2, <2>3
<1> HIDE DEF f
<1>5. f = s
  <2> HIDE DEF t
  <2>1. \A k \in 1 .. n : f[k] = s[k]
    BY <1>1, <1>4
  <2> QED BY <1>4, <2>1, SeqEqual
<1>6. t # <<>>
  BY <1>1, EmptySeq
<1> QED BY <1>1, <1>2, <1>5, <1>6 DEF Last, f

\* Without its greatest number, the order of a set loses its last.
LEMMA OrderedShrinks ==
  ASSUME NEW S \in SUBSET Nat, IsFiniteSet(S), NEW m \in S, \A d \in S : d <= m
  PROVE  Ordered(S) # <<>> /\ Front(Ordered(S)) = Ordered(S \ {m}) /\ Last(Ordered(S)) = m
<1> DEFINE R == S \ {m}
<1>1. R \in SUBSET Nat /\ IsFiniteSet(R) /\ (\A d \in R : d < m) /\ m \in Nat /\ S = R \union {m}
  BY FS_RemoveElement
<1> HIDE DEF R
<1>2. Ordered(R) \in Seq(Nat)
  BY <1>1, OrderedIsSequence
<1>3. Ordered(S) = Append(Ordered(R), m)
  BY <1>1, OrderedGrows
<1> QED BY <1>1, <1>2, <1>3, FrontOfAppend DEF R

(***************************************************************************)
(* The DIEs of a section, in the order in which they begin.                *)
(***************************************************************************)

\* The two modules name the same attributes.
LEMMA AttributesAre == Format!Attributes = Attribute
BY DEF Format!Attributes, Format!CodeOfAttribute, Attribute

\* What the lemmas below need of a section: its DIEs are in order, and end behind where
\* they begin.
DiesInOrder(f) ==
  /\ Len(f.dies) \in Nat /\ DOMAIN f.dies = 1 .. Len(f.dies)
  /\ \A d \in 1 .. Len(f.dies) : f.dies[d] \in Format!DieLayout
  /\ \A c, d \in 1 .. Len(f.dies) : c < d => f.dies[c].id < f.dies[d].id
  /\ \A d \in 1 .. Len(f.dies) : f.dies[d].id < f.dies[d].close

\* An encoded file has its DIEs by offset.
LEMMA EncodedInOrder ==
  ASSUME NEW f, Format!Encoded(f)
  PROVE  DiesInOrder(f)
<1>1. f.dies \in Seq(Format!DieLayout)
  BY DEF Format!Encoded
<1>2. Format!DiesOf(f) = 1 .. Len(f.dies)
  BY DEF Format!DiesOf
<1>3. /\ \A c, d \in 1 .. Len(f.dies) : c < d => f.dies[c].id < f.dies[d].id
      /\ \A d \in 1 .. Len(f.dies) : f.dies[d].id < f.dies[d].close
  BY <1>2 DEF Format!Encoded
<1>4. Len(f.dies) \in Nat /\ DOMAIN f.dies = 1 .. Len(f.dies)
  BY <1>1, LenProperties
<1>5. \A d \in 1 .. Len(f.dies) : f.dies[d] \in Format!DieLayout
  BY <1>1, ElementOfSeq
<1> QED BY <1>3, <1>4, <1>5 DEF DiesInOrder

\* What a DIE of the file is made of.
LEMMA DieTyped ==
  ASSUME NEW f, DiesInOrder(f), NEW d \in 1 .. Len(f.dies)
  PROVE  /\ f.dies[d].id \in Nat /\ f.dies[d].close \in Nat /\ f.dies[d].parent \in Nat
         /\ f.dies[d].children \in BOOLEAN /\ f.dies[d].tag \in Format!Tags
         /\ \A a \in Attribute : f.dies[d].ends[a] \in Nat /\ f.dies[d].attrs[a] \in SUBSET Nat
<1>1. f.dies[d] \in Format!DieLayout
  BY DEF DiesInOrder
<1>2. /\ f.dies[d].id \in Nat /\ f.dies[d].close \in Nat /\ f.dies[d].parent \in Nat
      /\ f.dies[d].children \in BOOLEAN /\ f.dies[d].tag \in Format!Tags
      /\ f.dies[d].attrs \in [Attribute -> SUBSET Nat] /\ f.dies[d].ends \in [Attribute -> Nat]
  BY <1>1, AttributesAre DEF Format!DieLayout
<1> QED BY <1>2

\* The DIEs that have been read are the first ones.
LEMMA FirstOnesRead ==
  ASSUME NEW f, DiesInOrder(f), NEW place \in Nat
  PROVE  \E n \in 0 .. Len(f.dies) :
           ReadAt(f, place) = 1 .. n /\ Cardinality(ReadAt(f, place)) = n
<1> DEFINE N == Len(f.dies)
           Rest == (1 .. N) \ ReadAt(f, place)
<1>1. N \in Nat /\ ReadAt(f, place) \subseteq 1 .. N
  BY DEF DiesInOrder, ReadAt
<1>2. \E n \in 0 .. N : ReadAt(f, place) = 1 .. n
  <2>1. CASE Rest = {}
    <3>1. N \in 0 .. N
      BY <1>1
    <3>2. ReadAt(f, place) = 1 .. N
      BY <1>1, <2>1
    <3> QED BY <3>1, <3>2
  <2>2. CASE Rest # {}
    <3>1. Rest \in SUBSET Nat
      BY <1>1
    <3>2. PICK m \in Rest : \A k \in Rest : m <= k
      <4> HIDE DEF Rest
      <4> QED BY <2>2, <3>1, LeastNatural
    <3>3. m \in 1 .. N /\ ~(f.dies[m].id < place) /\ m - 1 \in 0 .. N
      BY <1>1, <3>2 DEF ReadAt, DiesInOrder
    <3>4. ASSUME NEW k \in 1 .. m - 1 PROVE k \in ReadAt(f, place)
      <4>1. k \in 1 .. N /\ ~(m <= k)
        BY <1>1, <3>3
      <4> QED BY <3>2, <4>1
    <3>5. ASSUME NEW k \in ReadAt(f, place) PROVE k \in 1 .. m - 1
      <4>1. k \in 1 .. N /\ f.dies[k].id < place
        BY <1>1 DEF ReadAt
      <4>2. f.dies[k].id \in Nat /\ f.dies[m].id \in Nat
        BY <3>3, <4>1, DieTyped
      <4>3. ~(m < k) /\ k # m
        <5>1. m < k => f.dies[m].id < f.dies[k].id
          BY <3>3, <4>1 DEF DiesInOrder
        <5> QED BY <3>3, <4>1, <4>2, <5>1
      <4> QED BY <1>1, <3>3, <4>1, <4>3
    <3> QED BY <3>3, <3>4, <3>5
  <2> QED BY <2>1, <2>2
<1>3. PICK n \in 0 .. N : ReadAt(f, place) = 1 .. n
  BY <1>2
<1>4. Cardinality(1 .. n) = n
  <2> HIDE DEF N
  <2>1. n \in Nat /\ 1 \in Int /\ n \in Int
    BY <1>1
  <2>2. Cardinality(1 .. n) = IF 1 > n THEN 0 ELSE n - 1 + 1
    BY <2>1, FS_Interval
  <2> QED BY <2>1, <2>2
<1> QED BY <1>3, <1>4

\* There are d numbers up to d.
LEMMA CardinalityOfFirst ==
  ASSUME NEW n \in Nat PROVE Cardinality(1 .. n) = n
<1>1. 1 \in Int /\ n \in Int
  OBVIOUS
<1>2. Cardinality(1 .. n) = IF 1 > n THEN 0 ELSE n - 1 + 1
  BY <1>1, FS_Interval
<1> QED BY <1>2

\* The two modules mean the same by the open lists.
LEMMA OpenAtFormat ==
  ASSUME NEW f, DiesInOrder(f), NEW place
  PROVE  Format!OpenAt(f, place) = OpenAt(f, place)
BY DEF Format!OpenAt, OpenAt, ReadAt, Format!DiesOf, DiesInOrder

\* DIE d as much as it is read at a place.
DieRead(f, d, place) ==
  [id |-> f.dies[d].id, tag |-> f.dies[d].tag, children |-> f.dies[d].children,
   parent |-> f.dies[d].parent,
   attrs |-> [a \in Attribute |->
               IF f.dies[d].ends[a] <= place THEN f.dies[d].attrs[a] ELSE {}]]

\* The history of the walk, DIE by DIE.
LEMMA DiesAtIs ==
  ASSUME NEW f, NEW place, NEW n, Cardinality(ReadAt(f, place)) = n
  PROVE  DiesAt(f, place) = [d \in 1 .. n |-> DieRead(f, d, place)]
BY DEF DiesAt, DieRead

\* No DIE that has begun holds a value behind the place.
Settled(f, place) ==
  \A d \in ReadAt(f, place) : \A a \in Attribute : f.dies[d].ends[a] <= place

\* A DIE that is over does not change any more.
LEMMA SettledDie ==
  ASSUME NEW f, DiesInOrder(f), NEW p \in Nat, NEW q \in Nat, p <= q, NEW d \in 1 .. Len(f.dies),
         \A a \in Attribute : f.dies[d].ends[a] <= p
  PROVE  DieRead(f, d, q) = DieRead(f, d, p)
<1>1. \A a \in Attribute : f.dies[d].ends[a] \in Nat
  BY DieTyped
<1>2. \A a \in Attribute : f.dies[d].ends[a] <= q
  BY <1>1
<1>3. [a \in Attribute |-> IF f.dies[d].ends[a] <= q THEN f.dies[d].attrs[a] ELSE {}]
        = [a \in Attribute |-> IF f.dies[d].ends[a] <= p THEN f.dies[d].attrs[a] ELSE {}]
  BY <1>2
<1> QED BY <1>3 DEF DieRead

\* Between two places where no DIE begins only lists of children are closed.
LEMMA NothingBegins ==
  ASSUME NEW f, DiesInOrder(f), NEW p \in Nat, NEW q \in Nat, p <= q,
         Format!Begun(f, p, q) = {}, Settled(f, p)
  PROVE  /\ DiesAt(f, q) = DiesAt(f, p)
         /\ OpenAt(f, q) = OpenAt(f, p) \ Format!Closed(f, p, q)
         /\ Settled(f, q)
<1>1. ReadAt(f, q) = ReadAt(f, p)
  <2>1. ASSUME NEW d \in 1 .. Len(f.dies)
        PROVE  f.dies[d].id < q <=> f.dies[d].id < p
    <3>1. f.dies[d].id \in Nat
      BY DieTyped
    <3>2. f.dies[d].id \notin p .. q - 1
      BY DEF Format!Begun, Format!DiesOf
    <3> QED BY <3>1, <3>2
  <2> QED BY <2>1 DEF ReadAt, DiesInOrder
<1>2. PICK n \in 0 .. Len(f.dies) : ReadAt(f, p) = 1 .. n /\ Cardinality(ReadAt(f, p)) = n
  BY FirstOnesRead
<1>3. Len(f.dies) \in Nat
  BY DEF DiesInOrder
<1>4. \A d \in 1 .. n : d \in 1 .. Len(f.dies) /\ \A a \in Attribute : f.dies[d].ends[a] <= p
  BY <1>2, <1>3 DEF Settled
<1>5. \A d \in 1 .. n : DieRead(f, d, q) = DieRead(f, d, p)
  BY <1>4, SettledDie
<1>6. DiesAt(f, q) = DiesAt(f, p)
  <2>1. /\ DiesAt(f, q) = [d \in 1 .. n |-> DieRead(f, d, q)]
        /\ DiesAt(f, p) = [d \in 1 .. n |-> DieRead(f, d, p)]
    BY <1>1, <1>2, DiesAtIs
  <2> QED BY <1>5, <2>1
<1>7. OpenAt(f, q) = OpenAt(f, p) \ Format!Closed(f, p, q)
  <2>1. ASSUME NEW d \in 1 .. n
        PROVE  q < f.dies[d].close <=> p < f.dies[d].close /\ f.dies[d].close \notin p + 1 .. q
    <3>1. f.dies[d].close \in Nat
      BY <1>4, DieTyped
    <3> QED BY <3>1
  <2>2. \A d \in 1 .. n : d \in Format!Closed(f, p, q) <=> f.dies[d].close \in p + 1 .. q
    BY <1>4 DEF Format!Closed, Format!DiesOf
  <2>3. /\ OpenAt(f, q) = {d \in 1 .. n : f.dies[d].children /\ q < f.dies[d].close}
        /\ OpenAt(f, p) = {d \in 1 .. n : f.dies[d].children /\ p < f.dies[d].close}
    BY <1>1, <1>2 DEF OpenAt
  <2> QED BY <2>1, <2>2, <2>3
<1>8. Settled(f, q)
  <2>1. ASSUME NEW d \in 1 .. n, NEW a \in Attribute PROVE f.dies[d].ends[a] <= q
    <3>1. f.dies[d].ends[a] \in Nat /\ f.dies[d].ends[a] <= p
      BY <1>4, DieTyped
    <3> QED BY <3>1
  <2> QED BY <1>1, <1>2, <2>1 DEF Settled
<1> QED BY <1>6, <1>7, <1>8

\* One DIE begins at p, and none besides until q.
Begins(f, d, p, q) ==
  /\ d \in 1 .. Len(f.dies) /\ f.dies[d].id = p
  /\ Format!Begun(f, p, q) = {d} /\ Format!Closed(f, p, q) = {}

\* Once DIE d has begun, the DIEs read are those up to d.
LEMMA DieBegins ==
  ASSUME NEW f, DiesInOrder(f), NEW p \in Nat, NEW q \in Nat, NEW d, Begins(f, d, p, q),
         NEW x \in p + 1 .. q
  PROVE  /\ ReadAt(f, p) = 1 .. d - 1 /\ Cardinality(ReadAt(f, p)) = d - 1
         /\ ReadAt(f, x) = 1 .. d /\ Cardinality(ReadAt(f, x)) = d
         /\ OpenAt(f, x) = IF f.dies[d].children THEN OpenAt(f, p) \union {d} ELSE OpenAt(f, p)
<1>1. Len(f.dies) \in Nat /\ d \in 1 .. Len(f.dies) /\ d - 1 \in Nat /\ d \in Nat /\ f.dies[d].id = p
  BY DEF Begins, DiesInOrder
<1>2. ASSUME NEW c \in 1 .. Len(f.dies)
      PROVE  /\ f.dies[c].id < p <=> c < d
             /\ f.dies[c].id < x <=> c <= d
  <2>1. f.dies[c].id \in Nat
    BY DieTyped
  <2>2. CASE c < d
    <3>1. f.dies[c].id < p
      BY <1>1, <2>2 DEF DiesInOrder
    <3> QED BY <1>1, <2>1, <2>2, <3>1
  <2>3. CASE c = d
    BY <1>1, <2>3
  <2>4. CASE d < c
    <3>1. p < f.dies[c].id
      BY <1>1, <2>4 DEF DiesInOrder
    <3>2. f.dies[c].id \notin p .. q - 1
      <4>1. c \notin Format!Begun(f, p, q)
        BY <1>1, <2>4 DEF Begins
      <4> QED BY <4>1 DEF Format!Begun, Format!DiesOf
    <3> QED BY <1>1, <2>1, <2>4, <3>1, <3>2
  <2> QED BY <1>1, <2>2, <2>3, <2>4
<1>3. ReadAt(f, p) = 1 .. d - 1
  <2>1. \A c \in 1 .. Len(f.dies) : c < d <=> c \in 1 .. d - 1
    BY <1>1
  <2>2. 1 .. d - 1 \subseteq 1 .. Len(f.dies)
    BY <1>1
  <2> QED BY <1>2, <2>1, <2>2 DEF ReadAt, DiesInOrder
<1>4. ReadAt(f, x) = 1 .. d
  <2>1. \A c \in 1 .. Len(f.dies) : c <= d <=> c \in 1 .. d
    BY <1>1
  <2>2. 1 .. d \subseteq 1 .. Len(f.dies)
    BY <1>1
  <2> QED BY <1>2, <2>1, <2>2 DEF ReadAt, DiesInOrder
<1>5. ASSUME NEW c \in 1 .. d
      PROVE  /\ c # d => (x < f.dies[c].close <=> p < f.dies[c].close)
             /\ c = d => x < f.dies[c].close
  <2>1. c \in 1 .. Len(f.dies)
    BY <1>1
  <2>2. f.dies[c].close \in Nat
    BY <2>1, DieTyped
  <2>3. f.dies[c].close \notin p + 1 .. q
    BY <2>1 DEF Begins, Format!Closed, Format!DiesOf
  <2>4. c = d => p < f.dies[c].close
    BY <1>1 DEF DiesInOrder
  <2> QED BY <2>2, <2>3, <2>4
<1>6. OpenAt(f, p) = {c \in 1 .. d - 1 : f.dies[c].children /\ p < f.dies[c].close}
  BY <1>3 DEF OpenAt
<1>7. OpenAt(f, x) = {c \in 1 .. d : f.dies[c].children /\ x < f.dies[c].close}
  BY <1>4 DEF OpenAt
<1>8. d \in 1 .. d /\ \A c : c \in 1 .. d - 1 <=> c \in 1 .. d /\ c # d
  BY <1>1
<1>9. OpenAt(f, x) = IF f.dies[d].children THEN OpenAt(f, p) \union {d} ELSE OpenAt(f, p)
  BY <1>5, <1>6, <1>7, <1>8
<1> QED BY <1>1, <1>3, <1>4, <1>9, CardinalityOfFirst

\* The lists open are finitely many.
LEMMA OpenIsFinite ==
  ASSUME NEW f, DiesInOrder(f), NEW place \in Nat
  PROVE  OpenAt(f, place) \in SUBSET Nat /\ IsFiniteSet(OpenAt(f, place))
<1>1. OpenAt(f, place) \subseteq 1 .. Len(f.dies) /\ Len(f.dies) \in Nat
  BY DEF OpenAt, ReadAt, DiesInOrder
<1>2. IsFiniteSet(1 .. Len(f.dies))
  BY <1>1, FS_Interval
<1> QED BY <1>1, <1>2, FS_Subset

\* How many DIEs are read at p and at the bytes after it.
LEMMA DieCounted ==
  ASSUME NEW f, DiesInOrder(f), NEW p \in Nat, NEW q \in Nat, NEW d, Begins(f, d, p, q),
         NEW x \in p + 1 .. q
  PROVE  ReadAt(f, p) = 1 .. d - 1 /\ Cardinality(ReadAt(f, p)) = d - 1 /\ Cardinality(ReadAt(f, x)) = d
BY DieBegins

\* What of the DIEs is there while those between p and q are read.
LEMMA DiesWhile ==
  ASSUME NEW f, DiesInOrder(f), NEW p \in Nat, NEW q \in Nat, NEW d, Begins(f, d, p, q),
         Settled(f, p), NEW x \in p + 1 .. q
  PROVE  /\ d \in Nat \ {0} /\ Len(DiesAt(f, p)) = d - 1 /\ Len(DiesAt(f, x)) = d
         /\ DiesAt(f, p) = [c \in 1 .. d - 1 |-> DieRead(f, c, p)]
         /\ DiesAt(f, x) = [c \in 1 .. d |-> IF c = d THEN DieRead(f, d, x) ELSE DieRead(f, c, p)]
<1>1. d \in Nat \ {0} /\ d - 1 \in Nat /\ d \in 1 .. Len(f.dies) /\ Len(f.dies) \in Nat /\ p <= x /\ x \in Nat
  BY DEF Begins, DiesInOrder
<1>2. /\ ReadAt(f, p) = 1 .. d - 1 /\ Cardinality(ReadAt(f, p)) = d - 1
      /\ Cardinality(ReadAt(f, x)) = d
  BY DieCounted
<1>3. /\ DiesAt(f, p) = [c \in 1 .. d - 1 |-> DieRead(f, c, p)]
      /\ DiesAt(f, x) = [c \in 1 .. d |-> DieRead(f, c, x)]
  BY <1>2, DiesAtIs
<1>4. ASSUME NEW c \in 1 .. d, c # d PROVE DieRead(f, c, x) = DieRead(f, c, p)
  <2>1. c \in 1 .. d - 1 /\ c \in 1 .. Len(f.dies)
    BY <1>1, <1>4
  <2>2. \A a \in Attribute : f.dies[c].ends[a] <= p
    BY <1>2, <2>1 DEF Settled
  <2> QED BY <1>1, <2>1, <2>2, SettledDie
<1>5. DiesAt(f, x) = [c \in 1 .. d |-> IF c = d THEN DieRead(f, d, x) ELSE DieRead(f, c, p)]
  BY <1>3, <1>4
<1>6. /\ Len([c \in 1 .. d - 1 |-> DieRead(f, c, p)]) = d - 1
      /\ Len([c \in 1 .. d |-> DieRead(f, c, x)]) = d
  BY <1>1
<1> QED BY <1>1, <1>3, <1>5, <1>6

\* When DIE d begins it joins the history, and its list the open ones.
LEMMA DieAppears ==
  ASSUME NEW f, DiesInOrder(f), NEW p \in Nat, NEW q \in Nat, NEW d, Begins(f, d, p, q),
         Settled(f, p), NEW x \in p + 1 .. q,
         \A a \in Attribute : f.dies[d].ends[a] <= x => f.dies[d].attrs[a] = {}
  PROVE  DiesAt(f, x) =
           Append(DiesAt(f, p),
                  [id |-> p, tag |-> f.dies[d].tag, children |-> f.dies[d].children,
                   parent |-> f.dies[d].parent, attrs |-> [a \in Attribute |-> {}]])
<1> DEFINE new == [id |-> p, tag |-> f.dies[d].tag, children |-> f.dies[d].children,
                   parent |-> f.dies[d].parent, attrs |-> [a \in Attribute |-> {}]]
           s == DiesAt(f, p)
           R(c) == DieRead(f, c, p)
<1>1. /\ d \in Nat \ {0}
      /\ s = [c \in 1 .. d - 1 |-> R(c)]
      /\ DiesAt(f, x) = [c \in 1 .. d |-> IF c = d THEN DieRead(f, d, x) ELSE R(c)]
  BY DiesWhile
<1>2. DieRead(f, d, x) = new
  <2>1. [a \in Attribute |-> IF f.dies[d].ends[a] <= x THEN f.dies[d].attrs[a] ELSE {}]
          = [a \in Attribute |-> {}]
    OBVIOUS
  <2>2. f.dies[d].id = p
    BY DEF Begins
  <2> QED BY <2>1, <2>2 DEF DieRead
<1> HIDE DEF new, s, R
<1>3. Append(s, new) = [c \in 1 .. d |-> IF c = d THEN new ELSE R(c)]
  <2> DEFINE T == {R(c) : c \in 1 .. d - 1} \union {new}
             t == Append(s, new)
  <2>1. s \in Seq(T) /\ new \in T /\ Len(s) = d - 1 /\ \A c \in 1 .. d - 1 : s[c] = R(c)
    BY <1>1
  <2> HIDE DEF T
  <2>2. t \in Seq(T) /\ Len(t) = (d - 1) + 1 /\ t[(d - 1) + 1] = new
        /\ \A c \in 1 .. d - 1 : t[c] = s[c]
    BY <2>1, AppendProperties
  <2>3. (d - 1) + 1 = d /\ \A c \in 1 .. d : c # d => c \in 1 .. d - 1
    BY <1>1
  <2>4. \A c \in 1 .. d : t[c] = IF c = d THEN new ELSE R(c)
    BY <2>1, <2>2, <2>3
  <2> HIDE DEF t
  <2>5. t \in [1 .. d -> T]
    BY <2>2, <2>3, LenProperties
  <2>6. t = [c \in 1 .. d |-> t[c]]
    BY <2>5
  <2>7. t = [c \in 1 .. d |-> IF c = d THEN new ELSE R(c)]
    BY <2>6, <2>4
  <2> QED BY <2>7 DEF t
<1>4. DiesAt(f, x) = Append(s, new)
  BY <1>1, <1>2, <1>3
<1> QED BY <1>4 DEF new, s

\* While no attribute ends the history of an open DIE stays.
LEMMA NothingAppears ==
  ASSUME NEW f, DiesInOrder(f), NEW p \in Nat, NEW q \in Nat, NEW d, Begins(f, d, p, q),
         Settled(f, p), NEW x \in p + 1 .. q, NEW y \in p + 1 .. q, x <= y,
         \A b \in Attribute : f.dies[d].ends[b] <= x \/ ~(f.dies[d].ends[b] <= y)
                               \/ f.dies[d].attrs[b] = {}
  PROVE  DiesAt(f, y) = DiesAt(f, x)
<1>1. /\ DiesAt(f, x) = [c \in 1 .. d |-> IF c = d THEN DieRead(f, d, x) ELSE DieRead(f, c, p)]
      /\ DiesAt(f, y) = [c \in 1 .. d |-> IF c = d THEN DieRead(f, d, y) ELSE DieRead(f, c, p)]
  BY DiesWhile
<1>2. DieRead(f, d, y) = DieRead(f, d, x)
  <2>1. d \in 1 .. Len(f.dies)
    BY DEF Begins
  <2>2. ASSUME NEW b \in Attribute
        PROVE  (IF f.dies[d].ends[b] <= y THEN f.dies[d].attrs[b] ELSE {})
                 = (IF f.dies[d].ends[b] <= x THEN f.dies[d].attrs[b] ELSE {})
    <3>1. f.dies[d].ends[b] \in Nat
      BY <2>1, DieTyped
    <3>2. f.dies[d].ends[b] <= x => f.dies[d].ends[b] <= y
      BY <3>1
    <3> QED BY <3>2
  <2>3. [b \in Attribute |-> IF f.dies[d].ends[b] <= y THEN f.dies[d].attrs[b] ELSE {}]
          = [b \in Attribute |-> IF f.dies[d].ends[b] <= x THEN f.dies[d].attrs[b] ELSE {}]
    BY <2>2
  <2> QED BY <2>3 DEF DieRead
<1> QED BY <1>1, <1>2

\* No other attribute of DIE d ends between place x and place y.
OthersStay(f, d, a, x, y) ==
  \A b \in Attribute \ {a} : f.dies[d].ends[b] <= x \/ ~(f.dies[d].ends[b] <= y)
                              \/ f.dies[d].attrs[b] = {}

\* The DIEs once one more attribute is read.
Appears(f, d, a, v, p, q, x, y) ==
  /\ DiesInOrder(f) /\ p \in Nat /\ q \in Nat /\ Begins(f, d, p, q)
  /\ Settled(f, p) /\ x \in p + 1 .. q /\ y \in p + 1 .. q /\ x <= y
  /\ a \in Attribute /\ f.dies[d].attrs[a] = {v} /\ f.dies[d].ends[a] <= y
  /\ OthersStay(f, d, a, x, y)

\* When an attribute ends it joins the history of its DIE.
LEMMA AttributeAdded ==
  ASSUME NEW f, NEW d, NEW a, NEW v, NEW p, NEW q, NEW x, NEW y, Appears(f, d, a, v, p, q, x, y)
  PROVE  DiesAt(f, y) = [DiesAt(f, x) EXCEPT ![d].attrs[a] = {v}]
<1>1. /\ DiesInOrder(f) /\ p \in Nat /\ q \in Nat /\ Begins(f, d, p, q)
      /\ Settled(f, p) /\ x \in p + 1 .. q /\ y \in p + 1 .. q /\ x <= y
      /\ a \in Attribute /\ f.dies[d].attrs[a] = {v} /\ f.dies[d].ends[a] <= y
  BY DEF Appears
<1>2. \A b \in Attribute \ {a} : f.dies[d].ends[b] <= x \/ ~(f.dies[d].ends[b] <= y)
                                  \/ f.dies[d].attrs[b] = {}
  BY DEF Appears, OthersStay
<1> DEFINE R(c) == DieRead(f, c, p)
           e == DieRead(f, d, x)
           g == DieRead(f, d, y)
<1>3. /\ d \in Nat \ {0}
      /\ DiesAt(f, x) = [c \in 1 .. d |-> IF c = d THEN e ELSE R(c)]
      /\ DiesAt(f, y) = [c \in 1 .. d |-> IF c = d THEN g ELSE R(c)]
  BY <1>1, DiesWhile
<1>4. g = [e EXCEPT !.attrs[a] = {v}]
  <2>1. d \in 1 .. Len(f.dies)
    BY <1>1 DEF Begins
  <2> DEFINE Old == [b \in Attribute |-> IF f.dies[d].ends[b] <= x THEN f.dies[d].attrs[b] ELSE {}]
             New == [b \in Attribute |-> IF f.dies[d].ends[b] <= y THEN f.dies[d].attrs[b] ELSE {}]
  <2>2. ASSUME NEW b \in Attribute, b # a PROVE New[b] = Old[b]
    <3>1. f.dies[d].ends[b] \in Nat /\ x \in Nat /\ y \in Nat /\ x <= y
      BY <1>1, <2>1, DieTyped
    <3>2. f.dies[d].ends[b] <= x => f.dies[d].ends[b] <= y
      BY <3>1
    <3> QED BY <1>2, <2>2, <3>2
  <2>3. New[a] = {v}
    BY <1>1
  <2>4. DOMAIN New = Attribute /\ DOMAIN Old = Attribute /\ New = [b \in Attribute |-> New[b]]
    OBVIOUS
  <2>5. e = [id |-> f.dies[d].id, tag |-> f.dies[d].tag, children |-> f.dies[d].children,
             parent |-> f.dies[d].parent, attrs |-> Old]
    BY DEF DieRead
  <2>6. g = [id |-> f.dies[d].id, tag |-> f.dies[d].tag, children |-> f.dies[d].children,
             parent |-> f.dies[d].parent, attrs |-> New]
    BY DEF DieRead
  <2> HIDE DEF Old, New, e, g
  <2>7. New = [Old EXCEPT ![a] = {v}]
    BY <1>1, <2>2, <2>3, <2>4
  <2>8. e.attrs = Old
    BY <2>5
  <2>9. [e EXCEPT !.attrs = New] = g
    BY <2>5, <2>6
  <2>10. [e EXCEPT !.attrs[a] = {v}] = [e EXCEPT !.attrs = [e.attrs EXCEPT ![a] = {v}]]
    OBVIOUS
  <2> QED BY <2>7, <2>8, <2>9, <2>10
<1> HIDE DEF R, e, g
<1>5. d \in 1 .. d
  BY <1>3
<1> DEFINE s == [c \in 1 .. d |-> IF c = d THEN e ELSE R(c)]
<1>6. [s EXCEPT ![d].attrs[a] = {v}]
        = [c \in 1 .. d |-> IF c = d THEN [e EXCEPT !.attrs[a] = {v}] ELSE R(c)]
  BY <1>5
<1> QED BY <1>3, <1>4, <1>6

\* When all its attributes are over so is the DIE.
LEMMA DieSettles ==
  ASSUME NEW f, DiesInOrder(f), NEW p \in Nat, NEW q \in Nat, p < q, NEW d, Begins(f, d, p, q),
         Settled(f, p), \A a \in Attribute : f.dies[d].ends[a] <= q
  PROVE  Settled(f, q)
<1>1. d \in Nat \ {0} /\ d \in 1 .. Len(f.dies) /\ Len(f.dies) \in Nat /\ q \in p + 1 .. q
  BY DEF Begins, DiesInOrder
<1>2. ReadAt(f, p) = 1 .. d - 1 /\ ReadAt(f, q) = 1 .. d
  <2> DEFINE x == q
  <2>1. x \in p + 1 .. q
    BY <1>1
  <2> HIDE DEF x
  <2>2. ReadAt(f, p) = 1 .. d - 1 /\ ReadAt(f, x) = 1 .. d
    BY <2>1, DieBegins
  <2> QED BY <2>2 DEF x
<1>3. ASSUME NEW c \in 1 .. d, NEW a \in Attribute PROVE f.dies[c].ends[a] <= q
  <2>1. CASE c = d
    BY <2>1
  <2>2. CASE c # d
    <3>1. c \in 1 .. d - 1 /\ c \in 1 .. Len(f.dies)
      BY <1>1, <2>2
    <3>2. f.dies[c].ends[a] <= p /\ f.dies[c].ends[a] \in Nat
      BY <1>2, <3>1, DieTyped DEF Settled
    <3> QED BY <3>2
  <2> QED BY <2>1, <2>2
<1> QED BY <1>2, <1>3 DEF Settled

(***************************************************************************)
(* Reading memory.                                                         *)
(***************************************************************************)

\* (Zenon counts to a number.)
LEMMA SizeBoundIs == SizeBound \in Nat \ {0}
BY SMT DEF SizeBound

\* As long as nothing is cut off, a count is what it should be.
LEMMA MinusIs ==
  ASSUME NEW count \in Nat, count < SizeBound, NEW n \in Nat, n <= count
  PROVE  Minus(count, n) = count - n
<1> DEFINE rest == count - n
           m == SizeBound
<1>1. m \in Nat \ {0} /\ rest \in 0 .. m - 1 /\ (count + m) - n = m * 1 + rest
  BY SizeBoundIs
<1> HIDE DEF rest, m
<1>2. (m * 1 + rest) % m = rest
  BY <1>1, Numbers!DivisionIs
<1> QED BY <1>1, <1>2 DEF Minus, rest, m

\* Bytes are numbers.
Readables(bytes) == Len(bytes) \in Nat /\ \A i \in 1 .. Len(bytes) : bytes[i] \in Nat

\* The first zero byte.
LEMMA ZeroFromIs ==
  ASSUME NEW bytes, Len(bytes) \in Nat, NEW at \in Nat, NEW z \in at .. Len(bytes) - 1,
         bytes[z + 1] = 0, \A i \in at + 1 .. z : bytes[i] # 0
  PROVE  ZeroFrom(bytes, at) = z
<1> DEFINE S == {x \in at .. Len(bytes) - 1 : bytes[x + 1] = 0}
<1>1. z \in S
  OBVIOUS
<1>2. ASSUME NEW x \in S PROVE z <= x /\ x \in Nat
  <2>1. x \in Nat /\ (x < z => x + 1 \in at + 1 .. z)
    OBVIOUS
  <2>2. bytes[x + 1] = 0
    OBVIOUS
  <2> HIDE DEF S
  <2> QED BY <2>1, <2>2
<1>3. Min(S) = CHOOSE x \in S : \A y \in S : x <= y
  BY DEF Min
<1> HIDE DEF S
<1>4. z \in Nat
  OBVIOUS
<1>5. Min(S) \in S /\ \A y \in S : Min(S) <= y
  <2>1. \E x \in S : \A y \in S : x <= y
    BY <1>1, <1>2
  <2> QED BY <1>3, <2>1
<1>6. Min(S) = z
  <2>1. Min(S) <= z /\ z <= Min(S) /\ Min(S) \in Nat
    BY <1>1, <1>2, <1>5
  <2> QED BY <1>4, <2>1
<1> QED BY <1>6 DEF ZeroFrom, S

\* A number with room behind it.
LEMMA NumberAt ==
  ASSUME NEW bytes, Readables(bytes), NEW from \in Nat, NEW to \in Nat,
         Format!LebAt(bytes, from, to), NumberFits(bytes, from, to),
         NEW available \in Nat, Len(bytes) - from <= available
  PROVE  /\ ULEB128(bytes, from, available).length = to - from
         /\ ULEB128(bytes, from, available).result = Format!LebValue(bytes, from, to)
         /\ from < to /\ to <= Len(bytes)
<1>1. from < to /\ to <= Len(bytes) /\ Len(bytes) \in Nat
  BY DEF Format!LebAt, Readables
<1>2. to - from <= available
  BY <1>1
<1>3. Understood(bytes, from, to, available)
  BY <1>2, NumberUnderstood DEF Readables
<1> QED BY <1>1, <1>3 DEF Understood

\* A zero byte is the number 0.
LEMMA ZeroIs ==
  ASSUME NEW bytes, Readables(bytes), NEW from \in Nat, from < Len(bytes), bytes[from + 1] = 0
  PROVE  /\ Format!LebAt(bytes, from, from + 1)
         /\ Format!LebValue(bytes, from, from + 1) = 0
<1> DEFINE to == from + 1
           digit == [i \in from + 1 .. to |-> bytes[i] % 128]
<1>1. /\ to \in Nat /\ from <= to /\ \A i \in from + 1 .. to : bytes[i] \in Nat
      /\ from + 1 \in from + 1 .. to
  BY DEF Readables
<1>2. PICK v : v[from] = Format!LebValue(bytes, from, to) /\ Horner(v, digit, 128, from, to)
  <2> HIDE DEF to
  <2> QED BY <1>1, LebValueIs
<1>3. v[to] = 0 /\ \A i \in from .. to - 1 : v[i] = digit[i + 1] + 128 * v[i + 1]
  BY <1>2 DEF Horner
<1>4. v[from] = digit[from + 1] + 128 * v[from + 1] /\ v[from + 1] = 0
  <2>1. from \in from .. to - 1
    OBVIOUS
  <2> QED BY <1>3, <2>1
<1>5. digit[from + 1] = 0
  <2>1. bytes[from + 1] % 128 = 0
    OBVIOUS
  <2> QED BY <1>1, <2>1
<1>6. v[from] = 0
  BY <1>4, <1>5
<1>7. Format!LebAt(bytes, from, from + 1)
  BY DEF Format!LebAt, Readables
<1> QED BY <1>2, <1>6, <1>7

\* What is shorter than the result fits.
LEMMA ZeroFits ==
  ASSUME NEW bytes, Readables(bytes), NEW from \in Nat, from < Len(bytes), bytes[from + 1] = 0
  PROVE  NumberFits(bytes, from, from + 1)
<1>1. Format!LebValue(bytes, from, from + 1) = 0
  BY ZeroIs
<1>2. ((from + 1) - from) - 1 = 0 /\ 0 * Group < Width
  BY WidthAssumption
<1>3. 0 < Modulus
  <2>1. Numbers!Modulus \in Nat \ {0} 
    BY Numbers!TwoToIs, WidthAssumption DEF Numbers!WidthAssumption, Numbers!Modulus
  <2>2. Numbers!Modulus = Modulus
    BY DEF Numbers!Modulus, Modulus, Numbers!TwoTo, TwoTo
  <2> QED BY <2>1, <2>2
<1> QED BY <1>1, <1>2, <1>3 DEF NumberFits

\* The two tables of codes agree.
LEMMA TagsAgree == \A code : Named(code, Tag) = Format!NameOf(code, Format!TagCode)
BY DEF Named, Format!NameOf, Tag, Format!TagCode

\* The codes of the attributes are those of DWARF.
LEMMA AttributesAgree ==
  \A code : Named(code, AttributeCode) = Format!NameOf(code, Format!CodeOfAttribute)
BY DEF Named, Format!NameOf, AttributeCode, Format!CodeOfAttribute

\* So are those of the forms, but for ref_sig8, which the program has wrong.
LEMMA FormsAgree ==
  ASSUME NEW code, NEW form, form = Format!NameOf(code, Format!FormCode), form # "other"
  PROVE  /\ form \in DOMAIN Format!FormCode
         /\ FormOf(code) = IF form = "ref_sig8" THEN "other" ELSE form
<1>1. form \in DOMAIN Format!FormCode /\ Format!FormCode[form] = code
  BY DEF Format!NameOf
<1>2. DOMAIN Form = 1 .. 26
  BY DEF Form
<1>3. form \in DOMAIN Format!FormCode /\ form # "ref_sig8" =>
        Format!FormCode[form] \in 1 .. 26 /\ Form[Format!FormCode[form]] = form
  <2> DEFINE Agrees(x) == \E n \in 1 .. 26 : Format!FormCode[x] = n /\ Form[n] = x
  <2>1. /\ Format!FormCode["addr"] = 1
       /\ Format!FormCode["block2"] = 3
       /\ Format!FormCode["block4"] = 4
       /\ Format!FormCode["data2"] = 5
       /\ Format!FormCode["data4"] = 6
       /\ Format!FormCode["data8"] = 7
    BY DEF Format!FormCode
  <2>2. /\ Form[1] = "addr"
       /\ Form[3] = "block2"
       /\ Form[4] = "block4"
       /\ Form[5] = "data2"
       /\ Form[6] = "data4"
       /\ Form[7] = "data8"
    BY DEF Form
  <2>3. \A x \in {"addr", "block2", "block4", "data2", "data4", "data8"} : Agrees(x)
    BY <2>1, <2>2
  <2>4. /\ Format!FormCode["string"] = 8
       /\ Format!FormCode["block"] = 9
       /\ Format!FormCode["block1"] = 10
       /\ Format!FormCode["data1"] = 11
       /\ Format!FormCode["flag"] = 12
       /\ Format!FormCode["sdata"] = 13
    BY DEF Format!FormCode
  <2>5. /\ Form[8] = "string"
       /\ Form[9] = "block"
       /\ Form[10] = "block1"
       /\ Form[11] = "data1"
       /\ Form[12] = "flag"
       /\ Form[13] = "sdata"
    BY DEF Form
  <2>6. \A x \in {"string", "block", "block1", "data1", "flag", "sdata"} : Agrees(x)
    BY <2>4, <2>5
  <2>7. /\ Format!FormCode["strp"] = 14
       /\ Format!FormCode["udata"] = 15
       /\ Format!FormCode["ref_addr"] = 16
       /\ Format!FormCode["ref1"] = 17
       /\ Format!FormCode["ref2"] = 18
       /\ Format!FormCode["ref4"] = 19
    BY DEF Format!FormCode
  <2>8. /\ Form[14] = "strp"
       /\ Form[15] = "udata"
       /\ Form[16] = "ref_addr"
       /\ Form[17] = "ref1"
       /\ Form[18] = "ref2"
       /\ Form[19] = "ref4"
    BY DEF Form
  <2>9. \A x \in {"strp", "udata", "ref_addr", "ref1", "ref2", "ref4"} : Agrees(x)
    BY <2>7, <2>8
  <2>10. /\ Format!FormCode["ref8"] = 20
       /\ Format!FormCode["ref_udata"] = 21
       /\ Format!FormCode["sec_offset"] = 23
       /\ Format!FormCode["exprloc"] = 24
       /\ Format!FormCode["flag_present"] = 25
    BY DEF Format!FormCode
  <2>11. /\ Form[20] = "ref8"
       /\ Form[21] = "ref_udata"
       /\ Form[23] = "sec_offset"
       /\ Form[24] = "exprloc"
       /\ Form[25] = "flag_present"
    BY DEF Form
  <2>12. \A x \in {"ref8", "ref_udata", "sec_offset", "exprloc", "flag_present"} : Agrees(x)
    BY <2>10, <2>11
  <2>13. DOMAIN Format!FormCode = {"ref_sig8"}
           \union {"addr", "block2", "block4", "data2", "data4", "data8"}
           \union {"string", "block", "block1", "data1", "flag", "sdata"}
           \union {"strp", "udata", "ref_addr", "ref1", "ref2", "ref4"}
           \union {"ref8", "ref_udata", "sec_offset", "exprloc", "flag_present"}
    BY DEF Format!FormCode
  <2> HIDE DEF Agrees
  <2>14. form \in DOMAIN Format!FormCode /\ form # "ref_sig8" => Agrees(form)
    BY <2>3, <2>6, <2>9, <2>12, <2>13
  <2> QED BY <2>14 DEF Agrees
<1>4. Format!FormCode["ref_sig8"] = 32
  BY DEF Format!FormCode
<1> QED BY <1>1, <1>2, <1>3, <1>4 DEF FormOf

\* A tag is one of Dwarf32 or another.
LEMMA TagsTyped ==
  /\ \A code : Named(code, Tag) \in DOMAIN Tag \union {"other"}
  /\ Format!Tags = AllTags /\ AllTags = DOMAIN Tag \union {"other"}
<1>1. \A code : Named(code, Tag) \in DOMAIN Tag \union {"other"}
  BY DEF Named
<1>2. Format!Tags = AllTags
  BY DEF Format!Tags, AllTags, Tag, Format!TagCode
<1> QED BY <1>1, <1>2 DEF AllTags

(***************************************************************************)
(* Values.                                                                 *)
(***************************************************************************)

\* The sizes that PassData has are those of DWARF.
LEMMA OctetsAre ==
  /\ Format!Octets = Bytes /\ Format!SizeOctets = BlockBytes
  /\ \A form \in DOMAIN Bytes : Bytes[form] \in Nat /\ (form # "flag_present" => Bytes[form] > 0)
  /\ \A form \in DOMAIN BlockBytes : BlockBytes[form] \in Nat /\ BlockBytes[form] > 0
  /\ \A form \in DOMAIN BlockBytes : form \notin DOMAIN Bytes
  /\ \A form \in {"block", "exprloc"} : form \notin DOMAIN Bytes /\ form \notin DOMAIN BlockBytes
  /\ \A form \in {"sdata", "udata", "ref_udata"} : form \notin DOMAIN Bytes /\ form \notin DOMAIN BlockBytes
  /\ "string" \notin DOMAIN Bytes /\ "string" \notin DOMAIN BlockBytes
<1>1. Format!Octets = Bytes
  BY DEF Format!Octets, Bytes
<1>2. Format!SizeOctets = BlockBytes
  BY DEF Format!SizeOctets, BlockBytes
<1>3. \A form \in DOMAIN Bytes : Bytes[form] \in Nat /\ (form # "flag_present" => Bytes[form] > 0)
  BY DEF Bytes
<1>4. \A form \in DOMAIN BlockBytes : BlockBytes[form] \in Nat /\ BlockBytes[form] > 0
  BY DEF BlockBytes
<1>5. \A form \in DOMAIN BlockBytes : form \notin DOMAIN Bytes
  BY DEF BlockBytes, Bytes
<1>6. \A form \in {"block", "exprloc"} : form \notin DOMAIN Bytes /\ form \notin DOMAIN BlockBytes
  BY DEF BlockBytes, Bytes
<1>7. \A form \in {"sdata", "udata", "ref_udata"} : form \notin DOMAIN Bytes /\ form \notin DOMAIN BlockBytes
  BY DEF BlockBytes, Bytes
<1>8. "string" \notin DOMAIN Bytes /\ "string" \notin DOMAIN BlockBytes
  BY DEF BlockBytes, Bytes
<1> QED BY <1>1, <1>2, <1>3, <1>4, <1>5, <1>6, <1>7, <1>8

\* A form is of one kind.
LEMMA KindsOfForms ==
  ASSUME NEW form
  PROVE  /\ form \in DOMAIN Bytes \/ form \in DOMAIN BlockBytes =>
              form \notin {"block", "exprloc", "sdata", "udata", "ref_udata", "string"}
         /\ form \in DOMAIN Bytes => form \notin DOMAIN BlockBytes
         /\ form \in {"block", "exprloc"} => form \notin {"sdata", "udata", "ref_udata", "string"}
         /\ form \in {"sdata", "udata", "ref_udata"} => form \notin {"block", "exprloc", "string"}
<1>1. form \in DOMAIN Bytes \/ form \in DOMAIN BlockBytes =>
        form \notin {"block", "exprloc", "sdata", "udata", "ref_udata", "string"}
  BY OctetsAre
<1> QED BY <1>1, OctetsAre

\* The places of a value, by its form.
Fixed(form, from, to) == form \in DOMAIN Bytes /\ to = from + Bytes[form]
Sized(bytes, form, from, to) ==
  /\ form \in DOMAIN BlockBytes /\ from + BlockBytes[form] <= to
  /\ to = (from + BlockBytes[form]) + Format!LittleEndian(bytes, from, from + BlockBytes[form])
Counted(bytes, form, from, to) ==
  /\ form \in {"block", "exprloc"}
  /\ \E data \in from .. to :
       Format!LebAt(bytes, from, data) /\ to = data + Format!LebValue(bytes, from, data)
Leb(bytes, form, from, to) ==
  form \in {"sdata", "udata", "ref_udata"} /\ Format!LebAt(bytes, from, to)
Text(bytes, form, from, to) ==
  /\ form = "string" /\ from < to /\ bytes[to] = 0
  /\ \A i \in from + 1 .. to - 1 : bytes[i] # 0

\* A value has one of the forms, and what that says of its place.
LEMMA ValueForms ==
  ASSUME NEW bytes, NEW form, NEW from, NEW to, Format!ValueAt(bytes, form, from, to)
  PROVE  \/ Fixed(form, from, to) \/ Sized(bytes, form, from, to)
         \/ Counted(bytes, form, from, to) \/ Leb(bytes, form, from, to)
         \/ Text(bytes, form, from, to)
<1>1. CASE form \in DOMAIN Bytes
  BY <1>1, OctetsAre, KindsOfForms DEF Format!ValueAt, Format!LebForms, Fixed
<1>2. CASE form \in DOMAIN BlockBytes
  BY <1>2, OctetsAre, KindsOfForms DEF Format!ValueAt, Format!LebForms, Sized
<1>3. CASE form \in {"block", "exprloc"}
  BY <1>3, OctetsAre, KindsOfForms DEF Format!ValueAt, Format!LebForms, Counted
<1>4. CASE form \in {"sdata", "udata", "ref_udata"}
  BY <1>4, OctetsAre, KindsOfForms DEF Format!ValueAt, Format!LebForms, Leb
<1>5. CASE form = "string"
  BY <1>5, OctetsAre, KindsOfForms DEF Format!ValueAt, Format!LebForms, Text
<1>6. CASE /\ form \notin DOMAIN Bytes /\ form \notin DOMAIN BlockBytes
           /\ form \notin {"block", "exprloc"} /\ form \notin {"sdata", "udata", "ref_udata"}
           /\ form # "string"
  BY <1>6, OctetsAre, KindsOfForms DEF Format!ValueAt, Format!LebForms
<1> QED BY <1>1, <1>2, <1>3, <1>4, <1>5, <1>6

\* Only a flag that is present takes no byte.
LEMMA ValueOrder ==
  ASSUME NEW bytes, NEW form, NEW from \in Nat, NEW to \in Nat,
         Format!ValueAt(bytes, form, from, to)
  PROVE  from <= to /\ (form # "flag_present" => from < to)
<1>1. CASE Fixed(form, from, to)
  BY <1>1, OctetsAre DEF Fixed
<1>2. CASE Sized(bytes, form, from, to)
  <2>1. BlockBytes[form] \in Nat /\ BlockBytes[form] > 0 /\ from + BlockBytes[form] <= to
    BY <1>2, OctetsAre DEF Sized
  <2> QED BY <2>1
<1>3. CASE Counted(bytes, form, from, to)
  <2>1. PICK data \in from .. to : Format!LebAt(bytes, from, data)
    BY <1>3 DEF Counted
  <2>2. from < data
    BY <2>1 DEF Format!LebAt
  <2> QED BY <2>1, <2>2
<1>4. CASE Leb(bytes, form, from, to)
  BY <1>4 DEF Leb, Format!LebAt
<1>5. CASE Text(bytes, form, from, to)
  BY <1>5 DEF Text
<1> QED BY <1>1, <1>2, <1>3, <1>4, <1>5, ValueForms

\* Unsigned is LittleEndian of the bytes it reads.
LEMMA UnsignedIs ==
  ASSUME NEW at, NEW size PROVE Unsigned(at, size) = Format!LittleEndian(file.info, at, at + size)
BY DEF Unsigned, Format!LittleEndian

\* Where the walk reads.
Reading ==
  /\ Readables(file.info) /\ info \in Nat /\ info <= Len(file.info)
  /\ info_bytes = Len(file.info) - info

\* The number at info, when one lies there.
LEMMA NumberHere ==
  ASSUME Reading, NEW to \in Nat, Format!LebAt(file.info, info, to)
  PROVE  /\ Number.length = to - info
         /\ NumberFits(file.info, info, to) => Number.result = Format!LebValue(file.info, info, to)
         /\ info < to /\ to <= Len(file.info)
<1>1. info < to /\ to <= Len(file.info) /\ Len(file.info) \in Nat /\ info \in Nat
  BY DEF Format!LebAt, Reading, Readables
<1>2. info_bytes \in Nat /\ to - info <= info_bytes
  BY <1>1 DEF Reading
<1>3. Understood(file.info, info, to, info_bytes)
  BY <1>1, <1>2, NumberUnderstood DEF Reading, Readables
<1> QED BY <1>1, <1>3 DEF Understood, Number

\* The text at info.
LEMMA TextHere ==
  ASSUME Reading, NEW to \in Nat, Text(file.info, "string", info, to), to <= Len(file.info)
  PROVE  ZeroFrom(file.info, info) - info + 1 = to - info
<1> DEFINE z == to - 1
<1>1. info \in Nat /\ Len(file.info) \in Nat /\ info < to
  BY DEF Reading, Readables, Text
<1>2. z \in info .. Len(file.info) - 1 /\ z + 1 = to
  BY <1>1
<1>3. \A i \in info + 1 .. z : file.info[i] # 0
  BY DEF Text
<1>4. file.info[z + 1] = 0
  BY <1>2 DEF Text
<1> HIDE DEF z
<1>5. ZeroFrom(file.info, info) = z
  BY <1>1, <1>2, <1>3, <1>4, ZeroFromIs
<1> QED BY <1>1, <1>5 DEF z

\* PassData knows how long a value is.
LEMMA ValuePassed ==
  ASSUME Reading, NEW form, NEW to \in Nat, to <= Len(file.info),
         Format!ValueAt(file.info, form, info, to),
         form \in {"block", "exprloc"} => NumbersFit(file.info, info)
  PROVE  PassData(form) = to - info
<1>1. info \in Nat /\ Len(file.info) \in Nat
  BY DEF Reading, Readables
<1>2. CASE Fixed(form, info, to)
  <2>1. PassData(form) = Bytes[form]
    BY <1>2, KindsOfForms DEF Fixed, PassData
  <2>2. Bytes[form] \in Nat /\ to = info + Bytes[form]
    BY <1>2, OctetsAre DEF Fixed
  <2> QED BY <1>1, <2>1, <2>2
<1>3. CASE Sized(file.info, form, info, to)
  <2> DEFINE n == BlockBytes[form]
             v == Unsigned(info, n)
  <2>1. form \in DOMAIN BlockBytes /\ form \notin DOMAIN Bytes /\ n \in Nat
    BY <1>3, OctetsAre DEF Sized
  <2>2. PassData(form) = n + v
    BY <2>1, KindsOfForms DEF PassData
  <2>3. v = Format!LittleEndian(file.info, info, info + n)
    BY UnsignedIs
  <2>4. info + n <= to /\ to = (info + n) + v
    BY <1>3, <2>3 DEF Sized
  <2>5. v \in Nat
    <3> HIDE DEF n, v
    <3>1. info + n \in Nat /\ info <= info + n /\ info + n <= Len(file.info)
      BY <1>1, <2>1, <2>4
    <3>2. \A i \in info + 1 .. info + n : i \in 1 .. Len(file.info)
      BY <1>1, <2>1, <3>1
    <3>3. \A i \in info + 1 .. info + n : file.info[i] \in Nat
      BY <3>2 DEF Reading, Readables
    <3> QED BY <1>1, <2>3, <3>1, <3>3, LittleEndianIs
  <2> HIDE DEF n, v
  <2> QED BY <1>1, <2>1, <2>2, <2>4, <2>5
<1>4. CASE Counted(file.info, form, info, to)
  <2>1. PICK data \in info .. to :
          Format!LebAt(file.info, info, data) /\ to = data + Format!LebValue(file.info, info, data)
    BY <1>4 DEF Counted
  <2>2. form \in {"block", "exprloc"} /\ form \notin DOMAIN BlockBytes /\ form \notin DOMAIN Bytes
    BY <1>4, OctetsAre DEF Counted
  <2>3. data \in Nat /\ data \in info .. Len(file.info)
    BY <1>1, <2>1
  <2>4. NumberFits(file.info, info, data)
    BY <2>1, <2>2, <2>3 DEF NumbersFit
  <2>5. Number.length = data - info /\ Number.result = Format!LebValue(file.info, info, data)
    BY <2>1, <2>3, <2>4, NumberHere
  <2>6. PassData(form) = Number.length + Number.result
    BY <2>2, KindsOfForms DEF PassData
  <2>7. Number.result \in Nat
    <3>1. \A i \in info + 1 .. data : i \in 1 .. Len(file.info)
      BY <1>1, <2>3
    <3>2. \A i \in info + 1 .. data : file.info[i] \in Nat
      BY <3>1 DEF Reading, Readables
    <3>3. info <= data
      BY <1>1, <2>3
    <3>4. PICK v : /\ v[info] = Format!LebValue(file.info, info, data)
                   /\ Horner(v, [i \in info + 1 .. data |-> file.info[i] % 128], 128, info, data)
      BY <1>1, <2>3, <3>2, <3>3, LebValueIs
    <3>5. info \in info .. data
      BY <1>1, <2>3
    <3> QED BY <2>5, <3>4, <3>5 DEF Horner
  <2> DEFINE n == Number.result
  <2>8. to = data + n /\ n \in Nat /\ PassData(form) = (data - info) + n
    BY <2>1, <2>5, <2>6, <2>7
  <2> HIDE DEF n
  <2> QED BY <1>1, <2>3, <2>8
<1>5. CASE Leb(file.info, form, info, to)
  <2>1. form \in {"sdata", "udata", "ref_udata"} /\ form \notin DOMAIN BlockBytes /\ form \notin DOMAIN Bytes
    BY <1>5, OctetsAre DEF Leb
  <2>2. PassData(form) = Number.length
    BY <2>1, KindsOfForms DEF PassData
  <2> QED BY <1>5, <2>2, NumberHere DEF Leb
<1>6. CASE Text(file.info, form, info, to)
  <2>1. form = "string"
    BY <1>6 DEF Text
  <2>2. PassData(form) = ZeroFrom(file.info, info) - info + 1
    BY <2>1, OctetsAre DEF PassData
  <2> QED BY <1>6, <2>1, <2>2, TextHere
<1> QED BY <1>2, <1>3, <1>4, <1>5, <1>6, ValueForms

\* The forms FormDataValue knows, and how many bytes it reads, against PassData.
LEMMA DataFormsAre ==
  /\ \A form \in DOMAIN DataBytes : form \in DOMAIN Bytes /\ (form # "flag_present" => DataBytes[form] = Bytes[form])
  /\ \A form \in DataForms : form \notin DOMAIN BlockBytes /\ form # "string" /\ form # "block"
  /\ \A form \in DataForms : form \in DOMAIN Bytes => form \in DOMAIN DataBytes
  /\ \A form \in {"sdata", "udata", "ref_udata", "exprloc"} : form \notin DOMAIN DataBytes
<1>1. /\ \A form \in DOMAIN DataBytes : form \in DOMAIN Bytes
      /\ \A form \in DOMAIN DataBytes : form # "flag_present" => DataBytes[form] = Bytes[form]
  BY DEF DataBytes, Bytes
<1>2. \A form \in DataForms : form \notin DOMAIN BlockBytes /\ form # "string" /\ form # "block"
  BY DEF DataForms, DataBytes, BlockBytes
<1>3. \A form \in DataForms : form \in DOMAIN Bytes => form \in DOMAIN DataBytes
  BY DEF DataForms, Bytes
<1>4. \A form \in {"sdata", "udata", "ref_udata", "exprloc"} : form \notin DOMAIN DataBytes
  BY DEF DataBytes
<1> QED BY <1>1, <1>2, <1>3, <1>4

Moved(base, S) == {base + n : n \in S}

\* What number a value is, form by form.
LEMMA NumberInIs ==
  ASSUME NEW bytes, NEW form, NEW from, NEW to
  PROVE  /\ form \in DOMAIN Bytes =>
              \/ Format!NumberIn(bytes, form, from, to) = {}
              \/ Format!NumberIn(bytes, form, from, to) = {Format!LittleEndian(bytes, from, to)}
         /\ form = "strp" =>
              Format!NumberIn(bytes, form, from, to) = {Format!LittleEndian(bytes, from, to)}
         /\ form \in {"sdata", "udata", "ref_udata"} =>
              \/ Format!NumberIn(bytes, form, from, to) = {}
              \/ Format!NumberIn(bytes, form, from, to) = {Format!LebValue(bytes, from, to)}
         /\ form \notin DOMAIN Bytes /\ form \notin {"sdata", "udata", "ref_udata"} =>
              Format!NumberIn(bytes, form, from, to) = {}
<1>1. \A x \in Format!ConstantForms \union Format!UnitReferenceForms \union {"ref_addr", "strp"} :
        x \in DOMAIN Bytes \/ x \in {"sdata", "udata", "ref_udata"}
  BY DEF Format!ConstantForms, Format!UnitReferenceForms, Bytes
<1>2. CASE form \in {"sdata", "udata", "ref_udata"}
  <2>1. form \notin DOMAIN Bytes /\ form # "strp"
    BY <1>2, OctetsAre
  <2>2. \/ Format!NumberIn(bytes, form, from, to) = {}
        \/ Format!NumberIn(bytes, form, from, to) = {Format!LebValue(bytes, from, to)}
    BY <1>2 DEF Format!NumberIn, Format!LebForms
  <2> QED BY <1>2, <2>1, <2>2
<1>3. CASE form \notin {"sdata", "udata", "ref_udata"}
  BY <1>1, <1>3 DEF Format!NumberIn, Format!LebForms
<1> QED BY <1>2, <1>3

\* What a value says of an attribute that is no name, by the class of its form.
LEMMA MeaningIs ==
  ASSUME NEW bytes, NEW a \in Attribute \ Names, NEW form, NEW from, NEW to, NEW unit,
         Format!Meaning(bytes, a, form, from, to, unit) # {}
  PROVE  /\ form # "flag_present"
         /\ Format!Meaning(bytes, a, form, from, to, unit)
              = Moved(IF a = "type" /\ form # "ref_addr" THEN unit ELSE 0,
                      Format!NumberIn(bytes, form, from, to))
<1>1. /\ "ref_addr" \notin Format!UnitReferenceForms
      /\ "flag_present" \notin Format!UnitReferenceForms \union Format!ConstantForms
  BY DEF Format!UnitReferenceForms, Format!ConstantForms
<1>2. a \in {"type", "byte_size", "count", "data_member_location"}
  BY DEF Attribute, Names
<1>3. CASE a = "type"
  BY <1>1, <1>3 DEF Format!Meaning, Moved
<1>4. CASE a # "type"
  BY <1>1, <1>2, <1>4 DEF Format!Meaning, Moved
<1> QED BY <1>3, <1>4

\* FormDataValue reads the number that a value is.
LEMMA DataRead ==
  ASSUME Reading, NEW form \in DataForms, form # "flag_present", NEW to \in Nat,
         to <= Len(file.info), Format!ValueAt(file.info, form, info, to),
         NumbersFit(file.info, info), Format!NumberIn(file.info, form, info, to) # {}
  PROVE  /\ FormDataValue(form) = [value |-> FormDataValue(form).value, length |-> to - info]
         /\ Format!NumberIn(file.info, form, info, to) = {FormDataValue(form).value}
<1>1. info \in Nat /\ Len(file.info) \in Nat
  BY DEF Reading, Readables
<1>2. CASE Fixed(form, info, to)
  <2>1. form \in DOMAIN DataBytes /\ DataBytes[form] = Bytes[form] /\ form \in DOMAIN Bytes
    BY <1>2, DataFormsAre DEF Fixed
  <2>2. FormDataValue(form) = [value |-> Unsigned(info, Bytes[form]), length |-> Bytes[form]]
    <3>1. form # "exprloc"
      BY <2>1, DataFormsAre
    <3> QED BY <2>1, <3>1 DEF FormDataValue
  <2>3. Bytes[form] \in Nat /\ to = info + Bytes[form]
    BY <1>2, OctetsAre DEF Fixed
  <2>4. Bytes[form] = to - info
    BY <1>1, <2>3
  <2>5. Unsigned(info, Bytes[form]) = Format!LittleEndian(file.info, info, to)
    BY <2>3, UnsignedIs
  <2>6. Format!NumberIn(file.info, form, info, to) = {Format!LittleEndian(file.info, info, to)}
    BY <2>1, NumberInIs
  <2> QED BY <2>2, <2>4, <2>5, <2>6
<1>3. CASE Sized(file.info, form, info, to)
  BY <1>3, DataFormsAre DEF Sized
<1>4. CASE Counted(file.info, form, info, to)
  BY <1>4, OctetsAre, KindsOfForms, NumberInIs DEF Counted
<1>5. CASE Leb(file.info, form, info, to)
  <2>1. form \in {"sdata", "udata", "ref_udata"}
    BY <1>5 DEF Leb
  <2>2. FormDataValue(form) = [value |-> Number.result, length |-> Number.length]
    <3>1. form # "exprloc" /\ form \notin DOMAIN DataBytes
      BY <2>1, DataFormsAre
    <3> QED BY <3>1 DEF FormDataValue
  <2>3. NumberFits(file.info, info, to)
    <3>1. to \in info .. Len(file.info) /\ Format!LebAt(file.info, info, to)
      BY <1>1, <1>5 DEF Leb, Format!LebAt
    <3> QED BY <3>1 DEF NumbersFit
  <2>4. Number.length = to - info /\ Number.result = Format!LebValue(file.info, info, to)
    BY <1>5, <2>3, NumberHere DEF Leb
  <2>5. Format!NumberIn(file.info, form, info, to) = {Format!LebValue(file.info, info, to)}
    BY <2>1, NumberInIs
  <2> QED BY <2>2, <2>4, <2>5
<1>6. CASE Text(file.info, form, info, to)
  BY <1>6, DataFormsAre DEF Text
<1> QED BY <1>2, <1>3, <1>4, <1>5, <1>6, ValueForms

\* An attribute that reaches the builder has the value that is encoded.
LEMMA AttributeValueIs ==
  ASSUME Reading, NEW u, unit_hdr = u.at, NEW a \in Attribute, NEW form,
         NEW to \in Nat, to <= Len(file.info), Format!ValueAt(file.info, form, info, to),
         ValueReadable(file, u, <<a, form>>, info, to),
         form # "ref_sig8", a \in Names \/ form \in DataForms,
         u.at \in Nat, \A n \in Format!NumberIn(file.info, form, info, to) : n \in Nat
  PROVE  /\ AttributeValue(a, form).length = to - info
         /\ Format!Meaning(file.info, a, form, info, to, u.at) = {AttributeValue(a, form).value}
<1>1. info \in Nat /\ Len(file.info) \in Nat
  BY DEF Reading, Readables
<1>2. /\ a \in Names => form \in {"string", "strp"}
      /\ a \notin Names => Format!Meaning(file.info, a, form, info, to, u.at) # {}
      /\ NumbersFit(file.info, info)
  BY DEF ValueReadable
<1>3. CASE a \in Names /\ form = "string"
  <2>1. AttributeValue(a, form)
          = [value |-> InfoAddress + info, length |-> ZeroFrom(file.info, info) - info + 1]
    BY <1>3 DEF AttributeValue, FormStringValue
  <2>2. Text(file.info, "string", info, to)
    BY <1>3, ValueForms, OctetsAre DEF Fixed, Sized, Counted, Leb
  <2> QED BY <1>3, <2>1, <2>2, TextHere DEF Names, Format!Meaning
<1>4. CASE a \in Names /\ form = "strp"
  <2>1. AttributeValue(a, form) = [value |-> StrAddress + Unsigned(info, 4), length |-> 4]
    BY <1>4 DEF AttributeValue, FormStringValue
  <2>2. form = "strp" /\ form \in DOMAIN Bytes /\ Bytes[form] = 4
    BY <1>4 DEF Bytes
  <2>3. to = info + 4
    BY <2>2, ValueForms, KindsOfForms DEF Fixed, Sized, Counted, Leb, Text
  <2>4. Unsigned(info, 4) = Format!LittleEndian(file.info, info, to)
    BY <2>3, UnsignedIs
  <2>5. Format!NumberIn(file.info, form, info, to) = {Format!LittleEndian(file.info, info, to)}
    BY <2>2, NumberInIs
  <2>6. Format!Meaning(file.info, a, form, info, to, u.at)
          = Moved(StrAddress, Format!NumberIn(file.info, form, info, to))
    BY <1>4 DEF Names, Format!Meaning, Moved
  <2>7. 4 = to - info
    BY <1>1, <2>3
  <2> QED BY <2>1, <2>4, <2>5, <2>6, <2>7 DEF Moved
<1>5. CASE a \notin Names
  <2> DEFINE N == Format!NumberIn(file.info, form, info, to)
             x == FormDataValue(form).value
  <2> DEFINE base == IF a = "type" /\ form # "ref_addr" THEN unit_hdr ELSE 0
  <2>1. /\ form # "flag_present"
        /\ Format!Meaning(file.info, a, form, info, to, u.at) = Moved(base, N)
    BY <1>2, <1>5, MeaningIs
  <2>2. N # {} /\ form \in DataForms /\ form # "flag_present"
    BY <1>2, <1>5, <2>1 DEF Moved
  <2>3. FormDataValue(form) = [value |-> x, length |-> to - info] /\ N = {x}
    BY <1>2, <2>2, DataRead
  <2>4. x \in Nat
    BY <2>3
  <2> HIDE DEF N, x
  <2>5. CASE a = "type" /\ form # "ref_addr"
    <3>1. AttributeValue(a, form) = [FormDataValue(form) EXCEPT !.value = @ + unit_hdr]
      BY <1>5, <2>5 DEF AttributeValue
    <3>2. AttributeValue(a, form) = [value |-> x + unit_hdr, length |-> to - info]
      BY <2>3, <3>1
    <3>3. base + x = x + unit_hdr
      BY <2>4, <2>5
    <3> HIDE DEF base
    <3> QED BY <2>1, <2>3, <3>2, <3>3 DEF Moved
  <2>6. CASE ~(a = "type" /\ form # "ref_addr")
    <3>1. AttributeValue(a, form) = FormDataValue(form)
      BY <1>5, <2>6 DEF AttributeValue
    <3>2. base + x = x
      BY <2>4, <2>6
    <3> HIDE DEF base
    <3> QED BY <2>1, <2>3, <3>1, <3>2 DEF Moved
  <2> QED BY <2>5, <2>6
<1> QED BY <1>2, <1>3, <1>4, <1>5

(***************************************************************************)
(* The layout of a section that is well encoded and readable.              *)
(***************************************************************************)

\* Places in order are in order at a distance.
LEMMA Ascending ==
  ASSUME NEW n \in Nat, NEW p, \A j \in 1 .. n + 1 : p[j] \in Nat,
         \A j \in 1 .. n : p[j] <= p[j + 1]
  PROVE  \A i, j \in 1 .. n + 1 : i <= j => p[i] <= p[j]
<1> DEFINE Good == {m \in 0 .. n : \A i \in 1 .. n + 1 : i + m <= n + 1 => p[i] <= p[i + m]}
<1>1. 0 \in Good
  OBVIOUS
<1>2. ASSUME NEW m \in 1 .. n, m - 1 \in Good PROVE m \in Good
  <2>1. ASSUME NEW i \in 1 .. n + 1, i + m <= n + 1 PROVE p[i] <= p[i + m]
    <3>1. /\ i + (m - 1) \in 1 .. n /\ i + (m - 1) <= n + 1
          /\ (i + (m - 1)) + 1 = i + m /\ i + m \in 1 .. n + 1 /\ i + (m - 1) \in 1 .. n + 1
      BY <2>1
    <3>2. p[i] <= p[i + (m - 1)]
      BY <1>2, <3>1
    <3>3. p[i + (m - 1)] <= p[i + m]
      BY <3>1
    <3>4. p[i] \in Nat /\ p[i + (m - 1)] \in Nat /\ p[i + m] \in Nat
      BY <3>1
    <3> QED BY <3>2, <3>3, <3>4
  <2> QED BY <2>1
<1>3. Good = 0 .. n
  <2>1. Good \in SUBSET (0 .. n)
    OBVIOUS
  <2> HIDE DEF Good
  <2> QED BY <1>1, <1>2, <2>1, StepByStep
<1>4. ASSUME NEW i \in 1 .. n + 1, NEW j \in 1 .. n + 1, i <= j PROVE p[i] <= p[j]
  <2>1. j - i \in 0 .. n /\ i + (j - i) = j /\ i + (j - i) <= n + 1
    BY <1>4
  <2>2. j - i \in Good
    <3> HIDE DEF Good
    <3> QED BY <1>3, <2>1
  <2> QED BY <2>1, <2>2
<1> QED BY <1>4

Legible(f) == Format!Encoded(f) /\ Readable(f) /\ Len(f.dies) <= MaxDies

\* The sections are bytes, and not too many.
LEMMA BytesAre ==
  ASSUME NEW f, Legible(f)
  PROVE  /\ Readables(f.info) /\ Readables(f.abbrev)
         /\ Len(f.info) < SizeBound /\ Len(f.abbrev) < SizeBound
<1>1. f.info \in Seq(Format!Byte) /\ f.abbrev \in Seq(Format!Byte)
  BY DEF Legible, Format!Encoded
<1>2. Format!Byte \subseteq Nat
  BY DEF Format!Byte
<1>3. Readables(f.info) /\ Readables(f.abbrev)
  <2>1. /\ \A i \in 1 .. Len(f.info) : f.info[i] \in Format!Byte
        /\ \A i \in 1 .. Len(f.abbrev) : f.abbrev[i] \in Format!Byte
        /\ Len(f.info) \in Nat /\ Len(f.abbrev) \in Nat
    BY <1>1, ElementOfSeq, LenProperties
  <2> QED BY <1>2, <2>1 DEF Readables
<1> QED BY <1>3 DEF Legible, Readable

\* A number in .debug_abbrev is understood, and not cut short by the bytes counted.
LEMMA AbbrevNumber ==
  ASSUME NEW f, Legible(f), NEW from \in Nat, NEW to \in Nat, Format!LebAt(f.abbrev, from, to),
         NEW available \in Nat, Len(f.abbrev) - from <= available
  PROVE  /\ ULEB128(f.abbrev, from, available).length = to - from
         /\ ULEB128(f.abbrev, from, available).result = Format!LebValue(f.abbrev, from, to)
         /\ from < to /\ to <= Len(f.abbrev)
<1>1. Readables(f.abbrev) /\ Len(f.abbrev) \in Nat
  BY BytesAre DEF Readables
<1>2. from \in 0 .. Len(f.abbrev) /\ to \in from .. Len(f.abbrev)
  BY <1>1 DEF Format!LebAt
<1>3. NumberFits(f.abbrev, from, to)
  BY <1>2 DEF Legible, Readable, NumbersFit
<1> QED BY <1>1, <1>3, NumberAt

\* What a unit is made of.
LEMMA UnitIs ==
  ASSUME NEW f, Legible(f), NEW n \in 1 .. Len(f.units), NEW u, u = f.units[n]
  PROVE  /\ u.at \in Nat /\ u.end \in Nat /\ u.table \in 1 .. Len(f.tables)
         /\ Len(u.entries) \in Nat \ {0}
         /\ \A k \in 1 .. Len(u.entries) + 1 : u.places[k] \in Nat /\ u.places[k] <= u.end
         /\ u.end <= Len(f.info) /\ u.places[1] = u.at + 11
         /\ \A k \in 1 .. Len(u.entries) :
              /\ u.entries[k] \in Format!EntryLayout
              /\ Format!EntryEncoded(f, u, u.entries[k], u.places[k], u.places[k + 1])
              /\ EntryReadable(f, u, u.entries[k], u.places[k])
         /\ Format!UnitEncoded(f, u)
         /\ Len(f.units) \in Nat
<1>1. f.units \in Seq(Format!UnitLayout) /\ Format!UnitEncoded(f, u)
  BY DEF Legible, Format!Encoded
<1>2. u \in Format!UnitLayout /\ Len(f.units) \in Nat
  BY <1>1, ElementOfSeq, LenProperties
<1>3. /\ u.at \in Nat /\ u.end \in Nat /\ u.entries \in Seq(Format!EntryLayout)
  BY <1>2 DEF Format!UnitLayout
<1>4. Len(u.entries) \in Nat /\ \A k \in 1 .. Len(u.entries) : u.entries[k] \in Format!EntryLayout
  BY <1>3, ElementOfSeq, LenProperties
<1>5. /\ u.end <= Len(f.info) /\ u.table \in 1 .. Len(f.tables) /\ Len(u.entries) > 0
      /\ Format!Laid(u.places, Len(u.entries), u.at + 11, u.end)
      /\ u.places[1] = u.at + 11
      /\ \A k \in 1 .. Len(u.entries) :
           Format!EntryEncoded(f, u, u.entries[k], u.places[k], u.places[k + 1])
  BY <1>1 DEF Format!UnitEncoded, Format!HeaderEncoded, Format!HeaderBytes
<1>6. \A k \in 1 .. Len(u.entries) + 1 : u.places[k] \in Nat /\ u.places[k] <= u.end
  <2>1. \A k \in 1 .. Len(u.entries) + 1 : u.places[k] \in u.at + 11 .. u.end
    BY <1>5 DEF Format!Laid
  <2> QED BY <1>3, <2>1
<1>7. \A k \in 1 .. Len(u.entries) : EntryReadable(f, u, u.entries[k], u.places[k])
  BY DEF Legible, Readable
<1>8. Len(u.entries) \in Nat \ {0}
  BY <1>4, <1>5
<1> QED BY <1>1, <1>2, <1>3, <1>4, <1>5, <1>6, <1>7, <1>8

\* What a table is made of.
LEMMA TableIs ==
  ASSUME NEW f, Legible(f), NEW t \in 1 .. Len(f.tables), NEW T, T = f.tables[t]
  PROVE  /\ Len(T.declarations) \in Nat
         /\ \A i \in 1 .. Len(T.declarations) + 1 :
              T.places[i] \in Nat /\ T.places[i] < Len(f.abbrev)
         /\ f.abbrev[T.places[Len(T.declarations) + 1] + 1] = 0
         /\ \A i \in 1 .. Len(T.declarations) :
              /\ T.declarations[i] \in Format!DeclarationLayout
              /\ Format!DeclarationEncoded(f.abbrev, T.declarations[i], T.places[i], T.places[i + 1])
              /\ Format!DeclarationSound(T.declarations[i])
              /\ DeclarationReadable(f.abbrev, T.declarations[i])
<1>1. f.tables \in Seq(Format!TableLayout) /\ Format!TableEncoded(f.abbrev, T)
  BY DEF Legible, Format!Encoded
<1>2. T \in Format!TableLayout
  BY <1>1, ElementOfSeq
<1>3. T.declarations \in Seq(Format!DeclarationLayout)
  BY <1>2 DEF Format!TableLayout
<1>4. /\ Len(T.declarations) \in Nat
      /\ \A i \in 1 .. Len(T.declarations) : T.declarations[i] \in Format!DeclarationLayout
  BY <1>3, ElementOfSeq, LenProperties
<1>5. Len(f.abbrev) \in Nat
  BY BytesAre DEF Readables
<1>6. /\ f.abbrev[T.places[Len(T.declarations) + 1] + 1] = 0
      /\ Format!Laid(T.places, Len(T.declarations), 0, Len(f.abbrev) - 1)
      /\ \A i \in 1 .. Len(T.declarations) :
           /\ Format!DeclarationEncoded(f.abbrev, T.declarations[i], T.places[i], T.places[i + 1])
           /\ Format!DeclarationSound(T.declarations[i])
  BY <1>1 DEF Format!TableEncoded
<1>7. \A i \in 1 .. Len(T.declarations) + 1 : T.places[i] \in Nat /\ T.places[i] < Len(f.abbrev)
  <2>1. \A i \in 1 .. Len(T.declarations) + 1 : T.places[i] \in 0 .. Len(f.abbrev) - 1
    BY <1>6 DEF Format!Laid
  <2> QED BY <1>5, <2>1
<1>8. \A i \in 1 .. Len(T.declarations) : DeclarationReadable(f.abbrev, T.declarations[i])
  BY DEF Legible, Readable
<1> QED BY <1>4, <1>6, <1>7, <1>8

\* The parts of a declaration.
\* The attributes of a declaration and their forms.
SpecsAre(D) ==
  \A j \in 1 .. Len(D.specs) : /\ D.specs[j] = <<D.specs[j][1], D.specs[j][2]>>
                               /\ D.specs[j][1] \in Attribute \union {"other"}

\* The list of a declaration ends with the first zero byte, and with two of them.
DeclarationEnds(f, T, i, D) ==
  LET last == D.places[Len(D.specs) + 1] IN
  /\ T.places[i + 1] = last + 2 /\ f.abbrev[last + 1] = 0 /\ f.abbrev[last + 2] = 0
  /\ \A b \in D.places[1] + 1 .. last : f.abbrev[b] # 0

\* What a declaration is made of.
LEMMA DeclarationIs ==
  ASSUME NEW f, Legible(f), NEW t \in 1 .. Len(f.tables), NEW T, T = f.tables[t],
         NEW i \in 1 .. Len(T.declarations), NEW D, D = T.declarations[i]
  PROVE  /\ D.code \in Nat \ {0} /\ D.tag \in AllTags /\ D.children \in BOOLEAN
         /\ Len(D.specs) \in Nat
         /\ SpecsAre(D)
         /\ \A j \in 1 .. Len(D.specs) + 1 : D.places[j] \in Nat /\ D.places[j] + 2 <= Len(f.abbrev)
         /\ D.places[1] <= D.places[Len(D.specs) + 1]
         /\ \A j \in 1 .. Len(D.specs) :
              Format!SpecEncoded(f.abbrev, D.specs[j], D.places[j], D.places[j + 1])
         /\ Format!HeadEncoded(f.abbrev, D, T.places[i])
         /\ DeclarationEnds(f, T, i, D)
<1> DEFINE n == Len(D.specs)
           last == D.places[Len(D.specs) + 1]
<1>1. /\ D \in Format!DeclarationLayout
      /\ Format!DeclarationEncoded(f.abbrev, D, T.places[i], T.places[i + 1])
      /\ DeclarationReadable(f.abbrev, D)
  BY TableIs
<1>2. /\ D.code \in Nat \ {0} /\ D.tag \in AllTags /\ D.children \in BOOLEAN
      /\ D.specs \in Seq((Attribute \union {"other"}) \X Format!Forms)
  BY <1>1, AttributesAre, TagsTyped DEF Format!DeclarationLayout
<1>3. /\ n \in Nat /\ \A j \in 1 .. n : D.specs[j] \in (Attribute \union {"other"}) \X Format!Forms
  BY <1>2, ElementOfSeq, LenProperties
<1>4. \A j \in 1 .. n : /\ D.specs[j] = <<D.specs[j][1], D.specs[j][2]>>
                        /\ D.specs[j][1] \in Attribute \union {"other"}
  BY <1>3
<1>5. /\ Format!Laid(D.places, n, T.places[i], T.places[i + 1])
      /\ Format!HeadEncoded(f.abbrev, D, T.places[i])
      /\ \A j \in 1 .. n : Format!SpecEncoded(f.abbrev, D.specs[j], D.places[j], D.places[j + 1])
      /\ T.places[i + 1] = last + 2 /\ f.abbrev[last + 1] = 0 /\ f.abbrev[last + 2] = 0
  BY <1>1 DEF Format!DeclarationEncoded
<1>6. /\ T.places[i] \in Nat /\ T.places[i + 1] \in Nat /\ T.places[i + 1] < Len(f.abbrev)
      /\ Len(f.abbrev) \in Nat
  <2>1. Len(T.declarations) \in Nat /\ i \in 1 .. Len(T.declarations) + 1 /\ i + 1 \in 1 .. Len(T.declarations) + 1
    BY TableIs
  <2> QED BY <2>1, TableIs, BytesAre DEF Readables
<1>7. \A j \in 1 .. n + 1 : D.places[j] \in T.places[i] .. T.places[i + 1]
  BY <1>5 DEF Format!Laid
<1> HIDE DEF n
<1>8. \A j \in 1 .. n : D.places[j] <= D.places[j + 1]
  <2>1. ASSUME NEW j \in 1 .. n PROVE D.places[j] <= D.places[j + 1]
    <3>1. D.places[j] \in Nat /\ D.places[j + 1] \in Nat
      <4>1. j \in 1 .. n + 1 /\ j + 1 \in 1 .. n + 1
        BY <1>3
      <4>2. D.places[j] \in T.places[i] .. T.places[i + 1]
        BY <1>7, <4>1
      <4>3. D.places[j + 1] \in T.places[i] .. T.places[i + 1]
        BY <1>7, <4>1
      <4>4. \A a, b \in Nat : \A c \in a .. b : c \in Nat
        OBVIOUS
      <4> QED BY <1>6, <4>2, <4>3, <4>4, Zenon
    <3>2. PICK form_at \in D.places[j] .. D.places[j + 1] : TRUE
      BY <1>5 DEF Format!SpecEncoded
    <3> QED BY <3>1, <3>2
  <2> QED BY <2>1
<1>9. \A j \in 1 .. n + 1 : D.places[j] \in Nat
  BY <1>6, <1>7
<1>10. \A j, k \in 1 .. n + 1 : j <= k => D.places[j] <= D.places[k]
  BY <1>3, <1>8, <1>9, Ascending
<1>11. 1 \in 1 .. n + 1 /\ n + 1 \in 1 .. n + 1 /\ 1 <= n + 1 /\ \A j \in 1 .. n + 1 : j <= n + 1
  BY <1>3
<1>12. D.places[1] <= D.places[n + 1]
  BY <1>10, <1>11
<1>13. \A j \in 1 .. n + 1 : D.places[j] + 2 <= Len(f.abbrev)
  <2>1. \A j \in 1 .. n + 1 : D.places[j] <= D.places[n + 1]
    BY <1>10, <1>11
  <2>2. D.places[n + 1] + 2 < Len(f.abbrev) /\ D.places[n + 1] \in Nat
    <3>1. last = D.places[n + 1]
      BY DEF n
    <3> QED BY <1>5, <1>6, <1>9, <1>11, <3>1
  <2>3. ASSUME NEW j \in 1 .. n + 1 PROVE D.places[j] + 2 <= Len(f.abbrev)
    <3>1. D.places[j] \in Nat /\ D.places[j] <= D.places[n + 1]
      BY <1>9, <2>1
    <3>2. \A x, y, z \in Nat : x <= y /\ y + 2 < z => x + 2 <= z
      OBVIOUS
    <3> QED BY <1>6, <2>2, <3>1, <3>2
  <2> QED BY <2>3
<1>14. \A b \in D.places[1] + 1 .. last : f.abbrev[b] # 0
  BY <1>1 DEF DeclarationReadable
<1>15. DeclarationEnds(f, T, i, D)
  BY <1>5, <1>14 DEF DeclarationEnds
<1>16. SpecsAre(D)
  BY <1>4 DEF SpecsAre, n
<1> QED BY <1>2, <1>3, <1>5, <1>9, <1>12, <1>13, <1>15, <1>16 DEF n

\* Entry k of unit n of section f lies between from and to.
EntryAt(f, n, u, k, e, from, to) ==
  /\ n \in 1 .. Len(f.units) /\ u = f.units[n]
  /\ k \in 1 .. Len(u.entries) /\ e = u.entries[k]
  /\ from = u.places[k] /\ to = u.places[k + 1]

\* D is the declaration of entry e.
DeclaredBy(f, u, e, D) == D = f.tables[u.table].declarations[e.declaration]

\* An entry, whatever it is, begins with a number that can be read.
LEMMA EntryIs ==
  ASSUME NEW f, Legible(f), NEW n, NEW u, NEW k, NEW e, NEW from, NEW to,
         EntryAt(f, n, u, k, e, from, to)
  PROVE  /\ from \in Nat /\ to \in Nat /\ e.places[1] \in Nat /\ e.declaration \in Nat
         /\ from < e.places[1] /\ e.places[1] <= to /\ to <= u.end /\ to <= Len(f.info)
         /\ Format!LebAt(f.info, from, e.places[1]) /\ NumberFits(f.info, from, e.places[1])
         /\ EntryReadable(f, u, e, from)
         /\ \/ Format!NullEncoded(f, u, e, from, to)
            \/ Format!DieEntryEncoded(f, u, e, from, to)
            \/ Format!UnknownEncoded(f, u, e, from, to)
<1> DEFINE count == Len(u.entries)
<1>1. /\ n \in 1 .. Len(f.units) /\ u = f.units[n] /\ k \in 1 .. count /\ e = u.entries[k]
      /\ from = u.places[k] /\ to = u.places[k + 1]
  BY DEF EntryAt
<1>2. count \in Nat /\ k \in 1 .. count + 1 /\ k + 1 \in 1 .. count + 1
  <2>1. count \in Nat
    BY <1>1, UnitIs
  <2> HIDE DEF count
  <2> QED BY <1>1, <2>1
<1>3. /\ from \in Nat /\ to \in Nat /\ to <= u.end /\ u.end <= Len(f.info) /\ u.end \in Nat
      /\ e \in Format!EntryLayout /\ Format!EntryEncoded(f, u, e, from, to)
      /\ EntryReadable(f, u, e, from) /\ u.table \in 1 .. Len(f.tables)
  BY <1>1, <1>2, UnitIs
<1>4. /\ Format!LebAt(f.info, from, e.places[1])
      /\ \/ Format!NullEncoded(f, u, e, from, to)
         \/ Format!DieEntryEncoded(f, u, e, from, to)
         \/ Format!UnknownEncoded(f, u, e, from, to)
  BY <1>3 DEF Format!EntryEncoded
<1>5. NumberFits(f.info, from, e.places[1])
  BY <1>3 DEF EntryReadable
<1>6. e.declaration \in Nat
  BY <1>3 DEF Format!EntryLayout
<1>7. e.places[1] \in from .. to
  <2>1. CASE Format!NullEncoded(f, u, e, from, to)
    <3>1. Format!Laid(e.places, 0, from, to)
      BY <2>1 DEF Format!NullEncoded
    <3> QED BY <3>1 DEF Format!Laid
  <2>2. CASE Format!DieEntryEncoded(f, u, e, from, to)
    <3> DEFINE D == f.tables[u.table].declarations[e.declaration]
               m == Len(D.specs)
    <3>1. /\ Format!Laid(e.places, m, from, to)
          /\ e.declaration \in 1 .. Len(f.tables[u.table].declarations)
      BY <2>2 DEF Format!DieEntryEncoded
    <3>2. m \in Nat
      BY <1>3, <3>1, DeclarationIs
    <3> HIDE DEF D, m
    <3>3. 1 \in 1 .. m + 1
      BY <3>2
    <3> QED BY <3>1, <3>3 DEF Format!Laid
  <2>3. CASE Format!UnknownEncoded(f, u, e, from, to)
    BY <2>3 DEF Format!UnknownEncoded
  <2> QED BY <1>4, <2>1, <2>2, <2>3
<1>8. e.places[1] \in Nat /\ from < e.places[1] /\ e.places[1] <= to
  BY <1>3, <1>4, <1>7 DEF Format!LebAt
<1>9. to <= Len(f.info)
  <2>1. Len(f.info) \in Nat
    BY BytesAre DEF Readables
  <2> QED BY <1>3, <2>1
<1> QED BY <1>3, <1>4, <1>5, <1>6, <1>8, <1>9

\* How the values of DIE d lie in entry e, which its declaration D describes.
ValuesLaid(f, u, e, D, d) ==
  /\ Len(D.specs) \in Nat
  /\ \A j \in 1 .. Len(D.specs) + 1 : e.places[j] \in Nat
  /\ \A i, j \in 1 .. Len(D.specs) + 1 : i <= j => e.places[i] <= e.places[j]
  /\ \A j \in 1 .. Len(D.specs) :
       /\ Format!ValueAt(f.info, D.specs[j][2], e.places[j], e.places[j + 1])
       /\ ValueReadable(f, u, D.specs[j], e.places[j], e.places[j + 1])
       /\ D.specs[j][1] \in Attribute =>
            /\ f.dies[d].attrs[D.specs[j][1]]
                 = Format!Meaning(f.info, D.specs[j][1], D.specs[j][2],
                                  e.places[j], e.places[j + 1], u.at)
            /\ f.dies[d].ends[D.specs[j][1]] = e.places[j + 1]
            /\ e.places[j] < e.places[j + 1]
  /\ \A a \in Attribute :
       (\A j \in 1 .. Len(D.specs) : D.specs[j][1] # a) =>
         f.dies[d].attrs[a] = {} /\ f.dies[d].ends[a] = 0

\* Entry e, from from to to, is a DIE that D describes.
DieThere(f, u, e, D, from, to) ==
  /\ e.declaration \in 1 .. Len(f.tables[u.table].declarations)
  /\ to = e.places[Len(D.specs) + 1]
  /\ Format!LebValue(f.info, from, e.places[1]) = D.code
  /\ \A j \in 1 .. Len(D.specs) + 1 : e.places[j] \in from + 1 .. to
  /\ \E d : /\ Begins(f, d, from, to) /\ ValuesLaid(f, u, e, D, d)
            /\ Format!DieEncoded(f, u, e, D, d, from)

\* What the entry of a DIE is made of.
LEMMA DieEntryIs ==
  ASSUME NEW f, Legible(f), NEW n, NEW u, NEW k, NEW e, NEW from, NEW to,
         EntryAt(f, n, u, k, e, from, to), Format!DieEntryEncoded(f, u, e, from, to),
         NEW D, DeclaredBy(f, u, e, D)
  PROVE  DieThere(f, u, e, D, from, to)
<1> DEFINE m == Len(D.specs)
<1>1. /\ e.declaration \in 1 .. Len(f.tables[u.table].declarations)
      /\ Format!Laid(e.places, m, from, to) /\ to = e.places[m + 1]
      /\ Format!LebValue(f.info, from, e.places[1]) = D.code
      /\ Format!Closed(f, from, to) = {}
  BY DEF Format!DieEntryEncoded, DeclaredBy
<1>2. PICK d \in Format!DiesOf(f) :
        Format!Begun(f, from, to) = {d} /\ Format!DieEncoded(f, u, e, D, d, from)
  BY DEF Format!DieEntryEncoded, DeclaredBy
<1>3. u.table \in 1 .. Len(f.tables)
  BY UnitIs DEF EntryAt
<1>4. m \in Nat
  BY <1>1, <1>3, DeclarationIs DEF DeclaredBy
<1> HIDE DEF m
<1>5. /\ from \in Nat /\ to \in Nat /\ from < e.places[1] /\ e.places[1] \in Nat
      /\ EntryReadable(f, u, e, from)
  BY EntryIs
<1>6. \A j \in 1 .. m + 1 : e.places[j] \in from .. to
  BY <1>1 DEF Format!Laid
<1>7. \A j \in 1 .. m + 1 : e.places[j] \in Nat
  BY <1>5, <1>6
<1>8. Begins(f, d, from, to)
  BY <1>1, <1>2 DEF Begins, Format!DieEncoded, Format!DiesOf
<1>9. \A j \in 1 .. m :
        /\ Format!ValueAt(f.info, D.specs[j][2], e.places[j], e.places[j + 1])
        /\ D.specs[j][1] \in Attribute =>
             /\ f.dies[d].attrs[D.specs[j][1]]
                  = Format!Meaning(f.info, D.specs[j][1], D.specs[j][2],
                                   e.places[j], e.places[j + 1], u.at)
             /\ f.dies[d].ends[D.specs[j][1]] = e.places[j + 1]
  BY <1>2, AttributesAre DEF Format!DieEncoded, m
<1>10. \A j \in 1 .. m :
         ValueReadable(f, u, D.specs[j], e.places[j], e.places[j + 1])
  BY <1>1, <1>5 DEF EntryReadable, DeclaredBy, m
<1>11. ASSUME NEW j \in 1 .. m
       PROVE  /\ e.places[j] <= e.places[j + 1]
              /\ D.specs[j][1] \in Attribute => e.places[j] < e.places[j + 1]
  <2> DEFINE a == D.specs[j][1]
             form == D.specs[j][2]
  <2>1. e.places[j] \in Nat /\ e.places[j + 1] \in Nat
    BY <1>4, <1>7
  <2>2. /\ e.places[j] <= e.places[j + 1]
        /\ form # "flag_present" => e.places[j] < e.places[j + 1]
    BY <1>9, <2>1, ValueOrder
  <2>3. ASSUME a \in Attribute PROVE form # "flag_present"
    <3>1. /\ a \in Names => form \in {"string", "strp"}
          /\ a \in Attribute \ Names /\ form \in DataForms \ {"ref_sig8"} =>
               Format!Meaning(f.info, a, form, e.places[j], e.places[j + 1], u.at) # {}
      BY <1>10 DEF ValueReadable
    <3>2. "flag_present" \in DataForms \ {"ref_sig8"}
      BY DEF DataForms, DataBytes
    <3> QED BY <2>3, <3>1, <3>2, MeaningIs
  <2> QED BY <2>2, <2>3
<1>12. \A i, j \in 1 .. m + 1 : i <= j => e.places[i] <= e.places[j]
  BY <1>4, <1>7, <1>11, Ascending
<1>13. \A a \in Attribute :
         (\A j \in 1 .. m : D.specs[j][1] # a) =>
           f.dies[d].attrs[a] = {} /\ f.dies[d].ends[a] = 0
  BY <1>2, AttributesAre DEF Format!DieEncoded, m
<1>14. ValuesLaid(f, u, e, D, d)
  BY <1>4, <1>7, <1>9, <1>10, <1>11, <1>12, <1>13 DEF ValuesLaid, m
<1>15. \A j \in 1 .. m + 1 : e.places[j] \in from + 1 .. to
  <2>1. ASSUME NEW j \in 1 .. m + 1 PROVE e.places[j] \in from + 1 .. to
    <3>1. e.places[1] <= e.places[j]
      <4>1. 1 \in 1 .. m + 1 /\ 1 <= j
        BY <1>4
      <4> QED BY <1>12, <4>1
    <3>2. e.places[j] \in Nat /\ e.places[j] <= to
      BY <1>5, <1>6, <1>7
    <3> QED BY <1>5, <3>1, <3>2
  <2> QED BY <2>1
<1> QED BY <1>1, <1>2, <1>8, <1>14, <1>15 DEF m, DieThere

\* No attribute occurs twice in a declaration.
AttributesDiffer(D) ==
  \A i, j \in 1 .. Len(D.specs) :
    D.specs[i][1] = D.specs[j][1] /\ D.specs[i][1] # "other" => i = j

\* What is not interesting is no attribute.
LEMMA OtherIsNone == "other" \notin Attribute
BY DEF Attribute

\* Between the places of a value no other value ends.
LEMMA EndsBetween ==
  ASSUME NEW f, NEW u, NEW e, NEW D, NEW d, ValuesLaid(f, u, e, D, d),
         NEW j \in 1 .. Len(D.specs), NEW b \in Attribute, b # D.specs[j][1]
  PROVE  \/ f.dies[d].ends[b] <= e.places[j] \/ ~(f.dies[d].ends[b] <= e.places[j + 1])
         \/ f.dies[d].attrs[b] = {}
<1>1. Len(D.specs) \in Nat
  BY DEF ValuesLaid
<1>2. CASE \A i \in 1 .. Len(D.specs) : D.specs[i][1] # b
  BY <1>2 DEF ValuesLaid
<1>3. CASE \E i \in 1 .. Len(D.specs) : D.specs[i][1] = b
  <2>1. PICK i \in 1 .. Len(D.specs) : D.specs[i][1] = b
    BY <1>3
  <2>2. f.dies[d].ends[b] = e.places[i + 1] /\ e.places[i] < e.places[i + 1] /\ i # j
    BY <2>1 DEF ValuesLaid
  <2>3. /\ i \in 1 .. Len(D.specs) + 1 /\ i + 1 \in 1 .. Len(D.specs) + 1
        /\ j \in 1 .. Len(D.specs) + 1 /\ j + 1 \in 1 .. Len(D.specs) + 1
    BY <1>1
  <2>4. /\ e.places[i] \in Nat /\ e.places[i + 1] \in Nat
        /\ e.places[j] \in Nat /\ e.places[j + 1] \in Nat
    BY <2>3 DEF ValuesLaid
  <2>5. CASE i < j
    <3>1. i + 1 <= j
      BY <2>5
    <3>2. e.places[i + 1] <= e.places[j]
      BY <2>3, <3>1 DEF ValuesLaid
    <3> QED BY <2>2, <3>2
  <2>6. CASE j < i
    <3>1. j + 1 <= i
      BY <2>6
    <3>2. e.places[j + 1] <= e.places[i]
      BY <2>3, <3>1 DEF ValuesLaid
    <3>3. ~(e.places[i + 1] <= e.places[j + 1])
      BY <2>2, <2>4, <3>2
    <3> QED BY <2>2, <3>3
  <2> QED BY <2>2, <2>5, <2>6
<1> QED BY <1>2, <1>3

\* An attribute that ends before the first value has none ...
LEMMA EndsFirst ==
  ASSUME NEW f, NEW u, NEW e, NEW D, NEW d, ValuesLaid(f, u, e, D, d),
         NEW b \in Attribute, f.dies[d].ends[b] <= e.places[1]
  PROVE  f.dies[d].attrs[b] = {}
<1>1. Len(D.specs) \in Nat
  BY DEF ValuesLaid
<1>2. SUFFICES ASSUME NEW i \in 1 .. Len(D.specs), D.specs[i][1] = b PROVE FALSE
  BY DEF ValuesLaid
<1>3. f.dies[d].ends[b] = e.places[i + 1] /\ e.places[i] < e.places[i + 1]
  BY <1>2 DEF ValuesLaid
<1>4. /\ i \in 1 .. Len(D.specs) + 1 /\ i + 1 \in 1 .. Len(D.specs) + 1
      /\ 1 \in 1 .. Len(D.specs) + 1 /\ 1 <= i
  BY <1>1
<1>5. e.places[1] <= e.places[i] /\ e.places[i] \in Nat /\ e.places[1] \in Nat /\ e.places[i + 1] \in Nat
  BY <1>4 DEF ValuesLaid
<1> QED BY <1>3, <1>5

\* ... and none ends behind the last value.
LEMMA EndsLast ==
  ASSUME NEW f, NEW u, NEW e, NEW D, NEW d, ValuesLaid(f, u, e, D, d), NEW b \in Attribute
  PROVE  f.dies[d].ends[b] <= e.places[Len(D.specs) + 1]
<1>1. Len(D.specs) \in Nat
  BY DEF ValuesLaid
<1>2. Len(D.specs) + 1 \in 1 .. Len(D.specs) + 1
  BY <1>1
<1>3. CASE \A i \in 1 .. Len(D.specs) : D.specs[i][1] # b
  <2>1. f.dies[d].ends[b] = 0 /\ e.places[Len(D.specs) + 1] \in Nat
    BY <1>2, <1>3 DEF ValuesLaid
  <2> QED BY <2>1
<1>4. CASE \E i \in 1 .. Len(D.specs) : D.specs[i][1] = b
  <2>1. PICK i \in 1 .. Len(D.specs) : D.specs[i][1] = b
    BY <1>4
  <2>2. i + 1 \in 1 .. Len(D.specs) + 1 /\ i + 1 <= Len(D.specs) + 1
    BY <1>1
  <2> QED BY <1>2, <2>1, <2>2 DEF ValuesLaid
<1> QED BY <1>3, <1>4

(* What the code reads of an abbreviation. *)

\* D is declaration i of table t.
InTable(t, T, i, D) ==
  /\ t \in 1 .. Len(file.tables) /\ T = file.tables[t]
  /\ i \in 1 .. Len(T.declarations) /\ D = T.declarations[i]

\* A declaration of the file, by its place in its table.
LEMMA DeclarationTyped ==
  ASSUME Legible(file), NEW t, NEW T, NEW i, NEW D, InTable(t, T, i, D)
  PROVE  D.tag \in AllTags /\ D.children \in BOOLEAN /\ Len(D.specs) \in Nat /\ D.code \in Nat \ {0}
         /\ D.code # 0 /\ Format!DeclarationSound(D)
<1>1. /\ t \in 1 .. Len(file.tables) /\ T = file.tables[t]
      /\ i \in 1 .. Len(T.declarations) /\ D = T.declarations[i]
  BY DEF InTable
<1>2. D.tag \in AllTags /\ D.children \in BOOLEAN /\ D.code \in Nat \ {0}
  BY <1>1, DeclarationIs
<1>3. Len(D.specs) \in Nat
  BY <1>1, DeclarationIs
<1>4. Format!DeclarationSound(D)
  <2>1. Format!DeclarationSound(T.declarations[i])
    BY <1>1, TableIs
  <2> QED BY <1>1, <2>1
<1>5. D.code # 0
  BY <1>2
<1> QED BY <1>2, <1>3, <1>4, <1>5

\* In an attribute list: abbrev_bytes is what is left of the section.
InList == abbrev \in Nat /\ abbrev <= Len(file.abbrev) /\ abbrev_bytes = Len(file.abbrev) - abbrev

\* Two numbers one behind the other, as Attr and AttrForm read them.
LEMMA PairRead ==
  ASSUME Legible(file), InList, NEW middle \in Nat, NEW to \in Nat,
         Format!LebAt(file.abbrev, abbrev, middle), Format!LebAt(file.abbrev, middle, to)
  PROVE  /\ Attr.length = middle - abbrev
         /\ Attr.result = Format!LebValue(file.abbrev, abbrev, middle)
         /\ AttrForm.length = to - middle
         /\ AttrForm.result = Format!LebValue(file.abbrev, middle, to)
         /\ abbrev + Attr.length + AttrForm.length = to
         /\ Minus(abbrev_bytes, Attr.length + AttrForm.length) = Len(file.abbrev) - to
         /\ to <= Len(file.abbrev)
<1>1. Len(file.abbrev) \in Nat /\ Len(file.abbrev) < SizeBound
  BY BytesAre DEF Readables
<1>2. abbrev \in Nat /\ abbrev <= Len(file.abbrev) /\ abbrev_bytes = Len(file.abbrev) - abbrev
  BY DEF InList
<1> DEFINE L == Len(file.abbrev)
<1>3. abbrev_bytes \in Nat /\ abbrev_bytes < SizeBound /\ L - abbrev <= abbrev_bytes
  <2> HIDE DEF L
  <2> QED BY <1>1, <1>2, SizeBoundIs DEF L
<1>4. /\ Attr.length = middle - abbrev
      /\ Attr.result = Format!LebValue(file.abbrev, abbrev, middle)
      /\ abbrev < middle /\ middle <= L
  BY <1>2, <1>3, AbbrevNumber DEF Attr
<1>5. Attr.length \in Nat /\ Attr.length <= abbrev_bytes /\ abbrev + Attr.length = middle
  <2> HIDE DEF L
  <2> QED BY <1>1, <1>2, <1>4 DEF L
<1>6. Minus(abbrev_bytes, Attr.length) = L - middle
  <2>1. Minus(abbrev_bytes, Attr.length) = abbrev_bytes - Attr.length
    BY <1>3, <1>5, MinusIs
  <2> HIDE DEF L
  <2> QED BY <2>1, <1>1, <1>2, <1>4 DEF L
<1>7. L - middle \in Nat
  <2> HIDE DEF L
  <2> QED BY <1>1, <1>4 DEF L
<1>8. /\ AttrForm.length = to - middle
      /\ AttrForm.result = Format!LebValue(file.abbrev, middle, to)
      /\ middle < to /\ to <= L
  <2>1. AttrForm = ULEB128(file.abbrev, middle, L - middle)
    BY <1>5, <1>6 DEF AttrForm
  <2>2. L - middle <= L - middle
    BY <1>7
  <2> QED BY <1>7, <2>1, <2>2, AbbrevNumber
<1>9. abbrev + Attr.length + AttrForm.length = to
  BY <1>2, <1>4, <1>8
<1>10. Attr.length + AttrForm.length = to - abbrev
  BY <1>2, <1>4, <1>8
<1>11. Minus(abbrev_bytes, to - abbrev) = L - to
  <2> HIDE DEF L
  <2>1. to - abbrev \in Nat /\ to - abbrev <= abbrev_bytes
    BY <1>1, <1>2, <1>4, <1>8 DEF L
  <2>2. Minus(abbrev_bytes, to - abbrev) = abbrev_bytes - (to - abbrev)
    BY <1>3, <2>1, MinusIs
  <2> QED BY <2>2, <1>1, <1>2, <1>8 DEF L
<1> QED BY <1>4, <1>8, <1>9, <1>10, <1>11

\* Attribute j of a declaration.
LEMMA SpecRead ==
  ASSUME Legible(file), InList, NEW t, NEW T, NEW i, NEW D, InTable(t, T, i, D),
         NEW j \in 1 .. Len(D.specs), abbrev = D.places[j]
  PROVE  /\ ~EndOfList
         /\ AttrName = D.specs[j][1]
         /\ D.specs[j][2] # "other" =>
              FormOf(AttrForm.result) = IF D.specs[j][2] = "ref_sig8" THEN "other" ELSE D.specs[j][2]
         /\ abbrev + Attr.length + AttrForm.length = D.places[j + 1]
         /\ Minus(abbrev_bytes, Attr.length + AttrForm.length) = Len(file.abbrev) - D.places[j + 1]
<1>1. /\ Len(D.specs) \in Nat
      /\ \A k \in 1 .. Len(D.specs) + 1 : D.places[k] \in Nat
      /\ Format!SpecEncoded(file.abbrev, D.specs[j], D.places[j], D.places[j + 1])
  BY DeclarationIs DEF InTable
<1> DEFINE m == Len(D.specs)
<1>2. D.places[j] \in Nat /\ D.places[j + 1] \in Nat
  <2> HIDE DEF m
  <2>1. j \in 1 .. m + 1 /\ j + 1 \in 1 .. m + 1
    BY <1>1 DEF m
  <2> QED BY <1>1, <2>1 DEF m
<1>3. PICK form_at \in D.places[j] .. D.places[j + 1] :
      /\ Format!LebAt(file.abbrev, abbrev, form_at) /\ Format!LebValue(file.abbrev, abbrev, form_at) # 0
      /\ D.specs[j][1] = Format!NameOf(Format!LebValue(file.abbrev, abbrev, form_at), Format!CodeOfAttribute)
      /\ Format!LebAt(file.abbrev, form_at, D.places[j + 1])
      /\ D.specs[j][2] = Format!NameOf(Format!LebValue(file.abbrev, form_at, D.places[j + 1]), Format!FormCode)
  BY <1>1 DEF Format!SpecEncoded
<1>4. form_at \in Nat
  BY <1>2
<1>5. /\ Attr.result = Format!LebValue(file.abbrev, abbrev, form_at)
      /\ AttrForm.result = Format!LebValue(file.abbrev, form_at, D.places[j + 1])
      /\ abbrev + Attr.length + AttrForm.length = D.places[j + 1]
      /\ Minus(abbrev_bytes, Attr.length + AttrForm.length) = Len(file.abbrev) - D.places[j + 1]
  BY <1>2, <1>3, <1>4, PairRead
<1>6. AttrName = D.specs[j][1]
  BY <1>3, <1>5, AttributesAgree DEF AttrName
<1>7. ~EndOfList
  BY <1>3, <1>5 DEF EndOfList
<1>8. ASSUME D.specs[j][2] # "other"
      PROVE  FormOf(AttrForm.result) = IF D.specs[j][2] = "ref_sig8" THEN "other" ELSE D.specs[j][2]
  BY <1>3, <1>5, <1>8, FormsAgree
<1> QED BY <1>5, <1>6, <1>7, <1>8

\* The end of an attribute list.
LEMMA ListRead ==
  ASSUME Legible(file), InList, NEW t, NEW T, NEW i, NEW D, InTable(t, T, i, D),
         abbrev = D.places[Len(D.specs) + 1]
  PROVE  EndOfList /\ abbrev + Attr.length + AttrForm.length \in 0 .. Len(file.abbrev)
         /\ Minus(abbrev_bytes, Attr.length + AttrForm.length) \in 0 .. Len(file.abbrev)
<1>1. /\ t \in 1 .. Len(file.tables) /\ T = file.tables[t]
      /\ i \in 1 .. Len(T.declarations) /\ D = T.declarations[i]
  BY DEF InTable
<1>2. /\ Len(D.specs) \in Nat
      /\ \A j \in 1 .. Len(D.specs) + 1 : D.places[j] \in Nat /\ D.places[j] + 2 <= Len(file.abbrev)
      /\ file.abbrev[D.places[Len(D.specs) + 1] + 1] = 0
      /\ file.abbrev[D.places[Len(D.specs) + 1] + 2] = 0
  <2>1. Len(D.specs) \in Nat
    BY <1>1, DeclarationIs
  <2>2. \A j \in 1 .. Len(D.specs) + 1 : D.places[j] \in Nat /\ D.places[j] + 2 <= Len(file.abbrev)
    BY <1>1, DeclarationIs
  <2>3. DeclarationEnds(file, T, i, D)
    BY <1>1, DeclarationIs
  <2>4. /\ file.abbrev[D.places[Len(D.specs) + 1] + 1] = 0
        /\ file.abbrev[D.places[Len(D.specs) + 1] + 2] = 0
    BY <2>3 DEF DeclarationEnds
  <2> QED BY <2>1, <2>2, <2>4
<1> DEFINE m == Len(D.specs)
<1>3. Readables(file.abbrev) /\ Len(file.abbrev) \in Nat
  BY BytesAre DEF Readables
<1>4. m + 1 \in 1 .. m + 1
  <2> HIDE DEF m
  <2> QED BY <1>2 DEF m
<1>5. abbrev \in Nat /\ abbrev + 2 <= Len(file.abbrev)
  BY <1>2, <1>4
<1>6. abbrev + 1 \in Nat /\ abbrev < Len(file.abbrev) /\ abbrev + 1 < Len(file.abbrev)
  BY <1>3, <1>5
<1>7. file.abbrev[abbrev + 1] = 0 /\ file.abbrev[(abbrev + 1) + 1] = 0
  <2>1. (abbrev + 1) + 1 = abbrev + 2
    BY <1>5
  <2> QED BY <1>2, <2>1
<1>8. /\ Format!LebAt(file.abbrev, abbrev, abbrev + 1)
      /\ Format!LebValue(file.abbrev, abbrev, abbrev + 1) = 0
  BY <1>3, <1>5, <1>6, <1>7, ZeroIs
<1>9. /\ Format!LebAt(file.abbrev, abbrev + 1, (abbrev + 1) + 1)
      /\ Format!LebValue(file.abbrev, abbrev + 1, (abbrev + 1) + 1) = 0
  BY <1>3, <1>6, <1>7, ZeroIs
<1>10. (abbrev + 1) + 1 \in Nat
  BY <1>6
<1>11. /\ Attr.result = 0 /\ AttrForm.result = 0
       /\ abbrev + Attr.length + AttrForm.length = (abbrev + 1) + 1
       /\ Minus(abbrev_bytes, Attr.length + AttrForm.length) = Len(file.abbrev) - ((abbrev + 1) + 1)
  BY <1>6, <1>8, <1>9, <1>10, PairRead
<1>12. (abbrev + 1) + 1 \in 0 .. Len(file.abbrev)
       /\ Len(file.abbrev) - ((abbrev + 1) + 1) \in 0 .. Len(file.abbrev)
  <2>1. \A x, y \in Nat : x + 2 <= y =>
           (x + 1) + 1 \in 0 .. y /\ y - ((x + 1) + 1) \in 0 .. y
    OBVIOUS
  <2> QED BY <1>3, <1>5, <2>1
<1> QED BY <1>11, <1>12 DEF EndOfList

\* In a table of abbreviations: abbrev_bytes is no less than what is left.
InTables ==
  /\ abbrev \in Nat /\ abbrev_bytes \in Nat /\ abbrev_bytes <= Len(file.abbrev)
  /\ abbrev < Len(file.abbrev) /\ Len(file.abbrev) - abbrev <= abbrev_bytes

\* The end of a table.
LEMMA TableRead ==
  ASSUME Legible(file), InTables, file.abbrev[abbrev + 1] = 0
  PROVE  abbrev_bytes # 0 /\ Abbreviation.result = 0
<1>1. Readables(file.abbrev) /\ Len(file.abbrev) \in Nat
  BY BytesAre DEF Readables
<1>2. /\ Format!LebAt(file.abbrev, abbrev, abbrev + 1)
      /\ Format!LebValue(file.abbrev, abbrev, abbrev + 1) = 0
  BY <1>1, ZeroIs DEF InTables
<1>3. abbrev \in Nat /\ abbrev + 1 \in Nat /\ abbrev_bytes \in Nat
      /\ Len(file.abbrev) - abbrev <= abbrev_bytes
  BY DEF InTables
<1>4. Abbreviation.result = 0
  BY <1>2, <1>3, AbbrevNumber DEF Abbreviation
<1> QED BY <1>1, <1>3, <1>4 DEF InTables

\* What LoadAbbrevTag reads of a declaration.
LEMMA DeclarationRead ==
  ASSUME Legible(file), InTables, NEW t, NEW T, NEW i, NEW D, InTable(t, T, i, D),
         abbrev = T.places[i],
         NEW left, left = Minus(abbrev_bytes, Abbreviation.length),
         NEW type, type = ULEB128(file.abbrev, abbrev + Abbreviation.length, left),
         NEW has_children, has_children = abbrev + Abbreviation.length + type.length,
         NEW list_bytes, list_bytes = Minus(left, type.length + 1)
  PROVE  /\ abbrev_bytes # 0 /\ Abbreviation.result = D.code
         /\ Named(type.result, Tag) = D.tag
         /\ has_children + 1 = D.places[1]
         /\ (file.abbrev[has_children + 1] # 0) = D.children
         /\ list_bytes # 0 /\ 2 + ZeroFrom(file.abbrev, has_children + 1) = T.places[i + 1]
         /\ Minus(list_bytes, 2) \in 0 .. Len(file.abbrev)
         /\ Len(file.abbrev) - T.places[i + 1] <= Minus(list_bytes, 2)
<1> DEFINE L == Len(file.abbrev)
           last == D.places[Len(D.specs) + 1]
<1>1. /\ t \in 1 .. Len(file.tables) /\ T = file.tables[t]
      /\ i \in 1 .. Len(T.declarations) /\ D = T.declarations[i]
  BY DEF InTable
<1>2. Readables(file.abbrev) /\ L \in Nat /\ L < SizeBound
  BY BytesAre DEF Readables
<1>3. /\ D.places[1] \in Nat /\ last \in Nat /\ last + 2 <= L /\ D.places[1] <= last
      /\ Format!HeadEncoded(file.abbrev, D, T.places[i])
      /\ T.places[i + 1] = last + 2
      /\ file.abbrev[last + 1] = 0
      /\ \A b \in D.places[1] + 1 .. last : file.abbrev[b] # 0
      /\ D.children \in BOOLEAN
  <2>1. Len(D.specs) \in Nat /\ D.children \in BOOLEAN
    BY <1>1, DeclarationIs
  <2>2. \A j \in 1 .. Len(D.specs) + 1 : D.places[j] \in Nat /\ D.places[j] + 2 <= Len(file.abbrev)
    BY <1>1, DeclarationIs
  <2>3. 1 \in 1 .. Len(D.specs) + 1 /\ Len(D.specs) + 1 \in 1 .. Len(D.specs) + 1
    BY <2>1
  <2>4. D.places[1] \in Nat /\ last \in Nat /\ last + 2 <= L
    BY <2>2, <2>3
  <2>5. D.places[1] <= last
    BY <1>1, DeclarationIs
  <2>6. Format!HeadEncoded(file.abbrev, D, T.places[i])
    BY <1>1, DeclarationIs
  <2>7. DeclarationEnds(file, T, i, D)
    BY <1>1, DeclarationIs
  <2>8. /\ T.places[i + 1] = last + 2 /\ file.abbrev[last + 1] = 0
        /\ \A b \in D.places[1] + 1 .. last : file.abbrev[b] # 0
    BY <2>7 DEF DeclarationEnds
  <2> QED BY <2>1, <2>4, <2>5, <2>6, <2>8
<1>4. /\ abbrev \in Nat /\ abbrev_bytes \in Nat /\ abbrev_bytes <= L /\ L - abbrev <= abbrev_bytes
      /\ abbrev < L
  BY DEF InTables
<1>5. PICK tag_at, flag_at \in abbrev .. D.places[1] :
      /\ Format!LebAt(file.abbrev, abbrev, tag_at) /\ D.code = Format!LebValue(file.abbrev, abbrev, tag_at)
      /\ Format!LebAt(file.abbrev, tag_at, flag_at)
      /\ D.tag = Format!NameOf(Format!LebValue(file.abbrev, tag_at, flag_at), Format!TagCode)
      /\ D.places[1] = flag_at + 1
      /\ file.abbrev[flag_at + 1] = IF D.children THEN 1 ELSE 0
  BY <1>3 DEF Format!HeadEncoded
<1>6. tag_at \in Nat /\ flag_at \in Nat
  BY <1>3, <1>4
<1>7. /\ Abbreviation.length = tag_at - abbrev /\ Abbreviation.result = D.code
      /\ abbrev < tag_at /\ tag_at <= L
  <2>1. Abbreviation = ULEB128(file.abbrev, abbrev, abbrev_bytes)
    BY DEF Abbreviation
  <2>2. Len(file.abbrev) - abbrev <= abbrev_bytes
    BY <1>4
  <2>3. abbrev \in Nat /\ tag_at \in Nat /\ abbrev_bytes \in Nat
    BY <1>4, <1>6
  <2>4. Format!LebAt(file.abbrev, abbrev, tag_at)
    BY <1>5
  <2> HIDE DEF L, last
  <2>5. /\ ULEB128(file.abbrev, abbrev, abbrev_bytes).length = tag_at - abbrev
        /\ ULEB128(file.abbrev, abbrev, abbrev_bytes).result = Format!LebValue(file.abbrev, abbrev, tag_at)
        /\ abbrev < tag_at /\ tag_at <= Len(file.abbrev)
    BY <2>2, <2>3, <2>4, AbbrevNumber
  <2> QED BY <1>5, <2>1, <2>5 DEF L
<1> HIDE DEF L, last
<1>8. Abbreviation.length \in Nat /\ Abbreviation.length <= abbrev_bytes /\ abbrev_bytes < SizeBound
      /\ abbrev + Abbreviation.length = tag_at
  BY <1>2, <1>4, <1>6, <1>7, SizeBoundIs
<1>9. left = abbrev_bytes - Abbreviation.length
  BY <1>4, <1>8, MinusIs
<1>10. left \in Nat /\ L - tag_at <= left /\ left < SizeBound /\ left <= abbrev_bytes
  BY <1>2, <1>4, <1>6, <1>7, <1>8, <1>9, SizeBoundIs
<1>11. /\ type.length = flag_at - tag_at
       /\ type.result = Format!LebValue(file.abbrev, tag_at, flag_at)
       /\ tag_at < flag_at /\ flag_at <= L
  <2>1. type = ULEB128(file.abbrev, tag_at, left)
    BY <1>8
  <2> QED BY <1>5, <1>6, <1>10, <2>1, AbbrevNumber DEF L
<1>12. has_children = flag_at
  BY <1>6, <1>8, <1>11
<1>13. Named(type.result, Tag) = D.tag
  BY <1>5, <1>11, TagsAgree
<1>14. (file.abbrev[has_children + 1] # 0) = D.children
  BY <1>3, <1>5, <1>12
<1>15. has_children + 1 = D.places[1]
  BY <1>5, <1>12
<1>16. type.length + 1 \in Nat /\ type.length + 1 <= left
  BY <1>2, <1>3, <1>5, <1>6, <1>10, <1>11
<1>17. list_bytes = left - (type.length + 1)
  BY <1>10, <1>16, MinusIs
<1>18. list_bytes \in Nat /\ L - D.places[1] <= list_bytes /\ list_bytes <= L /\ 2 <= list_bytes
       /\ list_bytes < SizeBound
  <2>1. list_bytes = left - ((flag_at - tag_at) + 1)
    BY <1>11, <1>17
  <2>2. list_bytes \in Nat /\ L - D.places[1] <= list_bytes /\ list_bytes <= left
    BY <1>2, <1>5, <1>6, <1>10, <1>11, <1>16, <2>1
  <2> QED BY <1>2, <1>3, <1>4, <1>10, <2>2, SizeBoundIs
<1>19. ZeroFrom(file.abbrev, has_children + 1) = last
  <2>1. last \in D.places[1] .. L - 1
    BY <1>2, <1>3
  <2> QED BY <1>2, <1>3, <1>15, <2>1, ZeroFromIs DEF L
<1>20. Minus(list_bytes, 2) = list_bytes - 2
  BY <1>18, MinusIs
<1>21. list_bytes - 2 \in 0 .. L /\ L - (last + 2) <= list_bytes - 2 /\ list_bytes # 0 /\ abbrev_bytes # 0
       /\ 2 + last = last + 2
  BY <1>2, <1>3, <1>4, <1>18
<1> QED BY <1>3, <1>7, <1>13, <1>14, <1>15, <1>19, <1>20, <1>21 DEF L

(* The handlers of the two modules are the same. *)

\* Who receives children and values.
LEMMA CurrentAgrees ==
  /\ Walk!Innermost = Innermost /\ Walk!CurrentElementType = CurrentElementType
  /\ Walk!Newest = Newest /\ Walk!NewestMember = NewestMember /\ Walk!NewestParent = NewestParent
<1>1. Walk!Innermost = Innermost
  BY DEF Walk!Innermost, Innermost, Walk!Last, Last
<1>2. Walk!CurrentElementType = CurrentElementType
  BY <1>1 DEF Walk!CurrentElementType, CurrentElementType
<1>3. Walk!Newest = Newest
  BY DEF Walk!Newest, Newest
<1>4. Walk!NewestMember = NewestMember /\ Walk!NewestParent = NewestParent
  BY <1>1 DEF Walk!NewestMember, NewestMember, Walk!NewestParent, NewestParent
<1> QED BY <1>1, <1>2, <1>3, <1>4

\* RegisterNewTag.
LEMMA RegisterAgrees ==
  ASSUME NEW tag, NEW id, NEW c PROVE Walk!RegisterNewTag(tag, id, c) <=> RegisterNewTag(tag, id, c)
<1>1. \A e, t : Walk!Element(e, t) = Element(e, t)
  BY DEF Walk!Element, Element
<1>2. Walk!CurrentElementType = CurrentElementType /\ Walk!Innermost = Innermost
  BY CurrentAgrees
<1>3. ASSUME NEW type PROVE Walk!Added(type) = Added(type)
  BY <1>2 DEF Walk!Added, Added
<1>4. ASSUME NEW type, NEW x PROVE Walk!Inserted(type, x) = Inserted(type, x)
  BY <1>1, <1>2, <1>3 DEF Walk!Inserted, Inserted
<1>5. Walk!ElementOf(tag) = ElementOf(tag)
  BY DEF Walk!ElementOf, ElementOf, Walk!TagElement, TagElement
<1> QED BY <1>1, <1>3, <1>4, <1>5 DEF Walk!RegisterNewTag, RegisterNewTag, Walk!AddElement, AddElement

\* LogDwarfInfo.
LEMMA LogAgrees ==
  ASSUME NEW a \in Attribute, NEW v PROVE Walk!LogDwarfInfo(a, v) <=> LogDwarfInfo(a, v)
<1>1. Walk!Innermost = Innermost /\ Walk!Newest = Newest /\ Walk!NewestMember = NewestMember
      /\ Walk!NewestParent = NewestParent
  BY CurrentAgrees
<1>2. Walk!CurrentElementType = CurrentElementType /\ Walk!Ready = Ready
  BY CurrentAgrees DEF Walk!Ready, Ready
<1>3. Walk!ToMember = ToMember /\ Walk!ToParent = ToParent
  BY <1>1, <1>2 DEF Walk!ToMember, ToMember, Walk!ToParent, ToParent
<1>4. Walk!SetElementName(v) <=> SetElementName(v)
  BY <1>1, <1>2, <1>3 DEF Walk!SetElementName, SetElementName
<1>5. Walk!SetElementSize(v) <=> SetElementSize(v)
  BY <1>1, <1>2, <1>3 DEF Walk!SetElementSize, SetElementSize
<1>6. Walk!SetElementOffset(v) <=> SetElementOffset(v)
  BY <1>1, <1>2, <1>3 DEF Walk!SetElementOffset, SetElementOffset
<1>7. Walk!SetElementType(v) <=> SetElementType(v)
  BY <1>1, <1>2, <1>3 DEF Walk!SetElementType, SetElementType
<1>8. Walk!SetElementCount(v) <=> SetElementCount(v)
  BY <1>1, <1>2, <1>3 DEF Walk!SetElementCount, SetElementCount
<1>9. CASE a \in {"name", "linkage_name"}
  BY <1>4, <1>9 DEF Walk!LogDwarfInfo, LogDwarfInfo
<1>10. CASE a = "byte_size"
  BY <1>5, <1>10 DEF Walk!LogDwarfInfo, LogDwarfInfo
<1>11. CASE a = "data_member_location"
  BY <1>6, <1>11 DEF Walk!LogDwarfInfo, LogDwarfInfo
<1>12. CASE a = "type"
  BY <1>7, <1>12 DEF Walk!LogDwarfInfo, LogDwarfInfo
<1>13. CASE a = "count"
  BY <1>8, <1>13 DEF Walk!LogDwarfInfo, LogDwarfInfo
<1> QED BY <1>9, <1>10, <1>11, <1>12, <1>13 DEF Attribute

\* EndOfChildren, and the constructor.
LEMMA EndAgrees ==
  /\ Walk!EndOfChildren <=> EndOfChildren
  /\ Walk!BuilderInit <=> BuilderInit
  /\ Walk!builder = builder /\ Walk!Attribute = Attribute
<1>1. Walk!builder = builder
  BY DEF Walk!builder, builder
<1>2. Walk!EndOfChildren <=> EndOfChildren
  BY DEF Walk!EndOfChildren, EndOfChildren, Walk!builder, builder, Walk!Last, Last, Walk!Front, Front
<1>3. Walk!BuilderInit <=> BuilderInit
  BY DEF Walk!BuilderInit, BuilderInit
<1>4. Walk!Attribute = Attribute
  BY DEF Walk!Attribute, Attribute
<1> QED BY <1>1, <1>2, <1>3, <1>4

(***************************************************************************)
(* The invariant: where the walk is in the section, and what it has loaded.*)
(***************************************************************************)

Table(u) == file.tables[u.table]
Declarations(u) == Table(u).declarations
Declared(u, e) == Declarations(u)[e.declaration]

\* The first i declarations of the unit's table, and nothing else, are loaded.
Loaded(u, i) ==
  /\ DOMAIN compilation_unit_ = {Declarations(u)[j].code : j \in 1 .. i}
  /\ \A j \in 1 .. i :
       compilation_unit_[Declarations(u)[j].code] =
         [type |-> Declarations(u)[j].tag, has_children |-> Declarations(u)[j].children,
          ptr |-> Declarations(u)[j].places[1]]

\* Before a unit, or behind the last one.
BeforeUnit ==
  /\ info = Len(file.info) \/ \E n \in 1 .. Len(file.units) : info = file.units[n].at
  /\ OpenAt(file, info) = {} /\ Settled(file, info)

\* Before declaration i of the table of unit n, or before its end.
BeforeDeclaration(n, i) ==
  LET u == file.units[n] IN
  /\ n \in 1 .. Len(file.units) /\ unit_hdr = u.at /\ info = u.places[1]
  /\ i \in 1 .. Len(Declarations(u)) + 1 /\ abbrev = Table(u).places[i]
  /\ Len(file.abbrev) - abbrev <= abbrev_bytes
  /\ Loaded(u, i - 1) /\ Settled(file, info)

\* Before entry k of unit n, or at its end.
BeforeEntry(n, k) ==
  LET u == file.units[n] IN
  /\ n \in 1 .. Len(file.units) /\ unit_hdr = u.at
  /\ k \in 1 .. Len(u.entries) + 1 /\ info = u.places[k]
  /\ k > Len(u.entries) => info = u.end /\ OpenAt(file, info) = {}
  /\ Loaded(u, Len(Declarations(u))) /\ Settled(file, info)

\* In entry k of unit n, which is a DIE: before attribute j, or behind the last one.
BeforeValue(n, k, j) ==
  LET u == file.units[n]
      e == u.entries[k]
  IN
  /\ n \in 1 .. Len(file.units) /\ unit_hdr = u.at /\ k \in 1 .. Len(u.entries)
  /\ Format!DieEntryEncoded(file, u, e, u.places[k], u.places[k + 1])
  /\ j \in 1 .. Len(Declared(u, e).specs) + 1 /\ info = e.places[j]
  /\ abbrev = Declared(u, e).places[j] /\ abbrev_bytes = Len(file.abbrev) - abbrev
  /\ Loaded(u, Len(Declarations(u))) /\ Settled(file, u.places[k])

PlaceOK ==
  /\ file \in Sections
  /\ pc \in {"unit", "abbrevs", "die", "attr", "returned", "exited"}
  /\ info \in 0 .. Len(file.info) /\ info_bytes = Len(file.info) - info
  /\ unit_hdr \in 0 .. Len(file.info)
  /\ abbrev \in 0 .. Len(file.abbrev) /\ abbrev_bytes \in 0 .. Len(file.abbrev)

TableOK ==
  /\ DOMAIN compilation_unit_ \subseteq Nat
  /\ \A n \in DOMAIN compilation_unit_ :
       compilation_unit_[n] \in [type : DOMAIN Tag \union {"other"}, has_children : BOOLEAN,
                                 ptr : 1 .. Len(file.abbrev)]

InPlace ==
  /\ PlaceOK /\ TableOK
  /\ pc = "unit" => BeforeUnit
  /\ pc = "abbrevs" => \E n, i \in Nat : BeforeDeclaration(n, i)
  /\ pc = "die" => \E n, k \in Nat : BeforeEntry(n, k)
  /\ pc = "attr" => \E n, k, j \in Nat : BeforeValue(n, k, j)

--------------------------------------------------------------------------------
(* What holds wherever the walk is.                                        *)

\* The file, and the place in it.
LEMMA Here ==
  ASSUME WellEncoded, PlaceOK
  PROVE  /\ Legible(file) /\ Reading /\ DiesInOrder(file)
         /\ Len(file.info) \in Nat /\ Len(file.abbrev) \in Nat
         /\ Len(file.info) < SizeBound /\ Len(file.abbrev) < SizeBound
         /\ info_bytes \in Nat /\ info \in Nat
<1>1. Legible(file)
  BY DEF WellEncoded, PlaceOK, Legible
<1>2. /\ Readables(file.info) /\ Len(file.info) \in Nat /\ Len(file.abbrev) \in Nat
      /\ Len(file.info) < SizeBound /\ Len(file.abbrev) < SizeBound
  BY <1>1, BytesAre DEF Readables
<1>3. info \in Nat /\ info <= Len(file.info) /\ info_bytes = Len(file.info) - info
  BY <1>2 DEF PlaceOK
<1>4. info_bytes \in Nat
  BY <1>2, <1>3
<1>5. DiesInOrder(file)
  BY <1>1, EncodedInOrder DEF Legible
<1> QED BY <1>1, <1>2, <1>3, <1>4, <1>5 DEF Reading

\* Advance by what there is.
LEMMA Advances ==
  ASSUME WellEncoded, PlaceOK, NEW to \in Nat, info <= to, to <= Len(file.info),
         NEW n, n = to - info, Advance(n)
  PROVE  info' = to /\ info_bytes' = Len(file.info) - to
<1>1. /\ info \in Nat /\ info_bytes \in Nat /\ info_bytes = Len(file.info) - info
      /\ Len(file.info) \in Nat /\ Len(file.info) < SizeBound
  BY Here DEF PlaceOK
<1>2. n \in Nat /\ n <= info_bytes /\ info_bytes < SizeBound
  BY <1>1, SizeBoundIs
<1>3. Minus(info_bytes, n) = info_bytes - n
  BY <1>1, <1>2, MinusIs
<1> QED BY <1>1, <1>3 DEF Advance

\* The header of a unit, as the program reads it.
LEMMA HeaderIs ==
  ASSUME WellEncoded, PlaceOK, NEW n \in 1 .. Len(file.units), NEW u, u = file.units[n]
  PROVE  /\ unit_hdr = u.at => info_end = u.end
         /\ info = u.at => abbrev_offset = Table(u).places[1]
         /\ Format!Begun(file, u.at, u.places[1]) = {}
         /\ Format!Closed(file, u.at, u.places[1]) = {}
<1>1. Format!HeaderEncoded(file, u)
  <2>1. Format!UnitEncoded(file, u)
    BY Here, UnitIs
  <2> QED BY <2>1 DEF Format!UnitEncoded
<1>2. u.end = u.at + Format!LittleEndian(file.info, u.at, u.at + 4) + 4
  BY <1>1 DEF Format!HeaderEncoded
<1>3. Table(u).places[1] = Format!LittleEndian(file.info, u.at + 6, u.at + 10)
  BY <1>1 DEF Format!HeaderEncoded, Table
<1>4. unit_hdr = u.at => info_end = u.end
  BY <1>2, UnsignedIs DEF info_end
<1>5. ASSUME info = u.at PROVE abbrev_offset = Table(u).places[1]
  <2>1. u.at \in Nat
    BY Here, UnitIs
  <2>2. (u.at + 6) + 4 = u.at + 10
    BY <2>1
  <2>3. abbrev_offset = Format!LittleEndian(file.info, u.at + 6, (u.at + 6) + 4)
    BY <1>5, UnsignedIs DEF abbrev_offset
  <2> QED BY <1>3, <2>2, <2>3
<1> QED BY <1>1, <1>4, <1>5 DEF Format!HeaderEncoded

\* The number of an entry, as the walk reads it.
LEMMA EntryHere ==
  ASSUME WellEncoded, PlaceOK, NEW n, NEW u, NEW k, NEW e, NEW to,
         EntryAt(file, n, u, k, e, info, to), unit_hdr = u.at
  PROVE  /\ info < info_end
         /\ Number.length = e.places[1] - info
         /\ Number.result = Format!LebValue(file.info, info, e.places[1])
<1>1. /\ e.places[1] \in Nat /\ info < e.places[1] /\ e.places[1] <= to /\ to <= u.end /\ to \in Nat
      /\ Format!LebAt(file.info, info, e.places[1]) /\ NumberFits(file.info, info, e.places[1])
  BY Here, EntryIs
<1>2. u.end \in Nat /\ info_end = u.end
  BY Here, UnitIs, HeaderIs DEF EntryAt
<1> QED BY <1>1, <1>2, Here, NumberHere

\* The end of a unit, and what is behind it.
LEMMA UnitOver ==
  ASSUME WellEncoded, PlaceOK, NEW n \in 1 .. Len(file.units), NEW u, u = file.units[n]
  PROVE  \/ u.end = Len(file.info)
         \/ \E m \in 1 .. Len(file.units) : u.end = file.units[m].at
<1>1. /\ \A k \in 1 .. Len(file.units) :
           file.units[k].at = IF k = 1 THEN 0 ELSE file.units[k - 1].end
      /\ Len(file.info) = IF Len(file.units) = 0 THEN 0 ELSE file.units[Len(file.units)].end
  BY Here DEF Legible, Format!Encoded
<1>2. Len(file.units) \in Nat
  BY Here, UnitIs
<1>3. CASE n = Len(file.units)
  BY <1>1, <1>2, <1>3
<1>4. CASE n # Len(file.units)
  <2>1. n + 1 \in 1 .. Len(file.units) /\ n + 1 # 1 /\ (n + 1) - 1 = n
    BY <1>2, <1>4
  <2>2. file.units[n + 1].at = file.units[(n + 1) - 1].end
    BY <1>1, <2>1
  <2>3. file.units[n + 1].at = u.end
    BY <2>1, <2>2
  <2> QED BY <2>1, <2>3
<1> QED BY <1>3, <1>4

\* Behind an entry that stands for something, the next one begins or the unit is over.
LEMMA EntryOver ==
  ASSUME WellEncoded, PlaceOK, NEW n, NEW u, NEW k, NEW e, NEW from, NEW to,
         EntryAt(file, n, u, k, e, from, to), e.declaration <= Len(Declarations(u))
  PROVE  /\ k + 1 \in 1 .. Len(u.entries) + 1 /\ to = u.places[k + 1] /\ to # u.places[1]
         /\ k + 1 > Len(u.entries) => to = u.end /\ OpenAt(file, to) = {}
<1>1. n \in 1 .. Len(file.units) /\ u = file.units[n] /\ k \in 1 .. Len(u.entries)
      /\ e = u.entries[k] /\ from = u.places[k] /\ to = u.places[k + 1]
  BY DEF EntryAt
<1>2. Format!UnitEncoded(file, u) /\ Len(u.entries) \in Nat
  BY <1>1, Here, UnitIs
<1> DEFINE count == Len(u.entries)
<1>3. /\ Format!Laid(u.places, count, u.at + 11, u.end)
      /\ u.entries[count].declaration <= Len(Declarations(u)) =>
           u.places[count + 1] = u.end /\ Format!OpenAt(file, u.end) = {}
  BY <1>2 DEF Format!UnitEncoded, Declarations, Table, Format!HeaderBytes
<1>4. count \in Nat
  BY <1>2
<1> HIDE DEF count
<1>5. k \in 1 .. count
  BY <1>1 DEF count
<1>6. k + 1 \in 1 .. count + 1
  BY <1>4, <1>5
<1>7. ASSUME k + 1 > count PROVE to = u.end /\ OpenAt(file, to) = {}
  <2>1. k = count
    BY <1>4, <1>5, <1>7
  <2>2. u.places[count + 1] = u.end /\ Format!OpenAt(file, u.end) = {}
    BY <1>1, <1>3, <2>1
  <2> QED BY <1>1, <2>1, <2>2, Here, OpenAtFormat
<1>8. to # u.places[1]
  <2>1. from < to /\ from \in Nat /\ to \in Nat
    BY Here, EntryIs
  <2>2. u.at \in Nat /\ u.places[1] = u.at + 11
    BY <1>1, Here, UnitIs
  <2>3. u.places[k] \in u.at + 11 .. u.end
    <3>1. k \in 1 .. count + 1
      BY <1>4, <1>5
    <3> QED BY <1>3, <3>1 DEF Format!Laid
  <2>4. from >= u.at + 11
    BY <1>1, <2>1, <2>2, <2>3
  <2> QED BY <2>1, <2>2, <2>4
<1> QED BY <1>1, <1>6, <1>7, <1>8 DEF count

(* Steps.                                                                  *)

WalkStep == [Walk!Next]_<<elements_, nested_elements_, last_parsed_type_, walk_pc, walk_dies, walk_open>>

\* Where the loops are: what walk_pc is.
PcMeans(p, at, hdr, w) ==
  /\ p = "unit" => w = "unit"
  /\ p = "abbrevs" => w = "root"
  /\ p = "die" => w = IF at = hdr + 11 THEN "root" ELSE "die"
  /\ p = "attr" => w = "attr"
  /\ p \in {"returned", "exited"} => w = "returned"

\* Where the walk is, for the abstract walk ...
LEMMA PcIs == PcMeans(pc, info, unit_hdr, walk_pc)
BY DEF PcMeans, walk_pc, HeaderBytes

\* ... and where it gets.
LEMMA PcBecomes == PcMeans(pc', info', unit_hdr', walk_pc')
BY DEF PcMeans, walk_pc, HeaderBytes

\* As long as info stays, nothing is read.
LEMMA WalkStands ==
  ASSUME UNCHANGED <<file, info>> PROVE walk_dies' = walk_dies /\ walk_open' = walk_open
BY DEF walk_dies, walk_open

\* Bytes that say nothing to the walk.
LEMMA WalkGoesOn ==
  ASSUME UNCHANGED file, DiesAt(file, info') = DiesAt(file, info),
         OpenAt(file, info') = OpenAt(file, info)
  PROVE  walk_dies' = walk_dies /\ walk_open' = walk_open
BY DEF walk_dies, walk_open

\* Every end of the program is a Return of the walk.
LEMMA Returns ==
  ASSUME pc \in {"unit", "abbrevs", "die", "attr"}, pc' \in {"returned", "exited"},
         UNCHANGED builder, walk_dies' = walk_dies, walk_open' = walk_open
  PROVE  WalkStep
<1>1. walk_pc # "returned" /\ walk_pc' = "returned"
  BY PcIs, PcBecomes DEF PcMeans
<1>2. Walk!Return
  BY <1>1 DEF Walk!Return, Walk!builder, builder
<1> QED BY <1>2 DEF WalkStep, Walk!Next

\* What the walk does not see.
LEMMA Stutters ==
  ASSUME UNCHANGED builder, walk_pc' = walk_pc, walk_dies' = walk_dies, walk_open' = walk_open
  PROVE  WalkStep
BY DEF WalkStep, builder

\* Nothing is known of the place any more when the program is over.
LEMMA Over ==
  ASSUME PlaceOK', TableOK', pc' \in {"returned", "exited"} PROVE InPlace'
BY DEF InPlace

\* The three steps that end the program where it stands.
LEMMA StepEndOfInfo ==
  ASSUME WellEncoded, InPlace, EndOfInfo PROVE InPlace' /\ WalkStep
<1>1. pc = "unit" /\ pc' = "returned" /\ UNCHANGED builder /\ UNCHANGED <<file, info, info_bytes, unit_hdr, abbrev, abbrev_bytes, compilation_unit_>>
  BY DEF EndOfInfo, Stop
<1>2. PlaceOK' /\ TableOK'
  BY <1>1 DEF InPlace, PlaceOK, TableOK
<1>3. InPlace'
  BY <1>1, <1>2, Over
<1> QED BY <1>1, <1>3, Returns, WalkStands

LEMMA StepBadForm ==
  ASSUME WellEncoded, InPlace, BadForm PROVE InPlace' /\ WalkStep
<1>1. pc = "attr" /\ pc' = "exited" /\ UNCHANGED builder /\ UNCHANGED <<file, info, info_bytes, unit_hdr, abbrev, abbrev_bytes, compilation_unit_>>
  BY DEF BadForm, Stop
<1>2. PlaceOK' /\ TableOK'
  BY <1>1 DEF InPlace, PlaceOK, TableOK
<1>3. InPlace'
  BY <1>1, <1>2, Over
<1> QED BY <1>1, <1>3, Returns, WalkStands

LEMMA StepDuplicateAbbrev ==
  ASSUME WellEncoded, InPlace, DuplicateAbbrev PROVE InPlace' /\ WalkStep
<1>1. pc = "abbrevs" /\ pc' = "returned" /\ UNCHANGED builder /\ UNCHANGED <<file, info, info_bytes, unit_hdr, abbrev, abbrev_bytes>>
      /\ compilation_unit_' = <<>>
  BY DEF DuplicateAbbrev, Stop
<1>2. PlaceOK'
  BY <1>1 DEF InPlace, PlaceOK
<1>3. TableOK'
  <2>1. DOMAIN <<>> = {}
    OBVIOUS
  <2> QED BY <1>1, <2>1 DEF TableOK
<1>4. InPlace'
  BY <1>1, <1>2, <1>3, Over
<1> QED BY <1>1, <1>4, Returns, WalkStands

--------------------------------------------------------------------------------
(* A unit and its table.                                                   *)

\* Behind the header of a unit come its declarations.
LEMMA StepReadUnit ==
  ASSUME WellEncoded, InPlace, ReadUnit PROVE InPlace' /\ WalkStep
<1>1. /\ pc = "unit" /\ info_bytes # 0 /\ unit_hdr' = info /\ Advance(11)
      /\ abbrev' = abbrev_offset /\ abbrev_bytes' = Minus(Len(file.abbrev), abbrev_offset)
      /\ pc' = "abbrevs" /\ UNCHANGED builder /\ UNCHANGED file /\ compilation_unit_' = <<>>
  BY DEF ReadUnit, StartUnit, HeaderBytes
<1>2. /\ PlaceOK /\ BeforeUnit
  BY <1>1 DEF InPlace
<1>3. /\ Legible(file) /\ DiesInOrder(file) /\ Len(file.info) \in Nat /\ Len(file.abbrev) \in Nat
      /\ Len(file.abbrev) < SizeBound /\ info \in Nat
  BY <1>2, Here
<1>4. PICK n \in 1 .. Len(file.units) : info = file.units[n].at
  BY <1>1, <1>2, <1>3 DEF BeforeUnit, PlaceOK
<1> DEFINE u == file.units[n]
           T == file.tables[u.table]
<1>5. /\ u.at = info /\ u.end \in Nat /\ u.table \in 1 .. Len(file.tables)
      /\ \A k \in 1 .. Len(u.entries) + 1 : u.places[k] \in Nat /\ u.places[k] <= u.end
      /\ Len(u.entries) \in Nat \ {0}
      /\ u.end <= Len(file.info) /\ u.places[1] = info + 11
  BY <1>3, <1>4, UnitIs
<1>6. /\ abbrev_offset = T.places[1]
      /\ Format!Begun(file, info, u.places[1]) = {} /\ Format!Closed(file, info, u.places[1]) = {}
  BY <1>2, <1>4, HeaderIs DEF Table
<1>7. Len(T.declarations) \in Nat /\ T.places[1] \in Nat /\ T.places[1] < Len(file.abbrev)
  <2>1. Len(T.declarations) \in Nat
    BY <1>3, <1>5, TableIs
  <2> HIDE DEF T
  <2>2. 1 \in 1 .. Len(T.declarations) + 1
    BY <2>1
  <2> QED BY <1>3, <1>5, <2>1, <2>2, TableIs DEF T
<1>8. u.places[1] \in Nat /\ info <= u.places[1] /\ u.places[1] <= Len(file.info)
  <2>1. 1 \in 1 .. Len(u.entries) + 1
    BY <1>5
  <2>2. u.places[1] \in Nat /\ u.places[1] <= u.end
    BY <1>5, <2>1
  <2> QED BY <1>3, <1>5, <2>2
<1>9. info' = u.places[1] /\ info_bytes' = Len(file.info) - u.places[1]
  <2>1. 11 = u.places[1] - info
    BY <1>3, <1>5
  <2> HIDE DEF u
  <2> QED BY <1>1, <1>2, <1>8, <2>1, Advances
<1> HIDE DEF T
<1>10. abbrev' = T.places[1] /\ abbrev_bytes' = Len(file.abbrev) - T.places[1]
  <2>1. T.places[1] <= Len(file.abbrev)
    BY <1>3, <1>7
  <2>2. Minus(Len(file.abbrev), T.places[1]) = Len(file.abbrev) - T.places[1]
    BY <1>3, <1>7, <2>1, MinusIs
  <2> QED BY <1>1, <1>6, <2>2
<1>11. PlaceOK'
  <2>1. info' \in 0 .. Len(file.info) /\ unit_hdr' \in 0 .. Len(file.info)
    BY <1>1, <1>2, <1>3, <1>8, <1>9 DEF PlaceOK
  <2>2. abbrev' \in 0 .. Len(file.abbrev) /\ abbrev_bytes' \in 0 .. Len(file.abbrev)
    BY <1>3, <1>7, <1>10
  <2> QED BY <1>1, <1>2, <1>9, <2>1, <2>2 DEF PlaceOK
<1>12. TableOK'
  <2>1. DOMAIN <<>> = {}
    OBVIOUS
  <2> QED BY <1>1, <2>1 DEF TableOK
<1>13. /\ DiesAt(file, info') = DiesAt(file, info) /\ OpenAt(file, info') = OpenAt(file, info)
       /\ Settled(file, info')
  <2>1. Settled(file, info)
    BY <1>2 DEF BeforeUnit
  <2> HIDE DEF u
  <2>2. /\ DiesAt(file, u.places[1]) = DiesAt(file, info) /\ Settled(file, u.places[1])
        /\ OpenAt(file, u.places[1]) = OpenAt(file, info) \ Format!Closed(file, info, u.places[1])
    BY <1>3, <1>6, <1>8, <2>1, NothingBegins
  <2> QED BY <1>6, <1>9, <2>2
<1>14. BeforeDeclaration(n, 1)'
  <2>1. Loaded(u, 0)'
    <3>1. 1 .. 0 = {} /\ DOMAIN <<>> = {}
      OBVIOUS
    <3> QED BY <1>1, <3>1 DEF Loaded
  <2>2. 1 - 1 = 0 /\ 1 \in 1 .. Len(T.declarations) + 1
    BY <1>7
  <2>3. Len(file.abbrev) - abbrev' <= abbrev_bytes'
    BY <1>3, <1>7, <1>10
  <2> QED BY <1>1, <1>4, <1>9, <1>10, <1>13, <2>1, <2>2, <2>3
       DEF BeforeDeclaration, Declarations, Table, T
<1>15. InPlace'
  <2>1. n \in Nat /\ 1 \in Nat
    OBVIOUS
  <2> QED BY <1>1, <1>11, <1>12, <1>14, <2>1 DEF InPlace
<1>16. Walk!ReadUnit
  <2>1. walk_dies' = walk_dies /\ walk_open' = walk_open
    BY <1>1, <1>13, WalkGoesOn
  <2>2. walk_pc = "unit" /\ walk_pc' = "root"
    BY <1>1, PcIs, PcBecomes DEF PcMeans
  <2> QED BY <1>1, <2>1, <2>2 DEF Walk!ReadUnit, Walk!builder, builder
<1>17. WalkStep
  BY <1>16 DEF WalkStep, Walk!Next
<1> QED BY <1>15, <1>17

\* What holds before a declaration.
LEMMA DeclarationHere ==
  ASSUME WellEncoded, PlaceOK, NEW n, NEW i, BeforeDeclaration(n, i), NEW u, u = file.units[n],
         NEW T, T = Table(u)
  PROVE  /\ n \in 1 .. Len(file.units) /\ u.table \in 1 .. Len(file.tables)
         /\ T = file.tables[u.table] /\ Declarations(u) = T.declarations
         /\ Len(T.declarations) \in Nat /\ i \in 1 .. Len(T.declarations) + 1
         /\ abbrev = T.places[i] /\ InTables
         /\ i = Len(T.declarations) + 1 => Abbreviation.result = 0
         /\ i # Len(T.declarations) + 1 =>
              InTable(u.table, T, i, T.declarations[i])
<1>1. /\ n \in 1 .. Len(file.units) /\ i \in 1 .. Len(Declarations(u)) + 1
      /\ abbrev = T.places[i] /\ Len(file.abbrev) - abbrev <= abbrev_bytes
  BY DEF BeforeDeclaration
<1>2. u.table \in 1 .. Len(file.tables) /\ T = file.tables[u.table] /\ Declarations(u) = T.declarations
  BY <1>1, Here, UnitIs DEF Declarations, Table
<1>3. /\ Len(T.declarations) \in Nat /\ T.places[i] \in Nat /\ T.places[i] < Len(file.abbrev)
      /\ file.abbrev[T.places[Len(T.declarations) + 1] + 1] = 0
  BY <1>1, <1>2, Here, TableIs
<1>4. InTables
  <2>1. Len(file.abbrev) \in Nat
    BY Here
  <2> QED BY <1>1, <1>3, <2>1 DEF InTables, PlaceOK
<1>5. ASSUME i = Len(T.declarations) + 1 PROVE Abbreviation.result = 0
  <2>1. file.abbrev[abbrev + 1] = 0
    BY <1>1, <1>3, <1>5
  <2>2. Legible(file)
    BY Here
  <2> QED BY <1>4, <2>1, <2>2, TableRead, Zenon
<1>6. ASSUME i # Len(T.declarations) + 1 PROVE InTable(u.table, T, i, T.declarations[i])
  <2> DEFINE m == Len(T.declarations)
  <2>1. m \in Nat /\ i \in 1 .. m + 1 /\ i # m + 1
    BY <1>1, <1>2, <1>3, <1>6
  <2>2. i \in 1 .. m
    <3> HIDE DEF m
    <3> QED BY <2>1
  <2> QED BY <1>2, <2>2 DEF InTable
<1> QED BY <1>1, <1>2, <1>3, <1>4, <1>5, <1>6

\* The code of the next declaration, as the program reads it.
LEMMA CodeHere ==
  ASSUME WellEncoded, PlaceOK, InTables, NEW t, NEW T, NEW i, NEW D, InTable(t, T, i, D),
         abbrev = T.places[i]
  PROVE  abbrev_bytes # 0 /\ Abbreviation.result = D.code /\ D.code \in Nat \ {0}
<1>1. D.code \in Nat \ {0}
  BY Here, DeclarationIs DEF InTable
<1> QED BY <1>1, Here, DeclarationRead

\* A declaration is loaded; its attributes are skipped up to their end.
LEMMA StepLoadAbbrevTag ==
  ASSUME WellEncoded, InPlace, LoadAbbrevTag PROVE InPlace' /\ WalkStep
<1>1. /\ pc = "abbrevs" /\ pc' = "abbrevs" /\ UNCHANGED builder
      /\ UNCHANGED <<file, info, info_bytes, unit_hdr>>
      /\ Abbreviation.result \notin DOMAIN compilation_unit_ \union {0}
  BY DEF LoadAbbrevTag
<1>2. PlaceOK /\ TableOK
  BY DEF InPlace
<1>3. PICK n, i \in Nat : BeforeDeclaration(n, i)
  BY <1>1 DEF InPlace
<1> DEFINE u == file.units[n]
           T == Table(u)
           D == T.declarations[i]
           left == Minus(abbrev_bytes, Abbreviation.length)
           type == ULEB128(file.abbrev, abbrev + Abbreviation.length, left)
           has_children == abbrev + Abbreviation.length + type.length
           list_bytes == Minus(left, type.length + 1)
           record == [type |-> Named(type.result, Tag),
                      has_children |-> file.abbrev[has_children + 1] # 0,
                      ptr |-> has_children + 1]
<1>4. /\ n \in 1 .. Len(file.units) /\ u.table \in 1 .. Len(file.tables)
      /\ Declarations(u) = T.declarations
      /\ Len(T.declarations) \in Nat /\ i \in 1 .. Len(T.declarations) + 1
      /\ abbrev = T.places[i] /\ InTables
      /\ i = Len(T.declarations) + 1 => Abbreviation.result = 0
      /\ i # Len(T.declarations) + 1 => InTable(u.table, T, i, D)
  BY <1>2, <1>3, DeclarationHere
<1>5. i # Len(T.declarations) + 1 /\ i \in 1 .. Len(T.declarations)
  <2>1. i # Len(T.declarations) + 1
    BY <1>1, <1>4
  <2> HIDE DEF T
  <2> QED BY <1>4, <2>1
<1>6. InTable(u.table, T, i, D)
  BY <1>4, <1>5
<1>7. /\ compilation_unit_' =
           [x \in DOMAIN compilation_unit_ \union {Abbreviation.result} |->
             IF x = Abbreviation.result THEN record ELSE compilation_unit_[x]]
      /\ abbrev' = 2 + IF list_bytes = 0 THEN has_children + 1
                       ELSE ZeroFrom(file.abbrev, has_children + 1)
      /\ abbrev_bytes' = Minus(list_bytes, 2)
  BY DEF LoadAbbrevTag
<1>8. /\ Abbreviation.result = D.code
      /\ record = [type |-> D.tag, has_children |-> D.children, ptr |-> D.places[1]]
      /\ list_bytes # 0 /\ 2 + ZeroFrom(file.abbrev, has_children + 1) = T.places[i + 1]
      /\ Minus(list_bytes, 2) \in 0 .. Len(file.abbrev)
      /\ Len(file.abbrev) - T.places[i + 1] <= Minus(list_bytes, 2)
  <2> HIDE DEF left, type, has_children, list_bytes
  <2>1. /\ left = Minus(abbrev_bytes, Abbreviation.length)
        /\ type = ULEB128(file.abbrev, abbrev + Abbreviation.length, left)
        /\ has_children = abbrev + Abbreviation.length + type.length
        /\ list_bytes = Minus(left, type.length + 1)
    BY DEF left, type, has_children, list_bytes
  <2> HIDE DEF u, T, D
  <2>2. /\ Abbreviation.result = D.code
        /\ Named(type.result, Tag) = D.tag
        /\ has_children + 1 = D.places[1]
        /\ (file.abbrev[has_children + 1] # 0) = D.children
        /\ list_bytes # 0 /\ 2 + ZeroFrom(file.abbrev, has_children + 1) = T.places[i + 1]
        /\ Minus(list_bytes, 2) \in 0 .. Len(file.abbrev)
        /\ Len(file.abbrev) - T.places[i + 1] <= Minus(list_bytes, 2)
    <3>1. Legible(file)
      BY <1>2, Here
    <3>2. InTables /\ abbrev = T.places[i]
      BY <1>4
    <3> QED BY <1>6, <2>1, <3>1, <3>2, DeclarationRead
  <2> QED BY <2>2
<1> HIDE DEF left, type, has_children, list_bytes, record
<1>9. /\ D.code \in Nat \ {0} /\ D.tag \in AllTags /\ D.children \in BOOLEAN
      /\ D.places[1] \in 1 .. Len(file.abbrev)
  <2>1. /\ D.code \in Nat \ {0} /\ D.tag \in AllTags /\ D.children \in BOOLEAN
        /\ Len(D.specs) \in Nat
        /\ \A j \in 1 .. Len(D.specs) + 1 : D.places[j] \in Nat /\ D.places[j] + 2 <= Len(file.abbrev)
        /\ Format!HeadEncoded(file.abbrev, D, T.places[i])
    <3> HIDE DEF D, T, u
    <3>1. /\ u.table \in 1 .. Len(file.tables) /\ T = file.tables[u.table]
          /\ i \in 1 .. Len(T.declarations) /\ D = T.declarations[i] /\ Legible(file)
      BY <1>2, <1>6, Here DEF InTable
    <3>2. D.code \in Nat \ {0} /\ D.tag \in AllTags /\ D.children \in BOOLEAN
      BY <3>1, DeclarationIs
    <3>3. /\ Len(D.specs) \in Nat
          /\ \A j \in 1 .. Len(D.specs) + 1 : D.places[j] \in Nat /\ D.places[j] + 2 <= Len(file.abbrev)
      BY <3>1, DeclarationIs
    <3>4. Format!HeadEncoded(file.abbrev, D, T.places[i])
      BY <3>1, DeclarationIs
    <3> QED BY <3>2, <3>3, <3>4
  <2>2. D.places[1] \in Nat /\ D.places[1] + 2 <= Len(file.abbrev)
    <3> HIDE DEF D
    <3>1. 1 \in 1 .. Len(D.specs) + 1
      BY <2>1
    <3> QED BY <2>1, <3>1
  <2>3. D.places[1] # 0
    <3>1. PICK flag_at \in T.places[i] .. D.places[1] : D.places[1] = flag_at + 1
      BY <2>1 DEF Format!HeadEncoded
    <3>2. T.places[i] \in Nat
      BY <1>4 DEF InTables
    <3> QED BY <2>2, <3>1, <3>2
  <2> HIDE DEF D
  <2>4. Len(file.abbrev) \in Nat
    BY <1>2, Here
  <2> QED BY <2>1, <2>2, <2>3, <2>4
<1>10. DOMAIN compilation_unit_' = {D.code} \union DOMAIN compilation_unit_
       /\ compilation_unit_'[D.code] = record
       /\ \A x \in DOMAIN compilation_unit_ : x # D.code => compilation_unit_'[x] = compilation_unit_[x]
  <2> DEFINE code == D.code
  <2> HIDE DEF code
  <2>1. compilation_unit_' =
          [x \in DOMAIN compilation_unit_ \union {code} |->
            IF x = code THEN record ELSE compilation_unit_[x]]
    BY <1>7, <1>8 DEF code
  <2>2. DOMAIN compilation_unit_' = {code} \union DOMAIN compilation_unit_
    BY <2>1
  <2>3. compilation_unit_'[code] = record
    BY <2>1
  <2>4. \A x \in DOMAIN compilation_unit_ : x # code => compilation_unit_'[x] = compilation_unit_[x]
    BY <2>1
  <2> QED BY <2>2, <2>3, <2>4 DEF code
<1> DEFINE codes == [j \in 1 .. Len(T.declarations) |-> T.declarations[j].code]
<1>11. Loaded(u, i - 1)
  BY <1>3 DEF BeforeDeclaration
<1>12. Loaded(u, i)'
  <2>1. /\ DOMAIN compilation_unit_ = {T.declarations[j].code : j \in 1 .. i - 1}
        /\ \A j \in 1 .. i - 1 :
             compilation_unit_[T.declarations[j].code] =
               [type |-> T.declarations[j].tag, has_children |-> T.declarations[j].children,
                ptr |-> T.declarations[j].places[1]]
    BY <1>11 DEF Loaded, Declarations
  <2>2. \A j \in 1 .. i : j = i \/ j \in 1 .. i - 1
    BY <1>3
  <2>3. i \in 1 .. i /\ \A j \in 1 .. i - 1 : j \in 1 .. i
    <3> HIDE DEF T
    <3> QED BY <1>3, <1>4
  <2>4. DOMAIN compilation_unit_' = {T.declarations[j].code : j \in 1 .. i}
    BY <1>10, <2>1, <2>2, <2>3
  <2>5. ASSUME NEW j \in 1 .. i
        PROVE  compilation_unit_'[T.declarations[j].code] =
                 [type |-> T.declarations[j].tag, has_children |-> T.declarations[j].children,
                  ptr |-> T.declarations[j].places[1]]
    <3>1. CASE j = i
      BY <1>8, <1>10, <3>1
    <3>2. CASE j \in 1 .. i - 1
      <4>1. T.declarations[j].code \in DOMAIN compilation_unit_
        BY <2>1, <3>2
      <4>2. T.declarations[j].code # D.code
        BY <1>1, <1>8, <4>1
      <4> QED BY <1>10, <2>1, <3>2, <4>1, <4>2
    <3> QED BY <2>2, <3>1, <3>2
  <2> QED BY <1>1, <2>4, <2>5 DEF Loaded, Declarations, Table
<1>13. abbrev' = T.places[i + 1] /\ T.places[i + 1] \in 0 .. Len(file.abbrev)
  <2>1. abbrev' = 2 + ZeroFrom(file.abbrev, has_children + 1)
    BY <1>7, <1>8
  <2>2. T.places[i + 1] \in Nat /\ T.places[i + 1] < Len(file.abbrev)
    <3> HIDE DEF T
    <3>1. i + 1 \in 1 .. Len(T.declarations) + 1
      BY <1>4, <1>5
    <3> QED BY <1>2, <1>4, <3>1, Here, TableIs DEF T, Table
  <2>3. Len(file.abbrev) \in Nat
    BY <1>2, Here
  <2> QED BY <1>8, <2>1, <2>2, <2>3
<1>14. Len(file.abbrev) - abbrev' <= abbrev_bytes' /\ abbrev_bytes' \in 0 .. Len(file.abbrev)
  BY <1>7, <1>8, <1>13
<1>15. PlaceOK'
  BY <1>1, <1>2, <1>13, <1>14 DEF PlaceOK
<1>16. TableOK'
  <2>1. D.code \in Nat
    BY <1>9
  <2>2. record \in [type : DOMAIN Tag \union {"other"}, has_children : BOOLEAN,
                    ptr : 1 .. Len(file.abbrev)]
    BY <1>8, <1>9 DEF AllTags
  <2>3. DOMAIN compilation_unit_' \subseteq Nat
    BY <1>2, <1>10, <2>1 DEF TableOK
  <2>4. ASSUME NEW x \in DOMAIN compilation_unit_'
        PROVE  compilation_unit_'[x] \in [type : DOMAIN Tag \union {"other"}, has_children : BOOLEAN,
                                          ptr : 1 .. Len(file.abbrev)]
    <3>1. CASE x = D.code
      BY <1>10, <2>2, <3>1
    <3>2. CASE x # D.code
      <4>1. x \in DOMAIN compilation_unit_ /\ compilation_unit_'[x] = compilation_unit_[x]
        BY <1>10, <2>4, <3>2
      <4> QED BY <1>2, <4>1 DEF TableOK
    <3> QED BY <3>1, <3>2
  <2> QED BY <1>1, <2>3, <2>4 DEF TableOK
<1>17. BeforeDeclaration(n, i + 1)'
  <2>1. /\ unit_hdr = u.at /\ info = u.places[1] /\ Settled(file, info)
    BY <1>3 DEF BeforeDeclaration
  <2>2. i + 1 \in 1 .. Len(Declarations(u)) + 1 /\ (i + 1) - 1 = i
    <3> HIDE DEF T
    <3> QED BY <1>4, <1>5
  <2> QED BY <1>1, <1>4, <1>12, <1>13, <1>14, <2>1, <2>2 DEF BeforeDeclaration, Declarations, Table
<1>18. InPlace'
  <2>1. i + 1 \in Nat
    BY <1>3
  <2> QED BY <1>1, <1>15, <1>16, <1>17, <2>1 DEF InPlace
<1>19. WalkStep
  <2>1. walk_pc = "root" /\ walk_pc' = "root"
    BY <1>1, PcIs, PcBecomes DEF PcMeans
  <2> QED BY <1>1, <2>1, WalkStands, Stutters
<1> QED BY <1>18, <1>19

\* Behind the last declaration the entries come.
LEMMA StepEndOfAbbrevs ==
  ASSUME WellEncoded, InPlace, EndOfAbbrevs PROVE InPlace' /\ WalkStep
<1>1. /\ pc = "abbrevs" /\ pc' = "die" /\ UNCHANGED builder
      /\ UNCHANGED <<file, info, info_bytes, unit_hdr, abbrev, abbrev_bytes, compilation_unit_>>
      /\ abbrev_bytes = 0 \/ Abbreviation.result = 0
  BY DEF EndOfAbbrevs
<1>2. PlaceOK /\ TableOK
  BY DEF InPlace
<1>3. PICK n, i \in Nat : BeforeDeclaration(n, i)
  BY <1>1 DEF InPlace
<1> DEFINE u == file.units[n]
           T == Table(u)
<1>4. /\ n \in 1 .. Len(file.units) /\ u.table \in 1 .. Len(file.tables)
      /\ Declarations(u) = T.declarations
      /\ Len(T.declarations) \in Nat /\ i \in 1 .. Len(T.declarations) + 1
      /\ abbrev = T.places[i] /\ InTables
      /\ i = Len(T.declarations) + 1 => Abbreviation.result = 0
      /\ i # Len(T.declarations) + 1 => InTable(u.table, T, i, T.declarations[i])
  BY <1>2, <1>3, DeclarationHere
<1>5. i = Len(T.declarations) + 1
  <2>1. SUFFICES ASSUME i # Len(T.declarations) + 1 PROVE FALSE
    OBVIOUS
  <2>2. InTable(u.table, T, i, T.declarations[i])
    BY <1>4, <2>1
  <2>3. abbrev_bytes # 0 /\ Abbreviation.result = T.declarations[i].code
        /\ T.declarations[i].code \in Nat \ {0}
    BY <1>2, <1>4, <2>2, CodeHere
  <2> QED BY <1>1, <2>3
<1>6. /\ unit_hdr = u.at /\ info = u.places[1] /\ Loaded(u, i - 1) /\ Settled(file, info)
  BY <1>3 DEF BeforeDeclaration
<1>7. /\ Len(u.entries) \in Nat \ {0} /\ u.places[1] = u.at + 11
  BY <1>2, <1>4, Here, UnitIs
<1>8. BeforeEntry(n, 1)'
  <2>1. i - 1 = Len(Declarations(u))
    <3> HIDE DEF T
    <3> QED BY <1>4, <1>5
  <2>2. Loaded(u, Len(Declarations(u)))'
    BY <1>1, <1>6, <2>1 DEF Loaded, Declarations, Table
  <2>3. 1 \in 1 .. Len(u.entries) + 1 /\ ~(1 > Len(u.entries))
    <3> HIDE DEF u
    <3> QED BY <1>7
  <2> QED BY <1>1, <1>4, <1>6, <2>2, <2>3 DEF BeforeEntry
<1>9. InPlace'
  <2>1. PlaceOK' /\ TableOK'
    BY <1>1, <1>2 DEF PlaceOK, TableOK
  <2>2. 1 \in Nat
    OBVIOUS
  <2> QED BY <1>1, <1>3, <1>8, <2>1, <2>2 DEF InPlace
<1>10. WalkStep
  <2>1. walk_pc = "root" /\ walk_pc' = "root"
    BY <1>1, <1>6, <1>7, PcIs, PcBecomes DEF PcMeans
  <2> QED BY <1>1, <2>1, WalkStands, Stutters
<1> QED BY <1>9, <1>10

\* What holds before an entry.
LEMMA EntryComes ==
  ASSUME WellEncoded, PlaceOK, NEW n, NEW k, BeforeEntry(n, k), NEW u, u = file.units[n]
  PROVE  /\ n \in 1 .. Len(file.units) /\ unit_hdr = u.at /\ u.places[1] = u.at + 11
         /\ Settled(file, info) /\ info_end = u.end
         /\ Loaded(u, Len(Declarations(u))) /\ k \in Nat
         /\ \/ k \notin 1 .. Len(u.entries) /\ info = u.end /\ OpenAt(file, info) = {}
            \/ EntryAt(file, n, u, k, u.entries[k], info, u.places[k + 1])
<1>1. /\ n \in 1 .. Len(file.units) /\ unit_hdr = u.at /\ Settled(file, info)
      /\ k \in 1 .. Len(u.entries) + 1 /\ info = u.places[k]
      /\ k > Len(u.entries) => info = u.end /\ OpenAt(file, info) = {}
      /\ Loaded(u, Len(Declarations(u)))
  BY DEF BeforeEntry
<1>2. Len(u.entries) \in Nat /\ u.places[1] = u.at + 11
  BY <1>1, Here, UnitIs
<1>3. info_end = u.end
  BY <1>1, HeaderIs
<1> DEFINE count == Len(u.entries)
<1>4. k \in Nat /\ (k \in 1 .. count \/ k > count) /\ (k > count => k \notin 1 .. count)
  <2> HIDE DEF count
  <2>1. count \in Nat /\ k \in 1 .. count + 1
    BY <1>1, <1>2 DEF count
  <2> QED BY <2>1
<1>5. ASSUME k \in 1 .. count
      PROVE  EntryAt(file, n, u, k, u.entries[k], info, u.places[k + 1])
  BY <1>1, <1>5 DEF EntryAt
<1> QED BY <1>1, <1>2, <1>3, <1>4, <1>5

\* An entry that has not been passed.
LEMMA EntryThere ==
  ASSUME WellEncoded, PlaceOK, NEW n, NEW k, BeforeEntry(n, k), info < info_end, NEW u, u = file.units[n]
  PROVE  EntryAt(file, n, u, k, u.entries[k], info, u.places[k + 1])
<1>1. u.end \in Nat
  BY EntryComes, Here, UnitIs
<1> QED BY <1>1, EntryComes

\* At the end of a unit no list is open, and the next unit comes.
LEMMA StepEndUnit ==
  ASSUME WellEncoded, InPlace, EndUnit PROVE InPlace' /\ WalkStep
<1>1. /\ pc = "die" /\ pc' = "unit" /\ UNCHANGED builder /\ info >= info_end
      /\ UNCHANGED <<file, info, info_bytes, unit_hdr, abbrev, abbrev_bytes, compilation_unit_>>
  BY DEF EndUnit
<1>2. PlaceOK /\ TableOK
  BY DEF InPlace
<1>3. PICK n, k \in Nat : BeforeEntry(n, k)
  BY <1>1 DEF InPlace
<1> DEFINE u == file.units[n]
<1>4. /\ n \in 1 .. Len(file.units) /\ unit_hdr = u.at /\ u.places[1] = u.at + 11
      /\ Settled(file, info) /\ info_end = u.end
      /\ \/ k \notin 1 .. Len(u.entries) /\ info = u.end /\ OpenAt(file, info) = {}
         \/ EntryAt(file, n, u, k, u.entries[k], info, u.places[k + 1])
  BY <1>2, <1>3, EntryComes
<1>5. info \in Nat /\ Legible(file)
  BY <1>2, Here
<1>6. u.end \in Nat /\ u.at \in Nat /\ Len(u.entries) \in Nat \ {0}
  BY <1>4, <1>5, UnitIs
<1>7. info = u.end /\ OpenAt(file, info) = {}
  <2>1. SUFFICES ASSUME EntryAt(file, n, u, k, u.entries[k], info, u.places[k + 1]) PROVE FALSE
    BY <1>4
  <2>2. info < info_end
    BY <1>2, <1>4, <2>1, EntryHere
  <2> QED BY <1>1, <1>4, <1>5, <1>6, <2>2
<1>8. u.end # u.at + 11
  <2>1. EntryAt(file, n, u, 1, u.entries[1], u.places[1], u.places[1 + 1])
    <3>1. 1 \in 1 .. Len(u.entries)
      <4> HIDE DEF u
      <4> QED BY <1>6
    <3> QED BY <1>4, <3>1 DEF EntryAt
  <2> DEFINE to == u.places[1 + 1]
             e == u.entries[1]
  <2> HIDE DEF to, e
  <2>2. EntryAt(file, n, u, 1, e, u.places[1], to)
    BY <2>1 DEF to, e
  <2>3. u.places[1] < e.places[1] /\ e.places[1] <= to /\ to <= u.end
        /\ to \in Nat /\ e.places[1] \in Nat /\ u.places[1] \in Nat
    BY <1>5, <2>2, EntryIs
  <2> QED BY <1>4, <1>6, <2>3
<1>9. BeforeUnit'
  <2>1. info = Len(file.info) \/ \E m \in 1 .. Len(file.units) : info = file.units[m].at
    BY <1>2, <1>4, <1>7, UnitOver
  <2> QED BY <1>1, <1>4, <1>7, <2>1 DEF BeforeUnit
<1>10. InPlace'
  <2>1. PlaceOK' /\ TableOK'
    BY <1>1, <1>2 DEF PlaceOK, TableOK
  <2> QED BY <1>1, <1>9, <2>1 DEF InPlace
<1>11. Walk!EndUnit
  <2>1. walk_pc = "die" /\ walk_pc' = "unit"
    BY <1>1, <1>4, <1>7, <1>8, PcIs, PcBecomes DEF PcMeans
  <2>2. walk_open = <<>>
    BY <1>7, OrderedEmpty DEF walk_open
  <2> QED BY <1>1, <2>1, <2>2, WalkStands DEF Walk!EndUnit, Walk!builder, builder
<1> QED BY <1>10, <1>11 DEF WalkStep, Walk!Next

\* The code of every declaration is loaded, and nothing else.
LEMMA CodesLoaded ==
  ASSUME WellEncoded, PlaceOK, NEW n, NEW k, BeforeEntry(n, k), NEW u, u = file.units[n],
         NEW code
  PROVE  code \in DOMAIN compilation_unit_ <=>
           \E i \in 1 .. Len(Declarations(u)) : code = Declarations(u)[i].code
<1>1. Loaded(u, Len(Declarations(u)))
  BY EntryComes
<1>2. DOMAIN compilation_unit_ = {Declarations(u)[j].code : j \in 1 .. Len(Declarations(u))}
  BY <1>1 DEF Loaded
<1> QED BY <1>2

\* A number that is in no table ends the walk.
LEMMA StepUnknownAbbrev ==
  ASSUME WellEncoded, InPlace, UnknownAbbrev PROVE InPlace' /\ WalkStep
<1>1. /\ pc = "die" /\ pc' = "returned" /\ UNCHANGED builder /\ info < info_end
      /\ UNCHANGED <<file, unit_hdr, abbrev, abbrev_bytes, compilation_unit_>>
      /\ Number.result \notin DOMAIN compilation_unit_ \union {0} /\ Advance(Number.length)
  BY DEF UnknownAbbrev
<1>2. PlaceOK /\ TableOK
  BY DEF InPlace
<1>3. PICK n, k \in Nat : BeforeEntry(n, k)
  BY <1>1 DEF InPlace
<1> DEFINE u == file.units[n]
           e == u.entries[k]
           to == u.places[k + 1]
<1>4. EntryAt(file, n, u, k, e, info, to) /\ unit_hdr = u.at /\ Settled(file, info)
  BY <1>1, <1>2, <1>3, EntryThere, EntryComes
<1>5. /\ Legible(file) /\ DiesInOrder(file) /\ info \in Nat /\ Len(file.info) \in Nat
  BY <1>2, Here
<1> HIDE DEF e, to
<1>6. /\ to \in Nat /\ e.places[1] \in Nat /\ info < e.places[1] /\ e.places[1] <= to /\ to <= Len(file.info)
      /\ \/ Format!NullEncoded(file, u, e, info, to)
         \/ Format!DieEntryEncoded(file, u, e, info, to)
         \/ Format!UnknownEncoded(file, u, e, info, to)
  BY <1>4, <1>5, EntryIs
<1>7. /\ Number.length = e.places[1] - info
      /\ Number.result = Format!LebValue(file.info, info, e.places[1])
  BY <1>2, <1>4, EntryHere
<1>8. ~Format!NullEncoded(file, u, e, info, to)
  BY <1>1, <1>7 DEF Format!NullEncoded
<1>9. ~Format!DieEntryEncoded(file, u, e, info, to)
  <2>1. SUFFICES ASSUME Format!DieEntryEncoded(file, u, e, info, to) PROVE FALSE
    OBVIOUS
  <2>2. e.declaration \in 1 .. Len(Declarations(u))
        /\ Number.result = Declarations(u)[e.declaration].code
    BY <1>7, <2>1 DEF Format!DieEntryEncoded, Declarations, Table
  <2> QED BY <1>1, <1>2, <1>3, <2>2, CodesLoaded
<1>10. Format!Begun(file, info, to) = {} /\ Format!Closed(file, info, to) = {}
  BY <1>6, <1>8, <1>9 DEF Format!UnknownEncoded
<1>11. Format!Begun(file, info, e.places[1]) = {} /\ Format!Closed(file, info, e.places[1]) = {}
  <2>1. info .. e.places[1] - 1 \subseteq info .. to - 1
    BY <1>5, <1>6
  <2>2. info + 1 .. e.places[1] \subseteq info + 1 .. to
    BY <1>5, <1>6
  <2>3. Format!Begun(file, info, e.places[1]) = {}
    BY <1>10, <2>1 DEF Format!Begun
  <2>4. Format!Closed(file, info, e.places[1]) = {}
    BY <1>10, <2>2 DEF Format!Closed
  <2> QED BY <2>3, <2>4
<1>12. info' = e.places[1] /\ info_bytes' = Len(file.info) - e.places[1]
  <2>1. info <= e.places[1] /\ e.places[1] <= Len(file.info)
    BY <1>5, <1>6
  <2> QED BY <1>1, <1>2, <1>6, <1>7, <2>1, Advances
<1>13. DiesAt(file, info') = DiesAt(file, info) /\ OpenAt(file, info') = OpenAt(file, info)
  <2>1. info <= e.places[1]
    BY <1>5, <1>6
  <2>2. /\ DiesAt(file, e.places[1]) = DiesAt(file, info)
        /\ OpenAt(file, e.places[1]) = OpenAt(file, info) \ Format!Closed(file, info, e.places[1])
    BY <1>4, <1>5, <1>6, <1>11, <2>1, NothingBegins
  <2> QED BY <1>11, <1>12, <2>2
<1>14. PlaceOK' /\ TableOK'
  <2>1. info' \in 0 .. Len(file.info)
    BY <1>5, <1>6, <1>12
  <2> QED BY <1>1, <1>2, <1>12, <2>1 DEF PlaceOK, TableOK
<1>15. InPlace'
  BY <1>1, <1>14, Over
<1> QED BY <1>1, <1>13, <1>15, Returns, WalkGoesOn

\* The innermost of the open lists.
LEMMA InnermostIs ==
  ASSUME NEW S \in SUBSET Nat, IsFiniteSet(S), S # {}
  PROVE  \E m \in S : Format!Innermost(S) = {m} /\ \A d \in S : d <= m
<1>1. PICK m \in S : \A d \in S : d <= m
  <2>1. Ordered(S) \in Seq(Nat) /\ Len(Ordered(S)) = Cardinality(S)
    BY OrderedIsSequence
  <2>2. Ranked(S)
    BY SetsAreRanked
  <2>3. Cardinality(S) \in Nat /\ Cardinality(S) # 0
    BY FS_CardinalityType, FS_EmptySet
  <2>4. PICK m \in S : Cardinality(UpTo(S, m)) = Cardinality(S)
    BY <2>2, <2>3 DEF Ranked
  <2>5. ASSUME NEW d \in S PROVE d <= m
    <3>1. SUFFICES ASSUME m < d PROVE FALSE
      OBVIOUS
    <3>2. /\ Cardinality(UpTo(S, m)) < Cardinality(UpTo(S, d))
          /\ Cardinality(UpTo(S, d)) \in 1 .. Cardinality(S)
      BY <2>2, <3>1 DEF Ranked
    <3> QED BY <2>3, <2>4, <3>2
  <2> QED BY <2>5
<1>2. \A c \in S : c \in Nat
  OBVIOUS
<1>3. Format!Innermost(S) = {m}
  <2>1. m \in Format!Innermost(S)
    BY <1>1 DEF Format!Innermost
  <2>2. ASSUME NEW c \in Format!Innermost(S) PROVE c = m
    <3>1. c \in S /\ m <= c /\ c <= m
      BY <1>1 DEF Format!Innermost
    <3> QED BY <1>2, <3>1
  <2> QED BY <2>1, <2>2
<1> QED BY <1>1, <1>3

\* A null entry closes the innermost list, in both walks.
LEMMA StepReadNull ==
  ASSUME WellEncoded, InPlace, ReadNull PROVE InPlace' /\ WalkStep
<1>1. /\ pc = "die" /\ pc' = "die" /\ info < info_end /\ Number.result = 0
      /\ UNCHANGED <<file, unit_hdr, abbrev, abbrev_bytes, compilation_unit_>>
      /\ EndOfChildren /\ Advance(Number.length)
  BY DEF ReadNull
<1>2. PlaceOK /\ TableOK
  BY DEF InPlace
<1>3. PICK n, k \in Nat : BeforeEntry(n, k)
  BY <1>1 DEF InPlace
<1> DEFINE u == file.units[n]
           e == u.entries[k]
           to == u.places[k + 1]
<1>4. /\ EntryAt(file, n, u, k, e, info, to) /\ unit_hdr = u.at /\ Settled(file, info)
      /\ n \in 1 .. Len(file.units) /\ Loaded(u, Len(Declarations(u)))
      /\ u.places[1] = u.at + 11
  BY <1>1, <1>2, <1>3, EntryThere, EntryComes
<1>5. /\ Legible(file) /\ DiesInOrder(file) /\ info \in Nat /\ Len(file.info) \in Nat
  BY <1>2, Here
<1> HIDE DEF e, to
<1>6. /\ to \in Nat /\ e.places[1] \in Nat /\ info < e.places[1] /\ e.places[1] <= to /\ to <= Len(file.info)
      /\ \/ Format!NullEncoded(file, u, e, info, to)
         \/ Format!DieEntryEncoded(file, u, e, info, to)
         \/ Format!UnknownEncoded(file, u, e, info, to)
  BY <1>4, <1>5, EntryIs
<1>7. /\ Number.length = e.places[1] - info
      /\ Number.result = Format!LebValue(file.info, info, e.places[1])
  BY <1>2, <1>4, EntryHere
<1>8. ~Format!UnknownEncoded(file, u, e, info, to)
  BY <1>1, <1>7 DEF Format!UnknownEncoded
<1>9. ~Format!DieEntryEncoded(file, u, e, info, to)
  <2>1. SUFFICES ASSUME Format!DieEntryEncoded(file, u, e, info, to) PROVE FALSE
    OBVIOUS
  <2> DEFINE D == file.tables[u.table].declarations[e.declaration]
  <2>2. /\ e.declaration \in 1 .. Len(file.tables[u.table].declarations)
        /\ Number.result = D.code
    BY <1>7, <2>1 DEF Format!DieEntryEncoded
  <2>3. D.code # 0
    <3>1. u.table \in 1 .. Len(file.tables)
      BY <1>4, <1>5, UnitIs
    <3>2. InTable(u.table, file.tables[u.table], e.declaration, D)
      BY <2>2, <3>1 DEF InTable
    <3> HIDE DEF D, u
    <3> QED BY <1>5, <3>2, DeclarationTyped
  <2> QED BY <1>1, <2>2, <2>3
<1>10. /\ e.declaration = 0 /\ to = e.places[1] /\ info # u.places[1]
       /\ Format!Begun(file, info, to) = {}
       /\ Format!Closed(file, info, to) = Format!Innermost(OpenAt(file, info))
  <2>1. Format!NullEncoded(file, u, e, info, to)
    BY <1>6, <1>8, <1>9
  <2> QED BY <1>5, <2>1, OpenAtFormat DEF Format!NullEncoded
<1>11. info' = to /\ info_bytes' = Len(file.info) - to
  <2>1. info <= to
    BY <1>5, <1>6
  <2> QED BY <1>1, <1>2, <1>6, <1>7, <1>10, <2>1, Advances
<1>12. /\ DiesAt(file, to) = DiesAt(file, info) /\ Settled(file, to)
       /\ OpenAt(file, to) = OpenAt(file, info) \ Format!Innermost(OpenAt(file, info))
  <2>1. info <= to
    BY <1>5, <1>6
  <2> QED BY <1>4, <1>5, <1>6, <1>10, <2>1, NothingBegins
<1>13. /\ k + 1 \in 1 .. Len(u.entries) + 1 /\ to = u.places[k + 1] /\ to # u.places[1]
       /\ k + 1 > Len(u.entries) => to = u.end /\ OpenAt(file, to) = {}
  <2>1. Len(Declarations(u)) \in Nat
    <3>1. u.table \in 1 .. Len(file.tables)
      BY <1>4, <1>5, UnitIs
    <3> QED BY <1>5, <3>1, TableIs DEF Declarations, Table
  <2>2. e.declaration <= Len(Declarations(u))
    <3> HIDE DEF u
    <3> QED BY <1>10, <2>1
  <2> QED BY <1>2, <1>4, <2>2, EntryOver
<1>14. PlaceOK' /\ TableOK'
  <2>1. info' \in 0 .. Len(file.info)
    BY <1>5, <1>6, <1>11
  <2> QED BY <1>1, <1>2, <1>11, <2>1 DEF PlaceOK, TableOK
<1>15. BeforeEntry(n, k + 1)'
  <2>1. Loaded(u, Len(Declarations(u)))'
    BY <1>1, <1>4 DEF Loaded, Declarations, Table
  <2> QED BY <1>1, <1>4, <1>11, <1>12, <1>13, <2>1 DEF BeforeEntry
<1>16. InPlace'
  <2>1. k + 1 \in Nat
    BY <1>3
  <2> QED BY <1>1, <1>3, <1>14, <1>15, <2>1 DEF InPlace
<1>17. Walk!ReadNull
  <2>1. walk_pc = "die" /\ walk_pc' = "die"
    BY <1>1, <1>4, <1>10, <1>11, <1>13, PcIs, PcBecomes DEF PcMeans
  <2>2. walk_dies' = walk_dies
    BY <1>1, <1>11, <1>12 DEF walk_dies
  <2>3. walk_open' = IF walk_open = <<>> THEN <<>> ELSE Front(walk_open)
    <3> DEFINE S == OpenAt(file, info)
    <3>1. S \in SUBSET Nat /\ IsFiniteSet(S)
      BY <1>5, OpenIsFinite
    <3>2. walk_open = Ordered(S) /\ walk_open' = Ordered(S \ Format!Innermost(S))
      BY <1>1, <1>11, <1>12 DEF walk_open
    <3> HIDE DEF S
    <3>3. CASE S = {}
      <4>1. S \ Format!Innermost(S) = {}
        BY <3>3
      <4> QED BY <3>2, <3>3, <4>1, OrderedEmpty
    <3>4. CASE S # {}
      <4>1. PICK m \in S : Format!Innermost(S) = {m} /\ \A d \in S : d <= m
        BY <3>1, <3>4, InnermostIs
      <4>2. m \in Nat
        BY <3>1, <4>1
      <4>3. Ordered(S) # <<>> /\ Front(Ordered(S)) = Ordered(S \ {m})
        BY <3>1, <4>1, <4>2, OrderedShrinks
      <4> QED BY <3>2, <4>1, <4>3
    <3> QED BY <3>3, <3>4
  <2>4. Walk!EndOfChildren
    BY <1>1, EndAgrees
  <2>5. Walk!Front(walk_open) = Front(walk_open)
    BY DEF Walk!Front, Front
  <2> QED BY <2>1, <2>2, <2>3, <2>4, <2>5 DEF Walk!ReadNull
<1> QED BY <1>16, <1>17 DEF WalkStep, Walk!Next

\* The lists open once a DIE has begun.
LEMMA DieOpens ==
  ASSUME NEW f, DiesInOrder(f), NEW p \in Nat, NEW q \in Nat, NEW d, Begins(f, d, p, q),
         NEW x \in p + 1 .. q
  PROVE  OpenAt(f, x) = IF f.dies[d].children THEN OpenAt(f, p) \union {d} ELSE OpenAt(f, p)
BY DieBegins

\* The places in a declaration lie in the section.
LEMMA PlacesTyped ==
  ASSUME Legible(file), NEW t, NEW T, NEW i, NEW D, InTable(t, T, i, D)
  PROVE  \A j \in 1 .. Len(D.specs) + 1 : D.places[j] \in Nat /\ D.places[j] + 2 <= Len(file.abbrev)
<1>1. /\ t \in 1 .. Len(file.tables) /\ T = file.tables[t]
      /\ i \in 1 .. Len(T.declarations) /\ D = T.declarations[i]
  BY DEF InTable
<1> QED BY <1>1, DeclarationIs

\* The declaration of a DIE.
LEMMA DeclarationOfDie ==
  ASSUME WellEncoded, PlaceOK, NEW n, NEW u, NEW k, NEW e, NEW from, NEW to,
         EntryAt(file, n, u, k, e, from, to), Format!DieEntryEncoded(file, u, e, from, to),
         NEW D, D = Declared(u, e)
  PROVE  /\ DeclaredBy(file, u, e, D) /\ InTable(u.table, Table(u), e.declaration, D)
         /\ D.tag \in AllTags /\ D.children \in BOOLEAN /\ Len(D.specs) \in Nat
         /\ D.code # 0 /\ Format!DeclarationSound(D)
         /\ e.declaration \in 1 .. Len(Declarations(u)) /\ D = Declarations(u)[e.declaration]
<1>1. DeclaredBy(file, u, e, D) /\ Legible(file)
  BY Here DEF DeclaredBy, Declared, Declarations, Table
<1>2. e.declaration \in 1 .. Len(Declarations(u)) /\ D = Declarations(u)[e.declaration]
  BY <1>1, DieEntryIs DEF DieThere, Declared, Declarations, Table
<1>3. u.table \in 1 .. Len(file.tables)
  BY <1>1, UnitIs DEF EntryAt
<1>4. InTable(u.table, Table(u), e.declaration, D)
  BY <1>2, <1>3 DEF InTable, Declarations, Table
<1>5. /\ D.tag \in AllTags /\ D.children \in BOOLEAN /\ Len(D.specs) \in Nat
      /\ D.code # 0 /\ Format!DeclarationSound(D)
  BY <1>1, <1>4, DeclarationTyped
<1> QED BY <1>1, <1>2, <1>4, <1>5

\* The innermost list, as the walk finds it.
LEMMA LastOpen ==
  ASSUME WellEncoded, PlaceOK, NEW d, NEW to \in Nat, Begins(file, d, info, to), Settled(file, info),
         info < to, OpenAt(file, info) # {}
  PROVE  /\ walk_open # <<>> /\ Format!Innermost(OpenAt(file, info)) = {Last(walk_open)}
         /\ Last(walk_open) \in Nat /\ Last(walk_open) # 0
         /\ walk_dies[Last(walk_open)].tag \in AllTags
<1> DEFINE S == OpenAt(file, info)
<1>1. /\ DiesInOrder(file) /\ info \in Nat
  BY Here
<1>2. S \in SUBSET Nat /\ IsFiniteSet(S)
  BY <1>1, OpenIsFinite
<1>3. PICK m \in S : Format!Innermost(S) = {m} /\ \A c \in S : c <= m
  BY <1>2, InnermostIs
<1>4. m \in Nat
  BY <1>2, <1>3
<1>5. Ordered(S) # <<>> /\ Last(Ordered(S)) = m
  BY <1>2, <1>3, <1>4, OrderedShrinks
<1>6. walk_open # <<>> /\ Last(walk_open) = m
  BY <1>5 DEF walk_open
<1>7. info + 1 \in info + 1 .. to
  BY <1>1
<1>8. /\ ReadAt(file, info) = 1 .. d - 1
      /\ d \in Nat \ {0} /\ DiesAt(file, info) = [c \in 1 .. d - 1 |-> DieRead(file, c, info)]
  BY <1>1, <1>7, DieBegins, DiesWhile
<1>9. m \in 1 .. d - 1
  BY <1>3, <1>8 DEF OpenAt
<1>10. walk_dies[m].tag = file.dies[m].tag
  BY <1>8, <1>9 DEF walk_dies, DieRead
<1>11. file.dies[m].tag \in AllTags
  <2>1. d \in 1 .. Len(file.dies) /\ Len(file.dies) \in Nat
    BY <1>1 DEF Begins, DiesInOrder
  <2>2. m \in 1 .. Len(file.dies)
    BY <1>9, <2>1
  <2> QED BY <1>1, <2>2, DieTyped, TagsTyped
<1>12. m # 0
  BY <1>8, <1>9
<1> QED BY <1>3, <1>4, <1>6, <1>10, <1>11, <1>12

\* What the walk has of DIE d, which begins at info, once it is at x.
Comes(u, D, d, x, to) ==
  /\ x \in info + 1 .. to /\ d \in Nat \ {0} /\ d <= MaxDies /\ Len(walk_dies) = d - 1
  /\ DiesAt(file, x) =
       Append(walk_dies,
              [id |-> info, tag |-> D.tag, children |-> D.children,
               parent |-> IF walk_open = <<>> THEN 0 ELSE Last(walk_open),
               attrs |-> [a \in Attribute |-> {}]])
  /\ Len(DiesAt(file, x)) = d
  /\ Ordered(OpenAt(file, x)) =
       IF D.children THEN Append(walk_open, d) ELSE walk_open
  /\ info = u.places[1] <=> D.tag = "DW_TAG_compile_unit"
  /\ info = u.places[1] <=> walk_open = <<>>
  /\ walk_open # <<>> => walk_dies[Last(walk_open)].tag \in AllTags
  /\ \A c \in DOMAIN walk_dies : walk_dies[c].id < info
  /\ info \in DieOffsets[d]

\* The DIE that an entry is begins: what the walk has of it.
LEMMA DieComes ==
  ASSUME WellEncoded, PlaceOK, NEW n, NEW u, NEW k, NEW e, NEW to,
         EntryAt(file, n, u, k, e, info, to), Format!DieEntryEncoded(file, u, e, info, to),
         NEW D, D = Declared(u, e), NEW d, Begins(file, d, info, to), ValuesLaid(file, u, e, D, d),
         Format!DieEncoded(file, u, e, D, d, info), Settled(file, info),
         NEW x, x = e.places[1]
  PROVE  Comes(u, D, d, x, to)
<1>1. /\ DiesInOrder(file) /\ info \in Nat /\ Legible(file)
  BY Here
<1>2. /\ to \in Nat /\ info < e.places[1] /\ e.places[1] <= to /\ e.places[1] \in Nat
  BY <1>1, EntryIs
<1>3. x \in Nat /\ x \in info + 1 .. to /\ info < to /\ to \in Nat
  BY <1>1, <1>2
<1>4. /\ d \in Nat \ {0} /\ Len(DiesAt(file, info)) = d - 1 /\ Len(DiesAt(file, x)) = d
      /\ DiesAt(file, info) = [c \in 1 .. d - 1 |-> DieRead(file, c, info)]
  BY <1>1, <1>2, <1>3, DiesWhile
<1>5. Len(walk_dies) = d - 1
  BY <1>4 DEF walk_dies
<1>6. /\ d \in 1 .. Len(file.dies) /\ Len(file.dies) \in Nat /\ file.dies[d].id = info
  BY <1>1 DEF Begins, DiesInOrder
<1>7. Len(file.dies) <= MaxDies /\ MaxDies \in Nat
  BY <1>1, SectionsAssumption DEF Legible
<1>8. d <= MaxDies /\ d \in 1 .. MaxDies
  BY <1>6, <1>7
<1>9. info \in DieOffsets[d]
  <2>1. file \in Having(d)
    BY <1>6 DEF Having, PlaceOK
  <2> QED BY <1>6, <1>8, <2>1 DEF DieOffsets
<1>10. /\ file.dies[d].tag = D.tag /\ file.dies[d].children = D.children
       /\ Format!Innermost(OpenAt(file, info)) =
            IF file.dies[d].parent = 0 THEN {} ELSE {file.dies[d].parent}
       /\ info = u.places[1] <=> OpenAt(file, info) = {}
       /\ info = u.places[1] <=> D.tag = "DW_TAG_compile_unit"
  BY <1>1, OpenAtFormat DEF Format!DieEncoded
<1> DEFINE S == OpenAt(file, info)
<1>11. S \in SUBSET Nat /\ IsFiniteSet(S)
  BY <1>1, OpenIsFinite
<1>12. walk_open = <<>> <=> S = {}
  BY <1>11, OrderedIsSequence DEF walk_open
<1>13. file.dies[d].parent = IF walk_open = <<>> THEN 0 ELSE Last(walk_open)
  <2>1. CASE S = {}
    <3>1. Format!Innermost(S) = {}
      BY <2>1 DEF Format!Innermost
    <3> QED BY <1>10, <1>12, <2>1, <3>1
  <2>2. CASE S # {}
    <3>1. Format!Innermost(S) = {Last(walk_open)} /\ Last(walk_open) # 0
      BY <1>3, <1>2, <2>2, LastOpen
    <3> HIDE DEF S
    <3> QED BY <1>10, <1>12, <2>2, <3>1 DEF S
  <2> QED BY <2>1, <2>2
<1>14. DiesAt(file, x) =
         Append(DiesAt(file, info),
                [id |-> info, tag |-> file.dies[d].tag, children |-> file.dies[d].children,
                 parent |-> file.dies[d].parent, attrs |-> [a \in Attribute |-> {}]])
  <2>1. \A a \in Attribute : file.dies[d].ends[a] <= x => file.dies[d].attrs[a] = {}
    BY EndsFirst
  <2>2. /\ to \in Nat /\ info \in Nat /\ DiesInOrder(file) /\ Begins(file, d, info, to)
        /\ Settled(file, info) /\ x \in info + 1 .. to
    BY <1>1, <1>3
  <2> HIDE DEF S
  <2> QED BY <2>1, <2>2, DieAppears, Zenon
<1>15. OpenAt(file, x) = IF D.children THEN S \union {d} ELSE S
  <2>1. OpenAt(file, x) = IF file.dies[d].children THEN S \union {d} ELSE S
    <3>1. /\ to \in Nat /\ info \in Nat /\ DiesInOrder(file) /\ Begins(file, d, info, to)
          /\ x \in info + 1 .. to
      BY <1>1, <1>3
    <3> QED BY <3>1, DieOpens
  <2> QED BY <1>10, <2>1
<1>16. Ordered(OpenAt(file, x)) = IF D.children THEN Append(walk_open, d) ELSE walk_open
  <2>1. \A c \in S : c < d
    <3>1. ReadAt(file, info) = 1 .. d - 1
      BY <1>1, <1>2, <1>3, DieBegins
    <3> QED BY <1>4, <3>1 DEF OpenAt
  <2>2. Ordered(S \union {d}) = Append(Ordered(S), d)
    <3> HIDE DEF S
    <3> QED BY <1>4, <1>11, <2>1, OrderedGrows
  <2>3. walk_open = Ordered(S)
    BY DEF walk_open
  <2> HIDE DEF S
  <2>4. CASE D.children
    BY <1>15, <2>2, <2>3, <2>4
  <2>5. CASE ~D.children
    BY <1>15, <2>3, <2>5
  <2> QED BY <2>4, <2>5
<1>17. ASSUME walk_open # <<>> PROVE walk_dies[Last(walk_open)].tag \in AllTags
  BY <1>2, <1>3, <1>12, <1>17, LastOpen
<1>18. ASSUME NEW c \in DOMAIN walk_dies PROVE walk_dies[c].id < info
  <2>1. c \in 1 .. d - 1 /\ walk_dies[c] = DieRead(file, c, info)
    BY <1>4, <1>18 DEF walk_dies
  <2>2. c \in 1 .. Len(file.dies) /\ c < d
    BY <1>4, <1>6, <2>1
  <2>3. file.dies[c].id < file.dies[d].id
    BY <1>1, <1>6, <2>2 DEF DiesInOrder
  <2> QED BY <1>6, <2>1, <2>3 DEF DieRead
<1>19. DiesAt(file, x) =
         Append(walk_dies,
                [id |-> info, tag |-> D.tag, children |-> D.children,
                 parent |-> IF walk_open = <<>> THEN 0 ELSE Last(walk_open),
                 attrs |-> [a \in Attribute |-> {}]])
  BY <1>10, <1>13, <1>14 DEF walk_dies
<1> QED BY <1>3, <1>4, <1>5, <1>8, <1>9, <1>10, <1>12, <1>16, <1>17, <1>18, <1>19 DEF Comes

\* What is loaded under a number is what its declaration says.
LEMMA LoadedIs ==
  ASSUME NEW u, Loaded(u, Len(Declarations(u))), NEW i \in 1 .. Len(Declarations(u)),
         NEW D, D = Declarations(u)[i]
  PROVE  /\ D.code \in DOMAIN compilation_unit_
         /\ compilation_unit_[D.code] =
              [type |-> D.tag, has_children |-> D.children, ptr |-> D.places[1]]
BY DEF Loaded

\* A number that is not 0 is that of the DIE's declaration when it is loaded.
LEMMA NumberOfDie ==
  ASSUME WellEncoded, PlaceOK, NEW n, NEW k, BeforeEntry(n, k), info < info_end,
         Number.result \in DOMAIN compilation_unit_,
         NEW u, u = file.units[n], NEW e, e = u.entries[k], NEW to, to = u.places[k + 1]
  PROVE  Format!DieEntryEncoded(file, u, e, info, to)
<1>1. EntryAt(file, n, u, k, e, info, to) /\ unit_hdr = u.at /\ n \in 1 .. Len(file.units)
  BY EntryThere, EntryComes
<1>2. Legible(file)
  BY Here
<1>3. PICK i \in 1 .. Len(Declarations(u)) : Number.result = Declarations(u)[i].code
  BY CodesLoaded
<1>4. Number.result # 0
  <2>1. u.table \in 1 .. Len(file.tables)
    BY <1>1, <1>2, UnitIs
  <2>2. InTable(u.table, Table(u), i, Declarations(u)[i])
    BY <1>3, <2>1 DEF InTable, Declarations, Table
  <2>3. Declarations(u)[i].code \in Nat \ {0}
    BY <1>2, <2>2, DeclarationTyped
  <2> QED BY <1>3, <2>3
<1>5. /\ \/ Format!NullEncoded(file, u, e, info, to)
         \/ Format!DieEntryEncoded(file, u, e, info, to)
         \/ Format!UnknownEncoded(file, u, e, info, to)
      /\ e.places[1] \in Nat /\ e.places[1] <= to
  BY <1>1, <1>2, EntryIs
<1>6. Number.result = Format!LebValue(file.info, info, e.places[1])
  BY <1>1, EntryHere
<1>7. ~Format!NullEncoded(file, u, e, info, to)
  BY <1>4, <1>6 DEF Format!NullEncoded
<1>8. ~Format!UnknownEncoded(file, u, e, info, to)
  BY <1>3, <1>6 DEF Format!UnknownEncoded, Declarations, Table
<1> QED BY <1>5, <1>7, <1>8

\* The entry of a DIE opens it, in both walks, with the tag of its own unit's table.
LEMMA StepReadDie ==
  ASSUME WellEncoded, InPlace, ReadDie PROVE InPlace' /\ WalkStep
<1> DEFINE section == compilation_unit_[Number.result]
<1>1. /\ pc = "die" /\ pc' = "attr" /\ info < info_end /\ UNCHANGED <<file, unit_hdr, compilation_unit_>>
      /\ Number.result \in DOMAIN compilation_unit_
      /\ RegisterNewTag(section.type, info, section.has_children)
      /\ abbrev' = section.ptr /\ abbrev_bytes' = Minus(Len(file.abbrev), section.ptr)
      /\ Advance(Number.length)
  BY DEF ReadDie
<1>2. PlaceOK /\ TableOK
  BY DEF InPlace
<1>3. PICK n, k \in Nat : BeforeEntry(n, k)
  BY <1>1 DEF InPlace
<1> DEFINE u == file.units[n]
           e == u.entries[k]
           to == u.places[k + 1]
           D == Declared(u, e)
           x == e.places[1]
<1>4. /\ EntryAt(file, n, u, k, e, info, to) /\ unit_hdr = u.at /\ Settled(file, info)
      /\ n \in 1 .. Len(file.units) /\ Loaded(u, Len(Declarations(u)))
      /\ u.places[1] = u.at + 11
  BY <1>1, <1>2, <1>3, EntryThere, EntryComes
<1>5. Format!DieEntryEncoded(file, u, e, info, to)
  BY <1>1, <1>2, <1>3, NumberOfDie
<1>6. /\ Legible(file) /\ info \in Nat /\ Len(file.info) \in Nat /\ Len(file.abbrev) \in Nat
      /\ Len(file.abbrev) < SizeBound
  BY <1>2, Here
<1>7. k \in 1 .. Len(u.entries) /\ info = u.places[k]
  BY <1>4 DEF EntryAt
<1> HIDE DEF section, to, e
<1>8. /\ DeclaredBy(file, u, e, D) /\ InTable(u.table, Table(u), e.declaration, D)
      /\ D.tag \in AllTags /\ D.children \in BOOLEAN /\ Len(D.specs) \in Nat
      /\ D.code # 0 /\ Format!DeclarationSound(D)
      /\ e.declaration \in 1 .. Len(Declarations(u)) /\ D = Declarations(u)[e.declaration]
  BY <1>2, <1>4, <1>5, DeclarationOfDie
<1> HIDE DEF D
<1>9. /\ Format!LebValue(file.info, info, e.places[1]) = D.code
      /\ \E d : /\ Begins(file, d, info, to) /\ ValuesLaid(file, u, e, D, d)
                /\ Format!DieEncoded(file, u, e, D, d, info)
  <2>1. DieThere(file, u, e, D, info, to)
    BY <1>4, <1>5, <1>6, <1>8, DieEntryIs
  <2> QED BY <2>1 DEF DieThere
<1>10. PICK d : /\ Begins(file, d, info, to) /\ ValuesLaid(file, u, e, D, d)
                /\ Format!DieEncoded(file, u, e, D, d, info)
  BY <1>9
<1>11. /\ to \in Nat /\ to <= Len(file.info) /\ x \in Nat /\ info < x /\ x <= to
  BY <1>4, <1>6, EntryIs
<1>12. Number.length = x - info /\ Number.result = D.code
  BY <1>2, <1>4, <1>9, EntryHere
<1>13. section = [type |-> D.tag, has_children |-> D.children, ptr |-> D.places[1]]
  BY <1>4, <1>8, <1>12, LoadedIs DEF section
<1>14. /\ x \in info + 1 .. to /\ d \in Nat \ {0} /\ d <= MaxDies /\ Len(walk_dies) = d - 1
       /\ DiesAt(file, x) =
            Append(walk_dies,
                   [id |-> info, tag |-> D.tag, children |-> D.children,
                    parent |-> IF walk_open = <<>> THEN 0 ELSE Last(walk_open),
                    attrs |-> [a \in Attribute |-> {}]])
       /\ Len(DiesAt(file, x)) = d
       /\ Ordered(OpenAt(file, x)) =
            IF D.children THEN Append(walk_open, d) ELSE walk_open
       /\ info = u.places[1] <=> D.tag = "DW_TAG_compile_unit"
       /\ info = u.places[1] <=> walk_open = <<>>
       /\ walk_open # <<>> => walk_dies[Last(walk_open)].tag \in AllTags
       /\ \A c \in DOMAIN walk_dies : walk_dies[c].id < info
       /\ info \in DieOffsets[d]
  <2> HIDE DEF u
  <2>1. D = Declared(u, e) /\ x = e.places[1]
    BY DEF D
  <2> HIDE DEF x
  <2>2. Comes(u, D, d, x, to)
    BY <1>2, <1>4, <1>5, <1>10, <2>1, DieComes
  <2> QED BY <2>2 DEF Comes
<1> HIDE DEF x
<1>15. info' = x /\ info_bytes' = Len(file.info) - x
  <2>1. info <= x /\ x <= Len(file.info)
    BY <1>6, <1>11
  <2> QED BY <1>1, <1>2, <1>11, <1>12, <2>1, Advances
<1>16. D.places[1] \in Nat /\ D.places[1] <= Len(file.abbrev)
  <2>1. 1 \in 1 .. Len(D.specs) + 1
    BY <1>8
  <2>2. \A j \in 1 .. Len(D.specs) + 1 : D.places[j] \in Nat /\ D.places[j] + 2 <= Len(file.abbrev)
    BY <1>6, <1>8, PlacesTyped
  <2> QED BY <1>6, <2>1, <2>2
<1>17. abbrev' = D.places[1] /\ abbrev_bytes' = Len(file.abbrev) - D.places[1]
  <2>1. Minus(Len(file.abbrev), D.places[1]) = Len(file.abbrev) - D.places[1]
    BY <1>6, <1>16, MinusIs
  <2> QED BY <1>1, <1>13, <2>1
<1>18. PlaceOK' /\ TableOK'
  <2>1. info' \in 0 .. Len(file.info)
    BY <1>6, <1>11, <1>15
  <2>2. abbrev' \in 0 .. Len(file.abbrev) /\ abbrev_bytes' \in 0 .. Len(file.abbrev)
    BY <1>6, <1>16, <1>17
  <2> QED BY <1>1, <1>2, <1>15, <2>1, <2>2 DEF PlaceOK, TableOK
<1>19. BeforeValue(n, k, 1)'
  <2>1. Loaded(u, Len(Declarations(u)))'
    BY <1>1, <1>4 DEF Loaded, Declarations, Table
  <2>2. 1 \in 1 .. Len(D.specs) + 1
    BY <1>8
  <2> QED BY <1>1, <1>4, <1>5, <1>7, <1>15, <1>17, <2>1, <2>2
       DEF BeforeValue, Declared, Declarations, Table, D, e, to, x
<1>20. InPlace'
  <2>1. 1 \in Nat
    OBVIOUS
  <2> QED BY <1>1, <1>3, <1>18, <1>19, <2>1 DEF InPlace
<1>21. RegisterNewTag(D.tag, info, D.children)
  BY <1>1, <1>13
<1>22. Walk!ReadDie(info, D.tag, D.children)
  <2>1. walk_pc = (IF D.tag \in Walk!Roots THEN "root" ELSE "die")
    BY <1>1, <1>4, <1>14, PcIs DEF PcMeans, Walk!Roots
  <2>2. walk_pc' = "attr"
    BY <1>1, PcBecomes DEF PcMeans
  <2>3. walk_pc = "die" => walk_open # <<>> /\ <<walk_dies[Last(walk_open)].tag, D.tag>> \in AllTags \X AllTags
    BY <1>8, <1>14, <2>1 DEF Walk!Roots
  <2>4. D.tag \in Walk!Leaves => ~D.children
    BY <1>8 DEF Format!DeclarationSound, Walk!Leaves
  <2>5. walk_dies' = DiesAt(file, x) /\ walk_open' = Ordered(OpenAt(file, x))
    BY <1>1, <1>15 DEF walk_dies, walk_open
  <2>6. Walk!RegisterNewTag(D.tag, info, D.children)
    BY <1>21, RegisterAgrees
  <2>7. Walk!Last(walk_open) = Last(walk_open) /\ Walk!Attribute = Attribute
    BY EndAgrees DEF Walk!Last, Last
  <2>8. walk_dies' = Append(walk_dies,
                       [id |-> info, tag |-> D.tag, children |-> D.children,
                        parent |-> IF walk_open = <<>> THEN 0 ELSE Last(walk_open),
                        attrs |-> [a \in Attribute |-> {}]])
    BY <1>14, <2>5
  <2>9. walk_open' = IF D.children THEN Append(walk_open, Len(walk_dies')) ELSE walk_open
    BY <1>14, <2>5
  <2> QED BY <1>14, <2>1, <2>2, <2>3, <2>4, <2>6, <2>7, <2>8, <2>9 DEF Walk!ReadDie
<1>23. Walk!Next
  <2>1. Len(walk_dies) < MaxDies /\ Len(walk_dies) + 1 = d
    BY <1>14, SectionsAssumption
  <2>2. info \in DieOffsets[Len(walk_dies) + 1]
    BY <1>14, <2>1
  <2> QED BY <1>8, <1>22, <2>1, <2>2 DEF Walk!Next
<1> QED BY <1>20, <1>23 DEF WalkStep

\* What holds between the attributes of a DIE.
Between(n, u, k, e, from, to, D, j) ==
  /\ n \in 1 .. Len(file.units) /\ u = file.units[n] /\ unit_hdr = u.at /\ u.at \in Nat
  /\ u.places[1] = u.at + 11 /\ k \in 1 .. Len(u.entries) /\ e = u.entries[k]
  /\ from = u.places[k] /\ to = u.places[k + 1] /\ D = Declared(u, e)
  /\ EntryAt(file, n, u, k, e, from, to) /\ Format!DieEntryEncoded(file, u, e, from, to)
  /\ Settled(file, from) /\ Loaded(u, Len(Declarations(u)))
  /\ from \in Nat /\ to \in Nat /\ to <= Len(file.info)
  /\ to = e.places[Len(D.specs) + 1]
  /\ InTable(u.table, Table(u), e.declaration, D) /\ Format!DeclarationSound(D)
  /\ InList /\ j \in 1 .. Len(D.specs) + 1 /\ abbrev = D.places[j] /\ info = e.places[j]
  /\ Len(D.specs) \in Nat
  /\ \A i \in 1 .. Len(D.specs) + 1 : e.places[i] \in from + 1 .. to
  /\ e.declaration \in 1 .. Len(Declarations(u))

\* Between two attributes this holds.
LEMMA ValueComes ==
  ASSUME WellEncoded, PlaceOK, NEW n, NEW k, NEW j, BeforeValue(n, k, j),
         NEW u, u = file.units[n], NEW e, e = u.entries[k], NEW D, D = Declared(u, e),
         NEW from, from = u.places[k], NEW to, to = u.places[k + 1]
  PROVE  /\ Between(n, u, k, e, from, to, D, j)
         /\ \E d : /\ Begins(file, d, from, to) /\ ValuesLaid(file, u, e, D, d)
                   /\ Format!DieEncoded(file, u, e, D, d, from)
<1>1. /\ n \in 1 .. Len(file.units) /\ unit_hdr = u.at /\ k \in 1 .. Len(u.entries)
      /\ Format!DieEntryEncoded(file, u, e, from, to)
      /\ j \in 1 .. Len(D.specs) + 1 /\ info = e.places[j]
      /\ abbrev = D.places[j] /\ abbrev_bytes = Len(file.abbrev) - abbrev
      /\ Loaded(u, Len(Declarations(u))) /\ Settled(file, from)
  BY DEF BeforeValue
<1>2. EntryAt(file, n, u, k, e, from, to)
  BY <1>1 DEF EntryAt
<1>3. Legible(file) /\ Len(file.abbrev) \in Nat
  BY Here
<1>4. u.at \in Nat /\ u.places[1] = u.at + 11
  BY <1>1, <1>3, UnitIs
<1>5. from \in Nat /\ to \in Nat /\ to <= Len(file.info)
  BY <1>2, <1>3, EntryIs
<1>6. /\ DeclaredBy(file, u, e, D) /\ InTable(u.table, Table(u), e.declaration, D)
      /\ Len(D.specs) \in Nat /\ Format!DeclarationSound(D)
      /\ e.declaration \in 1 .. Len(Declarations(u))
  BY <1>1, <1>2, DeclarationOfDie
<1>7. /\ to = e.places[Len(D.specs) + 1]
      /\ \A i \in 1 .. Len(D.specs) + 1 : e.places[i] \in from + 1 .. to
      /\ \E d : /\ Begins(file, d, from, to) /\ ValuesLaid(file, u, e, D, d)
                /\ Format!DieEncoded(file, u, e, D, d, from)
  <2>1. DieThere(file, u, e, D, from, to)
    <3>1. Format!DieEntryEncoded(file, u, e, from, to) /\ DeclaredBy(file, u, e, D) /\ Legible(file)
      BY <1>1, <1>3, <1>6
    <3> QED BY <1>2, <3>1, DieEntryIs
  <2> QED BY <2>1 DEF DieThere
<1>8. InList
  <2>1. D.places[j] \in Nat /\ D.places[j] + 2 <= Len(file.abbrev)
    <3>1. InTable(u.table, Table(u), e.declaration, D)
      BY <1>6
    <3>2. \A i \in 1 .. Len(D.specs) + 1 : D.places[i] \in Nat /\ D.places[i] + 2 <= Len(file.abbrev)
      BY <1>3, <3>1, PlacesTyped
    <3> QED BY <1>1, <3>2
  <2>2. abbrev \in Nat /\ abbrev <= Len(file.abbrev)
    BY <1>1, <1>3, <2>1
  <2> QED BY <1>1, <2>2 DEF InList
<1>9. Between(n, u, k, e, from, to, D, j)
  BY <1>1, <1>2, <1>4, <1>5, <1>6, <1>7, <1>8 DEF Between
<1> QED BY <1>7, <1>9

\* Behind the last attribute the next entry comes.
LEMMA StepEndOfAttributes ==
  ASSUME WellEncoded, InPlace, EndOfAttributes PROVE InPlace' /\ WalkStep
<1>1. /\ pc = "attr" /\ pc' = "die" /\ EndOfList /\ UNCHANGED builder
      /\ UNCHANGED <<file, unit_hdr, compilation_unit_, info, info_bytes>>
      /\ abbrev' = abbrev + Attr.length + AttrForm.length
      /\ abbrev_bytes' = Minus(abbrev_bytes, Attr.length + AttrForm.length)
  BY DEF EndOfAttributes, NextAttribute
<1>2. PlaceOK /\ TableOK
  BY DEF InPlace
<1>3. PICK n, k, j \in Nat : BeforeValue(n, k, j)
  BY <1>1 DEF InPlace
<1> DEFINE u == file.units[n]
           e == u.entries[k]
           D == Declared(u, e)
           from == u.places[k]
           to == u.places[k + 1]
<1>4. /\ Between(n, u, k, e, from, to, D, j)
      /\ \E d : /\ Begins(file, d, from, to) /\ ValuesLaid(file, u, e, D, d)
                /\ Format!DieEncoded(file, u, e, D, d, from)
  BY <1>2, <1>3, ValueComes
<1> HIDE DEF u, e, D, from, to
<1>5. PICK d : Begins(file, d, from, to) /\ ValuesLaid(file, u, e, D, d)
  BY <1>4
<1>6. Legible(file) /\ DiesInOrder(file) /\ info \in Nat
  BY <1>2, Here
<1>7. /\ InList /\ InTable(u.table, Table(u), e.declaration, D) /\ Len(D.specs) \in Nat
      /\ j \in 1 .. Len(D.specs) + 1 /\ abbrev = D.places[j] /\ info = e.places[j]
  BY <1>4 DEF Between
<1>8. j = Len(D.specs) + 1
  <2>1. SUFFICES ASSUME j # Len(D.specs) + 1 PROVE FALSE
    OBVIOUS
  <2>2. j \in 1 .. Len(D.specs)
    BY <1>7, <2>1
  <2>3. ~EndOfList
    BY <1>6, <1>7, <2>2, SpecRead
  <2> QED BY <1>1, <2>3
<1>9. info = to
  BY <1>4, <1>7, <1>8 DEF Between
<1>10. abbrev' \in 0 .. Len(file.abbrev) /\ abbrev_bytes' \in 0 .. Len(file.abbrev)
  BY <1>1, <1>6, <1>7, <1>8, ListRead
<1>11. PlaceOK' /\ TableOK'
  BY <1>1, <1>2, <1>10 DEF PlaceOK, TableOK
<1>12. /\ from \in Nat /\ to \in Nat /\ from < to /\ Settled(file, from)
  <2>1. from \in Nat /\ to \in Nat /\ Settled(file, from)
    BY <1>4 DEF Between
  <2>2. info \in from + 1 .. to
    BY <1>4, <1>7 DEF Between
  <2> QED BY <2>1, <2>2
<1>13. Settled(file, to)
  <2>1. \A a \in Attribute : file.dies[d].ends[a] <= to
    BY <1>5, <1>7, <1>8, <1>9, EndsLast
  <2> QED BY <1>5, <1>6, <1>12, <2>1, DieSettles
<1>14. /\ k + 1 \in 1 .. Len(u.entries) + 1 /\ to = u.places[k + 1] /\ to # u.places[1]
       /\ k + 1 > Len(u.entries) => to = u.end /\ OpenAt(file, to) = {}
  <2>1. EntryAt(file, n, u, k, e, from, to) /\ e.declaration \in 1 .. Len(Declarations(u))
    BY <1>4 DEF Between
  <2>2. Len(Declarations(u)) \in Nat
    <3>1. u.table \in 1 .. Len(file.tables)
      BY <1>7 DEF InTable
    <3> QED BY <1>6, <3>1, TableIs DEF Declarations, Table
  <2>3. e.declaration <= Len(Declarations(u))
    BY <2>1, <2>2
  <2> QED BY <1>2, <2>1, <2>3, EntryOver
<1>15. BeforeEntry(n, k + 1)'
  <2>1. /\ n \in 1 .. Len(file.units) /\ unit_hdr = u.at /\ Loaded(u, Len(Declarations(u)))
    BY <1>4 DEF Between
  <2>2. Loaded(u, Len(Declarations(u)))'
    BY <1>1, <2>1 DEF Loaded, Declarations, Table, u
  <2> QED BY <1>1, <1>9, <1>13, <1>14, <2>1, <2>2 DEF BeforeEntry, u
<1>16. InPlace'
  <2>1. k + 1 \in Nat
    BY <1>3
  <2> QED BY <1>1, <1>3, <1>11, <1>15, <2>1 DEF InPlace
<1>17. Walk!EndOfAttributes
  <2>1. unit_hdr = u.at /\ u.places[1] = u.at + 11
    BY <1>4 DEF Between
  <2>2. walk_pc = "attr" /\ walk_pc' = "die"
    BY <1>1, <1>9, <1>14, <2>1, PcIs, PcBecomes DEF PcMeans
  <2> QED BY <1>1, <2>2, WalkStands DEF Walk!EndOfAttributes, Walk!builder, builder
<1> QED BY <1>16, <1>17 DEF WalkStep, Walk!Next

\* The attributes and forms of a declaration of the file.
LEMMA SpecsTyped ==
  ASSUME Legible(file), NEW t, NEW T, NEW i, NEW D, InTable(t, T, i, D)
  PROVE  SpecsAre(D)
<1>1. /\ t \in 1 .. Len(file.tables) /\ T = file.tables[t]
      /\ i \in 1 .. Len(T.declarations) /\ D = T.declarations[i]
  BY DEF InTable
<1> QED BY <1>1, DeclarationIs

\* The value of attribute a, which has this form, lies between info and y.
ValueIs(u, D, e, j, a, form, y) ==
  /\ j \in 1 .. Len(D.specs) /\ D.specs[j] = <<a, form>>
  /\ D.specs[j][1] = a /\ D.specs[j][2] = form /\ a \in Attribute \union {"other"}
  /\ info = e.places[j] /\ y = e.places[j + 1] /\ y \in Nat /\ info <= y /\ y <= Len(file.info)
  /\ Format!ValueAt(file.info, form, info, y) /\ ValueReadable(file, u, <<a, form>>, info, y)
  /\ AttrName = a /\ FormOf(AttrForm.result) = IF form = "ref_sig8" THEN "other" ELSE form
  /\ abbrev + Attr.length + AttrForm.length = D.places[j + 1]
  /\ Minus(abbrev_bytes, Attr.length + AttrForm.length) = Len(file.abbrev) - D.places[j + 1]
  /\ D.places[j + 1] \in Nat /\ D.places[j + 1] <= Len(file.abbrev)

\* As long as the list is not over there is such a value.
LEMMA ValueThere ==
  ASSUME WellEncoded, PlaceOK, NEW n, NEW u, NEW k, NEW e, NEW from, NEW to, NEW D, NEW j,
         Between(n, u, k, e, from, to, D, j), NEW d, ValuesLaid(file, u, e, D, d), ~EndOfList
  PROVE  \E a, form, y : ValueIs(u, D, e, j, a, form, y)
<1>1. /\ InList /\ InTable(u.table, Table(u), e.declaration, D) /\ Len(D.specs) \in Nat
      /\ j \in 1 .. Len(D.specs) + 1 /\ abbrev = D.places[j] /\ info = e.places[j]
      /\ \A i \in 1 .. Len(D.specs) + 1 : e.places[i] \in from + 1 .. to
      /\ from \in Nat /\ to \in Nat /\ to <= Len(file.info)
  BY DEF Between
<1>2. Legible(file) /\ Len(file.info) \in Nat /\ info \in Nat /\ Len(file.abbrev) \in Nat
  BY Here
<1>3. j # Len(D.specs) + 1
  BY <1>1, <1>2, ListRead
<1>4. j \in 1 .. Len(D.specs) /\ j + 1 \in 1 .. Len(D.specs) + 1
  BY <1>1, <1>3
<1> DEFINE a == D.specs[j][1]
           form == D.specs[j][2]
           y == e.places[j + 1]
<1>5. D.specs[j] = <<a, form>> /\ a \in Attribute \union {"other"}
  BY <1>1, <1>2, <1>4, SpecsTyped DEF SpecsAre
<1>6. /\ Format!ValueAt(file.info, form, info, y)
      /\ ValueReadable(file, u, D.specs[j], info, y)
  BY <1>1, <1>4 DEF ValuesLaid
<1>7. y \in Nat /\ y <= Len(file.info)
  BY <1>1, <1>2, <1>4
<1>8. info <= y
  BY <1>2, <1>6, <1>7, ValueOrder
<1>9. form # "other"
  BY <1>6, ValueForms DEF Fixed, Sized, Counted, Leb, Text, Bytes, BlockBytes
<1>10. /\ AttrName = a /\ FormOf(AttrForm.result) = IF form = "ref_sig8" THEN "other" ELSE form
       /\ abbrev + Attr.length + AttrForm.length = D.places[j + 1]
       /\ Minus(abbrev_bytes, Attr.length + AttrForm.length) = Len(file.abbrev) - D.places[j + 1]
  BY <1>1, <1>2, <1>4, <1>9, SpecRead
<1>11. D.places[j + 1] \in Nat /\ D.places[j + 1] <= Len(file.abbrev)
  <2>1. D.places[j + 1] \in Nat /\ D.places[j + 1] + 2 <= Len(file.abbrev)
    BY <1>1, <1>2, <1>4, PlacesTyped
  <2> QED BY <1>2, <2>1
<1> HIDE DEF a, form, y
<1>12. D.specs[j][1] = a /\ D.specs[j][2] = form
  BY DEF a, form
<1>13. y = e.places[j + 1]
  BY DEF y
<1>14. ValueReadable(file, u, <<a, form>>, info, y)
  BY <1>5, <1>6
<1>15. ValueIs(u, D, e, j, a, form, y)
  BY <1>1, <1>4, <1>5, <1>6, <1>7, <1>8, <1>10, <1>11, <1>12, <1>13, <1>14 DEF ValueIs
<1> QED BY <1>15

\* Behind a value the next attribute comes.
LEMMA ValueOver ==
  ASSUME WellEncoded, InPlace, NEW n \in Nat, NEW k \in Nat, NEW j \in Nat, BeforeValue(n, k, j),
         NEW u, u = file.units[n], NEW e, e = u.entries[k], NEW D, D = Declared(u, e),
         Len(D.specs) \in Nat, NEW a, NEW form, NEW y, ValueIs(u, D, e, j, a, form, y),
         pc = "attr", pc' = "attr", UNCHANGED <<file, unit_hdr, compilation_unit_>>,
         info' = y, info_bytes' = Len(file.info) - y,
         abbrev' = abbrev + Attr.length + AttrForm.length,
         abbrev_bytes' = Minus(abbrev_bytes, Attr.length + AttrForm.length)
  PROVE  InPlace'
<1>1. PlaceOK /\ TableOK
  BY DEF InPlace
<1>2. Len(file.info) \in Nat /\ Len(file.abbrev) \in Nat
  BY <1>1, Here
<1>3. /\ j \in 1 .. Len(D.specs) /\ y \in Nat /\ y <= Len(file.info) /\ y = e.places[j + 1]
      /\ abbrev' = D.places[j + 1] /\ abbrev_bytes' = Len(file.abbrev) - D.places[j + 1]
      /\ D.places[j + 1] \in Nat /\ D.places[j + 1] <= Len(file.abbrev)
  BY DEF ValueIs
<1>4. PlaceOK' /\ TableOK'
  <2>1. \A x, z \in Nat : x <= z => x \in 0 .. z /\ z - x \in 0 .. z
    OBVIOUS
  <2>2. info' \in 0 .. Len(file.info)
    BY <1>2, <1>3, <2>1
  <2>3. abbrev' \in 0 .. Len(file.abbrev) /\ abbrev_bytes' \in 0 .. Len(file.abbrev)
    BY <1>2, <1>3, <2>1
  <2> QED BY <1>1, <2>2, <2>3 DEF PlaceOK, TableOK
<1>5. /\ n \in 1 .. Len(file.units) /\ unit_hdr = u.at /\ k \in 1 .. Len(u.entries)
      /\ Format!DieEntryEncoded(file, u, e, u.places[k], u.places[k + 1])
      /\ Loaded(u, Len(Declarations(u))) /\ Settled(file, u.places[k])
  BY DEF BeforeValue
<1>6. Loaded(u, Len(Declarations(u)))'
  BY <1>5 DEF Loaded, Declarations, Table
<1>7. j + 1 \in 1 .. Len(D.specs) + 1
  <2>1. \A m \in Nat : \A i \in 1 .. m : i + 1 \in 1 .. m + 1
    OBVIOUS
  <2> QED BY <1>3, <2>1
<1>8. Declared(u, e)' = D
  BY DEF Declared, Declarations, Table
<1>9. BeforeValue(n, k, j + 1)'
  BY <1>3, <1>5, <1>6, <1>7, <1>8 DEF BeforeValue
<1>10. j + 1 \in Nat
  OBVIOUS
<1> QED BY <1>4, <1>9, <1>10 DEF InPlace

\* While attributes are read no list is opened or closed.
LEMMA ListsStay ==
  ASSUME NEW f, DiesInOrder(f), NEW p \in Nat, NEW q \in Nat, NEW d, Begins(f, d, p, q),
         NEW x \in p + 1 .. q, NEW y \in p + 1 .. q
  PROVE  OpenAt(f, x) = OpenAt(f, y)
<1>1. OpenAt(f, x) = IF f.dies[d].children THEN OpenAt(f, p) \union {d} ELSE OpenAt(f, p)
  BY DieOpens
<1>2. OpenAt(f, y) = IF f.dies[d].children THEN OpenAt(f, p) \union {d} ELSE OpenAt(f, p)
  BY DieOpens
<1> QED BY <1>1, <1>2

\* A value that is passed is passed whole, and says nothing to the walk.
LEMMA StepSkipAttribute ==
  ASSUME WellEncoded, InPlace, SkipAttribute PROVE InPlace' /\ WalkStep
<1>1. /\ pc = "attr" /\ pc' = "attr" /\ ~EndOfList /\ AttrName \notin Attribute /\ UNCHANGED builder
      /\ UNCHANGED <<file, unit_hdr, compilation_unit_>>
      /\ Advance(PassData(FormOf(AttrForm.result)))
      /\ abbrev' = abbrev + Attr.length + AttrForm.length
      /\ abbrev_bytes' = Minus(abbrev_bytes, Attr.length + AttrForm.length)
  BY DEF SkipAttribute, NextAttribute
<1>2. PlaceOK /\ TableOK
  BY DEF InPlace
<1>3. PICK n, k, j \in Nat : BeforeValue(n, k, j)
  BY <1>1 DEF InPlace
<1> DEFINE u == file.units[n]
           e == u.entries[k]
           D == Declared(u, e)
           from == u.places[k]
           to == u.places[k + 1]
<1>4. /\ Between(n, u, k, e, from, to, D, j)
      /\ \E d : /\ Begins(file, d, from, to) /\ ValuesLaid(file, u, e, D, d)
                /\ Format!DieEncoded(file, u, e, D, d, from)
  BY <1>2, <1>3, ValueComes
<1>5. u = file.units[n] /\ e = u.entries[k] /\ D = Declared(u, e)
  OBVIOUS
<1> HIDE DEF u, e, D, from, to
<1>6. PICK d : Begins(file, d, from, to) /\ ValuesLaid(file, u, e, D, d)
  BY <1>4
<1>7. PICK a, form, y : ValueIs(u, D, e, j, a, form, y)
  BY <1>1, <1>2, <1>4, <1>6, ValueThere
<1>8. /\ DiesInOrder(file) /\ Reading /\ Len(file.info) \in Nat
  BY <1>2, Here
<1>9. /\ j \in 1 .. Len(D.specs) /\ a \notin Attribute /\ D.specs[j][1] = a
      /\ info = e.places[j] /\ y = e.places[j + 1] /\ y \in Nat /\ info <= y /\ y <= Len(file.info)
      /\ Format!ValueAt(file.info, form, info, y) /\ ValueReadable(file, u, <<a, form>>, info, y)
      /\ FormOf(AttrForm.result) = IF form = "ref_sig8" THEN "other" ELSE form
  BY <1>1, <1>7 DEF ValueIs
<1>10. form # "ref_sig8" /\ (form \in {"block", "exprloc"} => NumbersFit(file.info, info))
  <2>1. /\ a \notin Attribute => form # "ref_sig8"
        /\ a \in Attribute \/ form \in {"block", "exprloc"} => NumbersFit(file.info, info)
    BY <1>9 DEF ValueReadable
  <2> QED BY <1>9, <2>1
<1>11. PassData(form) = y - info
  BY <1>8, <1>9, <1>10, ValuePassed
<1>12. info' = y /\ info_bytes' = Len(file.info) - y
  <2>1. Advance(PassData(form))
    BY <1>1, <1>9, <1>10
  <2> QED BY <1>2, <1>9, <1>11, <2>1, Advances
<1>13. Len(D.specs) \in Nat /\ from \in Nat /\ to \in Nat /\ Settled(file, from)
       /\ \A i \in 1 .. Len(D.specs) + 1 : e.places[i] \in from + 1 .. to
  BY <1>4 DEF Between
<1>14. InPlace'
  BY <1>1, <1>3, <1>5, <1>7, <1>12, <1>13, ValueOver
<1>15. info \in from + 1 .. to /\ y \in from + 1 .. to
  <2>1. j \in 1 .. Len(D.specs) + 1 /\ j + 1 \in 1 .. Len(D.specs) + 1
    BY <1>9, <1>13
  <2> QED BY <1>9, <1>13, <2>1
<1>16. DiesAt(file, y) = DiesAt(file, info)
  <2>1. \A b \in Attribute : file.dies[d].ends[b] <= info \/ ~(file.dies[d].ends[b] <= y)
                              \/ file.dies[d].attrs[b] = {}
    BY <1>6, <1>9, EndsBetween
  <2>2. /\ DiesInOrder(file) /\ from \in Nat /\ to \in Nat /\ Begins(file, d, from, to)
        /\ Settled(file, from) /\ info \in from + 1 .. to /\ y \in from + 1 .. to /\ info <= y
    BY <1>6, <1>8, <1>9, <1>13, <1>15
  <2> QED BY <2>1, <2>2, NothingAppears
<1>17. OpenAt(file, y) = OpenAt(file, info)
  BY <1>6, <1>8, <1>13, <1>15, ListsStay
<1>18. walk_dies' = walk_dies /\ walk_open' = walk_open
  BY <1>1, <1>12, <1>16, <1>17, WalkGoesOn
<1>19. walk_pc = "attr" /\ walk_pc' = "attr"
  BY <1>1, PcIs, PcBecomes DEF PcMeans
<1> QED BY <1>1, <1>14, <1>18, <1>19, Stutters

\* There are finitely many attributes.
LEMMA AttributesFinite == IsFiniteSet(Attribute) /\ Cardinality(Attribute) \in Nat
<1> DEFINE S1 == {} \union {"name"}
           S2 == S1 \union {"linkage_name"}
           S3 == S2 \union {"byte_size"}
           S4 == S3 \union {"data_member_location"}
           S5 == S4 \union {"type"}
           S6 == S5 \union {"count"}
<1>1. IsFiniteSet({})
  BY FS_EmptySet
<1>2. IsFiniteSet(S1)
  BY <1>1, FS_AddElement
<1> HIDE DEF S1
<1>3. IsFiniteSet(S2)
  BY <1>2, FS_AddElement
<1> HIDE DEF S2
<1>4. IsFiniteSet(S3)
  BY <1>3, FS_AddElement
<1> HIDE DEF S3
<1>5. IsFiniteSet(S4)
  BY <1>4, FS_AddElement
<1> HIDE DEF S4
<1>6. IsFiniteSet(S5)
  BY <1>5, FS_AddElement
<1> HIDE DEF S5
<1>7. IsFiniteSet(S6)
  BY <1>6, FS_AddElement
<1>8. S6 = Attribute
  BY DEF Attribute, S1, S2, S3, S4, S5
<1> HIDE DEF S6
<1>9. IsFiniteSet(Attribute)
  BY <1>7, <1>8
<1> QED BY <1>9, FS_CardinalityType

\* Of the attributes of d DIEs one at least has not been read.
LEMMA OneMore ==
  ASSUME NEW d \in Nat, NEW M \in Nat, d <= M, NEW X \in SUBSET ((1 .. d) \X Attribute),
         NEW x \in (1 .. d) \X Attribute, x \notin X
  PROVE  Cardinality(X) < M * Cardinality(Attribute)
<1> DEFINE P == (1 .. d) \X Attribute
           c == Cardinality(Attribute)
<1>1. IsFiniteSet(1 .. d) /\ Cardinality(1 .. d) = d
  BY FS_Interval, CardinalityOfFirst
<1>2. IsFiniteSet(P) /\ Cardinality(P) = d * c
  BY <1>1, AttributesFinite, FS_Product
<1>3. IsFiniteSet(X) /\ Cardinality(X) <= Cardinality(P) /\ Cardinality(X) # Cardinality(P)
  BY <1>2, FS_Subset
<1>4. Cardinality(X) \in Nat /\ c \in Nat
  BY <1>3, AttributesFinite, FS_CardinalityType
<1>5. d * c \in Nat /\ M * c \in Nat /\ d * c <= M * c
  BY <1>4, TimesMonotonic
<1> HIDE DEF P
<1> DEFINE dc == d * c
           Mc == M * c
<1> HIDE DEF dc, Mc
<1>6. dc \in Nat /\ Mc \in Nat /\ dc <= Mc /\ Cardinality(X) <= dc /\ Cardinality(X) # dc
  BY <1>2, <1>3, <1>5 DEF dc, Mc
<1>7. Cardinality(X) < Mc
  BY <1>4, <1>6
<1> QED BY <1>7 DEF Mc

\* A value is a natural number.
LEMMA ValuesAreNumbers ==
  ASSUME Reading, NEW form, NEW to \in Nat, to <= Len(file.info),
         Format!ValueAt(file.info, form, info, to)
  PROVE  \A n \in Format!NumberIn(file.info, form, info, to) : n \in Nat
<1>1. info \in Nat /\ info <= to
  BY ValueOrder DEF Reading
<1>2. \A i \in info + 1 .. to : file.info[i] \in Nat
  BY <1>1 DEF Reading, Readables
<1>3. Format!LittleEndian(file.info, info, to) \in Nat
  BY <1>1, <1>2, LittleEndianIs
<1>4. Format!LebValue(file.info, info, to) \in Nat
  <2>1. PICK v : /\ v[info] = Format!LebValue(file.info, info, to)
                 /\ Horner(v, [i \in info + 1 .. to |-> file.info[i] % 128], 128, info, to)
    BY <1>1, <1>2, LebValueIs
  <2>2. v \in [info .. to -> Nat] /\ info \in info .. to
    BY <1>1, <2>1 DEF Horner
  <2> QED BY <2>1, <2>2
<1>5. CASE form \in DOMAIN Bytes
  BY <1>3, <1>5, NumberInIs
<1>6. CASE form \in {"sdata", "udata", "ref_udata"}
  BY <1>4, <1>6, NumberInIs
<1>7. CASE form \notin DOMAIN Bytes /\ form \notin {"sdata", "udata", "ref_udata"}
  BY <1>7, NumberInIs
<1> QED BY <1>5, <1>6, <1>7

\* A form that the program does not know has no datum.
LEMMA OtherForms == "other" \notin DataForms
BY DEF DataForms, DataBytes

\* What an attribute that is read becomes for the walk.
ValueAppears(f, d, D, a, from, to, y, v) ==
  /\ DiesAt(f, y) = [DiesAt(f, info) EXCEPT ![d].attrs[a] = {v}]
  /\ OpenAt(f, y) = OpenAt(f, info)
  /\ d \in Nat \ {0} /\ Len(DiesAt(f, info)) = d
  /\ DiesAt(f, info)[d].attrs[a] = {} /\ DiesAt(f, info)[d].tag = D.tag
  /\ DOMAIN DiesAt(f, info) = 1 .. d
  /\ f.dies[d].attrs[a] = {v} /\ d \in 1 .. Len(f.dies)

\* A value that is read is the one encoded, and what the walk reads next.
LEMMA ValueIsRead ==
  ASSUME WellEncoded, PlaceOK, NEW n, NEW u, NEW k, NEW e, NEW from, NEW to, NEW D, NEW j,
         Between(n, u, k, e, from, to, D, j), NEW d, ValuesLaid(file, u, e, D, d),
         Begins(file, d, from, to), Format!DieEncoded(file, u, e, D, d, from),
         NEW a \in Attribute, NEW form, NEW y, ValueIs(u, D, e, j, a, form, y),
         a \in Names \/ FormOf(AttrForm.result) \in DataForms,
         NEW v, v = AttributeValue(a, FormOf(AttrForm.result)).value
  PROVE  /\ AttributeValue(a, FormOf(AttrForm.result)).length = y - info
         /\ ValueAppears(file, d, D, a, from, to, y, v)
<1>1. /\ DiesInOrder(file) /\ Reading /\ Len(file.info) \in Nat /\ info \in Nat
  BY Here
<1>2. /\ j \in 1 .. Len(D.specs) /\ D.specs[j][1] = a /\ D.specs[j][2] = form
      /\ info = e.places[j] /\ y = e.places[j + 1] /\ y \in Nat /\ info <= y /\ y <= Len(file.info)
      /\ Format!ValueAt(file.info, form, info, y) /\ ValueReadable(file, u, <<a, form>>, info, y)
      /\ FormOf(AttrForm.result) = IF form = "ref_sig8" THEN "other" ELSE form
  BY DEF ValueIs
<1>3. /\ Len(D.specs) \in Nat /\ from \in Nat /\ to \in Nat /\ Settled(file, from)
      /\ \A i \in 1 .. Len(D.specs) + 1 : e.places[i] \in from + 1 .. to
      /\ unit_hdr = u.at /\ u.at \in Nat
  BY DEF Between
<1>4. form # "ref_sig8"
  <2>1. a \in Names => form \in {"string", "strp"}
    BY <1>2 DEF ValueReadable
  <2> QED BY <1>2, <2>1, OtherForms
<1>5. FormOf(AttrForm.result) = form /\ (a \in Names \/ form \in DataForms)
  BY <1>2, <1>4
<1>6. \A i \in Format!NumberIn(file.info, form, info, y) : i \in Nat
  BY <1>1, <1>2, ValuesAreNumbers
<1>7. /\ AttributeValue(a, form).length = y - info
      /\ Format!Meaning(file.info, a, form, info, y, u.at) = {AttributeValue(a, form).value}
  <2>1. /\ Reading /\ unit_hdr = u.at /\ y \in Nat /\ y <= Len(file.info)
        /\ Format!ValueAt(file.info, form, info, y) /\ ValueReadable(file, u, <<a, form>>, info, y)
        /\ form # "ref_sig8" /\ (a \in Names \/ form \in DataForms) /\ u.at \in Nat
    BY <1>1, <1>2, <1>3, <1>4, <1>5
  <2> QED BY <1>6, <2>1, AttributeValueIs
<1>8. file.dies[d].attrs[a] = {v} /\ file.dies[d].ends[a] = y /\ info < y
  <2>1. /\ file.dies[d].attrs[a] = Format!Meaning(file.info, a, form, info, y, u.at)
        /\ file.dies[d].ends[a] = y /\ info < y
    BY <1>2 DEF ValuesLaid
  <2> QED BY <1>5, <1>7, <2>1
<1>9. info \in from + 1 .. to /\ y \in from + 1 .. to
  <2>1. j \in 1 .. Len(D.specs) + 1 /\ j + 1 \in 1 .. Len(D.specs) + 1
    BY <1>2, <1>3
  <2> QED BY <1>2, <1>3, <2>1
<1>10. /\ d \in Nat \ {0} /\ Len(DiesAt(file, info)) = d
       /\ DiesAt(file, info) =
            [c \in 1 .. d |-> IF c = d THEN DieRead(file, d, info) ELSE DieRead(file, c, from)]
  <2>1. /\ DiesInOrder(file) /\ from \in Nat /\ to \in Nat /\ Begins(file, d, from, to)
        /\ Settled(file, from) /\ info \in from + 1 .. to
    BY <1>1, <1>3, <1>9
  <2> QED BY <2>1, DiesWhile
<1>11. DOMAIN DiesAt(file, info) = 1 .. d /\ DiesAt(file, info)[d] = DieRead(file, d, info)
  BY <1>10
<1>12. DieRead(file, d, info).attrs[a] = {}
  <2>1. ~(file.dies[d].ends[a] <= info)
    BY <1>1, <1>2, <1>8
  <2> QED BY <2>1 DEF DieRead
<1>13. DieRead(file, d, info).tag = D.tag
  <2>1. file.dies[d].tag = D.tag
    BY DEF Format!DieEncoded
  <2> QED BY <2>1 DEF DieRead
<1>14. DiesAt(file, y) = [DiesAt(file, info) EXCEPT ![d].attrs[a] = {v}]
  <2>1. OthersStay(file, d, a, info, y)
    BY <1>2, EndsBetween DEF OthersStay
  <2>2. Appears(file, d, a, v, from, to, info, y)
    BY <1>1, <1>2, <1>3, <1>8, <1>9, <2>1 DEF Appears
  <2> QED BY <2>2, AttributeAdded
<1>15. OpenAt(file, y) = OpenAt(file, info)
  BY <1>1, <1>3, <1>9, ListsStay
<1>16. d \in 1 .. Len(file.dies)
  BY DEF Begins
<1>17. ValueAppears(file, d, D, a, from, to, y, v)
  BY <1>8, <1>10, <1>11, <1>12, <1>13, <1>14, <1>15, <1>16 DEF ValueAppears
<1> QED BY <1>5, <1>7, <1>17

\* The two modules count alike.
LEMMA CardinalityAgrees == ASSUME NEW S PROVE Walk!Cardinality(S) = Cardinality(S)
BY DEF Walk!Cardinality, Cardinality

\* The walk may read an attribute that the section has at this place.
LEMMA WalkReadsAttribute ==
  ASSUME WellEncoded, PlaceOK, UNCHANGED file, pc = "attr", pc' = "attr",
         NEW a \in Attribute, NEW v, LogDwarfInfo(a, v), NEW d, NEW D, NEW from, NEW to, NEW y,
         info' = y, ValueAppears(file, d, D, a, from, to, y, v),
         D.tag = "DW_TAG_inheritance" => a \in {"data_member_location", "type"}
  PROVE  WalkStep
<1>1. /\ DiesAt(file, y) = [DiesAt(file, info) EXCEPT ![d].attrs[a] = {v}]
      /\ OpenAt(file, y) = OpenAt(file, info)
      /\ d \in Nat \ {0} /\ Len(DiesAt(file, info)) = d
      /\ DiesAt(file, info)[d].attrs[a] = {} /\ DiesAt(file, info)[d].tag = D.tag
      /\ DOMAIN DiesAt(file, info) = 1 .. d
      /\ file.dies[d].attrs[a] = {v} /\ d \in 1 .. Len(file.dies)
  BY DEF ValueAppears
<1>2. /\ file \in Sections /\ Len(file.dies) <= MaxDies /\ Len(file.dies) \in Nat /\ MaxDies \in Nat
  <2>1. DiesInOrder(file)
    BY Here
  <2>2. file \in Sections /\ Len(file.dies) <= MaxDies
    BY DEF WellEncoded, PlaceOK
  <2> QED BY <2>1, <2>2, SectionsAssumption DEF DiesInOrder
<1>3. d \in 1 .. MaxDies /\ d <= MaxDies /\ d \in Nat
  BY <1>1, <1>2
<1>4. /\ walk_dies' = [walk_dies EXCEPT ![d].attrs[a] = {v}] /\ walk_open' = walk_open
      /\ Len(walk_dies) = d /\ DOMAIN walk_dies = 1 .. d
      /\ walk_dies[d].attrs[a] = {} /\ walk_dies[d].tag = D.tag
  BY <1>1 DEF walk_dies, walk_open
<1>5. walk_pc = "attr" /\ walk_pc' = "attr"
  BY PcIs, PcBecomes DEF PcMeans
<1>6. Walk!Current = d
  BY <1>4 DEF Walk!Current
<1>7. ~Walk!Has(d, a)
  BY <1>4 DEF Walk!Has
<1>8. Walk!MayCarry(walk_dies[d].tag, a)
  BY <1>4 DEF Walk!MayCarry
<1>9. Cardinality(Walk!AttrsRead) < MaxDies * Cardinality(Attribute)
  <2>1. Walk!AttrsRead \in SUBSET ((1 .. d) \X Attribute)
    BY <1>4, EndAgrees DEF Walk!AttrsRead
  <2>2. <<d, a>> \in (1 .. d) \X Attribute
    BY <1>1
  <2>3. <<d, a>> \notin Walk!AttrsRead
    BY <1>7 DEF Walk!AttrsRead
  <2> QED BY <1>2, <1>3, <2>1, <2>2, <2>3, OneMore
<1>10. Walk!LogDwarfInfo(a, v)
  BY LogAgrees
<1>11. Walk!ReadAttribute(a, v)
  <2>1. UNCHANGED <<walk_pc, walk_open>>
    BY <1>4, <1>5
  <2>2. walk_dies' = [walk_dies EXCEPT ![Walk!Current].attrs[a] = {v}]
    BY <1>4, <1>6
  <2>3. ~Walk!Has(Walk!Current, a) /\ Walk!MayCarry(walk_dies[Walk!Current].tag, a)
    BY <1>6, <1>7, <1>8
  <2> QED BY <1>5, <1>9, <1>10, <2>1, <2>2, <2>3, CardinalityAgrees DEF Walk!ReadAttribute
<1>12. v \in AllData[a][Walk!Current]
  <2>1. AllData[a][d] = UNION {f.dies[d].attrs[a] : f \in Having(d)}
    BY <1>3 DEF AllData
  <2>2. file \in Having(d)
    BY <1>1, <1>2 DEF Having
  <2> QED BY <1>1, <1>6, <2>1, <2>2
<1> QED BY <1>5, <1>11, <1>12 DEF WalkStep, Walk!Next

\* An attribute reaches the builder in both walks, with the same value.
LEMMA StepReadAttribute ==
  ASSUME WellEncoded, InPlace, ReadAttribute PROVE InPlace' /\ WalkStep
<1> DEFINE v == AttributeValue(AttrName, FormOf(AttrForm.result)).value
           length == AttributeValue(AttrName, FormOf(AttrForm.result)).length
<1>1. /\ pc = "attr" /\ pc' = "attr" /\ ~EndOfList /\ AttrName \in Attribute
      /\ AttrName \in Names \/ FormOf(AttrForm.result) \in DataForms
      /\ UNCHANGED <<file, unit_hdr, compilation_unit_>>
      /\ LogDwarfInfo(AttrName, v) /\ Advance(length)
      /\ abbrev' = abbrev + Attr.length + AttrForm.length
      /\ abbrev_bytes' = Minus(abbrev_bytes, Attr.length + AttrForm.length)
  BY DEF ReadAttribute, NextAttribute
<1>2. PlaceOK /\ TableOK
  BY DEF InPlace
<1>3. PICK n, k, j \in Nat : BeforeValue(n, k, j)
  BY <1>1 DEF InPlace
<1> DEFINE u == file.units[n]
           e == u.entries[k]
           D == Declared(u, e)
           from == u.places[k]
           to == u.places[k + 1]
<1>4. /\ Between(n, u, k, e, from, to, D, j)
      /\ \E d : /\ Begins(file, d, from, to) /\ ValuesLaid(file, u, e, D, d)
                /\ Format!DieEncoded(file, u, e, D, d, from)
  BY <1>2, <1>3, ValueComes
<1>5. u = file.units[n] /\ e = u.entries[k] /\ D = Declared(u, e)
  OBVIOUS
<1> HIDE DEF u, e, D, from, to
<1>6. PICK d : /\ Begins(file, d, from, to) /\ ValuesLaid(file, u, e, D, d)
               /\ Format!DieEncoded(file, u, e, D, d, from)
  BY <1>4
<1>7. PICK a, form, y : ValueIs(u, D, e, j, a, form, y)
  BY <1>1, <1>2, <1>4, <1>6, ValueThere
<1>8. /\ j \in 1 .. Len(D.specs) /\ AttrName = a /\ D.specs[j][1] = a
      /\ info = e.places[j] /\ y \in Nat /\ info <= y /\ y <= Len(file.info)
  BY <1>7 DEF ValueIs
<1>9. a \in Attribute /\ (a \in Names \/ FormOf(AttrForm.result) \in DataForms)
  BY <1>1, <1>8
<1>10. v = AttributeValue(a, FormOf(AttrForm.result)).value
       /\ length = AttributeValue(a, FormOf(AttrForm.result)).length
  BY <1>8
<1> HIDE DEF v, length
<1>11. /\ length = y - info
       /\ ValueAppears(file, d, D, a, from, to, y, v)
  <2>1. /\ AttributeValue(a, FormOf(AttrForm.result)).length = y - info
        /\ ValueAppears(file, d, D, a, from, to, y, v)
    BY <1>2, <1>4, <1>6, <1>7, <1>9, <1>10, ValueIsRead
  <2> QED BY <1>10, <2>1
<1>12. info' = y /\ info_bytes' = Len(file.info) - y
  BY <1>1, <1>2, <1>8, <1>11, Advances
<1>13. Len(D.specs) \in Nat /\ Format!DeclarationSound(D)
  BY <1>4 DEF Between
<1>14. InPlace'
  BY <1>1, <1>3, <1>5, <1>7, <1>12, <1>13, ValueOver
<1>15. D.tag = "DW_TAG_inheritance" => a \in {"data_member_location", "type"}
  <2>1. ASSUME D.tag = "DW_TAG_inheritance" PROVE a \in {"data_member_location", "type", "other"}
    BY <1>8, <1>13, <2>1 DEF Format!DeclarationSound
  <2>2. a # "other"
    BY <1>9 DEF Attribute
  <2> QED BY <2>1, <2>2
<1>16. LogDwarfInfo(a, v)
  BY <1>1, <1>8
<1>17. WalkStep
  <2>1. UNCHANGED file /\ pc = "attr" /\ pc' = "attr"
    BY <1>1
  <2> QED BY <1>2, <1>9, <1>11, <1>12, <1>15, <1>16, <2>1, WalkReadsAttribute
<1> QED BY <1>14, <1>17

\* Both walks begin before the first unit.
LEMMA InitBegins == ASSUME WellEncoded, Init PROVE InPlace /\ Walk!Init
<1>1. /\ BuilderInit /\ file \in Sections /\ pc = "unit" /\ info = 0 /\ info_bytes = Len(file.info)
      /\ unit_hdr = 0 /\ compilation_unit_ = <<>> /\ abbrev = 0 /\ abbrev_bytes = 0
  BY DEF Init
<1>2. Legible(file)
  BY <1>1 DEF WellEncoded, Legible
<1>3. /\ Len(file.info) \in Nat /\ Len(file.abbrev) \in Nat /\ DiesInOrder(file)
  BY <1>2, BytesAre, EncodedInOrder DEF Readables, Legible
<1>4. PlaceOK
  <2>1. \A x \in Nat : 0 \in 0 .. x /\ x = x - 0
    OBVIOUS
  <2> QED BY <1>1, <1>3, <2>1 DEF PlaceOK
<1>5. TableOK
  <2>1. DOMAIN <<>> = {}
    OBVIOUS
  <2> QED BY <1>1, <2>1 DEF TableOK
<1>6. ReadAt(file, info) = {}
  <2>1. ASSUME NEW d \in ReadAt(file, info) PROVE FALSE
    <3>1. d \in 1 .. Len(file.dies) /\ file.dies[d].id < 0
      BY <1>1, <1>3 DEF ReadAt, DiesInOrder
    <3>2. file.dies[d].id \in Nat
      BY <1>3, <3>1, DieTyped
    <3> QED BY <3>1, <3>2
  <2> QED BY <2>1
<1>7. OpenAt(file, info) = {} /\ Settled(file, info)
  BY <1>6 DEF OpenAt, Settled
<1>8. walk_dies = <<>> /\ walk_open = <<>>
  <2>1. Cardinality(ReadAt(file, info)) = 0
    BY <1>6, FS_EmptySet
  <2>2. DiesAt(file, info) = <<>>
    <3>1. 1 .. 0 = {}
      OBVIOUS
    <3> QED BY <2>1, <3>1 DEF DiesAt
  <2> QED BY <1>7, <2>2, OrderedEmpty DEF walk_dies, walk_open
<1>9. info = Len(file.info) \/ \E n \in 1 .. Len(file.units) : info = file.units[n].at
  <2>1. /\ \A k \in 1 .. Len(file.units) :
             file.units[k].at = IF k = 1 THEN 0 ELSE file.units[k - 1].end
        /\ Len(file.info) = IF Len(file.units) = 0 THEN 0 ELSE file.units[Len(file.units)].end
        /\ file.units \in Seq(Format!UnitLayout)
    BY <1>2 DEF Legible, Format!Encoded
  <2>2. Len(file.units) \in Nat
    BY <2>1
  <2>3. CASE Len(file.units) = 0
    BY <1>1, <2>1, <2>3
  <2>4. CASE Len(file.units) # 0
    <3>1. 1 \in 1 .. Len(file.units)
      BY <2>2, <2>4
    <3>2. file.units[1].at = 0
      BY <2>1, <3>1
    <3> QED BY <1>1, <3>1, <3>2
  <2> QED BY <2>3, <2>4
<1>10. InPlace
  BY <1>1, <1>4, <1>5, <1>7, <1>9 DEF InPlace, BeforeUnit
<1>11. walk_pc = "unit"
  BY <1>1, PcIs DEF PcMeans
<1>12. Walk!Init
  BY <1>1, <1>8, <1>11, EndAgrees DEF Walk!Init
<1> QED BY <1>10, <1>12

\* Stuttering.
LEMMA NothingMoves == ASSUME InPlace, UNCHANGED vars PROVE InPlace' /\ WalkStep
<1>1. UNCHANGED builder /\ UNCHANGED <<file, pc, info, info_bytes, unit_hdr, compilation_unit_, abbrev, abbrev_bytes>>
  BY DEF vars, builder
<1>2. InPlace'
  <2>1. PlaceOK' /\ TableOK'
    BY <1>1 DEF InPlace, PlaceOK, TableOK
  <2>2. BeforeUnit' <=> BeforeUnit
    BY <1>1 DEF BeforeUnit
  <2>3. ASSUME NEW u, NEW i PROVE Loaded(u, i)' <=> Loaded(u, i)
    BY <1>1 DEF Loaded, Declarations, Table
  <2>4. ASSUME NEW n, NEW i, BeforeDeclaration(n, i) PROVE BeforeDeclaration(n, i)'
    BY <1>1, <2>3, <2>4 DEF BeforeDeclaration, Declarations, Table
  <2>5. ASSUME NEW n, NEW k, BeforeEntry(n, k) PROVE BeforeEntry(n, k)'
    BY <1>1, <2>3, <2>5 DEF BeforeEntry, Declarations, Table
  <2>6. ASSUME NEW n, NEW k, NEW j, BeforeValue(n, k, j) PROVE BeforeValue(n, k, j)'
    BY <1>1, <2>3, <2>6 DEF BeforeValue, Declared, Declarations, Table
  <2> QED BY <1>1, <2>1, <2>2, <2>4, <2>5, <2>6 DEF InPlace
<1>3. walk_pc' = walk_pc
  BY <1>1 DEF walk_pc
<1> QED BY <1>1, <1>2, <1>3, WalkStands, Stutters

\* Every step keeps the place, and is one of the abstract walk.
LEMMA EveryStep == ASSUME WellEncoded, InPlace, [Next]_vars PROVE InPlace' /\ WalkStep
<1>1. CASE EndOfInfo
  BY <1>1, StepEndOfInfo
<1>2. CASE ReadUnit
  BY <1>2, StepReadUnit
<1>3. CASE LoadAbbrevTag
  BY <1>3, StepLoadAbbrevTag
<1>4. CASE EndOfAbbrevs
  BY <1>4, StepEndOfAbbrevs
<1>5. CASE DuplicateAbbrev
  BY <1>5, StepDuplicateAbbrev
<1>6. CASE EndUnit
  BY <1>6, StepEndUnit
<1>7. CASE ReadNull
  BY <1>7, StepReadNull
<1>8. CASE ReadDie
  BY <1>8, StepReadDie
<1>9. CASE UnknownAbbrev
  BY <1>9, StepUnknownAbbrev
<1>10. CASE ReadAttribute
  BY <1>10, StepReadAttribute
<1>11. CASE SkipAttribute
  BY <1>11, StepSkipAttribute
<1>12. CASE BadForm
  BY <1>12, StepBadForm
<1>13. CASE EndOfAttributes
  BY <1>13, StepEndOfAttributes
<1>14. CASE UNCHANGED vars
  BY <1>14, NothingMoves
<1> QED BY <1>1, <1>2, <1>3, <1>4, <1>5, <1>6, <1>7, <1>8, <1>9, <1>10, <1>11, <1>12, <1>13, <1>14
        DEF Next

\* However the units, tables, numbers and forms lie in the section, the walk never
\* loses its place: pc, info and abbrev are always where the next thing begins, and
\* the abbreviations that are loaded are the unit's own.
THEOREM PlaceKept == ASSUME WellEncoded PROVE Spec => []InPlace
<1>1. Init => InPlace
  BY InitBegins
<1>2. InPlace /\ [Next]_vars => InPlace'
  BY EveryStep
<1> QED BY <1>1, <1>2, PTL DEF Spec

\* DwarfFile::GetAllClasses implements the walk of DieWalk: for every file whose
\* sections are well encoded its calls to the builder are those of a walk over exactly
\* the DIEs that the sections encode, with the values they encode.
THEOREM SectionsWalked == ASSUME WellEncoded PROVE Spec => WalksItsDies
<1>1. Init => Walk!Init
  BY InitBegins
<1>2. InPlace /\ [Next]_vars => [Walk!Next]_(Walk!vars)
  BY EveryStep DEF WalkStep, Walk!vars
<1> QED BY <1>1, <1>2, PlaceKept, PTL DEF Spec, WalksItsDies, Walk!Spec

(***************************************************************************)
(* What is proved of the walk holds of the files.                          *)
(***************************************************************************)
Proved == INSTANCE RecordProofs WITH
  Tags <- AllTags, Nesting <- AllTags \X AllTags, Attributes <- Attribute,
  Offset <- DieOffsets, Datum <- AllData,
  MaxAttrs <- MaxDies * Cardinality(Attribute), Padding <- TRUE,
  pc <- walk_pc, dies <- walk_dies, open <- walk_open

\* The handlers, once more.
LEMMA ProvedCurrentAgrees ==
  /\ Proved!Innermost = Innermost /\ Proved!CurrentElementType = CurrentElementType
  /\ Proved!Newest = Newest /\ Proved!NewestMember = NewestMember /\ Proved!NewestParent = NewestParent
<1>1. Proved!Innermost = Innermost
  BY DEF Proved!Innermost, Innermost, Proved!Last, Last
<1>2. Proved!CurrentElementType = CurrentElementType
  BY <1>1 DEF Proved!CurrentElementType, CurrentElementType
<1>3. Proved!Newest = Newest
  BY DEF Proved!Newest, Newest
<1>4. Proved!NewestMember = NewestMember /\ Proved!NewestParent = NewestParent
  BY <1>1 DEF Proved!NewestMember, NewestMember, Proved!NewestParent, NewestParent
<1> QED BY <1>1, <1>2, <1>3, <1>4

\* RegisterNewTag.
LEMMA ProvedRegisterAgrees ==
  ASSUME NEW tag, NEW id, NEW c PROVE Proved!RegisterNewTag(tag, id, c) <=> RegisterNewTag(tag, id, c)
<1>1. \A e, t : Proved!Element(e, t) = Element(e, t)
  BY DEF Proved!Element, Element
<1>2. Proved!CurrentElementType = CurrentElementType /\ Proved!Innermost = Innermost
  BY ProvedCurrentAgrees
<1>3. ASSUME NEW type PROVE Proved!Added(type) = Added(type)
  BY <1>2 DEF Proved!Added, Added
<1>4. ASSUME NEW type, NEW x PROVE Proved!Inserted(type, x) = Inserted(type, x)
  BY <1>1, <1>2, <1>3 DEF Proved!Inserted, Inserted
<1>5. Proved!ElementOf(tag) = ElementOf(tag)
  BY DEF Proved!ElementOf, ElementOf, Proved!TagElement, TagElement
<1> QED BY <1>1, <1>3, <1>4, <1>5 DEF Proved!RegisterNewTag, RegisterNewTag, Proved!AddElement, AddElement

\* LogDwarfInfo.
LEMMA ProvedLogAgrees ==
  ASSUME NEW a \in Attribute, NEW v PROVE Proved!LogDwarfInfo(a, v) <=> LogDwarfInfo(a, v)
<1>1. Proved!Innermost = Innermost /\ Proved!Newest = Newest /\ Proved!NewestMember = NewestMember
      /\ Proved!NewestParent = NewestParent
  BY ProvedCurrentAgrees
<1>2. Proved!CurrentElementType = CurrentElementType /\ Proved!Ready = Ready
  BY ProvedCurrentAgrees DEF Proved!Ready, Ready
<1>3. Proved!ToMember = ToMember /\ Proved!ToParent = ToParent
  BY <1>1, <1>2 DEF Proved!ToMember, ToMember, Proved!ToParent, ToParent
<1>4. Proved!SetElementName(v) <=> SetElementName(v)
  BY <1>1, <1>2, <1>3 DEF Proved!SetElementName, SetElementName
<1>5. Proved!SetElementSize(v) <=> SetElementSize(v)
  BY <1>1, <1>2, <1>3 DEF Proved!SetElementSize, SetElementSize
<1>6. Proved!SetElementOffset(v) <=> SetElementOffset(v)
  BY <1>1, <1>2, <1>3 DEF Proved!SetElementOffset, SetElementOffset
<1>7. Proved!SetElementType(v) <=> SetElementType(v)
  BY <1>1, <1>2, <1>3 DEF Proved!SetElementType, SetElementType
<1>8. Proved!SetElementCount(v) <=> SetElementCount(v)
  BY <1>1, <1>2, <1>3 DEF Proved!SetElementCount, SetElementCount
<1>9. CASE a \in {"name", "linkage_name"}
  BY <1>4, <1>9 DEF Proved!LogDwarfInfo, LogDwarfInfo
<1>10. CASE a = "byte_size"
  BY <1>5, <1>10 DEF Proved!LogDwarfInfo, LogDwarfInfo
<1>11. CASE a = "data_member_location"
  BY <1>6, <1>11 DEF Proved!LogDwarfInfo, LogDwarfInfo
<1>12. CASE a = "type"
  BY <1>7, <1>12 DEF Proved!LogDwarfInfo, LogDwarfInfo
<1>13. CASE a = "count"
  BY <1>8, <1>13 DEF Proved!LogDwarfInfo, LogDwarfInfo
<1> QED BY <1>9, <1>10, <1>11, <1>12, <1>13 DEF Attribute

\* EndOfChildren, and the constructor.
LEMMA ProvedEndAgrees ==
  /\ Proved!EndOfChildren <=> EndOfChildren
  /\ Proved!BuilderInit <=> BuilderInit
  /\ Proved!builder = builder /\ Proved!Attribute = Attribute
<1>1. Proved!builder = builder
  BY DEF Proved!builder, builder
<1>2. Proved!EndOfChildren <=> EndOfChildren
  BY DEF Proved!EndOfChildren, EndOfChildren, Proved!builder, builder, Proved!Last, Last, Proved!Front, Front
<1>3. Proved!BuilderInit <=> BuilderInit
  BY DEF Proved!BuilderInit, BuilderInit
<1>4. Proved!Attribute = Attribute
  BY DEF Proved!Attribute, Attribute
<1> QED BY <1>1, <1>2, <1>3, <1>4


\* The two instances of the walk count alike ...
LEMMA SameCardinality == ASSUME NEW S PROVE Proved!Cardinality(S) = Walk!Cardinality(S)
BY DEF Proved!Cardinality, Walk!Cardinality

\* ... and take the same steps: a DIE ...
LEMMA SameReadDie ==
  ASSUME NEW tag_id, NEW tag, NEW c PROVE Walk!ReadDie(tag_id, tag, c) <=> Proved!ReadDie(tag_id, tag, c)
<1>1. Walk!RegisterNewTag(tag, tag_id, c) <=> Proved!RegisterNewTag(tag, tag_id, c)
  BY RegisterAgrees, ProvedRegisterAgrees
<1>2. Walk!Roots = Proved!Roots /\ Walk!Leaves = Proved!Leaves
  BY DEF Walk!Roots, Proved!Roots, Walk!Leaves, Proved!Leaves
<1>3. Walk!Attribute = Proved!Attribute
  BY EndAgrees, ProvedEndAgrees
<1>4. \A s : Walk!Last(s) = Proved!Last(s)
  BY DEF Walk!Last, Proved!Last
<1> QED BY <1>1, <1>2, <1>3, <1>4 DEF Walk!ReadDie, Proved!ReadDie

\* ... an attribute ...
LEMMA SameReadAttribute ==
  ASSUME NEW a \in Attribute, NEW v PROVE Walk!ReadAttribute(a, v) <=> Proved!ReadAttribute(a, v)
<1>1. Walk!LogDwarfInfo(a, v) <=> Proved!LogDwarfInfo(a, v)
  BY LogAgrees, ProvedLogAgrees
<1>2. Walk!Current = Proved!Current
  BY DEF Walk!Current, Proved!Current
<1>3. \A d, b : Walk!Has(d, b) <=> Proved!Has(d, b)
  BY DEF Walk!Has, Proved!Has
<1>4. \A t, b : Walk!MayCarry(t, b) <=> Proved!MayCarry(t, b)
  BY DEF Walk!MayCarry, Proved!MayCarry
<1>5. Walk!Attribute = Proved!Attribute
  BY EndAgrees, ProvedEndAgrees
<1>6. Walk!AttrsRead = Proved!AttrsRead
  BY <1>3, <1>5 DEF Walk!AttrsRead, Proved!AttrsRead
<1>7. Walk!Cardinality(Walk!AttrsRead) = Proved!Cardinality(Proved!AttrsRead)
  BY <1>6, SameCardinality
<1> QED BY <1>1, <1>2, <1>3, <1>4, <1>7 DEF Walk!ReadAttribute, Proved!ReadAttribute

\* ... and the others.
LEMMA SameSteps ==
  /\ Walk!ReadUnit <=> Proved!ReadUnit
  /\ Walk!Return <=> Proved!Return
  /\ Walk!EndOfAttributes <=> Proved!EndOfAttributes
  /\ Walk!ReadNull <=> Proved!ReadNull
  /\ Walk!EndUnit <=> Proved!EndUnit
<1>1. Walk!builder = Proved!builder
  BY EndAgrees, ProvedEndAgrees
<1>2. Walk!EndOfChildren <=> Proved!EndOfChildren
  BY EndAgrees, ProvedEndAgrees
<1>3. Walk!ReadUnit <=> Proved!ReadUnit
  BY DEF Walk!ReadUnit, Proved!ReadUnit, Walk!builder, Proved!builder
<1>4. Walk!Return <=> Proved!Return
  BY DEF Walk!Return, Proved!Return, Walk!builder, Proved!builder
<1>5. Walk!EndOfAttributes <=> Proved!EndOfAttributes
  BY DEF Walk!EndOfAttributes, Proved!EndOfAttributes, Walk!builder, Proved!builder
<1>6. Walk!EndUnit <=> Proved!EndUnit
  BY DEF Walk!EndUnit, Proved!EndUnit, Walk!builder, Proved!builder
<1>7. Walk!ReadNull <=> Proved!ReadNull
  BY <1>2 DEF Walk!ReadNull, Proved!ReadNull, Walk!Front, Proved!Front
<1> QED BY <1>3, <1>4, <1>5, <1>6, <1>7

\* So they are the same walk.
LEMMA SameWalk == Walk!Spec => Proved!Spec
<1>1. Walk!Init => Proved!Init
  BY EndAgrees, ProvedEndAgrees DEF Walk!Init, Proved!Init
<1>2. Walk!Next => Proved!Next
  <2>1. Walk!Current = Proved!Current
    BY DEF Walk!Current, Proved!Current
  <2> QED BY <2>1, SameSteps, SameReadDie, SameReadAttribute DEF Walk!Next, Proved!Next
<1>3. [Walk!Next]_(Walk!vars) => [Proved!Next]_(Proved!vars)
  BY <1>2 DEF Walk!vars, Proved!vars
<1> QED BY <1>1, <1>3, PTL DEF Walk!Spec, Proved!Spec

\* What DieWalk assumes of its constants holds of well encoded files.
LEMMA DatumHolds ==
  ASSUME WellEncoded PROVE Proved!BoundsAssumption /\ Proved!DatumAssumption /\ Proved!GarbageAssumption
<1>1. Proved!Attribute = Attribute
  BY ProvedEndAgrees
<1>2. ASSUME NEW d \in 1 .. MaxDies, NEW f \in Having(d)
      PROVE  f.dies[d].id \in Nat /\ \A a \in Attribute : f.dies[d].attrs[a] \in SUBSET Nat
  <2>1. f \in Sections /\ d <= Len(f.dies) /\ d \in Nat \ {0}
    BY <1>2, SectionsAssumption DEF Having
  <2>2. DiesInOrder(f)
    BY <2>1, EncodedInOrder DEF WellEncoded
  <2>3. d \in 1 .. Len(f.dies)
    BY <2>1, <2>2 DEF DiesInOrder
  <2> QED BY <2>2, <2>3, DieTyped
<1>3. Proved!BoundsAssumption
  <2>1. MaxDies * Cardinality(Attribute) \in Nat
    BY AttributesFinite, SectionsAssumption
  <2> QED BY <2>1, SectionsAssumption DEF Proved!BoundsAssumption
<1>4. Proved!DatumAssumption
  <2>1. DieOffsets \in [1 .. MaxDies -> SUBSET Nat]
    BY <1>2 DEF DieOffsets
  <2>2. AllData \in [Attribute -> [1 .. MaxDies -> SUBSET Nat]]
    <3>1. ASSUME NEW a \in Attribute, NEW d \in 1 .. MaxDies
          PROVE  UNION {f.dies[d].attrs[a] : f \in Having(d)} \in SUBSET Nat
      BY <1>2
    <3> QED BY <3>1 DEF AllData
  <2> QED BY <1>1, <2>1, <2>2 DEF Proved!DatumAssumption
<1>5. Proved!GarbageAssumption
  BY GarbageAssumption DEF Proved!GarbageAssumption, Proved!ElementType, ElementType
<1> QED BY <1>3, <1>4, <1>5

\* The shape of the builder, in the two modules.
LEMMA SameBuilderType == Proved!BuilderTypeOK <=> BuilderTypeOK
BY DEF Proved!BuilderTypeOK, BuilderTypeOK, Proved!ElementRecord, ElementRecord,
       Proved!MemberRecord, MemberRecord, Proved!Parent, Parent, Proved!ElementType, ElementType

\* The trees, in the two modules.
LEMMA SameWalkedTree == Proved!WalkedTree(elements_) <=> WalkedTree(elements_)
BY DEF Proved!WalkedTree, WalkedTree, Proved!ElementRecord, ElementRecord,
       Proved!MemberRecord, MemberRecord, Proved!Parent, Parent, Proved!ElementType, ElementType

\* Although the code checks no bound, no pointer leaves its section as long as that is well
\* encoded: not info and abbrev between two steps, not the header of the unit, and not the
\* list of attributes of any abbreviation that is loaded.
THEOREM StaysInSections == ASSUME WellEncoded PROVE Spec => []TypeOK
<1>1. Spec => []Proved!TypeOK
  BY SectionsWalked, SameWalk, DatumHolds, Proved!TypeCorrect, PTL DEF WalksItsDies
<1>2. InPlace /\ Proved!TypeOK => TypeOK
  <2> SUFFICES ASSUME InPlace, Proved!TypeOK PROVE TypeOK
    OBVIOUS
  <2>1. BuilderTypeOK
    BY SameBuilderType DEF Proved!TypeOK
  <2> QED BY <2>1 DEF InPlace, PlaceOK, TableOK, TypeOK
<1> QED BY <1>1, <1>2, PlaceKept, PTL

\* Whatever forms, abbreviations and units say it with, the dump of a well encoded file has
\* every type with what its own DIE says: name, size, type, members and base classes, as long
\* as no childless DIE that is not recorded carries an attribute.
THEOREM SectionsRecorded == ASSUME WellEncoded PROVE Spec => []Proved!ExactWithoutStrays
BY SectionsWalked, SameWalk, DatumHolds, Proved!RecordsFaithful, PTL DEF WalksItsDies

\* Members and base classes of a well encoded file are filed under their own types, in the
\* order of the section, and none is lost.
THEOREM SectionsFiled == ASSUME WellEncoded PROVE Spec => []Proved!ChildrenFiled
BY SectionsWalked, SameWalk, DatumHolds, Proved!ChildrenComplete, PTL DEF WalksItsDies

\* What GetAllClasses leaves of a well encoded file is a tree as the script's model starts
\* from: its types in the order of the section, none with the id 0, and placeholders without
\* id and members.
THEOREM SectionsMakeTrees == ASSUME WellEncoded PROVE Spec => []WalkedTree(elements_)
<1>1. \A d \in 1 .. MaxDies : 0 \notin DieOffsets[d]
  <2>1. ASSUME NEW d \in 1 .. MaxDies, NEW f \in Having(d) PROVE f.dies[d].id # 0
    <3>1. f \in Sections /\ d <= Len(f.dies) /\ d \in Nat \ {0} /\ Format!Encoded(f)
      BY <2>1, SectionsAssumption DEF Having, WellEncoded
    <3>2. DiesInOrder(f)
      BY <3>1, EncodedInOrder
    <3>3. d \in 1 .. Len(f.dies)
      BY <3>1, <3>2 DEF DiesInOrder
    <3>4. f.dies[d].id >= 11
      BY <3>1, <3>3 DEF Format!Encoded, Format!DiesOf, Format!HeaderBytes
    <3> QED BY <3>2, <3>3, <3>4, DieTyped
  <2> QED BY <2>1 DEF DieOffsets
<1>2. Proved!Spec => []Proved!WalkedTree(elements_)
  BY <1>1, DatumHolds, Proved!TreesWalked
<1>3. Proved!WalkedTree(elements_) => WalkedTree(elements_)
  BY SameWalkedTree
<1> QED BY <1>2, <1>3, SectionsWalked, SameWalk, PTL DEF WalksItsDies

================================================================================
