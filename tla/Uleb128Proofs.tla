----------------------------- MODULE Uleb128Proofs -----------------------------
(***************************************************************************)
(* ULEB128 reads what the encoding says, for every width of a byte and of  *)
(* the result, every number and whatever surrounds it in the section.      *)
(***************************************************************************)
EXTENDS MCUleb128, Induction, SequenceTheorems

--------------------------------------------------------------------------------
(* Division.                                                               *)

LEMMA DivisionIs ==
  ASSUME NEW m \in Nat \ {0}, NEW q \in Nat, NEW r \in 0 .. m - 1
  PROVE  (m * q + r) % m = r /\ (m * q + r) \div m = q
<1>1. (m * q + r) \in Nat
  OBVIOUS
<1> QED BY <1>1

LEMMA Division ==
  ASSUME NEW m \in Nat \ {0}, NEW a \in Nat
  PROVE  a \div m \in Nat /\ a % m \in 0 .. m - 1 /\ a = m * (a \div m) + (a % m)
<1> DEFINE Good == {n \in 0 .. a : \E q \in Nat, r \in 0 .. m - 1 : n = m * q + r}
<1>1. 0 \in Good
  <2>1. 0 \in 0 .. m - 1 /\ 0 = m * 0 + 0
    OBVIOUS
  <2> QED BY <2>1
<1>2. ASSUME NEW n \in 1 .. a, n - 1 \in Good PROVE n \in Good
  <2>1. PICK q \in Nat, r \in 0 .. m - 1 : n - 1 = m * q + r
    BY <1>2
  <2>2. CASE r + 1 < m
    <3>1. r + 1 \in 0 .. m - 1 /\ n = m * q + (r + 1)
      BY <2>1, <2>2
    <3> QED BY <3>1
  <2>3. CASE ~(r + 1 < m)
    <3>1. 0 \in 0 .. m - 1 /\ q + 1 \in Nat /\ n = m * (q + 1) + 0
      BY <2>1, <2>3
    <3> QED BY <3>1
  <2> QED BY <2>2, <2>3
<1>3. Good = 0 .. a
  <2>1. Good \in SUBSET (0 .. a)
    OBVIOUS
  <2> HIDE DEF Good
  <2> QED BY <1>1, <1>2, <2>1, StepByStep
<1>4. PICK q \in Nat, r \in 0 .. m - 1 : a = m * q + r
  <2>1. a \in Good
    <3>1. a \in 0 .. a
      OBVIOUS
    <3> HIDE DEF Good
    <3> QED BY <1>3, <3>1
  <2> QED BY <2>1
<1>5. a % m = r /\ a \div m = q
  BY <1>4, DivisionIs
<1> QED BY <1>4, <1>5

\* The rest of a sum is that of the rests.
LEMMA RestOfSum ==
  ASSUME NEW m \in Nat \ {0}, NEW a \in Nat, NEW b \in Nat
  PROVE  (a + (b % m)) % m = (a + b) % m
<1> DEFINE q == b \div m
           r == b % m
           p == (a + r) \div m
           t == (a + r) % m
<1>1. q \in Nat /\ r \in 0 .. m - 1 /\ b = m * q + r
  BY Division
<1>2. a + r \in Nat
  BY <1>1
<1>3. p \in Nat /\ t \in 0 .. m - 1 /\ a + r = m * p + t
  <2> HIDE DEF r
  <2> QED BY <1>2, Division
<1> HIDE DEF q, r, p, t
<1>4. a + b = m * (p + q) + t /\ p + q \in Nat
  BY <1>1, <1>3
<1>5. (m * (p + q) + t) % m = t
  BY <1>3, <1>4, DivisionIs
<1> QED BY <1>4, <1>5 DEF t, r

LEMMA RestOfLess ==
  ASSUME NEW m \in Nat \ {0}, NEW a \in 0 .. m - 1
  PROVE  a % m = a
<1>1. a = m * 0 + a
  OBVIOUS
<1> QED BY <1>1, DivisionIs

--------------------------------------------------------------------------------
(* Powers of two.                                                          *)

Powers(p, n) == p \in [0 .. n -> Nat] /\ p[0] = 1 /\ \A k \in 1 .. n : p[k] = 2 * p[k - 1]

LEMMA TwoToPowers ==
  ASSUME NEW n \in Nat
  PROVE  \E p : Powers(p, n) /\ TwoTo(n) = p[n]
<1> DEFINE Is(p) == p = [k \in 0 .. n |-> IF k = 0 THEN 1 ELSE 2 * p[k - 1]]
           step == [k \in 1 .. n |-> [x \in Nat |-> 2 * x]]
<1>1. step \in StepsOn(Nat, n) /\ \A k \in 1 .. n : \A x \in Nat : step[k][x] = 2 * x
  BY DEF StepsOn
<1> HIDE DEF step
<1>2. PICK p : Iterates(p, Nat, n, 1, step)
  BY <1>1, Iteration
<1>3. Powers(p, n)
  <2>1. p \in [0 .. n -> Nat] /\ p[0] = 1 /\ \A k \in 1 .. n : p[k] = step[k][p[k - 1]]
    BY <1>2 DEF Iterates
  <2>2. \A k \in 1 .. n : p[k - 1] \in Nat
    BY <2>1
  <2> QED BY <1>1, <2>1, <2>2 DEF Powers
<1>4. Is(p)
  <2>1. \A k \in 0 .. n : p[k] = IF k = 0 THEN 1 ELSE 2 * p[k - 1]
    BY <1>3 DEF Powers
  <2> QED BY <1>3, <2>1 DEF Powers
<1>5. TwoTo(n) = (CHOOSE q : Is(q))[n]
  BY DEF TwoTo
<1>6. Is(CHOOSE q : Is(q))
  <2> HIDE DEF Is
  <2> QED BY <1>4
<1>7. PICK f : f = (CHOOSE q : Is(q)) /\ Is(f)
  BY <1>6
<1>8. \A k \in 0 .. n : f[k] = IF k = 0 THEN 1 ELSE 2 * f[k - 1]
  BY <1>7
<1>9. f = p
  <2> DEFINE Good == {k \in 0 .. n : f[k] = p[k]}
  <2>1. 0 \in Good
    BY <1>3, <1>8 DEF Powers
  <2>2. \A k \in 1 .. n : k - 1 \in Good => k \in Good
    BY <1>3, <1>8 DEF Powers
  <2>3. Good \in SUBSET (0 .. n)
    OBVIOUS
  <2> HIDE DEF Good
  <2>4. Good = 0 .. n
    BY <2>1, <2>2, <2>3, StepByStep
  <2> QED BY <1>3, <1>7, <2>4 DEF Powers, Good
<1> QED BY <1>3, <1>5, <1>7, <1>9

LEMMA TwoToIs ==
  /\ TwoTo(0) = 1
  /\ \A n \in Nat : TwoTo(n) \in Nat \ {0} /\ TwoTo(n + 1) = 2 * TwoTo(n)
<1>1. TwoTo(0) = 1
  <2>1. PICK p : Powers(p, 0) /\ TwoTo(0) = p[0]
    BY TwoToPowers
  <2> QED BY <2>1 DEF Powers
<1>2. ASSUME NEW n \in Nat PROVE TwoTo(n) \in Nat \ {0} /\ TwoTo(n + 1) = 2 * TwoTo(n)
  <2>1. PICK p : Powers(p, n) /\ TwoTo(n) = p[n]
    BY TwoToPowers
  <2>2. PICK q : Powers(q, n + 1) /\ TwoTo(n + 1) = q[n + 1]
    BY TwoToPowers
  <2> DEFINE Good == {k \in 0 .. n : p[k] = q[k] /\ p[k] # 0}
  <2>3. 0 \in Good
    BY <2>1, <2>2 DEF Powers
  <2>4. ASSUME NEW k \in 1 .. n, k - 1 \in Good PROVE k \in Good
    <3>1. k \in 1 .. n + 1 /\ k - 1 \in 0 .. n
      OBVIOUS
    <3>2. p[k] = 2 * p[k - 1] /\ q[k] = 2 * q[k - 1] /\ p[k - 1] \in Nat
      BY <2>1, <2>2, <3>1 DEF Powers
    <3>3. p[k - 1] = q[k - 1] /\ p[k - 1] # 0
      BY <2>4
    <3>4. k \in 0 .. n /\ p[k] = q[k] /\ p[k] # 0
      BY <3>2, <3>3
    <3> QED BY <3>4
  <2>5. Good \in SUBSET (0 .. n)
    OBVIOUS
  <2> HIDE DEF Good
  <2>6. Good = 0 .. n
    BY <2>3, <2>4, <2>5, StepByStep
  <2>7. n \in Good /\ n + 1 \in 1 .. n + 1 /\ (n + 1) - 1 = n
    BY <2>6
  <2>8. q[n + 1] = 2 * q[n] /\ p[n] = q[n] /\ p[n] \in Nat \ {0}
    BY <2>1, <2>2, <2>7 DEF Powers, Good
  <2> QED BY <2>1, <2>2, <2>8
<1> QED BY <1>1, <1>2

LEMMA TwoToSum ==
  ASSUME NEW a \in Nat, NEW b \in Nat
  PROVE  TwoTo(a + b) = TwoTo(a) * TwoTo(b)
<1> DEFINE Good == {k \in 0 .. b : TwoTo(a + k) = TwoTo(a) * TwoTo(k)}
<1>1. 0 \in Good
  <2>1. TwoTo(a) \in Nat /\ a + 0 = a
    BY TwoToIs
  <2>2. TwoTo(a + 0) = TwoTo(a) * TwoTo(0)
    BY <2>1, TwoToIs
  <2> QED BY <2>2
<1>2. ASSUME NEW k \in 1 .. b, k - 1 \in Good PROVE k \in Good
  <2>1. k - 1 \in Nat /\ a + (k - 1) \in Nat /\ (k - 1) + 1 = k /\ (a + (k - 1)) + 1 = a + k
    OBVIOUS
  <2>2. TwoTo(k) = 2 * TwoTo(k - 1) /\ TwoTo(a + k) = 2 * TwoTo(a + (k - 1))
    BY <2>1, TwoToIs
  <2>3. TwoTo(a + (k - 1)) = TwoTo(a) * TwoTo(k - 1)
    BY <1>2
  <2>4. TwoTo(a) \in Nat /\ TwoTo(k - 1) \in Nat
    BY <2>1, TwoToIs
  <2>5. TwoTo(a + k) = TwoTo(a) * TwoTo(k)
    BY <2>2, <2>3, <2>4
  <2> QED BY <2>5
<1>3. Good = 0 .. b
  <2>1. Good \in SUBSET (0 .. b)
    OBVIOUS
  <2> HIDE DEF Good
  <2> QED BY <1>1, <1>2, <2>1, StepByStep
<1> QED BY <1>3

--------------------------------------------------------------------------------
(* The loop.                                                               *)

\* A turn of it, with what the turns after it give.
Turn(b, data, s, next) ==
  LET byte == b[data + s + 1]
      rest == IF byte < More THEN [result |-> 0, length |-> s + 1] ELSE next
  IN  [result |-> (Shifted(byte % More, s) + rest.result) % Modulus, length |-> rest.length]

IsLoop(f, b, data, from, available) ==
  f = [s \in from .. available |->
         IF s = available THEN [result |-> 0, length |-> s] ELSE Turn(b, data, s, f[s + 1])]

\* The recursive function is one: each turn takes the value of the next.
LEMMA LoopExists ==
  ASSUME NEW b, NEW data, NEW available \in Nat
  PROVE  \E f : IsLoop(f, b, data, 0, available)
<1> DEFINE Good == {m \in 0 .. available : \E f : IsLoop(f, b, data, available - m, available)}
<1>1. 0 \in Good
  <2> DEFINE f == [s \in available .. available |-> [result |-> 0, length |-> s]]
  <2>1. \A s \in available .. available : s = available
    OBVIOUS
  <2>2. IsLoop(f, b, data, available, available)
    BY <2>1 DEF IsLoop
  <2>3. available - 0 = available
    OBVIOUS
  <2> HIDE DEF f
  <2> QED BY <2>2, <2>3
<1>2. ASSUME NEW m \in 1 .. available, m - 1 \in Good PROVE m \in Good
  <2> DEFINE s0 == available - m
  <2>1. s0 \in 0 .. available - 1 /\ available - (m - 1) = s0 + 1
    OBVIOUS
  <2>2. PICK f : IsLoop(f, b, data, s0 + 1, available)
    <3>1. PICK f : IsLoop(f, b, data, available - (m - 1), available)
      BY <1>2
    <3> HIDE DEF s0
    <3> QED BY <2>1, <3>1
  <2> HIDE DEF s0
  <2>3. PICK g : g = [s \in s0 .. available |-> IF s = s0 THEN Turn(b, data, s, f[s + 1]) ELSE f[s]]
    OBVIOUS
  <2>4. ASSUME NEW s \in s0 .. available
        PROVE  g[s] = IF s = available THEN [result |-> 0, length |-> s]
                      ELSE Turn(b, data, s, g[s + 1])
    <3>1. s # available => s + 1 \in s0 .. available /\ s + 1 # s0 /\ g[s + 1] = f[s + 1]
      BY <2>1, <2>3
    <3>2. CASE s = s0
      <4>1. g[s] = Turn(b, data, s, f[s + 1]) /\ s # available
        BY <2>1, <2>3, <3>2
      <4> QED BY <3>1, <4>1
    <3>3. CASE s # s0
      <4>1. s \in s0 + 1 .. available /\ g[s] = f[s]
        BY <2>1, <2>3, <3>3
      <4> QED BY <2>2, <3>1, <4>1 DEF IsLoop
    <3> QED BY <3>2, <3>3
  <2>5. IsLoop(g, b, data, s0, available)
    BY <2>3, <2>4 DEF IsLoop
  <2> QED BY <2>5 DEF s0
<1>3. Good = 0 .. available
  <2>1. Good \in SUBSET (0 .. available)
    OBVIOUS
  <2> HIDE DEF Good
  <2> QED BY <1>1, <1>2, <2>1, StepByStep
<1>4. available \in Good /\ available - available = 0
  <2> HIDE DEF Good
  <2> QED BY <1>3
<1> QED BY <1>4

Turns(f, b, data, available) ==
  /\ ULEB128(b, data, available) = f[0]
  /\ f[available] = [result |-> 0, length |-> available]
  /\ \A s \in 0 .. available - 1 : f[s] = Turn(b, data, s, f[s + 1])

LEMMA LoopIs ==
  ASSUME NEW b, NEW data, NEW available \in Nat
  PROVE  \E f : Turns(f, b, data, available)
<1> DEFINE Is(f) == f = [shift \in 0 .. available |->
                           IF shift = available THEN [result |-> 0, length |-> shift]
                           ELSE LET byte == b[data + shift + 1]
                                    rest == IF byte < More THEN [result |-> 0, length |-> shift + 1]
                                            ELSE f[shift + 1]
                                IN  [result |-> (Shifted(byte % More, shift) + rest.result) % Modulus,
                                     length |-> rest.length]]
<1>1. ULEB128(b, data, available) = (CHOOSE f : Is(f))[0]
  BY DEF ULEB128
<1>2. \A f : IsLoop(f, b, data, 0, available) <=> Is(f)
  BY DEF IsLoop, Turn
<1> HIDE DEF Is
<1>3. PICK f : f = (CHOOSE g : Is(g)) /\ Is(f)
  BY <1>2, LoopExists
<1>4. IsLoop(f, b, data, 0, available)
  BY <1>2, <1>3
<1>5. \A s \in 0 .. available :
        f[s] = IF s = available THEN [result |-> 0, length |-> s] ELSE Turn(b, data, s, f[s + 1])
  BY <1>4 DEF IsLoop
<1>6. available \in 0 .. available /\ \A s \in 0 .. available - 1 : s \in 0 .. available /\ s # available
  OBVIOUS
<1> QED BY <1>1, <1>3, <1>5, <1>6 DEF Turns

\* The number at data ends with its byte number upto, for want of more or because of the
\* byte's top bit.
EndsAt(b, data, available, upto) ==
  /\ upto \in 0 .. available
  /\ \A i \in 1 .. upto : b[data + i] \in Nat
  /\ \A i \in 1 .. upto - 1 : ~(b[data + i] < More)
  /\ upto = available \/ (upto > 0 /\ b[data + upto] < More)

\* The sums of what its first bytes stand for.
Sums(v, b, data, upto) ==
  /\ v \in [0 .. upto -> Nat] /\ v[0] = 0
  /\ \A i \in 1 .. upto : v[i] = v[i - 1] + (b[data + i] % More) * TwoTo((i - 1) * Group)

Reads(b, data, available, upto, sum) ==
  LET number == ULEB128(b, data, available) IN
  /\ number = [result |-> number.result, length |-> upto]
  /\ (upto - 1) * Group < Width => number.result = sum % Modulus

LEMMA NumberRead ==
  ASSUME NEW b, NEW data \in Nat, NEW available \in Nat, NEW upto, NEW values,
         EndsAt(b, data, available, upto), Sums(values, b, data, upto)
  PROVE  Reads(b, data, available, upto, values[upto])
<1> SUFFICES ASSUME upto \in 0 .. available,
                    \A i \in 1 .. upto : b[data + i] \in Nat,
                    \A i \in 1 .. upto - 1 : ~(b[data + i] < More),
                    upto = available \/ (upto > 0 /\ b[data + upto] < More),
                    values \in [0 .. upto -> Nat], values[0] = 0,
                    \A i \in 1 .. upto :
                      values[i] = values[i - 1] + (b[data + i] % More) * TwoTo((i - 1) * Group)
             PROVE  LET number == ULEB128(b, data, available) IN
                    /\ number = [result |-> number.result, length |-> upto]
                    /\ (upto - 1) * Group < Width => number.result = values[upto] % Modulus
  BY DEF EndsAt, Sums, Reads
<1>1. PICK f : Turns(f, b, data, available)
  BY LoopIs
<1>2. /\ ULEB128(b, data, available) = f[0]
      /\ f[available] = [result |-> 0, length |-> available]
      /\ \A s \in 0 .. available - 1 : f[s] = Turn(b, data, s, f[s + 1])
  BY <1>1 DEF Turns
<1> DEFINE End == [result |-> 0, length |-> upto]
           R(s) == IF s = upto THEN End ELSE f[s]
           Read(s) == (Shifted(b[data + s + 1] % More, s) + R(s + 1).result) % Modulus
           InWidth == (upto - 1) * Group < Width
<1>3. /\ More \in Nat \ {0} /\ Modulus \in Nat \ {0} /\ Group \in Nat /\ Width \in Nat
      /\ \A n \in Nat : TwoTo(n) \in Nat
  BY WidthAssumption, TwoToIs DEF More, Modulus
<1>4. ASSUME NEW s \in 0 .. upto - 1
      PROVE  R(s) = [result |-> Read(s), length |-> R(s + 1).length]
  <2>1. s \in 0 .. available - 1 /\ data + s + 1 = data + (s + 1) /\ s # upto
    OBVIOUS
  <2>2. f[s] = Turn(b, data, s, f[s + 1]) /\ R(s) = f[s]
    BY <1>2, <2>1
  <2>3. (IF b[data + s + 1] < More THEN [result |-> 0, length |-> s + 1] ELSE f[s + 1]) = R(s + 1)
    <3>1. CASE s + 1 = upto
      <4>1. CASE b[data + s + 1] < More
        BY <3>1, <4>1
      <4>2. CASE ~(b[data + s + 1] < More)
        <5>1. upto = available
          BY <2>1, <3>1, <4>2
        <5> QED BY <1>2, <3>1, <4>2, <5>1
      <4> QED BY <4>1, <4>2
    <3>2. CASE s + 1 # upto
      <4>1. s + 1 \in 1 .. upto - 1
        BY <3>2
      <4> QED BY <2>1, <3>2, <4>1
    <3> QED BY <3>1, <3>2
  <2> QED BY <2>2, <2>3 DEF Turn
<1>5. InWidth => \A s \in 0 .. upto - 1 :
                   Shifted(b[data + s + 1] % More, s) = (b[data + s + 1] % More) * TwoTo(s * Group)
  <2> SUFFICES ASSUME InWidth, NEW s \in 0 .. upto - 1
               PROVE  s * Group < Width
    BY DEF Shifted
  <2>1. s * Group \in Nat /\ (upto - 1) * Group \in Nat /\ s * Group <= (upto - 1) * Group
    <3>1. s \in Nat /\ upto - 1 \in Nat /\ s <= upto - 1
      OBVIOUS
    <3> QED BY <1>3, <3>1, TimesMonotonic
  <2> DEFINE p == s * Group
             w == (upto - 1) * Group
  <2>2. p \in Nat /\ w \in Nat /\ p <= w /\ w < Width
    BY <2>1
  <2> HIDE DEF p, w
  <2>3. p < Width
    BY <1>3, <2>2
  <2> QED BY <2>3 DEF p
<1> DEFINE Fine(s) == /\ R(s) = [result |-> R(s).result, length |-> upto]
                      /\ InWidth => /\ R(s).result \in 0 .. Modulus - 1
                                    /\ (values[s] + R(s).result) % Modulus = values[upto] % Modulus
           Good == {j \in 0 .. upto : Fine(upto - j)}
<1>6. Fine(upto)
  <2>1. R(upto) = End /\ End.result = 0 /\ End.length = upto /\ 0 \in 0 .. Modulus - 1
    BY <1>3
  <2>2. values[upto] + 0 = values[upto]
    OBVIOUS
  <2> QED BY <2>1, <2>2
<1>7. ASSUME NEW s \in 0 .. upto - 1, Fine(s + 1) PROVE Fine(s)
  <2>1. R(s) = [result |-> Read(s), length |-> R(s + 1).length]
    BY <1>4
  <2>2. R(s + 1).length = upto
    <3> HIDE DEF R
    <3> QED BY <1>7
  <2>3. ASSUME InWidth
        PROVE  /\ Read(s) \in 0 .. Modulus - 1
               /\ (values[s] + Read(s)) % Modulus = values[upto] % Modulus
    <3> DEFINE x == (b[data + s + 1] % More) * TwoTo(s * Group)
               r == R(s + 1).result
    <3>1. x \in Nat
      <4>1. s + 1 \in 1 .. upto /\ data + (s + 1) = data + s + 1 /\ s \in Nat
        OBVIOUS
      <4>2. b[data + s + 1] \in Nat /\ s * Group \in Nat
        <5>1. b[data + (s + 1)] \in Nat
          BY <4>1
        <5> QED BY <1>3, <4>1, <5>1
      <4> DEFINE y == b[data + s + 1]
      <4>3. y % More \in Nat
        <5>1. y \in Nat /\ More \in Nat \ {0}
          BY <1>3, <4>2
        <5> HIDE DEF y
        <5>2. y % More \in 0 .. More - 1
          BY <5>1, Division
        <5> QED BY <5>1, <5>2
      <4>4. TwoTo(s * Group) \in Nat
        BY <1>3, <4>2
      <4> QED BY <4>3, <4>4
    <3>2. r \in 0 .. Modulus - 1 /\ (values[s + 1] + r) % Modulus = values[upto] % Modulus
      <4> HIDE DEF R
      <4> QED BY <1>7, <2>3
    <3>3. Read(s) = (x + r) % Modulus
      <4> HIDE DEF R, InWidth
      <4> QED BY <1>5, <2>3
    <3>4. values[s + 1] = values[s] + x /\ values[s] \in Nat
      <4>1. s + 1 \in 1 .. upto /\ (s + 1) - 1 = s /\ data + (s + 1) = data + s + 1 /\ s \in 0 .. upto
        OBVIOUS
      <4> QED BY <4>1
    <3> HIDE DEF x, r, Read
    <3>5. x + r \in Nat
      BY <1>3, <3>1, <3>2
    <3>6. (x + r) % Modulus \in 0 .. Modulus - 1
      BY <1>3, <3>5, Division
    <3>7. (values[s] + ((x + r) % Modulus)) % Modulus = (values[s] + (x + r)) % Modulus
      BY <1>3, <3>4, <3>5, RestOfSum
    <3>8. values[s] + (x + r) = values[s + 1] + r
      <4>1. r \in Nat
        BY <1>3, <3>2
      <4> QED BY ONLY <3>1, <3>4, <4>1
    <3> QED BY <3>2, <3>3, <3>6, <3>7, <3>8
  <2> HIDE DEF R, Read, InWidth
  <2>4. R(s).result = Read(s) /\ R(s) = [result |-> R(s).result, length |-> upto]
    BY <2>1, <2>2
  <2> QED BY <2>3, <2>4
<1>8. Good = 0 .. upto
  <2> HIDE DEF Fine
  <2>1. 0 \in Good
    <3>1. upto - 0 = upto
      OBVIOUS
    <3> QED BY <1>6, <3>1
  <2>2. ASSUME NEW j \in 1 .. upto, j - 1 \in Good PROVE j \in Good
    <3>1. upto - j \in 0 .. upto - 1 /\ upto - (j - 1) = (upto - j) + 1
      OBVIOUS
    <3>2. Fine((upto - j) + 1)
      BY <2>2, <3>1
    <3> QED BY <1>7, <3>1, <3>2
  <2>3. Good \in SUBSET (0 .. upto)
    OBVIOUS
  <2> HIDE DEF Good
  <2> QED BY <2>1, <2>2, <2>3, StepByStep
<1>9. Fine(0)
  <2> HIDE DEF Fine
  <2>1. upto \in Good /\ upto - upto = 0
    <3> HIDE DEF Good
    <3> QED BY <1>8
  <2> QED BY <2>1
<1>10. R(0) = ULEB128(b, data, available)
  <2>1. CASE upto = 0
    <3>1. available = 0
      BY <2>1
    <3> QED BY <1>2, <2>1, <3>1
  <2>2. CASE upto # 0
    BY <1>2, <2>2
  <2> QED BY <2>1, <2>2
<1> HIDE DEF R
<1>11. InWidth => R(0).result = values[upto] % Modulus
  <2> SUFFICES ASSUME InWidth PROVE R(0).result = values[upto] % Modulus
    OBVIOUS
  <2>1. R(0).result \in 0 .. Modulus - 1
        /\ (values[0] + R(0).result) % Modulus = values[upto] % Modulus
    BY <1>9
  <2> DEFINE r == R(0).result
  <2>2. r \in 0 .. Modulus - 1 /\ (0 + r) % Modulus = values[upto] % Modulus
    BY <2>1
  <2> HIDE DEF r
  <2>3. 0 + r = r
    BY <1>3, <2>2
  <2>4. r % Modulus = r
    BY <1>3, <2>2, RestOfLess
  <2> QED BY <2>2, <2>3, <2>4 DEF r
<1>12. R(0) = [result |-> R(0).result, length |-> upto]
  BY <1>9
<1> QED BY <1>10, <1>11, <1>12 DEF InWidth

--------------------------------------------------------------------------------
(* The invariants.                                                         *)

LEMMA SumsExist ==
  ASSUME NEW b, NEW data, NEW upto \in Nat, \A i \in 1 .. upto : b[data + i] \in Nat
  PROVE  \E v : Sums(v, b, data, upto)
<1> DEFINE part == [i \in 1 .. upto |-> (b[data + i] % More) * TwoTo((i - 1) * Group)]
           step == [i \in 1 .. upto |-> [x \in Nat |-> x + part[i]]]
<1>1. More \in Nat \ {0} /\ Group \in Nat /\ \A n \in Nat : TwoTo(n) \in Nat
  BY WidthAssumption, TwoToIs DEF More
<1>2. part \in [1 .. upto -> Nat]
  <2> SUFFICES ASSUME NEW i \in 1 .. upto PROVE part[i] \in Nat
    OBVIOUS
  <2>1. b[data + i] % More \in Nat
    <3>1. b[data + i] % More \in 0 .. More - 1
      BY <1>1, Division
    <3> QED BY <1>1, <3>1
  <2>2. TwoTo((i - 1) * Group) \in Nat
    <3>1. (i - 1) * Group \in Nat
      BY <1>1
    <3> QED BY <1>1, <3>1
  <2> QED BY <2>1, <2>2
<1> HIDE DEF part
<1>3. step \in StepsOn(Nat, upto) /\ \A i \in 1 .. upto : \A x \in Nat : step[i][x] = x + part[i]
  BY <1>2 DEF StepsOn
<1> HIDE DEF step
<1>4. PICK v : Iterates(v, Nat, upto, 0, step)
  BY <1>3, Iteration
<1>5. v \in [0 .. upto -> Nat] /\ v[0] = 0 /\ \A i \in 1 .. upto : v[i] = step[i][v[i - 1]]
  BY <1>4 DEF Iterates
<1>6. ASSUME NEW i \in 1 .. upto
      PROVE  v[i] = v[i - 1] + (b[data + i] % More) * TwoTo((i - 1) * Group)
  <2>1. v[i - 1] \in Nat /\ part[i] = (b[data + i] % More) * TwoTo((i - 1) * Group)
    BY <1>5 DEF part
  <2>2. v[i] = v[i - 1] + part[i]
    BY <1>3, <1>5, <2>1
  <2> QED BY <2>1, <2>2
<1> QED BY <1>5, <1>6 DEF Sums

\* The function that StopsInTime sums with.
SumsFrom(w, b, upto) ==
  w = [i \in 0 .. upto |-> IF i = 0 THEN 0 ELSE w[i - 1] + (b[i] % More) * TwoTo((i - 1) * Group)]

LEMMA SumsAre ==
  ASSUME NEW b, NEW upto \in Nat, NEW v, Sums(v, b, 0, upto)
  PROVE  SumsFrom(v, b, upto) /\ \A w : SumsFrom(w, b, upto) => w = v
<1>1. v[0] = 0 /\ \A i \in 1 .. upto : v[i] = v[i - 1] + (b[i] % More) * TwoTo((i - 1) * Group)
  <2>1. \A i \in 1 .. upto : 0 + i = i
    OBVIOUS
  <2> QED BY <2>1 DEF Sums
<1>2. v = [i \in 0 .. upto |-> v[i]]
  BY DEF Sums
<1>3. 0 \in 0 .. upto /\ \A i \in 0 .. upto : i = 0 \/ i \in 1 .. upto
  OBVIOUS
<1>4. SumsFrom(v, b, upto)
  <2>1. \A i \in 0 .. upto :
          v[i] = IF i = 0 THEN 0 ELSE v[i - 1] + (b[i] % More) * TwoTo((i - 1) * Group)
    BY <1>1, <1>3
  <2> QED BY <1>2, <2>1 DEF SumsFrom
<1>5. ASSUME NEW w, SumsFrom(w, b, upto) PROVE w = v
  <2> DEFINE Good == {i \in 0 .. upto : w[i] = v[i]}
  <2>1. /\ w[0] = 0
        /\ \A i \in 1 .. upto : w[i] = w[i - 1] + (b[i] % More) * TwoTo((i - 1) * Group)
    <3>1. \A i \in 0 .. upto :
            w[i] = IF i = 0 THEN 0 ELSE w[i - 1] + (b[i] % More) * TwoTo((i - 1) * Group)
      BY <1>5 DEF SumsFrom
    <3>2. \A i \in 1 .. upto : i \in 0 .. upto /\ i # 0
      OBVIOUS
    <3> QED BY <1>3, <3>1, <3>2
  <2>2. w = [i \in 0 .. upto |-> w[i]]
    BY <1>5 DEF SumsFrom
  <2>3. 0 \in Good
    BY <1>1, <1>3, <2>1
  <2>4. ASSUME NEW i \in 1 .. upto, i - 1 \in Good PROVE i \in Good
    <3>1. i \in 0 .. upto /\ w[i - 1] = v[i - 1]
      BY <2>4
    <3> QED BY <1>1, <2>1, <3>1
  <2>5. Good \in SUBSET (0 .. upto)
    OBVIOUS
  <2> HIDE DEF Good
  <2>6. Good = 0 .. upto
    BY <2>3, <2>4, <2>5, StepByStep
  <2>7. \A i \in 0 .. upto : w[i] = v[i]
    BY <2>6 DEF Good
  <2> QED BY <1>2, <2>7, <2>2
<1> QED BY <1>4, <1>5

\* What is in memory are bytes.
BytesTyped == bytes \in Seq(Nat)

LEMMA BytesAlways == Spec => []BytesTyped
<1>1. Init => BytesTyped
  BY EmptySeq DEF Init, BytesTyped
<1>2. BytesTyped /\ [Next]_bytes => BytesTyped'
  <2> SUFFICES ASSUME BytesTyped, [Next]_bytes PROVE BytesTyped'
    OBVIOUS
  <2>1. CASE Next
    <3>1. PICK byte \in 0 .. 2 * More - 1 : bytes' = Append(bytes, byte)
      BY <2>1 DEF Next
    <3>2. byte \in Nat
      OBVIOUS
    <3> QED BY <3>1, <3>2, AppendProperties DEF BytesTyped
  <2>2. CASE UNCHANGED bytes
    BY <2>2 DEF BytesTyped
  <2> QED BY <2>1, <2>2
<1> QED BY <1>1, <1>2, PTL DEF Spec

\* ULEB128 stops at the first byte that says nothing follows, or for want of bytes, and what
\* it gives is the sum of what the bytes stand for, cut off by the width of the result, as
\* long as no byte is shifted beyond it.
THEOREM NumbersEnd == Spec => []StopsInTime
<1>1. BytesTyped => StopsInTime
  <2> SUFFICES ASSUME BytesTyped, NEW available \in 0 .. Len(bytes)
               PROVE  LET number == ULEB128(bytes, 0, available)
                          last == {i \in 1 .. available : bytes[i] < More}
                          upto == IF last = {} THEN available ELSE Min(last)
                          value[i \in 0 .. upto] ==
                            IF i = 0 THEN 0
                            ELSE value[i - 1] + (bytes[i] % More) * TwoTo((i - 1) * Group)
                      IN  /\ number.length = upto
                          /\ (upto - 1) * Group < Width => number.result = value[upto] % Modulus
    BY DEF StopsInTime
  <2> DEFINE number == ULEB128(bytes, 0, available)
             last == {i \in 1 .. available : bytes[i] < More}
             upto == IF last = {} THEN available ELSE Min(last)
             Is(w) == w = [i \in 0 .. upto |->
                             IF i = 0 THEN 0
                             ELSE w[i - 1] + (bytes[i] % More) * TwoTo((i - 1) * Group)]
             value == CHOOSE w : Is(w)
  <2>1. available \in Nat /\ \A i \in 1 .. available : bytes[i] \in Nat
    <3>1. Len(bytes) \in Nat /\ \A i \in 1 .. Len(bytes) : bytes[i] \in Nat
      BY ElementOfSeq, LenProperties DEF BytesTyped
    <3> QED BY <3>1
  <2>2. /\ upto \in 0 .. available
        /\ \A i \in 1 .. upto - 1 : ~(bytes[i] < More)
        /\ upto = available \/ (upto > 0 /\ bytes[upto] < More)
    <3>1. CASE last = {}
      <4>1. upto = available
        BY <3>1
      <4>2. \A i \in 1 .. available : ~(bytes[i] < More)
        BY <3>1
      <4> HIDE DEF upto, last
      <4> QED BY <2>1, <4>1, <4>2
    <3>2. CASE last # {}
      <4>1. last \in SUBSET Nat
        OBVIOUS
      <4>2. \E n \in last : \A m \in last : n <= m
        <5> HIDE DEF last
        <5> QED BY <3>2, <4>1, LeastNatural
      <4>3. upto = CHOOSE n \in last : \A m \in last : n <= m
        BY <3>2 DEF Min
      <4>4. upto \in last /\ \A m \in last : upto <= m
        <5> HIDE DEF last, upto
        <5> QED BY <4>2, <4>3
      <4>5. upto \in 1 .. available /\ bytes[upto] < More
        <5> HIDE DEF upto
        <5> QED BY <4>4
      <4>6. ASSUME NEW i \in 1 .. upto - 1 PROVE ~(bytes[i] < More)
        <5> HIDE DEF upto
        <5>1. i \in 1 .. available /\ ~(upto <= i)
          BY <2>1, <4>5
        <5> QED BY <4>4, <5>1
      <4> HIDE DEF upto, last
      <4> QED BY <2>1, <4>5, <4>6
    <3> QED BY <3>1, <3>2
  <2> HIDE DEF upto, last
  <2>3. upto \in Nat /\ \A i \in 1 .. upto : bytes[i] \in Nat
    BY <2>1, <2>2
  <2>4. EndsAt(bytes, 0, available, upto)
    <3>1. /\ \A i \in 1 .. upto : bytes[0 + i] \in Nat
          /\ \A i \in 1 .. upto - 1 : ~(bytes[0 + i] < More)
          /\ upto = available \/ (upto > 0 /\ bytes[0 + upto] < More)
      BY <2>2, <2>3
    <3> QED BY <2>2, <3>1 DEF EndsAt
  <2>5. PICK v : Sums(v, bytes, 0, upto)
    <3>1. 0 \in Nat /\ \A i \in 1 .. upto : bytes[0 + i] \in Nat
      BY <2>3
    <3> QED BY <2>3, <3>1, SumsExist
  <2>6. value = v
    <3>1. \A w : Is(w) <=> SumsFrom(w, bytes, upto)
      BY DEF SumsFrom
    <3> HIDE DEF Is
    <3>2. SumsFrom(v, bytes, upto) /\ \A w : SumsFrom(w, bytes, upto) => w = v
      BY <2>3, <2>5, SumsAre
    <3>3. Is(value)
      BY <3>1, <3>2
    <3> HIDE DEF value
    <3> QED BY <3>1, <3>2, <3>3
  <2>7. Reads(bytes, 0, available, upto, v[upto])
    <3>1. 0 \in Nat
      OBVIOUS
    <3> QED BY <2>1, <2>4, <2>5, <3>1, NumberRead
  <2> HIDE DEF value
  <2>8. /\ number.length = upto
        /\ (upto - 1) * Group < Width => number.result = value[upto] % Modulus
    <3>1. /\ number = [result |-> number.result, length |-> upto]
          /\ (upto - 1) * Group < Width => number.result = v[upto] % Modulus
      BY <2>7 DEF Reads
    <3> HIDE DEF number
    <3>2. PICK n : n = [result |-> number.result, length |-> upto]
      OBVIOUS
    <3> QED BY <2>6, <3>1, <3>2
  <2> QED BY <2>8 DEF value, upto, last
<1> QED BY <1>1, BytesAlways, PTL

\* A digit more of a number.
LEMMA NextDigit ==
  ASSUME NEW n \in Nat, NEW k \in Nat
  PROVE  LET place == TwoTo(k * Group) IN
         n % TwoTo((k + 1) * Group) = (n % place) + ((n \div place) % More) * place
<1> DEFINE place == TwoTo(k * Group)
           q == n \div place
           r == n % place
           p == q \div More
           d == q % More
<1>1. More \in Nat \ {0} /\ place \in Nat \ {0} /\ TwoTo((k + 1) * Group) = place * More
  <2>1. Group \in Nat /\ k * Group \in Nat /\ (k + 1) * Group = k * Group + Group
    BY WidthAssumption
  <2>2. TwoTo(Group) \in Nat \ {0} /\ TwoTo(k * Group) \in Nat \ {0}
    BY <2>1, TwoToIs
  <2>3. TwoTo(k * Group + Group) = TwoTo(k * Group) * TwoTo(Group)
    BY <2>1, TwoToSum
  <2> QED BY <2>1, <2>2, <2>3 DEF More
<1> HIDE DEF place
<1>2. q \in Nat /\ r \in 0 .. place - 1 /\ n = place * q + r
  BY <1>1, Division
<1>3. p \in Nat /\ d \in 0 .. More - 1 /\ q = More * p + d
  <2> HIDE DEF q
  <2> QED BY <1>1, <1>2, Division
<1> HIDE DEF q, r, p, d
<1> DEFINE m == place * More
           t == d * place + r
<1>4. m \in Nat \ {0} /\ t \in Nat
  BY <1>1, <1>2, <1>3
<1>5. t < m
  <2>1. d + 1 <= More /\ d + 1 \in Nat
    BY <1>1, <1>3
  <2>2. (d + 1) * place <= More * place
    BY <1>1, <2>1, TimesMonotonic
  <2>3. (d + 1) * place = d * place + place /\ More * place = m /\ d * place \in Nat
    BY <1>1, <1>3
  <2> DEFINE x == d * place
             y == (d + 1) * place
  <2>4. y <= m /\ y = x + place /\ x \in Nat /\ t = x + r
    BY <2>2, <2>3
  <2> HIDE DEF x, y, m, t
  <2> QED BY <1>1, <1>2, <1>4, <2>4
<1>6. n = m * p + t
  BY <1>1, <1>2, <1>3
<1>7. n % m = t
  <2> HIDE DEF m, t
  <2>1. t \in 0 .. m - 1
    BY <1>4, <1>5
  <2> QED BY <1>3, <1>4, <1>6, <2>1, DivisionIs
<1>8. t = r + d * place
  BY <1>1, <1>2, <1>3
<1> QED BY <1>1, <1>7, <1>8 DEF d, q, r, place

LEMMA EncodingIs ==
  ASSUME NEW n \in Nat, NEW length \in Nat
  PROVE  LET e == Encoding(n, length) IN
         /\ e \in Seq(Nat) /\ Len(e) = length
         /\ \A i \in 1 .. length :
              /\ e[i] % More = (n \div TwoTo((i - 1) * Group)) % More
              /\ e[i] < More <=> i = length
<1> DEFINE digit(i) == (n \div TwoTo((i - 1) * Group)) % More
           e == Encoding(n, length)
<1>1. More \in Nat \ {0}
  BY WidthAssumption, TwoToIs DEF More
<1>2. ASSUME NEW i \in 1 .. length PROVE digit(i) \in 0 .. More - 1
  <2>1. (i - 1) * Group \in Nat
    BY WidthAssumption
  <2>2. TwoTo((i - 1) * Group) \in Nat \ {0}
    BY <2>1, TwoToIs
  <2>3. n \div TwoTo((i - 1) * Group) \in Nat
    BY <2>2, Division
  <2> QED BY <1>1, <2>3, Division
<1>3. e = [i \in 1 .. length |-> digit(i) + IF i < length THEN More ELSE 0]
  BY DEF Encoding
<1> HIDE DEF digit, e
<1>4. ASSUME NEW i \in 1 .. length
      PROVE  e[i] \in Nat /\ e[i] % More = digit(i) /\ (e[i] < More <=> i = length)
  <2>1. digit(i) \in 0 .. More - 1
    BY <1>2
  <2>2. CASE i < length
    <3>1. e[i] = More * 1 + digit(i)
      BY <1>1, <1>3, <2>1, <2>2
    <3>2. (More * 1 + digit(i)) % More = digit(i)
      BY <1>1, <2>1, DivisionIs
    <3> QED BY <1>1, <2>1, <2>2, <3>1, <3>2
  <2>3. CASE ~(i < length)
    <3>1. e[i] = digit(i) /\ i = length
      BY <1>1, <1>3, <2>1, <2>3
    <3>2. digit(i) % More = digit(i)
      BY <1>1, <2>1, RestOfLess
    <3> QED BY <1>1, <2>1, <3>1, <3>2
  <2> QED BY <2>2, <2>3
<1>5. e \in Seq(Nat) /\ Len(e) = length
  <2>1. e = [i \in 1 .. length |-> e[i]]
    BY <1>3
  <2>2. \A i \in 1 .. length : e[i] \in Nat
    BY <1>4
  <2> QED BY <2>1, <2>2
<1> QED BY <1>4, <1>5 DEF digit, e

\* Every number that fits is read back, whichever encoding of it a compiler has written and
\* whatever is before and behind it.
THEOREM NumbersReadBack == Spec => []ReadsBack
<1>1. BytesTyped => ReadsBack
  <2> SUFFICES ASSUME BytesTyped, NEW n \in 0 .. Modulus - 1, NEW length \in 1 .. Width,
                      Fits(n, length)
               PROVE  ULEB128(bytes \o Encoding(n, length) \o bytes, Len(bytes), length + Len(bytes))
                        = [result |-> n, length |-> length]
    BY DEF ReadsBack
  <2> DEFINE e == Encoding(n, length)
             b == bytes \o e \o bytes
             data == Len(bytes)
             available == length + data
  <2>1. Modulus \in Nat \ {0} /\ Width \in Nat /\ Group \in Nat /\ n \in Nat /\ length \in Nat
    <3>1. Modulus \in Nat \ {0} /\ Width \in Nat /\ Group \in Nat
      BY WidthAssumption, TwoToIs DEF Modulus
    <3> QED BY <3>1
  <2>2. /\ e \in Seq(Nat) /\ Len(e) = length
        /\ \A i \in 1 .. length :
             /\ e[i] % More = (n \div TwoTo((i - 1) * Group)) % More
             /\ e[i] < More <=> i = length
    BY <2>1, EncodingIs
  <2> HIDE DEF e
  <2>3. /\ data \in Nat /\ available \in Nat /\ length \in 1 .. available
        /\ \A i \in 1 .. length : b[data + i] = e[i] /\ e[i] \in Nat
    <3>1. /\ bytes \o e \in Seq(Nat) /\ Len(bytes \o e) = data + length
          /\ \A i \in 1 .. data + length :
               (bytes \o e)[i] = IF i <= data THEN bytes[i] ELSE e[i - data]
      BY <2>2, ConcatProperties DEF BytesTyped
    <3>2. data \in Nat
      BY LenProperties DEF BytesTyped
    <3> HIDE DEF data
    <3>3. \A i \in 1 .. data + length + data :
            b[i] = IF i <= data + length THEN (bytes \o e)[i] ELSE bytes[i - (data + length)]
      BY <3>1, ConcatProperties DEF BytesTyped, data
    <3>4. ASSUME NEW i \in 1 .. length PROVE b[data + i] = e[i] /\ e[i] \in Nat
      <4>1. /\ data + i \in 1 .. data + length + data /\ data + i \in 1 .. data + length
            /\ data + i <= data + length /\ ~(data + i <= data) /\ (data + i) - data = i
        BY <2>1, <3>2
      <4>2. b[data + i] = e[i]
        <5> HIDE DEF b
        <5> QED BY <3>1, <3>3, <4>1
      <4>3. e[i] \in Nat
        BY <2>2
      <4> QED BY <4>2, <4>3
    <3>5. data \in Nat /\ available \in Nat /\ length \in 1 .. available
      BY <2>1, <3>2
    <3> QED BY <3>4, <3>5 DEF data
  <2> HIDE DEF b, data, available
  <2>4. EndsAt(b, data, available, length)
    <3>1. length \in 0 .. available /\ length > 0 /\ length \in 1 .. length
          /\ \A i \in 1 .. length - 1 : i \in 1 .. length /\ i # length
      BY <2>1, <2>3
    <3>2. /\ \A i \in 1 .. length : b[data + i] \in Nat
          /\ \A i \in 1 .. length - 1 : ~(b[data + i] < More)
          /\ b[data + length] < More
      BY <2>2, <2>3, <3>1
    <3> QED BY <3>1, <3>2 DEF EndsAt
  <2> DEFINE values == [i \in 0 .. length |-> n % TwoTo(i * Group)]
  <2>5. Sums(values, b, data, length)
    <3>1. \A i \in 0 .. length : i * Group \in Nat /\ values[i] = n % TwoTo(i * Group)
      BY <2>1
    <3>2. \A i \in 0 .. length : values[i] \in Nat
      <4> TAKE i \in 0 .. length
      <4>1. TwoTo(i * Group) \in Nat \ {0}
        BY <3>1, TwoToIs
      <4>2. n % TwoTo(i * Group) \in 0 .. TwoTo(i * Group) - 1
        BY <2>1, <4>1, Division
      <4> QED BY <3>1, <4>1, <4>2
    <3>3. values[0] = 0
      <4>1. 0 * Group = 0 /\ 0 \in 0 .. length
        BY <2>1
      <4>2. values[0] = n % 1
        BY <3>1, <4>1, TwoToIs
      <4>3. 1 \in Nat \ {0}
        OBVIOUS
      <4>4. n % 1 \in 0 .. 1 - 1
        BY <2>1, <4>3, Division
      <4> QED BY <4>2, <4>4
    <3>4. ASSUME NEW i \in 1 .. length
          PROVE  values[i] = values[i - 1] + (b[data + i] % More) * TwoTo((i - 1) * Group)
      <4>1. i - 1 \in Nat /\ (i - 1) + 1 = i /\ i \in 0 .. length /\ i - 1 \in 0 .. length
        BY <2>1
      <4>2. n % TwoTo(((i - 1) + 1) * Group)
              = (n % TwoTo((i - 1) * Group))
                + ((n \div TwoTo((i - 1) * Group)) % More) * TwoTo((i - 1) * Group)
        BY <2>1, <4>1, NextDigit
      <4>3. b[data + i] % More = (n \div TwoTo((i - 1) * Group)) % More
        BY <2>2, <2>3
      <4>4. values[i] = n % TwoTo(i * Group) /\ values[i - 1] = n % TwoTo((i - 1) * Group)
        BY <4>1
      <4> QED BY <4>1, <4>2, <4>3, <4>4
    <3>5. values \in [0 .. length -> Nat]
      BY <3>2
    <3> HIDE DEF values
    <3> QED BY <3>3, <3>4, <3>5 DEF Sums
  <2>6. values[length] = n /\ n % Modulus = n
    <3>1. length \in 0 .. length /\ length * Group \in Nat
      BY <2>1
    <3>2. TwoTo(length * Group) \in Nat \ {0} /\ n < TwoTo(length * Group)
      BY <3>1, TwoToIs DEF Fits
    <3>3. n \in 0 .. TwoTo(length * Group) - 1
      BY <2>1, <3>2
    <3>4. n % TwoTo(length * Group) = n
      BY <3>2, <3>3, RestOfLess
    <3> QED BY <2>1, <3>1, <3>4, RestOfLess
  <2> HIDE DEF values
  <2>7. Reads(b, data, available, length, n)
    BY <2>3, <2>4, <2>5, <2>6, NumberRead
  <2>8. (length - 1) * Group < Width
    BY DEF Fits
  <2>9. ULEB128(b, data, available) = [result |-> n, length |-> length]
    BY <2>6, <2>7, <2>8 DEF Reads
  <2> QED BY <2>9 DEF b, data, available, e
<1> QED BY <1>1, BytesAlways, PTL

================================================================================
