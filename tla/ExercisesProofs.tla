--------------------------- MODULE ExercisesProofs ---------------------------
(***************************************************************************)
(* The functions of assign1/ for machine integers of any size: fact, even, *)
(* odd and bin return what their names say, in as many frames as it takes  *)
(* to count down to the base case, through the least integer where the     *)
(* argument is negative.                                                   *)
(*                                                                         *)
(* No induction over the argument: the invariant of the stack says that    *)
(* what a frame will return, once the frame above it has, is what the call *)
(* that is run is expected to return.                                      *)
(***************************************************************************)
EXTENDS Exercises, WellFoundedInduction, SequenceTheorems, TLAPS

-----------------------------------------------------------------------------
(* Arithmetic modulo 2 * Half.                                             *)

LEMMA Halves == /\ Half \in Nat /\ Half >= 2
                /\ Modulus \in Nat \ {0} /\ Modulus = Half + Half
BY HalfAssumption DEF Modulus

LEMMA DivMod ==
  ASSUME NEW m \in Nat \ {0}, NEW x \in Int
  PROVE  x % m \in 0..m - 1 /\ \E q \in Int : x = m * q + (x % m)
<1>1. x % m \in 0..m - 1
  OBVIOUS
<1>2. x \div m \in Int /\ x = m * (x \div m) + (x % m)
  OBVIOUS
<1>3. QED
  BY <1>1, <1>2

LEMMA RemainderUnique ==
  ASSUME NEW m \in Nat \ {0}, NEW p \in Int, NEW q \in Int, NEW r \in 0..m - 1, NEW s \in 0..m - 1,
         m * p + r = m * q + s
  PROVE  r = s
<1>1. CASE p - q >= 1
  <2>1. m * (p - q) >= m
    BY <1>1
  <2>2. QED
    BY <2>1
<1>2. CASE q - p >= 1
  <2>1. m * (q - p) >= m
    BY <1>2
  <2>2. QED
    BY <2>1
<1>3. CASE p = q
  BY <1>3
<1>4. QED
  BY <1>1, <1>2, <1>3

\* The remainder of a multiple and a rest.
LEMMA ModOf ==
  ASSUME NEW m \in Nat \ {0}, NEW q \in Int, NEW r \in 0..m - 1
  PROVE  (m * q + r) % m = r
<1>1. m * q + r \in Int
  OBVIOUS
<1>2. PICK p \in Int : m * q + r = m * p + ((m * q + r) % m)
  BY <1>1, DivMod
<1>3. (m * q + r) % m \in 0..m - 1
  BY <1>1, DivMod
<1>4. QED
  BY <1>2, <1>3, RemainderUnique

LEMMA WrapType ==
  ASSUME NEW x \in Int
  PROVE  Wrap(x) \in Integer /\ \E q \in Int : x = Wrap(x) + Modulus * q
<1>1. x + Half \in Int
  BY Halves
<1>2. PICK q \in Int : x + Half = Modulus * q + ((x + Half) % Modulus)
  BY <1>1, Halves, DivMod
<1>3. (x + Half) % Modulus \in 0..Modulus - 1
  BY <1>1, Halves, DivMod
<1> DEFINE r == (x + Half) % Modulus
           z == Modulus * q
<1>4. z \in Int /\ x + Half = z + r /\ r \in 0..Modulus - 1 /\ Wrap(x) = r - Half
  BY <1>2, <1>3, Halves DEF Wrap
<1> HIDE DEF r, z
<1>5. Wrap(x) \in Integer /\ x = Wrap(x) + z
  BY <1>4, Halves DEF Integer
<1>6. QED
  BY <1>5 DEF z

\* An integer that fits, whatever wrapped around.
LEMMA WrapOf ==
  ASSUME NEW x \in Integer, NEW q \in Int
  PROVE  Wrap(x + Modulus * q) = x
<1> DEFINE r == x + Half
<1>1. r \in 0..Modulus - 1 /\ x \in Int /\ r \in Int
  BY Halves DEF Integer
<1>2. (Modulus * q + r) % Modulus = r
  <2> HIDE DEF r
  <2>1. QED
    BY <1>1, Halves, ModOf
<1>3. (x + Modulus * q) + Half = Modulus * q + r
  <2>1. Modulus * q \in Int
    BY Halves
  <2>2. QED
    BY <1>1, <2>1, Halves
<1>4. QED
  BY <1>1, <1>2, <1>3, Halves DEF Wrap

LEMMA WrapFits ==
  ASSUME NEW x \in Integer
  PROVE  Wrap(x) = x
<1>1. x + Modulus * 0 = x
  BY Halves DEF Integer
<1>2. QED
  BY <1>1, WrapOf

\* Wrapping early or late is the same.
LEMMA WrapCongruent ==
  ASSUME NEW x \in Int, NEW y \in Int, NEW q \in Int, x = y + Modulus * q
  PROVE  Wrap(x) = Wrap(y)
<1>1. PICK p \in Int : y = Wrap(y) + Modulus * p
  BY WrapType
<1>2. Wrap(y) \in Integer /\ Wrap(y) \in Int
  BY WrapType, Halves DEF Integer
<1>3. x = Wrap(y) + Modulus * (p + q)
  BY <1>1, <1>2, Halves
<1>4. QED
  BY <1>2, <1>3, WrapOf

LEMMA Distributes ==
  ASSUME NEW x \in Int, NEW y \in Int, NEW m \in Int, NEW q \in Int
  PROVE  x * (y + m * q) = x * y + m * (x * q)
OBVIOUS

LEMMA WrapProduct ==
  ASSUME NEW x \in Int, NEW y \in Int
  PROVE  Wrap(x * Wrap(y)) = Wrap(x * y)
<1>1. PICK q \in Int : y = Wrap(y) + Modulus * q
  BY WrapType
<1>2. Wrap(y) \in Int
  BY WrapType, Halves DEF Integer
<1>3. x * y = x * Wrap(y) + Modulus * (x * q)
  <2>1. Modulus \in Int
    BY Halves
  <2>2. x * (Wrap(y) + Modulus * q) = x * Wrap(y) + Modulus * (x * q)
    BY <1>2, <2>1, Distributes
  <2>3. QED
    BY <1>1, <2>2
<1>4. x * y \in Int /\ x * Wrap(y) \in Int /\ x * q \in Int
  BY <1>2
<1>5. QED
  BY <1>3, <1>4, WrapCongruent

LEMMA WrapSum ==
  ASSUME NEW x \in Int, NEW y \in Int
  PROVE  Wrap(Wrap(x) + y) = Wrap(x + y)
<1>1. PICK q \in Int : x = Wrap(x) + Modulus * q
  BY WrapType
<1>2. Wrap(x) \in Int
  BY WrapType, Halves DEF Integer
<1>3. x + y = (Wrap(x) + y) + Modulus * q
  BY <1>1, <1>2, Halves
<1>4. QED
  BY <1>2, <1>3, WrapCongruent

LEMMA WrapMod ==
  ASSUME NEW x \in Int
  PROVE  x % Modulus \in Int /\ Wrap(x % Modulus) = Wrap(x)
<1>1. PICK q \in Int : x = Modulus * q + (x % Modulus)
  BY Halves, DivMod
<1>2. x % Modulus \in Int
  BY Halves, DivMod
<1>3. x = (x % Modulus) + Modulus * q
  <2>1. Modulus * q \in Int
    BY Halves
  <2>2. QED
    BY <1>1, <1>2, <2>1
<1>4. QED
  BY <1>2, <1>3, WrapCongruent

\* One less, in the integers of the machine.
LEMMA WrapLess ==
  ASSUME NEW x \in Integer
  PROVE  Wrap(x - 1) = IF x = -Half THEN Half - 1 ELSE x - 1
<1>1. x \in Int
  BY Halves DEF Integer
<1>2. CASE x = -Half
  <2>1. Half - 1 \in Integer
    BY Halves DEF Integer
  <2>2. x - 1 = (Half - 1) + Modulus * (-1)
    BY <1>2, Halves
  <2>3. -1 \in Int
    OBVIOUS
  <2>4. Wrap((Half - 1) + Modulus * (-1)) = Half - 1
    BY <2>1, <2>3, WrapOf
  <2>5. QED
    BY <1>2, <2>2, <2>4
<1>3. CASE x # -Half
  <2>1. x - 1 \in Integer
    BY <1>3, Halves DEF Integer
  <2>2. QED
    BY <1>3, <2>1, WrapFits
<1>4. QED
  BY <1>2, <1>3

\* How far an integer is from zero, counting down.
LEMMA ModInteger ==
  ASSUME NEW x \in Integer
  PROVE  x % Modulus = IF x < 0 THEN x + Modulus ELSE x
<1>1. CASE x < 0
  <2>1. x + Modulus \in 0..Modulus - 1 /\ x = Modulus * (-1) + (x + Modulus)
    BY <1>1, Halves DEF Integer
  <2>2. -1 \in Int
    OBVIOUS
  <2>3. (Modulus * (-1) + (x + Modulus)) % Modulus = x + Modulus
    BY <2>1, <2>2, Halves, ModOf
  <2>4. QED
    BY <1>1, <2>1, <2>3
<1>2. CASE ~(x < 0)
  <2>1. x \in 0..Modulus - 1 /\ x = Modulus * 0 + x
    BY <1>2, Halves DEF Integer
  <2>2. 0 \in Int
    OBVIOUS
  <2>3. (Modulus * 0 + x) % Modulus = x
    BY <2>1, <2>2, Halves, ModOf
  <2>4. QED
    BY <1>2, <2>1, <2>3
<1>3. QED
  BY <1>1, <1>2

-----------------------------------------------------------------------------
(* The factorial is what its equation says.                                *)

LEMMA LeastElement ==
  ASSUME NEW T, T \subseteq Nat, T # {}
  PROVE  \E x \in T : \A y \in T : x <= y
<1> DEFINE R == {ss \in Nat \X Nat : ss[1] < ss[2]}
<1>1. IsWellFoundedOn(R, Nat)
  BY NatLessThanWellFounded DEF OpToRel
<1>2. \E x \in T : \A y \in T : <<y, x>> \notin R
  <2> HIDE DEF R
  <2> QED
    BY <1>1, WFMin
<1>3. \A x, y \in Nat : <<y, x>> \notin R => x <= y
  OBVIOUS
<1>4. QED
  BY <1>2, <1>3

LEMMA NatSetInduction ==
  ASSUME NEW S, 0 \in S, \A k \in S : k \in Nat => k + 1 \in S
  PROVE  Nat \subseteq S
<1>1. SUFFICES ASSUME Nat \ S # {}
               PROVE  FALSE
  OBVIOUS
<1>2. PICK x \in Nat \ S : \A y \in Nat \ S : x <= y
  BY <1>1, LeastElement
<1>3. x # 0 /\ x - 1 \in Nat /\ ~(x <= x - 1) /\ (x - 1) + 1 = x
  BY <1>2
<1>4. x - 1 \in S
  BY <1>2, <1>3
<1>5. QED
  BY <1>2, <1>3, <1>4

\* A prefix of the recursion, as a function on 0..m.
IsFactorialPrefix(h, m) ==
  h = [k \in 0..m |-> IF k = 0 THEN 1
                      ELSE (k * h[k - 1]) % Modulus]

LEMMA PrefixExists ==
  \A m \in Nat : \E h : IsFactorialPrefix(h, m)
<1> DEFINE S == {m \in Nat : \E h : IsFactorialPrefix(h, m)}
<1>1. 0 \in S
  <2> DEFINE h == [k \in 0..0 |-> 1]
  <2>1. IsFactorialPrefix(h, 0)
    BY DEF IsFactorialPrefix
  <2>2. QED
    BY <2>1
<1>2. ASSUME NEW m \in S
      PROVE  m + 1 \in S
  <2>1. m \in Nat /\ 0 \in 0..m
    OBVIOUS
  <2>2. PICK g : IsFactorialPrefix(g, m)
    OBVIOUS
  <2> DEFINE h == [k \in 0..m + 1 |-> IF k = m + 1 THEN ((m + 1) * g[m]) % Modulus
                                      ELSE g[k]]
             next(f, k) == IF k = 0 THEN 1
                           ELSE (k * f[k - 1]) % Modulus
  <2>3. ASSUME NEW k \in 0..m + 1
        PROVE  h[k] = next(h, k)
    <3>1. CASE k = m + 1
      <4>1. k # 0 /\ k - 1 = m /\ m \in 0..m + 1 /\ m # m + 1
        BY <2>1, <3>1
      <4>2. h[m] = g[m]
        BY <4>1
      <4>3. QED
        BY <3>1, <4>1, <4>2
    <3>2. CASE k # m + 1
      <4>1. k \in 0..m /\ (k # 0 => k - 1 \in 0..m + 1 /\ k - 1 # m + 1)
        BY <2>1, <2>3, <3>2
      <4>2. g[k] = next(g, k)
        BY <2>2, <4>1 DEF IsFactorialPrefix
      <4>3. h[k] = g[k] /\ (k # 0 => h[k - 1] = g[k - 1])
        BY <2>3, <3>2, <4>1
      <4>4. QED
        BY <4>2, <4>3
    <3>3. QED
      BY <3>1, <3>2
  <2>4. h = [k \in 0..m + 1 |-> h[k]]
    OBVIOUS
  <2>5. h = [k \in 0..m + 1 |-> next(h, k)]
    <3> HIDE DEF h, next
    <3> QED
      BY <2>3, <2>4
  <2>6. IsFactorialPrefix(h, m + 1)
    BY <2>5 DEF IsFactorialPrefix
  <2>7. QED
    <3> HIDE DEF h
    <3> QED
      BY <2>1, <2>6
<1>3. QED
  <2> HIDE DEF S
  <2>1. Nat \subseteq S
    BY <1>1, <1>2, NatSetInduction
  <2>2. QED
    BY <2>1 DEF S

LEMMA PrefixUnique ==
  \A k \in Nat : \A m1, m2 \in Nat : \A g, h :
    IsFactorialPrefix(g, m1) /\ IsFactorialPrefix(h, m2) /\ k <= m1 /\ k <= m2 => g[k] = h[k]
<1> DEFINE Agree(k) == \A m1, m2 \in Nat : \A g, h :
             IsFactorialPrefix(g, m1) /\ IsFactorialPrefix(h, m2) /\ k <= m1 /\ k <= m2 => g[k] = h[k]
           S == {k \in Nat : Agree(k)}
<1>1. 0 \in S
  <2>1. ASSUME NEW m1 \in Nat, NEW m2 \in Nat, NEW g, NEW h,
               IsFactorialPrefix(g, m1), IsFactorialPrefix(h, m2)
        PROVE  g[0] = h[0]
    <3>1. 0 \in 0..m1 /\ 0 \in 0..m2
      OBVIOUS
    <3>2. g[0] = 1 /\ h[0] = 1
      BY <2>1, <3>1 DEF IsFactorialPrefix
    <3>3. QED
      BY <3>2
  <2>2. Agree(0)
    BY <2>1
  <2>3. QED
    <3> HIDE DEF Agree
    <3> QED
      BY <2>2
<1>2. ASSUME NEW k \in S
      PROVE  k + 1 \in S
  <2>1. k \in Nat /\ Agree(k)
    OBVIOUS
  <2>2. ASSUME NEW m1 \in Nat, NEW m2 \in Nat, NEW g, NEW h,
               IsFactorialPrefix(g, m1), IsFactorialPrefix(h, m2), k + 1 <= m1, k + 1 <= m2
        PROVE  g[k + 1] = h[k + 1]
    <3>1. k <= m1 /\ k <= m2 /\ k + 1 \in 0..m1 /\ k + 1 \in 0..m2 /\ (k + 1) - 1 = k /\ k + 1 # 0
      BY <2>1, <2>2
    <3>2. g[k] = h[k]
      BY <2>1, <2>2, <3>1
    <3>3. /\ g[k + 1] = ((k + 1) * g[k]) % Modulus
          /\ h[k + 1] = ((k + 1) * h[k]) % Modulus
      BY <2>2, <3>1 DEF IsFactorialPrefix
    <3>4. QED
      BY <3>2, <3>3
  <2>3. Agree(k + 1)
    BY <2>2
  <2>4. QED
    <3> HIDE DEF Agree
    <3> QED
      BY <2>1, <2>3
<1>3. QED
  <2> HIDE DEF Agree
  <2>1. Nat \subseteq S
    <3> HIDE DEF S
    <3> QED
      BY <1>1, <1>2, NatSetInduction
  <2>2. \A k \in Nat : Agree(k)
    BY <2>1
  <2>3. QED
    BY <2>2 DEF Agree

LEMMA FactorialUnfolds ==
  /\ Factorial[0] = 1
  /\ \A k \in Nat : Factorial[k + 1] = ((k + 1) * Factorial[k]) % Modulus
<1> DEFINE part(k) == CHOOSE h : IsFactorialPrefix(h, k)
           g       == [k \in Nat |-> part(k)[k]]
           next(f, k) == IF k = 0 THEN 1
                         ELSE (k * f[k - 1]) % Modulus
<1>1. \A k \in Nat : IsFactorialPrefix(part(k), k)
  BY PrefixExists
<1>2. ASSUME NEW k \in Nat
      PROVE  g[k] = next(g, k)
  <2> HIDE DEF part
  <2>1. k \in 0..k /\ (k # 0 => k - 1 \in Nat /\ k - 1 <= k /\ k - 1 <= k - 1 /\ k - 1 \in 0..k)
    OBVIOUS
  <2>2. part(k)[k] = next(part(k), k)
    BY <1>1, <2>1 DEF IsFactorialPrefix
  <2>3. k # 0 => part(k)[k - 1] = part(k - 1)[k - 1]
    BY <1>1, <2>1, PrefixUnique
  <2>4. g[k] = part(k)[k] /\ (k # 0 => g[k - 1] = part(k - 1)[k - 1])
    BY <2>1
  <2>5. QED
    <3> HIDE DEF g
    <3> QED
      BY <2>2, <2>3, <2>4
<1>3. g = [k \in Nat |-> next(g, k)]
  <2>1. g = [k \in Nat |-> g[k]]
    OBVIOUS
  <2> HIDE DEF g, next
  <2>2. QED
    BY <1>2, <2>1
<1>4. Factorial = [k \in Nat |-> next(Factorial, k)]
  <2> HIDE DEF g
  <2>1. \E f : f = [k \in Nat |-> next(f, k)]
    BY <1>3
  <2>2. QED
    BY <2>1 DEF Factorial
<1>5. QED
  <2>1. \A k \in Nat : k + 1 \in Nat /\ k + 1 # 0 /\ (k + 1) - 1 = k
    OBVIOUS
  <2>2. \A k \in Nat : Factorial[k] = next(Factorial, k)
    <3> HIDE DEF next
    <3> QED
      BY <1>4
  <2>3. QED
    BY <2>1, <2>2

LEMMA FactorialType ==
  \A k \in Nat : Factorial[k] \in Int
<1> DEFINE S == {k \in Nat : Factorial[k] \in Int}
<1>1. 0 \in S
  BY FactorialUnfolds
<1>2. ASSUME NEW k \in S
      PROVE  k + 1 \in S
  <2>1. (k + 1) * Factorial[k] \in Int
    OBVIOUS
  <2>2. ((k + 1) * Factorial[k]) % Modulus \in Int
    BY <2>1, WrapMod
  <2>3. QED
    BY <2>2, FactorialUnfolds
<1>3. QED
  <2> HIDE DEF S
  <2>1. Nat \subseteq S
    BY <1>1, <1>2, NatSetInduction
  <2>2. QED
    BY <2>1 DEF S

-----------------------------------------------------------------------------
(* What the functions are expected to compute.                             *)

LEMMA FactIsWrapped ==
  ASSUME NEW x \in Integer, x >= 1
  PROVE  Expected("fact", <<x>>) = Wrap(Factorial[x])
<1>1. CASE x > 1
  BY <1>1, Halves DEF Expected, Integer
<1>2. CASE x = 1
  <2>1. 0 \in Nat /\ 0 + 1 = 1 /\ (0 + 1) * Factorial[0] = 1
    BY FactorialUnfolds
  <2>2. Factorial[1] = 1 % Modulus
    BY <2>1, FactorialUnfolds
  <2>3. Wrap(Factorial[1]) = Wrap(1)
    BY <2>2, WrapMod
  <2>4. Wrap(1) = 1
    BY <1>2, WrapFits
  <2>5. QED
    BY <1>2, <2>3, <2>4 DEF Expected
<1>3. QED
  BY <1>1, <1>2, Halves DEF Integer

LEMMA FactStep ==
  ASSUME NEW x \in Integer, x > 1
  PROVE  /\ x - 1 \in Integer
         /\ Wrap(x * Expected("fact", <<x - 1>>)) = Expected("fact", <<x>>)
<1>1. x - 1 \in Integer /\ x - 1 >= 1 /\ x - 1 \in Nat /\ x \in Int /\ (x - 1) + 1 = x
  BY Halves DEF Integer
<1> DEFINE y == Factorial[x - 1]
<1>2. y \in Int
  BY <1>1, FactorialType
<1>3. Factorial[x] = (x * y) % Modulus
  BY <1>1, FactorialUnfolds
<1>4. Expected("fact", <<x - 1>>) = Wrap(y) /\ Expected("fact", <<x>>) = Wrap(Factorial[x])
  BY <1>1, FactIsWrapped
<1> HIDE DEF y
<1>5. Wrap(x * Wrap(y)) = Wrap(x * y) /\ x * y \in Int
  BY <1>1, <1>2, WrapProduct
<1>6. Wrap((x * y) % Modulus) = Wrap(x * y)
  BY <1>5, WrapMod
<1>7. QED
  BY <1>1, <1>3, <1>4, <1>5, <1>6

LEMMA ParityStep ==
  ASSUME NEW x \in Integer, x # 0
  PROVE  /\ Expected("odd", <<Wrap(x - 1)>>) = Expected("even", <<x>>)
         /\ Expected("even", <<Wrap(x - 1)>>) = Expected("odd", <<x>>)
<1>1. x \in Int /\ Half \in Int /\ Wrap(x - 1) = IF x = -Half THEN Half - 1 ELSE x - 1
  BY Halves, WrapLess DEF Integer
<1>2. Wrap(x - 1) \in Int
  BY <1>1
<1>3. Wrap(x - 1) % 2 = 1 <=> x % 2 = 0
  BY <1>1, <1>2
<1>4. Wrap(x - 1) % 2 = 0 <=> x % 2 = 1
  BY <1>1, <1>2
<1>5. QED
  BY <1>3, <1>4 DEF Expected, Bit

LEMMA BitType == 0 \in Integer /\ 1 \in Integer /\ \A p \in BOOLEAN : Bit(p) \in Integer
BY Halves DEF Integer, Bit

LEMMA IntegerType == Integer \subseteq Int
BY Halves DEF Integer

LEMMA ExpectedType ==
  ASSUME NEW x \in Integer
  PROVE  /\ Expected("fact", <<x>>) \in Integer
         /\ Expected("even", <<x>>) \in Integer
         /\ Expected("odd", <<x>>) \in Integer
<1>1. Expected("fact", <<x>>) \in Integer
  <2>1. CASE x <= 1
    BY <2>1, BitType DEF Expected
  <2>2. CASE ~(x <= 1)
    <3>1. x \in Nat /\ Factorial[x] \in Int
      BY <2>2, IntegerType, FactorialType
    <3>2. Wrap(Factorial[x]) \in Integer
      BY <3>1, WrapType
    <3>3. QED
      BY <2>2, <3>2 DEF Expected
  <2>3. QED
    BY <2>1, <2>2
<1>2. Expected("even", <<x>>) = Bit(x % 2 = 0) /\ Expected("odd", <<x>>) = Bit(x % 2 = 1)
  BY DEF Expected
<1>3. QED
  BY <1>1, <1>2, BitType

-----------------------------------------------------------------------------
(* What CreateFunctions builds, block by block.                            *)

\* The names "even" and "odd" use: they differ in nothing else but the value
\* returned for zero.
EvenNames ==
  [me |-> "even", other |-> "odd", stop |-> "return_even", recurse |-> "recurse_even",
   cond |-> "cond_even", arg |-> "arg_even", call |-> "oddx1", zero |-> 1]
OddNames ==
  [me |-> "odd", other |-> "even", stop |-> "return_odd", recurse |-> "recurse_odd",
   cond |-> "cond_odd", arg |-> "arg_odd", call |-> "evenx1", zero |-> 0]

Parities == {EvenNames, OddNames}

Constant(v) == [kind |-> "constant", value |-> v]
Register(x) == [kind |-> "name", name |-> x]

Instruction(op, def, operands, callee) ==
  [op |-> op, def |-> def, operands |-> operands, callee |-> callee]

LEMMA BlockNames ==
  /\ \A b \in {"fact", "return_fact", "recurse_fact"} : code[b] = fact[b]
  /\ \A b \in {"even", "odd", "return_even", "return_odd", "recurse_even", "recurse_odd"} :
       code[b] = evenOdd[b]
  /\ code["bin"] = bin["bin"]
  /\ DOMAIN code = {"fact", "return_fact", "recurse_fact", "even", "odd", "return_even",
                    "return_odd", "recurse_even", "recurse_odd", "bin"}
<1>1. /\ DOMAIN fact = {"fact", "return_fact", "recurse_fact"}
      /\ DOMAIN evenOdd = {"even", "odd", "return_even", "return_odd", "recurse_even", "recurse_odd"}
      /\ DOMAIN bin = {"bin"}
  BY DEF fact, evenOdd, bin
<1>2. QED
  BY <1>1 DEF code

LEMMA FactCode ==
  /\ code["fact"] = <<Instruction("sle", "cond", <<Register("n"), Constant(1)>>, "main"),
                      Br("cond", "return_fact", "recurse_fact")>>
  /\ code["return_fact"] = <<Instruction("ret", "", <<Constant(1)>>, "main")>>
  /\ code["recurse_fact"] =
       <<Instruction("sub", "arg", <<Register("n"), Constant(1)>>, "main"),
         Instruction("call", "factx1", <<Register("arg")>>, "fact"),
         Instruction("mul", "ret", <<Register("n"), Register("factx1")>>, "main"),
         Instruction("ret", "", <<Register("ret")>>, "main")>>
<1>1. /\ code["fact"] = fact.fact /\ code["return_fact"] = fact.return_fact
      /\ code["recurse_fact"] = fact.recurse_fact
  BY BlockNames
<1>2. QED
  BY <1>1 DEF fact, factCond, factCallsX1, Ret, One, n, B!Const, B!Named, B!Insn, B!Call,
     Constant, Register, Instruction

LEMMA ParityCode ==
  \A p \in Parities :
    /\ code[p.me] = <<Instruction("eq", p.cond, <<Register("num"), Constant(0)>>, "main"),
                      Br(p.cond, p.stop, p.recurse)>>
    /\ code[p.stop] = <<Instruction("ret", "", <<Constant(p.zero)>>, "main")>>
    /\ code[p.recurse] =
         <<Instruction("sub", p.arg, <<Register("num"), Constant(1)>>, "main"),
           Instruction("call", p.call, <<Register(p.arg)>>, p.other),
           Instruction("ret", "", <<Register(p.call)>>, "main")>>
<1>1. /\ code["even"] = evenOdd.even /\ code["odd"] = evenOdd.odd
      /\ code["return_even"] = evenOdd.return_even /\ code["return_odd"] = evenOdd.return_odd
      /\ code["recurse_even"] = evenOdd.recurse_even /\ code["recurse_odd"] = evenOdd.recurse_odd
  BY BlockNames
<1> DEFINE Built(p) ==
             /\ code[p.me] = <<Instruction("eq", p.cond, <<Register("num"), Constant(0)>>, "main"),
                               Br(p.cond, p.stop, p.recurse)>>
             /\ code[p.stop] = <<Instruction("ret", "", <<Constant(p.zero)>>, "main")>>
             /\ code[p.recurse] =
                  <<Instruction("sub", p.arg, <<Register("num"), Constant(1)>>, "main"),
                    Instruction("call", p.call, <<Register(p.arg)>>, p.other),
                    Instruction("ret", "", <<Register(p.call)>>, "main")>>
<1>2. Built(EvenNames)
  BY <1>1 DEF EvenNames, evenOdd, evenCallsOdd, Ret, Zero, One, num, B!Const, B!Named, B!Insn, B!Call,
     Constant, Register, Instruction
<1>3. Built(OddNames)
  BY <1>1 DEF OddNames, evenOdd, Ret, Zero, One, num, B!Const, B!Named, B!Insn, B!Call,
     Constant, Register, Instruction
<1>4. QED
  <2> HIDE DEF Built
  <2>1. \A p \in Parities : Built(p)
    BY <1>2, <1>3 DEF Parities
  <2>2. QED
    BY <2>1 DEF Built

LEMMA BinCode ==
  code["bin"] = <<Instruction("mul", "ret1", <<Register("x"), Register("y")>>, "main"),
                  Instruction("add", "ret2", <<Register("ret1"), Register("z")>>, "main"),
                  Instruction("ret", "", <<Register("ret2")>>, "main")>>
<1>1. \A a, b, c : <<a, b>> \o <<c>> = <<a, b, c>>
  <2> SUFFICES ASSUME NEW a, NEW b, NEW c
               PROVE  <<a, b>> \o <<c>> = <<a, b, c>>
    OBVIOUS
  <2> DEFINE T == {a, b, c}
  <2>1. <<a, b>> \in Seq(T) /\ <<c>> \in Seq(T) /\ <<a, b, c>> \in Seq(T)
    OBVIOUS
  <2>2. Len(<<a, b>>) = 2 /\ Len(<<c>>) = 1 /\ Len(<<a, b, c>>) = 3
    OBVIOUS
  <2>3. /\ Len(<<a, b>> \o <<c>>) = 3
        /\ (<<a, b>> \o <<c>>)[1] = a /\ (<<a, b>> \o <<c>>)[2] = b /\ (<<a, b>> \o <<c>>)[3] = c
    <3>1. \A i \in 1..3 : (<<a, b>> \o <<c>>)[i] =
                           IF i <= 2 THEN <<a, b>>[i] ELSE <<c>>[i - 2]
      BY <2>1, <2>2, ConcatProperties
    <3>2. Len(<<a, b>> \o <<c>>) = 3
      BY <2>1, <2>2, ConcatProperties
    <3>3. QED
      BY <3>1, <3>2
  <2>4. <<a, b>> \o <<c>> \in Seq(T)
    BY <2>1, ConcatProperties
  <2>5. \A i \in 1..3 : (<<a, b>> \o <<c>>)[i] = <<a, b, c>>[i]
    BY <2>3
  <2>6. QED
    BY <2>1, <2>2, <2>3, <2>4, <2>5, SeqEqual
<1>2. code["bin"] = bin.bin
  BY BlockNames
<1>3. QED
  BY <1>1, <1>2 DEF bin, binReturn, Ret, B!Named, B!Insn, Register, Instruction

LEMMA TupleElements ==
  /\ \A s, a : s = <<a>> => DOMAIN s = 1..1 /\ s[1] = a
  /\ \A s, a, b : s = <<a, b>> => DOMAIN s = 1..2 /\ s[1] = a /\ s[2] = b
  /\ \A s, a, b, c : s = <<a, b, c>> =>
       DOMAIN s = 1..3 /\ s[1] = a /\ s[2] = b /\ s[3] = c
  /\ \A s, a, b, c, d : s = <<a, b, c, d>> =>
       DOMAIN s = 1..4 /\ s[1] = a /\ s[2] = b /\ s[3] = c /\ s[4] = d
OBVIOUS

LEMMA FactInstructions ==
  /\ DOMAIN code["fact"] = 1..2 /\ DOMAIN code["return_fact"] = 1..1
  /\ DOMAIN code["recurse_fact"] = 1..4
  /\ code["fact"][1] = Instruction("sle", "cond", <<Register("n"), Constant(1)>>, "main")
  /\ code["fact"][2] = Br("cond", "return_fact", "recurse_fact")
  /\ code["return_fact"][1] = Instruction("ret", "", <<Constant(1)>>, "main")
  /\ code["recurse_fact"][1] = Instruction("sub", "arg", <<Register("n"), Constant(1)>>, "main")
  /\ code["recurse_fact"][2] = Instruction("call", "factx1", <<Register("arg")>>, "fact")
  /\ code["recurse_fact"][3] =
       Instruction("mul", "ret", <<Register("n"), Register("factx1")>>, "main")
  /\ code["recurse_fact"][4] = Instruction("ret", "", <<Register("ret")>>, "main")
  /\ code["fact"][1].op = "sle" /\ code["fact"][2].op = "br" /\ code["return_fact"][1].op = "ret"
  /\ code["recurse_fact"][1].op = "sub" /\ code["recurse_fact"][2].op = "call"
  /\ code["recurse_fact"][3].op = "mul" /\ code["recurse_fact"][4].op = "ret"
<1> DEFINE i1 == Instruction("sle", "cond", <<Register("n"), Constant(1)>>, "main")
           i2 == Br("cond", "return_fact", "recurse_fact")
           j1 == Instruction("ret", "", <<Constant(1)>>, "main")
           k1 == Instruction("sub", "arg", <<Register("n"), Constant(1)>>, "main")
           k2 == Instruction("call", "factx1", <<Register("arg")>>, "fact")
           k3 == Instruction("mul", "ret", <<Register("n"), Register("factx1")>>, "main")
           k4 == Instruction("ret", "", <<Register("ret")>>, "main")
<1>1. /\ code["fact"] = <<i1, i2>> /\ code["return_fact"] = <<j1>>
      /\ code["recurse_fact"] = <<k1, k2, k3, k4>>
  BY FactCode
<1>2. /\ DOMAIN code["fact"] = 1..2 /\ DOMAIN code["return_fact"] = 1..1
      /\ DOMAIN code["recurse_fact"] = 1..4
      /\ code["fact"][1] = i1 /\ code["fact"][2] = i2 /\ code["return_fact"][1] = j1
      /\ code["recurse_fact"][1] = k1 /\ code["recurse_fact"][2] = k2
      /\ code["recurse_fact"][3] = k3 /\ code["recurse_fact"][4] = k4
  <2> HIDE DEF i1, i2, j1, k1, k2, k3, k4
  <2>1. QED
    BY <1>1, TupleElements
<1>3. /\ i1.op = "sle" /\ i2.op = "br" /\ j1.op = "ret"
      /\ k1.op = "sub" /\ k2.op = "call" /\ k3.op = "mul" /\ k4.op = "ret"
  BY DEF Instruction, Br
<1>4. /\ code["fact"][1].op = "sle" /\ code["fact"][2].op = "br" /\ code["return_fact"][1].op = "ret"
      /\ code["recurse_fact"][1].op = "sub" /\ code["recurse_fact"][2].op = "call"
      /\ code["recurse_fact"][3].op = "mul" /\ code["recurse_fact"][4].op = "ret"
  <2> HIDE DEF i1, i2, j1, k1, k2, k3, k4
  <2>1. QED
    BY <1>2, <1>3
<1>5. QED
  BY <1>2, <1>4

LEMMA ParityInstructions ==
  ASSUME NEW p \in Parities
  PROVE  /\ DOMAIN code[p.me] = 1..2 /\ DOMAIN code[p.stop] = 1..1 /\ DOMAIN code[p.recurse] = 1..3
         /\ code[p.me][1] = Instruction("eq", p.cond, <<Register("num"), Constant(0)>>, "main")
         /\ code[p.me][2] = Br(p.cond, p.stop, p.recurse)
         /\ code[p.stop][1] = Instruction("ret", "", <<Constant(p.zero)>>, "main")
         /\ code[p.recurse][1] =
              Instruction("sub", p.arg, <<Register("num"), Constant(1)>>, "main")
         /\ code[p.recurse][2] = Instruction("call", p.call, <<Register(p.arg)>>, p.other)
         /\ code[p.recurse][3] = Instruction("ret", "", <<Register(p.call)>>, "main")
         /\ code[p.me][1].op = "eq" /\ code[p.me][2].op = "br" /\ code[p.stop][1].op = "ret"
         /\ code[p.recurse][1].op = "sub" /\ code[p.recurse][2].op = "call"
         /\ code[p.recurse][3].op = "ret"
<1> DEFINE i1 == Instruction("eq", p.cond, <<Register("num"), Constant(0)>>, "main")
           i2 == Br(p.cond, p.stop, p.recurse)
           j1 == Instruction("ret", "", <<Constant(p.zero)>>, "main")
           k1 == Instruction("sub", p.arg, <<Register("num"), Constant(1)>>, "main")
           k2 == Instruction("call", p.call, <<Register(p.arg)>>, p.other)
           k3 == Instruction("ret", "", <<Register(p.call)>>, "main")
<1>1. /\ code[p.me] = <<i1, i2>> /\ code[p.stop] = <<j1>> /\ code[p.recurse] = <<k1, k2, k3>>
  BY ParityCode
<1>2. /\ DOMAIN code[p.me] = 1..2 /\ DOMAIN code[p.stop] = 1..1 /\ DOMAIN code[p.recurse] = 1..3
      /\ code[p.me][1] = i1 /\ code[p.me][2] = i2 /\ code[p.stop][1] = j1
      /\ code[p.recurse][1] = k1 /\ code[p.recurse][2] = k2 /\ code[p.recurse][3] = k3
  <2> HIDE DEF i1, i2, j1, k1, k2, k3
  <2>1. QED
    BY <1>1, TupleElements
<1>3. /\ i1.op = "eq" /\ i2.op = "br" /\ j1.op = "ret"
      /\ k1.op = "sub" /\ k2.op = "call" /\ k3.op = "ret"
  BY DEF Instruction, Br
<1>4. /\ code[p.me][1].op = "eq" /\ code[p.me][2].op = "br" /\ code[p.stop][1].op = "ret"
      /\ code[p.recurse][1].op = "sub" /\ code[p.recurse][2].op = "call"
      /\ code[p.recurse][3].op = "ret"
  <2> HIDE DEF i1, i2, j1, k1, k2, k3
  <2>1. QED
    BY <1>2, <1>3
<1>5. QED
  BY <1>2, <1>4

LEMMA BinInstructions ==
  /\ DOMAIN code["bin"] = 1..3
  /\ code["bin"][1] = Instruction("mul", "ret1", <<Register("x"), Register("y")>>, "main")
  /\ code["bin"][2] = Instruction("add", "ret2", <<Register("ret1"), Register("z")>>, "main")
  /\ code["bin"][3] = Instruction("ret", "", <<Register("ret2")>>, "main")
  /\ code["bin"][1].op = "mul" /\ code["bin"][2].op = "add" /\ code["bin"][3].op = "ret"
<1> DEFINE i1 == Instruction("mul", "ret1", <<Register("x"), Register("y")>>, "main")
           i2 == Instruction("add", "ret2", <<Register("ret1"), Register("z")>>, "main")
           i3 == Instruction("ret", "", <<Register("ret2")>>, "main")
<1>1. code["bin"] = <<i1, i2, i3>>
  BY BinCode
<1>2. /\ DOMAIN code["bin"] = 1..3
      /\ code["bin"][1] = i1 /\ code["bin"][2] = i2 /\ code["bin"][3] = i3
  <2> HIDE DEF i1, i2, i3
  <2>1. QED
    BY <1>1, TupleElements
<1>3. i1.op = "mul" /\ i2.op = "add" /\ i3.op = "ret"
  BY DEF Instruction
<1>4. code["bin"][1].op = "mul" /\ code["bin"][2].op = "add" /\ code["bin"][3].op = "ret"
  <2> HIDE DEF i1, i2, i3
  <2>1. QED
    BY <1>2, <1>3
<1>5. QED
  BY <1>2, <1>4

-----------------------------------------------------------------------------
(* The frames of a call: where it may stand, and what it knows there.      *)

FunctionOf(b) ==
  CASE b \in {"fact", "return_fact", "recurse_fact"} -> "fact"
    [] b \in {"even", "return_even", "recurse_even"} -> "even"
    [] b \in {"odd", "return_odd", "recurse_odd"}    -> "odd"
    [] b = "bin"                                     -> "bin"

ArgumentsOf(fr) ==
  CASE FunctionOf(fr.block) = "fact"            -> <<fr.registers["n"]>>
    [] FunctionOf(fr.block) \in {"even", "odd"} -> <<fr.registers["num"]>>
    [] FunctionOf(fr.block) = "bin" ->
         <<fr.registers["x"], fr.registers["y"], fr.registers["z"]>>

\* What the call will return, and how many frames it needs.
Answer(fr) == Expected(FunctionOf(fr.block), ArgumentsOf(fr))
Need(fr)   == Depth(FunctionOf(fr.block), ArgumentsOf(fr))

IsFrame(fr) ==
  /\ fr = [block |-> fr.block, pc |-> fr.pc, registers |-> fr.registers]
  /\ fr.pc \in Nat
  /\ fr.registers \in [DOMAIN fr.registers -> Integer]

Knows(fr, x, v) == x \in DOMAIN fr.registers /\ fr.registers[x] = v

FactFrame(fr) ==
  LET x == fr.registers["n"] IN
  /\ "n" \in DOMAIN fr.registers
  /\ \/ fr.block = "fact" /\ fr.pc = 1
     \/ fr.block = "fact" /\ fr.pc = 2 /\ Knows(fr, "cond", Bit(x <= 1))
     \/ fr.block = "return_fact" /\ fr.pc = 1 /\ x <= 1
     \/ /\ fr.block = "recurse_fact" /\ x > 1
        /\ \/ fr.pc = 1
           \/ fr.pc = 2 /\ Knows(fr, "arg", x - 1)
           \/ fr.pc = 3 /\ Knows(fr, "factx1", Expected("fact", <<x - 1>>))
           \/ fr.pc = 4 /\ Knows(fr, "ret", Expected("fact", <<x>>))

ParityFrame(fr, p) ==
  LET x == fr.registers["num"] IN
  /\ "num" \in DOMAIN fr.registers
  /\ \/ fr.block = p.me /\ fr.pc = 1
     \/ fr.block = p.me /\ fr.pc = 2 /\ Knows(fr, p.cond, Bit(x = 0))
     \/ fr.block = p.stop /\ fr.pc = 1 /\ x = 0
     \/ /\ fr.block = p.recurse /\ x # 0
        /\ \/ fr.pc = 1
           \/ fr.pc = 2 /\ Knows(fr, p.arg, Wrap(x - 1))
           \/ fr.pc = 3 /\ Knows(fr, p.call, Expected(p.me, <<x>>))

BinFrame(fr) ==
  LET x == fr.registers["x"]
      y == fr.registers["y"]
      z == fr.registers["z"]
  IN /\ {"x", "y", "z"} \subseteq DOMAIN fr.registers
     /\ fr.block = "bin"
     /\ \/ fr.pc = 1
        \/ fr.pc = 2 /\ Knows(fr, "ret1", Wrap(x * y))
        \/ fr.pc = 3 /\ Knows(fr, "ret2", Wrap(x * y + z))

FrameInv(fr) ==
  IsFrame(fr) /\ (FactFrame(fr) \/ (\E p \in Parities : ParityFrame(fr, p)) \/ BinFrame(fr))

SameCall(f, g) == FunctionOf(f.block) = FunctionOf(g.block) /\ ArgumentsOf(f) = ArgumentsOf(g)

\* A frame at a call of g, which is made with integer x.
Calls(fr, g, x) ==
  LET i == code[fr.block][fr.pc] IN
  /\ i.op = "call" /\ i.callee = g /\ DOMAIN i.operands = {1}
  /\ i.operands[1].kind = "name" /\ Knows(fr, i.operands[1].name, x)

LEMMA DefinedFrame ==
  ASSUME NEW fr, IsFrame(fr), NEW v \in Integer, NEW d, code[fr.block][fr.pc].def = d
  PROVE  /\ IsFrame(Defined(fr, v))
         /\ Defined(fr, v).block = fr.block /\ Defined(fr, v).pc = fr.pc + 1
         /\ Knows(Defined(fr, v), d, v)
         /\ \A x \in DOMAIN fr.registers : x # d => Knows(Defined(fr, v), x, fr.registers[x])
BY DEF Defined, IsFrame, Knows

LEMMA Blocks ==
  ASSUME NEW fr, FrameInv(fr)
  PROVE  /\ FactFrame(fr) <=> FunctionOf(fr.block) = "fact"
         /\ \A p \in Parities : ParityFrame(fr, p) <=> FunctionOf(fr.block) = p.me
         /\ BinFrame(fr) <=> FunctionOf(fr.block) = "bin"
BY DEF FrameInv, FactFrame, ParityFrame, BinFrame, Parities, EvenNames, OddNames, FunctionOf

-----------------------------------------------------------------------------
(* "fact".                                                                 *)

LEMMA FactPlace ==
  ASSUME NEW fr, IsFrame(fr), FactFrame(fr)
  PROVE  /\ fr.registers["n"] \in Integer /\ fr.registers["n"] \in Int
         /\ FunctionOf(fr.block) = "fact" /\ ArgumentsOf(fr) = <<fr.registers["n"]>>
BY IntegerType DEF IsFrame, FactFrame, FunctionOf, ArgumentsOf

\* Which instruction a frame of "fact" is at.
LEMMA FactOp ==
  ASSUME NEW fr, FactFrame(fr)
  PROVE  /\ fr.block \in DOMAIN code /\ fr.pc \in DOMAIN code[fr.block]
         /\ code[fr.block][fr.pc].op \in {"add", "sub", "mul", "eq", "sle"} =>
              (fr.block = "fact" /\ fr.pc = 1) \/ (fr.block = "recurse_fact" /\ fr.pc \in {1, 3})
         /\ code[fr.block][fr.pc].op = "br" => fr.block = "fact" /\ fr.pc = 2
         /\ code[fr.block][fr.pc].op = "call" => fr.block = "recurse_fact" /\ fr.pc = 2
         /\ code[fr.block][fr.pc].op = "ret" =>
              (fr.block = "return_fact" /\ fr.pc = 1) \/ (fr.block = "recurse_fact" /\ fr.pc = 4)
<1> DEFINE op == code[fr.block][fr.pc].op
<1>1. fr.block \in DOMAIN code /\ fr.pc \in DOMAIN code[fr.block]
  <2>1. \/ fr.block = "fact" /\ fr.pc \in 1..2
        \/ fr.block = "return_fact" /\ fr.pc \in 1..1
        \/ fr.block = "recurse_fact" /\ fr.pc \in 1..4
    BY DEF FactFrame
  <2>2. QED
    BY <2>1, BlockNames, FactInstructions
<1>2. /\ fr.block = "fact" /\ fr.pc = 1 => op = "sle"
      /\ fr.block = "fact" /\ fr.pc = 2 => op = "br"
      /\ fr.block = "return_fact" /\ fr.pc = 1 => op = "ret"
  BY FactInstructions
<1>3. fr.block = "recurse_fact" => /\ fr.pc = 1 => op = "sub"
                                   /\ fr.pc = 2 => op = "call"
                                   /\ fr.pc = 3 => op = "mul"
                                   /\ fr.pc = 4 => op = "ret"
  BY FactInstructions
<1>4. QED
  <2> HIDE DEF op
  <2>1. /\ op \in {"add", "sub", "mul", "eq", "sle"} =>
             (fr.block = "fact" /\ fr.pc = 1) \/ (fr.block = "recurse_fact" /\ fr.pc \in {1, 3})
        /\ op = "br" => fr.block = "fact" /\ fr.pc = 2
        /\ op = "call" => fr.block = "recurse_fact" /\ fr.pc = 2
        /\ op = "ret" =>
             (fr.block = "return_fact" /\ fr.pc = 1) \/ (fr.block = "recurse_fact" /\ fr.pc = 4)
    BY <1>2, <1>3 DEF FactFrame
  <2>2. QED
    BY <1>1, <2>1 DEF op

LEMMA FactComputes ==
  ASSUME IsFrame(top), FactFrame(top), insn.op \in {"add", "sub", "mul", "eq", "sle"}
  PROVE  IsFrame(Defined(top, Value)) /\ FactFrame(Defined(top, Value))
           /\ SameCall(Defined(top, Value), top)
<1> DEFINE x == top.registers["n"]
           g == Defined(top, Value)
<1>1. x \in Integer /\ x \in Int /\ "n" \in DOMAIN top.registers
  BY FactPlace DEF FactFrame
<1>2. SUFFICES IsFrame(g) /\ FactFrame(g) /\ g.registers["n"] = x
  BY FactPlace DEF SameCall
<1>3. CASE top.block = "fact" /\ top.pc = 1
  <2>1. insn = Instruction("sle", "cond", <<Register("n"), Constant(1)>>, "main")
    BY <1>3, FactInstructions DEF insn
  <2>2. Value = Bit(x <= 1) /\ Value \in Integer
    BY <2>1, BitType DEF Value, Operand, Instruction, Register, Constant, Bit
  <2>3. code[top.block][top.pc].def = "cond"
    BY <2>1 DEF insn, Instruction
  <2>4. QED
    BY <1>1, <1>3, <2>2, <2>3, DefinedFrame DEF FactFrame, Knows
<1>4. CASE top.block = "recurse_fact" /\ top.pc = 1 /\ x > 1
  <2>1. insn = Instruction("sub", "arg", <<Register("n"), Constant(1)>>, "main")
    BY <1>4, FactInstructions DEF insn
  <2>2. Value = Wrap(x - 1)
    BY <2>1 DEF Value, Operand, Instruction, Register, Constant
  <2>3. Value = x - 1 /\ Value \in Integer
    BY <1>1, <1>4, <2>2, FactStep, WrapFits
  <2>4. code[top.block][top.pc].def = "arg"
    BY <2>1 DEF insn, Instruction
  <2>5. QED
    BY <1>1, <1>4, <2>3, <2>4, DefinedFrame DEF FactFrame, Knows
<1>5. CASE top.block = "recurse_fact" /\ top.pc = 3 /\ x > 1 /\ Knows(top, "factx1", Expected("fact", <<x - 1>>))
  <2>1. insn = Instruction("mul", "ret", <<Register("n"), Register("factx1")>>, "main")
    BY <1>5, FactInstructions DEF insn
  <2>2. Value = Wrap(x * Expected("fact", <<x - 1>>))
    BY <1>5, <2>1 DEF Value, Operand, Instruction, Register, Knows
  <2>3. Value = Expected("fact", <<x>>) /\ Value \in Integer
    BY <1>1, <1>5, <2>2, FactStep, ExpectedType
  <2>4. code[top.block][top.pc].def = "ret"
    BY <2>1 DEF insn, Instruction
  <2>5. QED
    BY <1>1, <1>5, <2>3, <2>4, DefinedFrame DEF FactFrame, Knows
<1>6. QED
  BY <1>3, <1>4, <1>5, FactOp DEF FactFrame, insn

LEMMA FactBranches ==
  ASSUME IsFrame(top), FactFrame(top), insn.op = "br"
  PROVE  LET target == insn.targets[IF top.registers[insn.cond] = 1 THEN 1 ELSE 2]
             g      == [block |-> target, pc |-> 1, registers |-> top.registers]
         IN IsFrame(g) /\ FactFrame(g) /\ SameCall(g, top)
<1> DEFINE x == top.registers["n"]
           target == insn.targets[IF top.registers[insn.cond] = 1 THEN 1 ELSE 2]
           g == [block |-> target, pc |-> 1, registers |-> top.registers]
<1>1. top.block = "fact" /\ top.pc = 2 /\ x \in Int
  BY FactOp, FactPlace DEF insn
<1>2. "n" \in DOMAIN top.registers /\ top.registers["cond"] = Bit(x <= 1)
  BY <1>1 DEF FactFrame, Knows
<1>3. insn = Br("cond", "return_fact", "recurse_fact")
  BY <1>1, FactInstructions DEF insn
<1>4. target = IF x <= 1 THEN "return_fact" ELSE "recurse_fact"
  BY <1>2, <1>3 DEF Br, Bit
<1>5. IsFrame(g) /\ FactFrame(g) /\ g.registers["n"] = x
  <2> HIDE DEF target, g
  <2>1. g.block = target /\ g.pc = 1 /\ g.registers = top.registers
    BY DEF g
  <2>2. IsFrame(g)
    BY <2>1 DEF IsFrame, g
  <2>3. FactFrame(g)
    BY <1>1, <1>2, <1>4, <2>1 DEF FactFrame
  <2>4. QED
    BY <2>1, <2>2, <2>3
<1>6. SameCall(g, top)
  <2> HIDE DEF g
  <2> QED
    BY <1>5, FactPlace DEF SameCall
<1>7. QED
  BY <1>5, <1>6

LEMMA FactCalls ==
  ASSUME NEW fr, IsFrame(fr), FactFrame(fr), code[fr.block][fr.pc].op = "call"
  PROVE  /\ fr.registers["n"] > 1 /\ fr.registers["n"] - 1 \in Integer
         /\ Calls(fr, "fact", fr.registers["n"] - 1)
<1> DEFINE x == fr.registers["n"]
<1>1. fr.block = "recurse_fact" /\ fr.pc = 2 /\ x \in Integer
  BY FactOp, FactPlace
<1>2. x > 1 /\ Knows(fr, "arg", x - 1)
  BY <1>1 DEF FactFrame
<1>3. code[fr.block][fr.pc] = Instruction("call", "factx1", <<Register("arg")>>, "fact")
  BY <1>1, FactInstructions
<1>4. Calls(fr, "fact", x - 1)
  <2> HIDE DEF x
  <2> QED
    BY <1>2, <1>3 DEF Calls, Instruction, Register
<1>5. QED
  BY <1>1, <1>2, <1>4, FactStep

LEMMA FactReturns ==
  ASSUME IsFrame(top), FactFrame(top), insn.op = "ret"
  PROVE  Operand(1) = Answer(top)
<1> DEFINE x == top.registers["n"]
<1>1. Answer(top) = Expected("fact", <<x>>) /\ x \in Int
  BY FactPlace DEF Answer
<1>2. CASE top.block = "return_fact" /\ top.pc = 1
  <2>1. insn = Instruction("ret", "", <<Constant(1)>>, "main")
    BY <1>2, FactInstructions DEF insn
  <2>2. Operand(1) = 1
    BY <2>1 DEF Operand, Instruction, Constant
  <2>3. x <= 1
    BY <1>2 DEF FactFrame
  <2>4. QED
    BY <1>1, <2>2, <2>3 DEF Expected
<1>3. CASE top.block = "recurse_fact" /\ top.pc = 4
  <2>1. insn = Instruction("ret", "", <<Register("ret")>>, "main")
    BY <1>3, FactInstructions DEF insn
  <2>2. Operand(1) = top.registers["ret"]
    BY <2>1 DEF Operand, Instruction, Register
  <2>3. Knows(top, "ret", Expected("fact", <<x>>))
    BY <1>3 DEF FactFrame
  <2>4. QED
    BY <1>1, <2>2, <2>3 DEF Knows
<1>4. QED
  BY <1>2, <1>3, FactOp DEF insn

LEMMA FactResumes ==
  ASSUME NEW fr, IsFrame(fr), FactFrame(fr), code[fr.block][fr.pc].op = "call",
         NEW v, v = Expected("fact", <<fr.registers["n"] - 1>>)
  PROVE  IsFrame(Defined(fr, v)) /\ FactFrame(Defined(fr, v)) /\ SameCall(Defined(fr, v), fr)
<1> DEFINE x == fr.registers["n"]
           g == Defined(fr, v)
<1>1. fr.block = "recurse_fact" /\ fr.pc = 2 /\ x \in Integer /\ "n" \in DOMAIN fr.registers
  BY FactOp, FactPlace DEF FactFrame
<1>2. x > 1 /\ x - 1 \in Integer
  BY FactCalls
<1>3. v \in Integer
  BY <1>2, ExpectedType
<1>4. code[fr.block][fr.pc].def = "factx1"
  <2>1. code[fr.block][fr.pc] = Instruction("call", "factx1", <<Register("arg")>>, "fact")
    BY <1>1, FactInstructions
  <2>2. QED
    BY <2>1 DEF Instruction
<1>5. /\ IsFrame(g) /\ g.block = "recurse_fact" /\ g.pc = 3
      /\ Knows(g, "factx1", v) /\ Knows(g, "n", x)
  BY <1>1, <1>3, <1>4, DefinedFrame
<1>6. FactFrame(g) /\ g.registers["n"] = x
  <2> HIDE DEF g
  <2> QED
    BY <1>2, <1>5 DEF FactFrame, Knows
<1>7. SameCall(g, fr)
  <2> HIDE DEF g
  <2> QED
    BY <1>5, <1>6, FactPlace DEF SameCall
<1>8. QED
  BY <1>5, <1>6, <1>7

-----------------------------------------------------------------------------
(* "even" and "odd".                                                       *)

LEMMA ParityNames ==
  ASSUME NEW p \in Parities
  PROVE  /\ "num" \notin {p.cond, p.arg, p.call}
         /\ p.me # p.stop /\ p.me # p.recurse /\ p.stop # p.recurse
         /\ p.me \in {"even", "odd"} /\ {p.me, p.stop, p.recurse} \subseteq DOMAIN code
         /\ \A b \in {p.me, p.stop, p.recurse} : FunctionOf(b) = p.me
         /\ \E q \in Parities : p.other = q.me
BY BlockNames DEF Parities, EvenNames, OddNames, FunctionOf

LEMMA ParityValues ==
  ASSUME NEW p \in Parities
  PROVE  /\ Expected(p.me, <<0>>) = p.zero
         /\ \A x \in Integer : Expected(p.me, <<x>>) \in Integer
         /\ \A x \in Integer : x # 0 =>
              /\ Wrap(x - 1) \in Integer
              /\ Expected(p.other, <<Wrap(x - 1)>>) = Expected(p.me, <<x>>)
<1>1. Expected("even", <<0>>) = 1 /\ Expected("odd", <<0>>) = 0
  BY DEF Expected, Bit
<1>2. \A x \in Integer : Wrap(x - 1) \in Integer
  BY WrapType, IntegerType
<1>3. \/ p.me = "even" /\ p.other = "odd" /\ p.zero = 1
      \/ p.me = "odd" /\ p.other = "even" /\ p.zero = 0
  BY DEF Parities, EvenNames, OddNames
<1>4. QED
  BY <1>1, <1>2, <1>3, ParityStep, ExpectedType

LEMMA ParityPlace ==
  ASSUME NEW p \in Parities, NEW fr, IsFrame(fr), ParityFrame(fr, p)
  PROVE  /\ fr.registers["num"] \in Integer /\ "num" \in DOMAIN fr.registers
         /\ FunctionOf(fr.block) = p.me /\ ArgumentsOf(fr) = <<fr.registers["num"]>>
<1>1. fr.block \in {p.me, p.stop, p.recurse}
  BY DEF ParityFrame
<1>2. FunctionOf(fr.block) = p.me /\ p.me \in {"even", "odd"}
  BY <1>1, ParityNames
<1>3. ArgumentsOf(fr) = <<fr.registers["num"]>>
  BY <1>2 DEF ArgumentsOf
<1>4. QED
  BY <1>2, <1>3 DEF ParityFrame, IsFrame

LEMMA ParityOp ==
  ASSUME NEW p \in Parities, NEW fr, ParityFrame(fr, p)
  PROVE  /\ fr.block \in DOMAIN code /\ fr.pc \in DOMAIN code[fr.block]
         /\ code[fr.block][fr.pc].op \in {"add", "sub", "mul", "eq", "sle"} =>
              (fr.block = p.me /\ fr.pc = 1) \/ (fr.block = p.recurse /\ fr.pc = 1)
         /\ code[fr.block][fr.pc].op = "br" => fr.block = p.me /\ fr.pc = 2
         /\ code[fr.block][fr.pc].op = "call" => fr.block = p.recurse /\ fr.pc = 2
         /\ code[fr.block][fr.pc].op = "ret" =>
              (fr.block = p.stop /\ fr.pc = 1) \/ (fr.block = p.recurse /\ fr.pc = 3)
<1> DEFINE op == code[fr.block][fr.pc].op
<1>1. fr.block \in DOMAIN code /\ fr.pc \in DOMAIN code[fr.block]
  <2>1. \/ fr.block = p.me /\ fr.pc \in 1..2
        \/ fr.block = p.stop /\ fr.pc \in 1..1
        \/ fr.block = p.recurse /\ fr.pc \in 1..3
    BY DEF ParityFrame
  <2>2. QED
    BY <2>1, ParityNames, ParityInstructions
<1>2. /\ fr.block = p.me /\ fr.pc = 1 => op = "eq"
      /\ fr.block = p.me /\ fr.pc = 2 => op = "br"
      /\ fr.block = p.stop /\ fr.pc = 1 => op = "ret"
  BY ParityInstructions
<1>3. fr.block = p.recurse => /\ fr.pc = 1 => op = "sub"
                              /\ fr.pc = 2 => op = "call"
                              /\ fr.pc = 3 => op = "ret"
  BY ParityInstructions
<1>4. QED
  <2> HIDE DEF op
  <2>1. /\ op \in {"add", "sub", "mul", "eq", "sle"} =>
             (fr.block = p.me /\ fr.pc = 1) \/ (fr.block = p.recurse /\ fr.pc = 1)
        /\ op = "br" => fr.block = p.me /\ fr.pc = 2
        /\ op = "call" => fr.block = p.recurse /\ fr.pc = 2
        /\ op = "ret" => (fr.block = p.stop /\ fr.pc = 1) \/ (fr.block = p.recurse /\ fr.pc = 3)
    BY <1>2, <1>3 DEF ParityFrame
  <2>2. QED
    BY <1>1, <2>1 DEF op

LEMMA ParityComputes ==
  ASSUME NEW p \in Parities, IsFrame(top), ParityFrame(top, p),
         insn.op \in {"add", "sub", "mul", "eq", "sle"}
  PROVE  /\ IsFrame(Defined(top, Value)) /\ ParityFrame(Defined(top, Value), p)
         /\ SameCall(Defined(top, Value), top)
<1> DEFINE x == top.registers["num"]
           g == Defined(top, Value)
<1>1. x \in Integer /\ x \in Int /\ "num" \in DOMAIN top.registers
  BY ParityPlace, IntegerType
<1>2. "num" # p.cond /\ "num" # p.arg
  BY ParityNames
<1>3. IsFrame(g) /\ ParityFrame(g, p) /\ g.registers["num"] = x
  <2>1. CASE top.block = p.me /\ top.pc = 1
    <3>1. insn = Instruction("eq", p.cond, <<Register("num"), Constant(0)>>, "main")
      BY <2>1, ParityInstructions DEF insn
    <3>2. Value = Bit(x = 0) /\ Value \in Integer
      BY <3>1, BitType DEF Value, Operand, Instruction, Register, Constant, Bit
    <3>3. code[top.block][top.pc].def = p.cond
      BY <3>1 DEF insn, Instruction
    <3>4. /\ IsFrame(g) /\ g.block = p.me /\ g.pc = 2
          /\ Knows(g, p.cond, Bit(x = 0)) /\ Knows(g, "num", x)
      BY <1>1, <1>2, <2>1, <3>2, <3>3, DefinedFrame
    <3> HIDE DEF g
    <3>5. QED
      BY <3>4 DEF ParityFrame, Knows
  <2>2. CASE top.block = p.recurse /\ top.pc = 1
    <3>1. insn = Instruction("sub", p.arg, <<Register("num"), Constant(1)>>, "main")
      BY <2>2, ParityInstructions DEF insn
    <3>2. x # 0
      BY <2>2, ParityNames DEF ParityFrame
    <3>3. Value = Wrap(x - 1)
      BY <3>1 DEF Value, Operand, Instruction, Register, Constant
    <3>4. Value \in Integer
      BY <1>1, <3>2, <3>3, ParityValues
    <3>5. code[top.block][top.pc].def = p.arg
      BY <3>1 DEF insn, Instruction
    <3>6. /\ IsFrame(g) /\ g.block = p.recurse /\ g.pc = 2
          /\ Knows(g, p.arg, Wrap(x - 1)) /\ Knows(g, "num", x)
      BY <1>1, <1>2, <2>2, <3>3, <3>4, <3>5, DefinedFrame
    <3> HIDE DEF g
    <3>7. QED
      BY <3>2, <3>6 DEF ParityFrame, Knows
  <2>3. QED
    BY <2>1, <2>2, ParityOp DEF insn
<1>4. SameCall(g, top)
  <2> HIDE DEF g
  <2>1. QED
    BY <1>3, ParityPlace DEF SameCall
<1>5. QED
  BY <1>3, <1>4

LEMMA ParityBranches ==
  ASSUME NEW p \in Parities, IsFrame(top), ParityFrame(top, p), insn.op = "br"
  PROVE  LET target == insn.targets[IF top.registers[insn.cond] = 1 THEN 1 ELSE 2]
             g      == [block |-> target, pc |-> 1, registers |-> top.registers]
         IN IsFrame(g) /\ ParityFrame(g, p) /\ SameCall(g, top)
<1> DEFINE x == top.registers["num"]
           target == insn.targets[IF top.registers[insn.cond] = 1 THEN 1 ELSE 2]
           g == [block |-> target, pc |-> 1, registers |-> top.registers]
<1>1. top.block = p.me /\ top.pc = 2
  BY ParityOp DEF insn
<1>2. "num" \in DOMAIN top.registers /\ top.registers[p.cond] = Bit(x = 0)
  BY <1>1, ParityNames DEF ParityFrame, Knows
<1>3. insn = Br(p.cond, p.stop, p.recurse)
  BY <1>1, ParityInstructions DEF insn
<1>4. target = IF x = 0 THEN p.stop ELSE p.recurse
  BY <1>2, <1>3 DEF Br, Bit
<1>5. IsFrame(g) /\ ParityFrame(g, p) /\ g.registers["num"] = x
  <2> HIDE DEF target, g
  <2>1. g.block = target /\ g.pc = 1 /\ g.registers = top.registers
    BY DEF g
  <2>2. IsFrame(g)
    BY <2>1 DEF IsFrame, g
  <2>3. ParityFrame(g, p)
    BY <1>1, <1>2, <1>4, <2>1 DEF ParityFrame
  <2>4. QED
    BY <2>1, <2>2, <2>3
<1>6. SameCall(g, top)
  <2> HIDE DEF g
  <2> QED
    BY <1>5, ParityPlace DEF SameCall
<1>7. QED
  BY <1>5, <1>6

LEMMA ParityCalls ==
  ASSUME NEW p \in Parities, NEW fr, IsFrame(fr), ParityFrame(fr, p),
         code[fr.block][fr.pc].op = "call"
  PROVE  /\ fr.registers["num"] # 0 /\ Wrap(fr.registers["num"] - 1) \in Integer
         /\ Calls(fr, p.other, Wrap(fr.registers["num"] - 1))
<1> DEFINE x == fr.registers["num"]
<1>1. fr.block = p.recurse /\ fr.pc = 2 /\ x \in Integer
  BY ParityOp, ParityPlace
<1>2. x # 0 /\ Knows(fr, p.arg, Wrap(x - 1))
  BY <1>1, ParityNames DEF ParityFrame
<1>3. code[fr.block][fr.pc] = Instruction("call", p.call, <<Register(p.arg)>>, p.other)
  BY <1>1, ParityInstructions
<1>4. Calls(fr, p.other, Wrap(x - 1))
  <2> HIDE DEF x
  <2> QED
    BY <1>2, <1>3 DEF Calls, Instruction, Register
<1>5. QED
  BY <1>1, <1>2, <1>4, ParityValues

LEMMA ParityReturns ==
  ASSUME NEW p \in Parities, IsFrame(top), ParityFrame(top, p), insn.op = "ret"
  PROVE  Operand(1) = Answer(top)
<1> DEFINE x == top.registers["num"]
<1>1. Answer(top) = Expected(p.me, <<x>>)
  BY ParityPlace DEF Answer
<1>2. CASE top.block = p.stop /\ top.pc = 1
  <2>1. insn = Instruction("ret", "", <<Constant(p.zero)>>, "main")
    BY <1>2, ParityInstructions DEF insn
  <2>2. Operand(1) = p.zero
    BY <2>1 DEF Operand, Instruction, Constant
  <2>3. x = 0
    BY <1>2, ParityNames DEF ParityFrame
  <2>4. QED
    BY <1>1, <2>2, <2>3, ParityValues
<1>3. CASE top.block = p.recurse /\ top.pc = 3
  <2>1. insn = Instruction("ret", "", <<Register(p.call)>>, "main")
    BY <1>3, ParityInstructions DEF insn
  <2>2. Operand(1) = top.registers[p.call]
    BY <2>1 DEF Operand, Instruction, Register
  <2>3. Knows(top, p.call, Expected(p.me, <<x>>))
    BY <1>3, ParityNames DEF ParityFrame
  <2>4. QED
    BY <1>1, <2>2, <2>3 DEF Knows
<1>4. QED
  BY <1>2, <1>3, ParityOp DEF insn

LEMMA ParityResumes ==
  ASSUME NEW p \in Parities, NEW fr, IsFrame(fr), ParityFrame(fr, p),
         code[fr.block][fr.pc].op = "call",
         NEW v, v = Expected(p.other, <<Wrap(fr.registers["num"] - 1)>>)
  PROVE  IsFrame(Defined(fr, v)) /\ ParityFrame(Defined(fr, v), p) /\ SameCall(Defined(fr, v), fr)
<1> DEFINE x == fr.registers["num"]
           g == Defined(fr, v)
<1>1. fr.block = p.recurse /\ fr.pc = 2 /\ x \in Integer /\ "num" \in DOMAIN fr.registers
  BY ParityOp, ParityPlace
<1>2. x # 0
  BY ParityCalls
<1>3. v = Expected(p.me, <<x>>) /\ v \in Integer
  BY <1>1, <1>2, ParityValues
<1>4. code[fr.block][fr.pc].def = p.call /\ p.call # "num"
  <2>1. code[fr.block][fr.pc] = Instruction("call", p.call, <<Register(p.arg)>>, p.other)
    BY <1>1, ParityInstructions
  <2>2. QED
    BY <2>1, ParityNames DEF Instruction
<1>5. /\ IsFrame(g) /\ g.block = p.recurse /\ g.pc = 3
      /\ Knows(g, p.call, v) /\ Knows(g, "num", x)
  BY <1>1, <1>3, <1>4, DefinedFrame
<1>6. ParityFrame(g, p) /\ g.registers["num"] = x
  <2> HIDE DEF g
  <2> QED
    BY <1>2, <1>3, <1>5 DEF ParityFrame, Knows
<1>7. SameCall(g, fr)
  <2> HIDE DEF g
  <2> QED
    BY <1>5, <1>6, ParityPlace DEF SameCall
<1>8. QED
  BY <1>5, <1>6, <1>7

-----------------------------------------------------------------------------
(* "bin".                                                                  *)

LEMMA BinPlace ==
  ASSUME NEW fr, IsFrame(fr), BinFrame(fr)
  PROVE  /\ fr.registers["x"] \in Int /\ fr.registers["y"] \in Int /\ fr.registers["z"] \in Int
         /\ FunctionOf(fr.block) = "bin"
         /\ ArgumentsOf(fr) = <<fr.registers["x"], fr.registers["y"], fr.registers["z"]>>
         /\ Answer(fr) = Wrap(fr.registers["x"] * fr.registers["y"] + fr.registers["z"])
         /\ Need(fr) = 1
<1>1. /\ fr.registers["x"] \in Int /\ fr.registers["y"] \in Int /\ fr.registers["z"] \in Int
      /\ FunctionOf(fr.block) = "bin"
  BY IntegerType DEF IsFrame, BinFrame, FunctionOf
<1>2. ArgumentsOf(fr) = <<fr.registers["x"], fr.registers["y"], fr.registers["z"]>>
  BY <1>1 DEF ArgumentsOf
<1>3. QED
  BY <1>1, <1>2 DEF Answer, Need, Expected, Depth

LEMMA BinOp ==
  ASSUME NEW fr, BinFrame(fr)
  PROVE  /\ fr.block \in DOMAIN code /\ fr.pc \in DOMAIN code[fr.block]
         /\ code[fr.block][fr.pc].op \in {"add", "sub", "mul", "eq", "sle"} => fr.pc \in {1, 2}
         /\ code[fr.block][fr.pc].op \notin {"br", "call"}
         /\ code[fr.block][fr.pc].op = "ret" => fr.pc = 3
<1>1. fr.block = "bin" /\ fr.pc \in 1..3
  BY DEF BinFrame
<1> DEFINE op == code[fr.block][fr.pc].op
<1>2. /\ fr.pc = 1 => op = "mul"
      /\ fr.pc = 2 => op = "add"
      /\ fr.pc = 3 => op = "ret"
  BY <1>1, BinInstructions
<1>3. /\ op \in {"add", "sub", "mul", "eq", "sle"} => fr.pc \in {1, 2}
      /\ op \notin {"br", "call"}
      /\ op = "ret" => fr.pc = 3
  <2> HIDE DEF op
  <2> QED
    BY <1>1, <1>2
<1>4. fr.block \in DOMAIN code /\ fr.pc \in DOMAIN code[fr.block]
  BY <1>1, BlockNames, BinInstructions
<1>5. QED
  BY <1>3, <1>4

LEMMA BinComputes ==
  ASSUME IsFrame(top), BinFrame(top), insn.op \in {"add", "sub", "mul", "eq", "sle"}
  PROVE  IsFrame(Defined(top, Value)) /\ BinFrame(Defined(top, Value))
           /\ SameCall(Defined(top, Value), top)
<1> DEFINE x == top.registers["x"]
           y == top.registers["y"]
           z == top.registers["z"]
           g == Defined(top, Value)
<1>1. x \in Int /\ y \in Int /\ z \in Int /\ {"x", "y", "z"} \subseteq DOMAIN top.registers
  BY BinPlace DEF BinFrame
<1>2. top.block = "bin" /\ top.pc \in {1, 2}
  BY BinOp DEF insn, BinFrame
<1>3. x * y \in Int /\ x * y + z \in Int
  BY <1>1
<1>4. /\ IsFrame(g) /\ BinFrame(g)
      /\ g.registers["x"] = x /\ g.registers["y"] = y /\ g.registers["z"] = z
  <2>1. CASE top.pc = 1
    <3>1. insn = Instruction("mul", "ret1", <<Register("x"), Register("y")>>, "main")
      BY <1>2, <2>1, BinInstructions DEF insn
    <3>2. Value = Wrap(x * y)
      BY <3>1 DEF Value, Operand, Instruction, Register
    <3>3. Value \in Integer
      BY <1>3, <3>2, WrapType
    <3>4. code[top.block][top.pc].def = "ret1"
      BY <3>1 DEF insn, Instruction
    <3>5. /\ IsFrame(g) /\ g.block = "bin" /\ g.pc = 2 /\ Knows(g, "ret1", Wrap(x * y))
          /\ Knows(g, "x", x) /\ Knows(g, "y", y) /\ Knows(g, "z", z)
      BY <1>1, <1>2, <2>1, <3>2, <3>3, <3>4, DefinedFrame
    <3> HIDE DEF g
    <3>6. QED
      BY <3>5 DEF BinFrame, Knows
  <2>2. CASE top.pc = 2
    <3>1. insn = Instruction("add", "ret2", <<Register("ret1"), Register("z")>>, "main")
      BY <1>2, <2>2, BinInstructions DEF insn
    <3>2. top.registers["ret1"] = Wrap(x * y)
      BY <2>2 DEF BinFrame, Knows
    <3>3. Value = Wrap(Wrap(x * y) + z)
      BY <3>1, <3>2 DEF Value, Operand, Instruction, Register
    <3>4. Value = Wrap(x * y + z)
      BY <1>1, <1>3, <3>3, WrapSum
    <3>5. Value \in Integer
      BY <1>3, <3>4, WrapType
    <3>6. code[top.block][top.pc].def = "ret2"
      BY <3>1 DEF insn, Instruction
    <3>7. /\ IsFrame(g) /\ g.block = "bin" /\ g.pc = 3 /\ Knows(g, "ret2", Wrap(x * y + z))
          /\ Knows(g, "x", x) /\ Knows(g, "y", y) /\ Knows(g, "z", z)
      BY <1>1, <1>2, <2>2, <3>4, <3>5, <3>6, DefinedFrame
    <3> HIDE DEF g
    <3>8. QED
      BY <3>7 DEF BinFrame, Knows
  <2>3. QED
    BY <1>2, <2>1, <2>2
<1>5. SameCall(g, top)
  <2> HIDE DEF g
  <2> QED
    BY <1>4, BinPlace DEF SameCall
<1>6. QED
  BY <1>4, <1>5

LEMMA BinReturns ==
  ASSUME IsFrame(top), BinFrame(top), insn.op = "ret"
  PROVE  Operand(1) = Answer(top)
<1>1. top.block = "bin" /\ top.pc = 3
  BY BinOp DEF insn, BinFrame
<1>2. insn = Instruction("ret", "", <<Register("ret2")>>, "main")
  BY <1>1, BinInstructions DEF insn
<1>3. Operand(1) = top.registers["ret2"]
  BY <1>2 DEF Operand, Instruction, Register
<1>4. Knows(top, "ret2", Answer(top))
  BY <1>1, BinPlace DEF BinFrame
<1>5. QED
  BY <1>3, <1>4 DEF Knows

-----------------------------------------------------------------------------
(* A frame of any function.                                                *)

LEMMA Params ==
  /\ DOMAIN params = {"fact", "even", "odd", "bin"}
  /\ params["fact"] = <<"n">> /\ params["even"] = <<"num">> /\ params["odd"] = <<"num">>
  /\ params["bin"] = <<"x", "y", "z">>
  /\ DOMAIN params["fact"] = {1} /\ DOMAIN params["even"] = {1} /\ DOMAIN params["odd"] = {1}
  /\ DOMAIN params["bin"] = {1, 2, 3}
<1>1. /\ DOMAIN params = {"fact", "even", "odd", "bin"}
      /\ params["fact"] = <<"n">> /\ params["even"] = <<"num">> /\ params["odd"] = <<"num">>
      /\ params["bin"] = <<"x", "y", "z">>
  BY DEF params
<1>2. /\ DOMAIN params["fact"] = 1..1 /\ DOMAIN params["even"] = 1..1 /\ DOMAIN params["odd"] = 1..1
      /\ DOMAIN params["bin"] = 1..3
  BY <1>1, TupleElements
<1>3. 1..1 = {1} /\ 1..3 = {1, 2, 3}
  OBVIOUS
<1>4. QED
  BY <1>1, <1>2, <1>3

\* The registers of a function of one parameter are that parameter.
LEMMA OneParameter ==
  ASSUME NEW f \in DOMAIN params, NEW x, params[f] = <<x>>, DOMAIN params[f] = {1},
         NEW args, args[1] \in Integer
  PROVE  /\ IsFrame(Frame(f, args)) /\ Frame(f, args).block = f /\ Frame(f, args).pc = 1
         /\ Knows(Frame(f, args), x, args[1])
<1>1. params[f][1] = x
  OBVIOUS
<1>2. {params[f][i] : i \in DOMAIN params[f]} = {x}
  BY <1>1
<1>3. (CHOOSE i \in DOMAIN params[f] : params[f][i] = x) = 1
  BY <1>1
<1>4. Frame(f, args) = [block |-> f, pc |-> 1, registers |-> [y \in {x} |-> args[1]]]
  BY <1>2, <1>3 DEF Frame
<1>5. QED
  BY <1>4 DEF IsFrame, Knows

LEMMA ThreeParameters ==
  ASSUME NEW args, args[1] \in Integer, args[2] \in Integer, args[3] \in Integer
  PROVE  /\ IsFrame(Frame("bin", args)) /\ Frame("bin", args).block = "bin"
         /\ Frame("bin", args).pc = 1
         /\ Knows(Frame("bin", args), "x", args[1]) /\ Knows(Frame("bin", args), "y", args[2])
         /\ Knows(Frame("bin", args), "z", args[3])
<1> DEFINE f == "bin"
           at(x) == CHOOSE i \in DOMAIN params[f] : params[f][i] = x
<1>1. params[f][1] = "x" /\ params[f][2] = "y" /\ params[f][3] = "z" /\ DOMAIN params[f] = {1, 2, 3}
  BY Params
<1>2. {params[f][i] : i \in DOMAIN params[f]} = {"x", "y", "z"}
  BY <1>1
<1>3. at("x") = 1 /\ at("y") = 2 /\ at("z") = 3
  BY <1>1
<1>4. Frame(f, args) = [block |-> f, pc |-> 1, registers |-> [x \in {"x", "y", "z"} |-> args[at(x)]]]
  BY <1>2 DEF Frame
<1> HIDE DEF at
<1>5. QED
  BY <1>3, <1>4 DEF IsFrame, Knows

\* A new frame is at the start of its function, with its arguments.
LEMMA Entered ==
  ASSUME NEW f \in DOMAIN params, NEW args, \A i \in DOMAIN params[f] : args[i] \in Integer
  PROVE  /\ FrameInv(Frame(f, args))
         /\ Answer(Frame(f, args)) = Expected(f, args) /\ Need(Frame(f, args)) = Depth(f, args)
<1> DEFINE g == Frame(f, args)
<1>1. CASE f = "fact"
  <2>1. IsFrame(g) /\ g.block = "fact" /\ g.pc = 1 /\ Knows(g, "n", args[1])
    BY <1>1, Params, OneParameter
  <2> HIDE DEF g
  <2>2. FactFrame(g) /\ g.registers["n"] = args[1]
    BY <2>1 DEF FactFrame, Knows
  <2>3. FunctionOf(g.block) = f /\ ArgumentsOf(g) = <<args[1]>>
    BY <1>1, <2>1, <2>2, FactPlace
  <2>4. Answer(g) = Expected(f, args) /\ Need(g) = Depth(f, args)
    BY <1>1, <2>3 DEF Answer, Need, Expected, Depth
  <2>5. QED
    BY <2>1, <2>2, <2>4 DEF FrameInv, g
<1>2. CASE f \in {"even", "odd"}
  <2>1. PICK p \in Parities : p.me = f
    BY <1>2 DEF Parities, EvenNames, OddNames
  <2>2. params[f] = <<"num">> /\ DOMAIN params[f] = {1}
    BY <1>2, Params
  <2>3. IsFrame(g) /\ g.block = p.me /\ g.pc = 1 /\ Knows(g, "num", args[1])
    BY <2>1, <2>2, OneParameter
  <2> HIDE DEF g
  <2>4. ParityFrame(g, p) /\ g.registers["num"] = args[1]
    BY <2>3 DEF ParityFrame, Knows
  <2>5. FunctionOf(g.block) = f /\ ArgumentsOf(g) = <<args[1]>>
    BY <2>1, <2>3, <2>4, ParityPlace
  <2>6. Answer(g) = Expected(f, args) /\ Need(g) = Depth(f, args)
    BY <1>2, <2>5 DEF Answer, Need, Expected, Depth
  <2>7. QED
    BY <2>3, <2>4, <2>6 DEF FrameInv, g
<1>3. CASE f = "bin"
  <2>1. args[1] \in Integer /\ args[2] \in Integer /\ args[3] \in Integer
    BY <1>3, Params
  <2>2. /\ IsFrame(g) /\ g.block = "bin" /\ g.pc = 1
        /\ Knows(g, "x", args[1]) /\ Knows(g, "y", args[2]) /\ Knows(g, "z", args[3])
    BY <1>3, <2>1, ThreeParameters
  <2> HIDE DEF g
  <2>3. /\ BinFrame(g) /\ g.registers["x"] = args[1] /\ g.registers["y"] = args[2]
        /\ g.registers["z"] = args[3]
    BY <2>2 DEF BinFrame, Knows
  <2>4. Answer(g) = Wrap(args[1] * args[2] + args[3]) /\ Need(g) = 1
    BY <2>2, <2>3, BinPlace
  <2>5. Expected(f, args) = Wrap(args[1] * args[2] + args[3]) /\ Depth(f, args) = 1
    BY <1>3 DEF Expected, Depth
  <2>6. QED
    BY <2>2, <2>3, <2>4, <2>5 DEF FrameInv, g
<1>4. QED
  BY <1>1, <1>2, <1>3, Params

LEMMA DepthStep ==
  /\ \A x \in Integer : x > 1 => Depth("fact", <<x - 1>>) = Depth("fact", <<x>>) - 1
  /\ \A p \in Parities, x \in Integer :
       x # 0 => Depth(p.other, <<Wrap(x - 1)>>) = Depth(p.me, <<x>>) - 1
<1>1. \A x \in Integer : x > 1 => Depth("fact", <<x - 1>>) = Depth("fact", <<x>>) - 1
  BY IntegerType DEF Depth
<1>2. ASSUME NEW p \in Parities, NEW x \in Integer, x # 0
      PROVE  Depth(p.other, <<Wrap(x - 1)>>) = Depth(p.me, <<x>>) - 1
  <2> DEFINE y == Wrap(x - 1)
  <2>1. x \in Int /\ y = IF x = -Half THEN Half - 1 ELSE x - 1
    BY IntegerType, WrapLess
  <2>2. y \in Integer
    BY <1>2, ParityValues
  <2>3. /\ x % Modulus = IF x < 0 THEN x + Modulus ELSE x
        /\ y % Modulus = IF y < 0 THEN y + Modulus ELSE y
    BY <2>2, ModInteger
  <2>4. Depth(p.other, <<y>>) = (y % Modulus) + 1 /\ Depth(p.me, <<x>>) = (x % Modulus) + 1
    BY DEF Depth, Parities, EvenNames, OddNames
  <2> HIDE DEF y
  <2>5. y % Modulus = (x % Modulus) - 1 /\ x % Modulus \in Int
    BY <1>2, <2>1, <2>3, Halves
  <2>6. QED
    BY <2>4, <2>5 DEF y
<1>3. QED
  BY <1>1, <1>2

\* What a call returns is an integer, and it needs a frame at least.
LEMMA AnswerType ==
  ASSUME NEW fr, FrameInv(fr)
  PROVE  Answer(fr) \in Integer /\ Need(fr) \in Nat /\ Need(fr) >= 1
<1>1. CASE FactFrame(fr)
  <2>1. fr.registers["n"] \in Integer /\ fr.registers["n"] \in Int
    BY <1>1, FactPlace DEF FrameInv
  <2>2. /\ Answer(fr) = Expected("fact", <<fr.registers["n"]>>)
        /\ Need(fr) = Depth("fact", <<fr.registers["n"]>>)
    BY <1>1, FactPlace DEF Answer, Need, FrameInv
  <2>3. QED
    BY <2>1, <2>2, ExpectedType DEF Depth
<1>2. ASSUME NEW p \in Parities, ParityFrame(fr, p)
      PROVE  Answer(fr) \in Integer /\ Need(fr) \in Nat /\ Need(fr) >= 1
  <2> DEFINE x == fr.registers["num"]
  <2>1. x \in Integer /\ FunctionOf(fr.block) = p.me /\ ArgumentsOf(fr) = <<x>>
    BY <1>2, ParityPlace DEF FrameInv
  <2>2. Answer(fr) = Expected(p.me, <<x>>) /\ Need(fr) = (x % Modulus) + 1
    BY <2>1 DEF Answer, Need, Depth, Parities, EvenNames, OddNames
  <2>3. x % Modulus \in Nat
    BY <2>1, ModInteger, Halves DEF Integer
  <2>4. QED
    BY <2>1, <2>2, <2>3, ParityValues
<1>3. CASE BinFrame(fr)
  <2>1. /\ fr.registers["x"] \in Int /\ fr.registers["y"] \in Int /\ fr.registers["z"] \in Int
        /\ Answer(fr) = Wrap(fr.registers["x"] * fr.registers["y"] + fr.registers["z"])
        /\ Need(fr) = 1
    BY <1>3, BinPlace DEF FrameInv
  <2>2. fr.registers["x"] * fr.registers["y"] + fr.registers["z"] \in Int
    BY <2>1
  <2>3. QED
    BY <2>1, <2>2, WrapType
<1>4. QED
  BY <1>1, <1>2, <1>3 DEF FrameInv

\* Frame fr is at the call that frame g runs.
WaitsFor(fr, g) ==
  LET i == code[fr.block][fr.pc] IN
  /\ i.op = "call"
  /\ Answer(g) = Expected(i.callee, <<fr.registers[i.operands[1].name]>>)
  /\ Need(g) = Need(fr) - 1

\* Frames that stand in the same call.
LEMMA SameCallSame ==
  ASSUME NEW f, NEW g, SameCall(f, g)
  PROVE  /\ Answer(f) = Answer(g) /\ Need(f) = Need(g)
         /\ \A fr : WaitsFor(fr, g) => WaitsFor(fr, f)
<1>1. Answer(f) = Answer(g) /\ Need(f) = Need(g)
  BY DEF SameCall, Answer, Need
<1>2. QED
  BY <1>1 DEF WaitsFor

LEMMA FramePlace ==
  ASSUME NEW fr, FrameInv(fr)
  PROVE  /\ IsFrame(fr) /\ fr.block \in DOMAIN code /\ fr.pc \in DOMAIN code[fr.block]
<1>1. CASE FactFrame(fr)
  BY <1>1, FactOp DEF FrameInv
<1>2. ASSUME NEW p \in Parities, ParityFrame(fr, p)
      PROVE  fr.block \in DOMAIN code /\ fr.pc \in DOMAIN code[fr.block]
  BY <1>2, ParityOp
<1>3. CASE BinFrame(fr)
  BY <1>3, BinOp DEF FrameInv
<1>4. QED
  BY <1>1, <1>2, <1>3 DEF FrameInv

LEMMA Computes ==
  ASSUME FrameInv(top), insn.op \in {"add", "sub", "mul", "eq", "sle"}
  PROVE  FrameInv(Defined(top, Value)) /\ SameCall(Defined(top, Value), top)
<1> DEFINE g == Defined(top, Value)
<1>1. CASE FactFrame(top)
  <2>1. IsFrame(g) /\ FactFrame(g) /\ SameCall(g, top)
    BY <1>1, FactComputes DEF FrameInv
  <2>2. QED
    BY <2>1 DEF FrameInv
<1>2. ASSUME NEW p \in Parities, ParityFrame(top, p)
      PROVE  FrameInv(g) /\ SameCall(g, top)
  <2>1. IsFrame(g) /\ ParityFrame(g, p) /\ SameCall(g, top)
    BY <1>2, ParityComputes DEF FrameInv
  <2>2. QED
    BY <2>1 DEF FrameInv
<1>3. CASE BinFrame(top)
  <2>1. IsFrame(g) /\ BinFrame(g) /\ SameCall(g, top)
    BY <1>3, BinComputes DEF FrameInv
  <2>2. QED
    BY <2>1 DEF FrameInv
<1>4. QED
  BY <1>1, <1>2, <1>3 DEF FrameInv

\* The frame a branch leaves.
Target ==
  [block |-> insn.targets[IF top.registers[insn.cond] = 1 THEN 1 ELSE 2],
   pc |-> 1, registers |-> top.registers]

LEMMA Branches ==
  ASSUME FrameInv(top), insn.op = "br"
  PROVE  FrameInv(Target) /\ SameCall(Target, top)
<1>1. CASE FactFrame(top)
  <2>1. IsFrame(Target) /\ FactFrame(Target) /\ SameCall(Target, top)
    BY <1>1, FactBranches DEF FrameInv, Target
  <2>2. QED
    BY <2>1 DEF FrameInv
<1>2. ASSUME NEW p \in Parities, ParityFrame(top, p)
      PROVE  FrameInv(Target) /\ SameCall(Target, top)
  <2>1. IsFrame(Target) /\ ParityFrame(Target, p) /\ SameCall(Target, top)
    BY <1>2, ParityBranches DEF FrameInv, Target
  <2>2. QED
    BY <2>1 DEF FrameInv
<1>3. ~BinFrame(top)
  BY BinOp DEF insn
<1>4. QED
  BY <1>1, <1>2, <1>3 DEF FrameInv

\* The frame a call enters.
Entry == Frame(insn.callee, [i \in DOMAIN insn.operands |-> Operand(i)])

\* A call of a function of one parameter.
LEMMA CallsEntry ==
  ASSUME NEW f \in {"fact", "even", "odd"}, NEW x \in Integer, Calls(top, f, x),
         Depth(f, <<x>>) = Need(top) - 1
  PROVE  FrameInv(Entry) /\ WaitsFor(top, Entry)
<1> DEFINE i == insn.operands[1]
           args == [j \in DOMAIN insn.operands |-> Operand(j)]
<1>1. /\ insn.op = "call" /\ insn.callee = f /\ DOMAIN insn.operands = {1}
      /\ i.kind = "name" /\ top.registers[i.name] = x
  BY DEF Calls, Knows, insn
<1>2. Operand(1) = x
  BY <1>1 DEF Operand
<1>3. args[1] = x
  BY <1>1, <1>2
<1>4. f \in DOMAIN params /\ DOMAIN params[f] = {1}
  BY Params
<1>5. Entry = Frame(f, args)
  BY <1>1 DEF Entry
<1>6. Expected(f, args) = Expected(f, <<x>>) /\ Depth(f, args) = Depth(f, <<x>>)
  <2> HIDE DEF args
  <2>1. QED
    BY <1>3 DEF Expected, Depth
<1>7. /\ FrameInv(Entry) /\ Answer(Entry) = Expected(f, <<x>>)
      /\ Need(Entry) = Depth(f, <<x>>)
  <2> HIDE DEF args
  <2>1. QED
    BY <1>3, <1>4, <1>5, <1>6, Entered
<1>8. QED
  BY <1>1, <1>7 DEF WaitsFor, insn

LEMMA Enters ==
  ASSUME FrameInv(top), insn.op = "call"
  PROVE  FrameInv(Entry) /\ WaitsFor(top, Entry)
<1>1. CASE FactFrame(top)
  <2> DEFINE x == top.registers["n"]
  <2>1. x \in Integer /\ x > 1 /\ x - 1 \in Integer /\ Calls(top, "fact", x - 1)
    BY <1>1, FactPlace, FactCalls DEF FrameInv, insn
  <2>2. Need(top) = Depth("fact", <<x>>)
    BY <1>1, FactPlace DEF Need, FrameInv
  <2> HIDE DEF x
  <2>3. Depth("fact", <<x - 1>>) = Need(top) - 1
    BY <2>1, <2>2, DepthStep
  <2>4. QED
    BY <2>1, <2>3, CallsEntry
<1>2. ASSUME NEW p \in Parities, ParityFrame(top, p)
      PROVE  FrameInv(Entry) /\ WaitsFor(top, Entry)
  <2> DEFINE x == top.registers["num"]
             y == Wrap(x - 1)
  <2>1. x \in Integer /\ x # 0 /\ y \in Integer /\ Calls(top, p.other, y)
    BY <1>2, ParityPlace, ParityCalls DEF FrameInv, insn
  <2>2. Need(top) = Depth(p.me, <<x>>)
    BY <1>2, ParityPlace DEF Need, FrameInv
  <2>3. Depth(p.other, <<y>>) = Need(top) - 1
    BY <2>1, <2>2, DepthStep
  <2>4. p.other \in {"fact", "even", "odd"}
    BY DEF Parities, EvenNames, OddNames
  <2> HIDE DEF y
  <2>5. QED
    BY <2>1, <2>3, <2>4, CallsEntry
<1>3. ~BinFrame(top)
  BY BinOp DEF insn
<1>4. QED
  BY <1>1, <1>2, <1>3 DEF FrameInv

LEMMA Returned ==
  ASSUME FrameInv(top), insn.op = "ret"
  PROVE  Operand(1) = Answer(top)
<1>1. CASE FactFrame(top)
  BY <1>1, FactReturns DEF FrameInv
<1>2. ASSUME NEW p \in Parities, ParityFrame(top, p)
      PROVE  Operand(1) = Answer(top)
  BY <1>2, ParityReturns DEF FrameInv
<1>3. CASE BinFrame(top)
  BY <1>3, BinReturns DEF FrameInv
<1>4. QED
  BY <1>1, <1>2, <1>3 DEF FrameInv

\* What a call is waited for with is what the caller goes on with.
LEMMA Resumes ==
  ASSUME NEW fr, FrameInv(fr), NEW g, WaitsFor(fr, g)
  PROVE  FrameInv(Defined(fr, Answer(g))) /\ SameCall(Defined(fr, Answer(g)), fr)
<1> DEFINE i == code[fr.block][fr.pc]
           v == Answer(g)
           h == Defined(fr, v)
<1>1. i.op = "call" /\ v = Expected(i.callee, <<fr.registers[i.operands[1].name]>>) /\ IsFrame(fr)
  BY DEF WaitsFor, FrameInv
<1>2. CASE FactFrame(fr)
  <2>1. Calls(fr, "fact", fr.registers["n"] - 1)
    BY <1>1, <1>2, FactCalls
  <2>2. v = Expected("fact", <<fr.registers["n"] - 1>>)
    BY <1>1, <2>1 DEF Calls, Knows
  <2>3. IsFrame(h) /\ FactFrame(h) /\ SameCall(h, fr)
    BY <1>1, <1>2, <2>2, FactResumes
  <2>4. QED
    BY <2>3 DEF FrameInv
<1>3. ASSUME NEW p \in Parities, ParityFrame(fr, p)
      PROVE  FrameInv(h) /\ SameCall(h, fr)
  <2>1. Calls(fr, p.other, Wrap(fr.registers["num"] - 1))
    BY <1>1, <1>3, ParityCalls
  <2>2. v = Expected(p.other, <<Wrap(fr.registers["num"] - 1)>>)
    BY <1>1, <2>1 DEF Calls, Knows
  <2>3. IsFrame(h) /\ ParityFrame(h, p) /\ SameCall(h, fr)
    BY <1>1, <1>3, <2>2, ParityResumes
  <2>4. QED
    BY <2>3 DEF FrameInv
<1>4. ~BinFrame(fr)
  BY <1>1, BinOp
<1>5. QED
  BY <1>2, <1>3, <1>4 DEF FrameInv

-----------------------------------------------------------------------------
(* The stack: every frame waits for the one above it, down from the call    *)
(* that is run.                                                             *)

IsStack(s, f, args) ==
  /\ s \in Seq({s[k] : k \in DOMAIN s})
  /\ \A k \in 1..Len(s) : FrameInv(s[k]) /\ Need(s[k]) + k = Depth(f, args) + 1
  /\ \A k \in 1..Len(s) - 1 : WaitsFor(s[k], s[k + 1])
  /\ s # <<>> => Answer(s[1]) = Expected(f, args)

LEMMA SeqOfOwn ==
  ASSUME NEW S, NEW s \in Seq(S)
  PROVE  s \in Seq({s[k] : k \in DOMAIN s})
<1>1. s \in [1..Len(s) -> S] /\ Len(s) \in Nat
  OBVIOUS
<1>2. s \in [1..Len(s) -> {s[k] : k \in DOMAIN s}]
  BY <1>1
<1>3. QED
  BY <1>1, <1>2

LEMMA SomeFrames ==
  ASSUME NEW s, NEW f, NEW args, IsStack(s, f, args), s # <<>>
  PROVE  /\ Len(s) \in Nat \ {0} /\ DOMAIN s = 1..Len(s)
         /\ FrameInv(s[Len(s)]) /\ Need(s[Len(s)]) + Len(s) = Depth(f, args) + 1
<1>1. Len(s) \in Nat /\ DOMAIN s = 1..Len(s) /\ Len(s) # 0
  BY DEF IsStack
<1>2. QED
  BY <1>1 DEF IsStack

LEMMA Popped ==
  ASSUME NEW s, NEW f, NEW args, IsStack(s, f, args), s # <<>>
  PROVE  LET b == SubSeq(s, 1, Len(s) - 1)
         IN /\ IsStack(b, f, args) /\ Len(b) = Len(s) - 1
            /\ \A k \in 1..Len(s) - 1 : b[k] = s[k]
<1> DEFINE b == SubSeq(s, 1, Len(s) - 1)
<1>1. Len(s) \in Nat \ {0} /\ DOMAIN s = 1..Len(s)
  BY SomeFrames
<1>2. PICK S : s \in Seq(S)
  BY DEF IsStack
<1>3. /\ b \in Seq(S) /\ Len(b) = Len(s) - 1
      /\ \A k \in 1..Len(s) - 1 : b[k] = s[k]
  BY <1>1, <1>2
<1>4. b \in Seq({b[k] : k \in DOMAIN b})
  BY <1>3, SeqOfOwn
<1> HIDE DEF b
<1>5. \A k \in 1..Len(b) : FrameInv(b[k]) /\ Need(b[k]) + k = Depth(f, args) + 1
  BY <1>1, <1>3 DEF IsStack
<1>6. \A k \in 1..Len(b) - 1 : WaitsFor(b[k], b[k + 1])
  <2>1. TAKE k \in 1..Len(b) - 1
  <2>2. k \in 1..Len(s) - 1 /\ k + 1 \in 1..Len(s) - 1
    BY <1>1, <1>3
  <2>3. QED
    BY <1>3, <2>2 DEF IsStack
<1>7. b # <<>> => Answer(b[1]) = Expected(f, args)
  <2>1. b # <<>> => 1 \in 1..Len(s) - 1
    BY <1>1, <1>3
  <2>2. QED
    BY <1>3, <2>1 DEF IsStack
<1>8. QED
  BY <1>3, <1>4, <1>5, <1>6, <1>7 DEF IsStack, b

LEMMA Pushed ==
  ASSUME NEW s, NEW f, NEW args, IsStack(s, f, args), s # <<>>,
         NEW g, FrameInv(g), WaitsFor(s[Len(s)], g)
  PROVE  IsStack(Append(s, g), f, args)
<1> DEFINE t == Append(s, g)
<1>1. Len(s) \in Nat \ {0} /\ DOMAIN s = 1..Len(s)
  BY SomeFrames
<1>2. PICK S : s \in Seq(S)
  BY DEF IsStack
<1>3. s \in Seq(S \cup {g})
  BY <1>2
<1>4. /\ t \in Seq(S \cup {g}) /\ Len(t) = Len(s) + 1 /\ t[Len(s) + 1] = g
      /\ \A k \in 1..Len(s) : t[k] = s[k]
  BY <1>1, <1>3
<1>5. t \in Seq({t[k] : k \in DOMAIN t})
  BY <1>4, SeqOfOwn
<1> HIDE DEF t
<1>6. \A k \in 1..Len(t) : FrameInv(t[k]) /\ Need(t[k]) + k = Depth(f, args) + 1
  <2>1. TAKE k \in 1..Len(t)
  <2>2. CASE k \in 1..Len(s)
    BY <1>4, <2>2 DEF IsStack
  <2>3. CASE k = Len(s) + 1
    <3>1. Need(g) = Need(s[Len(s)]) - 1 /\ Need(s[Len(s)]) \in Nat
      BY <1>1, SomeFrames, AnswerType DEF WaitsFor
    <3>2. Need(s[Len(s)]) + Len(s) = Depth(f, args) + 1
      BY SomeFrames
    <3>3. Need(g) + k = Depth(f, args) + 1
      BY <1>1, <2>3, <3>1, <3>2
    <3>4. QED
      BY <1>4, <2>3, <3>3
  <2>4. QED
    BY <1>1, <1>4, <2>2, <2>3
<1>7. \A k \in 1..Len(t) - 1 : WaitsFor(t[k], t[k + 1])
  <2>1. TAKE k \in 1..Len(t) - 1
  <2>2. CASE k = Len(s)
    BY <1>1, <1>4, <2>2
  <2>3. CASE k # Len(s)
    <3>1. Len(t) - 1 = Len(s) /\ k \in 1..Len(s)
      BY <1>1, <1>4
    <3>2. k \in 1..Len(s) - 1 /\ k + 1 \in 1..Len(s)
      <4>1. \A m \in Nat : \A j \in 1..m : j # m => j \in 1..m - 1 /\ j + 1 \in 1..m
        OBVIOUS
      <4>2. QED
        BY <1>1, <2>3, <3>1, <4>1
    <3>3. QED
      BY <1>4, <3>1, <3>2 DEF IsStack
  <2>4. QED
    BY <2>2, <2>3
<1>8. Answer(t[1]) = Expected(f, args)
  BY <1>1, <1>4 DEF IsStack
<1>9. QED
  BY <1>5, <1>6, <1>7, <1>8 DEF IsStack, t

\* The topmost frame is replaced by one of the same call.
LEMMA Replaced ==
  ASSUME NEW s, NEW f, NEW args, IsStack(s, f, args), s # <<>>,
         NEW g, FrameInv(g), SameCall(g, s[Len(s)])
  PROVE  IsStack(Append(SubSeq(s, 1, Len(s) - 1), g), f, args)
<1> DEFINE b == SubSeq(s, 1, Len(s) - 1)
<1>1. Len(s) \in Nat \ {0} /\ DOMAIN s = 1..Len(s)
  BY SomeFrames
<1>2. /\ IsStack(b, f, args) /\ Len(b) = Len(s) - 1
      /\ \A k \in 1..Len(s) - 1 : b[k] = s[k]
  BY Popped
<1> HIDE DEF b
<1>3. CASE b # <<>>
  <2>1. Len(b) \in 1..Len(s) - 1 /\ Len(b) + 1 = Len(s)
    BY <1>1, <1>2, <1>3, SomeFrames
  <2>2. WaitsFor(s[Len(b)], s[Len(s)]) /\ b[Len(b)] = s[Len(b)]
    BY <1>2, <2>1 DEF IsStack
  <2>3. WaitsFor(b[Len(b)], g)
    BY <2>2, SameCallSame
  <2>4. IsStack(Append(b, g), f, args)
    BY <1>2, <1>3, <2>3, Pushed
  <2>5. QED
    BY <2>4 DEF b
<1>4. CASE b = <<>>
  <2>1. Len(s) = 1
    <3>1. Len(b) = 0
      BY <1>4
    <3>2. \A m \in Nat : m - 1 = 0 => m = 1
      OBVIOUS
    <3>3. QED
      BY <1>1, <1>2, <3>1, <3>2
  <2> DEFINE t == <<g>>
  <2>2. Append(b, g) = t /\ Len(t) = 1 /\ t[1] = g /\ t \in Seq({g})
    BY <1>4
  <2>3. t \in Seq({t[k] : k \in DOMAIN t})
    BY <2>2, SeqOfOwn
  <2>4. /\ Need(g) = Need(s[1]) /\ Answer(g) = Answer(s[1])
        /\ Need(s[1]) + 1 = Depth(f, args) + 1 /\ Answer(s[1]) = Expected(f, args)
    BY <2>1, SomeFrames, SameCallSame DEF IsStack
  <2> HIDE DEF t
  <2>5. IsStack(t, f, args)
    BY <2>2, <2>3, <2>4 DEF IsStack
  <2>6. QED
    BY <2>2, <2>5 DEF b
<1>5. QED
  BY <1>3, <1>4

-----------------------------------------------------------------------------
(* The machine.                                                            *)

StackInv ==
  /\ called \in DOMAIN params
  /\ arguments \in [DOMAIN params[called] -> Integer]
  /\ IsStack(stack, called, arguments)
  /\ result # None =>
       stack = <<>> /\ result \in Integer /\ result = Expected(called, arguments)

\* The call that is run needs a frame, and returns an integer.
LEMMA RunType ==
  ASSUME NEW f \in DOMAIN params, NEW args \in [DOMAIN params[f] -> Integer]
  PROVE  Depth(f, args) \in Nat /\ Depth(f, args) >= 1
BY Entered, AnswerType

LEMMA InitStackInv == Init => StackInv
<1> SUFFICES ASSUME Init PROVE StackInv
  OBVIOUS
<1> DEFINE g == Frame(called, arguments)
           d == Depth(called, arguments)
<1>1. /\ called \in DOMAIN params /\ arguments \in [DOMAIN params[called] -> Integer]
      /\ result = None /\ stack = <<g>>
  BY DEF Init
<1>2. FrameInv(g) /\ Answer(g) = Expected(called, arguments) /\ Need(g) = d
  BY <1>1, Entered
<1>3. d \in Nat
  BY <1>1, RunType
<1> HIDE DEF g, d
<1>4. Len(stack) = 1 /\ stack[1] = g /\ stack \in Seq({g})
  BY <1>1
<1>5. stack \in Seq({stack[k] : k \in DOMAIN stack})
  BY <1>4, SeqOfOwn
<1>6. IsStack(stack, called, arguments)
  BY <1>2, <1>3, <1>4, <1>5 DEF IsStack, d
<1>7. QED
  BY <1>1, <1>6 DEF StackInv

LEMMA NextStackInv == StackInv /\ [Next]_vars => StackInv'
<1> SUFFICES ASSUME StackInv, [Next]_vars PROVE StackInv'
  OBVIOUS
<1>1. ASSUME stack # <<>>
      PROVE  /\ FrameInv(top) /\ result = None
             /\ IsStack(below, called, arguments) /\ Len(below) = Len(stack) - 1
             /\ Len(stack) \in Nat /\ \A k \in 1..Len(stack) - 1 : below[k] = stack[k]
  BY <1>1, SomeFrames, Popped DEF StackInv, top, below
<1>2. ASSUME called' = called, arguments' = arguments, result' = None,
             IsStack(stack', called, arguments)
      PROVE  StackInv'
  BY <1>2 DEF StackInv
<1>3. CASE Compute
  <2>1. stack # <<>> /\ insn.op \in {"add", "sub", "mul", "eq", "sle"}
    BY <1>3 DEF Compute, AtOp
  <2>2. FrameInv(Defined(top, Value)) /\ SameCall(Defined(top, Value), top)
    BY <1>1, <2>1, Computes
  <2>3. IsStack(Append(below, Defined(top, Value)), called, arguments)
    BY <2>1, <2>2, Replaced DEF StackInv, top, below
  <2>4. QED
    BY <1>1, <1>2, <1>3, <2>1, <2>3 DEF Compute
<1>4. CASE Branch
  <2>1. stack # <<>> /\ insn.op = "br"
    BY <1>4 DEF Branch, AtOp
  <2>2. FrameInv(Target) /\ SameCall(Target, top)
    BY <1>1, <2>1, Branches
  <2>3. IsStack(Append(below, Target), called, arguments)
    BY <2>1, <2>2, Replaced DEF StackInv, top, below
  <2>4. stack' = Append(below, Target)
    BY <1>4 DEF Branch, Target
  <2>5. QED
    BY <1>1, <1>2, <1>4, <2>1, <2>3, <2>4 DEF Branch
<1>5. CASE Call
  <2>1. stack # <<>> /\ insn.op = "call"
    BY <1>5 DEF Call, AtOp
  <2>2. FrameInv(Entry) /\ WaitsFor(top, Entry)
    BY <1>1, <2>1, Enters
  <2>3. IsStack(Append(stack, Entry), called, arguments)
    BY <2>1, <2>2, Pushed DEF StackInv, top
  <2>4. stack' = Append(stack, Entry)
    BY <1>5 DEF Call, Entry
  <2>5. QED
    BY <1>1, <1>2, <1>5, <2>1, <2>3, <2>4 DEF Call
<1>6. CASE Return
  <2>1. stack # <<>> /\ insn.op = "ret"
    BY <1>6 DEF Return, AtOp
  <2>2. Operand(1) = Answer(top)
    BY <1>1, <2>1, Returned
  <2>3. CASE below = <<>>
    <3>1. stack' = <<>> /\ result' = Answer(top) /\ called' = called /\ arguments' = arguments
      BY <1>6, <2>2, <2>3 DEF Return
    <3>2. Len(stack) = 1
      <4>1. Len(below) = 0
        BY <2>3
      <4>2. QED
        BY <1>1, <2>1, <4>1
    <3>3. Answer(top) = Expected(called, arguments) /\ Answer(top) \in Integer
      BY <1>1, <2>1, <3>2, AnswerType DEF StackInv, IsStack, top
    <3>4. IsStack(stack', called, arguments)
      BY <1>1, <2>1, <2>3, <3>1
    <3>5. QED
      BY <3>1, <3>3, <3>4 DEF StackInv
  <2>4. CASE below # <<>>
    <3> DEFINE m == Len(below)
               h == Defined(below[m], Answer(top))
    <3>1. m \in Nat \ {0} /\ FrameInv(below[m]) /\ DOMAIN below = 1..m
      BY <1>1, <2>1, <2>4, SomeFrames
    <3>2. m \in 1..Len(stack) - 1 /\ m + 1 = Len(stack)
      BY <1>1, <2>1, <3>1
    <3>3. WaitsFor(stack[m], stack[m + 1])
      BY <3>2 DEF StackInv, IsStack
    <3>4. WaitsFor(below[m], top)
      BY <1>1, <2>1, <3>2, <3>3 DEF top
    <3>5. FrameInv(h) /\ SameCall(h, below[m])
      BY <3>1, <3>4, Resumes
    <3>6. stack' = [below EXCEPT ![m] = h]
      BY <1>6, <2>2, <2>4 DEF Return
    <3> HIDE DEF h
    <3>7. [below EXCEPT ![m] = h] = Append(SubSeq(below, 1, m - 1), h)
      <4>1. PICK S : below \in Seq(S)
        BY <1>1, <2>1 DEF IsStack
      <4> DEFINE c == SubSeq(below, 1, m - 1)
      <4> HIDE DEF m
      <4>2. /\ c \in Seq(S) /\ Len(c) = m - 1
            /\ \A k \in 1..m - 1 : c[k] = below[k]
        BY <3>1, <4>1 DEF m
      <4>3. c \in Seq(S \cup {h})
        BY <4>2
      <4> HIDE DEF c
      <4>4. /\ Append(c, h) \in Seq(S \cup {h}) /\ Len(Append(c, h)) = m
            /\ Append(c, h)[m] = h /\ \A k \in 1..m - 1 : Append(c, h)[k] = below[k]
        BY <3>1, <4>2, <4>3
      <4>5. /\ [below EXCEPT ![m] = h] \in Seq(S \cup {h})
            /\ Len([below EXCEPT ![m] = h]) = m
        BY <3>1, <4>1 DEF m
      <4>6. \A k \in 1..m : [below EXCEPT ![m] = h][k] = Append(c, h)[k]
        BY <3>1, <4>4
      <4>7. QED
        BY <4>4, <4>5, <4>6, SeqEqual DEF c
    <3>8. IsStack(stack', called, arguments)
      <4>1. IsStack(below, called, arguments)
        BY <1>1, <2>1
      <4>2. IsStack(Append(SubSeq(below, 1, m - 1), h), called, arguments)
        BY <2>4, <3>5, <4>1, Replaced
      <4>3. QED
        BY <3>6, <3>7, <4>2
    <3>9. called' = called /\ arguments' = arguments /\ result' = result
      BY <1>6, <2>4 DEF Return
    <3>10. QED
      BY <1>1, <1>2, <2>1, <3>8, <3>9
  <2>5. QED
    BY <2>3, <2>4
<1>7. CASE Stutter
  BY <1>7 DEF Stutter, vars, StackInv
<1>8. CASE UNCHANGED vars
  BY <1>8 DEF vars, StackInv
<1>9. QED
  BY <1>3, <1>4, <1>5, <1>6, <1>7, <1>8 DEF Next

LEMMA StackInvTypeOK == StackInv => TypeOK
<1> SUFFICES ASSUME StackInv PROVE TypeOK
  OBVIOUS
<1>1. result \in Integer \cup {None}
  BY DEF StackInv
<1>2. ASSUME NEW k \in DOMAIN stack
      PROVE  /\ stack[k].block \in DOMAIN code
             /\ stack[k].pc \in DOMAIN code[stack[k].block]
             /\ stack[k].registers \in [DOMAIN stack[k].registers -> Integer]
  <2>1. FrameInv(stack[k])
    BY DEF StackInv, IsStack
  <2>2. QED
    BY <2>1, FramePlace DEF IsFrame
<1>3. QED
  BY <1>1, <1>2 DEF StackInv, TypeOK

LEMMA StackInvDepth == StackInv => DepthBounded
<1> SUFFICES ASSUME StackInv PROVE DepthBounded
  OBVIOUS
<1> DEFINE d == Depth(called, arguments)
<1>1. d \in Nat
  BY RunType DEF StackInv
<1>2. CASE stack = <<>>
  BY <1>1, <1>2 DEF DepthBounded
<1>3. CASE stack # <<>>
  <2> DEFINE need == Need(stack[Len(stack)])
  <2>1. Len(stack) \in Nat /\ need + Len(stack) = d + 1
    BY <1>3, SomeFrames DEF StackInv
  <2>2. need \in Nat /\ need >= 1
    BY <1>3, SomeFrames, AnswerType DEF StackInv
  <2> HIDE DEF need, d
  <2>3. Len(stack) <= d
    BY <1>1, <2>1, <2>2
  <2>4. QED
    BY <2>3 DEF DepthBounded, d
<1>4. QED
  BY <1>2, <1>3

\* The machine always has an instruction of the built code to run, with integers
\* in its registers, and returns an integer.
THEOREM TypeCorrect == Spec => []TypeOK
<1>1. StackInv /\ [Next]_vars => StackInv'
  BY NextStackInv
<1>2. QED
  BY InitStackInv, StackInvTypeOK, <1>1, PTL DEF Spec

\* fact, even, odd and bin return what their names say (n! as it wraps around,
\* the parity of every integer, x * y + z), however many integers the machine has.
THEOREM FunctionsCorrect == Spec => []Correct
<1>1. StackInv /\ [Next]_vars => StackInv'
  BY NextStackInv
<1>2. StackInv => Correct
  BY DEF StackInv, Correct
<1>3. QED
  BY InitStackInv, <1>1, <1>2, PTL DEF Spec

\* The recursion never takes more frames than the argument is away from zero,
\* counting down through the least integer.
THEOREM RecursionBounded == Spec => []DepthBounded
<1>1. StackInv /\ [Next]_vars => StackInv'
  BY NextStackInv
<1>2. QED
  BY InitStackInv, StackInvDepth, <1>1, PTL DEF Spec
=============================================================================
