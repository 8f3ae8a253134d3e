----------------------------- MODULE TextProofs -----------------------------
(***************************************************************************)
(* The two rules about texts, for every number, every length of the buffer *)
(* and every alphabet.  Recursion over the naturals is reasoned about with *)
(* sets: a set that contains each number all of whose predecessors it      *)
(* contains is all of Nat.                                                 *)
(***************************************************************************)
EXTENDS MCStartup, SequenceTheorems, WellFoundedInduction, TLAPS

-----------------------------------------------------------------------------
(***************************************************************************)
(* Least numbers.                                                          *)
(***************************************************************************)

\* Every set of naturals that is not empty has a least element.
LEMMA Least ==
  ASSUME NEW T \in SUBSET Nat, T # {}
  PROVE  \E x \in T : \A y \in T : x <= y
<1> DEFINE R == OpToRel(<, Nat)
<1>1. IsWellFoundedOn(R, Nat)
  BY NatLessThanWellFounded
<1>2. \A x, y \in Nat : x < y => <<x, y>> \in R
  BY DEF OpToRel
<1> HIDE DEF R
<1>3. PICK x \in T : \A y \in T : ~ (<<y, x>> \in R)
  BY <1>1, WFMin
<1>4. \A y \in T : ~ (y < x)
  BY <1>2, <1>3
<1> QED BY <1>4

LEMMA MinIsLeast ==
  ASSUME NEW T \in SUBSET Nat, T # {}
  PROVE  Min(T) \in T /\ \A y \in T : Min(T) <= y
BY Least DEF Min

\* Induction, of a set instead of an operator.
LEMMA Inductive ==
  ASSUME NEW T, \A n \in Nat : (\A m \in Nat : m < n => m \in T) => n \in T
  PROVE  Nat \subseteq T
<1> DEFINE Out == {n \in Nat : n \notin T}
<1> SUFFICES ASSUME Out # {} PROVE FALSE
  OBVIOUS
<1>1. PICK x \in Out : \A y \in Out : x <= y
  BY Least
<1>2. \A m \in Nat : m < x => m \in T
  BY <1>1
<1> QED BY <1>1, <1>2

-----------------------------------------------------------------------------
(***************************************************************************)
(* The recursive function Decimal is defined.                              *)
(***************************************************************************)

\* What Decimal[n] is, given what f says of smaller numbers.
Digits(f, n) ==
  IF n < 10 THEN <<48 + n>> ELSE Append(f[n \div 10], 48 + (n % 10))

\* f says so of the numbers up to n.
DigitsUpTo(f, n) == f = [m \in 0..n |-> Digits(f, m)]

LEMMA Tenth ==
  ASSUME NEW n \in Nat, n >= 10
  PROVE  n \div 10 \in Nat /\ n \div 10 < n /\ n \div 10 > 0
OBVIOUS

LEMMA DigitsAt ==
  ASSUME NEW f, NEW n \in Nat, DigitsUpTo(f, n), NEW m \in Nat, m <= n
  PROVE  f[m] = Digits(f, m)
<1> DEFINE h == [k \in 0..n |-> Digits(f, k)]
<1>1. f = h
  BY DEF DigitsUpTo
<1>2. m \in 0..n
  OBVIOUS
<1>3. h[m] = Digits(f, m)
  BY <1>2, Zenon
<1> HIDE DEF h
<1> QED BY <1>1, <1>3

LEMMA DigitsUnique ==
  ASSUME NEW f, NEW g, NEW n \in Nat, NEW p \in Nat, n <= p,
         DigitsUpTo(f, n), DigitsUpTo(g, p)
  PROVE  f[n] = g[n]
<1> DEFINE T == {m \in Nat : m <= n => f[m] = g[m]}
<1>1. ASSUME NEW m \in Nat, \A l \in Nat : l < m => l \in T PROVE m \in T
  <2> SUFFICES ASSUME m <= n PROVE f[m] = g[m]
    OBVIOUS
  <2>1. f[m] = Digits(f, m) /\ g[m] = Digits(g, m)
    <3>1. m <= p
      OBVIOUS
    <3> QED BY <3>1, DigitsAt
  <2>2. CASE m < 10
    BY <2>1, <2>2 DEF Digits
  <2>3. CASE m >= 10
    <3>1. f[m \div 10] = g[m \div 10]
      BY <1>1, <2>3, Tenth
    <3> QED BY <2>1, <2>3, <3>1 DEF Digits
  <2> QED BY <2>2, <2>3
<1> HIDE DEF T
<1>2. Nat \subseteq T
  BY <1>1, Inductive
<1> QED BY <1>2 DEF T

LEMMA DigitsExist == \A n \in Nat : \E f : DigitsUpTo(f, n)
<1> DEFINE T == {n \in Nat : \E f : DigitsUpTo(f, n)}
<1>1. ASSUME NEW n \in Nat, \A m \in Nat : m < n => m \in T PROVE n \in T
  <2>1. CASE n = 0
    <3> DEFINE f == [m \in 0..n |-> <<48 + m>>]
    <3>1. f = [m \in 0..n |-> Digits(f, m)]
      BY <2>1 DEF Digits
    <3> QED BY <3>1 DEF DigitsUpTo
  <2>2. CASE n > 0
    <3>1. PICK f : DigitsUpTo(f, n - 1)
      BY <1>1, <2>2
    <3> DEFINE g == [m \in 0..n |-> IF m = n THEN Digits(f, n) ELSE f[m]]
    <3>2. \A m \in 0..(n - 1) : f[m] = Digits(f, m) /\ g[m] = f[m]
      <4> SUFFICES ASSUME NEW m \in 0..(n - 1)
                   PROVE  f[m] = Digits(f, m) /\ g[m] = f[m]
        OBVIOUS
      <4>1. m \in Nat /\ m <= n - 1 /\ n - 1 \in Nat
        BY <2>2
      <4>2. f[m] = Digits(f, m)
        BY <3>1, <4>1, DigitsAt
      <4> QED BY <4>1, <4>2
    <3>3. ASSUME NEW m \in 0..n PROVE g[m] = Digits(f, m)
      <4>1. CASE m = n
        BY <4>1
      <4>2. CASE m # n
        <5>1. m \in 0..(n - 1)
          BY <4>2
        <5> QED BY <5>1, <3>2
      <4> QED BY <4>1, <4>2
    <3>4. \A m \in 0..n : Digits(f, m) = Digits(g, m)
      <4> SUFFICES ASSUME NEW m \in 0..n, m >= 10
                   PROVE  f[m \div 10] = g[m \div 10]
        BY DEF Digits
      <4>1. m \div 10 \in 0..(n - 1)
        BY Tenth
      <4> QED BY <4>1, <3>2
    <3>5. g = [m \in 0..n |-> Digits(g, m)]
      <4> HIDE DEF g
      <4>1. \A m \in 0..n : g[m] = Digits(g, m)
        BY <3>3, <3>4
      <4>2. g = [m \in 0..n |-> g[m]]
        BY DEF g
      <4> QED BY <4>1, <4>2
    <3> QED BY <3>5 DEF DigitsUpTo
  <2> QED BY <2>1, <2>2
<1> HIDE DEF T
<1>2. Nat \subseteq T
  BY <1>1, Inductive
<1> QED BY <1>2 DEF T

LEMMA DecimalDefined ==
  \A n \in Nat : Decimal[n] = Digits(Decimal, n)
<1> DEFINE g(n) == CHOOSE f : DigitsUpTo(f, n)
           F == [n \in Nat |-> g(n)[n]]
<1>1. \A n \in Nat : DigitsUpTo(g(n), n)
  BY DigitsExist
<1> HIDE DEF g
<1>2. ASSUME NEW n \in Nat PROVE F[n] = Digits(F, n)
  <2>1. g(n)[n] = Digits(g(n), n)
    BY <1>1 DEF DigitsUpTo
  <2>2. CASE n < 10
    BY <2>1, <2>2 DEF Digits
  <2>3. CASE n >= 10
    <3>1. n \div 10 \in Nat /\ n \div 10 <= n
      BY <2>3, Tenth
    <3>2. DigitsUpTo(g(n \div 10), n \div 10) /\ DigitsUpTo(g(n), n)
      BY <1>1, <3>1
    <3>3. g(n \div 10)[n \div 10] = g(n)[n \div 10]
      BY <3>1, <3>2, DigitsUnique
    <3>4. F[n \div 10] = g(n)[n \div 10]
      BY <3>1, <3>3
    <3> QED BY <2>1, <2>3, <3>4 DEF Digits
  <2> QED BY <2>2, <2>3
<1> HIDE DEF F
<1>3. F = [n \in Nat |-> Digits(F, n)]
  <2>1. F = [n \in Nat |-> F[n]]
    BY DEF F
  <2> QED BY <1>2, <2>1
<1>4. \E f : f = [n \in Nat |-> IF n < 10 THEN <<48 + n>>
                                ELSE Append(f[n \div 10], 48 + (n % 10))]
  BY <1>3 DEF Digits
<1>5. Decimal = [n \in Nat |-> IF n < 10 THEN <<48 + n>>
                              ELSE Append(Decimal[n \div 10], 48 + (n % 10))]
  BY <1>4 DEF Decimal
<1> QED BY <1>5 DEF Digits

-----------------------------------------------------------------------------
(***************************************************************************)
(* What it computes.                                                       *)
(***************************************************************************)

\* The digits of n end in that of n % 10, after those of n \div 10.
LEMMA DecimalShort == ASSUME NEW n \in 0..9 PROVE Decimal[n] = <<48 + n>>
<1>1. Decimal[n] = Digits(Decimal, n)
  BY DecimalDefined
<1> QED BY <1>1 DEF Digits

LEMMA DecimalLong ==
  ASSUME NEW n \in Nat, n >= 10
  PROVE  Decimal[n] = Append(Decimal[n \div 10], 48 + (n % 10))
<1>1. Decimal[n] = Digits(Decimal, n)
  BY DecimalDefined
<1> QED BY <1>1 DEF Digits

\* A number is printed with at least one digit.
LEMMA DecimalType ==
  \A n \in Nat : Decimal[n] \in Seq(Nat) /\ Len(Decimal[n]) > 0
<1> DEFINE T == {n \in Nat : Decimal[n] \in Seq(Nat) /\ Len(Decimal[n]) > 0}
<1>1. ASSUME NEW n \in Nat, \A m \in Nat : m < n => m \in T PROVE n \in T
  <2>1. CASE n < 10
    <3>1. Decimal[n] = <<48 + n>>
      BY <2>1, DecimalShort
    <3>2. Decimal[n] \in Seq(Nat)
      BY <3>1
    <3>3. Len(Decimal[n]) > 0
      BY <3>1
    <3> QED BY <3>2, <3>3
  <2>2. CASE n >= 10
    <3>1. n \div 10 \in T
      BY <1>1, <2>2, Tenth
    <3>2. 48 + (n % 10) \in Nat
      OBVIOUS
    <3>3. Decimal[n] = Append(Decimal[n \div 10], 48 + (n % 10))
      BY <2>2, DecimalLong
    <3> DEFINE d == Decimal[n \div 10]
               c == 48 + (n % 10)
    <3>4. d \in Seq(Nat) /\ c \in Nat /\ Decimal[n] = Append(d, c)
      BY <3>1, <3>2, <3>3
    <3> HIDE DEF d, c
    <3>5. Append(d, c) \in Seq(Nat) /\ Len(Append(d, c)) = Len(d) + 1
      BY <3>4, AppendProperties
    <3>6. Len(d) \in Nat
      BY <3>4
    <3>7. Decimal[n] \in Seq(Nat)
      BY <3>4, <3>5
    <3>8. Len(Decimal[n]) > 0
      BY <3>4, <3>5, <3>6
    <3> QED BY <3>7, <3>8
  <2> QED BY <2>1, <2>2
<1> HIDE DEF T
<1>2. Nat \subseteq T
  BY <1>1, Inductive
<1> QED BY <1>2 DEF T

\* Text x has the greater byte where x and y differ first.
Above(x, y) ==
  \E i \in 1..Len(x) :
    /\ i <= Len(y)
    /\ x[i] > y[i]
    /\ \A j \in 1..Len(x) : j < i => x[j] = y[j]

\* It is kept by what is appended to texts of one length.
LEMMA AboveAppend ==
  ASSUME NEW x \in Seq(Nat), NEW y \in Seq(Nat), Len(x) = Len(y),
         NEW c \in Nat, NEW d \in Nat, Above(x, y) \/ (x = y /\ c > d)
  PROVE  Above(Append(x, c), Append(y, d))
<1> DEFINE X == Append(x, c)
           Y == Append(y, d)
<1>0. Len(x) \in Nat
  OBVIOUS
<1>1. /\ Len(X) = Len(x) + 1 /\ X[Len(x) + 1] = c
      /\ \A i \in 1..Len(x) : X[i] = x[i]
  BY AppendProperties
<1>2. /\ Len(Y) = Len(x) + 1 /\ Y[Len(x) + 1] = d
      /\ \A i \in 1..Len(x) : Y[i] = y[i]
  BY AppendProperties
<1> HIDE DEF X, Y
<1>3. CASE Above(x, y)
  <2>1. PICK i \in 1..Len(x) :
          x[i] > y[i] /\ \A j \in 1..Len(x) : j < i => x[j] = y[j]
    BY <1>3 DEF Above
  <2>2. X[i] > Y[i]
    BY <1>1, <1>2, <2>1
  <2>3. ASSUME NEW j \in 1..Len(X), j < i PROVE X[j] = Y[j]
    <3>1. j \in 1..Len(x) /\ x[j] = y[j]
      BY <1>0, <2>1, <2>3
    <3> QED BY <1>1, <1>2, <3>1
  <2>4. Above(X, Y)
    BY <1>0, <1>1, <1>2, <2>2, <2>3 DEF Above
  <2> QED BY <2>4 DEF X, Y
<1>4. CASE x = y /\ c > d
  <2>1. \A j \in 1..Len(X) : j < Len(x) + 1 => X[j] = Y[j]
    BY <1>0, <1>1, <1>2, <1>4
  <2>2. X[Len(x) + 1] > Y[Len(x) + 1]
    BY <1>1, <1>2, <1>4
  <2>3. Above(X, Y)
    BY <1>0, <1>1, <1>2, <2>1, <2>2 DEF Above
  <2> QED BY <2>3 DEF X, Y
<1> QED BY <1>3, <1>4

\* A number of more than one digit, in front and last digit.
LEMMA DecimalParts ==
  ASSUME NEW n \in Nat, n >= 10
  PROVE  /\ Decimal[n] = Append(Decimal[n \div 10], 48 + (n % 10))
         /\ Decimal[n \div 10] \in Seq(Nat) /\ 48 + (n % 10) \in Nat
         /\ Len(Decimal[n]) = Len(Decimal[n \div 10]) + 1
         /\ Len(Decimal[n]) > 1
<1> DEFINE d == Decimal[n \div 10]
           c == 48 + (n % 10)
<1>1. Decimal[n] = Append(d, c)
  BY DecimalLong
<1>2. d \in Seq(Nat) /\ Len(d) > 0
  BY Tenth, DecimalType
<1>3. c \in Nat
  OBVIOUS
<1> HIDE DEF d, c
<1>4. Len(Append(d, c)) = Len(d) + 1 /\ Len(d) \in Nat
  BY <1>2, <1>3, AppendProperties
<1>5. Decimal[n] = Append(d, c) /\ Len(Decimal[n]) = Len(d) + 1 /\ Len(Decimal[n]) > 1
  BY <1>1, <1>2, <1>4
<1> QED BY <1>2, <1>3, <1>5 DEF d, c

\* Of two numbers with equally many digits the greater one has the greater
\* digit where they differ first.
LEMMA DecimalOrder ==
  \A m \in Nat : \A n \in Nat :
    Len(Decimal[m]) = Len(Decimal[n]) /\ m > n
      => Above(Decimal[m], Decimal[n])
<1> DEFINE T == {m \in Nat : \A n \in Nat :
                   Len(Decimal[m]) = Len(Decimal[n]) /\ m > n
                     => Above(Decimal[m], Decimal[n])}
<1>1. ASSUME NEW m \in Nat, \A l \in Nat : l < m => l \in T PROVE m \in T
  <2> SUFFICES ASSUME NEW n \in Nat, Len(Decimal[m]) = Len(Decimal[n]), m > n
               PROVE  Above(Decimal[m], Decimal[n])
    OBVIOUS
  <2>1. CASE m < 10
    <3>0. m \in 0..9 /\ n \in 0..9
      BY <2>1
    <3>1. Decimal[m] = <<48 + m>> /\ Decimal[n] = <<48 + n>>
      BY <3>0, DecimalShort
    <3>2. Above(<<48 + m>>, <<48 + n>>)
      BY DEF Above
    <3> QED BY <3>1, <3>2
  <2>2. CASE m >= 10
    <3>1. n >= 10
      <4> SUFFICES ASSUME n < 10 PROVE FALSE
        OBVIOUS
      <4>0. n \in 0..9
        OBVIOUS
      <4>1. Decimal[n] = <<48 + n>>
        BY <4>0, DecimalShort
      <4>2. Len(Decimal[n]) = 1
        BY <4>1
      <4>3. Len(Decimal[m]) > 1
        BY <2>2, DecimalParts
      <4> QED BY <4>2, <4>3
    <3> DEFINE x == Decimal[m \div 10]
               y == Decimal[n \div 10]
               c == 48 + (m % 10)
               d == 48 + (n % 10)
    <3>2. /\ Decimal[m] = Append(x, c) /\ Decimal[n] = Append(y, d)
          /\ x \in Seq(Nat) /\ y \in Seq(Nat) /\ c \in Nat /\ d \in Nat
      BY <2>2, <3>1, DecimalParts
    <3>3. Len(Decimal[m]) = Len(x) + 1 /\ Len(Decimal[n]) = Len(y) + 1
      BY <2>2, <3>1, DecimalParts
    <3>4. m \div 10 \in T /\ n \div 10 \in Nat
      BY <1>1, <2>2, <3>1, Tenth
    <3>5. m \div 10 > n \div 10 \/ (m \div 10 = n \div 10 /\ m % 10 > n % 10)
      OBVIOUS
    <3>6. Len(x) = Len(y)
      <4> HIDE DEF x, y
      <4>1. Len(x) \in Nat /\ Len(y) \in Nat
        BY <3>2
      <4>2. Len(x) + 1 = Len(y) + 1
        BY <3>3
      <4> QED BY <4>1, <4>2
    <3>7. Above(x, y) \/ (x = y /\ c > d)
      <4>1. CASE m \div 10 > n \div 10
        BY <3>4, <4>1, <3>6
      <4>2. CASE m \div 10 = n \div 10 /\ m % 10 > n % 10
        BY <4>2
      <4> QED BY <3>5, <4>1, <4>2
    <3> HIDE DEF x, y, c, d
    <3> QED BY <3>2, <3>6, <3>7, AboveAppend
  <2> QED BY <2>1, <2>2
<1> HIDE DEF T
<1>2. Nat \subseteq T
  BY <1>1, Inductive
<1> QED BY <1>2 DEF T

-----------------------------------------------------------------------------
(***************************************************************************)
(* strcmp.                                                                 *)
(***************************************************************************)

LEMMA AtIsByte ==
  ASSUME NEW x \in Seq(Nat), NEW i \in Nat \ {0}
  PROVE  /\ At(x, i) \in Nat
         /\ i <= Len(x) => At(x, i) = x[i]
         /\ i > Len(x) => At(x, i) = 0
<1>1. CASE i <= Len(x)
  <2>1. i \in DOMAIN x /\ x[i] \in Nat
    BY <1>1
  <2> QED BY <1>1, <2>1 DEF At
<1>2. CASE i > Len(x)
  <2>1. i \notin DOMAIN x
    BY <1>2
  <2> QED BY <1>2, <2>1 DEF At
<1>3. Len(x) \in Nat
  OBVIOUS
<1> QED BY <1>1, <1>2, <1>3

\* It tells the first difference.
LEMMA StrcmpFirst ==
  ASSUME NEW x \in Seq(Nat), NEW y \in Seq(Nat), NEW i \in Nat \ {0},
         At(x, i) # At(y, i),
         \A j \in 1..(i - 1) : At(x, j) = At(y, j)
  PROVE  Strcmp(x, y) = At(x, i) - At(y, i)
<1> DEFINE differ == {j \in 1..Len(x) + Len(y) : At(x, j) # At(y, j)}
<1>1. Len(x) \in Nat /\ Len(y) \in Nat
  OBVIOUS
<1>2. i <= Len(x) \/ i <= Len(y)
  BY AtIsByte
<1>3. i \in differ
  BY <1>1, <1>2
<1>4. differ \in SUBSET Nat /\ differ # {}
  BY <1>1, <1>3
<1>5. Min(differ) \in differ /\ Min(differ) <= i
  BY <1>3, <1>4, MinIsLeast
<1>6. Min(differ) = i
  BY <1>5
<1>7. Strcmp(x, y) = IF differ = {} THEN 0
                     ELSE At(x, Min(differ)) - At(y, Min(differ))
  BY DEF Strcmp
<1> HIDE DEF differ
<1> QED BY <1>4, <1>6, <1>7

\* Without a difference it is zero.
LEMMA StrcmpSame ==
  ASSUME NEW x \in Seq(Nat), NEW y \in Seq(Nat),
         \A i \in Nat \ {0} : At(x, i) = At(y, i)
  PROVE  Strcmp(x, y) = 0
<1> DEFINE differ == {j \in 1..Len(x) + Len(y) : At(x, j) # At(y, j)}
<1>1. Len(x) \in Nat /\ Len(y) \in Nat
  OBVIOUS
<1>2. differ = {}
  BY <1>1
<1>3. Strcmp(x, y) = IF differ = {} THEN 0
                     ELSE At(x, Min(differ)) - At(y, Min(differ))
  BY DEF Strcmp
<1> QED BY <1>2, <1>3

\* And only then.
LEMMA StrcmpZero ==
  ASSUME NEW x \in Seq(Nat), NEW y \in Seq(Nat), Strcmp(x, y) = 0
  PROVE  \A i \in Nat \ {0} : At(x, i) = At(y, i)
<1> DEFINE Differ == {i \in Nat \ {0} : At(x, i) # At(y, i)}
<1> SUFFICES ASSUME Differ # {} PROVE FALSE
  OBVIOUS
<1>1. PICK i \in Differ : \A j \in Differ : i <= j
  BY Least
<1>2. \A j \in 1..(i - 1) : At(x, j) = At(y, j)
  BY <1>1
<1>3. Strcmp(x, y) = At(x, i) - At(y, i)
  BY <1>1, <1>2, StrcmpFirst
<1>4. At(x, i) \in Nat /\ At(y, i) \in Nat
  BY AtIsByte
<1> QED BY <1>3, <1>4

\* The bytes of a text and what is written behind it.
LEMMA AtConcat ==
  ASSUME NEW x \in Seq(Nat), NEW y \in Seq(Nat), NEW i \in Nat \ {0}
  PROVE  At(x \o y, i) = IF i <= Len(x) THEN At(x, i) ELSE At(y, i - Len(x))
<1>1. /\ x \o y \in Seq(Nat) /\ Len(x \o y) = Len(x) + Len(y)
      /\ \A j \in 1..Len(x) + Len(y) :
           (x \o y)[j] = IF j <= Len(x) THEN x[j] ELSE y[j - Len(x)]
  BY ConcatProperties
<1>2. Len(x) \in Nat /\ Len(y) \in Nat
  OBVIOUS
<1>3. CASE i <= Len(x)
  <2>1. (x \o y)[i] = x[i] /\ i <= Len(x \o y)
    BY <1>1, <1>2, <1>3
  <2> QED BY <1>1, <1>3, <2>1, AtIsByte, ZenonT(30)
<1>4. CASE i > Len(x) /\ i <= Len(x) + Len(y)
  <2>1. (x \o y)[i] = y[i - Len(x)] /\ i <= Len(x \o y) /\ ~(i <= Len(x))
    BY <1>1, <1>2, <1>4
  <2>2. i - Len(x) \in Nat \ {0} /\ i - Len(x) <= Len(y)
    BY <1>2, <1>4
  <2>3. At(x \o y, i) = (x \o y)[i] /\ At(y, i - Len(x)) = y[i - Len(x)]
    BY <1>1, <2>1, <2>2, AtIsByte
  <2> QED BY <2>1, <2>3
<1>5. CASE i > Len(x) + Len(y)
  <2>1. i > Len(x \o y) /\ ~(i <= Len(x))
    BY <1>1, <1>2, <1>5
  <2>2. i - Len(x) \in Nat \ {0} /\ i - Len(x) > Len(y)
    BY <1>2, <1>5
  <2>3. At(x \o y, i) = 0 /\ At(y, i - Len(x)) = 0
    BY <1>1, <2>1, <2>2, AtIsByte
  <2> QED BY <2>1, <2>3
<1> QED BY <1>2, <1>3, <1>4, <1>5

LEMMA AtBehind ==
  ASSUME NEW x \in Seq(Nat), NEW y \in Seq(Nat), NEW j \in Nat \ {0}
  PROVE  At(x \o y, Len(x) + j) = At(y, j)
<1> DEFINE i == Len(x) + j
<1>1. i \in Nat \ {0} /\ ~(i <= Len(x)) /\ i - Len(x) = j
  OBVIOUS
<1> HIDE DEF i
<1>2. At(x \o y, i) = At(y, i - Len(x))
  BY <1>1, AtConcat
<1>3. At(x \o y, i) = At(y, j)
  BY <1>1, <1>2
<1> QED BY <1>3 DEF i

\* Two texts that begin alike and go on with x and y, whatever is behind.
LEMMA StrcmpAbove ==
  ASSUME NEW p \in Seq(Nat), NEW x \in Seq(Nat), NEW y \in Seq(Nat),
         NEW u \in Seq(Nat), NEW v \in Seq(Nat),
         Len(x) = Len(y), Above(x, y)
  PROVE  /\ Strcmp(p \o (x \o u), p \o (y \o v)) > 0
         /\ Strcmp(p \o (y \o v), p \o (x \o u)) < 0
<1> DEFINE X == p \o (x \o u)
           Y == p \o (y \o v)
<1>0. Len(p) \in Nat /\ Len(x) \in Nat
  OBVIOUS
<1>1. PICK i \in 1..Len(x) :
        x[i] > y[i] /\ \A j \in 1..Len(x) : j < i => x[j] = y[j]
  BY DEF Above
<1>2. /\ x \o u \in Seq(Nat) /\ y \o v \in Seq(Nat)
      /\ X \in Seq(Nat) /\ Y \in Seq(Nat)
  BY ConcatProperties
<1>3. ASSUME NEW j \in 1..Len(p) PROVE At(X, j) = At(Y, j)
  <2>1. j \in Nat \ {0} /\ j <= Len(p)
    BY <1>0
  <2> QED BY <1>2, <2>1, AtConcat
<1>4. ASSUME NEW j \in 1..Len(x)
      PROVE  At(X, Len(p) + j) = x[j] /\ At(Y, Len(p) + j) = y[j]
  <2>1. j \in Nat \ {0} /\ j <= Len(x) /\ j <= Len(y)
    BY <1>0
  <2>2. At(X, Len(p) + j) = At(x \o u, j) /\ At(Y, Len(p) + j) = At(y \o v, j)
    BY <1>2, <2>1, AtBehind, ZenonT(30)
  <2>3. At(x \o u, j) = At(x, j) /\ At(y \o v, j) = At(y, j)
    BY <2>1, AtConcat
  <2> QED BY <2>1, <2>2, <2>3, AtIsByte
<1> HIDE DEF X, Y
<1> DEFINE n == Len(p) + i
<1>5. n \in Nat \ {0} /\ At(X, n) = x[i] /\ At(Y, n) = y[i] /\ x[i] \in Nat /\ y[i] \in Nat
  BY <1>0, <1>1, <1>4
<1>6. ASSUME NEW j \in 1..(n - 1) PROVE At(X, j) = At(Y, j)
  <2>1. CASE j <= Len(p)
    BY <1>0, <1>3, <2>1
  <2>2. CASE j > Len(p)
    <3>1. j - Len(p) \in 1..Len(x) /\ j - Len(p) < i /\ Len(p) + (j - Len(p)) = j
      BY <1>0, <2>2
    <3>2. x[j - Len(p)] = y[j - Len(p)]
      BY <1>1, <3>1
    <3>3. /\ At(X, Len(p) + (j - Len(p))) = x[j - Len(p)]
          /\ At(Y, Len(p) + (j - Len(p))) = y[j - Len(p)]
      BY <1>4, <3>1
    <3> QED BY <3>1, <3>2, <3>3
  <2> QED BY <1>0, <2>1, <2>2
<1> HIDE DEF n
<1>7. Strcmp(X, Y) = At(X, n) - At(Y, n) /\ Strcmp(Y, X) = At(Y, n) - At(X, n)
  <2>1. At(X, n) # At(Y, n)
    BY <1>1, <1>5
  <2> QED BY <1>2, <1>5, <1>6, <2>1, StrcmpFirst
<1>8. Strcmp(X, Y) > 0 /\ Strcmp(Y, X) < 0
  BY <1>1, <1>5, <1>7
<1> QED BY <1>8 DEF X, Y

\* No text is above itself with something behind it.
LEMMA StrcmpPrefix ==
  ASSUME NEW x \in Seq(Nat), NEW s \in Seq(Nat)
  PROVE  ~ (Strcmp(x, x \o s) > 0)
<1> SUFFICES ASSUME Strcmp(x, x \o s) > 0 PROVE FALSE
  OBVIOUS
<1> DEFINE y == x \o s
           Differ == {i \in Nat \ {0} : At(x, i) # At(y, i)}
<1>1. y \in Seq(Nat) /\ Len(x) \in Nat
  BY ConcatProperties
<1>2. \A i \in Nat \ {0} : i <= Len(x) => At(y, i) = At(x, i)
  BY AtConcat
<1>3. \A i \in Nat \ {0} : At(x, i) \in Nat /\ At(y, i) \in Nat
                           /\ (i > Len(x) => At(x, i) = 0)
  BY <1>1, AtIsByte
<1> HIDE DEF y
<1>4. CASE Differ = {}
  <2>1. Strcmp(x, y) = 0
    BY <1>1, <1>4, StrcmpSame
  <2> QED BY <2>1 DEF y
<1>5. CASE Differ # {}
  <2>1. PICK i \in Differ : \A j \in Differ : i <= j
    BY <1>5, Least
  <2>2. \A j \in 1..(i - 1) : At(x, j) = At(y, j)
    BY <2>1
  <2>3. Strcmp(x, y) = At(x, i) - At(y, i)
    BY <1>1, <2>1, <2>2, StrcmpFirst
  <2>4. At(x, i) = 0 /\ At(y, i) \in Nat
    BY <1>1, <1>2, <1>3, <2>1
  <2>5. ~ (Strcmp(x, y) > 0)
    BY <2>3, <2>4
  <2> QED BY <2>5 DEF y
<1> QED BY <1>4, <1>5
-----------------------------------------------------------------------------
(***************************************************************************)
(* Versions.                                                               *)
(***************************************************************************)

\* A tag is a text, and so is what may stand behind it.
LEMMA TagType ==
  ASSUME NEW r \in Releases
  PROVE  /\ Tag(r) \in Seq(Nat) /\ Tag(r) # <<>>
         /\ \A i \in 1..3 : r[i] \in Nat /\ Decimal[r[i]] \in Seq(Nat)
<1>1. \A i \in 1..3 : r[i] \in Nat
  <2>1. Parts \subseteq Nat
    BY TextAssumption
  <2>2. r[1] \in Parts /\ r[2] \in Parts /\ r[3] \in Parts
    BY DEF Releases
  <2>3. \A i \in 1..3 : i = 1 \/ i = 2 \/ i = 3
    OBVIOUS
  <2> QED BY <2>1, <2>2, <2>3
<1>2. \A i \in 1..3 : Decimal[r[i]] \in Seq(Nat)
  BY <1>1, DecimalType
<1> DEFINE x == Decimal[r[1]]
           y == Decimal[r[2]]
           z == Decimal[r[3]]
<1>3. x \in Seq(Nat) /\ y \in Seq(Nat) /\ z \in Seq(Nat)
  BY <1>2
<1>4. Tag(r) = <<118>> \o x \o <<46>> \o y \o <<46>> \o z
  BY DEF Tag
<1> HIDE DEF x, y, z
<1>5. <<118>> \in Seq(Nat) /\ <<46>> \in Seq(Nat) /\ Len(<<118>>) = 1
  OBVIOUS
<1>6. /\ <<118>> \o x \in Seq(Nat)
      /\ <<118>> \o x \o <<46>> \in Seq(Nat)
      /\ <<118>> \o x \o <<46>> \o y \in Seq(Nat)
      /\ <<118>> \o x \o <<46>> \o y \o <<46>> \in Seq(Nat)
      /\ <<118>> \o x \o <<46>> \o y \o <<46>> \o z \in Seq(Nat)
  BY <1>3, <1>5, ConcatProperties
<1>7. <<118>> \o x \o <<46>> \o y \o <<46>> \o z # <<>>
  <2>1. <<118>> \o x # <<>>
    BY <1>3, <1>5, ConcatEqualIffEmpty
  <2>2. <<118>> \o x \o <<46>> # <<>>
    BY <1>5, <1>6, ConcatEqualIffEmpty
  <2> QED BY <1>3, <1>5, <1>6, ConcatEqualIffEmpty
<1> QED BY <1>1, <1>2, <1>4, <1>6, <1>7

LEMMA MarkType == BuildMarks \subseteq Seq(Nat)
<1>1. <<>> \in Seq(Nat) /\ <<45, 49>> \in Seq(Nat) /\ <<45, 100>> \in Seq(Nat)
  OBVIOUS
<1> QED BY <1>1 DEF BuildMarks

\* The place where two releases part.
LEMMA PartingIs ==
  ASSUME NEW a \in Releases, NEW b \in Releases, a # b
  PROVE  /\ Parting(a, b) \in 1..3
         /\ a[Parting(a, b)] # b[Parting(a, b)]
         /\ \A j \in 1..3 : j < Parting(a, b) => a[j] = b[j]
<1> DEFINE D == {i \in 1..3 : a[i] # b[i]}
<1>1. a = <<a[1], a[2], a[3]>> /\ b = <<b[1], b[2], b[3]>>
  BY DEF Releases
<1>2. a[1] # b[1] \/ a[2] # b[2] \/ a[3] # b[3]
  BY <1>1
<1>3. D \in SUBSET Nat /\ D # {}
  BY <1>2
<1>4. Min(D) \in D /\ \A j \in D : Min(D) <= j
  BY <1>3, MinIsLeast
<1>5. Parting(a, b) = Min(D)
  BY DEF Parting
<1> QED BY <1>4, <1>5
\* A tag around its number i.
Opening(r, i) ==
  IF i = 1 THEN <<118>>
  ELSE IF i = 2 THEN <<118>> \o Decimal[r[1]] \o <<46>>
  ELSE <<118>> \o Decimal[r[1]] \o <<46>> \o Decimal[r[2]] \o <<46>>

Rest(r, i) ==
  IF i = 1 THEN <<46>> \o Decimal[r[2]] \o <<46>> \o Decimal[r[3]]
  ELSE IF i = 2 THEN <<46>> \o Decimal[r[3]]
  ELSE <<>>

\* Joints may be made in any order.
Join(x, y) == x \o y

LEMMA ConcatAny ==
  ASSUME NEW x \in Seq(Nat), NEW y \in Seq(Nat), NEW z \in Seq(Nat)
  PROVE  (x \o y) \o z = x \o (y \o z)
BY ConcatAssociative, SMTT(20)

LEMMA JoinAny ==
  ASSUME NEW x \in Seq(Nat), NEW y \in Seq(Nat), NEW z \in Seq(Nat)
  PROVE  Join(Join(x, y), z) = Join(x, Join(y, z))
BY ConcatAny, Zenon DEF Join

LEMMA JoinType ==
  ASSUME NEW x \in Seq(Nat), NEW y \in Seq(Nat)
  PROVE  Join(x, y) \in Seq(Nat)
BY DEF Join

LEMMA Regroup ==
  ASSUME NEW v \in Seq(Nat), NEW w \in Seq(Nat), NEW x \in Seq(Nat),
         NEW y \in Seq(Nat), NEW z \in Seq(Nat)
  PROVE  LET t == Join(Join(Join(Join(Join(v, x), w), y), w), z) IN
         /\ t = Join(v, Join(x, Join(Join(Join(w, y), w), z)))
         /\ t = Join(Join(Join(v, x), w), Join(y, Join(w, z)))
         /\ t = Join(Join(Join(Join(Join(v, x), w), y), w), Join(z, <<>>))
<1> DEFINE vx   == Join(v, x)
           vxw  == Join(vx, w)
           vxwy == Join(vxw, y)
           wy   == Join(w, y)
           wz   == Join(w, z)
           wywz == Join(Join(wy, w), z)
<1>1. /\ vx \in Seq(Nat) /\ vxw \in Seq(Nat) /\ vxwy \in Seq(Nat)
      /\ wy \in Seq(Nat) /\ wz \in Seq(Nat) /\ wywz \in Seq(Nat)
  BY JoinType
<1>2. wywz = Join(wy, wz)
  BY <1>1, JoinAny
<1>3. vxwy = Join(vx, wy)
  BY <1>1, JoinAny
<1>4. Join(Join(vxwy, w), z) = Join(vxwy, wz)
  BY <1>1, JoinAny
<1>5. Join(vxwy, wz) = Join(vxw, Join(y, wz))
  BY <1>1, JoinAny
<1>6. Join(Join(vx, wy), wz) = Join(vx, Join(wy, wz))
  BY <1>1, JoinAny
<1>7. Join(vx, wywz) = Join(v, Join(x, wywz))
  BY <1>1, JoinAny
<1>8. Join(z, <<>>) = z
  BY ConcatEmptySeq DEF Join
<1> QED BY <1>2, <1>3, <1>4, <1>5, <1>6, <1>7, <1>8

LEMMA TagAround ==
  ASSUME NEW r \in Releases, NEW i \in 1..3
  PROVE  /\ Opening(r, i) \in Seq(Nat) /\ Rest(r, i) \in Seq(Nat)
         /\ Tag(r) = Join(Opening(r, i), Join(Decimal[r[i]], Rest(r, i)))
<1> DEFINE v == <<118>>
           w == <<46>>
           x == Decimal[r[1]]
           y == Decimal[r[2]]
           z == Decimal[r[3]]
<1>1. x \in Seq(Nat) /\ y \in Seq(Nat) /\ z \in Seq(Nat)
  BY TagType
<1>2. v \in Seq(Nat) /\ w \in Seq(Nat) /\ <<>> \in Seq(Nat)
  OBVIOUS
<1>3. Tag(r) = Join(Join(Join(Join(Join(v, x), w), y), w), z)
  BY DEF Tag, Join
<1>4. CASE i = 1
  <2>1. /\ Opening(r, i) = v /\ Rest(r, i) = Join(Join(Join(w, y), w), z)
        /\ Decimal[r[i]] = x
    BY <1>4 DEF Opening, Rest, Join
  <2> HIDE DEF v, w, x, y, z
  <2>2. Rest(r, i) \in Seq(Nat)
    BY <1>1, <1>2, <2>1, JoinType
  <2> QED BY <1>1, <1>2, <1>3, <2>1, <2>2, Regroup
<1>5. CASE i = 2
  <2>1. /\ Opening(r, i) = Join(Join(v, x), w) /\ Rest(r, i) = Join(w, z)
        /\ Decimal[r[i]] = y
    BY <1>5 DEF Opening, Rest, Join
  <2> HIDE DEF v, w, x, y, z
  <2>2. Opening(r, i) \in Seq(Nat) /\ Rest(r, i) \in Seq(Nat)
    BY <1>1, <1>2, <2>1, JoinType
  <2> QED BY <1>1, <1>2, <1>3, <2>1, <2>2, Regroup
<1>6. CASE i = 3
  <2>1. /\ Opening(r, i) = Join(Join(Join(Join(v, x), w), y), w)
        /\ Rest(r, i) = <<>> /\ Decimal[r[i]] = z
    BY <1>6 DEF Opening, Rest, Join
  <2> HIDE DEF v, w, x, y, z
  <2>2. Opening(r, i) \in Seq(Nat)
    BY <1>1, <1>2, <2>1, JoinType
  <2> QED BY <1>1, <1>2, <1>3, <2>1, <2>2, Regroup
<1> QED BY <1>4, <1>5, <1>6

\* The tag of the release with the greater number where a and b part is above
\* the other one, whatever stands behind that.
LEMMA ReleaseAbove ==
  ASSUME NEW a \in Releases, NEW b \in Releases, NEW s \in Seq(Nat),
         NEW i \in 1..3, \A j \in 1..3 : j < i => a[j] = b[j],
         Len(Decimal[a[i]]) = Len(Decimal[b[i]])
  PROVE  /\ a[i] > b[i] => Strcmp(Tag(a), Tag(b) \o s) > 0
         /\ a[i] < b[i] => Strcmp(Tag(a), Tag(b) \o s) < 0
<1> DEFINE p == Opening(a, i)
           x == Decimal[a[i]]
           y == Decimal[b[i]]
           u == Rest(a, i)
           t == Rest(b, i)
<1>1. Opening(b, i) = p
  BY DEF Opening
<1>2. p \in Seq(Nat) /\ u \in Seq(Nat) /\ Tag(a) = Join(p, Join(x, u))
  BY TagAround
<1>3. t \in Seq(Nat) /\ Tag(b) = Join(p, Join(y, t))
  BY <1>1, TagAround
<1>4. /\ x \in Seq(Nat) /\ y \in Seq(Nat) /\ Len(x) = Len(y)
      /\ a[i] \in Nat /\ b[i] \in Nat
  BY TagType
<1>5. a[i] > b[i] => Above(x, y)
  BY <1>4, DecimalOrder
<1>6. a[i] < b[i] => Above(y, x)
  BY <1>4, DecimalOrder
<1> HIDE DEF p, x, y, u, t
<1>7. Join(Tag(b), s) = Join(p, Join(y, Join(t, s))) /\ Join(t, s) \in Seq(Nat)
  <2>1. Join(y, t) \in Seq(Nat) /\ Join(t, s) \in Seq(Nat)
    BY <1>3, <1>4, JoinType
  <2>2. Join(Join(p, Join(y, t)), s) = Join(p, Join(Join(y, t), s))
    BY <1>2, <2>1, JoinAny
  <2>3. Join(Join(y, t), s) = Join(y, Join(t, s))
    BY <1>3, <1>4, JoinAny
  <2> QED BY <1>3, <2>1, <2>2, <2>3
<1> DEFINE c == Join(t, s)
<1> HIDE DEF c
<1>8. /\ Above(x, y) => Strcmp(Join(p, Join(x, u)), Join(p, Join(y, c))) > 0
      /\ Above(y, x) => Strcmp(Join(p, Join(x, u)), Join(p, Join(y, c))) < 0
  <2>1. c \in Seq(Nat)
    BY <1>7 DEF c
  <2>2. /\ Above(x, y) => Strcmp(p \o (x \o u), p \o (y \o c)) > 0
        /\ Above(y, x) => Strcmp(p \o (x \o u), p \o (y \o c)) < 0
    BY <1>2, <1>4, <2>1, StrcmpAbove
  <2> QED BY <2>2 DEF Join
<1>9. /\ Above(x, y) => Strcmp(Tag(a), Join(Tag(b), s)) > 0
      /\ Above(y, x) => Strcmp(Tag(a), Join(Tag(b), s)) < 0
  BY <1>2, <1>7, <1>8 DEF c
<1>10. /\ Above(x, y) => Strcmp(Tag(a), Tag(b) \o s) > 0
       /\ Above(y, x) => Strcmp(Tag(a), Tag(b) \o s) < 0
  BY <1>9 DEF Join
<1> QED BY <1>5, <1>6, <1>10

\* Of strcmp only the sign is used, and that is a number.
LEMMA StrcmpType ==
  ASSUME NEW x \in Seq(Nat), NEW y \in Seq(Nat) PROVE Strcmp(x, y) \in Int
<1> DEFINE Differ == {i \in Nat \ {0} : At(x, i) # At(y, i)}
<1>1. CASE Differ = {}
  BY <1>1, StrcmpSame
<1>2. CASE Differ # {}
  <2>1. PICK i \in Differ : \A j \in Differ : i <= j
    BY <1>2, Least
  <2>2. \A j \in 1..(i - 1) : At(x, j) = At(y, j)
    BY <2>1
  <2>3. Strcmp(x, y) = At(x, i) - At(y, i)
    BY <2>1, <2>2, StrcmpFirst
  <2>4. At(x, i) \in Nat /\ At(y, i) \in Nat
    BY <2>1, AtIsByte
  <2> QED BY <2>3, <2>4
<1> QED BY <1>1, <1>2

\* For releases of any numbers, is_update_available takes the greater number
\* for the newer one where the numbers in which two releases part are equally
\* long, and no release for an update of a build of itself (ota_service.c).
THEOREM VersionsAgree == OrderAgrees
<1> SUFFICES ASSUME NEW a \in Releases, NEW b \in Releases,
                    NEW s \in BuildMarks
             PROVE  IF a = b THEN ~IsUpdateAvailable(Tag(a), Tag(b) \o s)
                    ELSE Len(Decimal[a[Parting(a, b)]])
                           = Len(Decimal[b[Parting(a, b)]])
                         => (IsUpdateAvailable(Tag(a), Tag(b) \o s)
                             <=> a[Parting(a, b)] > b[Parting(a, b)])
  BY DEF OrderAgrees
<1>1. s \in Seq(Nat)
  BY MarkType
<1>2. CASE a = b
  <2>1. ~ (Strcmp(Tag(a), Tag(a) \o s) > 0)
    BY <1>1, TagType, StrcmpPrefix
  <2> QED BY <1>2, <2>1 DEF IsUpdateAvailable
<1>3. CASE a # b
  <2> SUFFICES ASSUME Len(Decimal[a[Parting(a, b)]])
                        = Len(Decimal[b[Parting(a, b)]])
               PROVE  IsUpdateAvailable(Tag(a), Tag(b) \o s)
                        <=> a[Parting(a, b)] > b[Parting(a, b)]
    BY <1>3
  <2>1. PICK i \in 1..3 : /\ i = Parting(a, b) /\ a[i] # b[i]
                          /\ \A j \in 1..3 : j < i => a[j] = b[j]
    BY <1>3, PartingIs
  <2>2. a[i] \in Nat /\ b[i] \in Nat /\ Tag(a) # <<>>
    BY TagType
  <2>3. Tag(a) \in Seq(Nat) /\ Tag(b) \o s \in Seq(Nat)
    BY <1>1, TagType, ConcatProperties
  <2>4. Strcmp(Tag(a), Tag(b) \o s) \in Int
    BY <2>3, StrcmpType
  <2>5. /\ a[i] > b[i] => Strcmp(Tag(a), Tag(b) \o s) > 0
        /\ a[i] < b[i] => Strcmp(Tag(a), Tag(b) \o s) < 0
    BY <1>1, <2>1, ReleaseAbove
  <2>6. Strcmp(Tag(a), Tag(b) \o s) > 0 <=> a[i] > b[i]
    BY <2>1, <2>2, <2>4, <2>5
  <2> QED BY <2>1, <2>2, <2>6 DEF IsUpdateAvailable
<1> QED BY <1>2, <1>3

-----------------------------------------------------------------------------
(***************************************************************************)
(* Endpoints.                                                              *)
(***************************************************************************)

\* A URI is a text without NULs.
LEMMA UriType ==
  ASSUME NEW n \in Nat, NEW a \in Uris(n)
  PROVE  /\ a \in Seq(Nat) /\ Len(a) \in 1..n
         /\ \A i \in 1..Len(a) : a[i] \in Nat \ {0}
<1>1. PICK k \in 1..n : a \in [1..k -> Letters]
  BY DEF Uris
<1>2. Letters \subseteq Nat \ {0}
  BY TextAssumption
<1>3. \A i \in 1..k : a[i] \in Nat \ {0}
  BY <1>1, <1>2
<1>4. a \in [1..k -> Nat]
  BY <1>1, <1>3
<1>5. k \in Nat
  BY <1>1
<1>6. a \in Seq(Nat) /\ Len(a) = k
  BY <1>4, <1>5
<1> QED BY <1>3, <1>6

\* A record holds its URI, with a NUL behind it.
LEMMA BufferType ==
  ASSUME NEW a \in Uris(MaxUriLength - 1)
  PROVE  /\ Buffer(a) \in Seq(Nat)
         /\ \A i \in Nat \ {0} : At(Buffer(a), i) = At(a, i)
<1>0. MaxUriLength \in Nat \ {0} /\ MaxUriLength - 1 \in Nat
  BY TextAssumption
<1>1. a \in Seq(Nat) /\ Len(a) \in 1..MaxUriLength - 1
  BY <1>0, UriType
<1>2. \A i \in Nat \ {0} : At(a, i) \in Nat /\ (i > Len(a) => At(a, i) = 0)
  BY <1>1, AtIsByte
<1> DEFINE b == Buffer(a)
<1>3. b = [i \in 1..MaxUriLength |-> At(a, i)]
  BY DEF Buffer
<1>4. b \in [1..MaxUriLength -> Nat]
  BY <1>2, <1>3
<1>5. b \in Seq(Nat) /\ Len(b) = MaxUriLength
  BY <1>0, <1>4
<1>6. \A i \in 1..MaxUriLength : b[i] = At(a, i)
  BY <1>3
<1> HIDE DEF b
<1>7. ASSUME NEW i \in Nat \ {0} PROVE At(b, i) = At(a, i)
  <2>1. CASE i <= MaxUriLength
    <3>1. i \in 1..MaxUriLength
      BY <1>0, <2>1
    <3> QED BY <1>5, <1>6, <2>1, <3>1, AtIsByte
  <2>2. CASE i > MaxUriLength
    <3>1. i > Len(b) /\ i > Len(a)
      BY <1>0, <1>1, <1>5, <2>2
    <3> QED BY <1>2, <1>5, <3>1, AtIsByte
  <2> QED BY <1>0, <2>1, <2>2
<1> QED BY <1>5, <1>7 DEF b

\* Texts without NULs are equal if all their bytes are.
LEMMA SameText ==
  ASSUME NEW n \in Nat, NEW m \in Nat, NEW a \in Uris(n), NEW b \in Uris(m),
         \A i \in Nat \ {0} : At(a, i) = At(b, i)
  PROVE  a = b
<1>1. /\ a \in Seq(Nat) /\ Len(a) \in Nat \ {0}
      /\ \A i \in 1..Len(a) : a[i] \in Nat \ {0}
  BY UriType
<1>2. /\ b \in Seq(Nat) /\ Len(b) \in Nat \ {0}
      /\ \A i \in 1..Len(b) : b[i] \in Nat \ {0}
  BY UriType
<1>3. \A i \in 1..Len(a) : At(a, i) = a[i]
  BY <1>1, AtIsByte
<1>4. \A i \in 1..Len(b) : At(b, i) = b[i]
  BY <1>2, AtIsByte
<1>5. ~ (Len(a) < Len(b))
  <2> SUFFICES ASSUME Len(a) < Len(b) PROVE FALSE
    OBVIOUS
  <2>1. At(a, Len(b)) = 0
    BY <1>1, <1>2, AtIsByte
  <2>2. Len(b) \in 1..Len(b)
    BY <1>2
  <2>3. At(b, Len(b)) # 0
    BY <1>2, <1>4, <2>2
  <2> QED BY <1>2, <2>1, <2>3
<1>6. ~ (Len(b) < Len(a))
  <2> SUFFICES ASSUME Len(b) < Len(a) PROVE FALSE
    OBVIOUS
  <2>1. At(b, Len(a)) = 0
    BY <1>1, <1>2, AtIsByte
  <2>2. Len(a) \in 1..Len(a)
    BY <1>1
  <2>3. At(a, Len(a)) # 0
    BY <1>1, <1>3, <2>2
  <2> QED BY <1>1, <2>1, <2>3
<1>7. Len(a) = Len(b)
  BY <1>1, <1>2, <1>5, <1>6
<1>8. \A i \in 1..Len(a) : a[i] = b[i]
  BY <1>1, <1>3, <1>4, <1>7
<1> QED BY <1>1, <1>2, <1>7, <1>8, SeqEqual

\* A record matches its own URI and no other.
LEMMA MatchesOwn ==
  ASSUME NEW a \in Uris(MaxUriLength - 1), NEW uri \in Uris(MaxUriLength + 1)
  PROVE  Matches(Buffer(a), uri) <=> uri = a
<1>0. MaxUriLength - 1 \in Nat /\ MaxUriLength + 1 \in Nat
  BY TextAssumption
<1>1. uri \in Seq(Nat)
  BY <1>0, UriType
<1>2. /\ Buffer(a) \in Seq(Nat)
      /\ \A i \in Nat \ {0} : At(Buffer(a), i) = At(a, i)
  BY BufferType
<1>3. ASSUME Strcmp(Buffer(a), uri) = 0 PROVE uri = a
  <2>1. \A i \in Nat \ {0} : At(Buffer(a), i) = At(uri, i)
    BY <1>1, <1>2, <1>3, StrcmpZero
  <2>2. \A i \in Nat \ {0} : At(a, i) = At(uri, i)
    BY <1>2, <2>1
  <2> QED BY <1>0, <2>2, SameText
<1>4. ASSUME uri = a PROVE Strcmp(Buffer(a), uri) = 0
  BY <1>1, <1>2, <1>4, StrcmpSame
<1> QED BY <1>3, <1>4 DEF Matches

\* The fold of Table is a recursive function on the sets of places.
Filled(f, uris, s) ==
  IF s = {} THEN <<>> ELSE AddRecord(f[s \ {Max(s)}], uris[Max(s)])

LEMMA TableFolds ==
  ASSUME NEW uris
  PROVE  Table(uris)
           = (CHOOSE f : f = [s \in SUBSET DOMAIN uris |-> Filled(f, uris, s)])
               [DOMAIN uris]
BY DEF Table, FoldLeft, MapThenFoldSet, Filled

LEMMA MaxIsGreatest ==
  ASSUME NEW k \in Nat, NEW s \in SUBSET (1..k), s # {}
  PROVE  Max(s) \in s /\ \A y \in s : y <= Max(s)
<1> DEFINE Above_s == {m \in Nat : \A y \in s : y <= m}
<1>1. k \in Above_s
  OBVIOUS
<1>2. PICK m \in Above_s : \A l \in Above_s : m <= l
  BY <1>1, Least
<1>3. m \in s
  <2> SUFFICES ASSUME m \notin s PROVE FALSE
    OBVIOUS
  <2>1. \A y \in s : y \in Nat /\ y >= 1 /\ y <= m /\ y # m
    BY <1>2
  <2>2. m - 1 \in Nat
    <3>1. PICK y \in s : TRUE
      OBVIOUS
    <3>2. y \in Nat /\ y >= 1 /\ y <= m /\ m \in Nat
      BY <1>2, <2>1
    <3> QED BY <3>2
  <2>3. \A y \in s : y <= m - 1
    BY <1>2, <2>1
  <2>4. m - 1 \in Above_s
    BY <2>2, <2>3
  <2> QED BY <1>2, <2>4
<1>4. \E x \in s : \A y \in s : x >= y
  BY <1>2, <1>3
<1>5. Max(s) \in s /\ \A y \in s : Max(s) >= y
  BY <1>4 DEF Max
<1> QED BY <1>5

LEMMA FilledExists ==
  ASSUME NEW uris, NEW n \in Nat
  PROVE  \E f : f = [s \in SUBSET (1..n) |-> Filled(f, uris, s)]
<1> DEFINE T == {k \in Nat : \E f : f = [s \in SUBSET (1..k) |->
                                           Filled(f, uris, s)]}
<1>1. ASSUME NEW k \in Nat, \A m \in Nat : m < k => m \in T PROVE k \in T
  <2> SUFFICES \E f : f = [s \in SUBSET (1..k) |-> Filled(f, uris, s)]
    OBVIOUS
  <2>1. CASE k = 0
    <3> DEFINE f == [s \in SUBSET (1..k) |-> <<>>]
    <3>1. \A s \in SUBSET (1..k) : s = {}
      BY <2>1
    <3>2. f = [s \in SUBSET (1..k) |-> Filled(f, uris, s)]
      BY <3>1 DEF Filled
    <3> QED BY <3>2
  <2>2. CASE k > 0
    <3>1. PICK f : f = [s \in SUBSET (1..k - 1) |-> Filled(f, uris, s)]
      <4>1. k - 1 \in T
        BY <1>1, <2>2
      <4> QED BY <4>1
    <3> DEFINE g == [s \in SUBSET (1..k) |->
                       IF s \subseteq 1..k - 1 THEN f[s]
                       ELSE Filled(f, uris, s)]
    <3>2. \A s \in SUBSET (1..k - 1) :
            f[s] = Filled(f, uris, s) /\ s \in SUBSET (1..k)
      BY <3>1, <2>2
    <3>3. \A s \in SUBSET (1..k) : g[s] = Filled(f, uris, s)
      BY <3>2
    <3>4. \A s \in SUBSET (1..k - 1) : g[s] = f[s]
      BY <3>2
    <3> HIDE DEF g
    <3>5. ASSUME NEW s \in SUBSET (1..k) PROVE Filled(f, uris, s) = Filled(g, uris, s)
      <4>1. CASE s = {}
        BY <4>1 DEF Filled
      <4>2. CASE s # {}
        <5>1. Max(s) \in s /\ \A y \in s : y <= Max(s)
          BY <4>2, MaxIsGreatest
        <5>2. \A y \in s : y \in 1..k
          OBVIOUS
        <5>3. s \ {Max(s)} \in SUBSET (1..k - 1)
          <6> DEFINE M == Max(s)
          <6> HIDE DEF M
          <6>1. ASSUME NEW y \in s, y # M PROVE y \in 1..k - 1
            <7>1. y \in 1..k /\ M \in 1..k /\ y <= M
              BY <5>1, <5>2 DEF M
            <7> QED BY <6>1, <7>1
          <6> QED BY <6>1 DEF M
        <5>4. g[s \ {Max(s)}] = f[s \ {Max(s)}]
          BY <3>4, <5>3
        <5> QED BY <4>2, <5>4 DEF Filled
      <4> QED BY <4>1, <4>2
    <3>6. g = [s \in SUBSET (1..k) |-> g[s]]
      BY DEF g
    <3>7. \A s \in SUBSET (1..k) : g[s] = Filled(g, uris, s)
      BY <3>3, <3>5
    <3>8. g = [s \in SUBSET (1..k) |-> Filled(g, uris, s)]
      BY <3>6, <3>7
    <3> WITNESS g
    <3> QED BY <3>8
  <2>3. k = 0 \/ k > 0
    OBVIOUS
  <2> QED BY <2>1, <2>2, <2>3, Zenon
<1> HIDE DEF T
<1>2. Nat \subseteq T
  BY <1>1, Inductive
<1> QED BY <1>2 DEF T

\* The table holds the URIs that are registered, in their order.
LEMMA TableHolds ==
  ASSUME NEW uris \in UriLists
  PROVE  /\ Table(uris) = [i \in DOMAIN uris |-> Buffer(uris[i])]
         /\ \E n \in Nat : DOMAIN uris = 1..n
<1>1. PICK n \in 0..MaxUris : uris \in [1..n -> Uris(MaxUriLength - 1)]
  BY DEF UriLists
<1>2. n \in Nat /\ DOMAIN uris = 1..n
  BY <1>1, TextAssumption
<1> DEFINE F == CHOOSE f : f = [s \in SUBSET (1..n) |-> Filled(f, uris, s)]
<1>3. Table(uris) = F[1..n]
  <2> HIDE DEF F
  <2>1. Table(uris)
          = (CHOOSE f : f = [s \in SUBSET DOMAIN uris |-> Filled(f, uris, s)])
              [DOMAIN uris]
    BY TableFolds
  <2> QED BY <1>2, <2>1 DEF F
<1>4. F = [s \in SUBSET (1..n) |-> Filled(F, uris, s)]
  BY <1>2, FilledExists
<1> HIDE DEF F
<1>5. ASSUME NEW i \in 1..n, NEW table
      PROVE  AddRecord(table, uris[i]) = Append(table, Buffer(uris[i]))
  <2>1. uris[i] \in Uris(MaxUriLength - 1) /\ MaxUriLength - 1 \in Nat
    BY <1>1, TextAssumption
  <2>2. Len(uris[i]) \in 1..MaxUriLength - 1
    BY <2>1, UriType
  <2>3. ~ (Len(uris[i]) > MaxUriLength)
    BY <2>2, TextAssumption
  <2> QED BY <2>3 DEF AddRecord
<1> DEFINE Up(k) == [i \in 1..k |-> Buffer(uris[i])]
           T == {k \in Nat : k <= n => F[1..k] = Up(k)}
<1>6. ASSUME NEW k \in Nat, \A m \in Nat : m < k => m \in T PROVE k \in T
  <2> SUFFICES ASSUME k <= n PROVE F[1..k] = Up(k)
    OBVIOUS
  <2>1. F[1..k] = Filled(F, uris, 1..k)
    <3>1. 1..k \in SUBSET (1..n)
      BY <1>2
    <3> QED BY <1>4, <3>1
  <2>2. CASE k = 0
    <3>1. 1..k = {}
      BY <2>2
    <3>2. F[1..k] = <<>>
      BY <2>1, <3>1 DEF Filled
    <3>3. Up(k) = <<>>
      BY <3>1
    <3> QED BY <3>2, <3>3
  <2>3. CASE k > 0
    <3>1. 1..k \in SUBSET (1..k) /\ 1..k # {} /\ k \in 1..k
      BY <2>3
    <3>2. Max(1..k) \in 1..k /\ k <= Max(1..k)
      BY <3>1, MaxIsGreatest
    <3>3. Max(1..k) = k
      BY <3>2
    <3>4. (1..k) \ {k} = 1..k - 1
      BY <2>3
    <3>5. F[1..k - 1] = Up(k - 1)
      <4>1. k - 1 \in T /\ k - 1 <= n
        BY <1>2, <1>6, <2>3
      <4> QED BY <4>1
    <3>6. F[1..k] = AddRecord(F[1..k - 1], uris[k])
      BY <2>1, <3>1, <3>3, <3>4 DEF Filled
    <3>7. F[1..k] = Append(Up(k - 1), Buffer(uris[k]))
      <4>1. k \in 1..n
        BY <1>2, <2>3
      <4>2. AddRecord(F[1..k - 1], uris[k])
              = Append(F[1..k - 1], Buffer(uris[k]))
        BY <1>5, <4>1
      <4> HIDE DEF Up
      <4> QED BY <3>5, <3>6, <4>2
    <3>8. Append(Up(k - 1), Buffer(uris[k])) = Up(k)
      <4> DEFINE b(i) == Buffer(uris[i])
      <4> HIDE DEF b
      <4>1. Append([i \in 1..k - 1 |-> b(i)], b(k)) = [i \in 1..k |-> b(i)]
        BY <2>3
      <4> QED BY <4>1 DEF b
    <3> QED BY <3>7, <3>8
  <2> QED BY <2>2, <2>3
<1> HIDE DEF T
<1>7. Nat \subseteq T
  BY <1>6, Inductive
<1>8. F[1..n] = Up(n)
  BY <1>2, <1>7 DEF T
<1> QED BY <1>2, <1>3, <1>8

\* Whatever URIs are registered, shorter than the buffer, master_request_handler
\* finds the first record of the very URI that is asked for, and none for any
\* other (http_server.c).
THEOREM EndpointsApart == LookupFinds
<1> SUFFICES ASSUME NEW uris \in UriLists, NEW uri \in Uris(MaxUriLength + 1)
             PROVE  LET i == Lookup(Table(uris), uri) IN
                      \/ i = 0 /\ uri \notin Range(uris)
                      \/ /\ i \in DOMAIN uris
                         /\ uris[i] = uri
                         /\ \A j \in 1..i - 1 : uris[j] # uri
  BY DEF LookupFinds
<1>1. PICK n \in Nat : DOMAIN uris = 1..n
  BY TableHolds
<1>2. \A i \in 1..n : uris[i] \in Uris(MaxUriLength - 1)
  BY <1>1 DEF UriLists
<1> DEFINE table == Table(uris)
<1>3. DOMAIN table = 1..n /\ \A i \in 1..n : table[i] = Buffer(uris[i])
  BY <1>1, TableHolds
<1> HIDE DEF table
<1> DEFINE found == {i \in DOMAIN table : Matches(table[i], uri)}
<1>4. found = {i \in 1..n : uris[i] = uri}
  <2>1. \A i \in 1..n : Matches(table[i], uri) <=> uri = uris[i]
    BY <1>2, <1>3, MatchesOwn
  <2> QED BY <1>3, <2>1
<1>5. Lookup(table, uri) = IF found = {} THEN 0 ELSE Min(found)
  BY DEF Lookup
<1> HIDE DEF found
<1>6. CASE found = {}
  <2>1. uri \notin Range(uris)
    BY <1>1, <1>4, <1>6 DEF Range
  <2> QED BY <1>5, <1>6, <2>1 DEF table
<1>7. CASE found # {}
  <2>1. found \in SUBSET Nat
    BY <1>4
  <2>2. Min(found) \in found /\ \A j \in found : Min(found) <= j
    BY <1>7, <2>1, MinIsLeast
  <2> DEFINE i == Min(found)
  <2>3. i \in 1..n /\ uris[i] = uri
    BY <1>4, <2>2
  <2>4. ASSUME NEW j \in 1..i - 1 PROVE uris[j] # uri
    <3>1. j \in 1..n /\ j < i
      BY <2>3
    <3> QED BY <1>4, <2>2, <3>1
  <2>5. Lookup(table, uri) = i
    BY <1>5, <1>7
  <2> HIDE DEF i
  <2> QED BY <1>1, <2>3, <2>4, <2>5 DEF table
<1> QED BY <1>6, <1>7

-----------------------------------------------------------------------------
\* What the run of the start-up checks of versions, for every set of numbers
\* that releases may have (is_update_available, ota_service.c).
THEOREM VersionsStayInOrder == Spec => []VersionsInOrder
<1>1. VersionsInOrder
  BY VersionsAgree DEF VersionsInOrder
<1> QED BY <1>1, PTL

\* What it checks of URIs, for every length of the buffer, every alphabet and
\* every number of records (master_request_handler, http_server.c).
THEOREM EndpointsStayFound == Spec => []EndpointsFound
<1>1. EndpointsFound
  BY EndpointsApart DEF EndpointsFound
<1> QED BY <1>1, PTL
=============================================================================
