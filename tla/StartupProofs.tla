----------------------------- MODULE StartupProofs -----------------------------
(***************************************************************************)
(* Proofs about Config and Startup, for any environment and any sizes.     *)
(* The parsers are recursive functions over the characters of a text:      *)
(* each is shown to have the value its definition says, and then followed  *)
(* character by character with a loop invariant that says what the digits  *)
(* read so far write.  EnvInv and StartInv then carry the properties over  *)
(* every step of the build and of the main thread.                         *)
(***************************************************************************)
EXTENDS Startup, SumTheorems, SequenceTheorems

-----------------------------------------------------------------------------
(* Loops *)

\* g follows the loop that starts with b and whose n-th turn is R[n].
Turns(g, b, R, N) == g[0] = b /\ \A n \in 1 .. N : g[n] = R[n][g[n - 1]]

\* The table of one more turn.
LEMMA OneTurnMore ==
    ASSUME NEW X, NEW b \in X, NEW N \in Nat, NEW R \in [1 .. N -> [X -> X]],
           NEW m \in 1 .. N, NEW g \in [0 .. N -> X], Turns(g, b, R, m - 1)
    PROVE  \E h \in [0 .. N -> X] : Turns(h, b, R, m)
<1> DEFINE h == [n \in 0 .. N |-> IF n = m THEN R[m][g[m - 1]] ELSE g[n]]
<1>1. m \in Nat /\ m - 1 \in 0 .. N /\ m - 1 # m /\ 0 # m /\ m <= N
  OBVIOUS
<1>2. R[m] \in [X -> X] /\ g[m - 1] \in X
  BY <1>1
<1>3. h \in [0 .. N -> X]
  BY <1>2
<1>4. h[0] = b
  BY <1>1 DEF Turns
<1>5. \A n \in 1 .. m : h[n] = R[n][h[n - 1]]
  <2>1. SUFFICES ASSUME NEW n \in 1 .. m PROVE h[n] = R[n][h[n - 1]]
    OBVIOUS
  <2>2. n \in Nat /\ n - 1 \in 0 .. N /\ n \in 0 .. N /\ n - 1 # m
    BY <1>1
  <2>3. h[n - 1] = g[n - 1]
    BY <2>2
  <2>4. CASE n = m
    BY <2>2, <2>3, <2>4
  <2>5. CASE n # m
    <3>1. n \in 1 .. (m - 1)
      BY <1>1, <2>5
    <3>2. g[n] = R[n][g[n - 1]]
      BY <3>1 DEF Turns
    <3>3. h[n] = g[n]
      BY <2>2, <2>5
    <3>4. QED BY <2>3, <3>2, <3>3
  <2>6. QED BY <2>4, <2>5
<1> HIDE DEF h
<1>6. Turns(h, b, R, m)
  BY <1>4, <1>5 DEF Turns
<1>7. QED BY <1>3, <1>6

\* A loop of N turns has a table of its states.
LEMMA Iterates ==
    ASSUME NEW X, NEW b \in X, NEW N \in Nat, NEW R \in [1 .. N -> [X -> X]]
    PROVE  \E g \in [0 .. N -> X] : Turns(g, b, R, N)
<1> DEFINE Ends(n) == \E g \in [0 .. N -> X] : Turns(g, b, R, n)
           S == {n \in Nat : n <= N /\ ~ Ends(n)}
<1> HIDE DEF Ends
<1>1. SUFFICES ASSUME S # {} PROVE FALSE
  <2>1. N <= N
    OBVIOUS
  <2>2. S = {} => Ends(N)
    BY <2>1
  <2>3. QED BY <2>2 DEF Ends
<1>2. PICK m \in S : \A k \in S : m <= k
  BY <1>1, Least
<1>3. m \in Nat /\ m <= N /\ ~ \E g \in [0 .. N -> X] : Turns(g, b, R, m)
  BY DEF Ends
<1>4. m # 0
  <2>1. SUFFICES ASSUME m = 0 PROVE FALSE
    OBVIOUS
  <2> DEFINE g == [n \in 0 .. N |-> b]
  <2>2. g \in [0 .. N -> X] /\ g[0] = b
    OBVIOUS
  <2>3. 1 .. 0 = {}
    OBVIOUS
  <2> HIDE DEF g
  <2>4. Turns(g, b, R, 0)
    BY <2>2, <2>3 DEF Turns
  <2>5. QED BY <1>3, <2>1, <2>2, <2>4
<1>5. m \in 1 .. N /\ m - 1 \in Nat /\ m - 1 <= N /\ ~ (m <= m - 1)
  BY <1>3, <1>4
<1>6. m - 1 \notin S
  BY <1>2, <1>5
<1>7. PICK g \in [0 .. N -> X] : Turns(g, b, R, m - 1)
  BY <1>5, <1>6 DEF Ends
<1>8. \E h \in [0 .. N -> X] : Turns(h, b, R, m)
  BY <1>5, <1>7, OneTurnMore
<1>9. QED BY <1>3, <1>8

\* What holds before the first turn and is kept by every turn holds after each.
LEMMA EveryTurn ==
    ASSUME NEW N \in Nat, NEW P, 0 \in P, \A n \in 1 .. N : n - 1 \in P => n \in P
    PROVE  \A n \in 0 .. N : n \in P
<1> DEFINE S == {n \in Nat : n <= N /\ n \notin P}
<1>1. SUFFICES ASSUME S # {} PROVE FALSE
  OBVIOUS
<1>2. PICK n \in S : \A m \in S : n <= m
  BY <1>1, Least
<1>3. n \in Nat /\ n <= N /\ n \notin P /\ n # 0
  OBVIOUS
<1>4. n \in 1 .. N /\ n - 1 \in Nat /\ n - 1 <= N /\ ~ (n <= n - 1)
  BY <1>3
<1>5. n - 1 \in P
  BY <1>2, <1>4
<1>6. QED BY <1>3, <1>4, <1>5

-----------------------------------------------------------------------------
(* Decimal numbers *)

PowerLevel(f, n) == IF n = 0 THEN 1 ELSE 10 * f[n - 1]

\* The table of the powers up to n, and that there is only one.
Powers(g, n) == \A a \in 0 .. n : g[a] = PowerLevel(g, a)

LEMMA PowersExist == \A n \in Nat : \E g : Powers(g, n)
<1> SUFFICES ASSUME NEW n \in Nat PROVE \E g : Powers(g, n)
  OBVIOUS
<1> DEFINE R == [i \in 1 .. n |-> [v \in Nat |-> 10 * v]]
<1>1. R \in [1 .. n -> [Nat -> Nat]] /\ 1 \in Nat
  OBVIOUS
<1>2. \A i \in 1 .. n : \A v \in Nat : R[i][v] = 10 * v
  OBVIOUS
<1> HIDE DEF R
<1>3. PICK g \in [0 .. n -> Nat] : Turns(g, 1, R, n)
  BY <1>1, Iterates
<1>4. \A a \in 0 .. n : g[a] = PowerLevel(g, a)
  <2>1. SUFFICES ASSUME NEW a \in 0 .. n PROVE g[a] = PowerLevel(g, a)
    OBVIOUS
  <2>2. CASE a = 0
    BY <1>3, <2>2 DEF Turns, PowerLevel
  <2>3. CASE a # 0
    <3>1. a \in 1 .. n /\ a - 1 \in 0 .. n
      BY <2>3
    <3>2. g[a] = R[a][g[a - 1]]
      BY <1>3, <3>1 DEF Turns
    <3>3. g[a - 1] \in Nat
      BY <3>1
    <3>4. g[a] = 10 * g[a - 1]
      BY <1>2, <3>1, <3>2, <3>3
    <3>5. QED BY <2>3, <3>4 DEF PowerLevel
  <2>4. QED BY <2>2, <2>3
<1>5. QED BY <1>4 DEF Powers

LEMMA PowersUnique ==
    ASSUME NEW g, NEW h, NEW n \in Nat, NEW m \in Nat, Powers(g, n), Powers(h, m),
           NEW a \in Nat, a <= n, a <= m
    PROVE  g[a] = h[a]
<1> DEFINE S == {x \in Nat : x <= n /\ x <= m /\ g[x] # h[x]}
<1>1. SUFFICES ASSUME S # {} PROVE FALSE
  OBVIOUS
<1>2. PICK x \in S : \A y \in S : x <= y
  BY <1>1, Least
<1>3. x \in Nat /\ x <= n /\ x <= m /\ g[x] # h[x]
  BY <1>2
<1>4. g[x] = PowerLevel(g, x) /\ h[x] = PowerLevel(h, x)
  BY <1>3 DEF Powers
<1>5. x # 0
  BY <1>3, <1>4 DEF PowerLevel
<1>6. x - 1 \in Nat /\ ~ (x <= x - 1) /\ x - 1 <= n /\ x - 1 <= m
  BY <1>3, <1>5
<1>7. x - 1 \notin S
  BY <1>2, <1>6
<1>8. g[x - 1] = h[x - 1]
  BY <1>6, <1>7
<1>9. QED BY <1>3, <1>4, <1>8 DEF PowerLevel

\* Pow10 is what its definition says.
LEMMA PowUnfold == \A n \in Nat : Pow10[n] = PowerLevel(Pow10, n)
<1> DEFINE G(a) == CHOOSE g : Powers(g, a)
           f == [a \in Nat |-> G(a)[a]]
<1>1. ASSUME NEW a \in Nat PROVE Powers(G(a), a)
  <2>1. \E g : Powers(g, a)
    BY PowersExist
  <2>2. QED BY <2>1, Zenon
<1> HIDE DEF G
<1>2. ASSUME NEW a \in Nat PROVE f[a] = PowerLevel(f, a)
  <2>1. G(a)[a] = PowerLevel(G(a), a)
    <3>1. a \in 0 .. a
      OBVIOUS
    <3>2. QED BY <1>1, <3>1 DEF Powers
  <2>2. f[a] = G(a)[a]
    OBVIOUS
  <2>3. CASE a = 0
    BY <2>1, <2>2, <2>3 DEF PowerLevel
  <2>4. CASE a # 0
    <3>1. a - 1 \in Nat /\ a - 1 <= a /\ a - 1 <= a - 1
      BY <2>4
    <3>2. Powers(G(a), a) /\ Powers(G(a - 1), a - 1)
      BY <1>1, <3>1
    <3>3. G(a)[a - 1] = G(a - 1)[a - 1]
      BY ONLY <3>1, <3>2, a \in Nat, PowersUnique
    <3>4. f[a - 1] = G(a)[a - 1]
      BY <3>1, <3>3
    <3>5. QED BY <2>1, <2>2, <2>4, <3>4 DEF PowerLevel
  <2>5. QED BY <2>3, <2>4
<1>3. f = [a \in Nat |-> PowerLevel(f, a)]
  BY <1>2
<1> HIDE DEF f
<1>4. Pow10 = CHOOSE g : g = [a \in Nat |-> PowerLevel(g, a)]
  BY DEF Pow10, PowerLevel
<1>5. \E g : g = [a \in Nat |-> PowerLevel(g, a)]
  BY <1>3, Zenon
<1>6. Pow10 = [a \in Nat |-> PowerLevel(Pow10, a)]
  BY <1>4, <1>5, Zenon
<1> DEFINE P == Pow10
<1>7. P = [a \in Nat |-> PowerLevel(P, a)]
  BY <1>6
<1> HIDE DEF P
<1>8. \A n \in Nat : P[n] = PowerLevel(P, n)
  BY <1>7
<1>9. QED BY <1>8 DEF P

LEMMA PowStep == Pow10[0] = 1 /\ \A n \in Nat : Pow10[n + 1] = 10 * Pow10[n]
<1>1. Pow10[0] = 1
  BY PowUnfold DEF PowerLevel
<1>2. ASSUME NEW n \in Nat PROVE Pow10[n + 1] = 10 * Pow10[n]
  <2>1. n + 1 \in Nat /\ n + 1 # 0 /\ (n + 1) - 1 = n
    OBVIOUS
  <2>2. Pow10[n + 1] = PowerLevel(Pow10, n + 1)
    BY <2>1, PowUnfold
  <2>3. QED BY <2>1, <2>2 DEF PowerLevel
<1>3. QED BY <1>1, <1>2

LEMMA PowType == \A n \in Nat : Pow10[n] \in Nat
<1> DEFINE S == {n \in Nat : Pow10[n] \notin Nat}
<1>1. SUFFICES ASSUME S # {} PROVE FALSE
  OBVIOUS
<1>2. PICK n \in S : \A m \in S : n <= m
  BY <1>1, Least
<1>3. n \in Nat /\ Pow10[n] \notin Nat
  OBVIOUS
<1>4. n # 0
  BY <1>3, PowStep
<1>5. n - 1 \in Nat /\ ~ (n <= n - 1) /\ (n - 1) + 1 = n
  BY <1>3, <1>4
<1>6. n - 1 \notin S
  BY <1>2, <1>5
<1>7. Pow10[n - 1] \in Nat
  BY <1>5, <1>6
<1>8. Pow10[(n - 1) + 1] = 10 * Pow10[n - 1]
  BY <1>5, PowStep
<1>9. QED BY <1>3, <1>5, <1>7, <1>8

LEMMA DigitType == \A c \in DOMAIN Digit : Digit[c] \in Nat
<1>1. DOMAIN Digit = {"0", "1", "2", "3", "4", "5", "6", "7", "8", "9"}
  BY DEF Digit
<1>2. /\ Digit["0"] = 0 /\ Digit["1"] = 1 /\ Digit["2"] = 2 /\ Digit["3"] = 3 /\ Digit["4"] = 4
      /\ Digit["5"] = 5 /\ Digit["6"] = 6 /\ Digit["7"] = 7 /\ Digit["8"] = 8 /\ Digit["9"] = 9
  BY DEF Digit
<1>3. QED BY <1>1, <1>2

\* The digits of s at the places S, which are among the first m.
DigitsAt(s, S, m) == m \in Nat /\ S \subseteq 1 .. m /\ \A i \in S : s[i] \in DOMAIN Digit

Weight(s, S, m) == [i \in S |-> Digit[s[i]] * Pow10[m - i]]

LEMMA DecimalIs == ASSUME NEW s, NEW S, NEW m PROVE Decimal(s, S, m) = SumOn(Weight(s, S, m), S)
<1>1. DOMAIN Weight(s, S, m) = S
  BY DEF Weight
<1>2. Decimal(s, S, m) = SumFunction(Weight(s, S, m))
  BY DEF Decimal, Weight
<1>3. QED BY <1>1, <1>2 DEF SumFunction, SumOn

LEMMA PlacesFinite == ASSUME NEW S, NEW m \in Nat, S \subseteq 1 .. m PROVE IsFiniteSet(S)
<1>1. IsFiniteSet(1 .. m)
  BY FS_Interval
<1>2. QED BY <1>1, FS_Subset

LEMMA WeightType ==
    ASSUME NEW s, NEW S, NEW m, DigitsAt(s, S, m)
    PROVE  \A i \in S : Weight(s, S, m)[i] \in Nat /\ Weight(s, S, m)[i] = Digit[s[i]] * Pow10[m - i]
<1> SUFFICES ASSUME NEW i \in S
             PROVE  Weight(s, S, m)[i] \in Nat /\ Weight(s, S, m)[i] = Digit[s[i]] * Pow10[m - i]
  OBVIOUS
<1>1. m - i \in Nat
  BY DEF DigitsAt
<1>2. Digit[s[i]] \in Nat /\ Pow10[m - i] \in Nat
  BY <1>1, DigitType, PowType DEF DigitsAt
<1>3. Weight(s, S, m)[i] = Digit[s[i]] * Pow10[m - i]
  BY DEF Weight
<1>4. \A a, b \in Nat : a * b \in Nat
  OBVIOUS
<1>5. QED BY <1>2, <1>3, <1>4

LEMMA DecimalType ==
    ASSUME NEW s, NEW S, NEW m, DigitsAt(s, S, m)
    PROVE  Decimal(s, S, m) \in Nat
<1>1. IsFiniteSet(S)
  BY PlacesFinite DEF DigitsAt
<1>2. \A i \in S : Weight(s, S, m)[i] \in Nat
  BY WeightType
<1>3. SumOn(Weight(s, S, m), S) \in Nat
  BY <1>1, <1>2, SumType
<1>4. QED BY <1>3, DecimalIs

LEMMA DecimalNone == ASSUME NEW s, NEW m PROVE Decimal(s, {}, m) = 0
BY DecimalIs, SumEmpty

\* One digit more: ten times what was there, and the digit.
LEMMA Horner ==
    ASSUME NEW s, NEW S, NEW m, DigitsAt(s, S, m), s[m + 1] \in DOMAIN Digit
    PROVE  /\ DigitsAt(s, S \union {m + 1}, m + 1)
           /\ Decimal(s, S \union {m + 1}, m + 1) = 10 * Decimal(s, S, m) + Digit[s[m + 1]]
<1> DEFINE T == S \union {m + 1}
           f == Weight(s, S, m)
           g == Weight(s, T, m + 1)
<1>1. m \in Nat /\ m + 1 \in Nat /\ S \subseteq 1 .. m /\ m + 1 \notin S /\ m + 1 \in T
  BY DEF DigitsAt
<1>2. DigitsAt(s, T, m + 1)
  <2>1. T \subseteq 1 .. (m + 1)
    BY <1>1
  <2>2. \A i \in T : s[i] \in DOMAIN Digit
    BY DEF DigitsAt
  <2>3. QED BY <1>1, <2>1, <2>2 DEF DigitsAt
<1>3. IsFiniteSet(S)
  BY <1>1, PlacesFinite
<1>4. \A i \in S : f[i] \in Nat /\ f[i] = Digit[s[i]] * Pow10[m - i]
  BY WeightType
<1>5. \A i \in T : g[i] \in Nat /\ g[i] = Digit[s[i]] * Pow10[(m + 1) - i]
  BY <1>2, WeightType
<1> HIDE DEF f, g, T
<1>6. g[m + 1] = Digit[s[m + 1]]
  <2>1. (m + 1) - (m + 1) = 0
    BY <1>1
  <2>2. Digit[s[m + 1]] \in Nat
    BY DigitType
  <2>3. g[m + 1] = Digit[s[m + 1]] * 1
    BY <1>1, <1>5, <2>1, PowStep
  <2>4. QED BY <2>2, <2>3
<1>7. Scaled(f, g, 10, S)
  <2>1. SUFFICES ASSUME NEW i \in S PROVE f[i] \in Nat /\ g[i] = 10 * f[i]
    BY DEF Scaled
  <2>2. m - i \in Nat /\ (m + 1) - i = (m - i) + 1
    BY <1>1
  <2>3. Pow10[(m + 1) - i] = 10 * Pow10[m - i] /\ Pow10[m - i] \in Nat
    BY <2>2, PowStep, PowType
  <2>4. Digit[s[i]] \in Nat
    BY DigitType DEF DigitsAt
  <2>5. g[i] = Digit[s[i]] * Pow10[(m + 1) - i] /\ f[i] = Digit[s[i]] * Pow10[m - i] /\ f[i] \in Nat
    BY <1>4, <1>5 DEF T
  <2>6. \A a, b \in Nat : a * (10 * b) = 10 * (a * b)
    OBVIOUS
  <2>7. Digit[s[i]] * (10 * Pow10[m - i]) = 10 * (Digit[s[i]] * Pow10[m - i])
    BY ONLY <2>3, <2>4, <2>6
  <2>8. QED BY ONLY <2>3, <2>5, <2>7
<1>8. SumOn(g, S) = 10 * SumOn(f, S)
  <2>1. 10 \in Nat
    OBVIOUS
  <2>2. QED BY ONLY <1>3, <1>7, <2>1, SumScale
<1>9. SumOn(g, T) = SumOn(g, S) + g[m + 1]
  <2>1. g[m + 1] \in Nat /\ \A x \in S : g[x] \in Nat
    BY <1>1, <1>5 DEF T
  <2>2. SumOn(g, S \union {m + 1}) = SumOn(g, S) + g[m + 1]
    BY ONLY <1>1, <1>3, <2>1, SumAdd
  <2>3. QED BY <2>2 DEF T
<1>10. Decimal(s, S, m) = SumOn(f, S) /\ Decimal(s, T, m + 1) = SumOn(g, T)
  BY DecimalIs DEF f, g
<1>11. Decimal(s, T, m + 1) = 10 * Decimal(s, S, m) + Digit[s[m + 1]]
  BY ONLY <1>6, <1>8, <1>9, <1>10
<1>12. QED BY <1>2, <1>11 DEF T

-----------------------------------------------------------------------------
(* parse_size *)

LEMMA Limits == UNIT \in Nat /\ U16 \in Nat \ {0} /\ U64 \in Nat \ {0} /\ MiB \in Nat /\ GiB \in Nat
<1>1. UNIT \in Nat /\ U16 \in Nat \ {0} /\ U64 \in Nat \ {0}
  BY ConfigAssumption
<1>2. \A a, b \in Nat : a * b \in Nat
  OBVIOUS
<1>3. MiB \in Nat
  BY <1>1, <1>2 DEF MiB
<1>4. GiB \in Nat
  BY <1>1, <1>2, <1>3 DEF GiB
<1>5. QED BY <1>1, <1>3, <1>4

LEMMA MultiplierType == \A c \in DOMAIN Multiplier : Multiplier[c] \in Nat
<1> SUFFICES ASSUME NEW c \in DOMAIN Multiplier PROVE Multiplier[c] \in Nat
  OBVIOUS
<1>1. UNIT * GiB \in Nat
  <2>1. \A a, b \in Nat : a * b \in Nat
    OBVIOUS
  <2>2. QED BY <2>1, Limits
<1>2. Multiplier[c] \in {UNIT, MiB, GiB, UNIT * GiB, 1}
  BY DEF Multiplier
<1>3. QED BY <1>1, <1>2, Limits

LEMMA DefaultType == \A v \in Sizes : DefaultOf[v] \in Nat
<1>1. \A a, b \in Nat : a * b \in Nat
  OBVIOUS
<1>2. 10 * GiB \in Nat /\ 64 * MiB \in Nat
  BY <1>1, Limits
<1>3. ASSUME NEW v \in Sizes PROVE DefaultOf[v] \in {8, 24, 10 * GiB, 64 * MiB}
  BY DEF DefaultOf, Sizes
<1>4. QED BY <1>2, <1>3

\* What a value of 64 bits holds of a number.
LEMMA WrapIs ==
    ASSUME NEW a \in Nat
    PROVE  a % U64 \in Nat /\ (a < U64 => a % U64 = a)
<1>1. U64 \in Nat \ {0}
  BY Limits
<1>2. a % U64 \in Nat
  BY ONLY <1>1, a \in Nat, DivMod
<1>3. ASSUME a < U64 PROVE a % U64 = a
  <2>1. (0 * U64 + a) % U64 = a
    BY ONLY <1>1, <1>3, a \in Nat, Remainder
  <2>2. 0 * U64 + a = a
    BY ONLY <1>1, a \in Nat
  <2>3. QED BY ONLY <2>1, <2>2
<1>4. QED BY <1>2, <1>3

SizeState == [v : Nat, returned : BOOLEAN]
SizeLevel(f, s, default, n) ==
    IF n = 0 THEN [v |-> 0, returned |-> FALSE] ELSE SizeChar(f[n - 1], s[n], default)
SizeTurns(s, default) == CHOOSE f : f = [n \in 0 .. Len(s) |-> SizeLevel(f, s, default, n)]

LEMMA SizeIs ==
    ASSUME NEW s, NEW default
    PROVE  parse_size(s, default) =
             IF s \in {UNSET, <<>>} THEN default ELSE SizeTurns(s, default)[Len(s)].v
BY Zenon DEF parse_size, SizeTurns, SizeLevel

\* One turn, by the character it reads.
SizeTurnIs(a, c, default, b) ==
    /\ a.returned => b = a
    /\ ~ a.returned /\ c \in DOMAIN Digit
       => b.returned = FALSE /\ b.v = (a.v * 10 + Digit[c]) % U64
    /\ ~ a.returned /\ c \notin DOMAIN Digit /\ c \in DOMAIN Multiplier
       => b.returned = TRUE /\ b.v = (a.v * Multiplier[c]) % U64
    /\ ~ a.returned /\ c \notin DOMAIN Digit /\ c \notin DOMAIN Multiplier
       => b.returned = TRUE /\ b.v = default

LEMMA SizeTurn ==
    ASSUME NEW a \in SizeState, NEW c, NEW default \in Nat
    PROVE  /\ SizeChar(a, c, default) \in SizeState
           /\ SizeTurnIs(a, c, default, SizeChar(a, c, default))
<1> USE DEF SizeTurnIs
<1> DEFINE b == SizeChar(a, c, default)
<1>0. a.v \in Nat /\ a.returned \in BOOLEAN /\ a = [v |-> a.v, returned |-> a.returned]
  BY DEF SizeState
<1>1. CASE a.returned
  <2>1. b = a
    BY <1>1 DEF SizeChar
  <2>2. QED BY <1>1, <2>1
<1>2. CASE ~ a.returned /\ c \in DOMAIN Digit
  <2>1. b = [a EXCEPT !.v = (a.v * 10 + Digit[c]) % U64]
    BY <1>2 DEF SizeChar
  <2>2. a.v * 10 + Digit[c] \in Nat
    BY <1>0, <1>2, DigitType
  <2> DEFINE w == (a.v * 10 + Digit[c]) % U64
  <2>3. w \in Nat
    BY <2>2, WrapIs
  <2> HIDE DEF w
  <2>4. b = [v |-> w, returned |-> FALSE]
    BY <1>0, <1>2, <2>1 DEF w, SizeState
  <2>5. b \in SizeState /\ b.v = w /\ b.returned = FALSE
    BY <2>3, <2>4 DEF SizeState
  <2>6. QED BY <1>2, <2>5 DEF w
<1>3. CASE ~ a.returned /\ c \notin DOMAIN Digit /\ c \in DOMAIN Multiplier
  <2> DEFINE w == (a.v * Multiplier[c]) % U64
  <2>1. b = [v |-> w, returned |-> TRUE]
    BY <1>3 DEF SizeChar
  <2>2. a.v * Multiplier[c] \in Nat
    <3>1. \A x, y \in Nat : x * y \in Nat
      OBVIOUS
    <3>2. QED BY <1>0, <1>3, <3>1, MultiplierType
  <2>3. w \in Nat
    BY <2>2, WrapIs
  <2> HIDE DEF w
  <2>4. b \in SizeState /\ b.v = w /\ b.returned = TRUE
    BY <2>1, <2>3 DEF SizeState
  <2>5. QED BY <1>3, <2>4 DEF w
<1>4. CASE ~ a.returned /\ c \notin DOMAIN Digit /\ c \notin DOMAIN Multiplier
  <2>1. b = [v |-> default, returned |-> TRUE]
    BY <1>4 DEF SizeChar
  <2>2. b \in SizeState /\ b.v = default /\ b.returned = TRUE
    BY <2>1 DEF SizeState
  <2>3. QED BY <1>4, <2>2
<1>5. QED BY <1>0, <1>1, <1>2, <1>3, <1>4

\* The states of the loop of parse_size.
SizeLoop(g, s, default) ==
    /\ g[0] = [v |-> 0, returned |-> FALSE]
    /\ \A n \in 1 .. Len(s) : g[n] = SizeChar(g[n - 1], s[n], default)
    /\ \A n \in 0 .. Len(s) : g[n] \in SizeState

LEMMA SizeTable ==
    ASSUME NEW s \in Seq(STRING), NEW default \in Nat
    PROVE  SizeLoop(SizeTurns(s, default), s, default)
<1> DEFINE N == Len(s)
           b == [v |-> 0, returned |-> FALSE]
           R == [n \in 1 .. N |-> [a \in SizeState |-> SizeChar(a, s[n], default)]]
<1>1. N \in Nat
  BY LenProperties
<1>2. b \in SizeState
  BY DEF SizeState
<1>3. R \in [1 .. N -> [SizeState -> SizeState]]
  <2>1. \A n \in 1 .. N : \A a \in SizeState : SizeChar(a, s[n], default) \in SizeState
    BY SizeTurn
  <2>2. QED BY <2>1
<1>4. \A n \in 1 .. N : \A a \in SizeState : R[n][a] = SizeChar(a, s[n], default)
  OBVIOUS
<1> HIDE DEF R, b
<1>5. PICK h \in [0 .. N -> SizeState] : Turns(h, b, R, N)
  BY <1>1, <1>2, <1>3, Iterates
<1>6. \A n \in 0 .. N : h[n] = SizeLevel(h, s, default, n)
  <2>1. SUFFICES ASSUME NEW n \in 0 .. N PROVE h[n] = SizeLevel(h, s, default, n)
    OBVIOUS
  <2>2. CASE n = 0
    BY <1>5, <2>2 DEF Turns, SizeLevel, b
  <2>3. CASE n # 0
    <3>1. n \in 1 .. N /\ n - 1 \in 0 .. N
      BY <1>1, <2>3
    <3>2. h[n] = R[n][h[n - 1]] /\ h[n - 1] \in SizeState
      BY <1>5, <3>1 DEF Turns
    <3>3. QED BY <1>4, <2>3, <3>1, <3>2 DEF SizeLevel
  <2>4. QED BY <2>2, <2>3
<1>7. h = [n \in 0 .. N |-> SizeLevel(h, s, default, n)]
  BY <1>6
<1>8. \E f : f = [n \in 0 .. Len(s) |-> SizeLevel(f, s, default, n)]
  BY <1>7, Zenon
<1> DEFINE g == SizeTurns(s, default)
<1>9. g = [n \in 0 .. Len(s) |-> SizeLevel(g, s, default, n)]
  BY <1>8, Zenon DEF SizeTurns
<1> HIDE DEF g
<1>10. \A n \in 0 .. N : g[n] = SizeLevel(g, s, default, n)
  BY <1>9
<1>11. g[0] = b
  BY <1>1, <1>10 DEF SizeLevel, b
<1>12. \A n \in 1 .. N : g[n] = SizeChar(g[n - 1], s[n], default)
  BY <1>1, <1>10 DEF SizeLevel
<1> DEFINE P == {n \in 0 .. N : g[n] \in SizeState}
<1>13. 0 \in P
  BY <1>1, <1>2, <1>11
<1>14. \A n \in 1 .. N : n - 1 \in P => n \in P
  <2>1. SUFFICES ASSUME NEW n \in 1 .. N, n - 1 \in P PROVE n \in P
    OBVIOUS
  <2>2. g[n - 1] \in SizeState
    BY <2>1
  <2>3. SizeChar(g[n - 1], s[n], default) \in SizeState
    BY <2>2, SizeTurn
  <2>4. QED BY <1>1, <1>12, <2>3
<1>15. \A n \in 0 .. N : n \in P
  BY ONLY <1>1, <1>13, <1>14, EveryTurn
<1>16. \A n \in 0 .. N : g[n] \in SizeState
  BY <1>15
<1>17. QED BY <1>11, <1>12, <1>16 DEF SizeLoop, g, b

\* Whatever .env says, a size is a number.
LEMMA SizeType ==
    ASSUME NEW s \in Text, NEW default \in Nat
    PROVE  parse_size(s, default) \in Nat
<1>1. CASE s \in {UNSET, <<>>}
  BY <1>1, SizeIs
<1>2. CASE s \notin {UNSET, <<>>}
  <2>1. s \in Seq(STRING)
    BY <1>2 DEF Text
  <2>2. Len(s) \in 0 .. Len(s)
    BY <2>1, LenProperties
  <2>3. SizeTurns(s, default)[Len(s)] \in SizeState
    BY <2>1, <2>2, SizeTable DEF SizeLoop
  <2>4. SizeTurns(s, default)[Len(s)].v \in Nat
    BY <2>3 DEF SizeState
  <2>5. QED BY <1>2, <2>4, SizeIs
<1>3. QED BY <1>1, <1>2

-----------------------------------------------------------------------------
(* What a size says *)

\* The number of digits a text starts with.
Leads(s, k) ==
    /\ \A i \in 1 .. k : s[i] \in DOMAIN Digit
    /\ k < Len(s) => s[k + 1] \notin DOMAIN Digit
LeadOf(s) == CHOOSE k \in 0 .. Len(s) : Leads(s, k)

LEMMA LeadIs ==
    ASSUME NEW s \in Seq(STRING)
    PROVE  LeadOf(s) \in 0 .. Len(s) /\ Leads(s, LeadOf(s))
<1> DEFINE S == {k \in Nat : k <= Len(s) /\ (k < Len(s) => s[k + 1] \notin DOMAIN Digit)}
<1>1. Len(s) \in Nat
  BY LenProperties
<1>2. Len(s) \in S
  BY <1>1
<1>3. S # {} /\ S \subseteq Nat
  BY <1>2
<1>4. PICK k \in S : \A m \in S : k <= m
  BY <1>3, Least
<1>5. k \in Nat /\ k <= Len(s) /\ (k < Len(s) => s[k + 1] \notin DOMAIN Digit)
  OBVIOUS
<1>6. \A i \in 1 .. k : s[i] \in DOMAIN Digit
  <2>1. SUFFICES ASSUME NEW i \in 1 .. k PROVE s[i] \in DOMAIN Digit
    OBVIOUS
  <2>2. i - 1 \in Nat /\ i - 1 < Len(s) /\ ~ (k <= i - 1) /\ (i - 1) + 1 = i
    BY <1>1, <1>5
  <2>3. i - 1 \notin S
    BY <1>4, <2>2
  <2>4. QED BY <2>2, <2>3
<1>7. k \in 0 .. Len(s) /\ Leads(s, k)
  BY <1>1, <1>5, <1>6 DEF Leads
<1>8. QED BY <1>7, Zenon DEF LeadOf

LEMMA MeansIs ==
    ASSUME NEW s, NEW default
    PROVE  SizeMeans(s, default) =
             IF s \in {UNSET, <<>>} THEN default
             ELSE IF LeadOf(s) = Len(s) THEN Decimal(s, 1 .. LeadOf(s), LeadOf(s))
             ELSE IF s[LeadOf(s) + 1] \in DOMAIN Multiplier
                  THEN Decimal(s, 1 .. LeadOf(s), LeadOf(s)) * Multiplier[s[LeadOf(s) + 1]]
                  ELSE default
BY Zenon DEF SizeMeans, LeadOf, Leads

\* What the loop holds after n characters, k of which at most are digits.
SizeRead(a, s, default, k, n) ==
    \/ n <= k /\ ~ a.returned /\ a.v = Decimal(s, 1 .. n, n) % U64
    \/ /\ n > k /\ a.returned
       /\ a.v = IF s[k + 1] \in DOMAIN Multiplier
                THEN (Decimal(s, 1 .. k, k) * Multiplier[s[k + 1]]) % U64 ELSE default

LEMMA SizeReadOn ==
    ASSUME NEW s \in Seq(STRING), NEW default \in Nat, NEW g, SizeLoop(g, s, default),
           NEW k \in 0 .. Len(s), Leads(s, k), NEW n \in 1 .. Len(s),
           SizeRead(g[n - 1], s, default, k, n - 1)
    PROVE  SizeRead(g[n], s, default, k, n)
<1> DEFINE a == g[n - 1]
           c == s[n]
           b == SizeChar(a, c, default)
<1>1. n \in Nat /\ n - 1 \in Nat /\ n - 1 \in 0 .. Len(s) /\ (n - 1) + 1 = n /\ k \in Nat /\ Len(s) \in Nat
  BY LenProperties
<1>2. a \in SizeState /\ g[n] = b
  BY <1>1 DEF SizeLoop
<1>3. /\ a.returned => b = a
      /\ ~ a.returned /\ c \in DOMAIN Digit
         => b.returned = FALSE /\ b.v = (a.v * 10 + Digit[c]) % U64
      /\ ~ a.returned /\ c \notin DOMAIN Digit /\ c \in DOMAIN Multiplier
         => b.returned = TRUE /\ b.v = (a.v * Multiplier[c]) % U64
      /\ ~ a.returned /\ c \notin DOMAIN Digit /\ c \notin DOMAIN Multiplier
         => b.returned = TRUE /\ b.v = default
  <2>1. SizeTurnIs(a, c, default, b)
    BY <1>2, SizeTurn
  <2> HIDE DEF a, b, c
  <2>2. QED BY <2>1 DEF SizeTurnIs
<1>4. SizeRead(a, s, default, k, n - 1)
  OBVIOUS
<1> HIDE DEF a, b
<1>5. U64 \in Nat \ {0}
  BY Limits
<1>6. CASE n - 1 <= k /\ ~ a.returned /\ a.v = Decimal(s, 1 .. (n - 1), n - 1) % U64 /\ n <= k
  <2>1. DigitsAt(s, 1 .. (n - 1), n - 1) /\ s[(n - 1) + 1] \in DOMAIN Digit
    BY <1>1, <1>6 DEF DigitsAt, Leads
  <2>2. (1 .. (n - 1)) \union {(n - 1) + 1} = 1 .. n
    BY <1>1
  <2>3. Decimal(s, 1 .. n, n) = 10 * Decimal(s, 1 .. (n - 1), n - 1) + Digit[s[n]]
    <3>1. Decimal(s, (1 .. (n - 1)) \union {(n - 1) + 1}, (n - 1) + 1)
            = 10 * Decimal(s, 1 .. (n - 1), n - 1) + Digit[s[(n - 1) + 1]]
      BY ONLY <2>1, Horner
    <3>2. QED BY ONLY <1>1, <2>2, <3>1
  <2>4. Decimal(s, 1 .. (n - 1), n - 1) \in Nat
    BY <2>1, DecimalType
  <2>5. b.returned = FALSE /\ b.v = (a.v * 10 + Digit[c]) % U64
    BY <1>1, <1>3, <1>6, <2>1
  <2>6. Digit[c] \in Nat
    BY <1>1, <2>1, DigitType
  <2> DEFINE d == Decimal(s, 1 .. (n - 1), n - 1)
             e == Digit[c]
  <2>7. b.v = Decimal(s, 1 .. n, n) % U64
    <3>1. b.v = ((d % U64) * 10 + e) % U64
      BY <1>6, <2>5
    <3>2. Decimal(s, 1 .. n, n) = 10 * d + e
      BY <2>3
    <3>3. d \in Nat /\ e \in Nat
      BY <2>4, <2>6
    <3> HIDE DEF d, e
    <3>4. ((d % U64) * 10 + e) % U64 = (d * 10 + e) % U64
      BY ONLY <1>5, <3>3, 10 \in Nat, WrapOnTheWay, ZenonT(60)
    <3>5. d * 10 + e = 10 * d + e
      BY ONLY <3>3
    <3>6. QED BY ONLY <3>1, <3>2, <3>4, <3>5
  <2>8. QED BY <1>2, <1>6, <2>5, <2>7 DEF SizeRead
<1>7. CASE n - 1 <= k /\ ~ a.returned /\ a.v = Decimal(s, 1 .. (n - 1), n - 1) % U64 /\ ~ (n <= k)
  <2>1. n - 1 = k /\ n > k /\ k < Len(s) /\ n = k + 1
    BY <1>1, <1>7
  <2>2. s[k + 1] \notin DOMAIN Digit /\ c = s[k + 1]
    BY <2>1 DEF Leads
  <2>3. a.v = Decimal(s, 1 .. k, k) % U64
    BY <1>7, <2>1
  <2>4. CASE c \in DOMAIN Multiplier
    <3>1. b.returned = TRUE /\ b.v = (a.v * Multiplier[c]) % U64
      BY <1>3, <1>7, <2>2, <2>4
    <3> DEFINE d == Decimal(s, 1 .. k, k)
               e == Multiplier[c]
    <3>2. b.v = (Decimal(s, 1 .. k, k) * Multiplier[s[k + 1]]) % U64
      <4>1. d \in Nat /\ e \in Nat
        <5>1. DigitsAt(s, 1 .. k, k)
          BY <1>1 DEF DigitsAt, Leads
        <5>2. QED BY <2>4, <5>1, DecimalType, MultiplierType
      <4>2. b.v = ((d % U64) * e) % U64
        BY <2>3, <3>1
      <4> HIDE DEF d, e
      <4>3. ((d % U64) * e + 0) % U64 = (d * e + 0) % U64
        BY ONLY <1>5, <4>1, 0 \in Nat, WrapOnTheWay, ZenonT(60)
      <4>4. d % U64 \in Nat
        BY <4>1, WrapIs
      <4>5. (d % U64) * e + 0 = (d % U64) * e /\ d * e + 0 = d * e
        BY ONLY <4>1, <4>4
      <4>6. QED BY <2>2, <4>2, <4>3, <4>5 DEF d, e
    <3>3. QED BY <1>2, <2>1, <2>2, <2>4, <3>1, <3>2 DEF SizeRead
  <2>5. CASE c \notin DOMAIN Multiplier
    <3>1. b.returned = TRUE /\ b.v = default
      BY <1>3, <1>7, <2>2, <2>5
    <3>2. QED BY <1>2, <2>1, <2>2, <2>5, <3>1 DEF SizeRead
  <2>6. QED BY <2>4, <2>5
<1>8. CASE n - 1 > k /\ a.returned
  <2>1. b = a /\ n > k
    BY <1>1, <1>3, <1>8
  <2>2. a.v = IF s[k + 1] \in DOMAIN Multiplier
              THEN (Decimal(s, 1 .. k, k) * Multiplier[s[k + 1]]) % U64 ELSE default
    <3>1. ~ (n - 1 <= k)
      BY <1>1, <1>8
    <3>2. QED BY <1>4, <1>8, <3>1 DEF SizeRead
  <2>3. QED BY <1>2, <1>8, <2>1, <2>2 DEF SizeRead
<1>9. QED BY <1>4, <1>6, <1>7, <1>8 DEF SizeRead

\* A size is what its text says, modulo 2^64.
LEMMA SizeAsWritten ==
    ASSUME NEW s \in Text, NEW default \in Nat, default < U64
    PROVE  parse_size(s, default) = SizeMeans(s, default) % U64
<1>0. default % U64 = default
  BY WrapIs
<1>1. CASE s \in {UNSET, <<>>}
  BY <1>0, <1>1, SizeIs, MeansIs
<1>2. CASE s \notin {UNSET, <<>>}
  <2>1. s \in Seq(STRING)
    BY <1>2 DEF Text
  <2> DEFINE g == SizeTurns(s, default)
             k == LeadOf(s)
             N == Len(s)
             P == {n \in 0 .. N : SizeRead(g[n], s, default, k, n)}
  <2>2. N \in Nat /\ k \in 0 .. N /\ k \in Nat /\ Leads(s, k)
    BY <2>1, LeadIs, LenProperties
  <2>3. SizeLoop(g, s, default)
    BY <2>1, SizeTable
  <2>4. 0 % U64 = 0
    <3>1. U64 > 0
      BY Limits
    <3>2. QED BY <3>1, WrapIs
  <2>5. parse_size(s, default) = g[N].v
    BY <1>2, SizeIs
  <2> HIDE DEF g, k
  <2>6. 0 \in P
    <3>1. g[0].v = 0 /\ ~ g[0].returned
      BY <2>3 DEF SizeLoop
    <3>2. 1 .. 0 = {}
      OBVIOUS
    <3>3. Decimal(s, 1 .. 0, 0) = 0
      BY <3>2, DecimalNone
    <3>4. 0 <= k /\ 0 \in 0 .. N
      BY <2>2
    <3>5. SizeRead(g[0], s, default, k, 0)
      BY <2>4, <3>1, <3>3, <3>4 DEF SizeRead
    <3>6. QED BY <3>4, <3>5
  <2>7. \A n \in 1 .. N : n - 1 \in P => n \in P
    <3>1. SUFFICES ASSUME NEW n \in 1 .. N, n - 1 \in P PROVE n \in P
      OBVIOUS
    <3>2. SizeRead(g[n - 1], s, default, k, n - 1)
      BY <3>1
    <3>3. SizeRead(g[n], s, default, k, n)
      BY <2>1, <2>2, <2>3, <3>2, SizeReadOn
    <3>4. n \in 0 .. N
      BY <2>2
    <3>5. QED BY <3>3, <3>4
  <2>8. \A n \in 0 .. N : n \in P
    BY ONLY <2>2, <2>6, <2>7, EveryTurn
  <2>9. SizeRead(g[N], s, default, k, N)
    BY <2>2, <2>8
  <2>11. CASE k = N
    <3>1. ~ (N > k)
      BY <2>2, <2>11
    <3>2. g[N].v = Decimal(s, 1 .. k, k) % U64
      BY <2>9, <2>11, <3>1 DEF SizeRead
    <3>3. SizeMeans(s, default) = Decimal(s, 1 .. k, k)
      BY <1>2, <2>11, MeansIs DEF k
    <3>4. QED BY <2>5, <3>2, <3>3
  <2>12. CASE k # N
    <3>1. ~ (N <= k)
      BY <2>2, <2>12
    <3>2. g[N].v = IF s[k + 1] \in DOMAIN Multiplier
                   THEN (Decimal(s, 1 .. k, k) * Multiplier[s[k + 1]]) % U64 ELSE default
      BY <2>9, <3>1 DEF SizeRead
    <3>3. SizeMeans(s, default) = IF s[k + 1] \in DOMAIN Multiplier
                   THEN Decimal(s, 1 .. k, k) * Multiplier[s[k + 1]] ELSE default
      BY <1>2, <2>12, MeansIs DEF k
    <3>4. QED BY <1>0, <2>5, <3>2, <3>3
  <2>13. QED BY <2>11, <2>12
<1>3. QED BY <1>1, <1>2

-----------------------------------------------------------------------------
(* parse_ipv4 *)

IpState == [out : Seq(Nat), acc : Nat, seen : BOOLEAN, bad : BOOLEAN]
IpStart == [out |-> <<>>, acc |-> 0, seen |-> FALSE, bad |-> FALSE]
IpLevel(f, s, n) ==
    IF n = 0 THEN [out |-> <<>>, acc |-> 0, seen |-> FALSE, bad |-> FALSE]
    ELSE IpChar(f[n - 1], s[n])
IpTurns(s) == CHOOSE f : f = [n \in 0 .. Len(s) |-> IpLevel(f, s, n)]

LEMMA IpIs ==
    ASSUME NEW s
    PROVE  parse_ipv4(s) =
             IF s = UNSET THEN NoAddress
             ELSE IF IpTurns(s)[Len(s)].bad \/ ~ IpTurns(s)[Len(s)].seen
                     \/ Len(IpTurns(s)[Len(s)].out) # 3
                  THEN NoAddress
                  ELSE Append(IpTurns(s)[Len(s)].out, IpTurns(s)[Len(s)].acc)
BY Zenon DEF parse_ipv4, IpTurns, IpLevel

\* One turn, by the character it reads.
Closes(a, c) == c \notin DOMAIN Digit /\ c = "." /\ a.seen /\ Len(a.out) < 3

IpTurnIs(a, c, b) ==
    /\ a.bad => b = a
    /\ ~ a.bad /\ c \in DOMAIN Digit
       => /\ b.out = a.out /\ b.acc = a.acc * 10 + Digit[c]
          /\ b.seen = TRUE /\ b.bad = (b.acc > 255)
    /\ ~ a.bad /\ Closes(a, c)
       => b.out = Append(a.out, a.acc) /\ b.acc = 0 /\ b.seen = FALSE /\ b.bad = FALSE
    /\ ~ a.bad /\ c \notin DOMAIN Digit /\ ~ Closes(a, c) => b.bad = TRUE

LEMMA IpTurn ==
    ASSUME NEW a \in IpState, NEW c
    PROVE  IpChar(a, c) \in IpState /\ IpTurnIs(a, c, IpChar(a, c))
<1> DEFINE b == IpChar(a, c)
<1>0. /\ a.out \in Seq(Nat) /\ a.acc \in Nat /\ a.seen \in BOOLEAN /\ a.bad \in BOOLEAN
      /\ a = [out |-> a.out, acc |-> a.acc, seen |-> a.seen, bad |-> a.bad]
  BY DEF IpState
<1>1. CASE a.bad
  <2>1. b = a
    BY <1>1 DEF IpChar
  <2>2. QED BY <1>1, <2>1 DEF IpTurnIs
<1>2. CASE ~ a.bad /\ c \in DOMAIN Digit
  <2> DEFINE w == a.acc * 10 + Digit[c]
  <2>1. b = [a EXCEPT !.acc = w, !.seen = TRUE, !.bad = w > 255]
    BY <1>2 DEF IpChar
  <2>2. w \in Nat
    BY <1>0, <1>2, DigitType
  <2>3. (w > 255) \in BOOLEAN
    OBVIOUS
  <2> HIDE DEF w
  <2>4. b = [out |-> a.out, acc |-> w, seen |-> TRUE, bad |-> w > 255]
    BY <2>1 DEF IpState
  <2>5. b \in IpState
    BY <1>0, <2>2, <2>3, <2>4 DEF IpState
  <2>6. b.out = a.out /\ b.acc = w /\ b.seen = TRUE /\ b.bad = (w > 255)
    BY <2>4
  <2> HIDE DEF b
  <2>7. IpTurnIs(a, c, b)
    BY <1>2, <2>6 DEF IpTurnIs, Closes, w
  <2>8. QED BY <2>5, <2>7 DEF b
<1>3. CASE ~ a.bad /\ Closes(a, c)
  <2>1. b = [a EXCEPT !.out = Append(a.out, a.acc), !.acc = 0, !.seen = FALSE]
    BY <1>3 DEF IpChar, Closes
  <2>2. Append(a.out, a.acc) \in Seq(Nat)
    BY <1>0, AppendProperties
  <2>3. b = [out |-> Append(a.out, a.acc), acc |-> 0, seen |-> FALSE, bad |-> FALSE]
    BY <1>0, <1>3, <2>1 DEF IpState
  <2>4. b \in IpState
    BY <2>2, <2>3 DEF IpState
  <2>5. b.out = Append(a.out, a.acc) /\ b.acc = 0 /\ b.seen = FALSE /\ b.bad = FALSE
    BY <2>3
  <2> HIDE DEF b
  <2>6. IpTurnIs(a, c, b)
    BY <1>3, <2>5 DEF IpTurnIs, Closes
  <2>7. QED BY <2>4, <2>6 DEF b
<1>4. CASE ~ a.bad /\ c \notin DOMAIN Digit /\ ~ Closes(a, c)
  <2>1. b = [a EXCEPT !.bad = TRUE]
    BY <1>4 DEF IpChar, Closes
  <2>2. b = [out |-> a.out, acc |-> a.acc, seen |-> a.seen, bad |-> TRUE]
    BY <2>1 DEF IpState
  <2>3. b \in IpState /\ b.bad = TRUE
    BY <1>0, <2>2 DEF IpState
  <2> HIDE DEF b
  <2>4. IpTurnIs(a, c, b)
    BY <1>4, <2>3 DEF IpTurnIs
  <2>5. QED BY <2>3, <2>4 DEF b
<1>5. QED BY <1>1, <1>2, <1>3, <1>4 DEF Closes

\* The states of the loop of parse_ipv4.
IpLoop(g, s) ==
    /\ g[0] = IpStart
    /\ \A n \in 1 .. Len(s) : g[n] = IpChar(g[n - 1], s[n])
    /\ \A n \in 0 .. Len(s) : g[n] \in IpState

LEMMA IpTable == ASSUME NEW s \in Seq(STRING) PROVE IpLoop(IpTurns(s), s)
<1> DEFINE N == Len(s)
           R == [n \in 1 .. N |-> [a \in IpState |-> IpChar(a, s[n])]]
<1>1. N \in Nat
  BY LenProperties
<1>2. IpStart \in IpState
  <2>1. <<>> \in Seq(Nat)
    BY EmptySeq
  <2>2. QED BY <2>1 DEF IpStart, IpState
<1>3. R \in [1 .. N -> [IpState -> IpState]]
  <2>1. \A n \in 1 .. N : \A a \in IpState : IpChar(a, s[n]) \in IpState
    BY IpTurn
  <2>2. QED BY <2>1
<1>4. \A n \in 1 .. N : \A a \in IpState : R[n][a] = IpChar(a, s[n])
  OBVIOUS
<1> HIDE DEF R
<1>5. PICK h \in [0 .. N -> IpState] : Turns(h, IpStart, R, N)
  BY <1>1, <1>2, <1>3, Iterates
<1>6. \A n \in 0 .. N : h[n] = IpLevel(h, s, n)
  <2>1. SUFFICES ASSUME NEW n \in 0 .. N PROVE h[n] = IpLevel(h, s, n)
    OBVIOUS
  <2>2. CASE n = 0
    BY <1>5, <2>2 DEF Turns, IpLevel, IpStart
  <2>3. CASE n # 0
    <3>1. n \in 1 .. N /\ n - 1 \in 0 .. N
      BY <1>1, <2>3
    <3>2. h[n] = R[n][h[n - 1]] /\ h[n - 1] \in IpState
      BY <1>5, <3>1 DEF Turns
    <3>3. QED BY <1>4, <2>3, <3>1, <3>2 DEF IpLevel
  <2>4. QED BY <2>2, <2>3
<1>7. h = [n \in 0 .. N |-> IpLevel(h, s, n)]
  BY <1>6
<1>8. \E f : f = [n \in 0 .. Len(s) |-> IpLevel(f, s, n)]
  BY <1>7, Zenon
<1> DEFINE g == IpTurns(s)
<1>9. g = [n \in 0 .. Len(s) |-> IpLevel(g, s, n)]
  BY <1>8, Zenon DEF IpTurns
<1> HIDE DEF g
<1>10. \A n \in 0 .. N : g[n] = IpLevel(g, s, n)
  BY <1>9
<1>11. g[0] = IpStart
  BY <1>1, <1>10 DEF IpLevel, IpStart
<1>12. \A n \in 1 .. N : g[n] = IpChar(g[n - 1], s[n])
  BY <1>1, <1>10 DEF IpLevel
<1> DEFINE P == {n \in 0 .. N : g[n] \in IpState}
<1>13. 0 \in P
  BY <1>1, <1>2, <1>11
<1>14. \A n \in 1 .. N : n - 1 \in P => n \in P
  <2>1. SUFFICES ASSUME NEW n \in 1 .. N, n - 1 \in P PROVE n \in P
    OBVIOUS
  <2>2. g[n - 1] \in IpState
    BY <2>1
  <2>3. IpChar(g[n - 1], s[n]) \in IpState
    BY <2>2, IpTurn
  <2>4. QED BY <1>1, <1>12, <2>3
<1>15. \A n \in 0 .. N : n \in P
  BY ONLY <1>1, <1>13, <1>14, EveryTurn
<1>16. \A n \in 0 .. N : g[n] \in IpState
  BY <1>15
<1>17. QED BY <1>11, <1>12, <1>16 DEF IpLoop, g

-----------------------------------------------------------------------------
(* Fields between dots *)

DotsIn(s, n) == {j \in 1 .. n : s[j] = "."}
Dots(s, n) == Cardinality(DotsIn(s, n))

\* As much of the k-th field as is among the first n characters.
Part(s, k, n) == {i \in 1 .. n : s[i] # "." /\ Dots(s, i) = k - 1}

LEMMA DotsType == ASSUME NEW s, NEW n \in Nat PROVE Dots(s, n) \in Nat /\ IsFiniteSet(DotsIn(s, n))
<1>1. DotsIn(s, n) \subseteq 1 .. n
  BY DEF DotsIn
<1>2. IsFiniteSet(DotsIn(s, n))
  BY <1>1, PlacesFinite
<1>3. QED BY <1>2, FS_CardinalityType DEF Dots

LEMMA DotsNone == ASSUME NEW s PROVE Dots(s, 0) = 0
<1>1. DotsIn(s, 0) = {}
  BY DEF DotsIn
<1>2. QED BY <1>1, FS_EmptySet DEF Dots

LEMMA DotsGrow == ASSUME NEW s, NEW m \in Nat, NEW n \in Nat, m <= n PROVE Dots(s, m) <= Dots(s, n)
<1>1. DotsIn(s, m) \in SUBSET DotsIn(s, n)
  BY DEF DotsIn
<1>2. QED BY <1>1, DotsType, FS_Subset DEF Dots

LEMMA DotsNext ==
    ASSUME NEW s, NEW n \in Nat
    PROVE  Dots(s, n + 1) = IF s[n + 1] = "." THEN Dots(s, n) + 1 ELSE Dots(s, n)
<1>1. 1 .. (n + 1) = (1 .. n) \union {n + 1} /\ n + 1 \notin 1 .. n
  OBVIOUS
<1>2. CASE s[n + 1] = "."
  <2>1. DotsIn(s, n + 1) = DotsIn(s, n) \union {n + 1}
    BY <1>1, <1>2 DEF DotsIn
  <2>2. n + 1 \notin DotsIn(s, n)
    BY <1>1 DEF DotsIn
  <2>3. QED BY <1>2, <2>1, <2>2, DotsType, FS_AddElement DEF Dots
<1>3. CASE s[n + 1] # "."
  <2>1. DotsIn(s, n + 1) = DotsIn(s, n)
    BY <1>1, <1>3 DEF DotsIn
  <2>2. QED BY <1>3, <2>1 DEF Dots
<1>4. QED BY <1>2, <1>3

LEMMA PartNext ==
    ASSUME NEW s, NEW n \in Nat, NEW k \in Nat
    PROVE  Part(s, k, n + 1) = IF s[n + 1] # "." /\ Dots(s, n + 1) = k - 1
                               THEN Part(s, k, n) \union {n + 1} ELSE Part(s, k, n)
<1>1. 1 .. (n + 1) = (1 .. n) \union {n + 1} /\ n + 1 \notin 1 .. n
  OBVIOUS
<1>2. QED BY <1>1 DEF Part

\* The field that begins after the last dot is empty.
LEMMA PartAhead ==
    ASSUME NEW s, NEW n \in Nat, NEW k \in Nat, k > Dots(s, n) + 1
    PROVE  Part(s, k, n) = {}
<1>1. SUFFICES ASSUME NEW i \in Part(s, k, n) PROVE FALSE
  OBVIOUS
<1>2. i \in Nat /\ i <= n /\ Dots(s, i) = k - 1
  BY DEF Part
<1>3. Dots(s, i) <= Dots(s, n) /\ Dots(s, n) \in Nat
  BY <1>2, DotsGrow, DotsType
<1>4. QED BY <1>2, <1>3

LEMMA FieldIs ==
    ASSUME NEW s \in Seq(STRING), NEW k
    PROVE  Field(s, k) = Part(s, k, Len(s))
BY DEF Field, Part, Dots, DotsIn

LEMMA MaxIs == ASSUME NEW n \in Nat, NEW S, S \subseteq 1 .. n, n \in S PROVE Max(S) = n
<1>1. \E x \in S : \A y \in S : x >= y
  OBVIOUS
<1>2. Max(S) \in S /\ \A y \in S : Max(S) >= y
  BY <1>1 DEF Max
<1> DEFINE m == Max(S)
<1>3. m \in S /\ m >= n
  BY <1>2
<1> HIDE DEF m
<1>4. m \in Nat /\ m <= n
  BY <1>3
<1>5. m = n
  BY ONLY <1>3, <1>4, n \in Nat
<1>6. QED BY <1>5 DEF m

-----------------------------------------------------------------------------
(* What an address says *)

\* v is the number of the k-th field, all of it among the first n characters.
PartIs(s, k, n, v) ==
    /\ Part(s, k, n) # {}
    /\ v = Decimal(s, Part(s, k, n), Max(Part(s, k, n)))
    /\ v <= 255

\* What the loop holds after n characters of an address it has not refused.
Current(s, n) == Part(s, Dots(s, n) + 1, n)

IpRead(a, s, n) ==
    /\ \A i \in 1 .. n : s[i] = "." \/ s[i] \in DOMAIN Digit
    /\ Len(a.out) = Dots(s, n) /\ Len(a.out) <= 3
    /\ a.seen => n \in Current(s, n)
    /\ ~ a.seen => Current(s, n) = {}
    /\ a.acc = Decimal(s, Current(s, n), n) /\ a.acc <= 255
    /\ \A k \in 1 .. Len(a.out) : PartIs(s, k, n, a.out[k])

LEMMA DotNoDigit == "." \notin DOMAIN Digit
BY DEF Digit

LEMMA CurrentDigits ==
    ASSUME NEW s, NEW n \in Nat, \A i \in 1 .. n : s[i] = "." \/ s[i] \in DOMAIN Digit
    PROVE  DigitsAt(s, Current(s, n), n)
BY DEF DigitsAt, Current, Part

\* A field once closed stays as it is.
LEMMA ClosedStays ==
    ASSUME NEW s, NEW n \in Nat, NEW k \in Nat, NEW v, PartIs(s, k, n, v),
           s[n + 1] = "." \/ Dots(s, n + 1) # k - 1
    PROVE  PartIs(s, k, n + 1, v)
<1>1. Part(s, k, n + 1) = Part(s, k, n)
  BY PartNext
<1>2. QED BY <1>1 DEF PartIs

LEMMA IpReadDigit ==
    ASSUME NEW s, NEW n \in Nat, NEW a \in IpState, NEW b \in IpState,
           IpRead(a, s, n), s[n + 1] \in DOMAIN Digit,
           b.out = a.out, b.acc = a.acc * 10 + Digit[s[n + 1]], b.seen = TRUE, b.acc <= 255
    PROVE  IpRead(b, s, n + 1)
<1>0. s[n + 1] # "." /\ n + 1 \in Nat
  BY DotNoDigit
<1>1. Dots(s, n + 1) = Dots(s, n) /\ Dots(s, n) \in Nat
  BY <1>0, DotsNext, DotsType
<1>2. \A i \in 1 .. n : s[i] = "." \/ s[i] \in DOMAIN Digit
  BY DEF IpRead
<1>3. \A i \in 1 .. (n + 1) : s[i] = "." \/ s[i] \in DOMAIN Digit
  <2>1. 1 .. (n + 1) = (1 .. n) \union {n + 1}
    OBVIOUS
  <2>2. QED BY <1>2, <2>1
<1>4. Current(s, n + 1) = Current(s, n) \union {n + 1}
  <2>1. Dots(s, n) + 1 \in Nat /\ (Dots(s, n) + 1) - 1 = Dots(s, n)
    BY <1>1
  <2> DEFINE k == Dots(s, n) + 1
  <2>2. k \in Nat /\ k - 1 = Dots(s, n)
    BY <2>1
  <2> HIDE DEF k
  <2>3. Part(s, k, n + 1) = Part(s, k, n) \union {n + 1}
    <3>1. s[n + 1] # "." /\ Dots(s, n + 1) = k - 1
      BY ONLY <1>0, <1>1, <2>2
    <3>2. Part(s, k, n + 1) = IF s[n + 1] # "." /\ Dots(s, n + 1) = k - 1
                              THEN Part(s, k, n) \union {n + 1} ELSE Part(s, k, n)
      BY ONLY <2>2, n \in Nat, PartNext
    <3>3. QED BY ONLY <3>1, <3>2
  <2>4. QED BY <1>1, <2>3 DEF Current, k
<1>5. DigitsAt(s, Current(s, n), n)
  BY <1>2, CurrentDigits
<1>6. Decimal(s, Current(s, n) \union {n + 1}, n + 1) = 10 * Decimal(s, Current(s, n), n) + Digit[s[n + 1]]
  BY ONLY <1>5, s[n + 1] \in DOMAIN Digit, Horner
<1>7. b.acc = Decimal(s, Current(s, n + 1), n + 1)
  <2>1. a.acc = Decimal(s, Current(s, n), n)
    BY DEF IpRead
  <2>2. Decimal(s, Current(s, n), n) \in Nat
    BY <1>5, DecimalType
  <2>3. a.acc * 10 = 10 * Decimal(s, Current(s, n), n)
    BY <2>1, <2>2
  <2>4. QED BY <1>4, <1>6, <2>3
<1>8. n + 1 \in Current(s, n + 1)
  BY <1>4
<1>9. Len(b.out) = Dots(s, n + 1) /\ Len(b.out) <= 3
  BY <1>1 DEF IpRead
<1>10. \A k \in 1 .. Len(b.out) : PartIs(s, k, n + 1, b.out[k])
  <2>1. SUFFICES ASSUME NEW k \in 1 .. Len(a.out) PROVE PartIs(s, k, n + 1, a.out[k])
    OBVIOUS
  <2>2. PartIs(s, k, n, a.out[k]) /\ Len(a.out) = Dots(s, n)
    BY DEF IpRead
  <2>3. k \in Nat /\ Dots(s, n + 1) # k - 1
    BY <1>1, <2>2
  <2>4. QED BY <2>2, <2>3, ClosedStays
<1>11. QED BY <1>3, <1>7, <1>8, <1>9, <1>10 DEF IpRead

LEMMA IpReadDot ==
    ASSUME NEW s, NEW n \in Nat, NEW a \in IpState, NEW b \in IpState,
           IpRead(a, s, n), s[n + 1] = ".", a.seen, Len(a.out) < 3,
           b.out = Append(a.out, a.acc), b.acc = 0, b.seen = FALSE
    PROVE  IpRead(b, s, n + 1)
<1> DEFINE d == Dots(s, n)
<1>0. n + 1 \in Nat /\ a.out \in Seq(Nat) /\ a.acc \in Nat
  BY DEF IpState
<1>1. Dots(s, n + 1) = d + 1 /\ d \in Nat
  BY DotsNext, DotsType
<1>2. Len(a.out) = d
  BY DEF IpRead
<1>3. /\ Len(b.out) = d + 1 /\ b.out[d + 1] = a.acc
      /\ \A k \in 1 .. d : b.out[k] = a.out[k]
  BY <1>0, <1>2, AppendProperties
<1>4. \A i \in 1 .. (n + 1) : s[i] = "." \/ s[i] \in DOMAIN Digit
  <2>1. 1 .. (n + 1) = (1 .. n) \union {n + 1}
    OBVIOUS
  <2>2. QED BY <2>1 DEF IpRead
<1> HIDE DEF d
<1>5. Current(s, n + 1) = {}
  <2> DEFINE k == (d + 1) + 1
  <2>1. k \in Nat /\ k > Dots(s, n) + 1
    BY <1>1 DEF d
  <2> HIDE DEF k
  <2>2. Part(s, k, n) = {}
    BY <2>1, PartAhead
  <2>3. Part(s, k, n + 1) = Part(s, k, n)
    BY <2>1, PartNext
  <2>4. QED BY <1>1, <2>2, <2>3 DEF Current, k
<1>6. b.acc = Decimal(s, Current(s, n + 1), n + 1)
  BY <1>5, DecimalNone
<1>7. Len(b.out) = Dots(s, n + 1) /\ Len(b.out) <= 3
  <2>1. d < 3
    BY <1>2
  <2>2. QED BY <1>1, <1>3, <2>1
<1>8. PartIs(s, d + 1, n, a.acc)
  <2>1. Current(s, n) = Part(s, d + 1, n) /\ n \in Current(s, n)
    BY DEF IpRead, Current, d
  <2>2. Current(s, n) \subseteq 1 .. n
    BY DEF Current, Part
  <2>3. Max(Current(s, n)) = n
    BY <2>1, <2>2, MaxIs
  <2>4. a.acc = Decimal(s, Current(s, n), n) /\ a.acc <= 255
    BY DEF IpRead
  <2>5. QED BY <2>1, <2>3, <2>4 DEF PartIs
<1>9. \A k \in 1 .. Len(b.out) : PartIs(s, k, n + 1, b.out[k])
  <2>1. SUFFICES ASSUME NEW k \in 1 .. (d + 1) PROVE PartIs(s, k, n + 1, b.out[k])
    BY <1>3
  <2>2. k \in Nat
    BY <1>1
  <2>3. PartIs(s, k, n, b.out[k])
    <3>1. CASE k = d + 1
      BY <1>3, <1>8, <3>1
    <3>2. CASE k # d + 1
      <4>1. k \in 1 .. d
        BY <1>1, <3>2
      <4>2. PartIs(s, k, n, a.out[k])
        BY <1>2, <4>1 DEF IpRead
      <4>3. QED BY <1>3, <4>1, <4>2
    <3>3. QED BY <3>1, <3>2
  <2>4. QED BY <2>2, <2>3, ClosedStays
<1>10. QED BY <1>4, <1>5, <1>6, <1>7, <1>9 DEF IpRead

LEMMA IpReadStart == ASSUME NEW s PROVE IpRead(IpStart, s, 0)
<1>1. IpStart.out = <<>> /\ IpStart.acc = 0 /\ IpStart.seen = FALSE
  BY DEF IpStart
<1>2. Len(<<>>) = 0
  OBVIOUS
<1>3. 1 .. 0 = {}
  OBVIOUS
<1>4. Current(s, 0) = {}
  BY <1>3 DEF Current, Part
<1>5. Decimal(s, Current(s, 0), 0) = 0
  BY <1>4, DecimalNone
<1>6. Dots(s, 0) = 0
  BY DotsNone
<1>7. Len(IpStart.out) = 0
  BY <1>1, <1>2
<1>8. 0 <= 3 /\ 0 <= 255
  OBVIOUS
<1>9. QED BY <1>1, <1>3, <1>4, <1>5, <1>6, <1>7, <1>8 DEF IpRead

\* A text that parse_ipv4 has not refused, read to its end.
LEMMA IpReadAll ==
    ASSUME NEW s \in Seq(STRING), NEW g, IpLoop(g, s), ~ g[Len(s)].bad
    PROVE  IpRead(g[Len(s)], s, Len(s))
<1> DEFINE N == Len(s)
           P == {n \in 0 .. N : g[n].bad \/ IpRead(g[n], s, n)}
<1>1. N \in Nat
  BY LenProperties
<1>2. 0 \in P
  <2>1. IpRead(g[0], s, 0)
    BY IpReadStart DEF IpLoop
  <2>2. QED BY <1>1, <2>1
<1>3. \A n \in 1 .. N : n - 1 \in P => n \in P
  <2>1. SUFFICES ASSUME NEW n \in 1 .. N, n - 1 \in P PROVE g[n].bad \/ IpRead(g[n], s, n)
    BY <1>1
  <2> DEFINE m == n - 1
             a == g[m]
             b == g[n]
             c == s[n]
  <2>2. m \in Nat /\ m + 1 = n /\ m \in 0 .. N /\ n \in 0 .. N
    BY <1>1
  <2>3. a \in IpState /\ b \in IpState /\ b = IpChar(a, c)
    BY <2>2 DEF IpLoop
  <2>4. IpTurnIs(a, c, b)
    BY <2>3, IpTurn
  <2>5. a.bad \/ IpRead(a, s, m)
    BY <2>1
  <2>6. c = s[m + 1] /\ b.acc \in Nat
    BY <2>2, <2>3 DEF IpState
  <2> HIDE DEF a, b, c, m
  <2>7. CASE a.bad
    <3>1. b = a
      BY <2>4, <2>7 DEF IpTurnIs
    <3>2. QED BY <2>7, <3>1 DEF b
  <2>8. CASE ~ a.bad /\ c \in DOMAIN Digit
    <3>1. b.out = a.out /\ b.acc = a.acc * 10 + Digit[c] /\ b.seen = TRUE /\ b.bad = (b.acc > 255)
      BY <2>4, <2>8 DEF IpTurnIs
    <3>2. CASE b.acc > 255
      BY <3>1, <3>2 DEF b
    <3>3. CASE ~ (b.acc > 255)
      <4>1. b.acc <= 255
        BY <2>6, <3>3
      <4>2. IpRead(b, s, m + 1)
        BY <2>2, <2>3, <2>5, <2>6, <2>8, <3>1, <4>1, IpReadDigit
      <4>3. QED BY <2>2, <4>2 DEF b
    <3>4. QED BY <3>2, <3>3
  <2>9. CASE ~ a.bad /\ Closes(a, c)
    <3>1. b.out = Append(a.out, a.acc) /\ b.acc = 0 /\ b.seen = FALSE
      BY <2>4, <2>9 DEF IpTurnIs
    <3>2. s[m + 1] = "." /\ a.seen /\ Len(a.out) < 3
      BY <2>6, <2>9 DEF Closes
    <3>3. IpRead(b, s, m + 1)
      BY <2>2, <2>3, <2>5, <2>9, <3>1, <3>2, IpReadDot
    <3>4. QED BY <2>2, <3>3 DEF b
  <2>10. CASE ~ a.bad /\ c \notin DOMAIN Digit /\ ~ Closes(a, c)
    <3>1. b.bad
      BY <2>4, <2>10 DEF IpTurnIs
    <3>2. QED BY <3>1 DEF b
  <2>11. QED BY <2>7, <2>8, <2>9, <2>10
<1>4. \A n \in 0 .. N : n \in P
  BY ONLY <1>1, <1>2, <1>3, EveryTurn
<1>5. N \in P
  BY <1>1, <1>4
<1>6. QED BY <1>5

\* An address other than 0.0.0.0 is the four numbers its text spells out.
AddressMeans(s, ip) ==
    /\ \A i \in 1 .. Len(s) : s[i] = "." \/ s[i] \in DOMAIN Digit
    /\ Cardinality({i \in 1 .. Len(s) : s[i] = "."}) = 3
    /\ \A k \in 1 .. 4 : Field(s, k) # {} /\ Octet(s, k) <= 255 /\ ip[k] = Octet(s, k)
    /\ \E k \in 1 .. 4 : Octet(s, k) # 0

LEMMA AddressAsWritten ==
    ASSUME NEW s \in Text, parse_ipv4(s) # NoAddress
    PROVE  AddressMeans(s, parse_ipv4(s))
<1> DEFINE a == IpTurns(s)[Len(s)]
           ip == parse_ipv4(s)
<1>1. s # UNSET /\ ~ a.bad /\ a.seen /\ Len(a.out) = 3 /\ ip = Append(a.out, a.acc)
  BY IpIs
<1>2. s \in Seq(STRING) /\ Len(s) \in Nat
  BY <1>1, LenProperties DEF Text
<1>3. IpLoop(IpTurns(s), s)
  BY <1>2, IpTable
<1>4. IpRead(a, s, Len(s))
  BY <1>1, <1>2, <1>3, IpReadAll
<1>5. a \in IpState
  <2>1. Len(s) \in 0 .. Len(s)
    BY <1>2
  <2>2. QED BY <1>3, <2>1 DEF IpLoop
<1> HIDE DEF a, ip
<1>6. a.out \in Seq(Nat) /\ a.acc \in Nat
  BY <1>5 DEF IpState
<1>7. ip \in Seq(Nat) /\ Len(ip) = 4 /\ ip[4] = a.acc /\ \A k \in 1 .. 3 : ip[k] = a.out[k]
  <2> DEFINE o == a.out
             z == a.acc
  <2>0. o \in Seq(Nat) /\ z \in Nat
    BY <1>6
  <2>1. Len(o) = 3
    BY <1>1
  <2> HIDE DEF o, z
  <2>2. /\ Append(o, z) \in Seq(Nat) /\ Len(Append(o, z)) = Len(o) + 1
        /\ \A k \in 1 .. Len(o) : Append(o, z)[k] = o[k]
        /\ Append(o, z)[Len(o) + 1] = z
    BY ONLY <2>0, AppendProperties
  <2>3. Len(o) + 1 = 4
    BY <2>1
  <2>4. ip = Append(o, z)
    BY <1>1 DEF o, z
  <2>5. ip \in Seq(Nat) /\ Len(ip) = 4 /\ ip[4] = z /\ \A k \in 1 .. 3 : ip[k] = o[k]
    BY ONLY <2>1, <2>2, <2>3, <2>4
  <2>6. QED BY <2>5 DEF o, z
<1>8. Dots(s, Len(s)) = 3
  BY <1>1, <1>4 DEF IpRead
<1>9. \A k \in 1 .. 4 : PartIs(s, k, Len(s), ip[k])
  <2>1. SUFFICES ASSUME NEW k \in 1 .. 4 PROVE PartIs(s, k, Len(s), ip[k])
    OBVIOUS
  <2>2. CASE k = 4
    <3>1. Current(s, Len(s)) = Part(s, 4, Len(s))
      BY <1>8 DEF Current
    <3>2. Len(s) \in Part(s, 4, Len(s)) /\ Part(s, 4, Len(s)) \subseteq 1 .. Len(s)
      <4>1. Len(s) \in Current(s, Len(s))
        BY <1>1, <1>4 DEF IpRead
      <4>2. QED BY <3>1, <4>1 DEF Part
    <3>3. Max(Part(s, 4, Len(s))) = Len(s)
      BY <1>2, <3>2, MaxIs
    <3>4. a.acc = Decimal(s, Part(s, 4, Len(s)), Len(s)) /\ a.acc <= 255
      BY <1>4, <3>1 DEF IpRead
    <3>5. QED BY <1>7, <2>2, <3>2, <3>3, <3>4 DEF PartIs
  <2>3. CASE k # 4
    <3>1. k \in 1 .. 3
      BY <2>3
    <3>2. PartIs(s, k, Len(s), a.out[k])
      BY <1>1, <1>4, <3>1 DEF IpRead
    <3>3. QED BY <1>7, <3>1, <3>2
  <2>4. QED BY <2>2, <2>3
<1>10. \A k \in 1 .. 4 : Field(s, k) # {} /\ Octet(s, k) <= 255 /\ ip[k] = Octet(s, k)
  <2>1. SUFFICES ASSUME NEW k \in 1 .. 4
                 PROVE  Field(s, k) # {} /\ Octet(s, k) <= 255 /\ ip[k] = Octet(s, k)
    OBVIOUS
  <2>2. Field(s, k) = Part(s, k, Len(s))
    BY <1>2, FieldIs
  <2>3. Octet(s, k) = Decimal(s, Part(s, k, Len(s)), Max(Part(s, k, Len(s))))
    BY <2>2 DEF Octet
  <2>4. PartIs(s, k, Len(s), ip[k])
    BY <1>9
  <2>5. QED BY <2>2, <2>3, <2>4 DEF PartIs
<1>11. \E k \in 1 .. 4 : Octet(s, k) # 0
  <2>1. SUFFICES ASSUME \A k \in 1 .. 4 : Octet(s, k) = 0 PROVE FALSE
    OBVIOUS
  <2>2. \A k \in 1 .. 4 : ip[k] = 0
    BY <1>10, <2>1
  <2>3. NoAddress \in Seq(Nat) /\ Len(NoAddress) = 4 /\ \A k \in 1 .. 4 : NoAddress[k] = 0
    BY DEF NoAddress
  <2>4. Len(ip) = Len(NoAddress) /\ \A k \in 1 .. Len(ip) : ip[k] = NoAddress[k]
    BY <1>7, <2>2, <2>3
  <2>5. ip = NoAddress
    BY ONLY <1>7, <2>3, <2>4, SeqEqual
  <2>6. QED BY <2>5 DEF ip
<1>12. Cardinality({i \in 1 .. Len(s) : s[i] = "."}) = 3
  BY <1>8 DEF Dots, DotsIn
<1>13. \A i \in 1 .. Len(s) : s[i] = "." \/ s[i] \in DOMAIN Digit
  BY <1>4 DEF IpRead
<1>14. QED BY <1>10, <1>11, <1>12, <1>13 DEF AddressMeans, ip

-----------------------------------------------------------------------------
(* The scheme *)

LEMMA BytesEqual ==
    ASSUME NEW S, NEW s \in Seq(S), NEW t \in Seq(S)
    PROVE  bytes_eq(s, t) <=> s = t
<1>1. ASSUME bytes_eq(s, t) PROVE s = t
  <2>1. Len(s) = Len(t) /\ \A i \in 1 .. Len(s) : s[i] = t[i]
    BY <1>1 DEF bytes_eq
  <2>2. QED BY ONLY <2>1, s \in Seq(S), t \in Seq(S), SeqEqual
<1>2. ASSUME s = t PROVE bytes_eq(s, t)
  BY <1>2 DEF bytes_eq
<1>3. QED BY <1>1, <1>2

LEMMA SchemeAsWritten ==
    ASSUME NEW s \in Text, scheme_ok(s)
    PROVE  s \in {UNSET, <<>>, Http, Https} /\ (is_http(s) <=> s = Http)
<1> DEFINE S == STRING \union {"h", "t", "p", "s"}
<1>1. Http \in Seq(S) /\ Https \in Seq(S)
  <2>1. Http \in Seq(S) /\ <<"s">> \in Seq(S)
    BY DEF Http
  <2> HIDE DEF S
  <2>2. QED BY <2>1, ConcatProperties DEF Https
<1>2. CASE s = UNSET
  BY <1>2, SchemeAssumption DEF is_http
<1>3. CASE s # UNSET
  <2>1. s \in Seq(STRING) /\ STRING \subseteq S
    BY <1>3 DEF Text
  <2> HIDE DEF S
  <2>2. s \in Seq(S)
    BY ONLY <2>1, SeqMonotonic
  <2>3. (bytes_eq(s, Http) <=> s = Http) /\ (bytes_eq(s, Https) <=> s = Https)
    BY <1>1, <2>2, BytesEqual
  <2>4. QED BY <1>3, <2>3 DEF is_http, scheme_ok
<1>4. QED BY <1>2, <1>3

-----------------------------------------------------------------------------
(* Building *)

\* An image is compiled from a whole environment that compiles, and from .env
\* as it stands once it has been built since the last edit.
EnvInv ==
    /\ env \in [EnvVars -> Text]
    /\ baked # UNSET => baked \in [EnvVars -> Text] /\ Compiles(baked)
    /\ built => baked = env

LEMMA EnvInit == ConfigInit => EnvInv
BY ConfigAssumption DEF ConfigInit, EnvInv

LEMMA EditStep == ASSUME EnvInv, EditEnv PROVE EnvInv'
<1>0. PICK v \in EnvVars : \E t \in Texts(v) : env' = [env EXCEPT ![v] = t]
  BY DEF EditEnv
<1>1. PICK t \in Texts(v) : env' = [env EXCEPT ![v] = t]
  BY <1>0
<1>2. t \in Text
  BY <1>1, ConfigAssumption
<1>3. env' \in [EnvVars -> Text]
  BY <1>1, <1>2 DEF EnvInv
<1>4. baked' = baked /\ built' = FALSE
  BY DEF EditEnv
<1>5. QED BY <1>3, <1>4 DEF EnvInv, Compiles

\* build.rs lists every variable lib.rs reads.
LEMMA ListComplete == RerunIfEnvChanged = EnvVars
BY DEF RerunIfEnvChanged, EnvVars, Sizes, Names

LEMMA BuildStep == ASSUME EnvInv, CargoBuild PROVE EnvInv'
<1>0. env' = env /\ env \in [EnvVars -> Text]
  BY DEF CargoBuild, EnvInv
<1>1. CASE baked # UNSET /\ \A v \in RerunIfEnvChanged : env[v] = baked[v]
  <2>1. baked' = baked
    BY <1>1 DEF CargoBuild
  <2>2. baked \in [EnvVars -> Text] /\ Compiles(baked)
    BY <1>1 DEF EnvInv
  <2>3. baked = env
    BY <1>0, <1>1, <2>2, ListComplete
  <2>4. QED BY <1>0, <2>1, <2>2, <2>3 DEF EnvInv
<1>2. CASE ~ (baked # UNSET /\ \A v \in RerunIfEnvChanged : env[v] = baked[v])
  <2>1. built' = Compiles(env) /\ baked' = IF Compiles(env) THEN env ELSE UNSET
    BY <1>2 DEF CargoBuild
  <2>2. CASE Compiles(env)
    <3>1. baked' = env
      BY <2>1, <2>2
    <3>2. Compiles(baked')
      BY <2>2, <3>1
    <3>3. QED BY <1>0, <3>1, <3>2 DEF EnvInv
  <2>3. CASE ~ Compiles(env)
    BY <1>0, <2>1, <2>3 DEF EnvInv
  <2>4. QED BY <2>2, <2>3
<1>3. QED BY <1>1, <1>2

-----------------------------------------------------------------------------
(* Start-up *)

Live == {"rss", "dhcp", "arp", "wait", "run"}

\* Every queue of a running device has its own pool and both its rings.
SetUp ==
    /\ n_queues <= dev_max
    /\ pools = 0 .. n_queues - 1
    /\ rx_pool = {<<i, i>> : i \in 0 .. n_queues - 1}
    /\ tx_queues = 0 .. n_queues - 1

\* The rings and pools at every point of the probe.
NicInv ==
    /\ n_queues \in Nat /\ q \in Nat /\ dev_max \in Nat /\ started \in BOOLEAN
    /\ pc \in {"off", "clamp"} =>
         /\ q = 0 /\ pools = {} /\ vec = <<>>
         /\ rx_pool = {} /\ tx_queues = {} /\ ~ started
    /\ pc = "pools" =>
         /\ ~ started /\ q <= n_queues
         /\ pools = 0 .. q - 1 /\ rx_pool = {} /\ tx_queues = {}
    /\ pc = "queues" =>
         /\ ~ started /\ q <= n_queues /\ n_queues <= dev_max
         /\ pools = 0 .. n_queues - 1
         /\ rx_pool = {<<i, i>> : i \in 0 .. q - 1} /\ tx_queues = 0 .. q - 1
    /\ pc = "drop" => ~ started
    /\ pc \in Live => started /\ SetUp
    /\ pc = "exit" => IF started THEN SetUp ELSE pools = {}

\* The vector has one handle for each pool there is, and no other.
VecInv ==
    /\ vec \in Seq(Nat) /\ Len(vec) <= n_queues
    /\ pc = "pools" => Len(vec) = q
    /\ \A p \in pools : \E i \in 1 .. Len(vec) : vec[i] = p
    /\ \A i, j \in 1 .. Len(vec) : vec[i] \in pools /\ (vec[i] = vec[j] => i = j)

\* What the main thread knows when it goes on.
MainInv ==
    /\ pc \in {"off", "clamp", "pools", "queues", "drop", "exit"} \union Live
    /\ pc # "off" => built
    /\ pc \notin {"off", "drop", "exit"} => ~ SomethingZero
    /\ pc \in {"pools", "queues"} \union Live => n_queues > 0
    /\ pc = "run" => lease # "none" /\ (lease = "routed" => gw_mac = "gateway")
    /\ pc \in {"arp", "wait"} => lease \in {"routed", "unrouted"}

StartInv == EnvInv /\ NicInv /\ VecInv /\ MainInv

LEMMA ConfigSame ==
    ASSUME EnvInv, UNCHANGED configvars
    PROVE  EnvInv' /\ built' = built /\ (SomethingZero' <=> SomethingZero)
<1>1. env' = env /\ baked' = baked /\ built' = built
  BY DEF configvars
<1>2. EnvInv'
  BY <1>1 DEF EnvInv
<1>3. SomethingZero' <=> SomethingZero
  BY <1>1 DEF SomethingZero
<1>4. QED BY <1>1, <1>2, <1>3

\* The sizes of an image that is booted are numbers.
LEMMA BootedSizes ==
    ASSUME EnvInv, built, NEW v \in Sizes
    PROVE  SizeOf(baked, v) \in Nat
<1>1. v \in EnvVars
  BY DEF EnvVars
<1>2. baked[v] \in Text
  BY <1>1 DEF EnvInv
<1>3. QED BY <1>2, DefaultType, SizeType DEF SizeOf

LEMMA WorkersRequested ==
    ASSUME EnvInv, built
    PROVE  /\ N_WORKERS_REQ(baked) \in Nat
           /\ SizeOf(baked, "BENCH_WORKERS") = 0 => N_WORKERS_REQ(baked) = 0
<1>1. SizeOf(baked, "BENCH_WORKERS") \in Nat
  BY BootedSizes DEF Sizes
<1>2. \A a \in Nat : a % U16 \in Nat /\ (a = 0 => a % U16 = 0)
  BY Limits
<1>3. QED BY <1>1, <1>2 DEF N_WORKERS_REQ

\* The number of queues is at least one.
LEMMA ClampedPositive ==
    ASSUME EnvInv, built, ~ SomethingZero, NEW max \in Nat
    PROVE  Clamped(max) \in Nat /\ Clamped(max) > 0
<1> DEFINE n == N_WORKERS_REQ(baked)
<1>1. n \in Nat /\ n # 0
  BY WorkersRequested DEF SomethingZero
<1>2. Clamped(max) = IF max = 0 THEN n ELSE Min({n, max})
  BY DEF Clamped
<1> HIDE DEF n
<1>3. \E x \in {n, max} : \A y \in {n, max} : x <= y
  BY <1>1
<1>4. Min({n, max}) \in {n, max}
  BY <1>3 DEF Min
<1>5. QED BY <1>1, <1>2, <1>4

LEMMA StartInit == Init => StartInv
<1> SUFFICES ASSUME Init PROVE StartInv
  OBVIOUS
<1>1. EnvInv
  BY EnvInit DEF Init
<1>2. NicInv
  BY DEF Init, NicInv, Live
<1>3. MainInv
  BY DEF Init, MainInv, Live
<1>4. VecInv
  BY EmptySeq DEF Init, VecInv
<1>5. QED BY <1>1, <1>2, <1>3, <1>4 DEF StartInv

\* Steps that leave the vector and its pools alone.
LEMMA VecSame ==
    ASSUME VecInv, UNCHANGED <<vec, pools>>, n_queues' \in Nat,
           n_queues' = n_queues \/ vec = <<>>, pc' = "pools" => q' = Len(vec)
    PROVE  VecInv'
<1>1. Len(vec) <= n_queues'
  <2>1. CASE n_queues' = n_queues
    BY <2>1 DEF VecInv
  <2>2. CASE vec = <<>>
    <3>1. Len(vec) = 0
      BY <2>2, EmptySeq
    <3>2. QED BY <3>1
  <2>3. QED BY <2>1, <2>2
<1>2. QED BY <1>1 DEF VecInv

\* Steps of the main thread before the probe.
LEMMA BootStep == ASSUME StartInv, Boot, UNCHANGED configvars PROVE StartInv'
<1>1. EnvInv' /\ built' = built /\ (SomethingZero' <=> SomethingZero)
  BY ConfigSame DEF StartInv
<1>2. NicInv'
  BY DEF StartInv, NicInv, Boot, nic, Live
<1>3. MainInv'
  BY <1>1 DEF StartInv, MainInv, Boot, Live
<1>4. VecInv'
  BY VecSame DEF StartInv, NicInv, Boot, nic
<1>5. QED BY <1>1, <1>2, <1>3, <1>4 DEF StartInv

LEMMA ClampStep == ASSUME StartInv, ClampQueues, UNCHANGED configvars PROVE StartInv'
<1>1. EnvInv' /\ built' = built /\ (SomethingZero' <=> SomethingZero)
  BY ConfigSame DEF StartInv
<1>2. built /\ ~ SomethingZero
  BY DEF StartInv, MainInv, ClampQueues
<1>3. dev_max' \in Nat
  BY StartupAssumption DEF ClampQueues
<1>4. n_queues' \in Nat /\ n_queues' > 0
  BY <1>2, <1>3, ClampedPositive DEF StartInv, ClampQueues
<1>5. 0 .. 0 - 1 = {}
  OBVIOUS
<1>6. NicInv'
  <2>1. /\ q' = 0 /\ pools' = {} /\ vec' = <<>> /\ rx_pool' = {} /\ tx_queues' = {} /\ started' = FALSE
        /\ pc' = "pools"
    BY DEF StartInv, NicInv, ClampQueues
  <2>2. pools' = 0 .. q' - 1 /\ q' \in Nat /\ q' <= n_queues'
    BY <1>4, <1>5, <2>1
  <2>3. QED BY <1>3, <1>4, <2>1, <2>2 DEF NicInv, Live
<1>7. MainInv'
  BY <1>1, <1>2, <1>4 DEF MainInv, ClampQueues, Live
<1>8. VecInv'
  <2>1. vec = <<>> /\ UNCHANGED <<vec, pools>> /\ q' = 0
    BY DEF StartInv, NicInv, ClampQueues
  <2>2. Len(vec) = 0
    BY <2>1, EmptySeq
  <2>3. QED BY <1>4, <2>1, <2>2, VecSame DEF StartInv
<1>9. QED BY <1>1, <1>6, <1>7, <1>8 DEF StartInv

\* Steps of the probe that succeed.
LEMMA PoolStep == ASSUME StartInv, CreatePool, UNCHANGED configvars PROVE StartInv'
<1>1. EnvInv' /\ built' = built /\ (SomethingZero' <=> SomethingZero)
  BY ConfigSame DEF StartInv
<1>2. q \in Nat /\ n_queues \in Nat /\ q < n_queues /\ pools = 0 .. q - 1
  BY DEF StartInv, NicInv, CreatePool
<1>3. q' = q + 1 /\ pools' = 0 .. q' - 1 /\ q' <= n_queues /\ q' \in Nat
  BY <1>2 DEF CreatePool
<1>4. NicInv'
  BY <1>3 DEF StartInv, NicInv, CreatePool, Live
<1>5. MainInv'
  BY <1>1 DEF StartInv, MainInv, CreatePool, Live
<1>6. VecInv'
  <2>1. vec \in Seq(Nat) /\ Len(vec) = q /\ vec' = Append(vec, q) /\ pools' = pools \union {q}
    BY DEF StartInv, VecInv, CreatePool
  <2>2. /\ vec' \in Seq(Nat) /\ Len(vec') = q + 1 /\ vec'[q + 1] = q
        /\ \A i \in 1 .. q : vec'[i] = vec[i]
    BY <1>2, <2>1, AppendProperties
  <2>3. q \notin pools
    BY <1>2
  <2>4. \A i \in 1 .. q : vec[i] \in pools
    BY <2>1 DEF StartInv, VecInv
  <2>5. \A i, j \in 1 .. q + 1 : vec'[i] \in pools' /\ (vec'[i] = vec'[j] => i = j)
    <3>1. SUFFICES ASSUME NEW i \in 1 .. q + 1, NEW j \in 1 .. q + 1
                   PROVE  vec'[i] \in pools' /\ (vec'[i] = vec'[j] => i = j)
      OBVIOUS
    <3>2. (i \in 1 .. q \/ i = q + 1) /\ (j \in 1 .. q \/ j = q + 1)
      BY <1>2
    <3>3. i \in 1 .. q /\ j \in 1 .. q => (vec[i] = vec[j] => i = j)
      BY <2>1 DEF StartInv, VecInv
    <3>4. QED BY <2>1, <2>2, <2>3, <2>4, <3>2, <3>3
  <2>6. \A p \in pools' : \E i \in 1 .. q + 1 : vec'[i] = p
    <3>1. SUFFICES ASSUME NEW p \in pools' PROVE \E i \in 1 .. q + 1 : vec'[i] = p
      OBVIOUS
    <3>2. CASE p = q
      <4>1. q + 1 \in 1 .. q + 1
        BY <1>2
      <4>2. QED BY <2>2, <3>2, <4>1
    <3>3. CASE p \in pools
      <4>1. PICK i \in 1 .. q : vec[i] = p
        BY <2>1, <3>3 DEF StartInv, VecInv
      <4>2. i \in 1 .. q + 1 /\ vec'[i] = p
        BY <1>2, <2>2, <4>1
      <4>3. QED BY <4>2
    <3>4. QED BY <2>1, <3>2, <3>3
  <2>7. q' = q + 1 /\ q + 1 <= n_queues' /\ n_queues' = n_queues
    BY <1>3 DEF CreatePool
  <2>8. QED BY <2>2, <2>5, <2>6, <2>7 DEF VecInv
<1>7. QED BY <1>1, <1>4, <1>5, <1>6 DEF StartInv

LEMMA ConfigureDevStep == ASSUME StartInv, DevConfigure, UNCHANGED configvars PROVE StartInv'
<1>1. EnvInv' /\ built' = built /\ (SomethingZero' <=> SomethingZero)
  BY ConfigSame DEF StartInv
<1>2. /\ pc' = "queues" /\ q' = 0 /\ n_queues' = n_queues /\ n_queues <= dev_max
      /\ dev_max' = dev_max /\ pools' = pools /\ rx_pool' = rx_pool
      /\ tx_queues' = tx_queues /\ started' = started
  BY DEF DevConfigure, nic
<1>3. /\ n_queues \in Nat /\ dev_max \in Nat /\ ~ started /\ started \in BOOLEAN
      /\ pools = 0 .. n_queues - 1 /\ rx_pool = {} /\ tx_queues = {}
  BY DEF StartInv, NicInv, DevConfigure
<1>4. 0 .. 0 - 1 = {} /\ {<<i, i>> : i \in {}} = {}
  OBVIOUS
<1>5. 0 <= n_queues /\ 0 \in Nat
  BY <1>3
<1>6. rx_pool' = {<<i, i>> : i \in 0 .. q' - 1} /\ tx_queues' = 0 .. q' - 1
  BY <1>2, <1>3, <1>4
<1>7. NicInv'
  BY <1>2, <1>3, <1>5, <1>6 DEF NicInv, Live
<1>8. MainInv'
  BY <1>1 DEF StartInv, MainInv, DevConfigure, Live
<1>9. VecInv'
  BY <1>2, <1>3, VecSame DEF StartInv, DevConfigure, nic
<1>10. QED BY <1>1, <1>7, <1>8, <1>9 DEF StartInv

LEMMA QueueStep == ASSUME StartInv, SetupQueue, UNCHANGED configvars PROVE StartInv'
<1>1. EnvInv' /\ built' = built /\ (SomethingZero' <=> SomethingZero)
  BY ConfigSame DEF StartInv
<1>2. /\ q \in Nat /\ n_queues \in Nat /\ q < n_queues
      /\ rx_pool = {<<i, i>> : i \in 0 .. q - 1} /\ tx_queues = 0 .. q - 1
  BY DEF StartInv, NicInv, SetupQueue
<1>3. q' = q + 1 /\ q' <= n_queues /\ q' \in Nat /\ 0 .. q' - 1 = (0 .. q - 1) \union {q}
  BY <1>2 DEF SetupQueue
<1>4. tx_queues' = 0 .. q' - 1
  BY <1>2, <1>3 DEF SetupQueue
<1>5. rx_pool' = {<<i, i>> : i \in 0 .. q' - 1}
  BY <1>2, <1>3 DEF SetupQueue, PoolOf
<1>6. NicInv'
  BY <1>3, <1>4, <1>5 DEF StartInv, NicInv, SetupQueue, Live
<1>7. MainInv'
  BY <1>1 DEF StartInv, MainInv, SetupQueue, Live
<1>8. VecInv'
  BY <1>2, VecSame DEF StartInv, SetupQueue
<1>9. QED BY <1>1, <1>6, <1>7, <1>8 DEF StartInv

LEMMA DevStartStep == ASSUME StartInv, DevStart, UNCHANGED configvars PROVE StartInv'
<1>1. EnvInv' /\ built' = built /\ (SomethingZero' <=> SomethingZero)
  BY ConfigSame DEF StartInv
<1>2. NicInv'
  BY DEF StartInv, NicInv, DevStart, SetUp, Live
<1>3. MainInv'
  BY <1>1 DEF StartInv, MainInv, DevStart, Live
<1>4. VecInv'
  BY VecSame DEF StartInv, NicInv, DevStart
<1>5. QED BY <1>1, <1>2, <1>3, <1>4 DEF StartInv

\* A probe that fails, wherever it is: the device does not run.
ProbeLeft ==
    /\ pc \in {"pools", "queues"} /\ pc' = "drop"
    /\ UNCHANGED <<dev_max, n_queues, q, pools, vec, started, lease, gw_mac>>

LEMMA ProbeFailsStep == ASSUME StartInv, ProbeLeft, UNCHANGED configvars PROVE StartInv'
<1>1. EnvInv' /\ built' = built /\ (SomethingZero' <=> SomethingZero)
  BY ConfigSame DEF StartInv
<1>2. NicInv'
  BY DEF StartInv, NicInv, ProbeLeft, Live
<1>3. MainInv'
  BY <1>1 DEF StartInv, MainInv, ProbeLeft, Live
<1>4. VecInv'
  BY VecSame DEF StartInv, NicInv, ProbeLeft
<1>5. QED BY <1>1, <1>2, <1>3, <1>4 DEF StartInv

\* A handle is dropped: the others keep the pools that are left.
LEMMA DropStep == ASSUME StartInv, DropPool, UNCHANGED configvars PROVE StartInv'
<1>1. EnvInv' /\ built' = built /\ (SomethingZero' <=> SomethingZero)
  BY ConfigSame DEF StartInv
<1>2. NicInv'
  BY DEF StartInv, NicInv, DropPool, Live
<1>3. MainInv'
  BY <1>1 DEF StartInv, MainInv, DropPool, Live
<1> DEFINE n == Len(vec)
<1>4. /\ vec \in Seq(Nat) /\ vec # <<>> /\ n \in Nat
      /\ vec' = Tail(vec) /\ pools' = pools \ {Head(vec)}
      /\ n_queues' = n_queues /\ n <= n_queues /\ pc' = "drop"
  BY LenProperties DEF StartInv, VecInv, DropPool, FreedBy
<1>5. /\ vec' \in Seq(Nat) /\ Len(vec') = n - 1 /\ Head(vec) = vec[1] /\ n > 0
      /\ \A i \in 1 .. n - 1 : vec'[i] = vec[i + 1]
  <2>1. Tail(vec) \in Seq(Nat) /\ Len(Tail(vec)) = n - 1
    BY <1>4, HeadTailProperties
  <2>2. \A i \in 1 .. n - 1 : Tail(vec)[i] = vec[i + 1]
    BY <1>4, <2>1, HeadTailProperties
  <2>3. n > 0
    BY <1>4, EmptySeq
  <2>4. Head(vec) = vec[1]
    BY <1>4
  <2>5. QED BY <1>4, <2>1, <2>2, <2>3, <2>4
<1>6. /\ \A p \in pools : \E i \in 1 .. n : vec[i] = p
      /\ \A i, j \in 1 .. n : vec[i] \in pools /\ (vec[i] = vec[j] => i = j)
  BY DEF StartInv, VecInv
<1> HIDE DEF n
<1>7. ASSUME NEW p \in pools' PROVE \E i \in 1 .. n - 1 : vec'[i] = p
  <2>1. PICK k \in 1 .. n : vec[k] = p
    BY <1>4, <1>6, <1>7
  <2>2. k # 1
    BY <1>4, <1>5, <1>7, <2>1
  <2>3. k - 1 \in 1 .. n - 1 /\ (k - 1) + 1 = k
    BY <1>4, <2>2
  <2>4. vec'[k - 1] = p
    BY <1>5, <2>1, <2>3
  <2>5. QED BY <2>3, <2>4
<1>8. ASSUME NEW i \in 1 .. n - 1, NEW j \in 1 .. n - 1
      PROVE  vec'[i] \in pools' /\ (vec'[i] = vec'[j] => i = j)
  <2>1. i + 1 \in 1 .. n /\ j + 1 \in 1 .. n /\ i + 1 # 1 /\ 1 \in 1 .. n
    BY <1>4, <1>5
  <2>2. vec'[i] = vec[i + 1] /\ vec'[j] = vec[j + 1]
    BY <1>5
  <2>3. vec[i + 1] \in pools /\ vec[i + 1] # vec[1] /\ (vec[i + 1] = vec[j + 1] => i + 1 = j + 1)
    BY <1>6, <2>1
  <2>4. QED BY <1>4, <1>5, <2>2, <2>3
<1>9. n - 1 <= n_queues'
  BY <1>4 DEF StartInv, NicInv
<1>10. VecInv'
  BY <1>4, <1>5, <1>7, <1>8, <1>9 DEF VecInv
<1>11. QED BY <1>1, <1>2, <1>3, <1>10 DEF StartInv

\* All handles are dropped: no pool is left.
LEMMA DroppedStep == ASSUME StartInv, NoUsableNic, UNCHANGED configvars PROVE StartInv'
<1>1. EnvInv' /\ built' = built /\ (SomethingZero' <=> SomethingZero)
  BY ConfigSame DEF StartInv
<1>2. pools = {}
  <2>1. Len(vec) = 0
    BY EmptySeq DEF NoUsableNic
  <2>2. QED BY <2>1 DEF StartInv, VecInv
<1>3. NicInv'
  BY <1>2 DEF StartInv, NicInv, NoUsableNic, nic, Live
<1>4. MainInv'
  BY <1>1 DEF StartInv, MainInv, NoUsableNic, Live
<1>5. VecInv'
  BY VecSame DEF StartInv, NicInv, NoUsableNic, nic
<1>6. QED BY <1>1, <1>3, <1>4, <1>5 DEF StartInv

\* Steps once the device runs: they leave it as it is.
Onward ==
    /\ pc \in Live \ {"run"} /\ pc' \in Live \union {"exit"}
    /\ UNCHANGED <<n_queues, q, nic>>
    /\ pc' = "run" => lease' # "none" /\ (lease' = "routed" => gw_mac' = "gateway")
    /\ pc' \in {"arp", "wait"} => lease' \in {"routed", "unrouted"}

LEMMA OnwardStep == ASSUME StartInv, Onward, UNCHANGED configvars PROVE StartInv'
<1>1. EnvInv' /\ built' = built /\ (SomethingZero' <=> SomethingZero)
  BY ConfigSame DEF StartInv
<1>2. NicInv'
  BY DEF StartInv, NicInv, SetUp, Onward, nic, Live
<1>3. MainInv'
  BY <1>1 DEF StartInv, MainInv, Onward, Live
<1>4. VecInv'
  BY VecSame DEF StartInv, NicInv, Onward, nic, Live
<1>5. QED BY <1>1, <1>2, <1>3, <1>4 DEF StartInv

LEMMA ConfigureStep == ASSUME StartInv, Configure PROVE StartInv'
<1>1. EnvInv'
  BY EditStep, BuildStep DEF StartInv, Configure
<1>2. pc = "off" /\ pc' = "off"
  BY DEF Configure
<1>3. NicInv'
  BY DEF StartInv, NicInv, SetUp, Configure, nic
<1>4. MainInv'
  BY <1>2 DEF MainInv, Live
<1>5. VecInv'
  BY <1>2, VecSame DEF StartInv, NicInv, Configure, nic
<1>6. QED BY <1>1, <1>3, <1>4, <1>5 DEF StartInv

LEMMA StutterStep == ASSUME StartInv, UNCHANGED vars PROVE StartInv'
<1>1. UNCHANGED configvars /\ UNCHANGED <<pc, n_queues, q, nic, net>>
  BY DEF vars
<1>2. EnvInv' /\ built' = built /\ (SomethingZero' <=> SomethingZero)
  BY <1>1, ConfigSame DEF StartInv
<1>3. NicInv'
  BY <1>1 DEF StartInv, NicInv, SetUp, nic
<1>4. MainInv'
  BY <1>1, <1>2 DEF StartInv, MainInv, net
<1>5. VecInv'
  BY <1>1, VecSame DEF StartInv, NicInv, VecInv, nic
<1>6. QED BY <1>2, <1>3, <1>4, <1>5 DEF StartInv

LEMMA MainStep == ASSUME StartInv, Main PROVE StartInv'
<1>0. UNCHANGED configvars
  BY DEF Main
<1>1. CASE Boot
  BY <1>0, <1>1, BootStep
<1>2. CASE ClampQueues
  BY <1>0, <1>2, ClampStep
<1>3. CASE CreatePool
  BY <1>0, <1>3, PoolStep
<1>4. CASE DevConfigure
  BY <1>0, <1>4, ConfigureDevStep
<1>5. CASE SetupQueue
  BY <1>0, <1>5, QueueStep
<1>6. CASE DevStart
  BY <1>0, <1>6, DevStartStep
<1>7. CASE CreatePoolFails \/ DevConfigureFails \/ SetupQueueFails \/ DevStartFails
  <2>1. ProbeLeft
    BY <1>7 DEF ProbeLeft, CreatePoolFails, DevConfigureFails, SetupQueueFails, DevStartFails,
                ProbeFails, nic, net
  <2>2. QED BY <1>0, <2>1, ProbeFailsStep
<1>8. CASE LoadRss \/ LoadRssFails \/ LearnNetwork
  <2>1. CASE LoadRss \/ LoadRssFails
    <3>1. Onward
      BY <2>1 DEF Onward, LoadRss, LoadRssFails, GiveUp, Live
    <3>2. QED BY <1>0, <3>1, OnwardStep
  <2>2. CASE DhcpConfigured \/ DhcpPoll
    <3>1. Onward
      BY <2>2 DEF Onward, DhcpConfigured, DhcpPoll, Live
    <3>2. QED BY <1>0, <3>1, OnwardStep
  <2>3. CASE ArpSend \/ ArpNoMbuf \/ ArpWait
    <3>1. Onward
      BY <2>3 DEF Onward, ArpSend, ArpNoMbuf, ArpWait, GiveUp, Live, net, StartInv, MainInv
    <3>2. QED BY <1>0, <3>1, OnwardStep
  <2>4. CASE ArpReply
    <3>1. Onward
      BY <2>4 DEF Onward, ArpReply, FromGateway, Router, Live, StartInv, MainInv
    <3>2. QED BY <1>0, <3>1, OnwardStep
  <2>5. QED BY <1>8, <2>1, <2>2, <2>3, <2>4 DEF LearnNetwork
<1>9. CASE DropPool
  BY <1>0, <1>9, DropStep
<1>10. CASE NoUsableNic
  BY <1>0, <1>10, DroppedStep
<1>11. QED BY <1>1, <1>2, <1>3, <1>4, <1>5, <1>6, <1>7, <1>8, <1>9, <1>10 DEF Main, Probe

LEMMA StartStep == StartInv /\ [Next]_vars => StartInv'
<1> SUFFICES ASSUME StartInv, [Next]_vars PROVE StartInv'
  OBVIOUS
<1>1. CASE Configure
  BY <1>1, ConfigureStep
<1>2. CASE Main
  BY <1>2, MainStep
<1>3. CASE Over \/ NoImage \/ UNCHANGED vars
  <2>1. UNCHANGED vars
    BY <1>3 DEF Over, NoImage
  <2>2. QED BY <2>1, StutterStep
<1>4. QED BY <1>1, <1>2, <1>3 DEF Next

LEMMA AlwaysStartInv == Spec => []StartInv
BY StartInit, StartStep, PTL DEF Spec

-----------------------------------------------------------------------------
(* The theorems *)

\* An image that has just been built holds .env as it stands, whatever was
\* edited and however often: cargo watches every variable lib.rs reads.
THEOREM ImageFreshHolds == Spec => []ImageFresh
<1>1. StartInv => ImageFresh
  BY DEF StartInv, EnvInv, ImageFresh
<1>2. QED BY <1>1, AlwaysStartInv, PTL

\* Of every text, parse_size makes what the text says, modulo 2^64.
THEOREM SizesAsWrittenHolds == Spec => []SizesAsWritten
<1>1. StartInv => SizesAsWritten
  <2> SUFFICES ASSUME StartInv, baked # UNSET, NEW v \in Sizes
               PROVE  SizeOf(baked, v) = SizeMeans(baked[v], DefaultOf[v]) % U64
    BY DEF SizesAsWritten
  <2>1. v \in EnvVars
    BY DEF EnvVars
  <2>2. baked[v] \in Text
    BY <2>1 DEF StartInv, EnvInv
  <2>3. QED BY <2>2, DefaultType, DefaultAssumption, SizeAsWritten DEF SizeOf
<1>2. QED BY <1>1, AlwaysStartInv, PTL

\* An image dials the address its text spells out, over the scheme it names.
THEOREM TargetAsWrittenHolds == Spec => []TargetAsWritten
<1>1. StartInv => TargetAsWritten
  <2> SUFFICES ASSUME StartInv, baked # UNSET PROVE TargetAsWritten
    BY DEF TargetAsWritten
  <2> DEFINE s == baked["AWS_TARGET_IP"]
             z == baked["BENCH_SCHEME"]
  <2>1. s \in Text /\ z \in Text
    BY DEF StartInv, EnvInv, EnvVars
  <2>2. parse_ipv4(s) # NoAddress /\ scheme_ok(z)
    BY DEF StartInv, EnvInv, Compiles, TARGET_IP
  <2>3. AddressMeans(s, TARGET_IP(baked))
    BY <2>1, <2>2, AddressAsWritten DEF TARGET_IP
  <2>4. z \in {UNSET, <<>>, Http, Https} /\ (is_http(z) <=> z = Http)
    BY <2>1, <2>2, SchemeAsWritten
  <2>5. TARGET_PORT(baked) = IF z = Http THEN 80 ELSE 443
    BY <2>4 DEF TARGET_PORT, PLAIN_HTTP
  <2>6. QED BY <2>3, <2>4, <2>5 DEF AddressMeans, TargetAsWritten
<1>2. QED BY <1>1, AlwaysStartInv, PTL

\* Whatever fails and whenever, a running device has a live pool for each of
\* its queues, and no two queues share one.
THEOREM NicOnLivePoolsHolds == Spec => []NicOnLivePools
<1>1. StartInv => NicOnLivePools
  <2> SUFFICES ASSUME StartInv, started PROVE NicOnLivePools
    BY DEF NicOnLivePools
  <2>1. SetUp
    BY DEF StartInv, NicInv, MainInv
  <2>2. \A i \in 0 .. n_queues - 1 : \E p \in pools : <<i, p>> \in rx_pool
    BY <2>1 DEF SetUp
  <2>3. \A a, b \in rx_pool : a[2] = b[2] => a = b
    BY <2>1 DEF SetUp
  <2>4. QED BY <2>2, <2>3 DEF NicOnLivePools
<1>2. QED BY <1>1, AlwaysStartInv, PTL

\* No call of the probe that fails leaves a pool behind, and none is freed twice.
THEOREM FailedProbeFreesAllHolds == Spec => []FailedProbeFreesAll
<1>1. StartInv => FailedProbeFreesAll
  <2> SUFFICES ASSUME StartInv PROVE FailedProbeFreesAll
    OBVIOUS
  <2>1. DOMAIN vec = 1 .. Len(vec)
    BY LenProperties DEF StartInv, VecInv
  <2>2. \A i, j \in DOMAIN vec : vec[i] \in pools /\ (vec[i] = vec[j] => i = j)
    BY <2>1 DEF StartInv, VecInv
  <2>3. QED BY <2>2 DEF StartInv, NicInv, FailedProbeFreesAll
<1>2. QED BY <1>1, AlwaysStartInv, PTL

\* Workers start with a device, queues, a route and something to fetch,
\* whatever numbers .env holds and however many queues the device has.
THEOREM WorkersCanFetchHolds == Spec => []WorkersCanFetch
<1>1. StartInv => WorkersCanFetch
  <2> SUFFICES ASSUME StartInv, pc = "run" PROVE WorkersCanFetch
    BY DEF WorkersCanFetch
  <2>1. started /\ SetUp
    BY DEF StartInv, NicInv, Live
  <2>2. /\ lease # "none" /\ (lease = "routed" => gw_mac = "gateway")
        /\ n_queues > 0 /\ built /\ ~ SomethingZero /\ EnvInv
    BY DEF StartInv, MainInv, Live
  <2>3. ASSUME NEW v \in Sizes PROVE SizeOf(baked, v) > 0
    <3>1. SizeOf(baked, v) \in Nat
      BY <2>2, BootedSizes
    <3>2. SizeOf(baked, v) # 0
      <4>1. CASE v = "BENCH_WORKERS"
        BY <2>2, <4>1, WorkersRequested DEF SomethingZero
      <4>2. CASE v # "BENCH_WORKERS"
        BY <2>2, <4>2 DEF SomethingZero
      <4>3. QED BY <4>1, <4>2
    <3>3. QED BY <3>1, <3>2
  <2>4. QED BY <2>1, <2>2, <2>3 DEF WorkersCanFetch, SetUp
<1>2. QED BY <1>1, AlwaysStartInv, PTL

-----------------------------------------------------------------------------
(* How long start-up takes *)

\* The waits are within their budgets, and the queues fit 16 bits.
BudgetInv ==
    /\ pc = "dhcp" => iter \in 0 .. DHCP_BUDGET
    /\ pc = "wait" => iter \in 0 .. ARP_BUDGET
    /\ n_queues < U16

\* A bound of the steps the main thread still takes: one for each pool, each
\* queue and each pool to drop, and those of the two waits.
ArpSteps == ARP_BUDGET + 3
DhcpSteps == ArpSteps + DHCP_BUDGET + 1
StepsFrom(at, n, i, turns, handles) ==
    CASE at = "off"    -> DhcpSteps + 3 * U16 + 6
      [] at = "clamp"  -> DhcpSteps + 3 * U16 + 5
      [] at = "pools"  -> DhcpSteps + (n - i) + 2 * n + 4
      [] at = "queues" -> DhcpSteps + (n - i) + n + 3
      [] at = "drop"   -> handles + 1
      [] at = "rss"    -> DhcpSteps + 2
      [] at = "dhcp"   -> DhcpSteps + 1 - turns
      [] at = "arp"    -> ArpSteps
      [] at = "wait"   -> ARP_BUDGET + 2 - turns
      [] OTHER         -> 0

StepsLeft == StepsFrom(pc, n_queues, q, iter, Len(vec))

CountsDown == StepsLeft \in Nat /\ StepsLeft' \in Nat /\ StepsLeft' < StepsLeft

LEMMA BudgetInit == Init => BudgetInv
BY Limits DEF Init, BudgetInv

LEMMA ClampedFits ==
    ASSUME EnvInv, built, NEW max \in Nat
    PROVE  Clamped(max) < U16
<1> DEFINE n == N_WORKERS_REQ(baked)
<1>1. n \in Nat /\ n < U16 /\ U16 \in Nat
  <2>1. SizeOf(baked, "BENCH_WORKERS") \in Nat
    BY BootedSizes DEF Sizes
  <2>2. U16 \in Nat /\ \A a \in Nat : a % U16 \in Nat /\ a % U16 < U16
    BY Limits
  <2>3. QED BY <2>1, <2>2 DEF N_WORKERS_REQ
<1>2. Clamped(max) = IF max = 0 THEN n ELSE Min({n, max})
  BY DEF Clamped
<1> HIDE DEF n
<1>3. \E x \in {n, max} : \A y \in {n, max} : x <= y
  BY <1>1
<1>4. Min({n, max}) \in {n, max} /\ Min({n, max}) <= n
  BY <1>3 DEF Min
<1>5. QED BY <1>1, <1>2, <1>4

LEMMA BudgetStep == StartInv /\ BudgetInv /\ [Next]_vars => BudgetInv'
<1> SUFFICES ASSUME StartInv, BudgetInv, [Next]_vars PROVE BudgetInv'
  OBVIOUS
<1> USE StartupAssumption
<1>1. CASE ClampQueues
  <2>1. dev_max' \in Nat /\ built
    BY <1>1 DEF ClampQueues, StartInv, MainInv
  <2>2. n_queues' < U16
    BY <1>1, <2>1, ClampedFits DEF ClampQueues, StartInv
  <2>3. QED BY <1>1, <2>2 DEF BudgetInv, ClampQueues
<1>2. CASE Boot
  BY <1>2 DEF BudgetInv, Boot
<1>3. CASE Probe
  BY <1>3 DEF BudgetInv, Probe, CreatePool, CreatePoolFails, DevConfigure, DevConfigureFails,
              SetupQueue, SetupQueueFails, DevStart, DevStartFails, ProbeFails, DropPool, NoUsableNic
<1>4. CASE LoadRss \/ LoadRssFails
  BY <1>4 DEF BudgetInv, LoadRss, LoadRssFails, GiveUp
<1>5. CASE DhcpConfigured \/ ArpSend \/ ArpNoMbuf \/ ArpReply
  BY <1>5 DEF BudgetInv, DhcpConfigured, ArpSend, ArpNoMbuf, ArpReply, GiveUp
<1>6. CASE DhcpPoll
  BY <1>6 DEF BudgetInv, DhcpPoll, IterNext
<1>7. CASE ArpWait
  BY <1>7 DEF BudgetInv, ArpWait
<1>8. CASE Configure
  BY <1>8 DEF BudgetInv, Configure
<1>9. CASE Over \/ NoImage \/ UNCHANGED vars
  BY <1>9 DEF BudgetInv, Over, NoImage, vars
<1>10. QED BY <1>1, <1>2, <1>3, <1>4, <1>5, <1>6, <1>7, <1>8, <1>9 DEF Next, Main, LearnNetwork

LEMMA StepsAre ==
    ASSUME NEW n, NEW i, NEW t, NEW h
    PROVE  /\ StepsFrom("off", n, i, t, h) = DhcpSteps + 3 * U16 + 6
           /\ StepsFrom("clamp", n, i, t, h) = DhcpSteps + 3 * U16 + 5
           /\ StepsFrom("pools", n, i, t, h) = DhcpSteps + (n - i) + 2 * n + 4
           /\ StepsFrom("queues", n, i, t, h) = DhcpSteps + (n - i) + n + 3
           /\ StepsFrom("drop", n, i, t, h) = h + 1
           /\ StepsFrom("rss", n, i, t, h) = DhcpSteps + 2
           /\ StepsFrom("dhcp", n, i, t, h) = DhcpSteps + 1 - t
           /\ StepsFrom("arp", n, i, t, h) = ArpSteps
           /\ StepsFrom("wait", n, i, t, h) = ARP_BUDGET + 2 - t
           /\ StepsFrom("run", n, i, t, h) = 0 /\ StepsFrom("exit", n, i, t, h) = 0
BY DEF StepsFrom

LEMMA MainCounts == ASSUME StartInv, BudgetInv, BudgetInv', StartInv', Main PROVE CountsDown
<1> DEFINE Before == StepsFrom(pc, n_queues, q, iter, Len(vec))
           After == StepsFrom(pc', n_queues', q', iter', Len(vec'))
<1>1. /\ ARP_BUDGET \in Nat /\ ArpSteps = ARP_BUDGET + 3
      /\ DHCP_BUDGET \in Nat /\ DhcpSteps = ArpSteps + DHCP_BUDGET + 1
      /\ n_queues \in Nat /\ q \in Nat /\ n_queues' \in Nat /\ U16 \in Nat
      /\ n_queues < U16 /\ n_queues' < U16 /\ Len(vec) \in Nat /\ Len(vec) <= n_queues
  BY StartupAssumption, Limits, LenProperties
     DEF StartInv, NicInv, VecInv, BudgetInv, ArpSteps, DhcpSteps
<1> SUFFICES Before \in Nat /\ After \in Nat /\ After < Before
  BY DEF CountsDown, StepsLeft
<1>2. CASE Boot
  <2>1. pc = "off" /\ pc' \in {"clamp", "exit"}
    BY <1>2 DEF Boot
  <2>2. Before = DhcpSteps + 3 * U16 + 6 /\ After \in {DhcpSteps + 3 * U16 + 5, 0}
    BY <2>1, StepsAre
  <2>3. QED BY ONLY <1>1, <2>2
<1>3. CASE ClampQueues
  <2>1. q' = 0 /\ pc = "clamp" /\ pc' = "pools"
    BY <1>3 DEF ClampQueues, StartInv, NicInv
  <2>2. Before = DhcpSteps + 3 * U16 + 5 /\ After = DhcpSteps + (n_queues' - 0) + 2 * n_queues' + 4
    BY <2>1, StepsAre
  <2>3. ASSUME NEW d \in Nat, NEW n \in Nat, NEW u \in Nat, n < u
        PROVE  /\ d + (n - 0) + 2 * n + 4 < d + 3 * u + 5
               /\ d + (n - 0) + 2 * n + 4 \in Nat /\ d + 3 * u + 5 \in Nat
    BY <2>3
  <2>4. DhcpSteps \in Nat /\ n_queues' \in Nat /\ U16 \in Nat /\ n_queues' < U16
    BY ONLY <1>1
  <2> HIDE DEF Before, After
  <2>5. LET n == n_queues'
        IN  /\ DhcpSteps + (n - 0) + 2 * n + 4 < DhcpSteps + 3 * U16 + 5
            /\ DhcpSteps + (n - 0) + 2 * n + 4 \in Nat /\ DhcpSteps + 3 * U16 + 5 \in Nat
    BY ONLY <2>3, <2>4
  <2>6. QED BY ONLY <2>2, <2>5
<1>4. CASE CreatePool \/ DevConfigure
  <2>1. /\ pc = "pools" /\ n_queues' = n_queues
        /\ \/ pc' = "pools" /\ q < n_queues /\ q' = q + 1
           \/ pc' = "queues" /\ q = n_queues /\ q' = 0
    BY <1>4 DEF CreatePool, DevConfigure
  <2>2. /\ Before = DhcpSteps + (n_queues - q) + 2 * n_queues + 4
        /\ \/ q < n_queues /\ After = DhcpSteps + (n_queues - (q + 1)) + 2 * n_queues + 4
           \/ q = n_queues /\ After = DhcpSteps + (n_queues - 0) + n_queues + 3
    BY <2>1, StepsAre
  <2>3. QED BY ONLY <1>1, <2>2
<1>5. CASE SetupQueue \/ DevStart
  <2>1. /\ pc = "queues" /\ n_queues' = n_queues
        /\ \/ pc' = "queues" /\ q < n_queues /\ q' = q + 1
           \/ pc' = "rss" /\ q = n_queues
    BY <1>5 DEF SetupQueue, DevStart
  <2>2. /\ Before = DhcpSteps + (n_queues - q) + n_queues + 3
        /\ \/ q < n_queues /\ After = DhcpSteps + (n_queues - (q + 1)) + n_queues + 3
           \/ q = n_queues /\ After = DhcpSteps + 2
    BY <2>1, StepsAre
  <2>3. QED BY ONLY <1>1, <2>2
<1>6. CASE CreatePoolFails \/ DevConfigureFails \/ SetupQueueFails \/ DevStartFails
  <2>1. pc \in {"pools", "queues"} /\ pc' = "drop" /\ q <= n_queues /\ vec' = vec
    BY <1>6 DEF CreatePoolFails, DevConfigureFails, SetupQueueFails, DevStartFails, ProbeFails,
                StartInv, NicInv, nic
  <2>2. /\ Before \in {DhcpSteps + (n_queues - q) + 2 * n_queues + 4, DhcpSteps + (n_queues - q) + n_queues + 3}
        /\ After = Len(vec) + 1
    BY <2>1, StepsAre
  <2>3. q <= n_queues
    BY <2>1
  <2>4. QED BY ONLY <1>1, <2>2, <2>3
<1>7. CASE DropPool
  <2>1. pc = "drop" /\ pc' = "drop" /\ vec # <<>> /\ vec' = Tail(vec) /\ vec \in Seq(Nat)
    BY <1>7 DEF DropPool, StartInv, VecInv
  <2>2. Len(vec') = Len(vec) - 1 /\ Len(vec) > 0
    BY <2>1, HeadTailProperties, EmptySeq
  <2>3. Before = Len(vec) + 1 /\ After = Len(vec') + 1
    BY <2>1, StepsAre
  <2>4. QED BY ONLY <1>1, <2>2, <2>3
<1>8. CASE NoUsableNic
  <2>1. pc = "drop" /\ pc' = "exit"
    BY <1>8 DEF NoUsableNic
  <2>2. Before = Len(vec) + 1 /\ After = 0
    BY <2>1, StepsAre
  <2>3. QED BY ONLY <1>1, <2>2
<1>9. CASE LoadRss \/ LoadRssFails
  <2>1. pc = "rss" /\ (pc' = "exit" \/ (pc' = "dhcp" /\ iter' = 0))
    BY <1>9 DEF LoadRss, LoadRssFails, GiveUp
  <2>2. Before = DhcpSteps + 2 /\ After \in {0, DhcpSteps + 1 - 0}
    BY <2>1, StepsAre
  <2>3. QED BY ONLY <1>1, <2>2
<1>10. CASE DhcpConfigured \/ DhcpPoll
  <2>1. /\ pc = "dhcp" /\ iter \in 0 .. DHCP_BUDGET
        /\ pc' \in {"arp", "exit"} \/ (pc' = "dhcp" /\ iter' = iter + 1)
    BY <1>10 DEF DhcpConfigured, DhcpPoll, IterNext, BudgetInv
  <2>2. pc' = "dhcp" => iter' \in 0 .. DHCP_BUDGET
    BY DEF BudgetInv
  <2>3. /\ Before = DhcpSteps + 1 - iter /\ iter \in 0 .. DHCP_BUDGET
        /\ After \in {ArpSteps, 0} \/ After = DhcpSteps + 1 - (iter + 1)
    BY <2>1, <2>2, StepsAre
  <2>4. QED BY ONLY <1>1, <2>3
<1>11. CASE ArpSend \/ ArpNoMbuf
  <2>1. pc = "arp" /\ (pc' = "exit" \/ (pc' = "wait" /\ iter' = 0))
    BY <1>11 DEF ArpSend, ArpNoMbuf, GiveUp
  <2>2. Before = ArpSteps /\ After \in {0, ARP_BUDGET + 2 - 0}
    BY <2>1, StepsAre
  <2>3. QED BY ONLY <1>1, <2>2
<1>12. CASE ArpReply \/ ArpWait
  <2>1. /\ pc = "wait" /\ iter \in 0 .. ARP_BUDGET
        /\ pc' \in {"run", "exit"} \/ (pc' = "wait" /\ iter' = iter + 1)
    BY <1>12 DEF ArpReply, ArpWait, BudgetInv
  <2>2. /\ Before = ARP_BUDGET + 2 - iter /\ iter \in 0 .. ARP_BUDGET
        /\ After = 0 \/ After = ARP_BUDGET + 2 - (iter + 1)
    BY <2>1, StepsAre
  <2>3. QED BY ONLY <1>1, <2>2
<1>13. QED BY <1>2, <1>3, <1>4, <1>5, <1>6, <1>7, <1>8, <1>9, <1>10, <1>11, <1>12
           DEF Main, Probe, LearnNetwork

\* The main thread takes a bounded number of steps whatever fails and whatever
\* comes in: each takes away from a natural number, so no wait of
\* learn_network and no loop of the probe goes on for ever.
THEOREM StartupCountsDown == Spec => [][Main => CountsDown]_vars
<1>1. StartInv /\ BudgetInv /\ [Next]_vars => StartInv' /\ BudgetInv'
  BY StartStep, BudgetStep
<1>2. StartInv /\ BudgetInv /\ StartInv' /\ BudgetInv' => [Main => CountsDown]_vars
  BY MainCounts
<1>3. Init => StartInv /\ BudgetInv
  BY StartInit, BudgetInit
<1>4. QED BY <1>1, <1>2, <1>3, PTL DEF Spec
================================================================================
