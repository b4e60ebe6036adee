--------------------------- MODULE SteeringProofs ---------------------------
(***************************************************************************)
(* Proofs about the choice of local ports, for every size of the port      *)
(* range, every hash, every indirection table and any number of queues.    *)
(***************************************************************************)
EXTENDS Steering, Toeplitz, SumTheorems, SequenceTheorems

Ranks == 0 .. MaxQueues - 1
Bytes == 0 .. EPH_LEN \div BITS - 1

Locals ==
    [at : {"build", "scan", "done"}, owned_count : Nat, i : 0 .. EPH_LEN, seen : Nat,
     my_ports : Seq(EphPorts), bitmap : [Bytes -> SUBSET (0 .. BITS - 1)]]

\* The device does not change, and a program that goes on to its workers has
\* read its table.
LoadInv ==
    /\ n_queues \in 1 .. MaxQueues /\ hash \in HashFns
    /\ \E k \in 0 .. MaxTable : table \in [0 .. k - 1 -> 0 .. n_queues - 1]
    /\ main = "workers" =>
          IF n_queues = 1 THEN SINGLE_QUEUE
          ELSE /\ ~SINGLE_QUEUE /\ RSS_KEY_LEN = KeyBytes /\ DOMAIN table # {}
               /\ RSS_RETA = ReadTable /\ RSS_RETA_LEN = Cardinality(DOMAIN ReadTable)
               /\ PowerOfTwo(RSS_RETA_LEN)
    /\ main # "workers" => SINGLE_QUEUE = FALSE

\* The bitmap of a worker is what queue_for_local_port says, or still empty.
MarkInv(q) ==
    /\ worker[q].at = "build" =>
          /\ worker[q].my_ports = <<>> /\ worker[q].i = 0 /\ worker[q].seen = 0
          /\ worker[q].bitmap = [b \in Bytes |-> {}]
    /\ worker[q].at # "build" =>
          /\ main = "workers"
          /\ \A p \in EphPorts : owns_port(q, p) <=> SteersHere(q, p)

\* The ports of a worker are marked, in order, and behind the scan.
PortInv(q) ==
    LET ports == worker[q].my_ports
    IN  /\ \A a \in 1 .. Len(ports) : ports[a] < worker[q].i /\ owns_port(q, ports[a])
        /\ \A a, b \in 1 .. Len(ports) : a < b => ports[a] < ports[b]

SteerInv ==
    /\ LoadInv
    /\ worker \in [Ranks -> Locals]
    /\ \A q \in Ranks : MarkInv(q) /\ PortInv(q)

-----------------------------------------------------------------------------
(* Arithmetic of the bitmap *)

\* A quotient stays below another when the numbers do.
LEMMA DivBelow ==
    ASSUME NEW n \in Nat, NEW d \in Nat \ {0}, NEW m \in Nat, n < m * d
    PROVE  n \div d < m
<1>1. (n \div d) * d <= n /\ n \div d \in Nat
    BY DivMod
<1>2. SUFFICES ASSUME n \div d >= m PROVE FALSE
    BY <1>1
<1>3. (n \div d) * d >= m * d
    BY <1>1, <1>2
<1>4. QED BY <1>1, <1>3

LEMMA EphNat == \A p \in EphPorts : p \in Nat
BY SteeringAssumption DEF EphPorts

\* Every ephemeral port has its byte in the bitmap.
LEMMA PortByte ==
    ASSUME NEW p \in EphPorts
    PROVE  /\ p \in Nat /\ p \div BITS \in Bytes /\ p % BITS \in 0 .. BITS - 1
           /\ (p \div BITS) * BITS + (p % BITS) = p
<1>1. BITS \in Nat \ {0} /\ EPH_LEN \in Nat /\ EPH_LEN % BITS = 0 /\ p \in Nat /\ p < EPH_LEN
    BY SteeringAssumption DEF EphPorts
<1>2. EPH_LEN \div BITS \in Nat /\ EPH_LEN = (EPH_LEN \div BITS) * BITS
    <2>1. /\ EPH_LEN \div BITS \in Nat
          /\ (EPH_LEN \div BITS) * BITS + (EPH_LEN % BITS) = EPH_LEN
        BY ONLY <1>1, DivMod
    <2>2. (EPH_LEN \div BITS) * BITS \in Nat
        BY <1>1, <2>1
    <2>3. QED BY <1>1, <2>1, <2>2
<1>3. p \div BITS < EPH_LEN \div BITS
    BY ONLY <1>1, <1>2, DivBelow
<1>4. /\ p \div BITS \in Nat /\ p % BITS \in 0 .. BITS - 1
      /\ (p \div BITS) * BITS + (p % BITS) = p
    BY ONLY <1>1, DivMod
<1>5. p \div BITS \in Bytes
    BY <1>2, <1>3, <1>4 DEF Bytes
<1>6. QED BY <1>1, <1>4, <1>5

-----------------------------------------------------------------------------
(* Masking and remainders *)

\* One level of the recursion of a & b.
AndLevel(f, a) == [b \in Nat |-> IF a = 0 THEN 0 ELSE 2 * f[a \div 2][b \div 2] + (a % 2) * (b % 2)]

\* g follows the recursion for every number up to n.
Upto(g, n) == \A a \in 0 .. n : g[a] = AndLevel(g, a)

LEMMA Halves ==
    ASSUME NEW a \in Nat
    PROVE  /\ a \div 2 \in Nat /\ a % 2 \in {0, 1} /\ a = 2 * (a \div 2) + (a % 2)
           /\ a \div 2 <= a /\ (a # 0 => a \div 2 < a)
OBVIOUS

LEMMA AndLevelAgree ==
    ASSUME NEW a \in Nat, NEW f, NEW g, a # 0 => f[a \div 2] = g[a \div 2]
    PROVE  AndLevel(f, a) = AndLevel(g, a)
<1>1. CASE a = 0
    BY <1>1 DEF AndLevel
<1>2. CASE a # 0
    <2>1. f[a \div 2] = g[a \div 2]
        BY <1>2
    <2>2. QED BY <2>1 DEF AndLevel
<1>3. QED BY <1>1, <1>2

LEMMA UptoExists == \A n \in Nat : \E g : Upto(g, n)
<1> DEFINE S == {n \in Nat : ~ \E g : Upto(g, n)}
<1>1. SUFFICES ASSUME S # {} PROVE FALSE
    OBVIOUS
<1>2. PICK n \in S : \A m \in S : n <= m
    BY <1>1, Least
<1>3. n \in Nat
    OBVIOUS
<1>4. \E g : \A a \in 0 .. n - 1 : g[a] = AndLevel(g, a)
    <2>1. CASE n = 0
        BY <2>1
    <2>2. CASE n # 0
        <3>1. n - 1 \in Nat /\ ~ (n <= n - 1)
            BY <1>3, <2>2
        <3>2. n - 1 \notin S
            BY <1>2, <3>1
        <3>3. QED BY <3>1, <3>2 DEF Upto
    <2>3. QED BY <2>1, <2>2
<1>5. PICK g : \A a \in 0 .. n - 1 : g[a] = AndLevel(g, a)
    BY <1>4
<1> DEFINE h == [a \in 0 .. n |-> IF a = n THEN AndLevel(g, n) ELSE g[a]]
<1>6. \A a \in 0 .. n : a # 0 => h[a \div 2] = g[a \div 2]
    <2>1. SUFFICES ASSUME NEW a \in 0 .. n, a # 0 PROVE h[a \div 2] = g[a \div 2]
        OBVIOUS
    <2>2. a \in Nat
        BY <1>3
    <2>3. a \div 2 \in Nat /\ a \div 2 < a
        BY <2>1, <2>2, Halves
    <2>4. a \div 2 \in 0 .. n /\ a \div 2 # n
        BY <1>3, <2>2, <2>3
    <2>5. QED BY <2>4
<1>7. \A a \in 0 .. n : h[a] = AndLevel(g, a)
    <2>1. SUFFICES ASSUME NEW a \in 0 .. n PROVE h[a] = AndLevel(g, a)
        OBVIOUS
    <2>2. CASE a = n
        BY <2>2
    <2>3. CASE a # n
        <3>1. a \in 0 .. n - 1
            BY <1>3, <2>3
        <3>2. QED BY <1>5, <2>3, <3>1
    <2>4. QED BY <2>2, <2>3
<1> HIDE DEF h
<1>8. \A a \in 0 .. n : AndLevel(h, a) = AndLevel(g, a)
    <2>1. SUFFICES ASSUME NEW a \in 0 .. n PROVE AndLevel(h, a) = AndLevel(g, a)
        OBVIOUS
    <2>2. a \in Nat
        BY <1>3
    <2>3. a # 0 => h[a \div 2] = g[a \div 2]
        BY <1>6
    <2>4. QED BY ONLY <2>2, <2>3, AndLevelAgree
<1>9. Upto(h, n)
    BY <1>7, <1>8 DEF Upto
<1>10. QED BY <1>9

LEMMA UptoUnique ==
    ASSUME NEW g, NEW n \in Nat, Upto(g, n), NEW h, NEW m \in Nat, Upto(h, m),
           NEW a \in Nat, a <= n, a <= m
    PROVE  g[a] = h[a]
<1> DEFINE S == {x \in Nat : x <= n /\ x <= m /\ g[x] # h[x]}
<1>1. SUFFICES ASSUME S # {} PROVE FALSE
    OBVIOUS
<1>2. PICK x \in S : \A y \in S : x <= y
    BY <1>1, Least
<1>3. x \in Nat /\ x <= n /\ x <= m /\ g[x] # h[x]
    BY <1>2
<1>4. x # 0 => g[x \div 2] = h[x \div 2]
    <2>1. SUFFICES ASSUME x # 0 PROVE g[x \div 2] = h[x \div 2]
        OBVIOUS
    <2>2. x \div 2 \in Nat /\ x \div 2 < x
        BY <1>3, <2>1, Halves
    <2>3. x \div 2 \notin S
        BY <1>2, <1>3, <2>2
    <2>4. x \div 2 <= n /\ x \div 2 <= m
        BY <1>3, <2>2
    <2>5. QED BY <2>2, <2>3, <2>4
<1>5. AndLevel(g, x) = AndLevel(h, x)
    BY ONLY <1>3, <1>4, AndLevelAgree
<1>6. g[x] = AndLevel(g, x) /\ h[x] = AndLevel(h, x)
    BY <1>3 DEF Upto
<1>7. QED BY <1>3, <1>5, <1>6

\* The recursive function is what its definition says.
LEMMA AndUnfold == AndWith = [a \in Nat |-> AndLevel(AndWith, a)]
<1> DEFINE G(a) == CHOOSE g : Upto(g, a)
           f == [a \in Nat |-> G(a)[a]]
<1>1. ASSUME NEW a \in Nat PROVE Upto(G(a), a)
    <2>1. \E g : Upto(g, a)
        BY UptoExists
    <2>2. QED BY <2>1, Zenon
<1> HIDE DEF G
<1>2. ASSUME NEW a \in Nat PROVE f[a] = AndLevel(f, a)
    <2>1. G(a)[a] = AndLevel(G(a), a)
        <3>1. a \in 0 .. a
            OBVIOUS
        <3>2. QED BY <1>1, <3>1 DEF Upto
    <2>2. a \div 2 \in Nat /\ a \div 2 <= a
        BY Halves
    <2>3. Upto(G(a), a) /\ Upto(G(a \div 2), a \div 2)
        BY <1>1, <2>2
    <2>4. a \div 2 <= a \div 2
        BY <2>2
    <2>5. G(a)[a \div 2] = G(a \div 2)[a \div 2]
        BY ONLY <2>2, <2>3, <2>4, a \in Nat, UptoUnique
    <2>6. G(a)[a \div 2] = f[a \div 2]
        BY <2>2, <2>5
    <2> HIDE DEF f
    <2>7. AndLevel(G(a), a) = AndLevel(f, a)
        BY ONLY <2>6, a \in Nat, AndLevelAgree
    <2>8. QED BY <2>1, <2>7 DEF f
<1>3. f = [a \in Nat |-> AndLevel(f, a)]
    BY <1>2
<1> HIDE DEF f
<1>4. AndWith = CHOOSE g : g = [a \in Nat |-> AndLevel(g, a)]
    BY DEF AndWith, AndLevel
<1>5. \E g : g = [a \in Nat |-> AndLevel(g, a)]
    BY <1>3, Zenon
<1>6. QED BY <1>4, <1>5, Zenon

LEMMA AndStep ==
    ASSUME NEW a \in Nat, NEW b \in Nat
    PROVE  And(a, b) = IF a = 0 THEN 0 ELSE 2 * And(a \div 2, b \div 2) + (a % 2) * (b % 2)
<1>1. AndWith[a] = AndLevel(AndWith, a)
    BY AndUnfold
<1>2. QED BY <1>1 DEF AndLevel, And

LEMMA AndType == \A a \in Nat : \A b \in Nat : And(a, b) \in Nat
<1> DEFINE S == {a \in Nat : ~ \A b \in Nat : And(a, b) \in Nat}
<1>1. SUFFICES ASSUME S # {} PROVE FALSE
    OBVIOUS
<1>2. PICK a \in S : \A y \in S : a <= y
    BY <1>1, Least
<1>3. a \in Nat
    BY <1>2
<1>4. PICK b \in Nat : And(a, b) \notin Nat
    BY <1>2
<1>5. a # 0
    BY <1>3, <1>4, AndStep
<1>6. a \div 2 \in Nat /\ a % 2 \in {0, 1} /\ a \div 2 < a /\ b \div 2 \in Nat /\ b % 2 \in {0, 1}
    BY <1>3, <1>5, Halves
<1>7. And(a \div 2, b \div 2) \in Nat
    BY <1>2, <1>3, <1>6
<1>8. And(a, b) = 2 * And(a \div 2, b \div 2) + (a % 2) * (b % 2)
    BY <1>3, <1>5, AndStep
<1>9. QED BY <1>4, <1>6, <1>7, <1>8

LEMMA AndSelf == \A m \in Nat : And(m, m) = m
<1> DEFINE S == {m \in Nat : And(m, m) # m}
<1>1. SUFFICES ASSUME S # {} PROVE FALSE
    OBVIOUS
<1>2. PICK m \in S : \A y \in S : m <= y
    BY <1>1, Least
<1>3. m \in Nat /\ And(m, m) # m
    BY <1>2
<1>4. m # 0
    BY <1>3, AndStep
<1>5. /\ m \div 2 \in Nat /\ m % 2 \in {0, 1} /\ m = 2 * (m \div 2) + (m % 2) /\ m \div 2 < m
    BY <1>3, <1>4, Halves
<1>6. And(m \div 2, m \div 2) = m \div 2
    BY <1>2, <1>3, <1>5
<1>7. And(m, m) = 2 * And(m \div 2, m \div 2) + (m % 2) * (m % 2)
    BY <1>3, <1>4, AndStep
<1>8. (m % 2) * (m % 2) = m % 2
    BY <1>5
<1>9. QED BY <1>3, <1>5, <1>6, <1>7, <1>8

\* Twice the remainder of the half, and the last bit.
LEMMA RemainderHalves ==
    ASSUME NEW h \in Nat, NEW m \in Nat \ {0}
    PROVE  2 * ((h \div 2) % m) + (h % 2) = h % (2 * m)
<1> DEFINE q == h \div 2
           s == q \div m
           t == q % m
           r == h % 2
<1>1. q \in Nat /\ r \in {0, 1} /\ h = 2 * q + r
    BY Halves
<1> HIDE DEF q, r
<1>2. s \in Nat /\ t \in 0 .. m - 1 /\ s * m + t = q
    BY ONLY <1>1, m \in Nat \ {0}, DivMod
<1> HIDE DEF s, t
<1>3. t \in Nat /\ 2 * t + r \in Nat /\ 2 * t + r < 2 * m /\ 2 * m \in Nat \ {0}
    BY <1>1, <1>2
<1>4. h = s * (2 * m) + (2 * t + r)
    <2>1. s * (2 * m) = 2 * (s * m) /\ s * m \in Nat
        BY <1>2
    <2>2. QED BY <1>1, <1>2, <1>3, <2>1
<1>5. (s * (2 * m) + (2 * t + r)) % (2 * m) = 2 * t + r
    BY ONLY <1>2, <1>3, Remainder
<1>6. QED BY <1>4, <1>5 DEF t, q, r

\* `n & (n - 1) != 0` is refused: for a size load_rss_config accepts, masking
\* a hash with size - 1 and taking it modulo the size are the same.
LEMMA Mask ==
    ASSUME NEW n \in Nat \ {0}, And(n, n - 1) = 0
    PROVE  \A h \in Nat : And(h, n - 1) = h % n
<1> DEFINE S == {x \in Nat \ {0} : And(x, x - 1) = 0 /\ ~ \A h \in Nat : And(h, x - 1) = h % x}
<1>1. SUFFICES ASSUME S # {} PROVE FALSE
    OBVIOUS
<1>2. PICK x \in S : \A y \in S : x <= y
    BY <1>1, Least
<1>3. x \in Nat \ {0} /\ And(x, x - 1) = 0 /\ ~ \A h \in Nat : And(h, x - 1) = h % x
    BY <1>2
<1>4. PICK h \in Nat : And(h, x - 1) # h % x
    BY <1>3
<1> HIDE DEF S
<1>5. /\ x - 1 \in Nat /\ x \div 2 \in Nat /\ x % 2 \in {0, 1}
      /\ x = 2 * (x \div 2) + (x % 2) /\ x \div 2 < x
    BY <1>3, Halves
<1>6. 0 = 2 * And(x \div 2, (x - 1) \div 2) + (x % 2) * ((x - 1) % 2)
    BY <1>3, <1>5, AndStep
<1>7. CASE x % 2 = 1
    <2>1. (x - 1) \div 2 = x \div 2
        BY <1>5, <1>7
    <2>2. (x - 1) % 2 = 0
        BY <1>5, <1>7
    <2>3. And(x \div 2, x \div 2) = x \div 2
        BY <1>5, AndSelf
    <2>4. x \div 2 = 0 /\ x = 1
        BY <1>5, <1>6, <1>7, <2>1, <2>2, <2>3
    <2>5. And(h, 0) = 0
        <3> DEFINE T == {y \in Nat : And(y, 0) # 0}
        <3>1. SUFFICES ASSUME T # {} PROVE FALSE
            OBVIOUS
        <3>2. PICK y \in T : \A z \in T : y <= z
            BY <3>1, Least
        <3>3. y \in Nat /\ And(y, 0) # 0
            BY <3>2
        <3>4. y # 0
            BY <3>3, AndStep
        <3>5. y \div 2 \in Nat /\ y \div 2 < y /\ y % 2 \in {0, 1}
            BY <3>3, <3>4, Halves
        <3>6. And(y \div 2, 0) = 0
            BY <3>2, <3>3, <3>5
        <3>7. And(y, 0) = 2 * And(y \div 2, 0 \div 2) + (y % 2) * (0 % 2)
            BY <3>3, <3>4, AndStep
        <3>8. 0 \div 2 = 0 /\ 0 % 2 = 0
            OBVIOUS
        <3>9. QED BY <3>3, <3>5, <3>6, <3>7, <3>8
    <2>6. h % 1 = 0
        OBVIOUS
    <2>7. QED BY <1>4, <2>4, <2>5, <2>6
<1>8. CASE x % 2 = 0
    <2> DEFINE m == x \div 2
    <2>1. m \in Nat \ {0} /\ m < x /\ x = 2 * m
        BY <1>3, <1>5, <1>8
    <2>2. (x - 1) \div 2 = m - 1 /\ (x - 1) % 2 = 1 /\ m - 1 \in Nat
        BY <2>1
    <2> HIDE DEF m
    <2>3. And(m, m - 1) = 0
        <3>1. 0 = 2 * And(m, m - 1) + 0 * 1
            BY <1>6, <1>8, <2>2 DEF m
        <3>2. And(m, m - 1) \in Nat
            BY <2>1, <2>2, AndType
        <3>3. QED BY <3>1, <3>2
    <2>4. m \notin S
        BY <1>2, <1>3, <2>1
    <2>5. \A y \in Nat : And(y, m - 1) = y % m
        BY <2>1, <2>3, <2>4 DEF S
    <2>6. h \div 2 \in Nat /\ h % 2 \in {0, 1}
        BY Halves
    <2>7. And(h, x - 1) = 2 * ((h \div 2) % m) + (h % 2)
        <3>1. CASE h = 0
            <4>1. And(h, x - 1) = 0
                BY <1>5, <3>1, AndStep
            <4>2. 0 \div 2 = 0 /\ 0 % 2 = 0 /\ 0 % m = 0
                BY <2>1
            <4>3. QED BY <3>1, <4>1, <4>2
        <3>2. CASE h # 0
            <4>1. And(h, x - 1) = 2 * And(h \div 2, m - 1) + (h % 2) * 1
                BY <1>5, <2>2, <3>2, AndStep, SMTT(60)
            <4>2. And(h \div 2, m - 1) = (h \div 2) % m
                BY <2>5, <2>6
            <4>3. QED BY <2>6, <4>1, <4>2
        <3>3. QED BY <3>1, <3>2
    <2>8. 2 * ((h \div 2) % m) + (h % 2) = h % (2 * m)
        BY ONLY <2>1, h \in Nat, RemainderHalves
    <2>9. QED BY <1>4, <2>1, <2>7, <2>8
<1>9. QED BY <1>5, <1>7, <1>8

-----------------------------------------------------------------------------
(* The invariant *)

LEMMA SteerInit == Init => SteerInv
<1> SUFFICES ASSUME Init PROVE SteerInv
    OBVIOUS
<1>1. LoadInv
    BY SteeringAssumption DEF Init, LoadInv
<1>2. EPH_LEN \in Nat /\ <<>> \in Seq(EphPorts) /\ Len(<<>>) = 0
    BY SteeringAssumption, EmptySeq
<1>3. worker \in [Ranks -> Locals]
    BY <1>2 DEF Init, Ranks, Locals, Bytes
<1>4. ASSUME NEW q \in Ranks PROVE MarkInv(q) /\ PortInv(q)
    <2>1. /\ worker[q].at = "build" /\ worker[q].my_ports = <<>> /\ worker[q].i = 0
          /\ worker[q].seen = 0 /\ worker[q].bitmap = [b \in Bytes |-> {}]
        BY DEF Init, Ranks, Bytes
    <2>2. MarkInv(q)
        BY <2>1 DEF MarkInv
    <2>3. PortInv(q)
        BY <1>2, <2>1 DEF PortInv
    <2>4. QED BY <2>2, <2>3
<1>5. QED BY <1>1, <1>3, <1>4 DEF SteerInv

\* A load leaves the workers where they are: none has started.
LEMMA LoadStep == ASSUME SteerInv, Load PROVE SteerInv'
<1>1. main = "rss" /\ worker' = worker /\ UNCHANGED device
    BY DEF Load, LoadSingle, LoadNoKey, LoadNoTable, LoadTable
<1>2. LoadInv'
    <2>1. ReadTable' = ReadTable
        BY <1>1 DEF ReadTable, device
    <2>2. SINGLE_QUEUE = FALSE
        BY <1>1 DEF SteerInv, LoadInv
    <2>3. /\ n_queues' \in 1 .. MaxQueues /\ hash' \in HashFns
          /\ \E k \in 0 .. MaxTable : table' \in [0 .. k - 1 -> 0 .. n_queues' - 1]
        BY <1>1 DEF SteerInv, LoadInv, device
    <2>4. CASE LoadSingle
        BY <1>1, <2>3, <2>4 DEF LoadSingle, LoadInv, device
    <2>5. CASE LoadNoKey \/ LoadNoTable
        BY <2>2, <2>3, <2>5 DEF LoadNoKey, LoadNoTable, LoadInv, rss
    <2>6. CASE LoadTable
        <3>1. /\ n_queues' # 1 /\ SINGLE_QUEUE' = FALSE /\ RSS_KEY_LEN' = KeyBytes
              /\ DOMAIN table' # {} /\ RSS_RETA' = ReadTable'
              /\ RSS_RETA_LEN' = Cardinality(DOMAIN ReadTable')
              /\ PowerOfTwo(RSS_RETA_LEN')
            BY <1>1, <2>1, <2>2, <2>6 DEF LoadTable, device
        <3>2. QED BY <2>3, <3>1 DEF LoadInv
    <2>7. QED BY <2>4, <2>5, <2>6 DEF Load
<1>3. ASSUME NEW q \in Ranks PROVE MarkInv(q)' /\ PortInv(q)'
    <2>1. worker[q].at = "build"
        BY <1>1 DEF SteerInv, MarkInv
    <2>2. QED BY <1>1, <2>1 DEF SteerInv, MarkInv, PortInv, owns_port
<1>4. QED BY <1>1, <1>2, <1>3 DEF SteerInv

\* What a worker's step leaves alone.
LEMMA OthersKeep ==
    ASSUME SteerInv, NEW q \in Ranks, UNCHANGED <<device, main, rss>>,
           NEW me \in Locals, worker' = [worker EXCEPT ![q] = me],
           MarkInv(q)', PortInv(q)'
    PROVE  SteerInv'
<1>1. LoadInv'
    <2>1. UNCHANGED <<n_queues, hash, table, main, SINGLE_QUEUE, RSS_KEY_LEN, RSS_RETA,
                      RSS_RETA_LEN>>
        BY DEF device, rss
    <2>2. ReadTable' = ReadTable
        BY <2>1 DEF ReadTable
    <2>3. LoadInv
        BY DEF SteerInv
    <2>4. QED BY <2>1, <2>2, <2>3 DEF LoadInv
<1>2. worker' \in [Ranks -> Locals]
    BY DEF SteerInv
<1>3. ASSUME NEW r \in Ranks, r # q PROVE MarkInv(r)' /\ PortInv(r)'
    <2>1. worker'[r] = worker[r]
        BY <1>3 DEF SteerInv
    <2>2. \A p \in EphPorts : owns_port(r, p)' = owns_port(r, p) /\ SteersHere(r, p)' = SteersHere(r, p)
        BY <2>1 DEF owns_port, SteersHere, predict_queue, rss, device
    <2>3. MarkInv(r)'
        BY <2>1, <2>2 DEF SteerInv, MarkInv
    <2>4. PortInv(r)'
        BY <2>1 DEF SteerInv, PortInv, owns_port
    <2>5. QED BY <2>3, <2>4
<1>4. QED BY <1>1, <1>2, <1>3 DEF SteerInv

\* build_owned_ports marks exactly the ports that steer here.
LEMMA BuildStep == ASSUME SteerInv, NEW q \in Ranks, Build(q) PROVE SteerInv'
<1> DEFINE mine == {p \in EphPorts : SteersHere(q, p)}
           bits == [b \in Bytes |-> {k \in 0 .. BITS - 1 : b * BITS + k \in mine}]
           me == [worker[q] EXCEPT !.bitmap = bits, !.owned_count = Cardinality(mine), !.at = "scan"]
<1>1. /\ worker[q] \in Locals /\ worker \in [Ranks -> Locals] /\ DOMAIN worker[q].bitmap = Bytes
      /\ worker[q].at = "build" /\ main = "workers" /\ UNCHANGED <<device, main, rss>>
    BY DEF SteerInv, Locals, Build
<1>2. worker' = [worker EXCEPT ![q] = me]
    BY <1>1 DEF Build, Locals
<1>3. IsFiniteSet(mine) /\ Cardinality(mine) \in Nat
    <2>1. IsFiniteSet(EphPorts)
        BY SteeringAssumption, FS_Interval DEF EphPorts
    <2>2. QED BY <2>1, FS_Subset, FS_CardinalityType
<1>4. bits \in [Bytes -> SUBSET (0 .. BITS - 1)]
    OBVIOUS
<1> HIDE DEF mine, bits
<1>5. me \in Locals
    BY <1>1, <1>3, <1>4 DEF Locals
<1>6. worker'[q] = me /\ me.at = "scan" /\ me.bitmap = bits /\ me.my_ports = <<>>
    BY <1>1, <1>2 DEF SteerInv, MarkInv, Locals
<1>7. ASSUME NEW p \in EphPorts PROVE owns_port(q, p)' <=> SteersHere(q, p)'
    <2>1. /\ p \div BITS \in Bytes /\ p % BITS \in 0 .. BITS - 1
          /\ (p \div BITS) * BITS + (p % BITS) = p
        BY PortByte
    <2>2. owns_port(q, p)' <=> p % BITS \in bits[p \div BITS]
        BY <1>6 DEF owns_port
    <2>3. bits[p \div BITS] = {k \in 0 .. BITS - 1 : (p \div BITS) * BITS + k \in mine}
        BY <2>1 DEF bits
    <2>4. p % BITS \in bits[p \div BITS] <=> p \in mine
        BY <2>1, <2>3
    <2>5. p \in mine <=> SteersHere(q, p)
        BY DEF mine
    <2>6. SteersHere(q, p)' <=> SteersHere(q, p)
        BY <1>1 DEF SteersHere, predict_queue, device, rss
    <2>7. QED BY <2>2, <2>4, <2>5, <2>6
<1>8. MarkInv(q)'
    BY <1>1, <1>6, <1>7 DEF MarkInv
<1>9. PortInv(q)'
    <2>1. Len(<<>>) = 0
        BY EmptySeq
    <2>2. QED BY <1>6, <2>1 DEF PortInv
<1>10. QED BY <1>1, <1>2, <1>5, <1>8, <1>9, OthersKeep

\* One turn of the scan adds at most the port it looks at.
LEMMA ScanStep == ASSUME SteerInv, NEW q \in Ranks, ScanPort(q) PROVE SteerInv'
<1> DEFINE i == worker[q].i
           ports == worker[q].my_ports
           owned == owns_port(q, i)
           push == owned /\ worker[q].seen % Stride(worker[q].owned_count) = 0
           more == IF push THEN Append(ports, i) ELSE ports
           seen == IF owned THEN worker[q].seen + 1 ELSE worker[q].seen
           me == [worker[q] EXCEPT !.i = i + 1, !.seen = seen, !.my_ports = more]
<1>1. /\ worker[q] \in Locals /\ worker \in [Ranks -> Locals] /\ worker[q].at = "scan"
      /\ ~ScanEnds(q) /\ UNCHANGED <<device, main, rss>>
    BY DEF SteerInv, ScanPort
<1>2. worker' = [worker EXCEPT ![q] = me]
    BY <1>1 DEF ScanPort, Locals
<1>3. i \in EphPorts /\ i + 1 \in 0 .. EPH_LEN /\ seen \in Nat /\ ports \in Seq(EphPorts)
    BY <1>1, SteeringAssumption DEF Locals, ScanEnds, EphPorts
<1>4. more \in Seq(EphPorts)
    BY <1>3
<1> HIDE DEF seen, more
<1>5. me \in Locals
    BY <1>1, <1>3, <1>4 DEF Locals
<1>6. /\ worker'[q] = me /\ me.at = "scan" /\ me.bitmap = worker[q].bitmap /\ me.i = i + 1
      /\ me.my_ports = more
    BY <1>1, <1>2 DEF Locals
<1>7. \A p : owns_port(q, p)' <=> owns_port(q, p)
    BY <1>6 DEF owns_port
<1>8. MarkInv(q)'
    <2>1. \A p \in EphPorts : SteersHere(q, p)' <=> SteersHere(q, p)
        BY <1>1 DEF SteersHere, predict_queue, device, rss
    <2>2. QED BY <1>1, <1>6, <1>7, <2>1 DEF SteerInv, MarkInv
<1>9. PortInv(q)'
    <2>1. /\ \A a \in 1 .. Len(ports) : ports[a] < i /\ owns_port(q, ports[a]) /\ ports[a] \in Nat
          /\ \A a, b \in 1 .. Len(ports) : a < b => ports[a] < ports[b]
        <3>1. \A a \in 1 .. Len(ports) : ports[a] \in Nat
            BY <1>3, ElementOfSeq, EphNat
        <3>2. QED BY <3>1 DEF SteerInv, PortInv
    <2>2. CASE ~push
        <3>1. more = ports
            BY <2>2 DEF more
        <3>2. \A a \in 1 .. Len(more) : more[a] < i + 1 /\ owns_port(q, more[a])
            BY <1>3, <2>1, <3>1 DEF EphPorts
        <3>3. QED BY <1>6, <1>7, <2>1, <3>1, <3>2 DEF PortInv
    <2>3. CASE push
        <3>1. more = Append(ports, i)
            BY <2>3 DEF more
        <3>2. /\ Len(ports) \in Nat /\ Len(more) = Len(ports) + 1 /\ more[Len(ports) + 1] = i
              /\ \A a \in 1 .. Len(ports) : more[a] = ports[a]
            BY <1>3, <3>1, AppendProperties, LenProperties
        <3>3. \A a \in 1 .. Len(more) : a \in 1 .. Len(ports) \/ a = Len(ports) + 1
            BY <3>2
        <3>4. \A a \in 1 .. Len(more) : more[a] < i + 1 /\ owns_port(q, more[a])
            <4>1. i \in Nat /\ i < i + 1 /\ owns_port(q, i)
                BY <1>3, <2>3, EphNat
            <4>2. \A a \in 1 .. Len(ports) : more[a] < i + 1 /\ owns_port(q, more[a])
                <5>1. ASSUME NEW a \in 1 .. Len(ports) PROVE more[a] < i + 1 /\ owns_port(q, more[a])
                    <6>1. more[a] = ports[a]
                        BY <3>2
                    <6>2. ports[a] \in Nat /\ ports[a] < i /\ owns_port(q, ports[a])
                        BY <2>1
                    <6>3. ports[a] < i + 1
                        BY <4>1, <6>2
                    <6>4. QED BY <6>1, <6>2, <6>3
                <5>2. QED BY <5>1
            <4>3. QED BY <3>2, <3>3, <4>1, <4>2
        <3>5. \A a, b \in 1 .. Len(more) : a < b => more[a] < more[b]
            BY <2>1, <3>2, <3>3
        <3>6. QED BY <1>6, <1>7, <3>4, <3>5 DEF PortInv
    <2>4. QED BY <2>2, <2>3
<1>10. QED BY <1>1, <1>2, <1>5, <1>8, <1>9, OthersKeep

LEMMA EndStep == ASSUME SteerInv, NEW q \in Ranks, ScanEnd(q) PROVE SteerInv'
<1> DEFINE me == [worker[q] EXCEPT !.at = "done"]
<1>1. /\ worker[q] \in Locals /\ worker \in [Ranks -> Locals] /\ worker[q].at = "scan"
      /\ UNCHANGED <<device, main, rss>>
    BY DEF SteerInv, ScanEnd
<1>2. worker' = [worker EXCEPT ![q] = me] /\ me \in Locals
    BY <1>1 DEF ScanEnd, Locals
<1>3. /\ worker'[q] = me /\ me.at = "done" /\ me.bitmap = worker[q].bitmap
      /\ me.my_ports = worker[q].my_ports /\ me.i = worker[q].i
    BY <1>1, <1>2 DEF Locals
<1>4. MarkInv(q)'
    <2>1. \A p \in EphPorts : /\ owns_port(q, p)' <=> owns_port(q, p)
                              /\ SteersHere(q, p)' <=> SteersHere(q, p)
        BY <1>1, <1>3 DEF owns_port, SteersHere, predict_queue, device, rss
    <2>2. QED BY <1>1, <1>3, <2>1 DEF SteerInv, MarkInv
<1>5. PortInv(q)'
    BY <1>3 DEF SteerInv, PortInv, owns_port
<1>6. QED BY <1>1, <1>2, <1>4, <1>5, OthersKeep

LEMMA SteerStep == SteerInv /\ [Next]_vars => SteerInv'
<1> SUFFICES ASSUME SteerInv, [Next]_vars PROVE SteerInv'
    OBVIOUS
<1>1. CASE UNCHANGED vars
    <2>1. UNCHANGED <<n_queues, hash, table, main, SINGLE_QUEUE, RSS_KEY_LEN, RSS_RETA,
                      RSS_RETA_LEN, worker>>
        BY <1>1 DEF vars, device, rss
    <2>2. LoadInv'
        <3>1. ReadTable' = ReadTable
            BY <2>1 DEF ReadTable
        <3>2. LoadInv
            BY DEF SteerInv
        <3>3. QED BY <2>1, <3>1, <3>2 DEF LoadInv
    <2>3. ASSUME NEW q \in Ranks PROVE MarkInv(q)' /\ PortInv(q)'
        BY <2>1 DEF SteerInv, MarkInv, PortInv, owns_port, SteersHere, predict_queue
    <2>4. QED BY <2>1, <2>2, <2>3 DEF SteerInv
<1>2. QED BY <1>1, LoadStep, BuildStep, ScanStep, EndStep DEF Next, Work, Ranks

LEMMA Steered == Spec => []SteerInv
BY SteerInit, SteerStep, PTL DEF Spec

-----------------------------------------------------------------------------
(* What follows *)

\* The ports of a worker are its own.
LEMMA PortsSteerHere ==
    ASSUME SteerInv, NEW q \in Queues, NEW a \in DOMAIN worker[q].my_ports
    PROVE  /\ q \in Ranks /\ worker[q].my_ports[a] \in EphPorts /\ main = "workers"
           /\ owns_port(q, worker[q].my_ports[a]) /\ SteersHere(q, worker[q].my_ports[a])
<1>1. q \in Ranks
    BY SteeringAssumption DEF SteerInv, LoadInv, Queues, Ranks
<1>2. worker[q].my_ports \in Seq(EphPorts)
    BY <1>1 DEF SteerInv, Locals
<1>3. a \in 1 .. Len(worker[q].my_ports) /\ worker[q].my_ports[a] \in EphPorts
    BY <1>2
<1>4. worker[q].at # "build"
    <2>1. worker[q].my_ports # <<>>
        BY <1>3, EmptySeq
    <2>2. QED BY <1>1, <2>1 DEF SteerInv, MarkInv
<1>5. QED BY <1>1, <1>3, <1>4 DEF SteerInv, MarkInv, PortInv

(***************************************************************************)
(* No two connections of the program share a local port, whatever the      *)
(* hash, the table and the number of queues: the filter of                 *)
(* build_owned_ports gives a port to one queue only, and the scan of a     *)
(* worker never looks at a port twice.                                     *)
(***************************************************************************)
THEOREM SteeringNoPortTwice == Spec => []NoPortTwice
<1>1. SteerInv => NoPortTwice
    <2> SUFFICES ASSUME SteerInv, NEW q \in Queues, NEW r \in Queues,
                        NEW i \in DOMAIN worker[q].my_ports, NEW j \in DOMAIN worker[r].my_ports,
                        worker[q].my_ports[i] = worker[r].my_ports[j]
                 PROVE  q = r /\ i = j
        BY DEF NoPortTwice
    <2>1. q = r
        BY PortsSteerHere DEF SteersHere
    <2>2. q \in Ranks
        BY PortsSteerHere
    <2>3. worker[q].my_ports \in Seq(EphPorts)
        BY <2>2 DEF SteerInv, Locals
    <2>4. i \in 1 .. Len(worker[q].my_ports) /\ j \in 1 .. Len(worker[q].my_ports)
          /\ worker[q].my_ports[i] \in Nat
        BY <2>1, <2>3, PortsSteerHere, EphNat
    <2>5. \A a, b \in 1 .. Len(worker[q].my_ports) :
             a < b => worker[q].my_ports[a] < worker[q].my_ports[b]
        BY <2>2 DEF SteerInv, PortInv
    <2>6. i = j
        BY <2>1, <2>4, <2>5
    <2>7. QED BY <2>1, <2>6
<1>2. QED BY <1>1, Steered, PTL

-----------------------------------------------------------------------------
(* The table as the program sees it *)

LEMMA TableSize ==
    ASSUME NEW k \in Nat, NEW S, NEW f \in [0 .. k - 1 -> S]
    PROVE  DOMAIN f = 0 .. k - 1 /\ Cardinality(DOMAIN f) = k
<1>1. DOMAIN f = 0 .. k - 1
    OBVIOUS
<1>2. k - 1 \in Int /\ 0 \in Int
    OBVIOUS
<1>3. Cardinality(0 .. k - 1) = IF 0 > k - 1 THEN 0 ELSE (k - 1) - 0 + 1
    BY <1>2, FS_Interval
<1>4. QED BY <1>1, <1>3

LEMMA MinPair == ASSUME NEW a \in Nat, NEW b \in Nat, a <= b PROVE Min({a, b}) = a
<1>1. \E x \in {a, b} : \A y \in {a, b} : x <= y
    OBVIOUS
<1>2. Min({a, b}) \in {a, b} /\ \A y \in {a, b} : Min({a, b}) <= y
    BY <1>1 DEF Min
<1>3. QED BY <1>2

\* A table there is room for is read as it is, group by group.
LEMMA TableRead ==
    ASSUME SteerInv, ~Cut
    PROVE  ReadTable = table
<1>1. PICK k \in 0 .. MaxTable : table \in [0 .. k - 1 -> 0 .. n_queues - 1]
    BY DEF SteerInv, LoadInv
<1>2. k \in Nat /\ CAP \in Nat /\ GROUP \in Nat \ {0}
    BY SteeringAssumption
<1>3. DOMAIN table = 0 .. k - 1 /\ Cardinality(DOMAIN table) = k
    BY <1>1, <1>2, TableSize
<1>4. Min({Cardinality(DOMAIN table), CAP}) = k
    BY <1>2, <1>3, MinPair DEF Cut
<1> DEFINE m == (k + GROUP - 1) \div GROUP
           conf == [g \in 0 .. m - 1 |->
                      [j \in 0 .. GROUP - 1 |->
                         IF g * GROUP + j \in DOMAIN table THEN table[g * GROUP + j] ELSE 0]]
           R(n) == [i \in 0 .. n - 1 |->
                      [g \in 0 .. (n + GROUP - 1) \div GROUP - 1 |->
                         [j \in 0 .. GROUP - 1 |->
                            IF g * GROUP + j \in DOMAIN table THEN table[g * GROUP + j] ELSE 0]]
                      [i \div GROUP][i % GROUP]]
<1>5. ReadTable = [i \in 0 .. k - 1 |-> conf[i \div GROUP][i % GROUP]]
    <2>1. ReadTable = R(Min({Cardinality(DOMAIN table), CAP}))
        BY DEF ReadTable
    <2>2. R(k) = [i \in 0 .. k - 1 |-> conf[i \div GROUP][i % GROUP]]
        OBVIOUS
    <2> HIDE DEF R, conf
    <2>3. QED BY <1>4, <2>1, <2>2
<1>6. m \in Nat /\ k <= m * GROUP
    <2>1. k + GROUP - 1 \in Nat
        BY <1>2
    <2>2. /\ m \in Nat /\ (k + GROUP - 1) % GROUP \in 0 .. GROUP - 1
          /\ m * GROUP + ((k + GROUP - 1) % GROUP) = k + GROUP - 1
        BY <1>2, <2>1, DivMod
    <2>3. m * GROUP \in Nat
        BY <1>2, <2>2
    <2>4. QED BY <1>2, <2>2, <2>3
<1> HIDE DEF m
<1>7. ASSUME NEW i \in 0 .. k - 1 PROVE conf[i \div GROUP][i % GROUP] = table[i]
    <2>0. i \in Nat
        BY <1>2
    <2>1. /\ i \in Nat /\ i \div GROUP \in Nat /\ i % GROUP \in 0 .. GROUP - 1
          /\ (i \div GROUP) * GROUP + (i % GROUP) = i
        BY ONLY <1>2, <2>0, DivMod
    <2>2. m * GROUP \in Nat /\ i < m * GROUP
        BY <1>2, <1>6, <2>1
    <2>3. i \div GROUP < m
        BY <1>2, <1>6, <2>1, <2>2, DivBelow
    <2>4. i \div GROUP \in 0 .. m - 1
        BY <1>6, <2>1, <2>3
    <2>5. conf[i \div GROUP][i % GROUP] =
             IF (i \div GROUP) * GROUP + (i % GROUP) \in DOMAIN table
             THEN table[(i \div GROUP) * GROUP + (i % GROUP)] ELSE 0
        BY <2>1, <2>4
    <2>6. QED BY <1>3, <2>1, <2>5
<1> HIDE DEF conf
<1>8. QED BY <1>1, <1>5, <1>7

\* The NIC steers to one of the queues there are.
LEMMA NicQueueType ==
    ASSUME SteerInv, main = "workers", NEW p \in EphPorts
    PROVE  NicQueue(p) \in Queues /\ Queues \subseteq Ranks
<1>1. n_queues \in 1 .. MaxQueues /\ n_queues \in Nat /\ MaxQueues \in Nat
    BY SteeringAssumption DEF SteerInv, LoadInv
<1>2. Queues \subseteq Ranks
    BY <1>1 DEF Queues, Ranks
<1>3. CASE n_queues = 1
    BY <1>1, <1>2, <1>3 DEF NicQueue, Queues
<1>4. CASE n_queues # 1
    <2>1. PICK k \in 0 .. MaxTable : table \in [0 .. k - 1 -> 0 .. n_queues - 1]
        BY DEF SteerInv, LoadInv
    <2>k. k \in Nat
        BY SteeringAssumption
    <2>2. k \in Nat /\ DOMAIN table = 0 .. k - 1 /\ Cardinality(DOMAIN table) = k
        BY <2>k, <2>1, TableSize
    <2>3. k # 0
        BY <1>4, <2>2 DEF SteerInv, LoadInv
    <2>4. hash[<<"target", "us", TARGET_PORT, p>>] \in Nat
        <3>1. hash \in [Tuples -> Nat]
            BY SteeringAssumption DEF SteerInv, LoadInv
        <3>2. QED BY <3>1 DEF Tuples
    <2>5. hash[<<"target", "us", TARGET_PORT, p>>] % k \in 0 .. k - 1
        BY <2>2, <2>3, <2>4, DivMod
    <2>6. QED BY <1>2, <1>4, <2>1, <2>2, <2>5 DEF NicQueue, Queues
<1>5. QED BY <1>3, <1>4

(***************************************************************************)
(* Where the NIC steers by a table the program has seen only a part of,    *)
(* the answer to a worker's port that lands on another queue is dropped    *)
(* and counted there: no port is marked by two workers, whatever they know *)
(* of the table and however far each of them has come.                     *)
(***************************************************************************)
THEOREM SteeringMisroutedNoticed == Spec => []MisroutedNoticed
<1>1. SteerInv => MisroutedNoticed
    <2> SUFFICES ASSUME SteerInv, NEW q \in Queues, NEW k \in DOMAIN worker[q].my_ports,
                        NicQueue(worker[q].my_ports[k]) # q,
                        owns_port(NicQueue(worker[q].my_ports[k]), worker[q].my_ports[k])
                 PROVE  FALSE
        BY DEF MisroutedNoticed
    <2> DEFINE p == worker[q].my_ports[k]
               r == NicQueue(p)
    <2>1. p \in EphPorts /\ main = "workers" /\ SteersHere(q, p)
        BY PortsSteerHere
    <2> HIDE DEF p
    <2>2. r \in Ranks
        BY <2>1, NicQueueType
    <2>3. r # q /\ owns_port(r, p)
        BY DEF p
    <2> HIDE DEF r
    <2>4. CASE worker[r].at = "build"
        <3>1. worker[r].bitmap = [b \in Bytes |-> {}]
            BY <2>2, <2>4 DEF SteerInv, MarkInv
        <3>2. p \div BITS \in Bytes
            BY <2>1, PortByte
        <3>3. QED BY <2>3, <3>1, <3>2 DEF owns_port
    <2>5. CASE worker[r].at # "build"
        <3>1. SteersHere(r, p)
            BY <2>1, <2>2, <2>3, <2>5 DEF SteerInv, MarkInv
        <3>2. QED BY <2>1, <2>3, <3>1 DEF SteersHere
    <2>6. QED BY <2>4, <2>5
<1>2. QED BY <1>1, Steered, PTL

\* With the whole table the program predicts what the NIC does.
LEMMA Predicts ==
    ASSUME SteerInv, ~Cut, main = "workers", NEW p \in EphPorts
    PROVE  predict_queue(Tuple(p)) = NicQueue(p)
<1>1. CASE n_queues = 1
    BY <1>1 DEF SteerInv, LoadInv, predict_queue, NicQueue
<1>2. CASE n_queues # 1
    <2>1. PICK k \in 0 .. MaxTable : table \in [0 .. k - 1 -> 0 .. n_queues - 1]
        BY DEF SteerInv, LoadInv
    <2>2. k \in Nat /\ CAP \in Nat
        BY SteeringAssumption
    <2>3. DOMAIN table = 0 .. k - 1 /\ Cardinality(DOMAIN table) = k
        BY <2>1, <2>2, TableSize
    <2>4. RSS_RETA = table /\ RSS_RETA_LEN = k /\ PowerOfTwo(k) /\ k # 0 /\ ~SINGLE_QUEUE
          /\ RSS_KEY_LEN = 40
        <3>1. ReadTable = table
            BY TableRead
        <3>2. QED BY <1>2, <2>2, <2>3, <3>1 DEF SteerInv, LoadInv, KeyBytes
    <2>5. k \in 1 .. CAP
        BY <2>2, <2>3, <2>4 DEF Cut
    <2>6. hash \in HashFns /\ Tuple(p) \in Tuples
        BY DEF SteerInv, LoadInv, Tuples, Tuple
    <2>7. And(hash[Tuple(p)], k - 1) = hash[Tuple(p)] % k
        <3>1. hash[Tuple(p)] \in Nat /\ k \in Nat \ {0}
            BY <2>2, <2>4, <2>6, SteeringAssumption
        <3>2. And(k, k - 1) = 0
            BY <2>4 DEF PowerOfTwo
        <3>3. \A h \in Nat : And(h, k - 1) = h % k
            BY ONLY <3>1, <3>2, Mask
        <3>4. QED BY <3>1, <3>3
    <2>8. predict_queue(Tuple(p)) = table[And(hash[Tuple(p)], k - 1)]
        BY <2>4 DEF predict_queue
    <2>9. QED BY <1>2, <2>3, <2>7, <2>8 DEF NicQueue, Tuple
<1>3. QED BY <1>1, <1>2

(***************************************************************************)
(* The NIC sends the answers to a chosen port to the chooser's queue, for  *)
(* every key, every table the program has room for and any number of       *)
(* queues.                                                                 *)
(***************************************************************************)
THEOREM SteeringPortsLandHome == Spec => []PortsLandHome
<1>1. SteerInv => PortsLandHome
    <2> SUFFICES ASSUME SteerInv, ~Cut, NEW q \in Queues, NEW k \in DOMAIN worker[q].my_ports
                 PROVE  NicQueue(worker[q].my_ports[k]) = q
        BY DEF PortsLandHome
    <2>1. /\ worker[q].my_ports[k] \in EphPorts /\ main = "workers"
          /\ SteersHere(q, worker[q].my_ports[k])
        BY PortsSteerHere
    <2>2. QED BY <2>1, Predicts DEF SteersHere
<1>2. QED BY <1>1, Steered, PTL

(***************************************************************************)
(* The filter of receive() drops nothing the NIC steered to a queue: from  *)
(* the moment its worker has built the bitmap, every port whose traffic it *)
(* gets is marked.                                                         *)
(***************************************************************************)
THEOREM SteeringNothingFiltered == Spec => []NothingFiltered
<1>1. SteerInv => NothingFiltered
    <2> SUFFICES ASSUME SteerInv, ~Cut, NEW q \in Queues, worker[q].at # "build",
                        NEW p \in EphPorts, NicQueue(p) = q
                 PROVE  owns_port(q, p)
        BY DEF NothingFiltered
    <2>1. q \in Ranks
        BY SteeringAssumption DEF SteerInv, LoadInv, Queues, Ranks
    <2>2. main = "workers" /\ (owns_port(q, p) <=> SteersHere(q, p))
        BY <2>1 DEF SteerInv, MarkInv
    <2>3. QED BY <2>2, Predicts DEF SteersHere
<1>2. QED BY <1>1, Steered, PTL

-----------------------------------------------------------------------------
(* The stride *)

\* len ports, one for every S marked ones, cover the first n of them.
Covers(len, n, S) == n <= len * S /\ len * S < n + S

LEMMA CancelMul ==
    ASSUME NEW a \in Nat, NEW b \in Nat, NEW S \in Nat \ {0}, a * S <= b * S
    PROVE  a <= b
<1>1. SUFFICES ASSUME b + 1 <= a PROVE FALSE
    OBVIOUS
<1>2. (b + 1) * S <= a * S
    BY <1>1
<1>3. (b + 1) * S = b * S + S
    OBVIOUS
<1>4. a * S \in Nat /\ b * S \in Nat
    OBVIOUS
<1>5. QED BY <1>2, <1>3, <1>4

\* Pushing every S-th marked port keeps them covered.
LEMMA CoverNext ==
    ASSUME NEW len \in Nat, NEW n \in Nat, NEW S \in Nat \ {0}, Covers(len, n, S)
    PROVE  /\ n % S = 0 => Covers(len + 1, n + 1, S)
           /\ n % S # 0 => Covers(len, n + 1, S)
<1> DEFINE d == n \div S
           r == n % S
<1>1. d \in Nat /\ r \in 0 .. S - 1 /\ d * S + r = n
    BY DivMod
<1>2. d * S \in Nat /\ len * S \in Nat /\ (len + 1) * S = len * S + S
    BY <1>1
<1> HIDE DEF d, r
<1>3. d <= len
    <2>1. d * S <= len * S
        BY <1>1, <1>2 DEF Covers
    <2>2. QED BY <1>1, <2>1, CancelMul
<1>4. CASE r = 0
    <2>1. len * S < d * S + S
        BY <1>1, <1>2, <1>4 DEF Covers
    <2>2. len * S = d * S
        <3>1. CASE len = d
            BY <3>1
        <3>2. CASE len # d
            <4>1. d + 1 <= len
                BY <1>1, <1>3, <3>2
            <4>2. (d + 1) * S <= len * S
                BY <1>1, <4>1
            <4>3. (d + 1) * S = d * S + S
                BY <1>1
            <4>4. QED BY <1>2, <2>1, <4>2, <4>3
        <3>3. QED BY <3>1, <3>2
    <2>3. Covers(len + 1, n + 1, S)
        BY <1>1, <1>2, <1>4, <2>2 DEF Covers
    <2>4. QED BY <1>4, <2>3 DEF r
<1>5. CASE r # 0
    <2>1. n < len * S
        <3>1. SUFFICES ASSUME n = len * S PROVE FALSE
            BY <1>2 DEF Covers
        <3>2. d # len
            BY <1>1, <1>2, <1>5, <3>1
        <3>3. d + 1 <= len
            BY <1>1, <1>3, <3>2
        <3>4. (d + 1) * S <= len * S
            BY <1>1, <3>3
        <3>5. (d + 1) * S = d * S + S
            BY <1>1
        <3>6. QED BY <1>1, <1>2, <3>1, <3>4, <3>5
    <2>2. Covers(len, n + 1, S)
        BY <1>2, <2>1 DEF Covers
    <2>3. QED BY <1>5, <2>2 DEF r
<1>6. QED BY <1>4, <1>5

LEMMA MaxPair == ASSUME NEW a \in Nat, NEW b \in Nat PROVE Max({a, b}) = IF a >= b THEN a ELSE b
<1>1. \E x \in {a, b} : \A y \in {a, b} : x >= y
    OBVIOUS
<1>2. Max({a, b}) \in {a, b} /\ \A y \in {a, b} : Max({a, b}) >= y
    BY <1>1 DEF Max
<1>3. QED BY <1>2

\* The stride is 1 when there are fewer ports than connections, and never so
\* long that CONNS_PER_WORKER strides leave the marked ports.
LEMMA StrideType ==
    ASSUME NEW n \in Nat
    PROVE  /\ Stride(n) \in Nat \ {0}
           /\ n < CONNS_PER_WORKER => Stride(n) = 1
           /\ n >= CONNS_PER_WORKER => CONNS_PER_WORKER * Stride(n) <= n
<1> DEFINE C == CONNS_PER_WORKER
           d == n \div C
<1>1. C \in Nat \ {0}
    BY SteeringAssumption
<1>2. d \in Nat /\ n % C \in 0 .. C - 1 /\ d * C + (n % C) = n
    BY <1>1, DivMod
<1>3. Stride(n) = IF 1 >= d THEN 1 ELSE d
    BY <1>2, MaxPair DEF Stride
<1> HIDE DEF d, C
<1>4. d * C \in Nat /\ C * d = d * C
    BY <1>1, <1>2
<1>5. n < C => d = 0
    <2>1. d >= 1 => d * C >= 1 * C
        BY <1>1, <1>2
    <2>2. QED BY <1>1, <1>2, <1>4, <2>1
<1>6. n >= C => d >= 1
    <2>1. d = 0 => d * C = 0
        BY <1>1
    <2>2. QED BY <1>1, <1>2, <1>4, <2>1
<1>7. n >= C => C * Stride(n) <= n
    <2>1. n >= C => Stride(n) = d
        BY <1>2, <1>3, <1>6
    <2>2. QED BY <1>1, <1>2, <1>4, <2>1
<1>8. QED BY <1>2, <1>3, <1>5, <1>7 DEF C

\* What the scan has counted and collected so far.
Marked(q, n) == {p \in 0 .. n - 1 : owns_port(q, p)}

ScanInv(q) ==
    /\ worker[q].at # "build" =>
          /\ worker[q].owned_count = Cardinality(Marked(q, EPH_LEN))
          /\ worker[q].seen = Cardinality(Marked(q, worker[q].i))
          /\ Len(worker[q].my_ports) <= CONNS_PER_WORKER
          /\ Covers(Len(worker[q].my_ports), worker[q].seen, Stride(worker[q].owned_count))
    /\ worker[q].at = "done" => ScanEnds(q)

ScansInv == \A q \in Ranks : ScanInv(q)

LEMMA MarkedFinite ==
    ASSUME NEW q, NEW n \in Nat
    PROVE  IsFiniteSet(Marked(q, n)) /\ Cardinality(Marked(q, n)) \in Nat
<1>1. 0 \in Int /\ n - 1 \in Int
    OBVIOUS
<1>2. IsFiniteSet(0 .. n - 1)
    BY <1>1, FS_Interval
<1>3. Marked(q, n) \subseteq 0 .. n - 1
    BY DEF Marked
<1>4. QED BY <1>2, <1>3, FS_Subset, FS_CardinalityType

LEMMA MarkedNext ==
    ASSUME NEW q, NEW n \in Nat
    PROVE  Cardinality(Marked(q, n + 1)) =
              Cardinality(Marked(q, n)) + (IF owns_port(q, n) THEN 1 ELSE 0)
<1>1. CASE owns_port(q, n)
    <2>1. Marked(q, n + 1) = Marked(q, n) \union {n} /\ n \notin Marked(q, n)
        BY <1>1 DEF Marked
    <2>2. Cardinality(Marked(q, n) \union {n}) = Cardinality(Marked(q, n)) + 1
        BY <2>1, MarkedFinite, FS_AddElement
    <2>3. QED BY <1>1, <2>1, <2>2
<1>2. CASE ~owns_port(q, n)
    <2>1. Marked(q, n + 1) = Marked(q, n)
        BY <1>2 DEF Marked
    <2>2. QED BY <1>2, <2>1, MarkedFinite
<1>3. QED BY <1>1, <1>2

LEMMA ScansInit == Init => ScansInv
<1> SUFFICES ASSUME Init, NEW q \in Ranks PROVE ScanInv(q)
    BY DEF ScansInv
<1>1. worker[q].at = "build"
    BY DEF Init, Ranks
<1>2. QED BY <1>1 DEF ScanInv

\* A worker whose locals do not change keeps what it has scanned.
LEMMA ScanKeeps ==
    ASSUME NEW q \in Ranks, ScanInv(q), worker'[q] = worker[q] PROVE ScanInv(q)'
<1>1. \A n : Marked(q, n)' = Marked(q, n)
    BY DEF Marked, owns_port
<1>2. ScanEnds(q)' <=> ScanEnds(q)
    BY DEF ScanEnds
<1>3. QED BY <1>1, <1>2 DEF ScanInv

LEMMA ScansStep == SteerInv /\ ScansInv /\ [Next]_vars => ScansInv'
<1> SUFFICES ASSUME SteerInv, ScansInv, [Next]_vars, NEW r \in Ranks PROVE ScanInv(r)'
    BY DEF ScansInv
<1>0. worker \in [Ranks -> Locals] /\ ScanInv(r) /\ SteerInv'
    BY SteerStep DEF SteerInv, ScansInv
<1>1. CASE worker'[r] = worker[r]
    BY <1>0, <1>1, ScanKeeps
<1>2. CASE worker' = worker
    BY <1>1, <1>2
<1>3. ASSUME NEW q \in Ranks, q # r, Work(q) PROVE ScanInv(r)'
    BY <1>0, <1>1, <1>3 DEF Work, Build, ScanPort, ScanEnd
<1> DEFINE C == CONNS_PER_WORKER
<1>c. C \in Nat \ {0} /\ EPH_LEN \in Nat /\ 0 \in Nat
    BY SteeringAssumption
<1>4. CASE Build(r)
    <2> DEFINE mine == {p \in EphPorts : SteersHere(r, p)}
    <2>1. /\ worker[r].at = "build" /\ worker'[r].at = "scan"
          /\ worker'[r].owned_count = Cardinality(mine)
          /\ worker'[r].i = worker[r].i /\ worker'[r].seen = worker[r].seen
          /\ worker'[r].my_ports = worker[r].my_ports /\ UNCHANGED <<device, rss>>
        BY <1>0, <1>4 DEF Build, Locals
    <2>2. worker[r].i = 0 /\ worker[r].seen = 0 /\ worker[r].my_ports = <<>> /\ Len(<<>>) = 0
        BY <2>1, EmptySeq DEF SteerInv, MarkInv
    <2>3. Marked(r, EPH_LEN)' = mine
        <3>1. \A p \in EphPorts : owns_port(r, p)' <=> SteersHere(r, p)'
            BY <1>0, <2>1 DEF SteerInv, MarkInv
        <3>2. \A p : SteersHere(r, p)' <=> SteersHere(r, p)
            BY <2>1 DEF SteersHere, predict_queue, device, rss
        <3>3. Marked(r, EPH_LEN)' = {p \in EphPorts : owns_port(r, p)'}
            BY DEF Marked, EphPorts
        <3>4. QED BY <3>1, <3>2, <3>3
    <2>4. Marked(r, 0)' = {}
        BY DEF Marked
    <2>5. IsFiniteSet(mine) /\ Cardinality(mine) \in Nat
        <3>1. IsFiniteSet(EphPorts)
            BY SteeringAssumption, FS_Interval DEF EphPorts
        <3>2. QED BY <3>1, FS_Subset, FS_CardinalityType
    <2>6. Covers(0, 0, Stride(Cardinality(mine)))
        <3>1. Stride(Cardinality(mine)) \in Nat \ {0}
            BY <2>5, StrideType
        <3>2. QED BY <3>1 DEF Covers
    <2> HIDE DEF mine
    <2>7. Cardinality(Marked(r, 0)') = 0
        BY <2>4, FS_EmptySet
    <2>8. QED BY <1>c, <2>1, <2>2, <2>3, <2>6, <2>7 DEF ScanInv
<1>5. CASE ScanPort(r)
    <2> DEFINE i == worker[r].i
               n == worker[r].seen
               len == Len(worker[r].my_ports)
               S == Stride(worker[r].owned_count)
               owned == owns_port(r, i)
    <2>1. /\ worker[r].at = "scan" /\ ~ScanEnds(r) /\ worker'[r].at = "scan"
          /\ worker'[r].i = i + 1 /\ worker'[r].owned_count = worker[r].owned_count
          /\ worker'[r].bitmap = worker[r].bitmap
          /\ worker'[r].seen = IF owned THEN n + 1 ELSE n
          /\ worker'[r].my_ports = IF owned /\ n % S = 0 THEN Append(worker[r].my_ports, i)
                                   ELSE worker[r].my_ports
        BY <1>0, <1>5 DEF ScanPort, Locals
    <2>2. /\ i \in EphPorts /\ i \in Nat /\ n \in Nat /\ worker[r].owned_count \in Nat
          /\ worker[r].my_ports \in Seq(EphPorts)
        BY <1>0, <2>1, SteeringAssumption DEF Locals, ScanEnds, EphPorts
    <2>3. len \in Nat /\ S \in Nat \ {0}
        BY <2>2, LenProperties, StrideType
    <2>4. /\ worker[r].owned_count = Cardinality(Marked(r, EPH_LEN))
          /\ n = Cardinality(Marked(r, i)) /\ len <= C /\ Covers(len, n, S)
        BY <1>0, <2>1 DEF ScanInv
    <2>5. len < C
        BY <1>c, <2>1, <2>3, <2>4 DEF ScanEnds
    <2>6. \A m : Marked(r, m)' = Marked(r, m)
        BY <2>1 DEF Marked, owns_port
    <2>7. Cardinality(Marked(r, i + 1)) = worker'[r].seen
        BY <2>1, <2>2, <2>4, MarkedNext
    <2>8. Len(worker'[r].my_ports) = IF owned /\ n % S = 0 THEN len + 1 ELSE len
        BY <2>1, <2>2, AppendProperties
    <2> HIDE DEF len, n, S, i, owned
    <2>9. Covers(Len(worker'[r].my_ports), worker'[r].seen, S)
        <3>1. CASE owned /\ n % S = 0
            BY <2>1, <2>2, <2>3, <2>4, <2>8, <3>1, CoverNext
        <3>2. CASE owned /\ n % S # 0
            BY <2>1, <2>2, <2>3, <2>4, <2>8, <3>2, CoverNext
        <3>3. CASE ~owned
            BY <2>1, <2>4, <2>8, <3>3
        <3>4. QED BY <3>1, <3>2, <3>3
    <2>10. Len(worker'[r].my_ports) <= C
        BY <1>c, <2>3, <2>5, <2>8
    <2>11. worker'[r].owned_count = Cardinality(Marked(r, EPH_LEN)')
        BY <2>1, <2>4, <2>6
    <2>12. (worker[r].seen = Cardinality(Marked(r, worker[r].i)))'
        <3>1. (Marked(r, worker[r].i))' = {p \in 0 .. worker'[r].i - 1 : owns_port(r, p)'}
            BY DEF Marked
        <3>2. {p \in 0 .. worker'[r].i - 1 : owns_port(r, p)'} = Marked(r, i + 1)
            BY <2>1 DEF Marked, owns_port
        <3>3. QED BY <2>7, <3>1, <3>2
    <2>13. QED BY <2>1, <2>9, <2>10, <2>11, <2>12 DEF ScanInv, S
<1>6. CASE ScanEnd(r)
    <2>1. /\ worker[r].at = "scan" /\ ScanEnds(r) /\ worker'[r].at = "done"
          /\ worker'[r].i = worker[r].i /\ worker'[r].owned_count = worker[r].owned_count
          /\ worker'[r].bitmap = worker[r].bitmap /\ worker'[r].seen = worker[r].seen
          /\ worker'[r].my_ports = worker[r].my_ports
        BY <1>0, <1>6 DEF ScanEnd, Locals
    <2>2. \A m : Marked(r, m)' = Marked(r, m)
        BY <2>1 DEF Marked, owns_port
    <2>3. ScanEnds(r)'
        BY <2>1 DEF ScanEnds
    <2>4. QED BY <1>0, <2>1, <2>2, <2>3 DEF ScanInv
<1>7. CASE Load \/ UNCHANGED vars
    BY <1>2, <1>7 DEF Load, LoadSingle, LoadNoKey, LoadNoTable, LoadTable, vars
<1>8. QED BY <1>3, <1>4, <1>5, <1>6, <1>7 DEF Next, Work, Ranks

(***************************************************************************)
(* The stride loses no port: a worker that has scanned the range has a     *)
(* port for every connection, or all the ports it owns.                    *)
(***************************************************************************)
THEOREM SteeringEnoughPorts == Spec => []EnoughPorts
<1>1. SteerInv /\ ScansInv => EnoughPorts
    <2> SUFFICES ASSUME SteerInv, ScansInv, NEW q \in Queues, worker[q].at = "done"
                 PROVE  Len(worker[q].my_ports) =
                            Min({CONNS_PER_WORKER, worker[q].owned_count})
        BY DEF EnoughPorts
    <2> DEFINE C == CONNS_PER_WORKER
               n == worker[q].owned_count
               len == Len(worker[q].my_ports)
               S == Stride(n)
               x == worker[q].seen
    <2>1. q \in Ranks
        BY SteeringAssumption DEF SteerInv, LoadInv, Queues, Ranks
    <2>2. /\ worker[q].i \in Nat /\ worker[q].i <= EPH_LEN /\ n \in Nat /\ x \in Nat
          /\ worker[q].my_ports \in Seq(EphPorts) /\ EPH_LEN \in Nat /\ C \in Nat \ {0}
        BY <2>1, SteeringAssumption DEF SteerInv, Locals
    <2>3. len \in Nat /\ S \in Nat \ {0}
        BY <2>2, LenProperties, StrideType
    <2>4. /\ n = Cardinality(Marked(q, EPH_LEN)) /\ x = Cardinality(Marked(q, worker[q].i))
          /\ len <= C /\ Covers(len, x, S) /\ ScanEnds(q)
        BY <2>1 DEF ScansInv, ScanInv
    <2>5. x <= n
        <3>1. Marked(q, worker[q].i) \subseteq Marked(q, EPH_LEN)
            BY <2>2 DEF Marked
        <3>2. QED BY <2>2, <2>4, <3>1, MarkedFinite, FS_Subset
    <2>6. len = C \/ x = n
        BY <2>4 DEF ScanEnds
    <2>7. n < C => S = 1
        BY <2>2, StrideType
    <2>8. n >= C => C * S <= n
        BY <2>2, StrideType
    <2> HIDE DEF len, n, S, x, C
    <2>9. CASE n < C
        <3>1. len * S = len
            BY <2>3, <2>7, <2>9
        <3>2. len = x
            BY <2>2, <2>3, <2>4, <2>7, <2>9, <3>1 DEF Covers
        <3>3. len = n
            BY <2>2, <2>3, <2>5, <2>6, <2>9, <3>2
        <3>4. Min({n, C}) = n /\ {n, C} = {C, n}
            BY <2>2, <2>9, MinPair
        <3>5. QED BY <3>3, <3>4 DEF len, n, C
    <2>10. CASE n >= C
        <3>1. CASE len # C
            <4>1. C * S <= len * S
                <5>1. C * S \in Nat /\ len * S \in Nat
                    BY <2>2, <2>3
                <5>2. QED BY <2>2, <2>4, <2>6, <2>8, <2>10, <3>1, <5>1 DEF Covers
            <4>2. C <= len
                BY <2>2, <2>3, <4>1, CancelMul
            <4>3. QED BY <2>2, <2>3, <2>4, <3>1, <4>2
        <3>2. CASE len = C
            <4>1. Min({C, n}) = C
                BY <2>2, <2>10, MinPair
            <4>2. QED BY <3>2, <4>1 DEF len, n, C
        <3>3. QED BY <3>1, <3>2
    <2>11. QED BY <2>2, <2>9, <2>10
<1>2. QED BY <1>1, SteerInit, SteerStep, ScansInit, ScansStep, PTL DEF Spec

-----------------------------------------------------------------------------
(***************************************************************************)
(* The hash itself: toeplitz computes the Toeplitz hash, for every key,    *)
(* input and width.  The loop invariant: the window is the key at the      *)
(* current input bit, and the result is the hash of the input bits done.   *)
(***************************************************************************)

\* The window never reads the key at the wrong place, also past its end.
WindowInPlace == ~TooShort(klen) => \A j \in 0 .. W - 1 : w[j] = KeyBit(pos + j)

\* The part of the loop invariant the window does not state: how far the key
\* is read, and the result on a prefix.
PrefixHashed ==
    ~TooShort(klen) =>
        /\ \A j \in 0 .. W - 1 : result[j] = Odd(Adding(pos, j))
        /\ returned => pos = DataLen

HashInv ==
    /\ ToeplitzTypeOK
    /\ next_bit = W + pos
    /\ WindowInPlace
    /\ PrefixHashed

-----------------------------------------------------------------------------

\* The input bits below n + 1 that add to bit j: those below n, and bit n when
\* it is set under a set key bit.
LEMMA AddingNext ==
    ASSUME NEW n \in Nat, NEW j \in Nat
    PROVE  Adding(n + 1, j) = Adding(n, j) \union (IF data[n] /\ KeyBit(n + j) THEN {n} ELSE {})
  <1>1. \A i : i \in 0 .. (n + 1) - 1 <=> (i \in 0 .. n - 1 \/ i = n)
    OBVIOUS
  <1>2. ASSUME NEW i
        PROVE  i \in Adding(n + 1, j) <=>
                 i \in Adding(n, j) \union (IF data[n] /\ KeyBit(n + j) THEN {n} ELSE {})
    BY <1>1, Zenon DEF Adding
  <1> QED
    BY <1>2, Zenon

\* A prefix adds finitely many times, and none of them is the bit after it.
LEMMA AddingFinite ==
    ASSUME NEW n \in Nat, NEW j \in Nat
    PROVE  IsFiniteSet(Adding(n, j)) /\ Cardinality(Adding(n, j)) \in Nat /\ n \notin Adding(n, j)
  <1>1. IsFiniteSet(0 .. n - 1)
    BY FS_Interval
  <1>2. Adding(n, j) \subseteq 0 .. n - 1
    BY DEF Adding
  <1>3. IsFiniteSet(Adding(n, j))
    BY <1>1, <1>2, FS_Subset
  <1>4. Cardinality(Adding(n, j)) \in Nat
    BY <1>3, FS_CardinalityType
  <1>5. n \notin 0 .. n - 1
    OBVIOUS
  <1> QED
    BY <1>2, <1>3, <1>4, <1>5

\* One more element changes the parity.
LEMMA OddFlips ==
    ASSUME NEW S, IsFiniteSet(S), NEW x, x \notin S
    PROVE  Odd(S \union {x}) <=> ~Odd(S)
  <1>1. Cardinality(S \union {x}) = Cardinality(S) + 1
    BY FS_AddElement
  <1>2. Cardinality(S) \in Nat
    BY FS_CardinalityType
  <1> QED
    BY <1>1, <1>2 DEF Odd

\* The parity over one more input bit.
LEMMA OddNext ==
    ASSUME NEW n \in Nat, NEW j \in Nat
    PROVE  Odd(Adding(n + 1, j)) <=> ~(Odd(Adding(n, j)) <=> (data[n] /\ KeyBit(n + j)))
  <1>1. CASE data[n] /\ KeyBit(n + j)
    <2>1. Adding(n + 1, j) = Adding(n, j) \union {n}
      BY <1>1, AddingNext
    <2> QED
      BY <1>1, <2>1, OddFlips, AddingFinite, Zenon
  <1>2. CASE ~(data[n] /\ KeyBit(n + j))
    <2>1. Adding(n + 1, j) = Adding(n, j) \union {}
      <3>1. (IF data[n] /\ KeyBit(n + j) THEN {n} ELSE {}) = {}
        BY <1>2, Zenon
      <3> QED
        BY <3>1, AddingNext, Zenon
    <2>2. Adding(n + 1, j) = Adding(n, j)
      BY <2>1, Zenon
    <2> QED
      BY <1>2, <2>2, Zenon
  <1> QED
    BY <1>1, <1>2

-----------------------------------------------------------------------------

LEMMA InitHashInv == ToeplitzInit => HashInv
  <1> SUFFICES ASSUME ToeplitzInit PROVE HashInv
    OBVIOUS
  <1> USE BitsAssumption
  <1>1. ToeplitzTypeOK
    <2>1. w \in Word
      <3>1. \A j \in 0 .. W - 1 : j < klen => j \in 0 .. klen - 1
        BY DEF ToeplitzInit
      <3>2. \A j \in 0 .. W - 1 : (IF j < klen THEN key[j] ELSE FALSE) \in BOOLEAN
        BY <3>1, Zenon DEF ToeplitzInit
      <3> QED
        BY <3>2, Zenon DEF ToeplitzInit, Word
    <2>2. result \in Word
      BY Zenon DEF ToeplitzInit, Word, Zero
    <2>3. returned \in BOOLEAN
      BY DEF ToeplitzInit, TooShort
    <2>4. next_bit \in W .. W + DataLen /\ pos \in 0 .. DataLen
      BY DEF ToeplitzInit, FirstNextBit
    <2>5. klen \in KeyLens /\ key \in [0 .. klen - 1 -> BOOLEAN]
          /\ data \in [0 .. DataLen - 1 -> BOOLEAN]
      BY Zenon DEF ToeplitzInit
    <2> QED
      BY <2>1, <2>2, <2>3, <2>4, <2>5, Zenon DEF ToeplitzTypeOK
  <1>2. next_bit = W + pos
    BY DEF ToeplitzInit, FirstNextBit
  <1>3. WindowInPlace
    BY DEF ToeplitzInit, WindowInPlace, KeyBit
  <1>4. ASSUME NEW j \in 0 .. W - 1 PROVE ~Odd(Adding(pos, j))
    <2>1. pos = 0 /\ 0 .. 0 - 1 = {}
      BY DEF ToeplitzInit
    <2>2. Adding(pos, j) = {}
      BY <2>1 DEF Adding
    <2> QED
      BY <2>2, FS_EmptySet DEF Odd
  <1>5. \A j \in 0 .. W - 1 : result[j] = FALSE
    BY DEF ToeplitzInit, Zero
  <1>6. \A j \in 0 .. W - 1 : Odd(Adding(pos, j)) \in BOOLEAN
    BY DEF Odd
  <1>7. PrefixHashed
    <2>1. ~TooShort(klen) => ~returned
      BY DEF ToeplitzInit
    <2> QED
      BY <2>1, <1>4, <1>5, <1>6, Zenon DEF PrefixHashed
  <1> QED
    BY <1>1, <1>2, <1>3, <1>7 DEF HashInv

\* Both sides of the invariant flip together when the loop takes one more bit.
LEMMA BitPrefix ==
    ASSUME HashInv, Bit, ~TooShort(klen), NEW j \in 0 .. W - 1
    PROVE  result'[j] = Odd(Adding(pos, j))'
  <1> USE BitsAssumption
  <1>1. pos \in Nat /\ j \in Nat /\ pos' = pos + 1
    BY DEF HashInv, ToeplitzTypeOK, Bit
  <1>2. result'[j] = (result[j] # (data[pos] /\ w[j]))
    BY DEF Bit
  <1>3. result[j] = Odd(Adding(pos, j)) /\ w[j] = KeyBit(pos + j)
    BY DEF HashInv, PrefixHashed, WindowInPlace
  <1>4. Adding(pos, j)' = Adding(pos + 1, j)
    BY <1>1 DEF Bit, Adding, KeyBit
  <1>5. Odd(Adding(pos, j))' = Odd(Adding(pos + 1, j))
    BY <1>4 DEF Odd
  <1>6. Odd(Adding(pos + 1, j)) <=> ~(Odd(Adding(pos, j)) <=> (data[pos] /\ KeyBit(pos + j)))
    BY <1>1, OddNext
  <1>7. Odd(Adding(pos + 1, j)) \in BOOLEAN /\ Odd(Adding(pos, j)) \in BOOLEAN
    BY DEF Odd
  <1>8. (data[pos] /\ w[j]) \in BOOLEAN
    OBVIOUS
  <1> QED
    BY <1>2, <1>3, <1>5, <1>6, <1>7, <1>8, Zenon

LEMMA NextHashInv == HashInv /\ [ToeplitzNext]_toeplitzvars => HashInv'
  <1> SUFFICES ASSUME HashInv, [ToeplitzNext]_toeplitzvars PROVE HashInv'
    OBVIOUS
  <1> USE BitsAssumption
  <1>1. CASE Bit
    <2>1. ToeplitzTypeOK'
      <3>1. NextKeyBit \in BOOLEAN
        <4>1. next_bit < klen => next_bit \in 0 .. klen - 1
          BY DEF HashInv, ToeplitzTypeOK
        <4> QED
          BY <4>1, Zenon DEF HashInv, ToeplitzTypeOK, NextKeyBit
      <3>2. w' \in Word
        <4>1. \A j \in 0 .. W - 1 : j < W - 1 => j + 1 \in 0 .. W - 1
          OBVIOUS
        <4>2. \A j \in 0 .. W - 1 : (IF j < W - 1 THEN w[j + 1] ELSE NextKeyBit) \in BOOLEAN
          BY <3>1, <4>1, Zenon DEF HashInv, ToeplitzTypeOK, Word
        <4> QED
          BY <1>1, <4>2, Zenon DEF Bit, Word
      <3>3. result' \in Word
        BY <1>1, Zenon DEF Bit, Word
      <3>4. next_bit' \in W .. W + DataLen /\ pos' \in 0 .. DataLen
        BY <1>1 DEF HashInv, ToeplitzTypeOK, Bit
      <3>5. /\ klen' \in KeyLens /\ key' \in [0 .. klen' - 1 -> BOOLEAN]
            /\ data' \in [0 .. DataLen - 1 -> BOOLEAN] /\ returned' \in BOOLEAN
        BY <1>1, Zenon DEF HashInv, ToeplitzTypeOK, Bit
      <3> QED
        BY <3>2, <3>3, <3>4, <3>5, Zenon DEF ToeplitzTypeOK
    <2>2. (next_bit = W + pos)'
      BY <1>1 DEF HashInv, ToeplitzTypeOK, Bit
    <2>3. WindowInPlace'
      <3> SUFFICES ASSUME ~TooShort(klen), NEW j \in 0 .. W - 1
                   PROVE  w'[j] = KeyBit(pos + j)'
        BY <1>1 DEF WindowInPlace, Bit, TooShort
      <3>1. pos \in Nat /\ pos' = pos + 1 /\ klen' = klen /\ key' = key
        BY <1>1 DEF HashInv, ToeplitzTypeOK, Bit
      <3>4. KeyBit(pos + j)' = KeyBit((pos + 1) + j)
        BY <3>1 DEF KeyBit
      <3>2. CASE j < W - 1
        <4>1. w'[j] = w[j + 1]
          BY <1>1, <3>2 DEF Bit
        <4>2. w[j + 1] = KeyBit(pos + (j + 1))
          BY <3>2 DEF HashInv, WindowInPlace
        <4>3. pos + (j + 1) = (pos + 1) + j
          BY <3>1
        <4> QED
          BY <4>1, <4>2, <4>3, <3>4, Zenon
      <3>3. CASE j = W - 1
        <4>1. w'[j] = NextKeyBit
          BY <1>1, <3>3 DEF Bit
        <4>2. next_bit = (pos + 1) + j
          BY <3>1, <3>3 DEF HashInv
        <4> QED
          BY <4>1, <4>2, <3>4, Zenon DEF KeyBit, NextKeyBit
      <3> QED
        BY <3>2, <3>3
    <2>4. PrefixHashed'
      <3>1. klen' = klen /\ ~returned'
        BY <1>1 DEF Bit, HashInv, ToeplitzTypeOK
      <3>2. ASSUME ~TooShort(klen), NEW j \in 0 .. W - 1
            PROVE  result'[j] = Odd(Adding(pos, j))'
        BY <1>1, <3>2, BitPrefix
      <3>3. TooShort(klen)' = TooShort(klen)
        BY <3>1 DEF TooShort
      <3> QED
        BY <3>1, <3>2, <3>3, Zenon DEF PrefixHashed
    <2> QED
      BY <2>1, <2>2, <2>3, <2>4 DEF HashInv
  <1>2. CASE Return
    <2>1. ToeplitzTypeOK' /\ (next_bit = W + pos)' /\ WindowInPlace'
      BY <1>2 DEF HashInv, ToeplitzTypeOK, Return, WindowInPlace, KeyBit, TooShort
    <2>2. PrefixHashed'
      BY <1>2 DEF HashInv, Return, PrefixHashed, Adding, KeyBit, Odd, TooShort
    <2> QED
      BY <2>1, <2>2 DEF HashInv
  <1>3. CASE UNCHANGED toeplitzvars
    BY <1>3 DEF toeplitzvars, HashInv, ToeplitzTypeOK, WindowInPlace, PrefixHashed, Adding, KeyBit, Odd, TooShort, Word
  <1> QED
    BY <1>1, <1>2, <1>3 DEF ToeplitzNext

LEMMA AlwaysHashInv == ToeplitzSpec => []HashInv
  BY InitHashInv, NextHashInv, PTL DEF ToeplitzSpec

\* The locals of toeplitz keep their width, for keys and inputs of every length.
THEOREM ToeplitzTypeCorrect == ToeplitzSpec => []ToeplitzTypeOK
  <1>1. HashInv => ToeplitzTypeOK
    BY DEF HashInv
  <1> QED
    BY <1>1, AlwaysHashInv, PTL

\* What toeplitz returns is the Toeplitz hash of its input, for every key at
\* least as long as the window, every input length and every width.
THEOREM HashIsToeplitzHolds == ToeplitzSpec => []HashIsToeplitz
  <1>1. HashInv => HashIsToeplitz
    BY DEF HashInv, PrefixHashed, HashIsToeplitz
  <1> QED
    BY <1>1, AlwaysHashInv, PTL
=============================================================================
