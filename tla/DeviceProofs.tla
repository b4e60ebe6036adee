---------------------------- MODULE DeviceProofs ----------------------------
(***************************************************************************)
(* Proofs about the mbufs of one queue, for every size of the rings, the   *)
(* pool, its caches and the prefetch arrays, and any number of frames.     *)
(***************************************************************************)
EXTENDS Device, FiniteSetTheorems, SequenceTheorems, WellFoundedInduction, TLAPS

\* The entries of the prefetch arrays that still count, and the mbufs in the
\* arrays and on the RX ring.
Window == rx_pref_pos + 1 .. rx_pref_len
Fetched == {rx_pref[i] : i \in Window}
Ringed == {arrived[i] : i \in 1 .. Len(arrived)}

DevType ==
    /\ TypeOK
    /\ held \in Nat /\ seen \in 0 .. MaxFrames /\ TX_ALLOC_FAIL \in Nat
    /\ delivered \in Seq(Nat)

\* Where receive() is, and what its token and its arrays then hold.
StepInv ==
    /\ at \in {"token", "replied"} <=> token # NoMbuf
    /\ token \in Mbufs => rx_pref_pos >= 1
    /\ at \in {"idle", "egress"} => rx_pref_pos = rx_pref_len

\* The places of an mbuf, each counted once.
Live(m) == m + held <= PoolSize

Places(m) ==
    pool[m] + One(m \in posted) + One(m \in tx_ring) + One(token = m) + One(m \in Ringed)
    + One(m \in Fetched)

PlaceInv ==
    /\ \A i \in Window : rx_pref[i] \in Mbufs
    /\ \A i, j \in Window : rx_pref[i] = rx_pref[j] => i = j
    /\ \A i, j \in 1 .. Len(arrived) : arrived[i] = arrived[j] => i = j
    /\ \A m \in Mbufs : Places(m) = IF Live(m) THEN 1 ELSE 0

HoldInv == DevType /\ StepInv /\ PlaceInv

-----------------------------------------------------------------------------
(* What the steps are made of *)

LEMMA Sizes ==
    /\ PoolSize \in Nat /\ DESC_NUM \in Nat \ {0} /\ CACHE \in Nat /\ RX_BURST \in Nat \ {0}
    /\ SLACK \in Nat /\ MaxFrames \in Nat /\ MaxFails \in Nat
    /\ NoMbuf \notin Mbufs /\ Synth \notin Mbufs /\ Synth # NoMbuf
    /\ \A m \in Mbufs : m \in Nat
BY SizeAssumption DEF PoolSize, NoMbuf, Synth, Mbufs

\* The least-number principle, for sets of naturals.
LEMMA Least == ASSUME NEW S, S \subseteq Nat, S # {} PROVE \E n \in S : \A m \in S : n <= m
<1> DEFINE R == OpToRel(<, Nat)
<1>1. IsWellFoundedOn(R, Nat)
    BY NatLessThanWellFounded
<1>2. \A a, b \in Nat : <<a, b>> \in R <=> a < b
    BY DEF OpToRel
<1> HIDE DEF R
<1>3. PICK n \in S : \A m \in S : ~ (<<m, n>> \in R)
    BY <1>1, WFMin
<1>4. n \in Nat /\ \A m \in S : m \in Nat /\ ~ (m < n)
    BY <1>2, <1>3
<1>5. \A m \in S : n <= m
    BY <1>4
<1>6. QED BY <1>5

LEMMA MinIn == ASSUME NEW S, S \subseteq Nat, S # {} PROVE Min(S) \in S
<1>1. \E n \in S : \A m \in S : n <= m
    BY Least
<1>2. QED BY <1>1 DEF Min

LEMMA FreedAt ==
    ASSUME DevType, NEW S, NEW m \in Mbufs
    PROVE  /\ Freed(S) \in [Mbufs -> Nat] /\ Freed(S)[m] = pool[m] + One(m \in S)
           /\ Wiped(S) \in [Mbufs -> [n : 0 .. MaxFrames, kind : Kinds]]
           /\ m \notin S => Wiped(S)[m] = frame[m]
<1>1. pool \in [Mbufs -> Nat] /\ frame \in [Mbufs -> [n : 0 .. MaxFrames, kind : Kinds]]
    BY DEF DevType, TypeOK
<1>2. Blank \in [n : 0 .. MaxFrames, kind : Kinds]
    BY Sizes DEF Blank, Kinds
<1>3. QED BY <1>1, <1>2 DEF Freed, Wiped, One

LEMMA OneType == \A b \in BOOLEAN : One(b) \in {0, 1} /\ (One(b) = 1 <=> b)
BY DEF One

\* What is taken out of the pool is nowhere else.
LEMMA TakenAlone ==
    ASSUME HoldInv, Available # {}
    PROVE  /\ Min(Available) \in Mbufs /\ pool[Min(Available)] = 1
           /\ Min(Available) \notin posted /\ Min(Available) \notin tx_ring
           /\ Min(Available) \notin Ringed /\ Min(Available) \notin Fetched
           /\ token # Min(Available)
<1> DEFINE m == Min(Available)
<1>1. m \in Available
    <2>1. Available \subseteq Nat
        BY Sizes DEF Available
    <2>2. QED BY <2>1, MinIn
<1> HIDE DEF m
<1>2. m \in Mbufs /\ pool[m] \in Nat /\ pool[m] > 0
    BY <1>1 DEF Available, HoldInv, DevType, TypeOK
<1>3. Places(m) \in {0, 1}
    BY <1>2 DEF HoldInv, PlaceInv
<1>4. QED BY <1>2, <1>3 DEF Places, One, m

\* A burst: k mbufs leave the ring, the good ones fill the arrays in order e.
Good(k) == {i \in 1 .. k : frame[arrived[i]].kind # "bad"}
Bad(k) == {arrived[i] : i \in (1 .. k) \ Good(k)}

Burst(k, n, e) ==
    /\ k \in 0 .. Len(arrived) /\ Good(k) \subseteq 1 .. Len(arrived)
    /\ n \in 0 .. RX_BURST
    /\ e \in [1 .. n -> Good(k)] /\ (\A s \in Good(k) : \E i \in 1 .. n : e[i] = s)
    /\ \A i, j \in 1 .. n : i < j => e[i] < e[j]
    /\ arrived' \in Seq(Mbufs) /\ Len(arrived') = Len(arrived) - k
    /\ \A i \in 1 .. Len(arrived) - k : arrived'[i] = arrived[i + k]
    /\ pool' = Freed(Bad(k)) /\ frame' = Wiped(Bad(k))
    /\ dropped' = dropped \union {frame[m].n : m \in Bad(k)}
    /\ \A i \in 1 .. n : rx_pref'[i] = arrived[e[i]]
    /\ rx_pref' \in [1 .. RX_BURST -> Mbufs \union {NoMbuf}]
    /\ n # 0 => rx_pref_pos' = 0 /\ rx_pref_len' = n /\ at' = at
    /\ n = 0 => at' = "egress" /\ rx_pref_pos' = rx_pref_pos /\ rx_pref_len' = rx_pref_len

LEMMA BurstFacts ==
    ASSUME HoldInv, RxBurst
    PROVE  /\ at = "ingress" /\ token = NoMbuf /\ rx_pref_pos = rx_pref_len
           /\ UNCHANGED <<held, posted, tx_ring, seen, token, delivered, TX_ALLOC_FAIL>>
           /\ \E k, n, e : Burst(k, n, e)
<1>1. PICK k \in 0 .. Len(arrived) :
          LET good == {i \in 1 .. k : frame[arrived[i]].kind # "bad"}
              bad  == {arrived[i] : i \in (1 .. k) \ good}
              n    == Cardinality(good)
          IN  /\ k <= RX_BURST
              /\ arrived' = SubSeq(arrived, k + 1, Len(arrived))
              /\ pool' = Freed(bad) /\ frame' = Wiped(bad)
              /\ dropped' = dropped \union {frame[m].n : m \in bad}
              /\ \E e \in InOrder(good) :
                    rx_pref' = [i \in 1 .. RX_BURST |->
                                  IF i <= n THEN arrived[e[i]] ELSE rx_pref[i]]
              /\ IF n = 0
                 THEN at' = "egress" /\ UNCHANGED <<rx_pref_pos, rx_pref_len>>
                 ELSE rx_pref_pos' = PosAfterBurst /\ rx_pref_len' = n /\ UNCHANGED at
    BY DEF RxBurst
<1> DEFINE n == Cardinality(Good(k))
<1>2. arrived \in Seq(Mbufs) /\ rx_pref \in [1 .. RX_BURST -> Mbufs \union {NoMbuf}]
    BY DEF HoldInv, DevType, TypeOK
<1>3. k \in Nat /\ Len(arrived) \in Nat /\ k <= RX_BURST /\ RX_BURST \in Nat
    BY <1>1, <1>2, LenProperties, Sizes
<1>4. n \in Nat /\ n <= k
    <2>1. 1 \in Int /\ k \in Int
        BY <1>3
    <2>2. IsFiniteSet(1 .. k) /\ Cardinality(1 .. k) = k
        BY <1>3, <2>1, FS_Interval
    <2>3. Good(k) \in SUBSET (1 .. k)
        BY DEF Good
    <2>4. IsFiniteSet(Good(k)) /\ n <= k
        BY <2>2, <2>3, FS_Subset
    <2>5. QED BY <2>4, FS_CardinalityType
<1>5. PICK e \in InOrder(Good(k)) :
          rx_pref' = [i \in 1 .. RX_BURST |-> IF i <= n THEN arrived[e[i]] ELSE rx_pref[i]]
    BY <1>1 DEF Good
<1>6. /\ e \in [1 .. n -> Good(k)] /\ (\A s \in Good(k) : \E i \in 1 .. n : e[i] = s)
      /\ \A i, j \in 1 .. n : i < j => e[i] < e[j]
    BY <1>5 DEF InOrder
<1>13. /\ n # 0 => rx_pref_pos' = 0 /\ rx_pref_len' = n /\ at' = at
       /\ n = 0 => at' = "egress" /\ rx_pref_pos' = rx_pref_pos /\ rx_pref_len' = rx_pref_len
    BY <1>1 DEF PosAfterBurst, Good
<1>14. /\ pool' = Freed(Bad(k)) /\ frame' = Wiped(Bad(k))
       /\ dropped' = dropped \union {frame[m].n : m \in Bad(k)}
    BY <1>1 DEF Bad, Good
<1> HIDE DEF n
<1>7. Good(k) \subseteq 1 .. Len(arrived)
    BY <1>3 DEF Good
<1>8. \A i \in 1 .. n : arrived[e[i]] \in Mbufs
    BY <1>2, <1>6, <1>7, ElementOfSeq
<1>9. /\ \A i \in 1 .. n : rx_pref'[i] = arrived[e[i]]
      /\ rx_pref' \in [1 .. RX_BURST -> Mbufs \union {NoMbuf}]
    <2>1. \A i \in 1 .. n : i \in 1 .. RX_BURST /\ i <= n
        BY <1>3, <1>4
    <2>2. \A i \in 1 .. n : rx_pref'[i] = arrived[e[i]]
        BY <1>5, <2>1
    <2>3. ASSUME NEW i \in 1 .. RX_BURST
          PROVE  (IF i <= n THEN arrived[e[i]] ELSE rx_pref[i]) \in Mbufs \union {NoMbuf}
        BY <1>2, <1>4, <1>8
    <2>4. QED BY <1>5, <2>2, <2>3
<1>10. /\ arrived' \in Seq(Mbufs) /\ Len(arrived') = Len(arrived) - k
       /\ \A i \in 1 .. Len(arrived) - k : arrived'[i] = arrived[i + k]
    <2>1. arrived' = SubSeq(arrived, k + 1, Len(arrived))
        BY <1>1
    <2>2. k + 1 \in Int /\ Len(arrived) \in Int
        BY <1>3
    <2>3. \A i \in k + 1 .. Len(arrived) : arrived[i] \in Mbufs
        BY <1>2, <1>3, ElementOfSeq
    <2> DEFINE s == SubSeq(arrived, k + 1, Len(arrived))
    <2>4. /\ s \in Seq(Mbufs)
          /\ Len(s) = IF k + 1 <= Len(arrived) THEN Len(arrived) - (k + 1) + 1 ELSE 0
          /\ \A i \in 1 .. Len(arrived) - (k + 1) + 1 : s[i] = arrived[(k + 1) + i - 1]
        BY <1>2, <2>2, <2>3, SubSeqProperties
    <2> HIDE DEF s
    <2>5. Len(s) = Len(arrived) - k
        <3>1. k <= Len(arrived)
            BY <1>1, <1>3
        <3>2. QED BY <1>3, <2>4, <3>1
    <2>6. ASSUME NEW i \in 1 .. Len(arrived) - k PROVE s[i] = arrived[i + k]
        <3>1. (k + 1) + i - 1 = i + k /\ i \in 1 .. Len(arrived) - (k + 1) + 1
            BY <1>3
        <3>2. s[i] = arrived[(k + 1) + i - 1]
            BY <2>4, <3>1
        <3>3. QED BY ONLY <3>1, <3>2
    <2>7. arrived' = s
        BY <2>1 DEF s
    <2>8. QED BY <2>4, <2>5, <2>6, <2>7
<1>11. /\ at = "ingress" /\ rx_pref_pos = rx_pref_len
       /\ UNCHANGED <<held, posted, tx_ring, seen, token, delivered, TX_ALLOC_FAIL>>
    BY DEF RxBurst, RefillDue, txcounts
<1>12. token = NoMbuf
    BY <1>11 DEF HoldInv, StepInv
<1>16. n \in 0 .. RX_BURST
    BY <1>3, <1>4
<1>17. Burst(k, n, e)
    BY <1>6, <1>7, <1>9, <1>10, <1>13, <1>14, <1>16 DEF Burst
<1>18. QED BY <1>11, <1>12, <1>17

-----------------------------------------------------------------------------
(* Every mbuf in one place *)

LEMMA HoldInit == ASSUME Init PROVE HoldInv
<1> USE DEF Init
<1>1. DevType
    <2>1. pool \in [Mbufs -> Nat] /\ frame \in [Mbufs -> [n : 0 .. MaxFrames, kind : Kinds]]
        <3>1. Blank \in [n : 0 .. MaxFrames, kind : Kinds]
            BY Sizes DEF Blank, Kinds
        <3>2. QED BY <3>1
    <2>2. held \in Nat /\ seen \in 0 .. MaxFrames /\ TX_ALLOC_FAIL \in Nat
        BY Sizes, SizeAssumption
    <2>3. arrived \in Seq(Mbufs) /\ delivered \in Seq(Nat)
        OBVIOUS
    <2>4. rx_pref_len \in 0 .. RX_BURST /\ rx_pref_pos \in 0 .. rx_pref_len
        BY Sizes
    <2>5. QED BY <2>1, <2>2, <2>3, <2>4 DEF DevType, TypeOK
<1>2. StepInv
    BY Sizes DEF StepInv
<1>3. PlaceInv
    <2>1. Window = {} /\ Fetched = {} /\ Ringed = {} /\ Len(arrived) = 0
        BY DEF Window, Fetched, Ringed
    <2>2. ASSUME NEW m \in Mbufs PROVE Places(m) = IF Live(m) THEN 1 ELSE 0
        BY <2>1, Sizes DEF Places, One, Live
    <2>3. QED BY <2>1, <2>2 DEF PlaceInv
<1>4. QED BY <1>1, <1>2, <1>3 DEF HoldInv

\* A step that leaves the arrays and the frames on the ring alone.
LEMMA SameQueues ==
    ASSUME PlaceInv, UNCHANGED <<held, arrived, rx_pref, rx_pref_pos, rx_pref_len>>,
           \A m \in Mbufs : Places(m)' = Places(m)
    PROVE  PlaceInv'
<1>1. Window' = Window /\ \A m : Live(m)' <=> Live(m)
    BY DEF Window, Live
<1>2. QED BY <1>1 DEF PlaceInv

LEMMA SameSets ==
    ASSUME UNCHANGED <<arrived, rx_pref, rx_pref_pos, rx_pref_len>>
    PROVE  Fetched' = Fetched /\ Ringed' = Ringed
BY DEF Fetched, Ringed, Window

LEMMA PlaceTypes ==
    ASSUME HoldInv, NEW m \in Mbufs
    PROVE  pool[m] \in Nat /\ Places(m) \in {0, 1}
BY DEF HoldInv, PlaceInv, DevType, TypeOK

LEMMA HoldNicRefill == ASSUME HoldInv, NicRefill PROVE HoldInv'
<1> DEFINE t == Min(Available)
<1>1. /\ t \in Mbufs /\ pool[t] = 1
      /\ t \notin posted /\ t \notin tx_ring /\ t \notin Ringed /\ t \notin Fetched /\ token # t
    BY TakenAlone DEF NicRefill
<1>2. /\ posted' = posted \union {t} /\ pool' = [pool EXCEPT ![t] = @ - 1]
      /\ UNCHANGED <<held, arrived, tx_ring, frame, seen, pending_synth, rx_pref, rx_pref_pos,
                     rx_pref_len, token, at, delivered, TX_ALLOC_FAIL>>
    BY DEF NicRefill, rxvars, logs, txcounts
<1> HIDE DEF t
<1>3. pool' \in [Mbufs -> Nat]
    BY <1>1, <1>2 DEF HoldInv, DevType, TypeOK
<1>4. DevType'
    BY <1>1, <1>2, <1>3 DEF HoldInv, DevType, TypeOK
<1>5. StepInv'
    BY <1>2 DEF HoldInv, StepInv
<1>6. ASSUME NEW m \in Mbufs PROVE Places(m)' = Places(m)
    <2>1. Fetched' = Fetched /\ Ringed' = Ringed
        BY <1>2, SameSets
    <2>2. pool'[m] = IF m = t THEN pool[m] - 1 ELSE pool[m]
        BY <1>2 DEF HoldInv, DevType, TypeOK
    <2>3. CASE m = t
        BY <1>1, <1>2, <2>1, <2>2, <2>3 DEF Places, One
    <2>4. CASE m # t
        BY <1>1, <1>2, <2>1, <2>2, <2>4 DEF Places, One
    <2>5. QED BY <2>3, <2>4
<1>7. PlaceInv'
    BY <1>2, <1>6, SameQueues DEF HoldInv
<1>8. QED BY <1>4, <1>5, <1>7 DEF HoldInv

LEMMA HoldNicSent == ASSUME HoldInv, NicSent PROVE HoldInv'
<1> DEFINE t == Min(tx_ring)
<1>1. t \in tx_ring /\ t \in Mbufs
    <2>1. tx_ring \subseteq Mbufs /\ tx_ring # {}
        BY DEF NicSent, HoldInv, DevType, TypeOK
    <2>2. tx_ring \subseteq Nat
        BY <2>1, Sizes
    <2>3. QED BY <2>1, <2>2, MinIn
<1>2. /\ tx_ring' = tx_ring \ {t} /\ pool' = Freed({t})
      /\ UNCHANGED <<held, posted, arrived, frame, seen, pending_synth, rx_pref, rx_pref_pos,
                     rx_pref_len, token, at, delivered, TX_ALLOC_FAIL>>
    BY DEF NicSent, rxvars, logs, txcounts
<1> HIDE DEF t
<1>3. pool' \in [Mbufs -> Nat]
    BY <1>1, <1>2, FreedAt DEF HoldInv
<1>4. DevType'
    BY <1>1, <1>2, <1>3 DEF HoldInv, DevType, TypeOK
<1>5. StepInv'
    BY <1>2 DEF HoldInv, StepInv
<1>6. ASSUME NEW m \in Mbufs PROVE Places(m)' = Places(m)
    <2>1. Fetched' = Fetched /\ Ringed' = Ringed
        BY <1>2, SameSets
    <2>2. pool'[m] = pool[m] + One(m \in {t})
        BY <1>2, FreedAt DEF HoldInv
    <2>3. pool[m] \in Nat
        BY PlaceTypes
    <2>4. CASE m = t
        BY <1>1, <1>2, <2>1, <2>2, <2>3, <2>4 DEF Places, One
    <2>5. CASE m # t
        BY <1>1, <1>2, <2>1, <2>2, <2>3, <2>5 DEF Places, One
    <2>6. QED BY <2>4, <2>5
<1>7. PlaceInv'
    BY <1>2, <1>6, SameQueues DEF HoldInv
<1>8. QED BY <1>4, <1>5, <1>7 DEF HoldInv

LEMMA HoldNicReceive == ASSUME HoldInv, NicReceive PROVE HoldInv'
<1> DEFINE t == Min(posted)
<1>1. t \in posted /\ t \in Mbufs
    <2>1. posted \subseteq Mbufs /\ posted # {}
        BY DEF NicReceive, HoldInv, DevType, TypeOK
    <2>2. posted \subseteq Nat
        BY <2>1, Sizes
    <2>3. QED BY <2>1, <2>2, MinIn
<1>2. PICK k \in Kinds :
      /\ posted' = posted \ {t} /\ arrived' = Append(arrived, t)
      /\ frame' = [frame EXCEPT ![t] = [n |-> seen + 1, kind |-> k]]
      /\ seen < MaxFrames /\ seen' = seen + 1
      /\ UNCHANGED <<held, pool, tx_ring, pending_synth, rx_pref, rx_pref_pos,
                     rx_pref_len, token, at, delivered, TX_ALLOC_FAIL>>
    BY DEF NicReceive, rxvars, logs, txcounts
<1> HIDE DEF t
<1>3. arrived \in Seq(Mbufs) /\ Len(arrived) \in Nat
    BY LenProperties DEF HoldInv, DevType, TypeOK
<1>4. /\ arrived' \in Seq(Mbufs) /\ Len(arrived') = Len(arrived) + 1
      /\ \A i \in 1 .. Len(arrived) : arrived'[i] = arrived[i]
      /\ arrived'[Len(arrived) + 1] = t
    BY <1>1, <1>2, <1>3, AppendProperties
<1>5. seen' \in 0 .. MaxFrames
    BY <1>2, Sizes DEF HoldInv, DevType
<1>6. frame' \in [Mbufs -> [n : 0 .. MaxFrames, kind : Kinds]]
    <2>1. [n |-> seen + 1, kind |-> k] \in [n : 0 .. MaxFrames, kind : Kinds]
        BY <1>2, <1>5
    <2>2. QED BY <1>1, <1>2, <2>1 DEF HoldInv, DevType, TypeOK
<1>7. DevType'
    BY <1>1, <1>2, <1>4, <1>5, <1>6 DEF HoldInv, DevType, TypeOK
<1>8. StepInv'
    BY <1>2 DEF HoldInv, StepInv
<1>9. Ringed' = Ringed \union {t}
    <2>1. 1 .. Len(arrived') = 1 .. Len(arrived) \union {Len(arrived) + 1}
        BY <1>3, <1>4
    <2>2. QED BY <1>4, <2>1 DEF Ringed
<1>10. t \notin Ringed
    <2>1. pool[t] \in Nat /\ Places(t) \in {0, 1}
        BY <1>1, PlaceTypes
    <2>2. QED BY <1>1, <2>1 DEF Places, One
<1>11. ASSUME NEW m \in Mbufs PROVE Places(m)' = Places(m)
    <2>1. Fetched' = Fetched
        BY <1>2 DEF Fetched, Window
    <2>2. CASE m = t
        BY <1>1, <1>2, <1>9, <1>10, <2>1, <2>2, PlaceTypes DEF Places, One
    <2>3. CASE m # t
        BY <1>1, <1>2, <1>9, <1>10, <2>1, <2>3 DEF Places, One
    <2>4. QED BY <2>2, <2>3
<1>12. \A i, j \in 1 .. Len(arrived') : arrived'[i] = arrived'[j] => i = j
    <2>1. \A i, j \in 1 .. Len(arrived) : arrived[i] = arrived[j] => i = j
        BY DEF HoldInv, PlaceInv
    <2>2. \A i \in 1 .. Len(arrived) : arrived[i] # t
        BY <1>10 DEF Ringed
    <2>3. \A i \in 1 .. Len(arrived') : i \in 1 .. Len(arrived) \/ i = Len(arrived) + 1
        BY <1>3, <1>4
    <2>4. QED BY <1>4, <2>1, <2>2, <2>3
<1>13. PlaceInv'
    <2>1. Window' = Window /\ \A m : Live(m)' <=> Live(m)
        BY <1>2 DEF Window, Live
    <2>2. QED BY <1>2, <1>11, <1>12, <2>1 DEF HoldInv, PlaceInv
<1>14. QED BY <1>7, <1>8, <1>13 DEF HoldInv

LEMMA HoldTakeSynth == ASSUME HoldInv, TakeSynth PROVE HoldInv'
<1>1. /\ at = "ingress" /\ token' = Synth /\ at' = "token"
      /\ UNCHANGED <<held, pool, posted, arrived, tx_ring, frame, seen, rx_pref, rx_pref_pos,
                     rx_pref_len, delivered, TX_ALLOC_FAIL>>
    BY DEF TakeSynth, nicvars, logs, txcounts
<1>2. token = NoMbuf
    BY <1>1 DEF HoldInv, StepInv
<1>3. DevType'
    BY <1>1 DEF HoldInv, DevType, TypeOK
<1>4. StepInv'
    BY <1>1, Sizes DEF StepInv
<1>5. ASSUME NEW m \in Mbufs PROVE Places(m)' = Places(m)
    <2>1. Fetched' = Fetched /\ Ringed' = Ringed
        BY <1>1, SameSets
    <2>2. token # m /\ token' # m
        BY <1>1, <1>2, Sizes
    <2>3. QED BY <1>1, <2>1, <2>2 DEF Places, One
<1>6. PlaceInv'
    BY <1>1, <1>5, SameQueues DEF HoldInv
<1>7. QED BY <1>3, <1>4, <1>6 DEF HoldInv

LEMMA HoldConsume == ASSUME HoldInv, Consume PROVE HoldInv'
<1>1. /\ at \in {"token", "replied"} /\ token' = NoMbuf /\ at' = "ingress"
      /\ pool' = IF token = Synth THEN pool ELSE Freed({token})
      /\ frame' = Wiped({token})
      /\ UNCHANGED <<held, posted, arrived, tx_ring, seen, rx_pref, rx_pref_pos,
                     rx_pref_len, delivered, TX_ALLOC_FAIL>>
    BY DEF Consume, FreedByConsume, rxvars, logs, txcounts
<1>2. token # NoMbuf /\ token \in Mbufs \union {Synth}
    BY <1>1 DEF HoldInv, StepInv, DevType, TypeOK
<1>3. pool' \in [Mbufs -> Nat] /\ frame' \in [Mbufs -> [n : 0 .. MaxFrames, kind : Kinds]]
    <2>1. pool \in [Mbufs -> Nat]
        BY DEF HoldInv, DevType, TypeOK
    <2>2. PICK m : m \in Mbufs
        BY SizeAssumption DEF Mbufs, PoolSize
    <2>3. QED BY <1>1, <2>1, <2>2, FreedAt DEF HoldInv
<1>4. DevType'
    BY <1>1, <1>3 DEF HoldInv, DevType, TypeOK
<1>5. StepInv'
    BY <1>1, Sizes DEF StepInv
<1>6. ASSUME NEW m \in Mbufs PROVE Places(m)' = Places(m)
    <2>1. Fetched' = Fetched /\ Ringed' = Ringed
        BY <1>1, SameSets
    <2>2. pool[m] \in Nat /\ token' # m /\ Synth # m
        BY <1>1, PlaceTypes, Sizes
    <2>3. pool'[m] = pool[m] + One(m = token)
        <3>1. CASE token = Synth
            BY <1>1, <2>2, <3>1 DEF One
        <3>2. CASE token # Synth
            <4>1. pool'[m] = pool[m] + One(m \in {token})
                BY <1>1, <3>2, FreedAt DEF HoldInv
            <4>2. QED BY <4>1 DEF One
        <3>3. QED BY <3>1, <3>2
    <2>4. QED BY <1>1, <2>1, <2>2, <2>3 DEF Places, One
<1>7. PlaceInv'
    BY <1>1, <1>6, SameQueues DEF HoldInv
<1>8. QED BY <1>4, <1>5, <1>7 DEF HoldInv

LEMMA HoldTransmit == ASSUME HoldInv, Transmit PROVE HoldInv'
<1> DEFINE t == Min(Available)
<1>1. /\ at \in {"token", "egress"} /\ at' = IF at = "token" THEN "replied" ELSE "egress"
      /\ UNCHANGED <<held, posted, arrived, frame, seen, rx_pref, rx_pref_pos,
                     rx_pref_len, token, delivered>>
    BY DEF Transmit, rxvars, logs
<1>2. \/ UNCHANGED <<pool, tx_ring>> /\ TX_ALLOC_FAIL' \in {TX_ALLOC_FAIL, TX_ALLOC_FAIL + 1}
      \/ /\ Available # {} /\ UNCHANGED TX_ALLOC_FAIL
         /\ pool' = [pool EXCEPT ![t] = @ - 1] /\ tx_ring' = tx_ring \union {t}
    BY DEF Transmit, txcounts
<1>3. Available # {} => /\ t \in Mbufs /\ pool[t] = 1 /\ t \notin posted /\ t \notin tx_ring
                        /\ t \notin Ringed /\ t \notin Fetched /\ token # t
    BY TakenAlone
<1> HIDE DEF t
<1>4. pool' \in [Mbufs -> Nat] /\ tx_ring' \subseteq Mbufs /\ TX_ALLOC_FAIL' \in Nat
    BY <1>2, <1>3 DEF HoldInv, DevType, TypeOK
<1>5. DevType'
    BY <1>1, <1>4 DEF HoldInv, DevType, TypeOK
<1>6. StepInv'
    BY <1>1 DEF HoldInv, StepInv
<1>7. ASSUME NEW m \in Mbufs PROVE Places(m)' = Places(m)
    <2>1. Fetched' = Fetched /\ Ringed' = Ringed
        BY <1>1, SameSets
    <2>2. CASE UNCHANGED <<pool, tx_ring>>
        BY <1>1, <2>1, <2>2 DEF Places
    <2>3. CASE ~ UNCHANGED <<pool, tx_ring>>
        <3>1. pool'[m] = IF m = t THEN pool[m] - 1 ELSE pool[m]
            BY <1>2, <2>3 DEF HoldInv, DevType, TypeOK
        <3>2. CASE m = t
            BY <1>1, <1>2, <1>3, <2>1, <2>3, <3>1, <3>2 DEF Places, One
        <3>3. CASE m # t
            BY <1>1, <1>2, <2>1, <2>3, <3>1, <3>3 DEF Places, One
        <3>4. QED BY <3>2, <3>3
    <2>4. QED BY <2>2, <2>3
<1>8. PlaceInv'
    BY <1>1, <1>7, SameQueues DEF HoldInv
<1>9. QED BY <1>5, <1>6, <1>8 DEF HoldInv

LEMMA HoldPoll == ASSUME HoldInv, PollStart \/ PollEnd PROVE HoldInv'
<1>1. /\ at' \in {"idle", "ingress"} /\ at \in {"idle", "egress"}
      /\ UNCHANGED <<held, pool, posted, arrived, tx_ring, frame, seen, rx_pref, rx_pref_pos,
                     rx_pref_len, token, delivered, TX_ALLOC_FAIL>>
    BY DEF PollStart, PollEnd, nicvars, rxvars, logs, txcounts
<1>2. DevType'
    BY <1>1 DEF HoldInv, DevType, TypeOK
<1>3. StepInv'
    BY <1>1 DEF HoldInv, StepInv
<1>4. ASSUME NEW m \in Mbufs PROVE Places(m)' = Places(m)
    <2>1. Fetched' = Fetched /\ Ringed' = Ringed
        BY <1>1, SameSets
    <2>2. QED BY <1>1, <2>1 DEF Places
<1>5. PlaceInv'
    BY <1>1, <1>4, SameQueues DEF HoldInv
<1>6. QED BY <1>2, <1>3, <1>5 DEF HoldInv

\* Only the first entry of the window leaves it, and the rest stays.
LEMMA FirstEntry ==
    ASSUME HoldInv, TakeFrame
    PROVE  LET t == rx_pref[rx_pref_pos + 1]
           IN  /\ rx_pref_pos + 1 \in Window /\ t \in Mbufs /\ t \in Fetched
               /\ Window' = Window \ {rx_pref_pos + 1}
               /\ Fetched' = Fetched \ {t}
               /\ token = NoMbuf
<1> DEFINE t == rx_pref[rx_pref_pos + 1]
<1>1. /\ at = "ingress" /\ rx_pref_pos # rx_pref_len /\ rx_pref_pos' = rx_pref_pos + 1
      /\ UNCHANGED <<rx_pref, rx_pref_len>>
    BY DEF TakeFrame, RefillDue
<1>2. rx_pref_pos \in Nat /\ rx_pref_len \in Nat /\ rx_pref_pos < rx_pref_len
    BY <1>1, Sizes DEF HoldInv, DevType, TypeOK
<1>3. rx_pref_pos + 1 \in Window /\ Window' = Window \ {rx_pref_pos + 1}
    BY <1>1, <1>2 DEF Window
<1>4. t \in Mbufs /\ t \in Fetched
    BY <1>3 DEF HoldInv, PlaceInv, Fetched
<1>5. Fetched' = Fetched \ {t}
    <2>1. \A i \in Window : rx_pref[i] = t => i = rx_pref_pos + 1
        BY <1>3 DEF HoldInv, PlaceInv
    <2>2. Fetched' = {rx_pref[i] : i \in Window \ {rx_pref_pos + 1}}
        BY <1>1, <1>3 DEF Fetched
    <2>3. QED BY <2>1, <2>2 DEF Fetched
<1>6. token = NoMbuf
    BY <1>1 DEF HoldInv, StepInv
<1>7. QED BY <1>3, <1>4, <1>5, <1>6

LEMMA HoldTakeFrame == ASSUME HoldInv, TakeFrame PROVE HoldInv'
<1> DEFINE t == rx_pref[rx_pref_pos + 1]
<1>1. /\ rx_pref_pos + 1 \in Window /\ t \in Mbufs /\ t \in Fetched
      /\ Window' = Window \ {rx_pref_pos + 1} /\ Fetched' = Fetched \ {t} /\ token = NoMbuf
    BY FirstEntry
<1>2. /\ at = "ingress" /\ rx_pref_pos # rx_pref_len /\ rx_pref_pos' = rx_pref_pos + 1
      /\ UNCHANGED <<held, posted, arrived, tx_ring, seen, rx_pref, rx_pref_len, TX_ALLOC_FAIL>>
    BY DEF TakeFrame, RefillDue, txcounts
<1>3. \/ /\ pool' = Freed({t}) /\ frame' = Wiped({t}) /\ at' = "ingress"
         /\ UNCHANGED <<token, delivered>>
      \/ /\ token' = t /\ at' = "token" /\ delivered' = Append(delivered, frame[t].n)
         /\ UNCHANGED <<pool, frame>>
    BY DEF TakeFrame, AfterMisrouted
<1> HIDE DEF t
<1>4. pool' \in [Mbufs -> Nat] /\ frame' \in [Mbufs -> [n : 0 .. MaxFrames, kind : Kinds]]
    <2>1. pool \in [Mbufs -> Nat] /\ frame \in [Mbufs -> [n : 0 .. MaxFrames, kind : Kinds]]
        BY DEF HoldInv, DevType, TypeOK
    <2>2. /\ Freed({t}) \in [Mbufs -> Nat]
          /\ Wiped({t}) \in [Mbufs -> [n : 0 .. MaxFrames, kind : Kinds]]
        BY <1>1, FreedAt DEF HoldInv
    <2>3. QED BY ONLY <1>3, <2>1, <2>2
<1>5. delivered' \in Seq(Nat)
    <2>1. frame[t] \in [n : 0 .. MaxFrames, kind : Kinds] /\ delivered \in Seq(Nat)
        BY <1>1 DEF HoldInv, DevType, TypeOK
    <2>2. frame[t].n \in Nat
        BY <2>1, Sizes
    <2>3. QED BY <1>3, <2>1, <2>2, AppendProperties
<1>6. rx_pref_pos' \in 0 .. rx_pref_len' /\ rx_pref_pos' >= 1
    BY <1>2, Sizes DEF HoldInv, DevType, TypeOK
<1>7. DevType'
    <2>1. token' \in Mbufs \union {NoMbuf, Synth} /\ at' \in {"ingress", "token"}
        BY <1>1, <1>3
    <2>2. QED BY <1>2, <1>4, <1>5, <1>6, <2>1 DEF HoldInv, DevType, TypeOK
<1>8. StepInv'
    <2>1. t # NoMbuf
        BY <1>1, Sizes
    <2>2. QED BY <1>1, <1>3, <1>6, <2>1 DEF StepInv
<1>9. ASSUME NEW m \in Mbufs PROVE Places(m)' = Places(m)
    <2>1. Ringed' = Ringed
        BY <1>2 DEF Ringed
    <2>2. pool[m] \in Nat /\ NoMbuf # m
        BY PlaceTypes, Sizes
    <2>3. CASE m # t
        <3>1. pool'[m] = pool[m] /\ token' # m
            <4>1. Freed({t})[m] = pool[m] + One(m \in {t})
                BY FreedAt DEF HoldInv
            <4>2. QED BY <1>1, <1>3, <2>2, <2>3, <4>1 DEF One
        <3>2. QED BY <1>1, <1>2, <2>1, <2>2, <2>3, <3>1 DEF Places, One
    <2>4. CASE m = t
        <3>1. pool'[m] + One(token' = m) = pool[m] + 1
            <4>1. Freed({t})[m] = pool[m] + One(m \in {t})
                BY FreedAt DEF HoldInv
            <4>2. QED BY <1>1, <1>3, <2>2, <2>4, <4>1 DEF One
        <3>2. pool'[m] \in Nat
            BY <1>4
        <3>3. m \in Fetched /\ m \notin Fetched' /\ token # m
            BY <1>1, <2>2, <2>4
        <3>4. QED BY <1>2, <2>1, <2>2, <3>1, <3>2, <3>3 DEF Places, One
    <2>5. QED BY <2>3, <2>4
<1>10. PlaceInv'
    <2>1. \A m : Live(m)' <=> Live(m)
        BY <1>2 DEF Live
    <2>2. QED BY <1>1, <1>2, <1>9, <2>1 DEF HoldInv, PlaceInv
<1>11. QED BY <1>7, <1>8, <1>10 DEF HoldInv

\* A burst parts the frames of the ring: those still on it, those in the
\* arrays, and the bad ones.
LEMMA BurstParts ==
    ASSUME HoldInv, RxBurst, NEW k, NEW n, NEW e, Burst(k, n, e)
    PROVE  /\ k \in Nat /\ n \in Nat /\ Len(arrived) \in Nat /\ k <= Len(arrived)
           /\ Window = {} /\ Window' = 1 .. n
           /\ Fetched' = {arrived[i] : i \in Good(k)}
           /\ Ringed' = {arrived[i] : i \in k + 1 .. Len(arrived)}
           /\ Ringed = Fetched' \union Ringed' \union Bad(k)
           /\ Fetched' \intersect Ringed' = {} /\ Fetched' \intersect Bad(k) = {}
           /\ Bad(k) \intersect Ringed' = {}
<1>1. /\ k \in Nat /\ n \in Nat /\ n <= RX_BURST /\ Len(arrived) \in Nat /\ k <= Len(arrived)
      /\ arrived \in Seq(Mbufs)
    <2>1. arrived \in Seq(Mbufs) /\ Len(arrived) \in Nat
        BY LenProperties DEF HoldInv, DevType, TypeOK
    <2>2. QED BY <2>1, Sizes DEF Burst
<1>2. rx_pref_pos = rx_pref_len /\ rx_pref_pos \in Nat /\ rx_pref_len \in Nat
    BY BurstFacts, Sizes DEF HoldInv, DevType, TypeOK
<1>3. Window = {} /\ Window' = 1 .. n
    <2>1. Window = {}
        BY <1>2 DEF Window
    <2>2. CASE n = 0
        <3>1. rx_pref_pos' = rx_pref_pos /\ rx_pref_len' = rx_pref_len
            BY <2>2 DEF Burst
        <3>2. QED BY <1>2, <2>1, <2>2, <3>1 DEF Window
    <2>3. CASE n # 0
        <3>1. rx_pref_pos' = 0 /\ rx_pref_len' = n
            BY <2>3 DEF Burst
        <3>2. QED BY <1>1, <2>1, <3>1 DEF Window
    <2>4. QED BY <2>2, <2>3
<1>4. Fetched' = {arrived[i] : i \in Good(k)}
    <2>1. Fetched' = {rx_pref'[i] : i \in 1 .. n}
        BY <1>3 DEF Fetched
    <2>2. /\ e \in [1 .. n -> Good(k)] /\ (\A s \in Good(k) : \E i \in 1 .. n : e[i] = s)
          /\ \A i \in 1 .. n : rx_pref'[i] = arrived[e[i]]
        BY DEF Burst
    <2>3. QED BY <2>1, <2>2
<1>5. Ringed' = {arrived[i] : i \in k + 1 .. Len(arrived)}
    <2>1. Ringed' = {arrived'[i] : i \in 1 .. Len(arrived) - k}
        BY DEF Burst, Ringed
    <2>2. \A i \in 1 .. Len(arrived) - k : arrived'[i] = arrived[i + k]
        BY DEF Burst
    <2>3. /\ \A i \in 1 .. Len(arrived) - k : i + k \in k + 1 .. Len(arrived)
          /\ \A i \in k + 1 .. Len(arrived) : i - k \in 1 .. Len(arrived) - k /\ (i - k) + k = i
        BY <1>1
    <2>4. ASSUME NEW m \in Ringed' PROVE m \in {arrived[i] : i \in k + 1 .. Len(arrived)}
        BY <2>1, <2>2, <2>3
    <2>5. ASSUME NEW i \in k + 1 .. Len(arrived) PROVE arrived[i] \in Ringed'
        <3>1. arrived'[i - k] = arrived[i]
            BY <2>2, <2>3
        <3>2. QED BY <2>1, <2>3, <3>1
    <2>6. QED BY <2>4, <2>5
<1>6. /\ \A i \in 1 .. Len(arrived) :
            i \in Good(k) \/ i \in k + 1 .. Len(arrived) \/ i \in (1 .. k) \ Good(k)
      /\ Good(k) \subseteq 1 .. Len(arrived) /\ k + 1 .. Len(arrived) \subseteq 1 .. Len(arrived)
      /\ (1 .. k) \ Good(k) \subseteq 1 .. Len(arrived)
    BY <1>1 DEF Good
<1>7. /\ Good(k) \intersect (k + 1 .. Len(arrived)) = {}
      /\ ((1 .. k) \ Good(k)) \intersect (k + 1 .. Len(arrived)) = {}
    BY <1>1 DEF Good
<1>8. \A i, j \in 1 .. Len(arrived) : arrived[i] = arrived[j] => i = j
    BY DEF HoldInv, PlaceInv
<1>9. Ringed = Fetched' \union Ringed' \union Bad(k)
    BY <1>4, <1>5, <1>6 DEF Ringed, Bad
<1>10. Fetched' \intersect Ringed' = {}
    BY <1>4, <1>5, <1>6, <1>7, <1>8
<1>11. Fetched' \intersect Bad(k) = {}
    BY <1>4, <1>6, <1>8 DEF Bad
<1>12. Bad(k) \intersect Ringed' = {}
    BY <1>5, <1>6, <1>7, <1>8 DEF Bad
<1>13. QED BY <1>1, <1>3, <1>4, <1>5, <1>9, <1>10, <1>11, <1>12

LEMMA HoldRxBurst == ASSUME HoldInv, RxBurst PROVE HoldInv'
<1>1. /\ at = "ingress" /\ token = NoMbuf /\ rx_pref_pos = rx_pref_len
      /\ UNCHANGED <<held, posted, tx_ring, seen, token, delivered, TX_ALLOC_FAIL>>
    BY BurstFacts
<1>2. PICK k, n, e : Burst(k, n, e)
    BY BurstFacts
<1>3. /\ k \in Nat /\ n \in Nat /\ Len(arrived) \in Nat /\ k <= Len(arrived)
      /\ Window = {} /\ Window' = 1 .. n
      /\ Ringed = Fetched' \union Ringed' \union Bad(k)
      /\ Fetched' \intersect Ringed' = {} /\ Fetched' \intersect Bad(k) = {}
      /\ Bad(k) \intersect Ringed' = {}
    BY <1>2, BurstParts
<1>4. pool' \in [Mbufs -> Nat] /\ frame' \in [Mbufs -> [n : 0 .. MaxFrames, kind : Kinds]]
    <2>1. PICK m : m \in Mbufs
        BY SizeAssumption DEF Mbufs, PoolSize
    <2>2. QED BY <1>2, <2>1, FreedAt DEF HoldInv, Burst
<1>5. rx_pref_len' \in 0 .. RX_BURST /\ rx_pref_pos' \in 0 .. rx_pref_len'
    <2>1. n \in 0 .. RX_BURST
        BY <1>2 DEF Burst
    <2>2. CASE n = 0
        <3>1. rx_pref_pos' = rx_pref_pos /\ rx_pref_len' = rx_pref_len
            BY <1>2, <2>2 DEF Burst
        <3>2. QED BY <3>1 DEF HoldInv, DevType, TypeOK
    <2>3. CASE n # 0
        <3>1. rx_pref_pos' = 0 /\ rx_pref_len' = n
            BY <1>2, <2>3 DEF Burst
        <3>2. QED BY <1>3, <2>1, <3>1
    <2>4. QED BY <2>2, <2>3
<1>6. at' \in {"ingress", "egress"} /\ (at' = "egress" => rx_pref_pos' = rx_pref_len')
    BY <1>1, <1>2 DEF Burst
<1>7. DevType'
    <2>1. arrived' \in Seq(Mbufs) /\ rx_pref' \in [1 .. RX_BURST -> Mbufs \union {NoMbuf}]
        BY <1>2 DEF Burst
    <2>2. QED BY <1>1, <1>4, <1>5, <1>6, <2>1 DEF HoldInv, DevType, TypeOK
<1>8. StepInv'
    BY <1>1, <1>6, Sizes DEF StepInv
<1>9. ASSUME NEW m \in Mbufs PROVE Places(m)' = Places(m)
    <2>1. pool[m] \in Nat /\ pool'[m] = pool[m] + One(m \in Bad(k))
        BY <1>2, FreedAt, PlaceTypes DEF HoldInv, Burst
    <2>2. m \notin Fetched
        BY <1>3 DEF Fetched
    <2>3. One(m \in Ringed) = One(m \in Fetched') + One(m \in Ringed') + One(m \in Bad(k))
        BY <1>3 DEF One
    <2>4. QED BY <1>1, <2>1, <2>2, <2>3 DEF Places, One
<1>10. \A i \in Window' : rx_pref'[i] \in Mbufs
    <2>1. \A i \in 1 .. n : rx_pref'[i] = arrived[e[i]] /\ e[i] \in 1 .. Len(arrived)
        BY <1>2 DEF Burst
    <2>2. arrived \in Seq(Mbufs)
        BY DEF HoldInv, DevType, TypeOK
    <2>3. QED BY <1>3, <2>1, <2>2, ElementOfSeq
<1>11. \A i, j \in Window' : rx_pref'[i] = rx_pref'[j] => i = j
    <2>1. SUFFICES ASSUME NEW i \in 1 .. n, NEW j \in 1 .. n, rx_pref'[i] = rx_pref'[j]
                   PROVE  i = j
        BY <1>3
    <2>2. /\ rx_pref'[i] = arrived[e[i]] /\ e[i] \in 1 .. Len(arrived)
          /\ rx_pref'[j] = arrived[e[j]] /\ e[j] \in 1 .. Len(arrived)
        BY <1>2 DEF Burst
    <2>3. e[i] = e[j]
        BY <2>1, <2>2 DEF HoldInv, PlaceInv
    <2>4. (i < j => e[i] < e[j]) /\ (j < i => e[j] < e[i])
        BY <1>2 DEF Burst
    <2>5. e[i] \in Nat /\ e[j] \in Nat
        BY <1>3, <2>2
    <2>6. QED BY <1>3, <2>3, <2>4, <2>5
<1>12. \A i, j \in 1 .. Len(arrived') : arrived'[i] = arrived'[j] => i = j
    <2>1. SUFFICES ASSUME NEW i \in 1 .. Len(arrived) - k, NEW j \in 1 .. Len(arrived) - k,
                          arrived'[i] = arrived'[j]
                   PROVE  i = j
        BY <1>2 DEF Burst
    <2>2. arrived'[i] = arrived[i + k] /\ arrived'[j] = arrived[j + k]
        BY <1>2 DEF Burst
    <2>3. i + k \in 1 .. Len(arrived) /\ j + k \in 1 .. Len(arrived)
        BY <1>3
    <2>4. i + k = j + k
        BY <2>1, <2>2, <2>3 DEF HoldInv, PlaceInv
    <2>5. QED BY <1>3, <2>4
<1>13. PlaceInv'
    <2>1. \A m : Live(m)' <=> Live(m)
        BY <1>1 DEF Live
    <2>2. QED BY <1>9, <1>10, <1>11, <1>12, <2>1 DEF HoldInv, PlaceInv
<1>14. QED BY <1>7, <1>8, <1>13 DEF HoldInv

LEMMA HoldStutter == ASSUME HoldInv, UNCHANGED vars PROVE HoldInv'
<1>1. UNCHANGED <<held, pool, posted, arrived, tx_ring, frame, seen, rx_pref, rx_pref_pos,
                  rx_pref_len, token, at, delivered, TX_ALLOC_FAIL>>
    BY DEF vars, nicvars, rxvars, logs, txcounts
<1>2. DevType' /\ StepInv'
    BY <1>1 DEF HoldInv, DevType, TypeOK, StepInv
<1>3. PlaceInv'
    <2>1. Fetched' = Fetched /\ Ringed' = Ringed
        BY <1>1, SameSets
    <2>2. ASSUME NEW m \in Mbufs PROVE Places(m)' = Places(m)
        BY <1>1, <2>1 DEF Places
    <2>3. QED BY <1>1, <2>2, SameQueues DEF HoldInv
<1>4. QED BY <1>2, <1>3 DEF HoldInv

LEMMA HoldStep == ASSUME HoldInv, [Next]_vars PROVE HoldInv'
<1>1. \/ NicRefill \/ NicReceive \/ NicSent \/ TakeSynth \/ RxBurst \/ TakeFrame \/ Consume
      \/ Transmit \/ (PollStart \/ PollEnd) \/ UNCHANGED vars
    BY DEF Next, Poll
<1>2. QED
    BY <1>1, HoldNicRefill, HoldNicReceive, HoldNicSent, HoldTakeSynth, HoldRxBurst,
       HoldTakeFrame, HoldConsume, HoldTransmit, HoldPoll, HoldStutter

LEMMA Hold == Spec => []HoldInv
BY HoldInit, HoldStep, PTL DEF Spec

\* Every variable of the device keeps its type, and the prefetch position
\* stays within the arrays, for every size of rings, arrays and pool.
THEOREM DeviceTypeOK == Spec => []TypeOK
<1>1. HoldInv => TypeOK
    BY DEF HoldInv, DevType
<1>2. QED BY <1>1, Hold, PTL

\* When receive() and the egress of a poll are done the prefetch arrays are
\* empty, whatever was bad or misrouted in the last burst.
THEOREM DevicePrefetchDrained == Spec => []PrefetchDrained
<1>1. HoldInv => PrefetchDrained
    BY DEF HoldInv, StepInv, PrefetchDrained
<1>2. QED BY <1>1, Hold, PTL

\* Where a list lists nothing twice, an mbuf is on it once or not at all.
LEMMA CountOnce ==
    ASSUME NEW D, NEW f, NEW m, \A i, j \in D : f[i] = f[j] => i = j
    PROVE  Cardinality({i \in D : f[i] = m}) = IF \E i \in D : f[i] = m THEN 1 ELSE 0
<1>1. CASE \E i \in D : f[i] = m
    <2>1. PICK i \in D : f[i] = m
        BY <1>1
    <2>2. {j \in D : f[j] = m} = {i}
        BY <2>1
    <2>3. Cardinality({i}) = 1
        BY FS_Singleton
    <2>4. QED BY <1>1, <2>2, <2>3
<1>2. CASE ~ \E i \in D : f[i] = m
    <2>1. {j \in D : f[j] = m} = {}
        BY <1>2
    <2>2. QED BY <1>2, <2>1, FS_EmptySet
<1>3. QED BY <1>1, <1>2

\* Every mbuf is in exactly one place - pool, ring, array or token - in every
\* reachable state and for any number of mbufs: none leaks, none is freed
\* twice, none is used after it was freed.
THEOREM DeviceOneHolder == Spec => []OneHolder
<1>1. ASSUME HoldInv PROVE OneHolder
    <2>1. SUFFICES ASSUME NEW m \in Mbufs
                   PROVE  Holders(m) = IF m + held <= PoolSize THEN 1 ELSE 0
        BY DEF OneHolder
    <2>2. DOMAIN arrived = 1 .. Len(arrived)
        BY <1>1, LenProperties DEF HoldInv, DevType, TypeOK
    <2>3. Cardinality({i \in DOMAIN arrived : arrived[i] = m}) = One(m \in Ringed)
        <3>1. \A i, j \in 1 .. Len(arrived) : arrived[i] = arrived[j] => i = j
            BY <1>1 DEF HoldInv, PlaceInv
        <3>2. Cardinality({i \in 1 .. Len(arrived) : arrived[i] = m})
                  = IF \E i \in 1 .. Len(arrived) : arrived[i] = m THEN 1 ELSE 0
            BY ONLY <3>1, CountOnce
        <3>3. QED BY <2>2, <3>2 DEF Ringed, One
    <2>4. Cardinality({i \in rx_pref_pos + 1 .. rx_pref_len : rx_pref[i] = m}) = One(m \in Fetched)
        <3>1. \A i, j \in Window : rx_pref[i] = rx_pref[j] => i = j
            BY <1>1 DEF HoldInv, PlaceInv
        <3>2. Cardinality({i \in Window : rx_pref[i] = m})
                  = IF \E i \in Window : rx_pref[i] = m THEN 1 ELSE 0
            BY ONLY <3>1, CountOnce
        <3>3. QED BY <3>2 DEF Fetched, Window, One
    <2>5. Holders(m) = Places(m)
        BY <2>3, <2>4 DEF Holders, Places
    <2>6. QED BY <1>1, <2>5 DEF HoldInv, PlaceInv, Live
<1>2. QED BY <1>1, Hold, PTL

-----------------------------------------------------------------------------
(* The pool is large enough *)

\* The rings hold no more than their descriptors.
RoomInv ==
    /\ Cardinality(posted) + Len(arrived) <= DESC_NUM - 1
    /\ Cardinality(tx_ring) <= DESC_NUM
    /\ NeverExhausted

LEMMA ImageBound ==
    ASSUME NEW D, IsFiniteSet(D), NEW f
    PROVE  /\ IsFiniteSet({f[i] : i \in D}) /\ Cardinality({f[i] : i \in D}) \in Nat
           /\ Cardinality({f[i] : i \in D}) <= Cardinality(D)
<1> DEFINE T == {f[i] : i \in D}
           g == [i \in D |-> f[i]]
<1>1. g \in Surjection(D, T)
    BY DEF Surjection
<1> HIDE DEF T, g
<1>2. IsFiniteSet(T) /\ Cardinality(T) <= Cardinality(D)
    BY <1>1, FS_Surjection
<1>3. Cardinality(T) \in Nat
    BY <1>2, FS_CardinalityType
<1>4. QED BY <1>2, <1>3 DEF T

LEMMA UnionBound ==
    ASSUME NEW S, IsFiniteSet(S), NEW T, IsFiniteSet(T)
    PROVE  /\ IsFiniteSet(S \union T)
           /\ Cardinality(S) \in Nat /\ Cardinality(T) \in Nat /\ Cardinality(S \union T) \in Nat
           /\ Cardinality(S \union T) <= Cardinality(S) + Cardinality(T)
<1>1. /\ IsFiniteSet(S \union T)
      /\ Cardinality(S \union T) = Cardinality(S) + Cardinality(T) - Cardinality(S \intersect T)
    BY FS_Union
<1>2. IsFiniteSet(S \intersect T)
    BY FS_Intersection
<1>3. Cardinality(S) \in Nat /\ Cardinality(T) \in Nat /\ Cardinality(S \intersect T) \in Nat
      /\ Cardinality(S \union T) \in Nat
    BY <1>1, <1>2, FS_CardinalityType
<1>4. QED BY <1>1, <1>3

LEMMA Finite ==
    ASSUME HoldInv
    PROVE  /\ IsFiniteSet(posted) /\ Cardinality(posted) \in Nat
           /\ IsFiniteSet(tx_ring) /\ Cardinality(tx_ring) \in Nat
           /\ Len(arrived) \in Nat
<1>1. 1 \in Int /\ PoolSize \in Int
    BY Sizes
<1>2. IsFiniteSet(Mbufs)
    BY <1>1, FS_Interval DEF Mbufs
<1>3. posted \in SUBSET Mbufs /\ tx_ring \in SUBSET Mbufs /\ Len(arrived) \in Nat
    BY LenProperties DEF HoldInv, DevType, TypeOK
<1>4. IsFiniteSet(posted) /\ IsFiniteSet(tx_ring)
    BY <1>2, <1>3, FS_Subset
<1>5. QED BY <1>3, <1>4, FS_CardinalityType

\* The mbufs in the arrays and in the token together fit into the arrays: a
\* frame is handed out of the arrays.
LEMMA Prefetched ==
    ASSUME HoldInv
    PROVE  /\ IsFiniteSet(Fetched \union ({token} \intersect Mbufs))
           /\ Cardinality(Fetched \union ({token} \intersect Mbufs)) <= RX_BURST
           /\ Cardinality(Fetched \union ({token} \intersect Mbufs)) \in Nat
<1>1. rx_pref_len \in 0 .. RX_BURST /\ rx_pref_pos \in 0 .. rx_pref_len
    BY DEF HoldInv, DevType, TypeOK
<1>2. rx_pref_len \in Int /\ rx_pref_pos + 1 \in Int /\ RX_BURST \in Nat
    BY <1>1, Sizes
<1>3. IsFiniteSet(Window) /\ Cardinality(Window) = rx_pref_len - rx_pref_pos
    <2>1. /\ IsFiniteSet(Window)
          /\ Cardinality(Window) =
                IF rx_pref_pos + 1 > rx_pref_len THEN 0 ELSE rx_pref_len - (rx_pref_pos + 1) + 1
        BY <1>2, FS_Interval DEF Window
    <2>2. QED BY <1>1, <1>2, <2>1
<1>4. IsFiniteSet(Fetched) /\ Cardinality(Fetched) \in Nat
      /\ Cardinality(Fetched) <= rx_pref_len - rx_pref_pos
    BY <1>3, ImageBound DEF Fetched
<1>5. CASE token \in Mbufs
    <2>1. {token} \intersect Mbufs = {token} /\ IsFiniteSet({token}) /\ Cardinality({token}) = 1
        BY <1>5, FS_Singleton
    <2>2. rx_pref_pos >= 1
        BY <1>5 DEF HoldInv, StepInv
    <2>3. /\ IsFiniteSet(Fetched \union {token}) /\ Cardinality(Fetched \union {token}) \in Nat
          /\ Cardinality(Fetched \union {token}) <= Cardinality(Fetched) + 1
        BY <1>4, <2>1, UnionBound
    <2>4. Cardinality(Fetched \union {token}) <= RX_BURST
        BY <1>1, <1>2, <1>4, <2>2, <2>3
    <2>5. QED BY <2>1, <2>3, <2>4
<1>6. CASE token \notin Mbufs
    <2>1. Fetched \union ({token} \intersect Mbufs) = Fetched
        BY <1>6
    <2>2. QED BY <1>1, <1>2, <1>4, <2>1
<1>7. QED BY <1>5, <1>6

\* With no more than CACHE mbufs held back, the pool never runs empty.
LEMMA NotEmpty == ASSUME HoldInv, RoomInv, held <= CACHE PROVE Available # {}
<1> DEFINE L == 1 .. PoolSize - held
           P == Fetched \union ({token} \intersect Mbufs)
<1>1. SUFFICES ASSUME Available = {} PROVE FALSE
    OBVIOUS
<1>2. held \in Nat /\ PoolSize \in Nat /\ PoolSize = DESC_NUM * 2 + CACHE + RX_BURST + SLACK
      /\ DESC_NUM \in Nat /\ CACHE \in Nat /\ RX_BURST \in Nat /\ SLACK \in Nat
    BY Sizes DEF HoldInv, DevType, PoolSize
<1>3. L \subseteq posted \union Ringed \union tx_ring \union P
    <2>1. SUFFICES ASSUME NEW m \in L
                   PROVE  m \in posted \union Ringed \union tx_ring \union P
        OBVIOUS
    <2>2. m \in Mbufs /\ Live(m)
        BY <1>2 DEF Mbufs, Live
    <2>3. pool[m] = 0
        BY <1>1, <2>2, PlaceTypes DEF Available
    <2>4. Places(m) = 1
        BY <2>2 DEF HoldInv, PlaceInv
    <2>5. m \in posted \/ m \in Ringed \/ m \in tx_ring \/ token = m \/ m \in Fetched
        BY <2>3, <2>4 DEF Places, One
    <2>6. QED BY <2>2, <2>5
<1>4. /\ IsFiniteSet(posted) /\ Cardinality(posted) \in Nat
      /\ IsFiniteSet(tx_ring) /\ Cardinality(tx_ring) \in Nat /\ Len(arrived) \in Nat
    BY Finite
<1>5. IsFiniteSet(P) /\ Cardinality(P) \in Nat /\ Cardinality(P) <= RX_BURST
    BY Prefetched
<1>6. IsFiniteSet(Ringed) /\ Cardinality(Ringed) \in Nat /\ Cardinality(Ringed) <= Len(arrived)
    <2>1. 1 \in Int /\ Len(arrived) \in Int
        BY <1>4
    <2>2. IsFiniteSet(1 .. Len(arrived)) /\ Cardinality(1 .. Len(arrived)) = Len(arrived)
        <3>1. /\ IsFiniteSet(1 .. Len(arrived))
              /\ Cardinality(1 .. Len(arrived)) =
                    IF 1 > Len(arrived) THEN 0 ELSE Len(arrived) - 1 + 1
            BY ONLY <2>1, FS_Interval
        <3>2. QED BY ONLY <1>4, <3>1
    <2>3. QED BY <2>2, ImageBound DEF Ringed
<1>7. Cardinality(L) = PoolSize - held
    <2>1. 1 \in Int /\ PoolSize - held \in Int
        BY <1>2
    <2>2. Cardinality(L) = IF 1 > PoolSize - held THEN 0 ELSE PoolSize - held - 1 + 1
        BY <2>1, FS_Interval
    <2>3. held <= PoolSize
        BY <1>2
    <2>4. QED BY <1>2, <2>2, <2>3
<1> HIDE DEF L, P
<1>8. /\ IsFiniteSet(posted \union Ringed) /\ Cardinality(posted \union Ringed) \in Nat
      /\ Cardinality(posted \union Ringed) <= Cardinality(posted) + Cardinality(Ringed)
    BY <1>4, <1>6, UnionBound
<1>9. /\ IsFiniteSet(posted \union Ringed \union tx_ring)
      /\ Cardinality(posted \union Ringed \union tx_ring) \in Nat
      /\ Cardinality(posted \union Ringed \union tx_ring)
            <= Cardinality(posted \union Ringed) + Cardinality(tx_ring)
    BY <1>4, <1>8, UnionBound
<1>10. /\ IsFiniteSet(posted \union Ringed \union tx_ring \union P)
       /\ Cardinality(posted \union Ringed \union tx_ring \union P) \in Nat
       /\ Cardinality(posted \union Ringed \union tx_ring \union P)
            <= Cardinality(posted \union Ringed \union tx_ring) + Cardinality(P)
    BY <1>5, <1>9, UnionBound
<1>11. Cardinality(L) <= Cardinality(posted \union Ringed \union tx_ring \union P)
    BY <1>3, <1>10, FS_Subset
<1>12. /\ Cardinality(posted) + Len(arrived) <= DESC_NUM - 1 /\ Cardinality(tx_ring) <= DESC_NUM
    BY DEF RoomInv
<1>13. QED BY <1>2, <1>4, <1>5, <1>6, <1>7, <1>8, <1>9, <1>10, <1>11, <1>12

LEMMA RoomStep == ASSUME HoldInv, RoomInv, [Next]_vars PROVE RoomInv'
<1>1. /\ IsFiniteSet(posted) /\ Cardinality(posted) \in Nat
      /\ IsFiniteSet(tx_ring) /\ Cardinality(tx_ring) \in Nat /\ Len(arrived) \in Nat
      /\ arrived \in Seq(Mbufs) /\ posted \subseteq Nat /\ tx_ring \subseteq Nat
    BY Finite, Sizes DEF HoldInv, DevType, TypeOK
<1>2. DESC_NUM \in Nat /\ TX_ALLOC_FAIL \in Nat
    BY Sizes DEF HoldInv, DevType
<1>3. CASE NicRefill
    <2>1. PICK t : /\ posted' = posted \union {t} /\ Cardinality(posted) + Len(arrived) < DESC_NUM - 1
                   /\ UNCHANGED <<held, arrived, tx_ring, TX_ALLOC_FAIL>>
        BY <1>3 DEF NicRefill, txcounts
    <2>2. Cardinality(posted') \in {Cardinality(posted), Cardinality(posted) + 1}
        BY <1>1, <2>1, FS_AddElement
    <2>3. QED BY <1>1, <1>2, <2>1, <2>2 DEF RoomInv, NeverExhausted
<1>4. CASE NicReceive
    <2> DEFINE t == Min(posted)
    <2>1. /\ posted # {} /\ posted' = posted \ {t} /\ arrived' = Append(arrived, t)
          /\ UNCHANGED <<held, tx_ring, TX_ALLOC_FAIL>>
        BY <1>4 DEF NicReceive, txcounts
    <2>2. t \in posted
        BY <1>1, <2>1, MinIn
    <2> HIDE DEF t
    <2>3. Cardinality(posted') = Cardinality(posted) - 1
        BY <1>1, <2>1, <2>2, FS_RemoveElement
    <2>4. Len(arrived') = Len(arrived) + 1
        <3>1. t \in Mbufs
            BY <2>2 DEF HoldInv, DevType, TypeOK
        <3>2. QED BY <1>1, <2>1, <3>1, AppendProperties
    <2>5. QED BY <1>1, <1>2, <2>1, <2>3, <2>4 DEF RoomInv, NeverExhausted
<1>5. CASE NicSent
    <2>1. PICK t : tx_ring' = tx_ring \ {t} /\ UNCHANGED <<held, posted, arrived, TX_ALLOC_FAIL>>
        BY <1>5 DEF NicSent, txcounts
    <2>2. Cardinality(tx_ring') \in {Cardinality(tx_ring), Cardinality(tx_ring) - 1}
        BY <1>1, <2>1, FS_RemoveElement
    <2>3. QED BY <1>1, <1>2, <2>1, <2>2 DEF RoomInv, NeverExhausted
<1>6. CASE RxBurst
    <2>1. UNCHANGED <<held, posted, tx_ring, TX_ALLOC_FAIL>>
        BY <1>6, BurstFacts
    <2>2. PICK k, n, e : Burst(k, n, e)
        BY <1>6, BurstFacts
    <2>3. Len(arrived') = Len(arrived) - k /\ k \in Nat
        BY <2>2 DEF Burst
    <2>4. QED BY <1>1, <1>2, <2>1, <2>3 DEF RoomInv, NeverExhausted
<1>7. CASE Transmit
    <2>1. UNCHANGED <<held, posted, arrived>>
        BY <1>7 DEF Transmit
    <2>2. \/ Available = {} /\ UNCHANGED tx_ring
          \/ /\ UNCHANGED TX_ALLOC_FAIL /\ Cardinality(tx_ring) < DESC_NUM
             /\ \E t : tx_ring' = tx_ring \union {t}
          \/ UNCHANGED <<tx_ring, TX_ALLOC_FAIL>>
        BY <1>7 DEF Transmit, txcounts
    <2>3. CASE Available = {} /\ UNCHANGED tx_ring
        <3>1. ~ (held <= CACHE)
            BY <2>3, NotEmpty
        <3>2. QED BY <2>1, <2>3, <3>1 DEF RoomInv, NeverExhausted
    <2>4. CASE /\ UNCHANGED TX_ALLOC_FAIL /\ Cardinality(tx_ring) < DESC_NUM
               /\ \E t : tx_ring' = tx_ring \union {t}
        <3>1. Cardinality(tx_ring') \in {Cardinality(tx_ring), Cardinality(tx_ring) + 1}
            BY <1>1, <2>4, FS_AddElement
        <3>2. QED BY <1>1, <1>2, <2>1, <2>4, <3>1 DEF RoomInv, NeverExhausted
    <2>5. CASE UNCHANGED <<tx_ring, TX_ALLOC_FAIL>>
        BY <2>1, <2>5 DEF RoomInv, NeverExhausted
    <2>6. QED BY <2>2, <2>3, <2>4, <2>5
<1>8. CASE UNCHANGED <<held, posted, arrived, tx_ring, TX_ALLOC_FAIL>>
    BY <1>8 DEF RoomInv, NeverExhausted
<1>9. \/ NicRefill \/ NicReceive \/ NicSent \/ RxBurst \/ Transmit
      \/ UNCHANGED <<held, posted, arrived, tx_ring, TX_ALLOC_FAIL>>
    BY DEF Next, Poll, PollStart, PollEnd, TakeSynth, TakeFrame, Consume, vars, nicvars, txcounts
<1>10. QED BY <1>3, <1>4, <1>5, <1>6, <1>7, <1>8, <1>9

\* "Size for every simultaneous holder": for every size of rings, arrays and
\* caches, with no more than CACHE mbufs held back, no transmission ever finds
\* the pool of probe_and_open empty.
THEOREM DeviceNeverExhausted == Spec => []NeverExhausted
<1>1. ASSUME Init PROVE RoomInv
    <2>1. posted = {} /\ tx_ring = {} /\ Len(arrived) = 0 /\ TX_ALLOC_FAIL = 0
        BY <1>1 DEF Init
    <2>2. Cardinality({}) = 0 /\ DESC_NUM \in Nat \ {0}
        BY FS_EmptySet, Sizes
    <2>3. QED BY <2>1, <2>2 DEF RoomInv, NeverExhausted
<1>2. RoomInv => NeverExhausted
    BY DEF RoomInv
<1>3. QED BY <1>1, <1>2, RoomStep, Hold, PTL DEF Spec

-----------------------------------------------------------------------------
(* Frames in order *)

\* The numbers of the frames in the arrays and on the ring.
InArrays(i) == frame[rx_pref[i]].n
OnRing(i) == frame[arrived[i]].n

Given == {delivered[i] : i \in 1 .. Len(delivered)}
InArraysAll == {InArrays(i) : i \in Window}
OnRingAll == {OnRing(i) : i \in 1 .. Len(arrived)}

\* Handed out, then in the arrays, then on the ring: each part in order, and
\* no frame of a part before one of an earlier part.
OrderInv ==
    /\ \A i, j \in 1 .. Len(delivered) : i < j => delivered[i] < delivered[j]
    /\ \A i, j \in Window : i < j => InArrays(i) < InArrays(j)
    /\ \A i, j \in 1 .. Len(arrived) : i < j => OnRing(i) < OnRing(j)
    /\ \A x \in Given : \A y \in InArraysAll \union OnRingAll : x < y
    /\ \A x \in InArraysAll : \A y \in OnRingAll : x < y
    /\ Given \union InArraysAll \union OnRingAll \union dropped = 1 .. seen

\* Frames nobody wipes or overwrites keep their numbers.
LEMMA OrderKept ==
    ASSUME HoldInv, OrderInv,
           UNCHANGED <<arrived, rx_pref, rx_pref_pos, rx_pref_len, delivered, dropped, seen>>,
           \A m \in Fetched \union Ringed : frame'[m] = frame[m]
    PROVE  OrderInv'
<1>1. Window' = Window
    BY DEF Window
<1>2. \A i \in Window : InArrays(i)' = InArrays(i)
    BY DEF InArrays, Fetched
<1>3. \A i \in 1 .. Len(arrived) : OnRing(i)' = OnRing(i)
    BY DEF OnRing, Ringed
<1>4. Given' = Given /\ InArraysAll' = InArraysAll /\ OnRingAll' = OnRingAll
    BY <1>1, <1>2, <1>3 DEF Given, InArraysAll, OnRingAll
<1>5. QED BY <1>1, <1>2, <1>3, <1>4 DEF OrderInv

LEMMA HeldMbufs ==
    ASSUME HoldInv
    PROVE  /\ Fetched \subseteq Mbufs /\ Ringed \subseteq Mbufs
           /\ token \notin Fetched /\ token \notin Ringed
           /\ posted \intersect (Fetched \union Ringed) = {} /\ Fetched \intersect Ringed = {}
<1>1. Fetched \subseteq Mbufs
    BY DEF HoldInv, PlaceInv, Fetched
<1>2. Ringed \subseteq Mbufs
    BY ElementOfSeq DEF HoldInv, DevType, TypeOK, Ringed
<1>3. ASSUME NEW m \in Mbufs
      PROVE  /\ token = m => m \notin Fetched /\ m \notin Ringed
             /\ m \in posted => m \notin Fetched /\ m \notin Ringed
             /\ m \in Ringed => m \notin Fetched
    BY PlaceTypes DEF Places, One
<1>4. QED BY <1>1, <1>2, <1>3

LEMMA OrderNicReceive == ASSUME HoldInv, OrderInv, NicReceive PROVE OrderInv'
<1> DEFINE t == Min(posted)
<1>1. t \in posted /\ t \in Mbufs
    <2>1. posted \subseteq Mbufs /\ posted # {}
        BY DEF NicReceive, HoldInv, DevType, TypeOK
    <2>2. posted \subseteq Nat
        BY <2>1, Sizes
    <2>3. QED BY <2>1, <2>2, MinIn
<1>2. PICK k \in Kinds :
      /\ arrived' = Append(arrived, t)
      /\ frame' = [frame EXCEPT ![t] = [n |-> seen + 1, kind |-> k]]
      /\ seen' = seen + 1
      /\ UNCHANGED <<rx_pref, rx_pref_pos, rx_pref_len, delivered, dropped>>
    BY DEF NicReceive, rxvars, logs
<1> HIDE DEF t
<1>3. t \notin Fetched /\ t \notin Ringed
    BY <1>1, HeldMbufs
<1>4. /\ arrived \in Seq(Mbufs) /\ Len(arrived) \in Nat /\ seen \in Nat
      /\ frame \in [Mbufs -> [n : 0 .. MaxFrames, kind : Kinds]]
    BY LenProperties, Sizes DEF HoldInv, DevType, TypeOK
<1>5. /\ Len(arrived') = Len(arrived) + 1
      /\ \A i \in 1 .. Len(arrived) : arrived'[i] = arrived[i]
      /\ arrived'[Len(arrived) + 1] = t
    BY <1>1, <1>2, <1>4, AppendProperties
<1>6. \A m \in Mbufs : m # t => frame'[m] = frame[m]
    BY <1>2, <1>4
<1>7. Window' = Window /\ \A i \in Window : InArrays(i)' = InArrays(i)
    <2>1. Window' = Window
        BY <1>2 DEF Window
    <2>2. \A i \in Window : rx_pref[i] \in Mbufs /\ rx_pref[i] # t
        BY <1>3, HeldMbufs DEF Fetched
    <2>3. QED BY <1>2, <1>6, <2>1, <2>2 DEF InArrays
<1>8. \A i \in 1 .. Len(arrived) : OnRing(i)' = OnRing(i)
    <2>1. \A i \in 1 .. Len(arrived) : arrived[i] \in Mbufs /\ arrived[i] # t
        BY <1>3, HeldMbufs DEF Ringed
    <2>2. QED BY <1>5, <1>6, <2>1 DEF OnRing
<1>9. PICK z \in Nat : z = Len(arrived) + 1
    BY <1>4
<1>10. OnRing(z)' = seen + 1 /\ 1 .. Len(arrived') = 1 .. Len(arrived) \union {z}
    <2>1. (frame'[arrived'[z]]).n = seen + 1
        BY <1>1, <1>2, <1>4, <1>5, <1>9
    <2>2. 1 .. Len(arrived') = 1 .. Len(arrived) \union {z}
        BY <1>4, <1>5, <1>9
    <2>3. QED BY <2>1, <2>2 DEF OnRing
<1>11. Given' = Given /\ InArraysAll' = InArraysAll /\ OnRingAll' = OnRingAll \union {seen + 1}
    <2>1. Given' = Given /\ InArraysAll' = InArraysAll
        BY <1>2, <1>7 DEF Given, InArraysAll
    <2>2. OnRingAll' = OnRingAll \union {seen + 1}
        BY <1>8, <1>10 DEF OnRingAll
    <2>3. QED BY <2>1, <2>2
<1>12. \A x \in Given \union InArraysAll \union OnRingAll : x \in Nat /\ x < seen + 1
    <2>1. \A x \in 1 .. seen : x \in Nat /\ x < seen + 1
        BY <1>4
    <2>2. Given \union InArraysAll \union OnRingAll \subseteq 1 .. seen
        BY DEF OrderInv
    <2>3. QED BY <2>1, <2>2
<1>13. \A i, j \in 1 .. Len(arrived') : i < j => OnRing(i)' < OnRing(j)'
    <2>1. SUFFICES ASSUME NEW i \in 1 .. Len(arrived'), NEW j \in 1 .. Len(arrived'), i < j
                   PROVE  OnRing(i)' < OnRing(j)'
        OBVIOUS
    <2>2. i \in 1 .. Len(arrived) /\ (j \in 1 .. Len(arrived) \/ j = z)
        BY <1>4, <1>5, <1>9, <2>1
    <2>3. OnRing(i)' = OnRing(i) /\ OnRing(i) \in OnRingAll
        BY <1>8, <2>2 DEF OnRingAll
    <2>4. CASE j \in 1 .. Len(arrived)
        <3>1. OnRing(i) < OnRing(j) /\ OnRing(j)' = OnRing(j)
            BY <1>8, <2>1, <2>2, <2>4 DEF OrderInv
        <3>2. QED BY <2>3, <3>1
    <2>5. CASE j = z
        BY <1>10, <1>12, <2>3, <2>5
    <2>6. QED BY <2>2, <2>4, <2>5
<1>14. \A i, j \in Window' : i < j => InArrays(i)' < InArrays(j)'
    BY <1>7 DEF OrderInv
<1>15. Given' \union InArraysAll' \union OnRingAll' \union dropped' = 1 .. seen'
    <2>1. 1 .. seen' = 1 .. seen \union {seen + 1}
        BY <1>2, <1>4
    <2>2. QED BY <1>2, <1>11, <2>1 DEF OrderInv
<1>16. /\ \A x \in Given' : \A y \in InArraysAll' \union OnRingAll' : x < y
       /\ \A x \in InArraysAll' : \A y \in OnRingAll' : x < y
    BY <1>11, <1>12 DEF OrderInv
<1>17. \A i, j \in 1 .. Len(delivered') : i < j => delivered'[i] < delivered'[j]
    BY <1>2 DEF OrderInv
<1>18. QED BY <1>13, <1>14, <1>15, <1>16, <1>17 DEF OrderInv

LEMMA OrderRxBurst == ASSUME HoldInv, OrderInv, RxBurst PROVE OrderInv'
<1>1. UNCHANGED <<seen, delivered>>
    BY BurstFacts
<1>2. PICK k, n, e : Burst(k, n, e)
    BY BurstFacts
<1>3. /\ k \in Nat /\ n \in Nat /\ Len(arrived) \in Nat /\ k <= Len(arrived)
      /\ Window = {} /\ Window' = 1 .. n
      /\ Fetched' = {arrived[i] : i \in Good(k)}
      /\ Ringed' = {arrived[i] : i \in k + 1 .. Len(arrived)}
      /\ Ringed = Fetched' \union Ringed' \union Bad(k)
      /\ Fetched' \intersect Bad(k) = {} /\ Bad(k) \intersect Ringed' = {}
    BY <1>2, BurstParts
<1>4. /\ Good(k) \subseteq 1 .. Len(arrived)
      /\ e \in [1 .. n -> Good(k)] /\ (\A s \in Good(k) : \E i \in 1 .. n : e[i] = s)
      /\ \A i, j \in 1 .. n : i < j => e[i] < e[j]
      /\ Len(arrived') = Len(arrived) - k
      /\ \A i \in 1 .. Len(arrived) - k : arrived'[i] = arrived[i + k]
      /\ frame' = Wiped(Bad(k))
      /\ dropped' = dropped \union {frame[m].n : m \in Bad(k)}
      /\ \A i \in 1 .. n : rx_pref'[i] = arrived[e[i]]
    BY <1>2 DEF Burst
<1>5. \A m \in Fetched' \union Ringed' : frame'[m] = frame[m]
    <2>1. \A m \in Fetched' \union Ringed' : m \in Mbufs /\ m \notin Bad(k)
        BY <1>3, HeldMbufs
    <2>2. \A m \in Mbufs : m \notin Bad(k) => Wiped(Bad(k))[m] = frame[m]
        BY FreedAt DEF HoldInv
    <2>3. QED BY <1>4, <2>1, <2>2
<1>6. ASSUME NEW i \in 1 .. n
      PROVE  /\ e[i] \in Good(k) /\ e[i] \in 1 .. Len(arrived) /\ e[i] \in 1 .. k
             /\ InArrays(i)' = OnRing(e[i])
    <2>1. e[i] \in Good(k) /\ e[i] \in 1 .. Len(arrived) /\ rx_pref'[i] = arrived[e[i]]
        BY <1>4
    <2>2. arrived[e[i]] \in Fetched'
        BY <1>3, <2>1
    <2>3. frame'[rx_pref'[i]] = frame[arrived[e[i]]]
        BY <1>5, <2>1, <2>2
    <2>4. QED BY <2>1, <2>3 DEF InArrays, OnRing, Good
<1>7. ASSUME NEW i \in 1 .. Len(arrived')
      PROVE  i + k \in k + 1 .. Len(arrived) /\ OnRing(i)' = OnRing(i + k)
    <2>1. i \in 1 .. Len(arrived) - k /\ i + k \in k + 1 .. Len(arrived)
        BY <1>3, <1>4
    <2>2. arrived'[i] = arrived[i + k] /\ arrived[i + k] \in Ringed'
        BY <1>3, <1>4, <2>1
    <2>3. frame'[arrived'[i]] = frame[arrived[i + k]]
        BY <1>5, <2>2
    <2>4. QED BY <2>1, <2>3 DEF OnRing
<1>8. \A i, j \in 1 .. Len(arrived) : i < j => OnRing(i) < OnRing(j)
    BY DEF OrderInv
<1>9. \A i, j \in Window' : i < j => InArrays(i)' < InArrays(j)'
    <2>1. SUFFICES ASSUME NEW i \in 1 .. n, NEW j \in 1 .. n, i < j
                   PROVE  InArrays(i)' < InArrays(j)'
        BY <1>3
    <2>2. OnRing(e[i]) < OnRing(e[j])
        BY <1>4, <1>6, <1>8, <2>1
    <2>3. QED BY <1>6, <2>2
<1>10. \A i, j \in 1 .. Len(arrived') : i < j => OnRing(i)' < OnRing(j)'
    <2>1. SUFFICES ASSUME NEW i \in 1 .. Len(arrived'), NEW j \in 1 .. Len(arrived'), i < j
                   PROVE  OnRing(i)' < OnRing(j)'
        OBVIOUS
    <2>2. i \in Nat /\ j \in Nat
        BY <1>3, <1>4
    <2>3. i + k \in 1 .. Len(arrived) /\ j + k \in 1 .. Len(arrived) /\ i + k < j + k
        BY <1>3, <1>7, <2>1, <2>2
    <2>4. OnRing(i + k) < OnRing(j + k)
        BY <1>8, <2>3
    <2>5. QED BY <1>7, <2>4
<1>11. Given' = Given /\ InArraysAll = {}
    BY <1>1, <1>3 DEF Given, InArraysAll
<1>12. InArraysAll' = {OnRing(i) : i \in Good(k)}
    <2>1. InArraysAll' = {InArrays(i)' : i \in 1 .. n}
        BY <1>3 DEF InArraysAll
    <2>2. ASSUME NEW s \in Good(k) PROVE OnRing(s) \in InArraysAll'
        <3>1. PICK i \in 1 .. n : e[i] = s
            BY <1>4
        <3>2. QED BY <1>6, <2>1, <3>1
    <2>3. ASSUME NEW x \in InArraysAll' PROVE x \in {OnRing(i) : i \in Good(k)}
        BY <1>6, <2>1
    <2>4. QED BY <2>2, <2>3
<1>13. OnRingAll' = {OnRing(i) : i \in k + 1 .. Len(arrived)}
    <2>1. OnRingAll' = {OnRing(i)' : i \in 1 .. Len(arrived')}
        BY DEF OnRingAll
    <2>2. ASSUME NEW s \in k + 1 .. Len(arrived) PROVE OnRing(s) \in OnRingAll'
        <3>1. s - k \in 1 .. Len(arrived') /\ (s - k) + k = s
            BY <1>3, <1>4
        <3>2. PICK i \in 1 .. Len(arrived') : i + k = s
            BY <3>1
        <3>3. QED BY <1>7, <2>1, <3>2
    <2>3. ASSUME NEW x \in OnRingAll' PROVE x \in {OnRing(i) : i \in k + 1 .. Len(arrived)}
        BY <1>7, <2>1
    <2>4. QED BY <2>2, <2>3
<1>14. InArraysAll' \subseteq OnRingAll /\ OnRingAll' \subseteq OnRingAll
    <2>1. k + 1 .. Len(arrived) \subseteq 1 .. Len(arrived)
        BY <1>3
    <2>2. QED BY <1>4, <1>12, <1>13, <2>1 DEF OnRingAll
<1>15. \A x \in Given' : \A y \in InArraysAll' \union OnRingAll' : x < y
    BY <1>11, <1>14 DEF OrderInv
<1>16. \A x \in InArraysAll' : \A y \in OnRingAll' : x < y
    <2>1. SUFFICES ASSUME NEW i \in Good(k), NEW j \in k + 1 .. Len(arrived)
                   PROVE  OnRing(i) < OnRing(j)
        BY <1>12, <1>13
    <2>2. i \in 1 .. Len(arrived) /\ j \in 1 .. Len(arrived) /\ i < j
        BY <1>3 DEF Good
    <2>3. QED BY <1>8, <2>2
<1>17. Given' \union InArraysAll' \union OnRingAll' \union dropped' = 1 .. seen'
    <2>1. {frame[m].n : m \in Bad(k)} = {OnRing(i) : i \in (1 .. k) \ Good(k)}
        BY DEF Bad, OnRing
    <2>2. 1 .. Len(arrived) = Good(k) \union (k + 1 .. Len(arrived)) \union ((1 .. k) \ Good(k))
        BY <1>3 DEF Good
    <2>3. OnRingAll = InArraysAll' \union OnRingAll' \union {frame[m].n : m \in Bad(k)}
        BY <1>12, <1>13, <2>1, <2>2 DEF OnRingAll
    <2>4. Given \union InArraysAll \union OnRingAll \union dropped = 1 .. seen
        BY DEF OrderInv
    <2>5. QED BY <1>1, <1>4, <1>11, <2>3, <2>4
<1>18. \A i, j \in 1 .. Len(delivered') : i < j => delivered'[i] < delivered'[j]
    BY <1>1 DEF OrderInv
<1>19. QED BY <1>9, <1>10, <1>15, <1>16, <1>17, <1>18 DEF OrderInv

LEMMA OrderTakeFrame == ASSUME HoldInv, OrderInv, TakeFrame PROVE OrderInv'
<1> DEFINE p == rx_pref_pos + 1
           t == rx_pref[p]
<1>1. /\ p \in Window /\ t \in Mbufs /\ t \in Fetched
      /\ Window' = Window \ {p} /\ Fetched' = Fetched \ {t}
    BY FirstEntry
<1>2. /\ UNCHANGED <<arrived, seen, rx_pref>>
    BY DEF TakeFrame
<1>3. \/ /\ frame' = Wiped({t}) /\ dropped' = dropped \union {frame[t].n} /\ UNCHANGED delivered
      \/ /\ delivered' = Append(delivered, frame[t].n) /\ UNCHANGED <<frame, dropped>>
    BY DEF TakeFrame
<1>4. \A i \in Window : p <= i
    BY Sizes DEF HoldInv, DevType, TypeOK, Window
<1>5. \A i \in Window : i \in Nat
    BY Sizes DEF HoldInv, DevType, TypeOK, Window
<1>6. frame[t].n = InArrays(p)
    BY DEF InArrays
<1> HIDE DEF p, t
<1>7. \A m \in Fetched' \union Ringed : frame'[m] = frame[m]
    <2>1. \A m \in Fetched' \union Ringed : m \in Mbufs /\ m \notin {t}
        BY <1>1, HeldMbufs
    <2>2. \A m \in Mbufs : m \notin {t} => Wiped({t})[m] = frame[m]
        BY FreedAt DEF HoldInv
    <2>3. QED BY <1>3, <2>1, <2>2
<1>8. \A i \in Window' : InArrays(i)' = InArrays(i)
    <2>1. \A i \in Window' : rx_pref'[i] \in Fetched' /\ rx_pref'[i] = rx_pref[i]
        BY <1>2 DEF Fetched
    <2>2. QED BY <1>7, <2>1 DEF InArrays
<1>9. \A i \in 1 .. Len(arrived) : OnRing(i)' = OnRing(i)
    <2>1. \A i \in 1 .. Len(arrived) : arrived[i] \in Ringed
        BY DEF Ringed
    <2>2. QED BY <1>2, <1>7, <2>1 DEF OnRing
<1>10. OnRingAll' = OnRingAll
    BY <1>2, <1>9 DEF OnRingAll
<1>11. InArraysAll = InArraysAll' \union {InArrays(p)}
    <2>1. InArraysAll' = {InArrays(i) : i \in Window \ {p}}
        BY <1>1, <1>8 DEF InArraysAll
    <2>2. QED BY <1>1, <2>1 DEF InArraysAll
<1>12. \A y \in InArraysAll' : InArrays(p) < y
    <2>1. SUFFICES ASSUME NEW i \in Window, i # p PROVE InArrays(p) < InArrays(i)
        BY <1>1, <1>8 DEF InArraysAll
    <2>2. p < i
        BY <1>1, <1>4, <1>5, <2>1
    <2>3. QED BY <1>1, <2>1, <2>2 DEF OrderInv
<1>13. \A i, j \in Window' : i < j => InArrays(i)' < InArrays(j)'
    BY <1>1, <1>8 DEF OrderInv
<1>14. \A i, j \in 1 .. Len(arrived') : i < j => OnRing(i)' < OnRing(j)'
    BY <1>2, <1>9 DEF OrderInv
<1>15. \A x \in InArraysAll' : \A y \in OnRingAll' : x < y
    BY <1>10, <1>11 DEF OrderInv
<1>16. delivered \in Seq(Nat) /\ Len(delivered) \in Nat
    BY LenProperties DEF HoldInv, DevType
<1>17. frame[t].n \in Nat
    BY <1>1, Sizes DEF HoldInv, DevType, TypeOK
<1>18. CASE UNCHANGED delivered
    <2>1. Given' = Given
        BY <1>18 DEF Given
    <2>2. dropped' = dropped \union {InArrays(p)}
        <3>1. delivered # Append(delivered, frame[t].n)
            <4>1. Len(Append(delivered, frame[t].n)) = Len(delivered) + 1
                BY <1>16, <1>17, AppendProperties
            <4>2. Len(delivered) # Len(delivered) + 1
                BY <1>16
            <4>3. QED BY <4>1, <4>2
        <3>2. QED BY <1>3, <1>6, <1>18, <3>1
    <2>3. Given' \union InArraysAll' \union OnRingAll' \union dropped' = 1 .. seen'
        BY <1>2, <1>10, <1>11, <2>1, <2>2 DEF OrderInv
    <2>4. \A x \in Given' : \A y \in InArraysAll' \union OnRingAll' : x < y
        BY <1>10, <1>11, <2>1 DEF OrderInv
    <2>5. \A i, j \in 1 .. Len(delivered') : i < j => delivered'[i] < delivered'[j]
        BY <1>18 DEF OrderInv
    <2>6. QED BY <1>13, <1>14, <1>15, <2>3, <2>4, <2>5 DEF OrderInv
<1>19. CASE delivered' = Append(delivered, frame[t].n) /\ UNCHANGED <<frame, dropped>>
    <2>1. /\ Len(delivered') = Len(delivered) + 1
          /\ \A i \in 1 .. Len(delivered) : delivered'[i] = delivered[i]
          /\ delivered'[Len(delivered) + 1] = InArrays(p)
        BY <1>6, <1>16, <1>17, <1>19, AppendProperties
    <2>2. 1 .. Len(delivered') = 1 .. Len(delivered) \union {Len(delivered) + 1}
        BY <1>16, <2>1
    <2>3. Given' = Given \union {InArrays(p)}
        BY <2>1, <2>2 DEF Given
    <2>4. Given' \union InArraysAll' \union OnRingAll' \union dropped' = 1 .. seen'
        BY <1>2, <1>10, <1>11, <1>19, <2>3 DEF OrderInv
    <2>5. \A x \in Given' : \A y \in InArraysAll' \union OnRingAll' : x < y
        BY <1>10, <1>11, <1>12, <2>3 DEF OrderInv
    <2>6. \A i, j \in 1 .. Len(delivered') : i < j => delivered'[i] < delivered'[j]
        <3>1. SUFFICES ASSUME NEW i \in 1 .. Len(delivered'), NEW j \in 1 .. Len(delivered'), i < j
                       PROVE  delivered'[i] < delivered'[j]
            OBVIOUS
        <3>2. i \in 1 .. Len(delivered)
              /\ (j \in 1 .. Len(delivered) \/ j = Len(delivered) + 1)
            BY <1>16, <2>1, <3>1
        <3>3. CASE j \in 1 .. Len(delivered)
            BY <2>1, <3>1, <3>2, <3>3 DEF OrderInv
        <3>4. CASE j = Len(delivered) + 1
            <4>1. delivered[i] \in Given /\ InArrays(p) \in InArraysAll
                BY <1>11, <3>2 DEF Given
            <4>2. delivered[i] < InArrays(p)
                BY <4>1 DEF OrderInv
            <4>3. QED BY <2>1, <3>2, <3>4, <4>2
        <3>5. QED BY <3>2, <3>3, <3>4
    <2>7. QED BY <1>13, <1>14, <1>15, <2>4, <2>5, <2>6 DEF OrderInv
<1>20. QED BY <1>3, <1>18, <1>19

LEMMA OrderConsume == ASSUME HoldInv, OrderInv, Consume PROVE OrderInv'
<1>1. /\ frame' = Wiped({token})
      /\ UNCHANGED <<arrived, rx_pref, rx_pref_pos, rx_pref_len, delivered, dropped, seen>>
    BY DEF Consume, rxvars, logs
<1>2. \A m \in Fetched \union Ringed : m \in Mbufs /\ m \notin {token}
    BY HeldMbufs
<1>3. \A m \in Mbufs : m \notin {token} => Wiped({token})[m] = frame[m]
    BY FreedAt DEF HoldInv
<1>4. \A m \in Fetched \union Ringed : frame'[m] = frame[m]
    BY <1>1, <1>2, <1>3
<1>5. QED BY <1>1, <1>4, OrderKept

LEMMA OrderStep == ASSUME HoldInv, OrderInv, [Next]_vars PROVE OrderInv'
<1>1. \/ NicReceive \/ RxBurst \/ TakeFrame \/ Consume
      \/ UNCHANGED <<arrived, rx_pref, rx_pref_pos, rx_pref_len, delivered, dropped, seen, frame>>
    BY DEF Next, Poll, NicRefill, NicSent, TakeSynth, Transmit, PollStart, PollEnd, vars, nicvars,
           rxvars, logs
<1>2. CASE UNCHANGED <<arrived, rx_pref, rx_pref_pos, rx_pref_len, delivered, dropped, seen, frame>>
    BY <1>2, OrderKept
<1>3. QED BY <1>1, <1>2, OrderNicReceive, OrderRxBurst, OrderTakeFrame, OrderConsume

\* Three lists, each in order and each before the next, are in order when put
\* together.
LEMMA ThreeParts ==
    ASSUME NEW d \in Seq(Nat), NEW w \in Seq(Nat), NEW r \in Seq(Nat),
           \A i, j \in 1 .. Len(d) : i < j => d[i] < d[j],
           \A i, j \in 1 .. Len(w) : i < j => w[i] < w[j],
           \A i, j \in 1 .. Len(r) : i < j => r[i] < r[j],
           \A i \in 1 .. Len(d) : \A j \in 1 .. Len(w) : d[i] < w[j],
           \A i \in 1 .. Len(d) : \A j \in 1 .. Len(r) : d[i] < r[j],
           \A i \in 1 .. Len(w) : \A j \in 1 .. Len(r) : w[i] < r[j]
    PROVE  LET s == d \o (w \o r)
           IN  /\ \A i \in 1 .. Len(s) - 1 : s[i] < s[i + 1]
               /\ {s[i] : i \in DOMAIN s} = {d[i] : i \in 1 .. Len(d)} \union
                     {w[i] : i \in 1 .. Len(w)} \union {r[i] : i \in 1 .. Len(r)}
<1> DEFINE v == w \o r
           s == d \o v
           a == Len(d)
           b == Len(w)
           c == Len(r)
<1>1. a \in Nat /\ b \in Nat /\ c \in Nat
    BY LenProperties
<1>2. /\ v \in Seq(Nat) /\ Len(v) = b + c
      /\ \A i \in 1 .. b + c : v[i] = IF i <= b THEN w[i] ELSE r[i - b]
    BY ConcatProperties
<1> HIDE DEF v
<1>3. /\ s \in Seq(Nat) /\ Len(s) = a + Len(v)
      /\ \A i \in 1 .. a + Len(v) : s[i] = IF i <= a THEN d[i] ELSE v[i - a]
    BY <1>2, ConcatProperties
<1> HIDE DEF s
<1>4. \A i \in 1 .. a : s[i] = d[i]
    BY <1>1, <1>2, <1>3
<1>5. \A i \in 1 .. b : s[a + i] = w[i]
    <2>1. SUFFICES ASSUME NEW i \in 1 .. b PROVE s[a + i] = w[i]
        OBVIOUS
    <2>2. a + i \in 1 .. a + Len(v) /\ ~ (a + i <= a) /\ (a + i) - a = i
        BY <1>1, <1>2
    <2>3. s[a + i] = v[i]
        BY <1>3, <2>2
    <2>4. v[i] = w[i]
        BY <1>1, <1>2
    <2>5. QED BY <2>3, <2>4
<1>6. \A i \in 1 .. c : s[a + b + i] = r[i]
    <2>1. SUFFICES ASSUME NEW i \in 1 .. c PROVE s[a + b + i] = r[i]
        OBVIOUS
    <2>2. a + b + i \in 1 .. a + Len(v) /\ ~ (a + b + i <= a) /\ (a + b + i) - a = b + i
        BY <1>1, <1>2
    <2>3. s[a + b + i] = v[b + i]
        BY <1>3, <2>2
    <2>4. b + i \in 1 .. b + c /\ ~ (b + i <= b) /\ (b + i) - b = i
        BY <1>1
    <2>5. v[b + i] = r[i]
        BY <1>2, <2>4
    <2>6. QED BY <2>3, <2>5
<1>7. Len(s) = a + b + c /\ DOMAIN s = 1 .. a + b + c
    BY <1>1, <1>2, <1>3, LenProperties
<1>8. \A i \in 1 .. a + b + c :
          \/ i \in 1 .. a
          \/ \E j \in 1 .. b : i = a + j
          \/ \E j \in 1 .. c : i = a + b + j
    <2>1. SUFFICES ASSUME NEW i \in 1 .. a + b + c
                   PROVE  \/ i \in 1 .. a
                          \/ \E j \in 1 .. b : i = a + j
                          \/ \E j \in 1 .. c : i = a + b + j
        OBVIOUS
    <2>2. CASE i <= a
        BY <1>1, <2>2
    <2>3. CASE i > a /\ i <= a + b
        <3>1. i - a \in 1 .. b /\ i = a + (i - a)
            BY <1>1, <2>3
        <3>2. QED BY <3>1
    <2>4. CASE i > a + b
        <3>1. i - (a + b) \in 1 .. c /\ i = a + b + (i - (a + b))
            BY <1>1, <2>4
        <3>2. QED BY <3>1
    <2>5. QED BY <1>1, <2>2, <2>3, <2>4
<1>9. {s[i] : i \in DOMAIN s} = {d[i] : i \in 1 .. a} \union {w[i] : i \in 1 .. b} \union
         {r[i] : i \in 1 .. c}
    <2>1. /\ \A i \in 1 .. a : i \in DOMAIN s
          /\ \A i \in 1 .. b : a + i \in DOMAIN s
          /\ \A i \in 1 .. c : a + b + i \in DOMAIN s
        BY <1>1, <1>7
    <2>2. ASSUME NEW i \in DOMAIN s
          PROVE  s[i] \in {d[j] : j \in 1 .. a} \union {w[j] : j \in 1 .. b} \union
                    {r[j] : j \in 1 .. c}
        <3>1. i \in 1 .. a + b + c
            BY <1>7
        <3> HIDE DEF a, b, c
        <3>2. CASE i \in 1 .. a
            BY <1>4, <3>2
        <3>3. CASE \E j \in 1 .. b : i = a + j
            BY <1>5, <3>3
        <3>4. CASE \E j \in 1 .. c : i = a + b + j
            BY <1>6, <3>4
        <3>5. QED BY <1>8, <3>1, <3>2, <3>3, <3>4
    <2> HIDE DEF a, b, c
    <2>3. {d[i] : i \in 1 .. a} \subseteq {s[i] : i \in DOMAIN s}
        BY <1>4, <2>1
    <2>4. {w[i] : i \in 1 .. b} \subseteq {s[i] : i \in DOMAIN s}
        BY <1>5, <2>1
    <2>5. {r[i] : i \in 1 .. c} \subseteq {s[i] : i \in DOMAIN s}
        BY <1>6, <2>1
    <2>6. QED BY <2>2, <2>3, <2>4, <2>5
<1>10. ASSUME NEW i \in 1 .. Len(s) - 1 PROVE s[i] < s[i + 1]
    <2>1. i \in 1 .. a + b + c /\ i + 1 \in 1 .. a + b + c /\ i \in Nat
        BY <1>1, <1>7
    <2>2. CASE i \in 1 .. a
        <3>1. CASE i + 1 \in 1 .. a
            BY <1>1, <1>4, <2>1, <2>2, <3>1
        <3>2. CASE \E j \in 1 .. b : i + 1 = a + j
            BY <1>4, <1>5, <2>2, <3>2
        <3>3. CASE \E j \in 1 .. c : i + 1 = a + b + j
            BY <1>4, <1>6, <2>2, <3>3
        <3>4. QED BY <1>8, <2>1, <3>1, <3>2, <3>3
    <2>3. CASE \E j \in 1 .. b : i = a + j
        <3>1. PICK j \in 1 .. b : i = a + j
            BY <2>3
        <3>2. CASE j + 1 \in 1 .. b
            <4>1. s[i] = w[j] /\ s[a + (j + 1)] = w[j + 1] /\ i + 1 = a + (j + 1) /\ j < j + 1
                BY <1>1, <1>5, <3>1, <3>2
            <4>2. w[j] < w[j + 1]
                BY <3>2, <4>1
            <4>3. QED BY <4>1, <4>2
        <3>3. CASE j + 1 \notin 1 .. b
            <4>1. j = b /\ 1 \in 1 .. c /\ i + 1 = a + b + 1
                <5> HIDE DEF a, b, c
                <5>1. j \in Nat /\ 1 <= j /\ j <= b /\ ~ (j + 1 <= b)
                    BY <1>1, <3>1, <3>3
                <5>2. j = b
                    BY <1>1, <5>1
                <5>3. i + 1 = a + b + 1 /\ i + 1 <= a + b + c
                    BY <1>1, <2>1, <3>1, <5>2
                <5>4. QED BY <1>1, <5>2, <5>3
            <4>2. s[i] = w[j] /\ s[a + b + 1] = r[1]
                BY <1>5, <1>6, <3>1, <4>1
            <4>3. w[j] < r[1]
                BY <4>1
            <4>4. QED BY <4>1, <4>2, <4>3
        <3>4. QED BY <3>2, <3>3
    <2>4. CASE \E j \in 1 .. c : i = a + b + j
        <3>1. PICK j \in 1 .. c : i = a + b + j
            BY <2>4
        <3>2. j + 1 \in 1 .. c /\ i + 1 = a + b + (j + 1) /\ j < j + 1
            BY <1>1, <2>1, <3>1
        <3>3. s[i] = r[j] /\ s[a + b + (j + 1)] = r[j + 1] /\ r[j] < r[j + 1]
            BY <1>6, <3>1, <3>2
        <3>4. QED BY <3>2, <3>3
    <2>5. QED BY <1>8, <2>1, <2>2, <2>3, <2>4
<1>11. QED BY <1>9, <1>10 DEF s, v

\* smoltcp is given the frames in the order they arrived and each of them
\* once, for any burst size and any number of frames: what was handed out,
\* what is in the arrays and what is on the ring are one increasing sequence,
\* and with the frames dropped on purpose it is every frame there was.
THEOREM DeviceFramesInOrder == Spec => []FramesInOrder
<1>1. ASSUME Init PROVE OrderInv
    <2>1. Window = {} /\ Len(arrived) = 0 /\ Len(delivered) = 0 /\ dropped = {} /\ seen = 0
        BY <1>1 DEF Init, Window
    <2>2. Given = {} /\ InArraysAll = {} /\ OnRingAll = {}
        BY <2>1 DEF Given, InArraysAll, OnRingAll
    <2>3. QED BY <2>1, <2>2 DEF OrderInv
<1>2. ASSUME HoldInv, OrderInv PROVE FramesInOrder
    <2> DEFINE w == [i \in 1 .. rx_pref_len - rx_pref_pos |-> frame[rx_pref[rx_pref_pos + i]].n]
               r == [i \in DOMAIN arrived |-> frame[arrived[i]].n]
    <2>1. /\ delivered \in Seq(Nat) /\ Len(delivered) \in Nat
          /\ arrived \in Seq(Mbufs) /\ Len(arrived) \in Nat /\ DOMAIN arrived = 1 .. Len(arrived)
          /\ rx_pref_pos \in Nat /\ rx_pref_len \in Nat /\ rx_pref_len - rx_pref_pos \in Nat
        BY <1>2, LenProperties, Sizes DEF HoldInv, DevType, TypeOK
    <2>2. /\ \A i \in Window : InArrays(i) \in Nat
          /\ \A i \in 1 .. Len(arrived) : OnRing(i) \in Nat
        <3>1. \A m \in Mbufs : frame[m].n \in Nat
            BY <1>2, Sizes DEF HoldInv, DevType, TypeOK
        <3>2. (\A i \in Window : rx_pref[i] \in Mbufs) /\ (\A i \in 1 .. Len(arrived) : arrived[i] \in Mbufs)
            BY <1>2, HeldMbufs DEF Fetched, Ringed
        <3>3. QED BY <3>1, <3>2 DEF InArrays, OnRing
    <2>3. \A i \in 1 .. rx_pref_len - rx_pref_pos :
              rx_pref_pos + i \in Window /\ w[i] = InArrays(rx_pref_pos + i)
        BY <2>1 DEF Window, InArrays
    <2>4. \A i \in 1 .. Len(arrived) : r[i] = OnRing(i)
        BY <2>1 DEF OnRing
    <2>5. w \in Seq(Nat) /\ Len(w) = rx_pref_len - rx_pref_pos
        <3>1. w \in [1 .. rx_pref_len - rx_pref_pos -> Nat]
            BY <2>2, <2>3
        <3> HIDE DEF w
        <3> DEFINE k == rx_pref_len - rx_pref_pos
        <3>2. k \in Nat /\ w \in [1 .. k -> Nat]
            BY <2>1, <3>1
        <3> HIDE DEF k
        <3>3. w \in Seq(Nat) /\ Len(w) = k
            BY <3>2
        <3>4. QED BY <3>3 DEF k
    <2>6. r \in Seq(Nat) /\ Len(r) = Len(arrived)
        <3>1. r \in [1 .. Len(arrived) -> Nat]
            BY <2>1, <2>2, <2>4
        <3> HIDE DEF r
        <3> DEFINE k == Len(arrived)
        <3>2. k \in Nat /\ r \in [1 .. k -> Nat]
            BY <2>1, <3>1
        <3> HIDE DEF k
        <3>3. r \in Seq(Nat) /\ Len(r) = k
            BY <3>2
        <3>4. QED BY <3>3 DEF k
    <2>7. Waiting = w \o r
        BY DEF Waiting
    <2> HIDE DEF w, r
    <2>8. {w[i] : i \in 1 .. Len(w)} = InArraysAll
        <3>1. \A i \in Window : i - rx_pref_pos \in 1 .. Len(w) /\ rx_pref_pos + (i - rx_pref_pos) = i
            BY <2>1, <2>5 DEF Window
        <3>2. ASSUME NEW i \in Window PROVE InArrays(i) \in {w[j] : j \in 1 .. Len(w)}
            <4>1. PICK j \in 1 .. Len(w) : rx_pref_pos + j = i
                BY <3>1
            <4>2. w[j] = InArrays(i)
                BY <2>3, <2>5, <4>1
            <4>3. QED BY <4>2
        <3>3. ASSUME NEW j \in 1 .. Len(w) PROVE w[j] \in InArraysAll
            BY <2>3, <2>5 DEF InArraysAll
        <3>4. QED BY <3>2, <3>3 DEF InArraysAll
    <2>9. {r[i] : i \in 1 .. Len(r)} = OnRingAll
        BY <2>4, <2>6 DEF OnRingAll
    <2>10. \A i, j \in 1 .. Len(w) : i < j => w[i] < w[j]
        <3>1. SUFFICES ASSUME NEW i \in 1 .. Len(w), NEW j \in 1 .. Len(w), i < j PROVE w[i] < w[j]
            OBVIOUS
        <3>2. /\ rx_pref_pos + i \in Window /\ w[i] = InArrays(rx_pref_pos + i)
              /\ rx_pref_pos + j \in Window /\ w[j] = InArrays(rx_pref_pos + j)
            BY <2>3, <2>5
        <3>3. rx_pref_pos + i < rx_pref_pos + j
            BY <2>1, <2>5, <3>1
        <3>4. InArrays(rx_pref_pos + i) < InArrays(rx_pref_pos + j)
            BY <1>2, <3>2, <3>3 DEF OrderInv
        <3>5. QED BY <3>2, <3>4
    <2>11. \A i, j \in 1 .. Len(r) : i < j => r[i] < r[j]
        BY <1>2, <2>4, <2>6 DEF OrderInv
    <2>12. \A i, j \in 1 .. Len(delivered) : i < j => delivered[i] < delivered[j]
        BY <1>2 DEF OrderInv
    <2>13. \A i \in 1 .. Len(delivered) : \A j \in 1 .. Len(w) : delivered[i] < w[j]
        <3>1. SUFFICES ASSUME NEW i \in 1 .. Len(delivered), NEW j \in 1 .. Len(w)
                       PROVE  delivered[i] < w[j]
            OBVIOUS
        <3>2. delivered[i] \in Given /\ w[j] \in InArraysAll
            BY <2>8 DEF Given
        <3>3. QED BY <1>2, <3>2 DEF OrderInv
    <2>14. \A i \in 1 .. Len(delivered) : \A j \in 1 .. Len(r) : delivered[i] < r[j]
        <3>1. SUFFICES ASSUME NEW i \in 1 .. Len(delivered), NEW j \in 1 .. Len(r)
                       PROVE  delivered[i] < r[j]
            OBVIOUS
        <3>2. delivered[i] \in Given /\ r[j] \in OnRingAll
            BY <2>9 DEF Given
        <3>3. QED BY <1>2, <3>2 DEF OrderInv
    <2>15. \A i \in 1 .. Len(w) : \A j \in 1 .. Len(r) : w[i] < r[j]
        <3>1. SUFFICES ASSUME NEW i \in 1 .. Len(w), NEW j \in 1 .. Len(r) PROVE w[i] < r[j]
            OBVIOUS
        <3>2. w[i] \in InArraysAll /\ r[j] \in OnRingAll
            BY <2>8, <2>9
        <3>3. QED BY <1>2, <3>2 DEF OrderInv
    <2> DEFINE s == delivered \o (w \o r)
    <2>16. /\ \A i \in 1 .. Len(s) - 1 : s[i] < s[i + 1]
           /\ {s[i] : i \in DOMAIN s} = {delivered[i] : i \in 1 .. Len(delivered)} \union
                 {w[i] : i \in 1 .. Len(w)} \union {r[i] : i \in 1 .. Len(r)}
        BY <2>1, <2>5, <2>6, <2>10, <2>11, <2>12, <2>13, <2>14, <2>15, ThreeParts
    <2>17. {s[i] : i \in DOMAIN s} = Given \union InArraysAll \union OnRingAll
        BY <2>8, <2>9, <2>16 DEF Given
    <2> HIDE DEF s
    <2>18. {s[i] : i \in DOMAIN s} \union dropped = 1 .. seen
        BY <1>2, <2>17 DEF OrderInv
    <2>19. delivered \o Waiting = s
        BY <2>7 DEF s
    <2>20. QED BY <2>16, <2>18, <2>19 DEF FramesInOrder
<1>3. QED BY <1>1, <1>2, OrderStep, Hold, PTL DEF Spec
=============================================================================
