-------------------------------- MODULE Device --------------------------------
(***************************************************************************)
(* One queue of the NIC as a smoltcp device (DpdkDevice and its tokens in  *)
(* bench/smoltcp-s3/src/lib.rs, the mbuf calls of shim/shim.cc), driven by *)
(* Interface::poll: receive() until it returns None, a token consumed for  *)
(* each frame with at most one reply sent from inside it, then egress.     *)
(*                                                                         *)
(* Mbufs move between the pool, the NIC's two rings, the prefetch arrays   *)
(* and the live token.  The arrays keep stale handles behind rx_pref_len,  *)
(* and the pool counts how often a handle has been returned to it, so that *)
(* a leak, a double free and a use after free are all states of the model. *)
(***************************************************************************)
EXTENDS Naturals, Sequences, FiniteSets, FiniteSetsExt

CONSTANTS DESC_NUM,     \* descriptors of each ring
          CACHE,        \* mbufs the pool is sized to have held back in a per-core cache
          RX_BURST,     \* size of the prefetch arrays
          SLACK,        \* mbufs on top of every holder
          HeldBack,     \* numbers of mbufs the per-core caches may really hold back
          MaxFrames,    \* bound: frames that arrive
          MaxFails      \* bound: transmissions that fail

ASSUME SizeAssumption ==
    /\ DESC_NUM \in Nat \ {0} /\ CACHE \in Nat /\ RX_BURST \in Nat \ {0}
    /\ SLACK \in Nat /\ HeldBack \subseteq Nat
    /\ MaxFrames \in Nat /\ MaxFails \in Nat

\* A slip: the two rings only, as the pool was sized before.
PoolSizeRings == DESC_NUM * 2

\* per_queue_size of probe_and_open.
PoolSize == DESC_NUM * 2 + CACHE + RX_BURST + SLACK

Mbufs == 1 .. PoolSize
NoMbuf == 0
Synth == PoolSize + 1                     \* the token of the seeded ARP reply

VARIABLES
    held,             \* mbufs that never come back from a cache (never changes)
    pool,             \* how often each mbuf has been put back and not taken out
    posted,           \* empty mbufs on the RX ring
    arrived,          \* mbufs with frames the NIC has received, in order
    tx_ring,          \* mbufs the NIC has not sent yet
    frame,            \* what an mbuf holds: number of the frame and its kind
    seen,             \* frames that arrived on the ring
    pending_synth, rx_pref, rx_pref_pos, rx_pref_len,      \* DpdkDevice
    token,            \* the mbuf of the live DpdkRxToken
    at,               \* inside Interface::poll: "idle", "ingress", "token", "replied", "egress"
    delivered,        \* frames handed to smoltcp
    dropped,          \* frames dropped on purpose: bad checksum, or misrouted
    MISROUTED_DROPS, TX_ALLOC_FAIL, TX_BURST_FAIL

rxvars == <<pending_synth, rx_pref, rx_pref_pos, rx_pref_len>>
nicvars == <<posted, arrived, tx_ring, frame, seen>>
logs == <<delivered, dropped, MISROUTED_DROPS>>
txcounts == <<TX_ALLOC_FAIL, TX_BURST_FAIL>>
vars == <<held, pool, nicvars, rxvars, token, at, logs, txcounts>>

Kinds == {"mine", "other", "bad"}   \* for one of our ports or not TCP, misrouted, bad checksum

Blank == [n |-> 0, kind |-> "mine"]

\* A core that used the pool before may keep mbufs in its cache.
Init ==
    /\ held \in HeldBack
    /\ pool = [m \in Mbufs |-> IF m + held <= PoolSize THEN 1 ELSE 0]
    /\ posted = {} /\ arrived = <<>> /\ tx_ring = {} /\ seen = 0
    /\ frame = [m \in Mbufs |-> Blank]
    /\ pending_synth \in BOOLEAN
    /\ rx_pref = [i \in 1 .. RX_BURST |-> NoMbuf] /\ rx_pref_pos = 0 /\ rx_pref_len = 0
    /\ token = NoMbuf /\ at = "idle"
    /\ delivered = <<>> /\ dropped = {}
    /\ MISROUTED_DROPS = 0 /\ TX_ALLOC_FAIL = 0 /\ TX_BURST_FAIL = 0

Available == {m \in Mbufs : pool[m] > 0}

\* rte_pktmbuf_free on a set of mbufs.
Freed(S) == [m \in Mbufs |-> IF m \in S THEN pool[m] + 1 ELSE pool[m]]

\* What an mbuf held means nothing once it is in the pool.
Wiped(S) == [m \in Mbufs |-> IF m \in S THEN Blank ELSE frame[m]]

-----------------------------------------------------------------------------
(* The NIC and its driver *)

\* The RX ring pins DESC_NUM - 1 mbufs.
NicRefill ==
    /\ Cardinality(posted) + Len(arrived) < DESC_NUM - 1
    /\ Available # {}
    /\ LET m == Min(Available)
       IN  /\ posted' = posted \union {m}
           /\ pool' = [pool EXCEPT ![m] = @ - 1]
    /\ UNCHANGED <<held, arrived, tx_ring, frame, seen, rxvars, token, at, logs, txcounts>>

NicReceive ==
    /\ posted # {} /\ seen < MaxFrames
    /\ LET m == Min(posted)
       IN  /\ posted' = posted \ {m}
           /\ arrived' = Append(arrived, m)
           /\ \E k \in Kinds : frame' = [frame EXCEPT ![m] = [n |-> seen + 1, kind |-> k]]
    /\ seen' = seen + 1
    /\ UNCHANGED <<held, pool, tx_ring, rxvars, token, at, logs, txcounts>>

NicSent ==
    /\ tx_ring # {}
    /\ LET m == Min(tx_ring)
       IN  tx_ring' = tx_ring \ {m} /\ pool' = Freed({m})
    /\ UNCHANGED <<held, posted, arrived, frame, seen, rxvars, token, at, logs, txcounts>>

-----------------------------------------------------------------------------
(* DpdkDevice::receive *)

\* The fabricated ARP reply comes before any frame.
TakeSynth ==
    /\ at = "ingress" /\ pending_synth
    /\ pending_synth' = FALSE
    /\ token' = Synth /\ at' = "token"
    /\ UNCHANGED <<held, pool, nicvars, rx_pref, rx_pref_pos, rx_pref_len, logs, txcounts>>

\* A slip: a refill is due while frames are still in the arrays.
RefillDueEarly == rx_pref_pos + 1 >= rx_pref_len

RefillDue == rx_pref_pos = rx_pref_len

\* A slip: the position is not reset.
PosAfterBurstKept == rx_pref_pos

PosAfterBurst == 0

\* A set of positions, listed in increasing order: one list for each set.
InOrder(S) ==
    {e \in [1 .. Cardinality(S) -> S] :
        /\ \A s \in S : \E i \in DOMAIN e : e[i] = s
        /\ \A i, j \in DOMAIN e : i < j => e[i] < e[j]}

\* shim_mbuf_rx_burst_n: mbufs with a bad checksum are freed, the others fill
\* the arrays from the front.  With none, receive() returns None and the
\* ingress loop of poll ends.
RxBurst ==
    /\ at = "ingress" /\ ~pending_synth /\ RefillDue
    /\ \E k \in 0 .. Len(arrived) :
          LET good == {i \in 1 .. k : frame[arrived[i]].kind # "bad"}
              bad  == {arrived[i] : i \in (1 .. k) \ good}
              n    == Cardinality(good)
          IN  /\ k <= RX_BURST
              /\ arrived' = SubSeq(arrived, k + 1, Len(arrived))
              /\ pool' = Freed(bad) /\ frame' = Wiped(bad)
              /\ dropped' = dropped \union {frame[m].n : m \in bad}
              /\ \E e \in InOrder(good) :
                    rx_pref' = [i \in 1 .. RX_BURST |->
                                  IF i <= n THEN arrived[e[i]] ELSE rx_pref[i]]
              /\ IF n = 0
                 THEN at' = "egress" /\ UNCHANGED <<rx_pref_pos, rx_pref_len>>
                 ELSE rx_pref_pos' = PosAfterBurst /\ rx_pref_len' = n /\ UNCHANGED at
    /\ UNCHANGED <<held, posted, tx_ring, seen, pending_synth, token, delivered,
                   MISROUTED_DROPS, txcounts>>

\* A slip: receive() gives up after a misrouted frame.
AfterMisroutedNone == "egress"

\* After a misrouted frame the loop goes on with the next.
AfterMisrouted == "ingress"

\* The next frame of the arrays: dropped if it is for a port this queue does
\* not own, handed out as a token otherwise.
TakeFrame ==
    /\ at = "ingress" /\ ~pending_synth /\ ~RefillDue
    /\ rx_pref_pos' = rx_pref_pos + 1
    /\ LET m == rx_pref[rx_pref_pos + 1]
       IN  \/ /\ frame[m].kind = "other"
              /\ MISROUTED_DROPS' = MISROUTED_DROPS + 1
              /\ dropped' = dropped \union {frame[m].n}
              /\ pool' = Freed({m}) /\ frame' = Wiped({m})
              /\ at' = AfterMisrouted
              /\ UNCHANGED <<token, delivered>>
           \/ /\ frame[m].kind # "other"
              /\ token' = m /\ at' = "token"
              /\ delivered' = Append(delivered, frame[m].n)
              /\ UNCHANGED <<pool, frame, dropped, MISROUTED_DROPS>>
    /\ UNCHANGED <<held, posted, arrived, tx_ring, seen, pending_synth, rx_pref, rx_pref_len, txcounts>>

\* A slip: without ManuallyDrop the token is freed by consume and by drop.
FreedByConsumeTwice(m) == [pool EXCEPT ![m] = @ + 2]

FreedByConsume(m) == Freed({m})

\* DpdkRxToken::consume returns from smoltcp's closure.
Consume ==
    /\ at \in {"token", "replied"}
    /\ pool' = IF token = Synth THEN pool ELSE FreedByConsume(token)
    /\ frame' = Wiped({token})
    /\ token' = NoMbuf /\ at' = "ingress"
    /\ UNCHANGED <<held, posted, arrived, tx_ring, seen, rxvars, logs, txcounts>>

-----------------------------------------------------------------------------
(* DpdkTxToken::consume, for a reply to the frame of the live token or in egress *)

Transmit ==
    /\ at \in {"token", "egress"}
    /\ at' = IF at = "token" THEN "replied" ELSE "egress"
    /\ \/ /\ Available = {}
          /\ TX_ALLOC_FAIL < MaxFails
          /\ TX_ALLOC_FAIL' = TX_ALLOC_FAIL + 1
          /\ UNCHANGED <<pool, tx_ring, TX_BURST_FAIL>>
       \/ /\ Available # {} /\ Cardinality(tx_ring) < DESC_NUM
          /\ LET m == Min(Available)
             IN  pool' = [pool EXCEPT ![m] = @ - 1] /\ tx_ring' = tx_ring \union {m}
          /\ UNCHANGED txcounts
       \/ /\ Available # {} /\ Cardinality(tx_ring) = DESC_NUM
          /\ TX_BURST_FAIL < MaxFails
          /\ TX_BURST_FAIL' = TX_BURST_FAIL + 1      \* freed again by shim_mbuf_tx
          /\ UNCHANGED <<pool, tx_ring, TX_ALLOC_FAIL>>
    /\ UNCHANGED <<held, posted, arrived, frame, seen, rxvars, token, logs>>

PollStart ==
    /\ at = "idle" /\ at' = "ingress"
    /\ UNCHANGED <<held, pool, nicvars, rxvars, token, logs, txcounts>>

PollEnd ==
    /\ at = "egress" /\ at' = "idle"
    /\ UNCHANGED <<held, pool, nicvars, rxvars, token, logs, txcounts>>

Poll == PollStart \/ TakeSynth \/ RxBurst \/ TakeFrame \/ Consume \/ Transmit \/ PollEnd

Next == NicRefill \/ NicReceive \/ NicSent \/ Poll

Spec == Init /\ [][Next]_vars

-----------------------------------------------------------------------------
(* Properties *)

\* Every variable keeps its type, and the prefetch position never runs past
\* the arrays.
TypeOK ==
    /\ pool \in [Mbufs -> Nat]
    /\ posted \subseteq Mbufs /\ tx_ring \subseteq Mbufs /\ arrived \in Seq(Mbufs)
    /\ frame \in [Mbufs -> [n : 0 .. MaxFrames, kind : Kinds]]
    /\ rx_pref \in [1 .. RX_BURST -> Mbufs \union {NoMbuf}]
    /\ rx_pref_len \in 0 .. RX_BURST /\ rx_pref_pos \in 0 .. rx_pref_len
    /\ token \in Mbufs \union {NoMbuf, Synth}
    /\ at \in {"idle", "ingress", "token", "replied", "egress"}

One(b) == IF b THEN 1 ELSE 0

\* How many places hold an mbuf.
Holders(m) ==
    pool[m] + One(m \in posted) + One(m \in tx_ring) + One(token = m)
    + Cardinality({i \in DOMAIN arrived : arrived[i] = m})
    + Cardinality({i \in rx_pref_pos + 1 .. rx_pref_len : rx_pref[i] = m})

\* Whatever the order of bursts, drops, replies and full rings, every mbuf is
\* in exactly one place: none leaks, none is freed twice, none is read or sent
\* after it has gone back to the pool.
OneHolder ==
    \A m \in Mbufs : Holders(m) = IF m + held <= PoolSize THEN 1 ELSE 0

\* "Size for every simultaneous holder": as long as the caches hold back no
\* more than CACHE, with the pool of probe_and_open no
\* frame is ever dropped for want of an mbuf, rings full and arrays full.
NeverExhausted == held <= CACHE => TX_ALLOC_FAIL = 0

\* What has arrived and neither been handed out nor dropped, in order.
Waiting ==
    [i \in 1 .. rx_pref_len - rx_pref_pos |-> frame[rx_pref[rx_pref_pos + i]].n]
    \o [i \in DOMAIN arrived |-> frame[arrived[i]].n]

\* smoltcp gets the frames of the flow in the order they arrived, and each of
\* them exactly once, across refills and stale array entries: none is lost or
\* overtaken but those dropped on purpose.
FramesInOrder ==
    LET all == delivered \o Waiting
    IN  /\ \A i \in 1 .. Len(all) - 1 : all[i] < all[i + 1]
        /\ {all[i] : i \in DOMAIN all} \union dropped = 1 .. seen

\* Outside the ingress loop the arrays are empty: the device of learn_network
\* can go out of scope, which frees no mbuf, without leaking any.
PrefetchDrained == at \in {"idle", "egress"} => rx_pref_pos = rx_pref_len
==============================================================================
