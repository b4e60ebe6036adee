------------------------------- MODULE Steering -------------------------------
(***************************************************************************)
(* The RSS steering model of bench/smoltcp-s3/src/lib.rs: main reads the   *)
(* key and the indirection table back from the device, every worker marks  *)
(* the ephemeral ports whose return traffic lands on its queue and picks   *)
(* the ports of its connections among them, and receive() drops the TCP    *)
(* frames for ephemeral ports that are not marked.                         *)
(*                                                                         *)
(* The hash of a tuple is a constant function here; Toeplitz shows that    *)
(* the program and the NIC compute the same one from the same key.         *)
(***************************************************************************)
EXTENDS Naturals, Sequences, FiniteSets, FiniteSetsExt

CONSTANTS EPH_LEN,            \* ephemeral ports
          BITS,               \* bits of a byte of the bitmap
          GROUP,              \* table entries a query group holds
          CAP,                \* table entries the program has room for
          CONNS_PER_WORKER,
          MaxQueues,          \* bound: queues of the device
          MaxTable,           \* bound: entries of its indirection table
          HashFns             \* hashes of the tuples, one for each key

EphPorts == 0 .. EPH_LEN - 1      \* port - EPH_BASE
TARGET_PORT == EPH_LEN            \* any port that is not ephemeral
Tuples == {<<"target", "us", TARGET_PORT, p>> : p \in EphPorts}
          \union {<<"us", "target", p, TARGET_PORT>> : p \in EphPorts}

ASSUME SteeringAssumption ==
    /\ BITS \in Nat \ {0} /\ GROUP \in Nat \ {0} /\ CONNS_PER_WORKER \in Nat \ {0}
    /\ EPH_LEN \in Nat \ {0} /\ EPH_LEN % BITS = 0
    /\ MaxQueues \in Nat \ {0} /\ MaxTable \in Nat /\ CAP \in Nat
    /\ HashFns \subseteq [Tuples -> Nat]

VARIABLES
    n_queues,         \* queues and workers
    hash,             \* the hash under the NIC's key
    key_ok, table,    \* whether the key can be read; the NIC's indirection table
    main,             \* "rss", then "workers" or "failed"
    SINGLE_QUEUE, RSS_KEY_LEN, RSS_RETA, RSS_RETA_LEN,
    worker            \* per queue: where it is, and its locals

device == <<n_queues, hash, key_ok, table>>
rss == <<SINGLE_QUEUE, RSS_KEY_LEN, RSS_RETA, RSS_RETA_LEN>>
vars == <<device, main, rss, worker>>

KeyBytes == 40
NoQueue == MaxQueues              \* u16::MAX: not the number of any queue
Queues == 0 .. n_queues - 1

\* A table for more than one queue may name any of them in any order; a device
\* without one (or with one queue) reports none.
Init ==
    /\ n_queues \in 1 .. MaxQueues
    /\ hash \in HashFns /\ key_ok \in BOOLEAN
    /\ table \in UNION {[0 .. k - 1 -> 0 .. n_queues - 1] : k \in 0 .. MaxTable}
    /\ main = "rss"
    /\ SINGLE_QUEUE = FALSE /\ RSS_KEY_LEN = 0 /\ RSS_RETA = <<>> /\ RSS_RETA_LEN = 0
    /\ worker = [q \in 0 .. MaxQueues - 1 |->
                   [at |-> "build", owned_count |-> 0, i |-> 0, seen |-> 0, my_ports |-> <<>>,
                    bitmap |-> [b \in 0 .. EPH_LEN \div BITS - 1 |-> {}]]]

-----------------------------------------------------------------------------
(* What the NIC does with a segment from the target to one of our ports *)

NicQueue(p) ==
    IF n_queues = 1 THEN 0
    ELSE table[hash[<<"target", "us", TARGET_PORT, p>>] % Cardinality(DOMAIN table)]

-----------------------------------------------------------------------------
(* load_rss_config, on the main thread *)

\* a & b, for naturals of any width: bit by bit, from the lowest.
AndWith[a \in Nat] ==
    [b \in Nat |-> IF a = 0 THEN 0 ELSE 2 * AndWith[a \div 2][b \div 2] + (a % 2) * (b % 2)]

And(a, b) == AndWith[a][b]

\* A slip: any size is taken.
PowerOfTwoAny(n) == TRUE

PowerOfTwo(n) == And(n, n - 1) = 0

\* A table longer than there is room for.
Cut == Cardinality(DOMAIN table) > CAP

\* shim_rss_reta: entry i out of group i / GROUP, of as many as there is room
\* for.
ReadTable ==
    LET n    == Min({Cardinality(DOMAIN table), CAP})
        conf == [g \in 0 .. (n + GROUP - 1) \div GROUP - 1 |->
                   [k \in 0 .. GROUP - 1 |->
                      IF g * GROUP + k \in DOMAIN table THEN table[g * GROUP + k] ELSE 0]]
    IN  [i \in 0 .. n - 1 |-> conf[i \div GROUP][i % GROUP]]

LoadSingle ==
    /\ main = "rss" /\ n_queues = 1
    /\ SINGLE_QUEUE' = TRUE
    /\ main' = "workers"
    /\ UNCHANGED <<device, RSS_KEY_LEN, RSS_RETA, RSS_RETA_LEN, worker>>

LoadNoKey ==
    /\ main = "rss" /\ n_queues # 1 /\ ~key_ok
    /\ main' = "failed"
    /\ UNCHANGED <<device, rss, worker>>

\* No table, one that is not a power of two, or a driver that refuses to answer
\* for a part of its table: the key has been stored.
LoadNoTable ==
    /\ main = "rss" /\ n_queues # 1 /\ key_ok
    /\ \/ DOMAIN table = {} \/ Cut
       \/ DOMAIN table # {} /\ ~PowerOfTwo(Cardinality(DOMAIN ReadTable))
    /\ RSS_KEY_LEN' = KeyBytes
    /\ main' = "failed"
    /\ UNCHANGED <<device, SINGLE_QUEUE, RSS_RETA, RSS_RETA_LEN, worker>>

LoadTable ==
    /\ main = "rss" /\ n_queues # 1 /\ key_ok
    /\ DOMAIN table # {} /\ PowerOfTwo(Cardinality(DOMAIN ReadTable))
    /\ RSS_KEY_LEN' = KeyBytes
    /\ RSS_RETA' = ReadTable /\ RSS_RETA_LEN' = Cardinality(DOMAIN ReadTable)
    /\ main' = "workers"
    /\ UNCHANGED <<device, SINGLE_QUEUE, worker>>

-----------------------------------------------------------------------------
(* The workers *)

\* A slip: the tuple of the segments we send.
TupleSent(p) == <<"us", "target", p, TARGET_PORT>>

\* queue_for_local_port: the direction the NIC hashes.
Tuple(p) == <<"target", "us", TARGET_PORT, p>>

predict_queue(t) ==
    IF SINGLE_QUEUE THEN 0
    ELSE IF RSS_KEY_LEN = 0 \/ RSS_RETA_LEN = 0 THEN NoQueue
    ELSE RSS_RETA[And(hash[t], RSS_RETA_LEN - 1)]

\* A slip: everything from the worker's queue up.
SteersHereUp(q, p) == predict_queue(Tuple(p)) >= q

SteersHere(q, p) == predict_queue(Tuple(p)) = q

\* build_owned_ports
Build(q) ==
    /\ main = "workers" /\ q \in Queues /\ worker[q].at = "build"
    /\ LET mine == {p \in EphPorts : SteersHere(q, p)}
       IN  worker' = [worker EXCEPT
              ![q].bitmap = [b \in DOMAIN worker[q].bitmap |->
                               {k \in 0 .. BITS - 1 : b * BITS + k \in mine}],
              ![q].owned_count = Cardinality(mine),
              ![q].at = "scan"]
    /\ UNCHANGED <<device, main, rss>>

\* owns_port, for an ephemeral port.
owns_port(q, p) == p % BITS \in worker[q].bitmap[p \div BITS]

\* A slip: the stride is rounded up.
StrideUp(count) == Max({1, (count + CONNS_PER_WORKER - 1) \div CONNS_PER_WORKER})

Stride(count) == Max({1, count \div CONNS_PER_WORKER})

ScanEnds(q) ==
    \/ worker[q].i = EPH_LEN
    \/ Len(worker[q].my_ports) = CONNS_PER_WORKER

\* One turn of the loop that collects my_ports.
ScanPort(q) ==
    /\ q \in Queues /\ worker[q].at = "scan" /\ ~ScanEnds(q)
    /\ LET me    == worker[q]
           owned == owns_port(q, me.i)
           push  == owned /\ me.seen % Stride(me.owned_count) = 0
       IN  worker' = [worker EXCEPT
              ![q].i = @ + 1,
              ![q].seen = IF owned THEN @ + 1 ELSE @,
              ![q].my_ports = IF push THEN Append(@, me.i) ELSE @]
    /\ UNCHANGED <<device, main, rss>>

ScanEnd(q) ==
    /\ q \in Queues /\ worker[q].at = "scan" /\ ScanEnds(q)
    /\ worker' = [worker EXCEPT ![q].at = "done"]
    /\ UNCHANGED <<device, main, rss>>

Load == LoadSingle \/ LoadNoKey \/ LoadNoTable \/ LoadTable

Work(q) == Build(q) \/ ScanPort(q) \/ ScanEnd(q)

Next == Load \/ \E q \in 0 .. MaxQueues - 1 : Work(q)

Spec == Init /\ [][Next]_vars

-----------------------------------------------------------------------------
(* Properties *)

\* "pick ports whose return traffic provably lands on the queue we are
\* polling": with every key, every table the program has room for and any
\* number of queues, the NIC sends the answers to a chosen port to the
\* chooser's queue.
PortsLandHome ==
    ~Cut => \A q \in Queues : \A k \in DOMAIN worker[q].my_ports :
        NicQueue(worker[q].my_ports[k]) = q

\* The filter of receive() never drops a segment the NIC steered here: a queue
\* has marked every port whose traffic it gets.
NothingFiltered ==
    ~Cut => \A q \in Queues : worker[q].at # "build" =>
        \A p \in EphPorts : NicQueue(p) = q => owns_port(q, p)

\* "a nonzero value means the RSS model no longer matches the hardware": where
\* the NIC steers by a table the program has seen only a part of, the answer to
\* a worker's port that lands elsewhere is dropped and counted there, never
\* taken in by another worker's stack.
MisroutedNoticed ==
    \A q \in Queues : \A k \in DOMAIN worker[q].my_ports :
        LET p == worker[q].my_ports[k]
        IN  NicQueue(p) # q => ~owns_port(NicQueue(p), p)

\* "the hash partitions the range disjointly by construction": no two
\* connections of the program, of one worker or of two, share a local port.
NoPortTwice ==
    \A q, r \in Queues : \A i \in DOMAIN worker[q].my_ports, j \in DOMAIN worker[r].my_ports :
        worker[q].my_ports[i] = worker[r].my_ports[j] => q = r /\ i = j

\* The stride spreads the ports without losing any: a worker ends with a port
\* for every connection, or with all it owns.
EnoughPorts ==
    \A q \in Queues : worker[q].at = "done" =>
        Len(worker[q].my_ports) = Min({CONNS_PER_WORKER, worker[q].owned_count})
===============================================================================
