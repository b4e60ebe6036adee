-------------------------------- MODULE Startup --------------------------------
(***************************************************************************)
(* The main thread from the entry of osv_app_main to the workers: the      *)
(* checks of the configuration the image was built with (Config), the      *)
(* number of queues, probe_and_open with its pools, load_rss_config, and   *)
(* learn_network (a DHCP lease through smoltcp, then one raw ARP request   *)
(* for the gateway).  Every call of the shim may fail, frames may be lost, *)
(* and any frame may come in while the program waits.                      *)
(***************************************************************************)
EXTENDS Config

CONSTANTS MaxDev,           \* bound: queues a device may advertise
          MaxPools,         \* bound: pools the memory has room for
          DHCP_BUDGET,      \* ITER_BUDGET / 10
          ARP_BUDGET        \* ITER_BUDGET / 20

ASSUME StartupAssumption ==
    /\ MaxDev \in Nat /\ MaxPools \in Nat
    /\ DHCP_BUDGET \in Nat /\ ARP_BUDGET \in Nat

VARIABLES
    dev_max,        \* queues the device advertises; 0 also when there is none
    pc,             \* where the main thread is; "off" before the image is booted
    n_queues,
    q,              \* counter of the loops over the queues
    pools,          \* queues whose mempool exists
    vec,            \* the Vec<PktPool> of probe_and_open: whose pool each handle is
    rx_pool,        \* which pool each RX ring has been given
    tx_queues,      \* queues whose TX ring is set up
    started,        \* the device runs
    lease,          \* "none", "routed", or "unrouted" when the lease names no router
    iter,           \* iterations of the current wait
    asked,          \* the ARP request is on the wire
    gw_mac          \* "none", or whose address the workers are given

nic == <<dev_max, pools, vec, rx_pool, tx_queues, started>>
net == <<lease, asked, gw_mac>>
vars == <<configvars, pc, n_queues, q, nic, net, iter>>

Init ==
    /\ ConfigInit
    /\ dev_max = 0
    /\ pc = "off" /\ n_queues = 0 /\ q = 0
    /\ pools = {} /\ vec = <<>> /\ rx_pool = {} /\ tx_queues = {} /\ started = FALSE
    /\ lease = "none" /\ iter = 0 /\ asked = FALSE /\ gw_mac = "none"

-----------------------------------------------------------------------------
(* The configuration and the number of queues *)

\* .env is edited and the image built until it is booted.
Configure ==
    /\ pc = "off" /\ (EditEnv \/ CargoBuild)
    /\ UNCHANGED <<pc, n_queues, q, nic, net, iter>>

\* A slip: BENCH_WORKERS is checked before it is cut to 16 bits.
SomethingZeroWide ==
    TARGET_IP(baked) = NoAddress \/ \E v \in Sizes : SizeOf(baked, v) = 0

\* The guards at the head of osv_app_main.
SomethingZero ==
    \/ TARGET_IP(baked) = NoAddress
    \/ N_WORKERS_REQ(baked) = 0
    \/ \E v \in Sizes \ {"BENCH_WORKERS"} : SizeOf(baked, v) = 0

\* A freshly built image is booted, and refuses to run or goes on.
Boot ==
    /\ pc = "off" /\ built
    /\ pc' = IF SomethingZero THEN "exit" ELSE "clamp"
    /\ UNCHANGED <<n_queues, q, nic, net, iter>>

Clamped(max) == IF max = 0 THEN N_WORKERS_REQ(baked) ELSE Min({N_WORKERS_REQ(baked), max})

\* shim_get_dev_info leaves 0 for a device that is not there.
ClampQueues ==
    /\ pc = "clamp"
    /\ dev_max' \in 0 .. MaxDev
    /\ n_queues' = Clamped(dev_max')
    /\ pc' = "pools"
    /\ UNCHANGED <<q, pools, vec, rx_pool, tx_queues, started, net, iter>>

-----------------------------------------------------------------------------
(* probe_and_open *)

\* An early return of None: the vector goes out of scope.
ProbeFails ==
    /\ pc' = "drop"
    /\ UNCHANGED <<n_queues, q, nic, net, iter>>

CreatePool ==
    /\ pc = "pools" /\ q < n_queues /\ q < MaxPools
    /\ pools' = pools \union {q}
    /\ vec' = Append(vec, q)
    /\ q' = q + 1
    /\ UNCHANGED <<dev_max, pc, n_queues, rx_pool, tx_queues, started, net, iter>>

CreatePoolFails == pc = "pools" /\ q < n_queues /\ ProbeFails

\* shim_dev_configure: without a device, and for more queues than it has, the
\* driver refuses.
DevConfigure ==
    /\ pc = "pools" /\ q = n_queues
    /\ dev_max # 0 /\ n_queues <= dev_max
    /\ pc' = "queues" /\ q' = 0
    /\ UNCHANGED <<n_queues, nic, net, iter>>

DevConfigureFails == pc = "pools" /\ q = n_queues /\ ProbeFails

\* A slip: every queue is given the pool of the first.
PoolOfFirst(i) == 0

PoolOf(i) == i

SetupQueue ==
    /\ pc = "queues" /\ q < n_queues
    /\ rx_pool' = rx_pool \union {<<q, PoolOf(q)>>}
    /\ tx_queues' = tx_queues \union {q}
    /\ q' = q + 1
    /\ UNCHANGED <<dev_max, pc, n_queues, pools, vec, started, net, iter>>

\* The RX ring fails, or the TX ring once the RX ring has its pool.
SetupQueueFails ==
    /\ pc = "queues" /\ q < n_queues
    /\ rx_pool' \in {rx_pool, rx_pool \union {<<q, PoolOf(q)>>}}
    /\ pc' = "drop"
    /\ UNCHANGED <<dev_max, n_queues, q, pools, vec, tx_queues, started, net, iter>>

DevStart ==
    /\ pc = "queues" /\ q = n_queues
    /\ started' = TRUE
    /\ pc' = "rss"
    /\ UNCHANGED <<dev_max, n_queues, q, pools, vec, rx_pool, tx_queues, net, iter>>

DevStartFails == pc = "queues" /\ q = n_queues /\ ProbeFails

\* A slip: the test for a null pointer is the wrong way round.
FreedByNull(p) == pools

\* Drop for PktPool: no handle in the vector is null, and its pool is freed.
FreedBy(p) == pools \ {p}

\* The vector drops its handles one after the other.
DropPool ==
    /\ pc = "drop" /\ vec # <<>>
    /\ pools' = FreedBy(Head(vec))
    /\ vec' = Tail(vec)
    /\ UNCHANGED <<dev_max, pc, n_queues, q, rx_pool, tx_queues, started, net, iter>>

\* main reports that there is no usable NIC.
NoUsableNic ==
    /\ pc = "drop" /\ vec = <<>>
    /\ pc' = "exit"
    /\ UNCHANGED <<n_queues, q, nic, net, iter>>

-----------------------------------------------------------------------------
(* load_rss_config, and giving up once the device runs *)

\* exit() never returns: main's pools are not dropped.
GiveUp ==
    /\ pc' = "exit"
    /\ UNCHANGED <<n_queues, q, nic, net, iter>>

LoadRss ==
    /\ pc = "rss" /\ pc' = "dhcp" /\ iter' = 0
    /\ UNCHANGED <<n_queues, q, nic, net>>

LoadRssFails == pc = "rss" /\ n_queues > 1 /\ GiveUp

-----------------------------------------------------------------------------
(* learn_network *)

\* dhcp_acquire: one iteration that ends in a lease.
DhcpConfigured ==
    /\ pc = "dhcp"
    /\ lease' \in {"routed", "unrouted"}
    /\ pc' = "arp"
    /\ UNCHANGED <<n_queues, q, nic, asked, gw_mac, iter>>

\* A slip: an event starts the count again.
IterNextRestart(event) == IF event THEN 0 ELSE iter + 1

IterNext(event) == iter + 1

\* One iteration without a lease: no event, or Deconfigured.
DhcpPoll ==
    /\ pc = "dhcp"
    /\ \E event \in BOOLEAN : iter' = IterNext(event)
    /\ pc' = IF iter' > DHCP_BUDGET THEN "exit" ELSE "dhcp"
    /\ UNCHANGED <<n_queues, q, nic, net>>

\* One request; shim_mbuf_tx may not take it, and its result is not read.
ArpSend ==
    /\ pc = "arp"
    /\ asked' \in BOOLEAN
    /\ pc' = "wait" /\ iter' = 0
    /\ UNCHANGED <<n_queues, q, nic, lease, gw_mac>>

ArpNoMbuf == pc = "arp" /\ GiveUp

\* The address dhcp_acquire returns as the gateway's: 0.0.0.0 when the lease
\* names no router.
Router == IF lease = "routed" THEN "gateway" ELSE "zero"

\* parse_arp_reply_from: the sender's address is the one expected, and nothing
\* else about it is looked at.
FromGateway(sender) == sender = Router

\* An ARP reply comes in and is the answer.  The gateway answers the request,
\* or announces itself; others send what they like, from any address.
ArpReply ==
    /\ pc = "wait"
    /\ \E sender \in {"gateway", "neighbour", "zero"} :
          /\ FromGateway(sender)
          /\ gw_mac' = sender
    /\ pc' = "run"
    /\ UNCHANGED <<n_queues, q, nic, lease, asked, iter>>

\* No frame, or one that is not the answer.
ArpWait ==
    /\ pc = "wait"
    /\ iter' = iter + 1
    /\ pc' = IF iter' > ARP_BUDGET THEN "exit" ELSE "wait"
    /\ UNCHANGED <<n_queues, q, nic, net>>

-----------------------------------------------------------------------------

Probe == CreatePool \/ CreatePoolFails \/ DevConfigure \/ DevConfigureFails
         \/ SetupQueue \/ SetupQueueFails \/ DevStart \/ DevStartFails
         \/ DropPool \/ NoUsableNic

LearnNetwork == DhcpConfigured \/ DhcpPoll \/ ArpSend \/ ArpNoMbuf \/ ArpReply \/ ArpWait

Main == /\ Boot \/ ClampQueues \/ Probe \/ LoadRss \/ LoadRssFails \/ LearnNetwork
        /\ UNCHANGED configvars

\* The workers run, or exit() spins.
Over == pc \in {"run", "exit"} /\ UNCHANGED vars

\* .env may be edited no more, and does not compile.
NoImage == pc = "off" /\ edits = MaxEdits /\ ~built /\ UNCHANGED vars

Next == Configure \/ Main \/ Over \/ NoImage

Spec == Init /\ [][Next]_vars

\* Nothing else runs yet: the main thread keeps running once it is booted.
FairSpec == Spec /\ WF_vars(pc # "off" /\ Main)

-----------------------------------------------------------------------------
(* Properties *)

\* Whatever fails, the NIC never runs on a pool that has been freed or that
\* two queues share ("Per-queue mempools eliminate cross-worker contention").
NicOnLivePools ==
    started =>
        /\ \A i \in 0 .. n_queues - 1 : \E p \in pools : <<i, p>> \in rx_pool
        /\ \A a, b \in rx_pool : a[2] = b[2] => a = b

\* A probe that fails part of the way, at any call, leaves no pool behind, and
\* every handle is of a pool that exists and that no other handle is of: no
\* pool is freed twice on the way.
FailedProbeFreesAll ==
    /\ pc = "exit" /\ ~started => pools = {}
    /\ \A i, j \in DOMAIN vec : vec[i] \in pools /\ (vec[i] = vec[j] => i = j)

\* Workers start only with what they are given and something to do with it:
\* every queue set up in both directions on the device, a lease, the address of
\* the router it names and of nobody else, and, whatever .env said and however
\* large a number it said it with, a block to fetch. An empty run would report a
\* throughput. (A lease without a router lets a reply from 0.0.0.0 pass.)
WorkersCanFetch ==
    pc = "run" =>
        /\ started /\ n_queues <= dev_max
        /\ tx_queues = 0 .. n_queues - 1
        /\ lease # "none" /\ (lease = "routed" => gw_mac = "gateway")
        /\ n_queues > 0 /\ \A v \in Sizes : SizeOf(baked, v) > 0

\* "Safety net against a hung run spinning forever": with a silent server, a
\* silent gateway, or events without a lease, start-up ends.
StartupEnds == (pc # "off") ~> (pc \in {"run", "exit"})
================================================================================
