------------------------------- MODULE Neighbor -------------------------------
(***************************************************************************)
(* How a worker of bench/smoltcp-s3/src/lib.rs finds the gateway: the      *)
(* neighbour cache of its own smoltcp interface, seeded by the fabricated  *)
(* ARP reply of its device, and the sockets that wait for an entry         *)
(* (vendor/smoltcp/src/iface: neighbor.rs, socket_meta.rs, interface).     *)
(* What its sockets send goes to the target by way of the gateway; what    *)
(* the interface answers by itself goes to whoever sent the packet.        *)
(*                                                                         *)
(* The interface reads the clock once, at the start of a poll, and only    *)
(* compares it with instants it has stored: an instant is kept here as     *)
(* the time left until it, and the time since the last poll is taken off   *)
(* when a poll starts.  ARP frames are not hashed by RSS: they arrive on   *)
(* queue 0, whoever asked.                                                 *)
(***************************************************************************)
EXTENDS Integers, Sequences, FiniteSets

CONSTANTS QueueIds,                 \* queues the worker may be on
          NSockets,
          Others,                   \* hosts of the subnet besides the gateway
          ENTRY_LIFETIME, SILENT_TIME, DISCOVERY_SILENT_TIME,
          IFACE_NEIGHBOR_CACHE_COUNT

Gw == "gateway"
Hosts == Others \union {Gw}
Sockets == 1 .. NSockets

ASSUME NeighborAssumption ==
    /\ QueueIds \subseteq Nat /\ NSockets \in Nat \ {0} /\ Gw \notin Others
    /\ ENTRY_LIFETIME \in Nat \ {0} /\ SILENT_TIME \in Nat \ {0}
    /\ DISCOVERY_SILENT_TIME \in Nat \ {0} /\ IFACE_NEIGHBOR_CACHE_COUNT \in Nat \ {0}

VARIABLES
    queue_id,         \* never changes
    pending_synth,    \* the fabricated reply has not been handed out yet
    rx,               \* frames on the queue: one, and an answer behind it
    at,               \* inside poll: "idle", "ingress", "egress"
    turn,             \* the socket whose turn it is in the egress pass
    cache,            \* for the addresses stored, the time until expires_at
    silent,           \* the time until silent_until of the cache
    meta,             \* per socket: Active, or the time until its silent_until
    want,             \* the socket has a segment to send
    asked,            \* an ARP request for the gateway is on the wire
    up, recent        \* history: time since the seed, requests of the last SILENT_TIME

vars == <<queue_id, pending_synth, rx, at, turn, cache, silent, meta, want, asked, up, recent>>

Active == -1          \* NeighborState::Active

\* arp_frame, from a host: aimed at our address by a host of our network, or one
\* of those process_arp returns early on.
arp_frame(h, ours) == [kind |-> "arp", from |-> h, ours |-> ours]

build_arp_reply == arp_frame(Gw, TRUE)

\* What else arrives: a packet of a host's own, or a segment of the target,
\* which the gateway forwards.  Each calls for an answer at once or does not:
\* the filter of the device lets ports below EPH_BASE and other protocols pass.
OtherFrames == [kind : {"ip"}, from : Hosts, reply : BOOLEAN] \union [kind : {"tcp"}, reply : BOOLEAN]
ArpFrames == {arp_frame(h, TRUE) : h \in Hosts} \union {arp_frame(Gw, FALSE)}

\* Every connection has called connect(), or was refused.
Init ==
    /\ queue_id \in QueueIds /\ pending_synth = TRUE
    /\ rx = <<>> /\ at = "idle" /\ turn = 1 /\ asked = FALSE
    /\ cache = <<>> /\ silent = 0 /\ meta = [s \in Sockets |-> Active]
    /\ want \in [Sockets -> BOOLEAN]
    /\ up = 0 /\ recent = <<>>

-----------------------------------------------------------------------------
(* The network *)

\* Any frame may arrive, ARP on queue 0 only.
Arrive ==
    /\ rx = <<>>
    /\ \E f \in OtherFrames \union (IF queue_id = 0 THEN ArpFrames ELSE {}) : rx' = <<f>>
    /\ UNCHANGED <<queue_id, pending_synth, at, turn, cache, silent, meta, want, asked, up, recent>>

\* The gateway answers the request, on queue 0.
GatewayAnswers ==
    /\ asked /\ asked' = FALSE
    /\ IF queue_id = 0 THEN Len(rx) < 2 /\ rx' = Append(rx, arp_frame(Gw, TRUE)) ELSE UNCHANGED rx
    /\ UNCHANGED <<queue_id, pending_synth, at, turn, cache, silent, meta, want, up, recent>>

\* The device drops the request, or the network loses it or its answer.
RequestLost ==
    /\ asked /\ asked' = FALSE
    /\ UNCHANGED <<queue_id, pending_synth, rx, at, turn, cache, silent, meta, want, up, recent>>

-----------------------------------------------------------------------------
(* Cache: fill, reset_expiry_if_existing, lookup *)

Expire(left, d) == IF left > d THEN left - d ELSE 0

\* A new entry for h beside those of the hosts in kept.
Stored(h, kept) == [g \in kept \union {h} |-> IF g = h THEN ENTRY_LIFETIME ELSE cache[g]]

\* A full cache gives up the entry that expires first (any of those expired).
Fills(h) ==
    IF h \in DOMAIN cache \/ Cardinality(DOMAIN cache) < IFACE_NEIGHBOR_CACHE_COUNT
    THEN {Stored(h, DOMAIN cache)}
    ELSE {Stored(h, DOMAIN cache \ {old}) :
             old \in {g \in DOMAIN cache : \A k \in DOMAIN cache : cache[g] <= cache[k]}}

FoundIn(c, h) == h \in DOMAIN c /\ c[h] > 0
Found(h) == FoundIn(cache, h)

\* A slip: the request is not recorded.
SilentAfterAskNone == 0

SilentAfterAsk == SILENT_TIME

\* lookup_hardware_addr when h is not found: one request, or none while the
\* cache is silent, whoever the last one was for.
Ask(h) ==
    IF silent = 0
    THEN /\ asked' = (asked \/ h = Gw)
         /\ silent' = SilentAfterAsk /\ recent' = Append(recent, SILENT_TIME)
    ELSE UNCHANGED <<asked, silent, recent>>

-----------------------------------------------------------------------------
(* Interface::poll *)

\* History: of the requests, the oldest first, those still within SILENT_TIME
\* when d more has passed.
After(d) ==
    LET gone == Cardinality({i \in DOMAIN recent : recent[i] <= d})
    IN  [i \in 1 .. Len(recent) - gone |-> recent[i + gone] - d]

\* The clock has moved by d since the last poll.
PollStart(d) ==
    /\ at = "idle" /\ at' = "ingress"
    /\ cache' = [h \in DOMAIN cache |-> Expire(cache[h], d)]
    /\ silent' = Expire(silent, d)
    /\ meta' = [s \in Sockets |-> IF meta[s] = Active THEN Active ELSE Expire(meta[s], d)]
    /\ up' = IF pending_synth THEN 0 ELSE ENTRY_LIFETIME - Expire(ENTRY_LIFETIME - up, d)
    /\ recent' = After(d)
    /\ UNCHANGED <<queue_id, pending_synth, rx, turn, want, asked>>

\* A slip: frames of the queue come first.
SynthDueLast == pending_synth /\ rx = <<>>

\* DpdkDevice::receive hands out the fabricated reply before any frame.
SynthDue == pending_synth

\* process_arp
ProcessArp(f) ==
    /\ cache' \in IF f.ours THEN Fills(f.from) ELSE {cache}
    /\ UNCHANGED <<silent, asked, recent, want>>

\* The cache when a packet of h is taken in: a stored entry starts again, unless
\* the packet is a broadcast or comes from another hardware address.
Refreshes(h) == {cache, [g \in DOMAIN cache |-> IF g = h THEN ENTRY_LIFETIME ELSE cache[g]]}

\* process_ipv4, for a packet of a host's own: an answer at once (RST, ICMP) goes
\* to that host, and is gone if the host is not found.
ProcessIp(f) ==
    /\ cache' \in Refreshes(f.from)
    /\ IF f.reply /\ ~FoundIn(cache', f.from) THEN Ask(f.from) ELSE UNCHANGED <<silent, asked, recent>>
    /\ UNCHANGED want

\* process_tcp: the target's own address is never stored.  An answer at once is
\* dispatched without a socket, and is gone if the gateway is not found; what a
\* socket has to say waits for the egress pass.
ProcessTcp(f) ==
    /\ want' \in {want} \union {[want EXCEPT ![s] = TRUE] : s \in Sockets}
    /\ IF f.reply /\ ~Found(Gw) THEN Ask(Gw) ELSE UNCHANGED <<silent, asked, recent>>
    /\ UNCHANGED cache

TakeSynth ==
    /\ at = "ingress" /\ SynthDue
    /\ pending_synth' = FALSE
    /\ ProcessArp(build_arp_reply)
    /\ UNCHANGED <<queue_id, rx, at, turn, meta, up>>

Ingress ==
    /\ at = "ingress" /\ ~SynthDue /\ rx # <<>>
    /\ rx' = Tail(rx)
    /\ LET f == rx[1]
       IN  \/ f.kind = "arp" /\ ProcessArp(f)
           \/ f.kind = "ip" /\ ProcessIp(f)
           \/ f.kind = "tcp" /\ ProcessTcp(f)
    /\ UNCHANGED <<queue_id, pending_synth, at, turn, meta, up>>

IngressEnd ==
    /\ at = "ingress" /\ ~SynthDue /\ rx = <<>>
    /\ at' = "egress"
    /\ UNCHANGED <<queue_id, pending_synth, rx, turn, cache, silent, meta, want, asked, up, recent>>

\* A slip: a socket that waits sits its silence out.
PermittedLater(s) == meta[s] = Active \/ meta[s] = 0

\* A slip: a socket that waits never asks again.
PermittedOnce(s) == meta[s] = Active \/ Found(Gw)

\* egress_permitted
Permitted(s) == meta[s] = Active \/ Found(Gw) \/ meta[s] = 0

\* One socket of socket_egress.  A further pass finds nothing more to send.
Egress ==
    /\ at = "egress"
    /\ \/ /\ Permitted(turn) /\ Found(Gw)
          /\ want' = [want EXCEPT ![turn] = FALSE] /\ meta' = [meta EXCEPT ![turn] = Active]
          /\ UNCHANGED <<silent, asked, recent>>
       \/ /\ Permitted(turn) /\ ~Found(Gw) /\ want[turn]
          /\ meta' = [meta EXCEPT ![turn] = DISCOVERY_SILENT_TIME]     \* neighbor_missing
          /\ Ask(Gw) /\ UNCHANGED want
       \/ /\ ~Permitted(turn) \/ (~Found(Gw) /\ ~want[turn])
          /\ UNCHANGED <<want, meta, silent, asked, recent>>
    /\ IF turn = NSockets THEN turn' = 1 /\ at' = "idle" ELSE turn' = turn + 1 /\ UNCHANGED at
    /\ UNCHANGED <<queue_id, pending_synth, rx, cache, up>>

\* conn_step, between polls, or a timer gives a socket something to send.
Queue(s) ==
    /\ at = "idle" /\ want' = [want EXCEPT ![s] = TRUE]
    /\ UNCHANGED <<queue_id, pending_synth, rx, at, turn, cache, silent, meta, asked, up, recent>>

-----------------------------------------------------------------------------
Poll == (\E d \in 0 .. ENTRY_LIFETIME : PollStart(d)) \/ TakeSynth \/ Ingress \/ IngressEnd \/ Egress

Next == Arrive \/ GatewayAnswers \/ RequestLost \/ Poll \/ \E s \in Sockets : Queue(s)

Spec == Init /\ [][Next]_vars

\* The worker polls for ever and its clock runs; not every request is lost.
FairSpec ==
    /\ Spec /\ WF_vars(Poll) /\ SF_vars(\E d \in 1 .. ENTRY_LIFETIME : PollStart(d))
    /\ SF_vars(GatewayAnswers)

-----------------------------------------------------------------------------
(* Properties *)

\* "used to seed the neighbor cache without doing an RSS-misrouted ARP": until
\* the seed expires, whatever arrives, a worker on another queue than 0 sends no
\* ARP request for the gateway and none of its sockets waits for one. (A host
\* that calls for an answer may be asked for: it only silences the cache.)
SeedSuffices ==
    queue_id # 0 /\ up < ENTRY_LIFETIME => ~asked /\ \A s \in Sockets : meta[s] = Active

\* However many sockets wait and packets are answered at once, two requests of a
\* worker, for whomever, are at least SILENT_TIME apart.
RequestsSpaced == Len(recent) <= 1

\* Once the gateway is known again, a poll leaves no socket behind: silenced or
\* not, those that have had their turn have sent.
NoneLeftBehind == at = "egress" /\ Found(Gw) => \A s \in 1 .. turn - 1 : ~want[s]

\* A socket gets to send what it has, again and again, over expiry and lost
\* requests, unless one poll takes in frames for ever.
Sends(s) == []<>~want[s] \/ <>[](at = "ingress")

\* Other hosts push the gateway out of the cache again and again.
Evicted == []<>(Gw \in DOMAIN cache) /\ []<>(~pending_synth /\ Gw \notin DOMAIN cache)

\* An answer to a host that is not stored takes the request of a SILENT_TIME.
AsksAnother == Ingress /\ rx[1].kind = "ip" /\ rx[1].from # Gw /\ silent' > silent

\* Such answers come again and again, and the gateway is asked for no more.
CrowdedOut == []<><<AsksAnother>>_vars /\ <>[]~asked

\* The worker on queue 0, where answers arrive, always gets to send, but for the
\* three things nothing in the interface limits.
QueueZeroSends == queue_id = 0 => (\A s \in Sockets : Sends(s)) \/ Evicted \/ CrowdedOut

\* "We do our own ARP outside smoltcp so per-worker ifaces on non-0 RSS queues
\* don't need to see the reply": no worker is ever stopped for want of one.
NoReplyNeeded == \A s \in Sockets : Sends(s)
===============================================================================
