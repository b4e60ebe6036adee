# miniosv_apps: TLA+ specifications

`bench/smoltcp-s3` is a unikernel benchmark: it boots on OSv, drives an ENA
network card through a small DPDK shim, and downloads byte ranges of one S3
object over many TCP (optionally TLS) connections at once, one worker thread per
RX queue. It prints a throughput and a verdict, COMPLETE or INCOMPLETE. These
modules model the program's own logic, `src/lib.rs` and `shim/shim.cc`, and the
parts of the vendored smoltcp that this logic depends on. Paths below are
relative to `bench/smoltcp-s3`.

## 1. The system

| Component | State | Operations | Talks to |
|---|---|---|---|
| Start-up (`osv_app_main`, `probe_and_open`, `learn_network`) | mempools, device state, lease, gateway address | clamp, create pools, set up rings, start, DHCP, ARP | shim, smoltcp DHCP |
| RSS steering (`toeplitz`, `load_rss_config`, `build_owned_ports`, port choice) | key, indirection table, owned-port bitmaps | hash, read back, mark, choose | shim; every worker |
| Network device (`DpdkDevice`, tokens, mbuf calls) | prefetch arrays, mbufs, drop counters | `receive`, `consume`, `transmit` | `Interface::poll`, NIC rings |
| TCP client socket (smoltcp) | state, buffers, SYN timer | `process`, `dispatch`, `send_slice`, `recv` | driver, network |
| Connection driver (`conn_step`) | `Conn`: flags, buffers, TLS connection | one step per poll | socket, rustls, response counter |
| Response counter (`count_body`) | header automaton, status, byte count, refusal counters | one call per slice | driver; statics shared by all workers |
| Workers and verdict (`worker_thread`, the rest of `osv_app_main`) | connections, `WorkerCtx`, sums | open, poll and step, store results, join, add up, report | everything above |
| Console (`print_line`) | line buffers, `PRINT_LOCK` | format, lock, write loop | all threads |
| Neighbour cache (smoltcp `iface`), seeded by the device | entries with expiry, rate limit, waiting sockets | fill, look up, ask, let a socket send | device, sockets, the gateway |
| Build-time configuration (`parse_size` ..., `build.rs`) | `.env`, the image built from it | edit, build, refuse to build | cargo; start-up |
| Global allocator (`ShimAllocator`) | malloc's blocks, pointers stashed in memory | `alloc`, `realloc`, `dealloc` | malloc; all threads |
| Checksum offload, statistics | none | | |

One main thread starts the device, spawns one pinned worker per queue, joins
them and adds up atomics. Workers share nothing but those atomics, the static
counters and the console lock. Inside a worker all is one loop:
`iface.poll`, then `conn_step` for every connection, until all are done.

What is hard to test here: the order in which SYN-ACK, data, FIN and RST meet a
driver that looks only between polls; partial sends and receives; TLS errors in
the middle of buffered data; a verdict computed from sums that several threads
store; mbufs that can be in six places; prefetch arrays with stale entries; a
prediction of what the NIC's hash will do; a neighbour entry that expires in the
middle of a run; lines printed by many threads; loops without a budget; images
built from an `.env` that has changed since. `PROJECT.json` lists each hazard at its line with the
properties about it.

## 2. The modules

| Module | Models | Run by |
|---|---|---|
| `HttpBody` | `count_body`, byte by byte, several connections sharing the counters | `MCHttpBody` |
| `ConnSpec` | what a connection promises its worker | refined by `Conn` |
| `Conn` | `conn_step`, the client side of a smoltcp socket, the server | `MCConn` |
| `Bench` | workers, block ranges, join, sums, verdict | `MCBench` |
| `Console` | `print_line` | `MCConsole` |
| `Device` | one queue: `DpdkDevice`, tokens, mbuf pool, rings | `MCDevice` |
| `Toeplitz` | the loop of `toeplitz` | `MCToeplitz` |
| `Steering` | `load_rss_config`, the bitmap, the choice of ports | `MCSteering` |
| `Config` | the const parsers and assertions, `build.rs`, editing and building | extended by `Startup` |
| `Startup` | `osv_app_main` up to the workers, for the image built | `MCStartup` |
| `Neighbor` | one worker's neighbour cache and the sockets that depend on it, in `Interface::poll` | `MCNeighbor` |
| `Alloc` | `ShimAllocator` over malloc and memory | proofs only |
| `HttpBodyProofs`, `ConnProofs`, `BenchProofs`, `DeviceProofs` | theorems about the module of that name | |
| `SteeringProofs` | theorems about `Steering` and `Toeplitz` | |
| `StartupProofs` | theorems about `Config` and `Startup` | |
| `ServicesProofs` | theorems about `Alloc`, `Console` and `Neighbor` | |
| `SumTheorems` | sums over finite sets and remainders, for `BenchProofs`, `StartupProofs` and `SteeringProofs` | |

`Console`, `Toeplitz` and `Alloc` prefix the names of their specifications
(`ConsoleSpec`, `ToeplitzSpec`, `HeapSpec`) because a proof module extends them
together with others.

A definition whose comment begins "A slip" is a plausible mistake in the
definition after it; it is used by no specification, and substituting it makes
the property it belongs to fail.

**HttpBody.** One action is one iteration of the loop in `count_body`; a slice
ends and another begins at any byte, so every way the stream can be cut up is
covered. `hdr_state` is the four-state match of CR LF CR LF, `status_pos` the
saturating position. `BAD_STATUS` and `FIRST_BAD_STATUS` are shared.

**Conn.** The variables are the fields of `Conn`, the socket (`tcp`, `rx`, `tx`),
the segments on the wire, and the server. `Ingress` and `Egress` are the two
loops of `Interface::poll`; `EndPoll` hands over to `conn_step`, which is split
at its stages (`StepSynTimeout`, `StepSend`, `StepRecv`, `StepCount`, the TLS
loop, `StepExit`) because rustls and the socket decide between them. The stream
is made of units: request units, a header unit, body units, and for TLS records
of several units, of which a segment may carry a part. rustls is outside the
repository and is modelled by the connection states that `conn_step` matches on.
`build` is how the program was compiled, which fixes `PLAIN_HTTP` and
`STUB_TLS_AFTER_HANDSHAKE`; it is chosen once, so that one run covers all three
builds. `Faults` says what the server and the TLS stack may do wrong. Of smoltcp's
states a client here reaches `SynSent`, `Established`, `CloseWait`, `Closed`
(it never calls `close`). Segments of a flow arrive in order and once, which is
what the socket delivers to its user; loss shows as SYN retransmission and as
delay. `outgoing` is padded with zeros before rustls encodes into it and cut back
only if that succeeds: a failure leaves a `"zero"` at its end (`PadWithZeros`), which
`OneRequest` shows is never sent.

**Bench.** A connection is reduced to what `ConnSpec` allows: bytes arrive,
then it terminates, clean or not. `OpenConn` is one turn of the loop that opens
connections, `ConnStep` one call in the pass over them, and `WorkerEnd` stores
the results. `Failures` are the ways to lose a connection: an early return, too
few ports, a failed `connect`, abandonment. `FAULT_ABANDON_CONNS`, the fault
injection knob of the source, and `STUB_TLS_AFTER_HANDSHAKE` are chosen once, so
that one run covers the program as it is and a build with both set.

**Console.** A thread formats fragments into its 256-byte line, spins for the
lock, writes pieces of any length, may fail, and releases. The console is the
sequence of all bytes, each tagged with its line and place.

**Device.** The pool counts how often each mbuf has been returned, so that a
double free or a use after free is a state of the model. The NIC posts, fills
and reclaims mbufs at any moment; a frame is for one of our ports (or not TCP),
misrouted, or has a bad checksum. `at` is the place inside `Interface::poll`.
`held` is what per-core caches really keep, `CACHE` what the pool is sized for.

**Toeplitz.** One step per input bit; words are functions from bit number to
BOOLEAN. The reference (`Adding`, `Odd`) is the exclusive or of the key windows.

**Steering.** The NIC indexes the table modulo its size, the program masks the
hash with size minus one after checking for a power of two, and the bitmap is
kept in bytes. The table is read in groups, as the shim does; of one longer than
there is room for (`Cut`) only the first entries are read, or the driver refuses.
`&` is computed bit by bit (`AndWith`); that masking is the NIC's remainder is
proved, not assumed.

**Config.** `env` is `.env`, `baked` the texts the image was compiled from. A text
is a sequence of characters, because what the parsers do with single characters
is what the properties are about; `parse_size` and `parse_ipv4` are functions from
the number of characters read to the state of their loops, one turn (`SizeChar`,
`IpChar`) at a time. The Makefile builds with `--release` and nothing turns
`overflow-checks` on, so the products and sums of `parse_size`, a `const fn`, wrap
modulo 2^64 (`% U64`); only the const assertions and `env!` stop a build
(`Compiles`). `CargoBuild` compiles when one of the
variables `build.rs` lists has changed, and otherwise keeps the image.

**Neighbor.** The interface compares one reading of the clock per poll with stored
instants, so an instant is kept as the time left until it and a poll starts by
taking the time since the last one off. ARP frames are not hashed by the NIC and
come in on queue 0; every other frame comes in on the worker's queue. The
fabricated reply, the ARP and IP frames of other hosts (which fill or renew
entries), segments of the target (which do not, as its address is never stored)
and the egress pass over the sockets with their silence are steps of the poll. A
packet of the target or of a host may call for an answer at once (a RST or an ICMP
message; the device's filter lets ports below `EPH_BASE` and other protocols pass). If
whom it is for is not in the cache the answer is lost, and an ARP request goes out in
its place and silences the cache. `asked` is the request for the gateway; one for
another host is only in `silent` and `recent`, as no socket waits for its answer, and
an answer is an ARP frame of that host, which may arrive at any time.

**Alloc.** `heap` is what malloc has given out, `live` what the program holds, `word`
the pointer-sized word at each address. A holder may write anything into its own
block (`Use`), and `realloc` and `dealloc` read the raw pointer back from memory.

**Startup.** `.env` is edited and built until an image is booted. Every call of the
shim may fail. `vec` is the vector of pool handles in `probe_and_open`: returning
`None` drops its handles one after the other (`DropPool`), each freeing its pool;
`exit()` spins and drops nothing. An ARP reply is told from others by its sender's
address alone (`FromGateway`), which is compared with the router of the lease, or with
0.0.0.0 if the lease names none (`Router`). The iteration budgets are constants.

## 3. What is checked

Runs that pass (bounds in parentheses):

| Run | Shows |
|---|---|
| `HttpBodyAll` | `BodyOnly`: exactly the bytes after the first blank line are counted (all streams of at most 7 bytes over three letters, all cuts; the automaton has four states, so each of its transitions happens at each offset). `StatusIsCode`, `RefusalsCounted`, `FirstBadIsReal` (two connections, four kinds of response) |
| `ConnAll` | all three builds under every fault: `OneRequest`, `CountedOnce` (at most one counter, at most once), the refinement of `ConnSpec` (`AbsSpec`), `CleanIsWholeButErrors`, and under fairness `TerminatesOrStranded` (2 request units and a send buffer of 1, so that sends are partial; bodies of 0 to 3 for a block of 2: too short, exact, too long; two SYNs) |
| `BenchAll` | `VerdictExact`, `RangesInObject`, `DisjointWhenTheyFit`, `FaultNoticed`, `ContextsSettled` (once main adds up, nothing a worker owns changes any more), and under fairness `Reports`: unless a connection is stranded, main gets to its verdict (2 workers with 2 connections each, devices of every size, every failure, with and without the fault knob and the stub; blocks of one byte of which 0 to 2 arrive; the object of 2 bytes just holds the blocks of one worker, so that with one worker they fit and with two they wrap) |
| `ConsoleAll` | `LinesWhole`, `AllPrinted` (2 threads, 2 lines each, a buffer of 3 that fragments fill exactly and overfill) |
| `DeviceMbufs` | `OneHolder`, `NeverExhausted`, `FramesInOrder`, `PrefetchDrained` (rings of 3, bursts of 2, 3 frames, no slack: both rings and the arrays fill up, arrays are refilled over stale entries; the caches hold back 1 mbuf, which the pool is sized for, or 6 of 9, so that allocations fail) |
| `ToeplitzAll` | `HashIsToeplitz`, keys shorter and longer than the window plus the input |
| `SteeringPorts` | `PortsLandHome`, `NothingFiltered`, `NoPortTwice`, `EnoughPorts`, `MisroutedNoticed` (every table of at most 8 entries, also those of 3, which are refused, and those longer than the 4 there is room for: then ports may be mispredicted, but what goes astray is dropped and counted) |
| `StartupAll` | `SizesAsWritten`, `TargetAsWritten`, `ImageFresh`, `NicOnLivePools`, `FailedProbeFreesAll`, `WorkersCanFetch`, `StartupEnds` (one edit of any variable to any of its texts at any point between builds: 49 texts for each size, with numbers past 16 bits, and past 64 bits by a digit and by a unit, which wrap, and 3,906 for the address; devices of 0 to 4 queues; budgets of 2, reached by waiting and by events) |
| `NeighborAll` | `SeedSuffices`, `RequestsSpaced`, `NoneLeftBehind`, and under fairness `QueueZeroSends` (queues 0 and 1; 2 sockets, so that one waits while the other asks; 3 hosts and room for 2, so that the gateway can be pushed out; a lifetime of 3 silences, of which any time may pass between two polls; any request may be lost, and any packet may call for an answer) |

`UNIT`, `U16` and `U64` stand for 1024, 2^16 and 2^64. `StartupAll` scales them down
together (4, 16, 4096), so that four digits overflow 64 bits, `64` is a multiple of
16 bits and every suffix still means a different factor.

The runs without a deadlock check (`HttpBody`, `Console`, `Toeplitz`,
`Steering`) end when the input or the lines of the bound are used up. In
`Device` the only bounds are on frames and failed transmissions; polling goes
on.

### Runs that fail: where the code and its comments disagree

- `ConnRefused`: a refused SYN leaves the socket `Closed` before the handshake.
  Neither the SYN timeout nor the exit test applies, and the worker loop has no
  budget, so the program spins forever. The comments promise that `conn_step`
  reports every termination and that a stale address "fails loudly".
  `TerminatesOrStranded` in `ConnAll` says that this is the only way not to end:
  the peer closes or resets the socket before the request has been handed to it.
- `ConnTlsErrorClean`: after a TLS error the exit test is still reached and may
  set `closed_cleanly` with ciphertext undecoded. `CleanIsWholeButErrors` in
  `ConnAll` says that this is the only way for a clean connection that ended with
  the peer's FIN to be short (after a reset nothing is promised).
- `NeighborStall`: on a queue other than 0, the seeded entry expires (a minute in
  smoltcp) and the answers to the worker's own requests go to queue 0: its sockets
  never send again, and its loop has no budget. The comments say that those
  interfaces "don't need to see the reply". `SeedSuffices` says that it holds for
  the seed's lifetime, and `QueueZeroSends` that the worker on queue 0 recovers, but
  for three things nothing in the interface limits: a poll that takes in frames for
  ever, other hosts that push the gateway out of the cache again and again
  (`Evicted`), and answers to hosts that are not in it, whose ARP requests take up
  the rate limit before the egress pass (`CrowdedOut`).

Also seen, without a run of its own:

- the exit test takes `State::Closed` for the end of the peer's stream, so a reset
  after the request is a clean close, where lib.rs:967 says the peer closed;
- `attempts` is set to 1 and never again, so `SYN_RETRIES` is always 0, however
  often smoltcp sends the SYN (lib.rs:976 and 449 say it counts them);
- a SYN-ACK and a FIN taken in by one poll skip `Established`, and the connection
  ends without having been counted as established or failed (lib.rs:976);
- the verdict compares sums, so a connection that is short and one that is long by
  as much cancel out, and `BAD_STATUS` takes no part in it (lib.rs:1636);
- lib.rs:1271 says a worker short of ports covers its whole range, but its trailing
  blocks are dropped (reported as INCOMPLETE, `BenchAll`);
- when the planned blocks exceed the object, ranges wrap (lib.rs:1307) onto ranges
  already requested, where lib.rs:1186 speaks of a disjoint byte range per connection;
- a suffix `parse_size` does not know gives the default without an error, so
  `AWS_BUCKET_SIZE=1.5G`, which the justfile's `numfmt` accepts for the upload, is
  built as 10 GiB (`SizesAsWritten` describes what the code does);
- `BENCH_WORKERS` is cut to 16 bits: 65536 is refused as zero, 65537 runs one worker;
- a size of 2^64 or more wraps without an error in a release build: `16777217T` is
  built as 1 TiB (`SizesAsWritten` says modulo 2^64);
- a lease without a router leaves 0.0.0.0 as the gateway, and an ARP reply sent from
  0.0.0.0 is then taken for its answer (lib.rs:890, 807): the workers start without a
  route (`WorkersCanFetch` promises the router's address only if there is one).

### Fairness

- `Conn`: a worker is pinned to its own CPU and its loop never blocks, so `EndPoll`
  and `ConnStep` are weakly fair. Polls drain both directions whenever there is
  something to do, and the clock advances: strong fairness of `Ingress`, `Egress`
  and `Tick`, which compete within a poll. A server that has accepted goes on
  serving (`PeerServe`) unless it fails. Nothing else about the network is assumed.
- `Bench`: main and every worker are threads that run (weak fairness of `Main` and of
  each `Worker`). That a connection ends is not assumed, because a refused one never
  does (`ConnRefused`) and the worker loop has no budget: `Reports` has it as its
  premise, `NoneStranded`, and `TerminatesOrStranded` of `Conn` says which connections
  fulfil it.
- `Console`: a running thread goes on, and one that finds the lock free long
  enough takes it. The lock is not fair, so only a bounded number of lines is
  printed by each thread.
- `Startup`: once the image is booted the main thread runs; nobody has to boot it.
- `Neighbor`: the worker goes on polling and steps of a poll follow each other
  (weak fairness of `Poll`), its clock does not stand still (strong fairness of a
  poll with time passed), and not every request is lost (strong fairness of the
  gateway's answer). That frames stop coming in for a poll to end is not assumed:
  it is one of the three ways not to get to send that `QueueZeroSends` excepts.

## 4. What is proved

TLAPS proves, for every value of the constants that satisfies the named
assumptions of the modules:

- `HttpBodyProofs`: `TypeOK`, `BodyOnly`, `StatusIsCode`, `RefusalsCounted`,
  `FirstBadIsReal`. The invariant says that `hdr_state` is the longest suffix of what
  has been read that is a prefix of the terminator (`HdrNextTracks` shows that one
  byte keeps it so), that no terminator ended earlier, and that the status digits
  are those at offsets 9 to 11. For the counters the connections share, it says
  which refusals have been added to `BAD_STATUS` and which connections are still
  between the addition and the compare-and-exchange.
- `ConnProofs`: `TypeOK`, `CountedOnce`, `OneRequest`, `CleanIsWholeButErrors`, and that
  `Conn` implements `ConnSpec` (`AbsSpec`): each action of the connection, the socket
  or the server is a step of the abstract connection or a stutter. The invariant
  says that what is under way from the server comes in the order a server sends it
  (`WireInv`), how far the client is in it (`ClientInv`), and that the body units
  counted and those still under way are those sent (`ConserveInv`), so a connection
  that saw the FIN with its buffers drained has counted all there was. `OneRequest`
  also needs that padding is left only in a connection that has been given up
  (`PadInv`). All three builds are covered, with
  streams and buffers of every size.
- `BenchProofs`: `TypeOK`, `VerdictExact`, `FaultNoticed`, `RangesInObject`,
  `DisjointWhenTheyFit`, `ContextsSettled`. The invariant relates each worker's
  published results to its connections once it has ended, the sums of main to the
  results of the workers already added, and the block of a connection to its worker
  and index; the conclusion that equal sums mean equal parts uses that no worker
  exceeds its share. `VerdictExact` needs both directions: that a run which fetched
  everything is reported `COMPLETE` rests on a pigeonhole argument (as many clean
  connections as planned blocks, all different, are all of them) and on sums.
- `SumTheorems`: a fold over a finite set satisfies its defining equation and does
  not depend on the order in which its elements are picked; from that, what one
  more element, a constant factor or another row adds to a sum (`SumAdd`,
  `SumScale`, `SumTable`). Taking a remainder on the way does not change the remainder
  of a product or a sum (`WrapOnTheWay`).
- `DeviceProofs`: `TypeOK`, `OneHolder`, `NeverExhausted`, `FramesInOrder`,
  `PrefetchDrained`, for every ring size, burst and pool. `HoldInv` says each mbuf is
  counted in one place, `RoomInv` bounds every ring and array so that their sum with
  the cache margin is the pool `probe_and_open` makes, and `OrderInv` that what has
  been delivered comes before what is in the arrays, and that before what is in the
  ring.
- `SteeringProofs`: `NoPortTwice`, `PortsLandHome`, `NothingFiltered`, `EnoughPorts`,
  `MisroutedNoticed`, for every hash, table and number of queues. The arithmetic
  underneath is that masking with a power of two less one is the remainder, that a
  bit of the byte map is set exactly for the ports marked, and that taking every
  `stride`-th of the ports owned yields as many as are wanted before they run out.
  Of `Toeplitz`: its types and `HashIsToeplitz`. The loop invariant is that the
  window is the key at the current bit and the result is the hash of the bits done;
  the step uses that one more element flips the parity of a set.
- `StartupProofs`, for every environment, text, number of queues and budget:
  - `SizesAsWritten` and `TargetAsWritten`. The loop of a parser is shown to have the
    states its definition says (`Iterates`, `SizeTable`, `IpTable`). Then one loop
    invariant each: after n characters `parse_size` holds the number the first n
    digits write, or has returned the value of the digits and the unit, both modulo
    2^64 (`SizeRead`); and `parse_ipv4`, unless
    it has refused the text, holds the number of every field closed by a dot and of
    the part of the current field already read (`IpRead`). Both rest on `Horner`: one
    digit more is ten times the number and the digit, where the number is defined
    as a sum of digits times powers of ten.
  - `ImageFresh`, from `EnvInv`: an image is compiled from a whole environment that
    compiles, and `build.rs` lists every variable `lib.rs` reads (`ListComplete`).
  - `NicOnLivePools`, `FailedProbeFreesAll`, `WorkersCanFetch`, from `StartInv`, which
    says at every point of the probe which pools, rings and queues there are, and
    what the main thread knows once it goes on. `VecInv` says that the vector's handles
    are of all the pools there are, each of another one, until and while they are
    dropped.
  - `StartupCountsDown`: every step of the main thread takes away from `StepsLeft`, a
    natural number. It is what `StartupEnds` needs besides fairness.
- `ServicesProofs`, of `Console`: its types and `LinesWhole`. The invariant is mutual
  exclusion of the writers, and that the console ends in the part of the line the
  lock's holder has written, or at the end of a line.
- `ServicesProofs`, of `Alloc`: `BlocksApart`, `FreesItsOwn`, `AlignedAsAsked`, for all
  sizes, alignments and contents of memory. The invariant says that malloc's blocks
  are apart, that each block handed out lies in a malloc block of its own, with room
  for the stashed pointer before it when it is over-aligned, and that the word there
  is the address of that malloc block: no write of a holder reaches it, because it
  lies outside every block handed out. There is no run: TLC would need all of memory
  as a value.
- `ServicesProofs`, of `Neighbor`: `SeedSuffices`, `RequestsSpaced`, `NoneLeftBehind`, for
  any number of sockets, hosts, cache entries and any times. The invariant
  says that queues other than 0 see no ARP frame, that nothing there pushes the seed
  out, so that what is left of it and the time since make up its lifetime (`SeedInv`):
  a request before that is for another host than the gateway,
  and that a request of the last `SILENT_TIME` is the one that silences the cache
  (`RecentInv`).

Where an argument goes by induction over numbers or finite sets (the recursive `&`,
the sums, the loops of the parsers), the proofs use a least counterexample instead: the natural numbers are
well-founded (`Least`), so a smallest number that fails exists and is refuted. The
induction theorems of the library take an operator as parameter, which the provers
cannot instantiate.

Only model-checked is liveness under fairness, which is out of the prover's reach:
`TerminatesOrStranded` of `Conn`, `Reports` of `Bench`, `AllPrinted` of `Console`,
`StartupEnds` of `Startup`, `QueueZeroSends` of `Neighbor`.

Every invariant and action property of a run that passes is proved.

The types of `HttpBody`, `Console` (`ConsoleTypeOK`), `Toeplitz` (`ToeplitzTypeOK`) and
`Bench` are proved and therefore in no run.

## 5. What is not modelled

- `ena_tx_offload_prepare`, statistics, clocks, random numbers: layout and hardware.
- rustls, OSv, the DPDK library: outside the repository, modelled as far as the
  code uses them.
- smoltcp beyond what `Conn`, `Device`, `Neighbor` and `Startup` use: sequence numbers and
  windows, retransmission of data, congestion control, the DHCP exchange; all of IPv6, 6LoWPAN, RPL, ICMP and DNS.
- `pmc-cost`, `pmc-perfevent`, `pmc-sample`, `common`: measurement loops around
  hardware counters.

## 6. Plan

1. In place: `HttpBody`, `Conn` with `ConnSpec`, `Bench`, `Console`, `Device`, `Toeplitz`,
   `Steering`, `Config`, `Startup`, `Neighbor`, `Alloc`.
2. The DHCP client; `RttEstimator` and the retransmission timer of the TCP socket;
   its receive window and reassembly, with an abstract byte stream it implements
   (the in-order delivery `Conn` takes for granted); the sampler of `pmc-sample`.
3. Proofs in place: every invariant of every module, and the refinement of `ConnSpec`.
   Next: measures like `StepsLeft` for the other liveness properties, where there is
   one (the writers of `Console`).
