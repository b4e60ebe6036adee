-------------------------------- MODULE Bench --------------------------------
(***************************************************************************)
(* The run as a whole (bench/smoltcp-s3/src/lib.rs): osv_app_main spawns   *)
(* one worker thread per RX queue, joins them, adds up what each left in   *)
(* its WorkerCtx and prints COMPLETE or INCOMPLETE; worker_thread opens    *)
(* its connections, each for one block of the object, then alternates      *)
(* iface.poll with one conn_step per connection until a whole pass finds   *)
(* every connection done.                                                  *)
(*                                                                         *)
(* A connection is what ConnSpec says of it: bytes arrive until it         *)
(* terminates, cleanly or not (Conn shows that conn_step does that).       *)
(* Workers run concurrently and share nothing but MISROUTED_DROPS and, at  *)
(* the join, their contexts.                                               *)
(***************************************************************************)
EXTENDS Naturals, Sequences, FiniteSets, Functions

CONSTANTS
    N_WORKERS_REQ,              \* BENCH_WORKERS
    DevMaxes,                   \* queue counts devices advertise, 0 for none
    CONNS_PER_WORKER,           \* BENCH_CONNS_PER_WORKER
    BLOCK_SIZE,                 \* BENCH_BLOCK_SIZE
    OBJECT_SIZE,                \* AWS_BUCKET_SIZE
    Builds,                     \* values of the two knobs below to compile with
    MaxBytes,                   \* bound: bytes one connection may count
    MaxMisrouted,               \* bound: frames that reach a wrong queue
    Failures                    \* what may go wrong while a worker opens its connections

AllFailures == {"name", "ports", "connect", "session", "abandon"}

ASSUME ConfigAssumption ==
    /\ N_WORKERS_REQ \in Nat \ {0} /\ CONNS_PER_WORKER \in Nat \ {0}
    /\ BLOCK_SIZE \in Nat \ {0} /\ OBJECT_SIZE \in Nat \ {0}
ASSUME KnobAssumption == Builds \subseteq Nat \X BOOLEAN
ASSUME BoundAssumption ==
    /\ DevMaxes \subseteq Nat /\ MaxBytes \in Nat /\ MaxMisrouted \in Nat
    /\ Failures \subseteq AllFailures

VARIABLES
    FAULT_ABANDON_CONNS,        \* connections each worker abandons on purpose
    STUB_TLS_AFTER_HANDSHAKE,   \* BENCH_TLS_STUB=1; neither ever changes
    n_workers,      \* N_WORKERS_REQ clamped to what the device offers
    main,           \* osv_app_main: "spawn", "join", "sum", "report" or "exit"
    at,             \* the worker it spawns, joins or adds up next
    total_b, total_expected, conns_total, conns_clean,   \* its sums
    verdict,        \* "none", "COMPLETE" or "INCOMPLETE"
    worker,         \* worker_thread: "off", "start", "open", "loop" or "ended"
    n_conns,        \* ports found, at most CONNS_PER_WORKER
    opened,         \* iterations of the opening loop so far
    conns,          \* the Vec<Conn> of each worker
    step,           \* connections stepped in this pass
    all_done,       \* the flag of this pass
    ctx,            \* WorkerCtx: the results
    MISROUTED_DROPS

sums == <<total_b, total_expected, conns_total, conns_clean>>
build == <<FAULT_ABANDON_CONNS, STUB_TLS_AFTER_HANDSHAKE, n_workers>>
mainvars == <<build, main, at, sums, verdict>>
workvars == <<worker, n_conns, opened, conns, step, all_done, ctx, MISROUTED_DROPS>>
vars == <<mainvars, workvars>>

Workers == 0 .. N_WORKERS_REQ - 1

NoResults == [bytes_received |-> 0, bytes_expected |-> 0, conns_total |-> 0, conns_clean |-> 0]

\* The larger of a difference and zero.
SaturatingSub(a, b) == IF a > b THEN a - b ELSE 0

-----------------------------------------------------------------------------
(* Which bytes a connection asks for *)

FirstBlock(w) == w * CONNS_PER_WORKER

\* A slip: the start of the last block is left out.
RangeStartShort(block) == (block * BLOCK_SIZE) % SaturatingSub(OBJECT_SIZE, BLOCK_SIZE)

RangeStart(block) == (block * BLOCK_SIZE) % (SaturatingSub(OBJECT_SIZE, BLOCK_SIZE) + 1)

\* A slip: the last byte of an HTTP range is taken to be excluded.
RangeEndExclusive(block) == RangeStart(block) + BLOCK_SIZE

RangeEnd(block) == RangeStart(block) + BLOCK_SIZE - 1
Expected(block) == RangeEnd(block) - RangeStart(block) + 1

-----------------------------------------------------------------------------
(* osv_app_main *)

Clamp(dev_max) ==
    IF dev_max = 0 \/ N_WORKERS_REQ <= dev_max THEN N_WORKERS_REQ ELSE dev_max

\* The device is open and the network known; the contexts are built.
Init ==
    /\ \E b \in Builds : FAULT_ABANDON_CONNS = b[1] /\ STUB_TLS_AFTER_HANDSHAKE = b[2]
    /\ \E dev_max \in DevMaxes : n_workers = Clamp(dev_max)
    /\ main = "spawn" /\ at = 0 /\ verdict = "none"
    /\ total_b = 0 /\ total_expected = 0 /\ conns_total = 0 /\ conns_clean = 0
    /\ worker = [w \in Workers |-> "off"]
    /\ n_conns = [w \in Workers |-> 0]
    /\ opened = [w \in Workers |-> 0]
    /\ conns = [w \in Workers |-> <<>>]
    /\ step = [w \in Workers |-> 0]
    /\ all_done = [w \in Workers |-> TRUE]
    /\ ctx = [w \in Workers |-> NoResults]
    /\ MISROUTED_DROPS = 0

\* The loops of main over its workers, one turn: on to the next worker, or to
\* the next part of main.
Turn(next) ==
    IF at + 1 = n_workers
    THEN main' = next /\ at' = 0
    ELSE at' = at + 1 /\ UNCHANGED main

\* shim_thread_spawn for one worker after the other.
Spawn ==
    /\ main = "spawn"
    /\ worker' = [worker EXCEPT ![at] = "start"]
    /\ Turn("join")
    /\ UNCHANGED <<build, sums, verdict, n_conns, opened, conns, step, all_done, ctx,
                   MISROUTED_DROPS>>

\* A slip: the handle is given up without waiting for its thread.
JoinedAtOnce(w) == TRUE

\* shim_thread_join returns when the thread has ended.
Joined(w) == worker[w] = "ended"

Join ==
    /\ main = "join" /\ Joined(at)
    /\ Turn("sum")
    /\ UNCHANGED <<build, sums, verdict, workvars>>

AddUp ==
    /\ main = "sum"
    /\ total_b' = total_b + ctx[at].bytes_received
    /\ total_expected' = total_expected + ctx[at].bytes_expected
    /\ conns_total' = conns_total + ctx[at].conns_total
    /\ conns_clean' = conns_clean + ctx[at].conns_clean
    /\ Turn("report")
    /\ UNCHANGED <<build, verdict, workvars>>

\* A slip: connections that were given up count like the others.
RangesOkAny == conns_total > 0

RangesOk == conns_clean = conns_total /\ conns_total > 0

\* A slip: only connections that were opened are asked about.
CoveredOpened == TRUE

Covered == conns_total = n_workers * CONNS_PER_WORKER

BytesOk == IF STUB_TLS_AFTER_HANDSHAKE THEN total_b >= total_expected
                                       ELSE total_b = total_expected

\* The four conditions and the verdict line; then shim_dev_stop and the
\* endless loop of exit().
Report ==
    /\ main = "report"
    /\ verdict' = IF RangesOk /\ Covered /\ BytesOk /\ MISROUTED_DROPS = 0
                  THEN "COMPLETE" ELSE "INCOMPLETE"
    /\ main' = "exit"
    /\ UNCHANGED <<build, at, sums, workvars>>

Exit == main = "exit" /\ UNCHANGED vars

-----------------------------------------------------------------------------
(* worker_thread *)

\* A thread that returns early leaves its context as main built it.
Leave(w) == worker' = [worker EXCEPT ![w] = "ended"]

\* Sockets and server name, then the ports that steer back to this queue.
WorkerStart(w) ==
    /\ worker[w] = "start"
    /\ \/ /\ "name" \in Failures
          /\ Leave(w) /\ UNCHANGED n_conns
       \/ /\ \E k \in IF "ports" \in Failures THEN 0 .. CONNS_PER_WORKER
                                              ELSE {CONNS_PER_WORKER} :
                n_conns' = [n_conns EXCEPT ![w] = k]
          /\ worker' = [worker EXCEPT ![w] = "open"]
    /\ UNCHANGED <<mainvars, opened, conns, step, all_done, ctx, MISROUTED_DROPS>>

ToOpen(w) == SaturatingSub(n_conns[w], FAULT_ABANDON_CONNS)

NewConn(block) ==
    [block |-> block, expected |-> Expected(block), bytes |-> 0, done |-> FALSE, clean |-> FALSE]

\* One turn of the opening loop: a connection, a connect() that is rejected
\* and skipped, or a TLS session that cannot be made, which ends the thread.
OpenConn(w) ==
    /\ worker[w] = "open" /\ opened[w] < ToOpen(w)
    /\ \/ /\ conns' = [conns EXCEPT ![w] = Append(@, NewConn(FirstBlock(w) + opened[w]))]
          /\ opened' = [opened EXCEPT ![w] = @ + 1]
          /\ UNCHANGED worker
       \/ /\ "connect" \in Failures
          /\ opened' = [opened EXCEPT ![w] = @ + 1]
          /\ UNCHANGED <<conns, worker>>
       \/ /\ "session" \in Failures
          /\ Leave(w)
          /\ UNCHANGED <<conns, opened>>
    /\ UNCHANGED <<mainvars, n_conns, step, all_done, ctx, MISROUTED_DROPS>>

\* iface.poll at the head of each pass; DpdkDevice::receive drops the frames
\* that belong to another worker's ports and counts them.
Poll(w) ==
    /\ \/ worker[w] = "open" /\ opened[w] >= ToOpen(w)
       \/ worker[w] = "loop" /\ step[w] = Len(conns[w]) /\ ~all_done[w]
    /\ worker' = [worker EXCEPT ![w] = "loop"]
    /\ step' = [step EXCEPT ![w] = 0]
    /\ all_done' = [all_done EXCEPT ![w] = TRUE]
    /\ \E k \in 0 .. MaxMisrouted - MISROUTED_DROPS : MISROUTED_DROPS' = MISROUTED_DROPS + k
    /\ UNCHANGED <<mainvars, n_conns, opened, conns, ctx>>

\* A slip: only the call in which a connection terminates returns true.
ReturnedNow(c, d) == ~c.done /\ d.done

\* What conn_step returns, having turned connection c into d.
Returned(c, d) == d.done

\* conn_step on the next connection of the pass.
ConnStep(w, d) ==
    /\ worker[w] = "loop" /\ step[w] < Len(conns[w])
    /\ conns' = [conns EXCEPT ![w][step[w] + 1] = d]
    /\ step' = [step EXCEPT ![w] = @ + 1]
    /\ all_done' = [all_done EXCEPT ![w] = @ /\ Returned(conns[w][step[w] + 1], d)]
    /\ UNCHANGED <<mainvars, worker, n_conns, opened, ctx, MISROUTED_DROPS>>

\* ... that is done already, or has nothing new: ConnSpec stutters.
StepStutter(w) ==
    /\ step[w] < Len(conns[w])
    /\ ConnStep(w, conns[w][step[w] + 1])

\* ... that counts k more bytes: ConnSpec!Receive.
StepReceive(w, k) ==
    /\ step[w] < Len(conns[w])
    /\ LET c == conns[w][step[w] + 1]
       IN  /\ ~c.done /\ c.bytes + k <= MaxBytes
           /\ ConnStep(w, [c EXCEPT !.bytes = @ + k])

\* ... that terminates: ConnSpec!Terminate.
StepTerminate(w) ==
    /\ step[w] < Len(conns[w])
    /\ LET c == conns[w][step[w] + 1]
       IN  /\ ~c.done
           /\ \E clean \in IF "abandon" \in Failures THEN BOOLEAN ELSE {TRUE} :
                 ConnStep(w, [c EXCEPT !.done = TRUE, !.clean = clean])

Results(s) ==
    [bytes_received |-> SumFunction([i \in DOMAIN s |-> s[i].bytes]),
     bytes_expected |-> SumFunction([i \in DOMAIN s |-> s[i].expected]),
     conns_total    |-> Len(s),
     conns_clean    |-> Cardinality({i \in DOMAIN s : s[i].clean})]

\* A pass that found every connection done ends the loop; the results are
\* stored and the thread returns.
WorkerEnd(w) ==
    /\ worker[w] = "loop" /\ step[w] = Len(conns[w]) /\ all_done[w]
    /\ ctx' = [ctx EXCEPT ![w] = Results(conns[w])]
    /\ Leave(w)
    /\ UNCHANGED <<mainvars, n_conns, opened, conns, step, all_done, MISROUTED_DROPS>>

-----------------------------------------------------------------------------
Worker(w) ==
    \/ WorkerStart(w)
    \/ OpenConn(w)
    \/ Poll(w)
    \/ StepStutter(w)
    \/ \E k \in 1 .. MaxBytes : StepReceive(w, k)
    \/ StepTerminate(w)
    \/ WorkerEnd(w)

Main == Spawn \/ Join \/ AddUp \/ Report \/ Exit

Next == Main \/ \E w \in Workers : Worker(w)

Spec == Init /\ [][Next]_vars

\* Main and every worker are threads of their own, each worker pinned to a CPU.
\* Nothing makes a connection terminate.
Fairness == WF_vars(Main) /\ \A w \in Workers : WF_vars(Worker(w))

FairSpec == Spec /\ Fairness

-----------------------------------------------------------------------------
(* Properties *)

ConnType == [block : Nat, expected : Nat, bytes : Nat, done : BOOLEAN, clean : BOOLEAN]

ResultsRecord ==
    [bytes_received : Nat, bytes_expected : Nat, conns_total : Nat, conns_clean : Nat]

\* Every variable keeps its type, no worker opens past the ports it has found,
\* and a pass steps no connection that does not exist.
TypeOK ==
    /\ FAULT_ABANDON_CONNS \in Nat /\ STUB_TLS_AFTER_HANDSHAKE \in BOOLEAN
    /\ n_workers \in 1 .. N_WORKERS_REQ
    /\ main \in {"spawn", "join", "sum", "report", "exit"} /\ at \in 0 .. n_workers - 1
    /\ total_b \in Nat /\ total_expected \in Nat /\ conns_total \in Nat /\ conns_clean \in Nat
    /\ verdict \in {"none", "COMPLETE", "INCOMPLETE"}
    /\ worker \in [Workers -> {"off", "start", "open", "loop", "ended"}]
    /\ n_conns \in [Workers -> 0 .. CONNS_PER_WORKER] /\ opened \in [Workers -> Nat]
    /\ conns \in [Workers -> Seq(ConnType)] /\ step \in [Workers -> Nat]
    /\ all_done \in [Workers -> BOOLEAN]
    /\ DOMAIN ctx = Workers /\ \A w \in Workers : ctx[w] \in ResultsRecord
    /\ MISROUTED_DROPS \in Nat
    /\ \A w \in Workers : /\ step[w] <= Len(conns[w])
                         /\ Len(conns[w]) <= opened[w] /\ opened[w] <= n_conns[w]

\* All connections ever opened, in any worker.
AllConns == {p \in Workers \X (1 .. CONNS_PER_WORKER) : p[2] \in DOMAIN conns[p[1]]}
ConnAt(p) == conns[p[1]][p[2]]
BytesCounted == SumFunction([p \in AllConns |-> ConnAt(p).bytes])

\* What COMPLETE is meant to say, of the connections themselves rather than of
\* the sums the workers left behind: each of the planned blocks has its
\* connection, each connection was closed by its peer after its request, the
\* bytes add up, and no frame went to a wrong queue.
RunComplete ==
    /\ {ConnAt(p).block : p \in AllConns} = 0 .. n_workers * CONNS_PER_WORKER - 1
    /\ \A p \in AllConns : ConnAt(p).done /\ ConnAt(p).clean
    /\ LET planned == n_workers * CONNS_PER_WORKER * BLOCK_SIZE
       IN  IF STUB_TLS_AFTER_HANDSHAKE THEN BytesCounted >= planned ELSE BytesCounted = planned
    /\ MISROUTED_DROPS = 0

\* The verdict is COMPLETE exactly when the run was: no worker that is still
\* running, gave up early, found too few ports or was refused a connection
\* is overlooked, and nothing a worker does afterwards makes the verdict stale.
VerdictExact == verdict # "none" => (verdict = "COMPLETE" <=> RunComplete)

\* The contexts are shared by raw pointer, and only the join orders main's reads
\* after the workers' writes: once main adds up, no worker opens, steps or counts
\* anything, or stores a result.
ContextsSettled == [][(main \in {"sum", "report", "exit"}) => UNCHANGED workvars]_vars

\* "setting this to 1 must turn a passing run into an INCOMPLETE one": with
\* FAULT_ABANDON_CONNS set, no run is reported COMPLETE.
FaultNoticed == FAULT_ABANDON_CONNS > 0 => verdict # "COMPLETE"

\* In the end every connection that was opened is done, cleanly or not.  Conn's
\* TerminatesOrStranded names the states in which one never is.
NoneStranded == <>[](\A p \in AllConns : ConnAt(p).done)

\* main gets to its verdict, however many connections its workers gave up and
\* whichever workers returned early, as long as none of them is stranded: the
\* loop of a worker has no other end.
Reports == NoneStranded => <>(verdict # "none")

\* Every range request lies inside an object that holds a block at all.
RangesInObject ==
    OBJECT_SIZE >= BLOCK_SIZE =>
        \A p \in AllConns : RangeEnd(ConnAt(p).block) < OBJECT_SIZE

\* While the planned blocks fit into the object, no byte of it is requested
\* by two connections.
DisjointWhenTheyFit ==
    n_workers * CONNS_PER_WORKER * BLOCK_SIZE <= OBJECT_SIZE =>
        \A p, q \in AllConns :
            p # q => \/ RangeEnd(ConnAt(p).block) < RangeStart(ConnAt(q).block)
                     \/ RangeEnd(ConnAt(q).block) < RangeStart(ConnAt(p).block)
==============================================================================
