----------------------------- MODULE BenchProofs -----------------------------
(***************************************************************************)
(* Proofs about Bench for any number of workers, connections and any       *)
(* sizes.  The invariant comes in two parts: IInv, which counts            *)
(* connections and proves what main may rely on and what is said of the   *)
(* block ranges; and ExactInv, which says what is in the sums (SumTheorems) and  *)
(* proves VerdictExact.                                                    *)
(***************************************************************************)
EXTENDS Bench, SumTheorems

\* The types the proofs need, of main's variables and of the workers'.
MainTyped ==
    /\ FAULT_ABANDON_CONNS \in Nat
    /\ n_workers \in 1 .. N_WORKERS_REQ
    /\ main \in {"spawn", "join", "sum", "report", "exit"}
    /\ at \in 0 .. n_workers - 1
    /\ conns_total \in Nat /\ conns_clean \in Nat

WorkTyped ==
    /\ worker \in [Workers -> {"off", "start", "open", "loop", "ended"}]
    /\ n_conns \in [Workers -> 0 .. CONNS_PER_WORKER]
    /\ opened \in [Workers -> Nat]
    /\ conns \in [Workers -> Seq(ConnType)]
    /\ step \in [Workers -> Nat]
    /\ all_done \in [Workers -> BOOLEAN]
    /\ DOMAIN ctx = Workers
    /\ MISROUTED_DROPS \in Nat

\* main's loops: which workers it has spawned and joined.
MainInv ==
    /\ \A w \in Workers : main = "spawn" /\ at <= w => worker[w] = "off"
    /\ \A w \in Workers : worker[w] # "off" => w < n_workers
    /\ \A w \in Workers : main = "join" /\ w < at => worker[w] = "ended"
    /\ \A w \in Workers :
          main \in {"sum", "report", "exit"} /\ w < n_workers => worker[w] = "ended"

\* The opening loop of one worker.
OpenInv(w) ==
    /\ worker[w] \in {"off", "start"} => opened[w] = 0
    /\ opened[w] <= ToOpen(w)
    /\ Len(conns[w]) <= opened[w]
    /\ step[w] <= Len(conns[w])

\* The blocks of one worker's connections.
BlocksInv(w) ==
    /\ \A i \in 1 .. Len(conns[w]) :
          /\ FirstBlock(w) <= conns[w][i].block
          /\ conns[w][i].block < FirstBlock(w) + opened[w]
    /\ \A i, j \in 1 .. Len(conns[w]) : i < j => conns[w][i].block < conns[w][j].block

\* A pass: while all_done stands, every connection stepped so far is done.
PassInv(w) ==
    worker[w] = "loop" /\ all_done[w] => \A i \in 1 .. step[w] : conns[w][i].done

\* What a worker left in its context when it ended.
CtxInv(w) ==
    /\ worker[w] # "ended" => ctx[w] = NoResults
    /\ worker[w] = "ended" =>
        /\ ctx[w].conns_total \in Nat /\ ctx[w].conns_clean \in Nat
        /\ ctx[w].conns_clean <= ctx[w].conns_total
        /\ ctx[w].conns_total <= Len(conns[w])
        /\ ctx[w].conns_total > 0 =>
              /\ ctx[w].conns_total = Len(conns[w])
              /\ \A i \in 1 .. Len(conns[w]) : conns[w][i].done
              /\ ctx[w].conns_clean = ctx[w].conns_total =>
                    \A i \in 1 .. Len(conns[w]) : conns[w][i].clean

\* How many contexts main has added up.
Summed == IF main = "sum" THEN at ELSE IF main \in {"report", "exit"} THEN n_workers ELSE 0

SumInv ==
    /\ conns_total <= Summed * CONNS_PER_WORKER
    /\ conns_clean <= conns_total
    /\ conns_total = Summed * CONNS_PER_WORKER =>
          \A w \in Workers : w < Summed => ctx[w].conns_total = CONNS_PER_WORKER
    /\ conns_clean = conns_total =>
          \A w \in Workers : w < Summed => ctx[w].conns_clean = ctx[w].conns_total

VerdictInv ==
    /\ verdict = "COMPLETE" =>
          main = "exit" /\ conns_clean = conns_total /\ Covered /\ MISROUTED_DROPS = 0

WorkerInv(w) == OpenInv(w) /\ BlocksInv(w) /\ PassInv(w) /\ CtxInv(w)

IInv == MainTyped /\ WorkTyped /\ MainInv /\ (\A w \in Workers : WorkerInv(w)) /\ SumInv /\ VerdictInv

-----------------------------------------------------------------------------
\* A block starts early enough to end inside the object.
LEMMA RangeStartBound ==
    ASSUME NEW b \in Nat
    PROVE  /\ RangeStart(b) \in 0 .. SaturatingSub(OBJECT_SIZE, BLOCK_SIZE)
           /\ b * BLOCK_SIZE <= SaturatingSub(OBJECT_SIZE, BLOCK_SIZE) =>
                 RangeStart(b) = b * BLOCK_SIZE
<1> DEFINE m == SaturatingSub(OBJECT_SIZE, BLOCK_SIZE) + 1
           x == b * BLOCK_SIZE
<1>1. m \in Nat \ {0} /\ x \in Nat /\ SaturatingSub(OBJECT_SIZE, BLOCK_SIZE) \in Nat
  BY ConfigAssumption DEF SaturatingSub
<1>2. RangeStart(b) = x % m
  BY DEF RangeStart
<1> HIDE DEF m, x
<1>3. x % m \in 0 .. m - 1 /\ (x < m => x % m = x)
  BY <1>1
<1>4. RangeStart(b) \in 0 .. m - 1 /\ (x <= m - 1 => RangeStart(b) = x)
  BY <1>1, <1>2, <1>3
<1>5. m - 1 = SaturatingSub(OBJECT_SIZE, BLOCK_SIZE)
  BY <1>1 DEF m
<1>6. QED BY <1>4, <1>5 DEF x

LEMMA ExpectedNat ==
    ASSUME NEW b \in Nat
    PROVE  Expected(b) \in Nat
BY RangeStartBound, ConfigAssumption DEF Expected, RangeEnd

LEMMA InitIInv == Init => IInv
<1> SUFFICES ASSUME Init PROVE IInv OBVIOUS
<1>1. MainTyped /\ WorkTyped
  <2>1. n_workers \in 1 .. N_WORKERS_REQ
    BY ConfigAssumption, BoundAssumption DEF Init, Clamp
  <2>2. QED BY <2>1, ConfigAssumption, KnobAssumption DEF Init, MainTyped, WorkTyped, Workers
<1>2. MainInv
  BY DEF Init, MainInv, Workers
<1>3. \A w \in Workers : WorkerInv(w)
  BY KnobAssumption DEF Init, WorkerInv, OpenInv, BlocksInv, PassInv, CtxInv, Workers, ToOpen, SaturatingSub
<1>4. SumInv /\ VerdictInv
  BY ConfigAssumption DEF Init, SumInv, Summed, VerdictInv, Workers
<1>5. QED BY <1>1, <1>2, <1>3, <1>4 DEF IInv

-----------------------------------------------------------------------------
(* main *)

LEMMA SpawnIInv == IInv /\ Spawn => IInv'
<1> SUFFICES ASSUME IInv, Spawn PROVE IInv' OBVIOUS
<1> USE ConfigAssumption DEF Workers
<1>1. at \in Workers /\ worker[at] = "off" /\ main = "spawn" /\ n_workers \in 1 .. N_WORKERS_REQ
  BY DEF IInv, MainTyped, MainInv, Spawn
<1>2. /\ UNCHANGED <<FAULT_ABANDON_CONNS, n_workers>> /\ verdict' = verdict
      /\ conns_total' = conns_total /\ conns_clean' = conns_clean
      /\ n_conns' = n_conns /\ opened' = opened /\ conns' = conns /\ step' = step
      /\ all_done' = all_done /\ ctx' = ctx /\ MISROUTED_DROPS' = MISROUTED_DROPS
  BY DEF Spawn, sums, build
<1>3. worker' = [worker EXCEPT ![at] = "start"]
  BY DEF Spawn
<1>4. \/ at + 1 = n_workers /\ main' = "join" /\ at' = 0
      \/ at + 1 # n_workers /\ main' = "spawn" /\ at' = at + 1
  BY <1>1 DEF Spawn, Turn
<1>5. MainTyped'
  BY <1>1, <1>2, <1>4 DEF IInv, MainTyped
<1>5a. WorkTyped'
  <2> USE DEF IInv, WorkTyped
  <2>1. worker' \in [Workers -> {"off", "start", "open", "loop", "ended"}]
    BY <1>3
  <2>2. QED BY <1>2, <2>1
<1>6. MainInv'
  <2>1. ASSUME NEW w \in Workers
        PROVE  worker'[w] = (IF w = at THEN "start" ELSE worker[w])
    BY <1>1, <1>3 DEF IInv, WorkTyped
  <2>2. ASSUME NEW w \in Workers, main' = "spawn", at' <= w PROVE worker'[w] = "off"
    BY <1>1, <1>4, <2>1, <2>2 DEF IInv, MainInv, MainTyped
  <2>3. ASSUME NEW w \in Workers, worker'[w] # "off" PROVE w < n_workers'
    BY <1>1, <1>2, <2>1, <2>3 DEF IInv, MainInv, MainTyped
  <2>4. main' \notin {"sum", "report", "exit"} /\ (main' = "join" => at' = 0)
    BY <1>4
  <2>5. QED BY <2>2, <2>3, <2>4 DEF MainInv
<1>7. ASSUME NEW w \in Workers PROVE WorkerInv(w)'
  <2>1. WorkerInv(w)
    BY DEF IInv
  <2>2. worker'[w] = (IF w = at THEN "start" ELSE worker[w])
    BY <1>1, <1>3 DEF IInv, WorkTyped
  <2>3. QED BY <2>1, <2>2, <1>1, <1>2 DEF WorkerInv, OpenInv, BlocksInv, PassInv, CtxInv, ToOpen
<1>8. SumInv' /\ VerdictInv'
  <2>1. Summed = 0 /\ Summed' = 0 /\ verdict # "COMPLETE"
    BY <1>1, <1>4 DEF Summed, IInv, VerdictInv
  <2>2. QED BY <2>1, <1>2 DEF IInv, SumInv, VerdictInv
<1>9. QED BY <1>5, <1>5a, <1>6, <1>7, <1>8 DEF IInv

\* The other steps of main leave every worker alone.
LEMMA MainFrame ==
    ASSUME IInv, UNCHANGED workvars, UNCHANGED <<FAULT_ABANDON_CONNS, n_workers>>,
           NEW w \in Workers
    PROVE  WorkerInv(w)'
<1>1. WorkerInv(w)
  BY DEF IInv
<1>2. QED BY <1>1 DEF workvars, WorkerInv, OpenInv, BlocksInv, PassInv, CtxInv, ToOpen

LEMMA JoinIInv == IInv /\ Join => IInv'
<1> SUFFICES ASSUME IInv, Join PROVE IInv' OBVIOUS
<1> USE ConfigAssumption DEF Workers
<1>1. /\ at \in Workers /\ worker[at] = "ended" /\ main = "join"
      /\ n_workers \in 1 .. N_WORKERS_REQ
  BY DEF IInv, MainTyped, Join, Joined
<1>2. /\ UNCHANGED <<FAULT_ABANDON_CONNS, n_workers>> /\ verdict' = verdict /\ UNCHANGED workvars
      /\ conns_total' = conns_total /\ conns_clean' = conns_clean
  BY DEF Join, sums, build
<1>3. \/ at + 1 = n_workers /\ main' = "sum" /\ at' = 0
      \/ at + 1 # n_workers /\ main' = "join" /\ at' = at + 1
  BY <1>1 DEF Join, Turn
<1>4. MainTyped' /\ WorkTyped'
  <2>1. MainTyped'
    BY <1>1, <1>2, <1>3 DEF IInv, MainTyped
  <2>2. QED BY <1>2, <2>1 DEF IInv, WorkTyped, workvars
<1>5. MainInv'
  <2>1. worker' = worker
    BY <1>2 DEF workvars
  <2>2. ASSUME NEW w \in Workers, w <= at PROVE worker[w] = "ended"
    BY <1>1, <2>2 DEF IInv, MainInv
  <2>3. QED BY <1>1, <1>2, <1>3, <2>1, <2>2 DEF IInv, MainInv
<1>6. \A w \in Workers : WorkerInv(w)'
  BY <1>2, MainFrame
<1>7. SumInv' /\ VerdictInv'
  <2>1. Summed = 0 /\ Summed' = 0 /\ verdict # "COMPLETE"
    BY <1>1, <1>3 DEF Summed, IInv, VerdictInv
  <2>2. QED BY <2>1, <1>2 DEF IInv, SumInv, VerdictInv, workvars
<1>8. QED BY <1>4, <1>5, <1>6, <1>7 DEF IInv

LEMMA AddUpIInv == IInv /\ AddUp => IInv'
<1> SUFFICES ASSUME IInv, AddUp PROVE IInv' OBVIOUS
<1> USE ConfigAssumption DEF Workers
<1>1. /\ at \in Workers /\ worker[at] = "ended" /\ main = "sum"
      /\ n_workers \in 1 .. N_WORKERS_REQ /\ at < n_workers
  BY DEF IInv, MainTyped, MainInv, AddUp
<1>2. /\ UNCHANGED <<FAULT_ABANDON_CONNS, n_workers>> /\ verdict' = verdict /\ UNCHANGED workvars
      /\ conns_total' = conns_total + ctx[at].conns_total
      /\ conns_clean' = conns_clean + ctx[at].conns_clean
  BY DEF AddUp, build
<1>3. \/ at + 1 = n_workers /\ main' = "report" /\ at' = 0
      \/ at + 1 # n_workers /\ main' = "sum" /\ at' = at + 1
  BY <1>1 DEF AddUp, Turn
<1>4. /\ ctx[at].conns_total \in Nat /\ ctx[at].conns_clean \in Nat
      /\ ctx[at].conns_clean <= ctx[at].conns_total
      /\ ctx[at].conns_total <= CONNS_PER_WORKER
  <2>1. CtxInv(at) /\ OpenInv(at)
    BY <1>1 DEF IInv, WorkerInv
  <2>2. ToOpen(at) <= CONNS_PER_WORKER /\ ToOpen(at) \in Nat
    <3>1. n_conns[at] \in 0 .. CONNS_PER_WORKER /\ FAULT_ABANDON_CONNS \in Nat
      BY <1>1 DEF IInv, MainTyped, WorkTyped
    <3>2. QED BY <3>1 DEF ToOpen, SaturatingSub
  <2>3. Len(conns[at]) \in Nat /\ opened[at] \in Nat
    BY <1>1 DEF IInv, WorkTyped
  <2>4. QED BY <1>1, <2>1, <2>2, <2>3 DEF CtxInv, OpenInv
<1>5. MainTyped' /\ WorkTyped'
  <2>1. MainTyped'
    BY <1>1, <1>2, <1>3, <1>4 DEF IInv, MainTyped
  <2>2. QED BY <1>2, <2>1 DEF IInv, WorkTyped, workvars
<1>6. MainInv'
  <2>1. worker' = worker
    BY <1>2 DEF workvars
  <2>2. QED BY <1>1, <1>2, <1>3, <2>1 DEF IInv, MainInv
<1>7. \A w \in Workers : WorkerInv(w)'
  BY <1>2, MainFrame
<1>8. SumInv'
  <2>1. Summed = at /\ Summed' = at + 1
    BY <1>1, <1>2, <1>3 DEF Summed
  <2>2. at * CONNS_PER_WORKER \in Nat
        /\ (at + 1) * CONNS_PER_WORKER = at * CONNS_PER_WORKER + CONNS_PER_WORKER
    BY <1>1
  <2>3. /\ conns_total <= at * CONNS_PER_WORKER /\ conns_clean <= conns_total
        /\ conns_total \in Nat /\ conns_clean \in Nat
    BY <2>1 DEF IInv, SumInv, MainTyped
  <2>4. /\ conns_total' <= (at + 1) * CONNS_PER_WORKER
        /\ conns_clean' <= conns_total'
    BY <1>2, <1>4, <2>2, <2>3
  <2>5. ASSUME conns_total' = (at + 1) * CONNS_PER_WORKER, NEW w \in Workers, w < at + 1
        PROVE  ctx[w].conns_total = CONNS_PER_WORKER
    <3> DEFINE before == at * CONNS_PER_WORKER
    <3>0. conns_total + ctx[at].conns_total = before + CONNS_PER_WORKER /\ before \in Nat
          /\ conns_total <= before
      BY <1>2, <2>2, <2>3, <2>5
    <3> HIDE DEF before
    <3>1. conns_total = before /\ ctx[at].conns_total = CONNS_PER_WORKER
      BY <1>4, <2>3, <3>0
    <3>2. CASE w < at
      BY <3>1, <3>2, <2>1 DEF IInv, SumInv, before
    <3>3. CASE w = at
      BY <3>1, <3>3
    <3>4. QED BY <1>1, <2>5, <3>2, <3>3
  <2>6. ASSUME conns_clean' = conns_total', NEW w \in Workers, w < at + 1
        PROVE  ctx[w].conns_clean = ctx[w].conns_total
    <3>1. conns_clean = conns_total /\ ctx[at].conns_clean = ctx[at].conns_total
      BY <1>2, <1>4, <2>3, <2>6
    <3>2. CASE w < at
      BY <3>1, <3>2, <2>1 DEF IInv, SumInv
    <3>3. CASE w = at
      BY <3>1, <3>3
    <3>4. QED BY <1>1, <2>6, <3>2, <3>3
  <2>7. ctx' = ctx
    BY <1>2 DEF workvars
  <2>8. QED BY <2>1, <2>4, <2>5, <2>6, <2>7 DEF SumInv
<1>9. VerdictInv'
  BY <1>1, <1>2 DEF IInv, VerdictInv
<1>10. QED BY <1>5, <1>6, <1>7, <1>8, <1>9 DEF IInv

LEMMA ReportIInv == IInv /\ Report => IInv'
<1> SUFFICES ASSUME IInv, Report PROVE IInv' OBVIOUS
<1>1. /\ main = "report" /\ main' = "exit" /\ UNCHANGED <<FAULT_ABANDON_CONNS, n_workers>> /\ at' = at
      /\ UNCHANGED workvars
      /\ conns_total' = conns_total /\ conns_clean' = conns_clean
  BY DEF Report, sums, build
<1>2. verdict' = "COMPLETE" => RangesOk /\ Covered /\ MISROUTED_DROPS = 0
  BY DEF Report
<1>3. MainTyped' /\ WorkTyped' /\ MainInv'
  BY <1>1 DEF IInv, MainTyped, WorkTyped, MainInv, workvars
<1>4. \A w \in Workers : WorkerInv(w)'
  BY <1>1, MainFrame
<1>5. SumInv'
  BY <1>1 DEF IInv, SumInv, Summed, workvars
<1>6. VerdictInv'
  BY <1>1, <1>2 DEF VerdictInv, RangesOk, Covered, workvars
<1>7. QED BY <1>3, <1>4, <1>5, <1>6 DEF IInv

-----------------------------------------------------------------------------
(* workers *)

\* Whatever a running worker does to its own variables, main's part of the
\* invariant stands: main has not joined it yet.
LEMMA MainUnmoved ==
    ASSUME IInv, UNCHANGED mainvars,
           NEW w \in Workers, worker[w] \in {"start", "open", "loop"}, worker'[w] # "off",
           \A v \in Workers : v # w => worker'[v] = worker[v]
    PROVE  MainTyped' /\ MainInv' /\ SumInv' /\ VerdictInv'
<1> USE ConfigAssumption DEF mainvars, sums, build
<1>1. MainTyped'
  BY DEF IInv, MainTyped
<1>2. w < n_workers /\ n_workers \in Nat /\ at \in Nat /\ w \in Nat
  BY DEF IInv, MainInv, MainTyped, Workers
<1>3. main \in {"spawn", "join"} /\ (main = "spawn" => w < at) /\ (main = "join" => at <= w)
  BY <1>2 DEF IInv, MainInv, MainTyped
<1>4. MainInv'
  BY <1>2, <1>3 DEF IInv, MainInv
<1>5. Summed = 0 /\ Summed' = 0 /\ verdict # "COMPLETE"
  BY <1>3 DEF Summed, IInv, VerdictInv
<1>6. SumInv'
  <2>1. \A v \in Workers : ~(v < 0)
    BY DEF Workers
  <2>2. QED BY <1>5, <2>1 DEF IInv, SumInv
<1>7. QED BY <1>1, <1>4, <1>5, <1>6 DEF VerdictInv

\* The invariant of a worker depends on its own variables only.
LEMMA OtherWorker ==
    ASSUME IInv, UNCHANGED mainvars, NEW v \in Workers,
           worker'[v] = worker[v], n_conns'[v] = n_conns[v], opened'[v] = opened[v],
           conns'[v] = conns[v], step'[v] = step[v], all_done'[v] = all_done[v],
           ctx'[v] = ctx[v]
    PROVE  WorkerInv(v)'
<1>1. WorkerInv(v)
  BY DEF IInv
<1>2. OpenInv(v)' /\ CtxInv(v)'
  BY <1>1 DEF WorkerInv, OpenInv, CtxInv, ToOpen, mainvars, build
<1>3. BlocksInv(v)' /\ PassInv(v)'
  BY <1>1 DEF WorkerInv, BlocksInv, PassInv
<1>4. QED BY <1>2, <1>3 DEF WorkerInv

LEMMA WorkerStartIInv ==
    ASSUME IInv, NEW w \in Workers, WorkerStart(w) PROVE IInv'
<1> USE DEF WorkTyped
<1>0. WorkTyped /\ WorkerInv(w) /\ worker[w] = "start"
  BY DEF IInv, WorkerStart
<1>1. /\ UNCHANGED mainvars /\ opened' = opened /\ conns' = conns /\ step' = step
      /\ all_done' = all_done /\ ctx' = ctx /\ MISROUTED_DROPS' = MISROUTED_DROPS
  BY DEF WorkerStart
<1>2. PICK to \in {"open", "ended"} : worker' = [worker EXCEPT ![w] = to]
  BY DEF WorkerStart, Leave
<1>3. PICK k \in 0 .. CONNS_PER_WORKER : n_conns' = [n_conns EXCEPT ![w] = k]
  <2>1. CASE n_conns' = n_conns
    <3>1. n_conns' = [n_conns EXCEPT ![w] = n_conns[w]]
      BY <1>0, <2>1
    <3>2. QED BY <1>0, <3>1
  <2>2. CASE n_conns' # n_conns
    BY <2>2, ConfigAssumption DEF WorkerStart
  <2>3. QED BY <2>1, <2>2
<1>4. WorkTyped'
  <2>1. worker' \in [Workers -> {"off", "start", "open", "loop", "ended"}]
    BY <1>0, <1>2
  <2>2. n_conns' \in [Workers -> 0 .. CONNS_PER_WORKER]
    BY <1>0, <1>3
  <2>3. QED BY <1>0, <1>1, <2>1, <2>2
<1>5. /\ worker'[w] = to /\ n_conns'[w] = k
      /\ \A v \in Workers : v # w => worker'[v] = worker[v] /\ n_conns'[v] = n_conns[v]
  BY <1>0, <1>2, <1>3
<1>6. MainTyped' /\ MainInv' /\ SumInv' /\ VerdictInv'
  BY <1>0, <1>1, <1>5, MainUnmoved
<1>7. \A v \in Workers : v # w => WorkerInv(v)'
  BY <1>1, <1>5, OtherWorker
<1>8. WorkerInv(w)'
  <2>1. opened[w] = 0 /\ Len(conns[w]) = 0 /\ step[w] = 0
    BY <1>0 DEF WorkerInv, OpenInv
  <2>2. ToOpen(w)' \in Nat
    BY <1>1, <1>5 DEF IInv, MainTyped, ToOpen, SaturatingSub, mainvars, build
  <2>3. ctx[w].conns_total = 0 /\ ctx[w].conns_clean = 0
    BY <1>0 DEF WorkerInv, CtxInv, NoResults
  <2>4. OpenInv(w)' /\ CtxInv(w)'
    BY <1>0, <1>1, <1>5, <2>1, <2>2, <2>3 DEF WorkerInv, OpenInv, CtxInv
  <2>5. BlocksInv(w)' /\ PassInv(w)'
    BY <1>0, <1>1, <1>5, <2>1 DEF WorkerInv, BlocksInv, PassInv
  <2>6. QED BY <2>4, <2>5 DEF WorkerInv
<1>9. QED BY <1>4, <1>6, <1>7, <1>8 DEF IInv

LEMMA OpenConnIInv ==
    ASSUME IInv, NEW w \in Workers, OpenConn(w) PROVE IInv'
<1> USE DEF WorkTyped
<1>0. /\ WorkTyped /\ WorkerInv(w) /\ worker[w] = "open" /\ opened[w] < ToOpen(w)
      /\ ToOpen(w) \in Nat /\ opened[w] \in Nat /\ ctx[w] = NoResults
  BY DEF IInv, MainTyped, OpenConn, ToOpen, SaturatingSub, WorkerInv, CtxInv
<1>1. /\ UNCHANGED mainvars /\ n_conns' = n_conns /\ step' = step
      /\ all_done' = all_done /\ ctx' = ctx /\ MISROUTED_DROPS' = MISROUTED_DROPS
  BY DEF OpenConn
<1>2. \A v \in Workers : ToOpen(v)' = ToOpen(v)
  BY <1>1 DEF ToOpen, mainvars, build
<1>3. CASE UNCHANGED <<conns, opened>> /\ worker' = [worker EXCEPT ![w] = "ended"]
  <2>1. worker' \in [Workers -> {"off", "start", "open", "loop", "ended"}]
    BY <1>0, <1>3
  <2>2. WorkTyped'
    BY <1>0, <1>1, <1>3, <2>1
  <2>3. worker'[w] = "ended" /\ \A v \in Workers : v # w => worker'[v] = worker[v]
    BY <1>0, <1>3
  <2>4. MainTyped' /\ MainInv' /\ SumInv' /\ VerdictInv'
    BY <1>0, <1>1, <2>3, MainUnmoved
  <2>5. \A v \in Workers : v # w => WorkerInv(v)'
    BY <1>1, <1>3, <2>3, OtherWorker
  <2>6. WorkerInv(w)'
    <3>1. OpenInv(w)' /\ CtxInv(w)'
      BY <1>0, <1>1, <1>2, <1>3, <2>3 DEF WorkerInv, OpenInv, CtxInv, NoResults
    <3>2. BlocksInv(w)' /\ PassInv(w)'
      BY <1>0, <1>1, <1>3, <2>3 DEF WorkerInv, BlocksInv, PassInv
    <3>3. QED BY <3>1, <3>2 DEF WorkerInv
  <2>7. QED BY <2>2, <2>4, <2>5, <2>6 DEF IInv
<1>4. CASE /\ opened' = [opened EXCEPT ![w] = @ + 1] /\ worker' = worker
           /\ conns' \in {conns, [conns EXCEPT ![w] =
                                    Append(@, NewConn(FirstBlock(w) + opened[w]))]}
  <2> DEFINE b == FirstBlock(w) + opened[w]
             new == NewConn(b)
  <2>1. FirstBlock(w) \in Nat /\ b \in Nat
    <3>1. w \in Nat /\ CONNS_PER_WORKER \in Nat
      BY ConfigAssumption DEF Workers
    <3>2. w * CONNS_PER_WORKER \in Nat
      BY <3>1
    <3>3. QED BY <1>0, <3>2 DEF FirstBlock
  <2>2. new \in ConnType /\ new.block = b
    BY <2>1, ExpectedNat DEF NewConn, ConnType
  <2>3. conns[w] \in Seq(ConnType) /\ conns'[w] \in {conns[w], Append(conns[w], new)}
        /\ opened'[w] = opened[w] + 1
    BY <1>0, <1>4
  <2>4. \A v \in Workers : v # w => conns'[v] = conns[v] /\ opened'[v] = opened[v]
    BY <1>0, <1>4
  <2> HIDE DEF new
  <2>5. conns' \in [Workers -> Seq(ConnType)] /\ opened' \in [Workers -> Nat]
    <3>1. conns'[w] \in Seq(ConnType)
      <4>1. Append(conns[w], new) \in Seq(ConnType)
        <5>1. conns[w] \in Seq(ConnType) /\ new \in ConnType
          BY <2>2, <2>3
        <5>2. QED BY <5>1
      <4>2. CASE conns'[w] = conns[w]
        BY <2>3, <4>2
      <4>3. CASE conns'[w] = Append(conns[w], new)
        BY <4>1, <4>3
      <4>4. QED BY <2>3, <4>2, <4>3
    <3>2. conns' = [conns EXCEPT ![w] = conns'[w]]
      BY <1>0, <1>4, <2>3
    <3>3. conns' \in [Workers -> Seq(ConnType)]
      BY <1>0, <3>1, <3>2
    <3>4. opened' \in [Workers -> Nat]
      BY <1>0, <1>4
    <3>5. QED BY <3>3, <3>4
  <2>6. WorkTyped'
    BY <1>0, <1>1, <1>4, <2>5
  <2>7. MainTyped' /\ MainInv' /\ SumInv' /\ VerdictInv'
    BY <1>0, <1>1, <1>4, MainUnmoved
  <2>8. \A v \in Workers : v # w => WorkerInv(v)'
    BY <1>1, <1>4, <2>4, OtherWorker
  <2>9. WorkerInv(w)'
    <3> DEFINE s == conns[w]
               t == conns'[w]
    <3>1. /\ s \in Seq(ConnType) /\ t \in Seq(ConnType)
          /\ Len(s) \in Nat /\ Len(t) \in {Len(s), Len(s) + 1}
          /\ \A i \in 1 .. Len(s) : t[i] = s[i]
          /\ Len(t) = Len(s) + 1 => t[Len(s) + 1] = new
      <4>1. s \in Seq(ConnType) /\ t \in {s, Append(s, new)}
        BY <2>3
      <4> HIDE DEF s, t
      <4>2. CASE t = s
        BY <4>1, <4>2
      <4>3. CASE t = Append(s, new)
        BY <2>2, <4>1, <4>3
      <4>4. QED BY <4>1, <4>2, <4>3
    <3> HIDE DEF s, t
    <3>2. OpenInv(w)
      BY <1>0 DEF WorkerInv
    <3>3. OpenInv(w)'
      BY <1>0, <1>1, <1>2, <1>4, <2>3, <3>1, <3>2 DEF OpenInv, s, t
    <3>4. BlocksInv(w)'
      <4>1. \A i \in 1 .. Len(s) : FirstBlock(w) <= s[i].block /\ s[i].block < b
        BY <1>0 DEF WorkerInv, BlocksInv, s
      <4>2. \A i, j \in 1 .. Len(s) : i < j => s[i].block < s[j].block
        BY <1>0 DEF WorkerInv, BlocksInv, s
      <4>3. \A i \in 1 .. Len(s) : s[i].block \in Nat
        <5>1. \A i \in 1 .. Len(s) : s[i] \in ConnType
          BY <3>1
        <5>2. QED BY <5>1 DEF ConnType
      <4>4. FirstBlock(w)' = FirstBlock(w)
        BY DEF FirstBlock
      <4>5. ASSUME NEW i \in 1 .. Len(t)
            PROVE  FirstBlock(w) <= t[i].block /\ t[i].block < FirstBlock(w) + opened'[w]
        <5>1. CASE i \in 1 .. Len(s)
          <6>1. t[i] = s[i] /\ s[i].block \in Nat /\ FirstBlock(w) <= s[i].block
                /\ s[i].block < b
            BY <3>1, <4>1, <4>3, <5>1
          <6>2. QED BY <1>0, <2>1, <2>3, <6>1
        <5>2. CASE i \notin 1 .. Len(s)
          <6>1. t[i].block = b
            BY <2>2, <3>1, <4>5, <5>2
          <6>2. QED BY <1>0, <2>1, <2>3, <6>1
        <5>3. QED BY <5>1, <5>2
      <4>6. ASSUME NEW i \in 1 .. Len(t), NEW j \in 1 .. Len(t), i < j
            PROVE  t[i].block < t[j].block
        BY <2>1, <2>2, <3>1, <4>1, <4>2, <4>3, <4>6, SMTT(60)
      <4>7. QED BY <4>4, <4>5, <4>6 DEF BlocksInv, t
    <3>5. PassInv(w)' /\ CtxInv(w)'
      BY <1>0, <1>1, <1>4 DEF WorkerInv, PassInv, CtxInv
    <3>6. QED BY <3>3, <3>4, <3>5 DEF WorkerInv
  <2>10. QED BY <2>6, <2>7, <2>8, <2>9 DEF IInv
<1>5. QED BY <1>3, <1>4 DEF OpenConn, Leave

LEMMA PollIInv ==
    ASSUME IInv, NEW w \in Workers, Poll(w) PROVE IInv'
<1> USE DEF WorkTyped
<1>0. /\ WorkTyped /\ WorkerInv(w) /\ worker[w] \in {"open", "loop"} /\ ctx[w] = NoResults
  BY DEF IInv, Poll, WorkerInv, CtxInv
<1>1. /\ UNCHANGED mainvars /\ n_conns' = n_conns /\ opened' = opened
      /\ conns' = conns /\ ctx' = ctx
  BY DEF Poll
<1>2. /\ worker' = [worker EXCEPT ![w] = "loop"] /\ step' = [step EXCEPT ![w] = 0]
      /\ all_done' = [all_done EXCEPT ![w] = TRUE]
  BY DEF Poll
<1>3. MISROUTED_DROPS' \in Nat
  BY <1>0, BoundAssumption DEF Poll
<1>4. WorkTyped'
  <2>1. worker' \in [Workers -> {"off", "start", "open", "loop", "ended"}]
    BY <1>0, <1>2
  <2>2. step' \in [Workers -> Nat]
    BY <1>0, <1>2
  <2>3. all_done' \in [Workers -> BOOLEAN]
    BY <1>0, <1>2
  <2>4. QED BY <1>0, <1>1, <1>3, <2>1, <2>2, <2>3
<1>5. /\ worker'[w] = "loop" /\ step'[w] = 0
      /\ \A v \in Workers : v # w => /\ worker'[v] = worker[v] /\ step'[v] = step[v]
                                     /\ all_done'[v] = all_done[v]
  BY <1>0, <1>2
<1>6. MainTyped' /\ MainInv' /\ SumInv' /\ VerdictInv'
  BY <1>0, <1>1, <1>5, MainUnmoved
<1>7. \A v \in Workers : v # w => WorkerInv(v)'
  BY <1>1, <1>5, OtherWorker
<1>8. WorkerInv(w)'
  <2>1. OpenInv(w)'
    <3>1. Len(conns[w]) \in Nat
      BY <1>0
    <3>2. QED BY <1>0, <1>1, <1>5, <3>1 DEF WorkerInv, OpenInv, ToOpen, mainvars, build
  <2>2. BlocksInv(w)'
    BY <1>0, <1>1 DEF WorkerInv, BlocksInv
  <2>3. PassInv(w)'
    BY <1>5 DEF PassInv
  <2>4. CtxInv(w)'
    BY <1>0, <1>1, <1>5 DEF CtxInv
  <2>5. QED BY <2>1, <2>2, <2>3, <2>4 DEF WorkerInv
<1>9. QED BY <1>4, <1>6, <1>7, <1>8 DEF IInv

\* A call of conn_step that keeps the block and never undoes done.
LEMMA ConnStepIInv ==
    ASSUME IInv, NEW w \in Workers, NEW d, ConnStep(w, d), d \in ConnType,
           d.block = conns[w][step[w] + 1].block,
           conns[w][step[w] + 1].done => d.done
    PROVE  IInv'
<1> USE DEF WorkTyped
<1> DEFINE s == conns[w]
           t == conns'[w]
           n == step[w] + 1
<1>0. /\ WorkTyped /\ WorkerInv(w) /\ worker[w] = "loop" /\ ctx[w] = NoResults
      /\ step[w] \in Nat /\ step[w] < Len(conns[w]) /\ conns[w] \in Seq(ConnType)
      /\ all_done[w] \in BOOLEAN
  BY DEF IInv, ConnStep, WorkerInv, CtxInv
<1>1. /\ UNCHANGED mainvars /\ worker' = worker /\ n_conns' = n_conns /\ opened' = opened
      /\ ctx' = ctx /\ MISROUTED_DROPS' = MISROUTED_DROPS
  BY DEF ConnStep
<1>2. /\ conns' = [conns EXCEPT ![w] = [conns[w] EXCEPT ![step[w] + 1] = d]]
      /\ step' = [step EXCEPT ![w] = step[w] + 1]
      /\ all_done' = [all_done EXCEPT ![w] = all_done[w] /\ d.done]
  BY DEF ConnStep, Returned
<1>3. /\ t = [s EXCEPT ![n] = d] /\ step'[w] = n /\ (all_done'[w] => all_done[w] /\ d.done)
      /\ \A v \in Workers : v # w => /\ conns'[v] = conns[v] /\ step'[v] = step[v]
                                     /\ all_done'[v] = all_done[v]
  <2>1. t = [s EXCEPT ![n] = d] /\ step'[w] = n
    BY <1>0, <1>2
  <2>2. all_done'[w] => all_done[w] /\ d.done
    BY <1>0, <1>2
  <2>3. QED BY <1>0, <1>2, <2>1, <2>2
<1>4. s \in Seq(ConnType) /\ n \in 1 .. Len(s)
  BY <1>0
<1>4a. s[n].done => d.done
  OBVIOUS
<1>4b. d.block = s[n].block
  OBVIOUS
<1> HIDE DEF s, t, n
<1>5. /\ t \in Seq(ConnType) /\ Len(t) = Len(s) /\ t[n] = d
      /\ \A i \in 1 .. Len(s) : i # n => t[i] = s[i]
  BY <1>3, <1>4
<1>6. WorkTyped'
  <2>1. conns' \in [Workers -> Seq(ConnType)]
    <3>1. conns' = [conns EXCEPT ![w] = t]
      BY <1>2, <1>3 DEF s, t, n
    <3>2. QED BY <1>0, <1>5, <3>1
  <2>2. step' \in [Workers -> Nat]
    BY <1>0, <1>2
  <2>3. all_done' \in [Workers -> BOOLEAN]
    <3>1. d.done \in BOOLEAN
      BY DEF ConnType
    <3>2. (all_done[w] /\ d.done) \in BOOLEAN
      BY <3>1
    <3>3. QED BY <1>0, <1>2, <3>2
  <2>4. QED BY <1>0, <1>1, <2>1, <2>2, <2>3
<1>7. MainTyped' /\ MainInv' /\ SumInv' /\ VerdictInv'
  BY <1>0, <1>1, MainUnmoved
<1>8. \A v \in Workers : v # w => WorkerInv(v)'
  BY <1>1, <1>3, OtherWorker
<1>9. WorkerInv(w)'
  <2>1. OpenInv(w)'
    <3>1. Len(t) = Len(s) /\ n <= Len(s) /\ ToOpen(w)' = ToOpen(w)
      BY <1>1, <1>4, <1>5 DEF ToOpen, mainvars, build
    <3>2. QED BY <1>0, <1>1, <1>3, <3>1 DEF WorkerInv, OpenInv, s, t
  <2>2. BlocksInv(w)'
    <3>1. \A i \in 1 .. Len(s) : t[i].block = s[i].block
      BY <1>4b, <1>5
    <3>2. QED BY <1>0, <1>1, <1>5, <3>1 DEF WorkerInv, BlocksInv, FirstBlock, s, t
  <2>3. PassInv(w)'
    <3>1. ASSUME all_done'[w], NEW i \in 1 .. n PROVE t[i].done
      <4>1. all_done[w] /\ d.done
        BY <1>3, <3>1
      <4>2. CASE i = n
        BY <4>1, <4>2, <1>5
      <4>3. CASE i # n
        <5>1. i \in 1 .. step[w] /\ i \in 1 .. Len(s)
          BY <1>0, <1>4, <3>1, <4>3 DEF n
        <5>2. s[i].done
          BY <1>0, <4>1, <5>1 DEF WorkerInv, PassInv, s
        <5>3. QED BY <1>5, <4>3, <5>1, <5>2
      <4>4. QED BY <4>2, <4>3
    <3>2. QED BY <1>3, <3>1 DEF PassInv, t
  <2>4. CtxInv(w)'
    BY <1>0, <1>1 DEF WorkerInv, CtxInv
  <2>5. QED BY <2>1, <2>2, <2>3, <2>4 DEF WorkerInv
<1>10. QED BY <1>6, <1>7, <1>8, <1>9 DEF IInv

LEMMA StepIInv ==
    ASSUME IInv, NEW w \in Workers,
           \/ StepStutter(w)
           \/ \E k \in 1 .. MaxBytes : StepReceive(w, k)
           \/ StepTerminate(w)
    PROVE  IInv'
<1> DEFINE c == conns[w][step[w] + 1]
<1>1. c \in ConnType
  <2>1. conns[w] \in Seq(ConnType) /\ step[w] \in Nat /\ step[w] < Len(conns[w])
    BY DEF IInv, WorkTyped, StepStutter, StepReceive, StepTerminate
  <2>2. QED BY <2>1
<1> HIDE DEF c
<1>2. CASE StepStutter(w)
  <2>1. ConnStep(w, c)
    BY <1>2 DEF StepStutter, c
  <2>2. QED BY <1>1, <2>1, ConnStepIInv DEF c
<1>3. CASE \E k \in 1 .. MaxBytes : StepReceive(w, k)
  <2>1. PICK k \in 1 .. MaxBytes : StepReceive(w, k)
    BY <1>3
  <2> DEFINE d == [c EXCEPT !.bytes = @ + k]
  <2>2. ConnStep(w, d)
    BY <2>1 DEF StepReceive, c
  <2>3. d \in ConnType /\ d.block = c.block /\ (c.done => d.done)
    BY <1>1, BoundAssumption DEF ConnType
  <2>4. QED BY <2>2, <2>3, ConnStepIInv DEF c
<1>4. CASE StepTerminate(w)
  <2>1. PICK clean \in BOOLEAN : ConnStep(w, [c EXCEPT !.done = TRUE, !.clean = clean])
    BY <1>4 DEF StepTerminate, c
  <2> DEFINE d == [c EXCEPT !.done = TRUE, !.clean = clean]
  <2>2. d \in ConnType /\ d.block = c.block /\ (c.done => d.done)
    BY <1>1 DEF ConnType
  <2>3. QED BY <2>1, <2>2, ConnStepIInv DEF c
<1>5. QED BY <1>2, <1>3, <1>4

\* Counting the clean connections: the count is at most the number of
\* connections, and reaches it only if all of them are clean.
LEMMA CleanCount ==
    ASSUME NEW s \in Seq(ConnType)
    PROVE  LET C == {i \in DOMAIN s : s[i].clean}
           IN  /\ Cardinality(C) \in Nat
               /\ Cardinality(C) <= Len(s)
               /\ Cardinality(C) = Len(s) => \A i \in 1 .. Len(s) : s[i].clean
<1> DEFINE C == {i \in 1 .. Len(s) : s[i].clean}
<1>1. Len(s) \in Nat /\ DOMAIN s = 1 .. Len(s)
  OBVIOUS
<1>2. IsFiniteSet(1 .. Len(s)) /\ Cardinality(1 .. Len(s)) = Len(s)
  <2>1. /\ IsFiniteSet(1 .. Len(s))
        /\ Cardinality(1 .. Len(s)) = IF 1 > Len(s) THEN 0 ELSE Len(s) - 1 + 1
    BY <1>1, FS_Interval
  <2>2. QED BY <1>1, <2>1
<1>3. C \subseteq 1 .. Len(s)
  OBVIOUS
<1>4. /\ IsFiniteSet(C) /\ Cardinality(C) <= Cardinality(1 .. Len(s))
      /\ Cardinality(C) = Cardinality(1 .. Len(s)) => C = 1 .. Len(s)
  BY <1>2, <1>3, FS_Subset
<1>5. Cardinality(C) \in Nat
  BY <1>4, FS_CardinalityType
<1>6. QED BY <1>1, <1>2, <1>4, <1>5

LEMMA WorkerEndIInv ==
    ASSUME IInv, NEW w \in Workers, WorkerEnd(w) PROVE IInv'
<1> USE DEF WorkTyped
<1>0. /\ WorkTyped /\ WorkerInv(w) /\ worker[w] = "loop" /\ all_done[w]
      /\ step[w] = Len(conns[w]) /\ conns[w] \in Seq(ConnType)
  BY DEF IInv, WorkerEnd
<1>1. /\ UNCHANGED mainvars /\ n_conns' = n_conns /\ opened' = opened /\ conns' = conns
      /\ step' = step /\ all_done' = all_done /\ MISROUTED_DROPS' = MISROUTED_DROPS
  BY DEF WorkerEnd
<1>2. /\ worker' = [worker EXCEPT ![w] = "ended"]
      /\ ctx' = [ctx EXCEPT ![w] = Results(conns[w])]
  BY DEF WorkerEnd, Leave
<1>3. WorkTyped'
  <2>1. worker' \in [Workers -> {"off", "start", "open", "loop", "ended"}]
    BY <1>0, <1>2
  <2>2. DOMAIN ctx' = Workers
    BY <1>0, <1>2
  <2>3. QED BY <1>0, <1>1, <2>1, <2>2
<1>4. /\ worker'[w] = "ended" /\ ctx'[w] = Results(conns[w])
      /\ \A v \in Workers : v # w => worker'[v] = worker[v] /\ ctx'[v] = ctx[v]
  BY <1>0, <1>2
<1>5. MainTyped' /\ MainInv' /\ SumInv' /\ VerdictInv'
  BY <1>0, <1>1, <1>4, MainUnmoved
<1>6. \A v \in Workers : v # w => WorkerInv(v)'
  BY <1>1, <1>4, OtherWorker
<1>7. WorkerInv(w)'
  <2>1. OpenInv(w)' /\ PassInv(w)' /\ BlocksInv(w)'
    BY <1>0, <1>1, <1>4 DEF WorkerInv, OpenInv, PassInv, BlocksInv, ToOpen,
       mainvars, build
  <2>2. /\ ctx'[w].conns_total = Len(conns[w])
        /\ ctx'[w].conns_clean = Cardinality({i \in DOMAIN conns[w] : conns[w][i].clean})
    BY <1>4 DEF Results
  <2>3. \A i \in 1 .. Len(conns[w]) : conns[w][i].done
    BY <1>0 DEF WorkerInv, PassInv
  <2>4. Len(conns[w]) \in Nat
    BY <1>0
  <2>5. CtxInv(w)'
    <3> DEFINE n == Cardinality({i \in DOMAIN conns[w] : conns[w][i].clean})
    <3>1. /\ n \in Nat /\ n <= Len(conns[w])
          /\ n = Len(conns[w]) => \A i \in 1 .. Len(conns[w]) : conns[w][i].clean
      BY <1>0, CleanCount
    <3> HIDE DEF n
    <3>2. ctx'[w].conns_clean = n
      BY <2>2 DEF n
    <3>3. QED BY <1>1, <1>4, <2>2, <2>3, <2>4, <3>1, <3>2 DEF CtxInv
  <2>6. QED BY <2>1, <2>5 DEF WorkerInv
<1>8. QED BY <1>3, <1>5, <1>6, <1>7 DEF IInv

LEMMA StutterIInv == IInv /\ UNCHANGED vars => IInv'
<1> SUFFICES ASSUME IInv, UNCHANGED vars PROVE IInv' OBVIOUS
<1>1. UNCHANGED mainvars /\ UNCHANGED workvars
  BY DEF vars
<1>2. \A w \in Workers : WorkerInv(w)'
  BY <1>1, MainFrame DEF mainvars, build
<1>3. MainTyped' /\ WorkTyped' /\ MainInv'
  BY <1>1 DEF IInv, MainTyped, WorkTyped, MainInv, mainvars, workvars, sums, build
<1>4. SumInv' /\ VerdictInv'
  BY <1>1 DEF IInv, SumInv, Summed, VerdictInv, Covered, mainvars, workvars, sums, build
<1>5. QED BY <1>2, <1>3, <1>4 DEF IInv

LEMMA NextIInv == IInv /\ [Next]_vars => IInv'
<1> SUFFICES ASSUME IInv, [Next]_vars PROVE IInv' OBVIOUS
<1>1. CASE Main
  BY <1>1, SpawnIInv, JoinIInv, AddUpIInv, ReportIInv, StutterIInv DEF Main, Exit
<1>2. CASE \E w \in Workers : Worker(w)
  BY <1>2, WorkerStartIInv, OpenConnIInv, PollIInv, StepIInv, WorkerEndIInv DEF Worker
<1>3. CASE UNCHANGED vars
  BY <1>3, StutterIInv
<1>4. QED BY <1>1, <1>2, <1>3 DEF Next

LEMMA AlwaysIInv == Spec => []IInv
BY InitIInv, NextIInv, PTL DEF Spec

-----------------------------------------------------------------------------
\* What main has printed, and how the program was built.
Printed == verdict \in {"none", "COMPLETE", "INCOMPLETE"} /\ STUB_TLS_AFTER_HANDSHAKE \in BOOLEAN

LEMMA AlwaysPrinted == Spec => []Printed
<1>1. Init => Printed
  BY KnobAssumption DEF Init, Printed
<1>2. Printed /\ [Next]_vars => Printed'
  <2> SUFFICES ASSUME Printed, [Next]_vars PROVE Printed'
    OBVIOUS
  <2>1. CASE Main
    BY <2>1 DEF Printed, Main, Spawn, Join, AddUp, Report, Exit, Turn, vars, mainvars, build
  <2>2. CASE \E w \in Workers : Worker(w)
    BY <2>2 DEF Printed, Worker, WorkerStart, OpenConn, Poll, StepStutter, StepReceive,
                StepTerminate, ConnStep, WorkerEnd, mainvars, build
  <2>3. CASE UNCHANGED vars
    BY <2>3 DEF Printed, vars, mainvars, build
  <2>4. QED BY <2>1, <2>2, <2>3 DEF Next
<1>3. QED BY <1>1, <1>2, PTL DEF Spec

-----------------------------------------------------------------------------
\* Once main adds up, every worker has returned or was never spawned, for any
\* number of workers: nothing main reads through its raw pointers is written.
THEOREM ContextsSettledHolds == Spec => ContextsSettled
<1> DEFINE Settled == main \in {"sum", "report", "exit"} => UNCHANGED workvars
<1>1. IInv /\ [Next]_vars => [Settled]_vars
  <2> SUFFICES ASSUME IInv, [Next]_vars, main \in {"sum", "report", "exit"} PROVE UNCHANGED workvars
    OBVIOUS
  <2>1. CASE Main
    BY <2>1 DEF Main, Spawn, Join, AddUp, Report, Exit, vars
  <2>2. CASE \E w \in Workers : Worker(w)
    <3>1. PICK w \in Workers : Worker(w)
      BY <2>2
    <3>2. worker[w] \in {"start", "open", "loop"}
      BY <3>1 DEF Worker, WorkerStart, OpenConn, Poll, StepStutter, StepReceive, StepTerminate,
                  ConnStep, WorkerEnd
    <3>3. worker[w] \in {"off", "ended"}
      <4>1. w < n_workers => worker[w] = "ended"
        BY DEF IInv, MainInv
      <4>2. worker[w] # "off" => w < n_workers
        BY DEF IInv, MainInv
      <4>3. QED BY <4>1, <4>2
    <3>4. QED BY <3>2, <3>3
  <2>3. CASE UNCHANGED vars
    BY <2>3 DEF vars
  <2>4. QED BY <2>1, <2>2, <2>3 DEF Next
<1>2. Spec => [][Settled]_vars
  BY <1>1, AlwaysIInv, PTL DEF Spec
<1>3. QED BY <1>2 DEF ContextsSettled

\* What COMPLETE says of the workers: each has ended with all its planned
\* connections opened and all of them closed cleanly.
CompleteIsSound ==
    verdict = "COMPLETE" =>
        /\ MISROUTED_DROPS = 0
        /\ \A w \in 0 .. n_workers - 1 :
              /\ worker[w] = "ended"
              /\ Len(conns[w]) = CONNS_PER_WORKER
              /\ \A i \in 1 .. Len(conns[w]) : conns[w][i].done /\ conns[w][i].clean

LEMMA AlwaysSound == Spec => []CompleteIsSound
<1>1. IInv => CompleteIsSound
  <2> SUFFICES ASSUME IInv, verdict = "COMPLETE" PROVE CompleteIsSound
    BY DEF CompleteIsSound
  <2>1. /\ main = "exit" /\ conns_clean = conns_total /\ MISROUTED_DROPS = 0
        /\ conns_total = n_workers * CONNS_PER_WORKER /\ Summed = n_workers
    BY DEF IInv, VerdictInv, Covered, Summed
  <2>2. ASSUME NEW w \in 0 .. n_workers - 1
        PROVE  /\ worker[w] = "ended" /\ Len(conns[w]) = CONNS_PER_WORKER
               /\ \A i \in 1 .. Len(conns[w]) : conns[w][i].done /\ conns[w][i].clean
    <3>1. w \in Workers /\ w < n_workers
      BY ConfigAssumption DEF IInv, MainTyped, Workers
    <3>2. worker[w] = "ended" /\ CtxInv(w)
      BY <2>1, <3>1 DEF IInv, MainInv, WorkerInv
    <3>3. /\ ctx[w].conns_total = CONNS_PER_WORKER
          /\ ctx[w].conns_clean = ctx[w].conns_total
      BY <2>1, <3>1 DEF IInv, SumInv
    <3>4. QED BY <3>2, <3>3, ConfigAssumption DEF CtxInv
  <2>3. QED BY <2>1, <2>2 DEF CompleteIsSound
<1>2. QED BY <1>1, AlwaysIInv, PTL

\* The test knob does what its comment says: with FAULT_ABANDON_CONNS set, no
\* run of any size is reported COMPLETE.
THEOREM FaultNoticedHolds == Spec => []FaultNoticed
<1>1. IInv /\ CompleteIsSound => FaultNoticed
  <2> SUFFICES ASSUME IInv, CompleteIsSound, FAULT_ABANDON_CONNS > 0, verdict = "COMPLETE"
               PROVE  FALSE
    BY DEF FaultNoticed
  <2>1. 0 \in 0 .. n_workers - 1 /\ 0 \in Workers
    BY ConfigAssumption DEF IInv, MainTyped, Workers
  <2>2. Len(conns[0]) = CONNS_PER_WORKER
    BY <2>1 DEF CompleteIsSound
  <2>3. Len(conns[0]) <= opened[0] /\ opened[0] <= ToOpen(0)
    BY <2>1 DEF IInv, WorkerInv, OpenInv
  <2>4. n_conns[0] \in 0 .. CONNS_PER_WORKER /\ opened[0] \in Nat
    BY <2>1 DEF IInv, WorkTyped
  <2>5. QED BY <2>2, <2>3, <2>4, ConfigAssumption DEF IInv, MainTyped, ToOpen, SaturatingSub
<1>2. QED BY <1>1, AlwaysIInv, AlwaysSound, PTL

\* No connection ever asks for bytes past the end of an object that holds at
\* least one block, however often the blocks wrap.
THEOREM RangesInObjectHolds == Spec => []RangesInObject
<1>1. IInv => RangesInObject
  <2> SUFFICES ASSUME IInv, OBJECT_SIZE >= BLOCK_SIZE, NEW p \in AllConns
               PROVE  RangeEnd(ConnAt(p).block) < OBJECT_SIZE
    BY DEF RangesInObject
  <2>1. ConnAt(p) \in ConnType
    BY DEF AllConns, ConnAt, IInv, WorkTyped
  <2>2. ConnAt(p).block \in Nat
    BY <2>1 DEF ConnType
  <2>3. RangeStart(ConnAt(p).block) \in 0 .. SaturatingSub(OBJECT_SIZE, BLOCK_SIZE)
    BY <2>2, RangeStartBound
  <2>4. QED BY <2>3, ConfigAssumption DEF RangeEnd, SaturatingSub
<1>2. QED BY <1>1, AlwaysIInv, PTL

LEMMA TimesMono ==
    ASSUME NEW a \in Nat, NEW b \in Nat, NEW k \in Nat, a <= b
    PROVE  a * k <= b * k
<1>1. b = a + (b - a) /\ b - a \in Nat
  OBVIOUS
<1>2. b * k = a * k + (b - a) * k /\ a * k \in Nat /\ (b - a) * k \in Nat
  BY <1>1
<1>3. QED BY <1>2

\* Two different blocks that both fit do not overlap.
LEMMA BlocksApart ==
    ASSUME NEW a \in Nat, NEW b \in Nat, NEW n \in Nat,
           a < b, b < n, n * BLOCK_SIZE <= OBJECT_SIZE
    PROVE  RangeEnd(a) < RangeStart(b)
<1> USE ConfigAssumption
<1> DEFINE k == BLOCK_SIZE
<1>1. /\ (a + 1) * k <= b * k /\ (b + 1) * k <= n * k
      /\ (a + 1) * k = a * k + k /\ (b + 1) * k = b * k + k
      /\ a * k \in Nat /\ b * k \in Nat /\ n * k \in Nat
  <2>1. (a + 1) * k <= b * k
    BY TimesMono
  <2>2. (b + 1) * k <= n * k
    BY TimesMono
  <2>3. QED BY <2>1, <2>2
<1>2. a * k <= OBJECT_SIZE - k /\ b * k <= OBJECT_SIZE - k
  BY <1>1
<1>3. SaturatingSub(OBJECT_SIZE, k) = OBJECT_SIZE - k
  BY <1>1, <1>2 DEF SaturatingSub
<1>4. RangeStart(a) = a * k /\ RangeStart(b) = b * k
  BY <1>2, <1>3, RangeStartBound
<1>5. QED BY <1>1, <1>4 DEF RangeEnd

LEMMA ConnIndex ==
    ASSUME IInv, NEW r \in AllConns
    PROVE  /\ r = <<r[1], r[2]>> /\ r[1] \in Workers /\ r[1] \in Nat
           /\ r[2] \in 1 .. Len(conns[r[1]]) /\ Len(conns[r[1]]) \in Nat
<1>1. r \in Workers \X (1 .. CONNS_PER_WORKER) /\ r[2] \in DOMAIN conns[r[1]]
  BY DEF AllConns
<1>2. r[1] \in Workers /\ r = <<r[1], r[2]>>
  BY <1>1
<1>3. conns[r[1]] \in Seq(ConnType)
  BY <1>2 DEF IInv, WorkTyped
<1>4. r[1] \in Nat
  BY <1>2, ConfigAssumption DEF Workers
<1>5. QED BY <1>1, <1>2, <1>3, <1>4

\* The blocks of a worker's connections are among those planned for it, and
\* only a worker that was spawned has connections.
LEMMA BlockBound ==
    ASSUME IInv, NEW r \in AllConns
    PROVE  /\ r[1] \in Nat /\ ConnAt(r).block \in Nat
           /\ r[1] * CONNS_PER_WORKER <= ConnAt(r).block
           /\ ConnAt(r).block < (r[1] + 1) * CONNS_PER_WORKER
           /\ r[1] + 1 <= n_workers
<1> USE ConfigAssumption
<1>1. r[1] \in Workers /\ r[2] \in 1 .. Len(conns[r[1]]) /\ r[1] \in Nat
  BY ConnIndex
<1>2. ConnAt(r) \in ConnType
  BY <1>1 DEF ConnAt, IInv, WorkTyped
<1>3. WorkerInv(r[1]) /\ opened[r[1]] \in Nat /\ Len(conns[r[1]]) \in Nat
      /\ n_conns[r[1]] \in 0 .. CONNS_PER_WORKER
  BY <1>1 DEF IInv, WorkTyped
<1>4. opened[r[1]] <= CONNS_PER_WORKER /\ opened[r[1]] > 0
  BY <1>1, <1>3 DEF IInv, MainTyped, WorkerInv, OpenInv, ToOpen, SaturatingSub
<1>5. /\ r[1] * CONNS_PER_WORKER <= ConnAt(r).block
      /\ ConnAt(r).block < r[1] * CONNS_PER_WORKER + opened[r[1]]
  BY <1>1, <1>3 DEF WorkerInv, BlocksInv, FirstBlock, ConnAt
<1>6. (r[1] + 1) * CONNS_PER_WORKER = r[1] * CONNS_PER_WORKER + CONNS_PER_WORKER
      /\ r[1] * CONNS_PER_WORKER \in Nat
  BY <1>1
<1>7. worker[r[1]] # "off"
  BY <1>3, <1>4 DEF WorkerInv, OpenInv
<1>8. r[1] < n_workers /\ n_workers \in Nat
  BY <1>1, <1>7 DEF IInv, MainInv, MainTyped
<1>9. ConnAt(r).block \in Nat
  BY <1>2 DEF ConnType
<1>10. ConnAt(r).block < (r[1] + 1) * CONNS_PER_WORKER
  BY <1>3, <1>4, <1>5, <1>6, <1>9
<1>11. QED BY <1>1, <1>5, <1>8, <1>9, <1>10

\* Every connection has a block of its own, numbered below the planned count.
LEMMA OwnBlock ==
    ASSUME IInv, NEW p \in AllConns, NEW q \in AllConns, p # q
    PROVE  /\ ConnAt(p).block \in Nat /\ ConnAt(q).block \in Nat
           /\ ConnAt(p).block < n_workers * CONNS_PER_WORKER
           /\ ConnAt(p).block # ConnAt(q).block
<1> USE ConfigAssumption
<1>1. ASSUME NEW r \in AllConns
      PROVE  /\ r[1] \in Nat /\ ConnAt(r).block \in Nat
             /\ r[1] * CONNS_PER_WORKER <= ConnAt(r).block
             /\ ConnAt(r).block < (r[1] + 1) * CONNS_PER_WORKER
             /\ r[1] + 1 <= n_workers
  BY <1>1, BlockBound
<1>2. n_workers \in Nat
  BY DEF IInv, MainTyped
<1>3. ConnAt(p).block < n_workers * CONNS_PER_WORKER
  <2>1. (p[1] + 1) * CONNS_PER_WORKER <= n_workers * CONNS_PER_WORKER
    BY <1>1, <1>2, TimesMono
  <2>2. (p[1] + 1) * CONNS_PER_WORKER \in Nat /\ n_workers * CONNS_PER_WORKER \in Nat
    BY <1>1, <1>2
  <2>3. ConnAt(p).block < (p[1] + 1) * CONNS_PER_WORKER /\ ConnAt(p).block \in Nat
    BY <1>1
  <2>4. QED BY <2>1, <2>2, <2>3
<1>4. ASSUME NEW r \in AllConns, NEW t \in AllConns, r[1] < t[1]
      PROVE  ConnAt(r).block < ConnAt(t).block
  <2>1. (r[1] + 1) * CONNS_PER_WORKER <= t[1] * CONNS_PER_WORKER
    BY <1>1, <1>4, TimesMono
  <2>2. (r[1] + 1) * CONNS_PER_WORKER \in Nat /\ t[1] * CONNS_PER_WORKER \in Nat
    BY <1>1
  <2>3. /\ ConnAt(r).block < (r[1] + 1) * CONNS_PER_WORKER /\ ConnAt(r).block \in Nat
        /\ t[1] * CONNS_PER_WORKER <= ConnAt(t).block /\ ConnAt(t).block \in Nat
    BY <1>1
  <2>4. QED BY <2>1, <2>2, <2>3
<1>5. CASE p[1] = q[1]
  <2>1. p[2] # q[2] /\ p[2] \in 1 .. Len(conns[p[1]]) /\ q[2] \in 1 .. Len(conns[p[1]])
        /\ p[1] \in Workers /\ Len(conns[p[1]]) \in Nat
    <3>1. p = <<p[1], p[2]>> /\ q = <<q[1], q[2]>>
      BY ConnIndex
    <3>2. p[2] # q[2]
      BY <1>5, <3>1
    <3>3. QED BY <1>5, <3>2, ConnIndex
  <2>2. BlocksInv(p[1])
    BY <2>1 DEF IInv, WorkerInv
  <2>3. ConnAt(p).block < ConnAt(q).block \/ ConnAt(q).block < ConnAt(p).block
    BY <1>5, <2>1, <2>2 DEF BlocksInv, ConnAt
  <2>4. QED BY <1>1, <1>3, <2>3
<1>6. CASE p[1] # q[1]
  <2>1. p[1] < q[1] \/ q[1] < p[1]
    BY <1>1, <1>6
  <2>2. QED BY <1>1, <1>3, <1>4, <2>1
<1>7. QED BY <1>5, <1>6

\* Whatever the sizes: as long as the planned blocks fit into the object, no
\* byte is requested by two connections, of one worker or of two.
THEOREM DisjointWhenTheyFitHolds == Spec => []DisjointWhenTheyFit
<1>1. IInv => DisjointWhenTheyFit
  <2> SUFFICES ASSUME IInv, n_workers * CONNS_PER_WORKER * BLOCK_SIZE <= OBJECT_SIZE,
                      NEW p \in AllConns, NEW q \in AllConns, p # q
               PROVE  \/ RangeEnd(ConnAt(p).block) < RangeStart(ConnAt(q).block)
                      \/ RangeEnd(ConnAt(q).block) < RangeStart(ConnAt(p).block)
    BY DEF DisjointWhenTheyFit
  <2> DEFINE n == n_workers * CONNS_PER_WORKER
  <2>1. n \in Nat /\ n * BLOCK_SIZE <= OBJECT_SIZE
    BY ConfigAssumption DEF IInv, MainTyped
  <2>2. /\ ConnAt(p).block \in Nat /\ ConnAt(q).block \in Nat
        /\ ConnAt(p).block < n /\ ConnAt(q).block < n
        /\ ConnAt(p).block # ConnAt(q).block
    BY OwnBlock
  <2> HIDE DEF n
  <2>3. CASE ConnAt(p).block < ConnAt(q).block
    BY <2>1, <2>2, <2>3, BlocksApart
  <2>4. CASE ConnAt(q).block < ConnAt(p).block
    BY <2>1, <2>2, <2>4, BlocksApart
  <2>5. QED BY <2>2, <2>3, <2>4
<1>2. QED BY <1>1, AlwaysIInv, PTL

-----------------------------------------------------------------------------
(* The verdict *)

\* What each connection was opened for: the blocks of a worker's connections
\* leave no gap that a skipped connect() does not account for.
BlocksOf(s, first, n) ==
    \A i \in 1 .. Len(s) :
        /\ s[i].expected = BLOCK_SIZE
        /\ first + i - 1 <= s[i].block
        /\ s[i].block + (Len(s) - i) < first + n

BlocksExact(w) == BlocksOf(conns[w], FirstBlock(w), opened[w])

\* A worker publishes the results of its connections or none, and those of a
\* worker that opened all it was to open are never missing.
CtxExact(w) ==
    /\ ctx[w] \in {NoResults, Results(conns[w])}
    /\ worker[w] = "ended" /\ Len(conns[w]) = CONNS_PER_WORKER => ctx[w] = Results(conns[w])

Received(c) == [w \in Workers |-> c[w].bytes_received]
Asked(c)    == [w \in Workers |-> c[w].bytes_expected]
Totals(c)   == [w \in Workers |-> c[w].conns_total]
Cleans(c)   == [w \in Workers |-> c[w].conns_clean]

\* main's sums are those of the contexts it has added up.
SumsExact ==
    /\ total_b = SumOn(Received(ctx), 0 .. Summed - 1)
    /\ total_expected = SumOn(Asked(ctx), 0 .. Summed - 1)
    /\ conns_total = SumOn(Totals(ctx), 0 .. Summed - 1)
    /\ conns_clean = SumOn(Cleans(ctx), 0 .. Summed - 1)

\* The verdict is not older than what it was made of.
VerdictIs ==
    verdict # "none" =>
        /\ main = "exit"
        /\ verdict = "COMPLETE" <=> RangesOk /\ Covered /\ BytesOk /\ MISROUTED_DROPS = 0

ExactInv == (\A w \in Workers : BlocksExact(w) /\ CtxExact(w)) /\ SumsExact /\ VerdictIs

LEMMA NothingSummed == ASSUME NEW f PROVE SumOn(f, 0 .. 0 - 1) = 0
<1>1. 0 .. 0 - 1 = {}
  OBVIOUS
<1>2. QED BY <1>1, SumEmpty

LEMMA InitExact == Init => ExactInv
<1> SUFFICES ASSUME Init PROVE ExactInv OBVIOUS
<1>1. ASSUME NEW w \in Workers PROVE BlocksExact(w) /\ CtxExact(w)
  <2>1. conns[w] = <<>> /\ ctx[w] = NoResults /\ worker[w] = "off"
    BY DEF Init
  <2>2. QED BY <2>1 DEF BlocksExact, BlocksOf, CtxExact
<1>2. SumsExact
  <2>1. Summed = 0 /\ total_b = 0 /\ total_expected = 0 /\ conns_total = 0 /\ conns_clean = 0
    BY DEF Init, Summed
  <2>2. QED BY <2>1, NothingSummed DEF SumsExact
<1>3. VerdictIs
  BY DEF Init, VerdictIs
<1>4. QED BY <1>1, <1>2, <1>3 DEF ExactInv

\* A worker whose variables do not change.
LEMMA SameExact ==
    ASSUME ExactInv, NEW v \in Workers, conns'[v] = conns[v], opened'[v] = opened[v],
           ctx'[v] = ctx[v], worker'[v] = "ended" => worker[v] = "ended"
    PROVE  BlocksExact(v)' /\ CtxExact(v)'
<1>1. BlocksExact(v) /\ CtxExact(v)
  BY DEF ExactInv
<1>2. BlocksExact(v)'
  BY <1>1 DEF BlocksExact, FirstBlock
<1>3. CtxExact(v)'
  BY <1>1 DEF CtxExact, Results, NoResults
<1>4. QED BY <1>2, <1>3

\* While main does not add up, its sums are zero and there is no verdict.
LEMMA NotYetSummed ==
    ASSUME ExactInv, Summed = 0, Summed' = 0, UNCHANGED sums, verdict' = verdict, main # "exit"
    PROVE  SumsExact' /\ VerdictIs'
<1>1. total_b = 0 /\ total_expected = 0 /\ conns_total = 0 /\ conns_clean = 0
  BY NothingSummed DEF ExactInv, SumsExact
<1>2. total_b' = 0 /\ total_expected' = 0 /\ conns_total' = 0 /\ conns_clean' = 0
  BY <1>1 DEF sums
<1>3. SumsExact'
  BY <1>2, NothingSummed DEF SumsExact
<1>4. verdict' = "none"
  BY DEF ExactInv, VerdictIs
<1>5. QED BY <1>3, <1>4 DEF VerdictIs

\* As long as a worker runs, main is spawning or joining.
LEMMA RunningMain ==
    ASSUME IInv, ExactInv, UNCHANGED mainvars,
           NEW w \in Workers, worker[w] \in {"start", "open", "loop"}
    PROVE  SumsExact' /\ VerdictIs'
<1>1. w < n_workers
  BY DEF IInv, MainInv
<1>2. main \in {"spawn", "join"}
  BY <1>1 DEF IInv, MainInv, MainTyped
<1>3. Summed = 0 /\ Summed' = 0 /\ UNCHANGED sums /\ verdict' = verdict /\ main # "exit"
  BY <1>2 DEF Summed, mainvars
<1>4. QED BY <1>3, NotYetSummed

LEMMA SpawnJoinExact == IInv /\ ExactInv /\ (Spawn \/ Join) => ExactInv'
<1> SUFFICES ASSUME IInv, ExactInv, Spawn \/ Join PROVE ExactInv' OBVIOUS
<1>1. main \in {"spawn", "join"} /\ UNCHANGED sums /\ verdict' = verdict
  BY DEF Spawn, Join
<1>2. conns' = conns /\ opened' = opened /\ ctx' = ctx
  BY DEF Spawn, Join, workvars
<1>3. \A v \in Workers : worker'[v] = "ended" => worker[v] = "ended"
  BY DEF Spawn, Join, workvars, IInv, WorkTyped
<1>4. Summed = 0 /\ Summed' = 0
  <2>1. at \in Nat
    BY DEF IInv, MainTyped
  <2>2. \/ main' \in {"spawn", "join"}
        \/ main' = "sum" /\ at' = 0
    BY <1>1 DEF Spawn, Join, Turn
  <2>3. QED BY <1>1, <2>2 DEF Summed
<1>5. SumsExact' /\ VerdictIs'
  BY <1>1, <1>4, NotYetSummed
<1>6. \A v \in Workers : BlocksExact(v)' /\ CtxExact(v)'
  BY <1>2, <1>3, SameExact
<1>7. QED BY <1>5, <1>6 DEF ExactInv

\* The four results are numbers.
LEMMA ResultsType ==
    ASSUME NEW s \in Seq(ConnType)
    PROVE  /\ Results(s).bytes_received = SumOn([i \in DOMAIN s |-> s[i].bytes], 1 .. Len(s))
           /\ Results(s).bytes_expected = SumOn([i \in DOMAIN s |-> s[i].expected], 1 .. Len(s))
           /\ Results(s).bytes_received \in Nat /\ Results(s).bytes_expected \in Nat
           /\ Results(s).conns_total \in Nat /\ Results(s).conns_clean \in Nat
<1> DEFINE f == [i \in DOMAIN s |-> s[i].bytes]
           g == [i \in DOMAIN s |-> s[i].expected]
<1>1. DOMAIN f = 1 .. Len(s) /\ DOMAIN g = 1 .. Len(s) /\ Len(s) \in Nat
  OBVIOUS
<1>2. (\A i \in 1 .. Len(s) : f[i] \in Nat) /\ (\A i \in 1 .. Len(s) : g[i] \in Nat)
  <2>1. \A i \in 1 .. Len(s) : s[i] \in ConnType
    OBVIOUS
  <2>2. \A i \in 1 .. Len(s) : s[i].bytes \in Nat /\ s[i].expected \in Nat
    BY <2>1 DEF ConnType
  <2>3. QED BY <2>2
<1>3. Results(s).bytes_received = SumFunction(f) /\ Results(s).bytes_expected = SumFunction(g)
  BY DEF Results
<1> HIDE DEF f, g
<1>4. /\ Results(s).bytes_received = SumOn(f, 1 .. Len(s))
      /\ Results(s).bytes_expected = SumOn(g, 1 .. Len(s))
  BY <1>1, <1>3 DEF SumFunction, SumOn
<1>5. IsFiniteSet(1 .. Len(s))
  BY <1>1, FS_Interval
<1>6. Results(s).bytes_received \in Nat /\ Results(s).bytes_expected \in Nat
  BY <1>2, <1>4, <1>5, SumType
<1>7. Results(s).conns_total \in Nat /\ Results(s).conns_clean \in Nat
  <2>1. Cardinality({i \in DOMAIN s : s[i].clean}) \in Nat
    BY CleanCount
  <2>2. QED BY <1>1, <2>1 DEF Results
<1>8. QED BY <1>4, <1>6, <1>7 DEF f, g

LEMMA CtxType ==
    ASSUME IInv, ExactInv, NEW w \in Workers
    PROVE  /\ ctx[w].bytes_received \in Nat /\ ctx[w].bytes_expected \in Nat
           /\ ctx[w].conns_total \in Nat /\ ctx[w].conns_clean \in Nat
<1>1. conns[w] \in Seq(ConnType)
  BY DEF IInv, WorkTyped
<1>2. CASE ctx[w] = NoResults
  BY <1>2 DEF NoResults
<1>3. CASE ctx[w] = Results(conns[w])
  BY <1>1, <1>3, ResultsType
<1>4. QED BY <1>2, <1>3 DEF ExactInv, CtxExact

LEMMA SumNext ==
    ASSUME NEW f, NEW k \in Workers, \A w \in Workers : f[w] \in Nat
    PROVE  SumOn(f, 0 .. (k + 1) - 1) = SumOn(f, 0 .. k - 1) + f[k]
<1>1. k \in Nat /\ k - 1 \in Int
  BY ConfigAssumption DEF Workers
<1>2. 0 .. (k + 1) - 1 = (0 .. k - 1) \union {k} /\ k \notin 0 .. k - 1
  BY <1>1
<1>3. \A x \in 0 .. k - 1 : x \in Workers
  BY <1>1, ConfigAssumption DEF Workers
<1>4. IsFiniteSet(0 .. k - 1)
  BY <1>1, FS_Interval
<1>5. f[k] \in Nat /\ \A x \in 0 .. k - 1 : f[x] \in Nat
  BY <1>3
<1>6. SumOn(f, (0 .. k - 1) \union {k}) = SumOn(f, 0 .. k - 1) + f[k]
  BY ONLY <1>2, <1>4, <1>5, SumAdd
<1>7. QED BY ONLY <1>2, <1>6

LEMMA AddUpExact == IInv /\ ExactInv /\ AddUp => ExactInv'
<1> SUFFICES ASSUME IInv, ExactInv, AddUp PROVE ExactInv' OBVIOUS
<1>1. /\ main = "sum" /\ at \in Nat /\ n_workers \in Nat /\ at < n_workers /\ at \in Workers
  BY ConfigAssumption DEF IInv, MainTyped, AddUp, Workers
<1>2. /\ total_b' = total_b + ctx[at].bytes_received
      /\ total_expected' = total_expected + ctx[at].bytes_expected
      /\ conns_total' = conns_total + ctx[at].conns_total
      /\ conns_clean' = conns_clean + ctx[at].conns_clean
      /\ n_workers' = n_workers /\ verdict' = verdict
      /\ conns' = conns /\ opened' = opened /\ ctx' = ctx /\ worker' = worker
  BY DEF AddUp, build, workvars
<1>3. Summed = at /\ Summed' = at + 1
  <2>1. \/ at + 1 = n_workers /\ main' = "report"
        \/ main' = "sum" /\ at' = at + 1
    BY <1>1 DEF AddUp, Turn
  <2>2. QED BY <1>1, <1>2, <2>1 DEF Summed
<1>4. SumsExact'
  <2>1. /\ \A w \in Workers : Received(ctx)[w] \in Nat /\ Asked(ctx)[w] \in Nat
        /\ \A w \in Workers : Totals(ctx)[w] \in Nat /\ Cleans(ctx)[w] \in Nat
    BY CtxType DEF Received, Asked, Totals, Cleans
  <2>2. /\ Received(ctx)[at] = ctx[at].bytes_received /\ Asked(ctx)[at] = ctx[at].bytes_expected
        /\ Totals(ctx)[at] = ctx[at].conns_total /\ Cleans(ctx)[at] = ctx[at].conns_clean
    BY <1>1 DEF Received, Asked, Totals, Cleans
  <2>3. total_b' = SumOn(Received(ctx), 0 .. (at + 1) - 1)
    BY <1>1, <1>2, <1>3, <2>1, <2>2, SumNext DEF ExactInv, SumsExact
  <2>4. total_expected' = SumOn(Asked(ctx), 0 .. (at + 1) - 1)
    BY <1>1, <1>2, <1>3, <2>1, <2>2, SumNext DEF ExactInv, SumsExact
  <2>5. conns_total' = SumOn(Totals(ctx), 0 .. (at + 1) - 1)
    BY <1>1, <1>2, <1>3, <2>1, <2>2, SumNext DEF ExactInv, SumsExact
  <2>6. conns_clean' = SumOn(Cleans(ctx), 0 .. (at + 1) - 1)
    BY <1>1, <1>2, <1>3, <2>1, <2>2, SumNext DEF ExactInv, SumsExact
  <2>7. QED BY <1>2, <1>3, <2>3, <2>4, <2>5, <2>6 DEF SumsExact
<1>5. VerdictIs'
  BY <1>1, <1>2 DEF ExactInv, VerdictIs
<1>6. \A v \in Workers : BlocksExact(v)' /\ CtxExact(v)'
  BY <1>2, SameExact
<1>7. QED BY <1>4, <1>5, <1>6 DEF ExactInv

LEMMA ReportExact == IInv /\ ExactInv /\ Report => ExactInv'
<1> SUFFICES ASSUME IInv, ExactInv, Report PROVE ExactInv' OBVIOUS
<1>1. /\ main = "report" /\ main' = "exit" /\ UNCHANGED <<build, sums, workvars>>
  BY DEF Report
<1>2. /\ conns' = conns /\ opened' = opened /\ ctx' = ctx /\ worker' = worker
      /\ Summed = n_workers /\ Summed' = n_workers
  BY <1>1 DEF build, workvars, Summed
<1>3. SumsExact'
  BY <1>1, <1>2 DEF ExactInv, SumsExact, sums
<1>4. VerdictIs'
  <2>1. (RangesOk' <=> RangesOk) /\ (Covered' <=> Covered) /\ (BytesOk' <=> BytesOk)
    BY <1>1 DEF RangesOk, Covered, BytesOk, build, sums
  <2>2. MISROUTED_DROPS' = MISROUTED_DROPS
    BY <1>1 DEF workvars
  <2>3. verdict' = "COMPLETE" <=> RangesOk /\ Covered /\ BytesOk /\ MISROUTED_DROPS = 0
    BY DEF Report
  <2>4. QED BY <1>1, <2>1, <2>2, <2>3 DEF VerdictIs
<1>5. \A v \in Workers : BlocksExact(v)' /\ CtxExact(v)'
  BY <1>2, SameExact
<1>6. QED BY <1>3, <1>4, <1>5 DEF ExactInv

LEMMA StutterExact == ExactInv /\ UNCHANGED vars => ExactInv'
<1> SUFFICES ASSUME ExactInv, UNCHANGED vars PROVE ExactInv' OBVIOUS
<1>1. UNCHANGED <<mainvars, workvars>>
  BY DEF vars
<1>2. conns' = conns /\ opened' = opened /\ ctx' = ctx /\ worker' = worker
  BY <1>1 DEF workvars
<1>3. Summed' = Summed
  BY <1>1 DEF Summed, mainvars, build
<1>4. SumsExact'
  BY <1>1, <1>2, <1>3 DEF ExactInv, SumsExact, mainvars, sums
<1>5. VerdictIs'
  BY <1>1 DEF ExactInv, VerdictIs, RangesOk, Covered, BytesOk, mainvars, workvars, sums, build
<1>6. \A v \in Workers : BlocksExact(v)' /\ CtxExact(v)'
  BY <1>2, SameExact
<1>7. QED BY <1>4, <1>5, <1>6 DEF ExactInv

LEMMA WorkerStartExact ==
    ASSUME IInv, ExactInv, NEW w \in Workers, WorkerStart(w) PROVE ExactInv'
<1>0. /\ worker[w] = "start" /\ worker \in [Workers -> {"off", "start", "open", "loop", "ended"}]
      /\ OpenInv(w) /\ ctx[w] = NoResults /\ conns[w] \in Seq(ConnType)
  BY DEF IInv, WorkTyped, WorkerInv, CtxInv, WorkerStart
<1>1. /\ UNCHANGED mainvars /\ conns' = conns /\ opened' = opened /\ ctx' = ctx
      /\ \A v \in Workers : v # w => worker'[v] = worker[v]
  BY <1>0 DEF WorkerStart, Leave
<1>2. SumsExact' /\ VerdictIs'
  BY <1>0, <1>1, RunningMain
<1>3. \A v \in Workers : v # w => BlocksExact(v)' /\ CtxExact(v)'
  BY <1>1, SameExact
<1>4. BlocksExact(w)' /\ CtxExact(w)'
  <2>1. Len(conns[w]) = 0
    BY <1>0 DEF OpenInv
  <2>2. BlocksExact(w)'
    BY <1>1, <2>1 DEF BlocksExact, BlocksOf
  <2>3. CtxExact(w)'
    BY <1>0, <1>1, <2>1, ConfigAssumption DEF CtxExact
  <2>4. QED BY <2>2, <2>3
<1>5. QED BY <1>2, <1>3, <1>4 DEF ExactInv

\* One connection more, or none, for one more turn of the opening loop.
LEMMA OpenedExact ==
    ASSUME NEW s \in Seq(ConnType), NEW fb \in Nat, NEW n \in Nat, Len(s) <= n,
           NEW new \in ConnType, new.expected = BLOCK_SIZE, new.block = fb + n,
           BlocksOf(s, fb, n), NEW t \in {s, Append(s, new)}
    PROVE  BlocksOf(t, fb, n + 1)
<1>1. Len(s) \in Nat
  OBVIOUS
<1>1a. \A j \in 1 .. Len(s) : s[j].block \in Nat
  <2>1. \A j \in 1 .. Len(s) : s[j] \in ConnType
    OBVIOUS
  <2>2. QED BY <2>1 DEF ConnType
<1>2. SUFFICES ASSUME NEW i \in 1 .. Len(t)
               PROVE  /\ t[i].expected = BLOCK_SIZE
                      /\ fb + i - 1 <= t[i].block
                      /\ t[i].block + (Len(t) - i) < fb + (n + 1)
  BY DEF BlocksOf
<1>3. ASSUME i \in 1 .. Len(s), t[i] = s[i], Len(t) \in {Len(s), Len(s) + 1}
      PROVE  /\ t[i].expected = BLOCK_SIZE
             /\ fb + i - 1 <= t[i].block
             /\ t[i].block + (Len(t) - i) < fb + (n + 1)
  <2>1. /\ s[i].expected = BLOCK_SIZE /\ fb + i - 1 <= s[i].block
        /\ s[i].block + (Len(s) - i) < fb + n /\ s[i].block \in Nat
    BY <1>1a, <1>3 DEF BlocksOf
  <2> DEFINE blk == s[i].block
  <2>2. t[i].block = blk /\ t[i].expected = BLOCK_SIZE
    BY <1>3, <2>1
  <2>3. blk \in Nat /\ fb + i - 1 <= blk /\ blk + (Len(s) - i) < fb + n
    BY <2>1
  <2> HIDE DEF blk
  <2>4. blk + (Len(t) - i) < fb + (n + 1)
    BY <1>1, <1>3, <2>3
  <2>5. QED BY <2>2, <2>3, <2>4
<1>4. CASE t = s
  BY <1>3, <1>4
<1>5. CASE t = Append(s, new)
  <2>1. Len(t) = Len(s) + 1 /\ t[Len(s) + 1] = new /\ \A j \in 1 .. Len(s) : t[j] = s[j]
    BY <1>5
  <2>2. CASE i \in 1 .. Len(s)
    BY <1>3, <2>1, <2>2
  <2>3. CASE i = Len(s) + 1
    <3>1. t[i] = new
      BY <2>1, <2>3
    <3>2. QED BY <1>1, <2>1, <2>3, <3>1
  <2>4. QED BY <1>1, <2>1, <2>2, <2>3
<1>6. QED BY <1>4, <1>5

LEMMA ExpectedIsBlock ==
    ASSUME NEW b \in Nat PROVE Expected(b) = BLOCK_SIZE
<1>1. RangeStart(b) \in Nat /\ BLOCK_SIZE \in Nat
  BY RangeStartBound, ConfigAssumption DEF SaturatingSub
<1>2. QED BY <1>1 DEF Expected, RangeEnd

LEMMA OpenConnExact ==
    ASSUME IInv, ExactInv, NEW w \in Workers, OpenConn(w) PROVE ExactInv'
<1>0. /\ worker[w] = "open" /\ worker \in [Workers -> {"off", "start", "open", "loop", "ended"}]
      /\ conns \in [Workers -> Seq(ConnType)] /\ opened \in [Workers -> Nat]
      /\ OpenInv(w) /\ ctx[w] = NoResults /\ opened[w] < ToOpen(w)
  BY DEF IInv, WorkTyped, WorkerInv, CtxInv, OpenConn
<1>1. /\ UNCHANGED mainvars /\ ctx' = ctx
  BY DEF OpenConn
<1>2. SumsExact' /\ VerdictIs'
  BY <1>0, <1>1, RunningMain
<1>3. Len(conns[w]) < CONNS_PER_WORKER /\ Len(conns[w]) \in Nat /\ Len(conns[w]) <= opened[w]
      /\ opened[w] \in Nat
  <2>1. n_conns[w] \in 0 .. CONNS_PER_WORKER /\ FAULT_ABANDON_CONNS \in Nat
    BY DEF IInv, WorkTyped, MainTyped
  <2>2. ToOpen(w) <= CONNS_PER_WORKER /\ ToOpen(w) \in Nat
    BY <2>1, ConfigAssumption DEF ToOpen, SaturatingSub
  <2>3. Len(conns[w]) \in Nat /\ opened[w] \in Nat
    BY <1>0
  <2>4. QED BY <1>0, <2>2, <2>3, ConfigAssumption DEF OpenInv
<1>4. CASE UNCHANGED <<conns, opened>> /\ worker' = [worker EXCEPT ![w] = "ended"]
  <2>1. \A v \in Workers : v # w => worker'[v] = worker[v]
    BY <1>0, <1>4
  <2>2. \A v \in Workers : v # w => BlocksExact(v)' /\ CtxExact(v)'
    BY <1>1, <1>4, <2>1, SameExact
  <2>3. BlocksExact(w)'
    BY <1>4 DEF ExactInv, BlocksExact, FirstBlock
  <2>4. CtxExact(w)'
    BY <1>0, <1>1, <1>3, <1>4, ConfigAssumption DEF CtxExact
  <2>5. QED BY <1>2, <2>2, <2>3, <2>4 DEF ExactInv
<1>5. CASE /\ opened' = [opened EXCEPT ![w] = @ + 1] /\ worker' = worker
           /\ conns' \in {conns, [conns EXCEPT ![w] =
                                    Append(@, NewConn(FirstBlock(w) + opened[w]))]}
  <2> DEFINE fb == FirstBlock(w)
             new == NewConn(fb + opened[w])
             s == conns[w]
             t == conns'[w]
  <2>1. fb \in Nat /\ fb + opened[w] \in Nat
    <3>1. w \in Nat /\ CONNS_PER_WORKER \in Nat
      BY ConfigAssumption DEF Workers
    <3>2. w * CONNS_PER_WORKER \in Nat
      BY <3>1
    <3>3. QED BY <1>3, <3>2 DEF FirstBlock
  <2>2. new \in ConnType /\ new.expected = BLOCK_SIZE /\ new.block = fb + opened[w]
    BY <2>1, ExpectedNat, ExpectedIsBlock DEF NewConn, ConnType
  <2>3. s \in Seq(ConnType) /\ t \in {s, Append(s, new)} /\ opened'[w] = opened[w] + 1
    BY <1>0, <1>5
  <2>4. \A v \in Workers : v # w => conns'[v] = conns[v] /\ opened'[v] = opened[v]
    BY <1>0, <1>5
  <2>5. \A v \in Workers : v # w => BlocksExact(v)' /\ CtxExact(v)'
    BY <1>1, <1>5, <2>4, SameExact
  <2>6. BlocksOf(s, fb, opened[w])
    BY DEF ExactInv, BlocksExact
  <2>7. Len(s) <= opened[w] /\ opened[w] \in Nat
    BY <1>3
  <2> HIDE DEF fb, new, s, t
  <2>8. BlocksOf(t, fb, opened[w] + 1)
    BY ONLY <2>1, <2>2, <2>3, <2>6, <2>7, OpenedExact
  <2>9. BlocksExact(w)'
    <3>1. FirstBlock(w)' = fb
      BY DEF FirstBlock, fb
    <3>2. QED BY <2>3, <2>8, <3>1 DEF BlocksExact, t
  <2>10. CtxExact(w)'
    BY <1>0, <1>1, <1>5 DEF CtxExact
  <2>11. QED BY <1>2, <2>5, <2>9, <2>10 DEF ExactInv
<1>6. QED BY <1>4, <1>5 DEF OpenConn, Leave

LEMMA PollExact ==
    ASSUME IInv, ExactInv, NEW w \in Workers, Poll(w) PROVE ExactInv'
<1>0. /\ worker[w] \in {"open", "loop"}
      /\ worker \in [Workers -> {"off", "start", "open", "loop", "ended"}]
  BY DEF IInv, WorkTyped, Poll
<1>1. /\ UNCHANGED mainvars /\ conns' = conns /\ opened' = opened /\ ctx' = ctx
      /\ worker' = [worker EXCEPT ![w] = "loop"]
  BY DEF Poll
<1>2. SumsExact' /\ VerdictIs'
  BY <1>0, <1>1, RunningMain
<1>3. \A v \in Workers : worker'[v] = "ended" => worker[v] = "ended"
  BY <1>0, <1>1
<1>4. \A v \in Workers : BlocksExact(v)' /\ CtxExact(v)'
  BY <1>1, <1>3, SameExact
<1>5. QED BY <1>2, <1>4 DEF ExactInv

LEMMA ConnStepExact ==
    ASSUME IInv, ExactInv, NEW w \in Workers, NEW d, ConnStep(w, d),
           d.block = conns[w][step[w] + 1].block,
           d.expected = conns[w][step[w] + 1].expected
    PROVE  ExactInv'
<1> DEFINE s == conns[w]
           t == conns'[w]
           n == step[w] + 1
<1>0. /\ worker[w] = "loop" /\ ctx[w] = NoResults /\ conns \in [Workers -> Seq(ConnType)]
      /\ s \in Seq(ConnType) /\ n \in 1 .. Len(s)
  BY DEF IInv, WorkTyped, WorkerInv, CtxInv, ConnStep
<1>1. /\ UNCHANGED mainvars /\ worker' = worker /\ opened' = opened /\ ctx' = ctx
      /\ conns' = [conns EXCEPT ![w] = [conns[w] EXCEPT ![step[w] + 1] = d]]
  BY DEF ConnStep
<1>2. t = [s EXCEPT ![n] = d] /\ \A v \in Workers : v # w => conns'[v] = conns[v]
  BY <1>0, <1>1
<1>3. d.block = s[n].block /\ d.expected = s[n].expected
  OBVIOUS
<1>4. SumsExact' /\ VerdictIs'
  BY <1>0, <1>1, RunningMain
<1>5. \A v \in Workers : v # w => BlocksExact(v)' /\ CtxExact(v)'
  BY <1>1, <1>2, SameExact
<1>6. BlocksExact(w)'
  <2>1. BlocksOf(s, FirstBlock(w), opened[w])
    BY DEF ExactInv, BlocksExact
  <2> HIDE DEF s, t, n
  <2>2. Len(t) = Len(s) /\ \A i \in 1 .. Len(s) : t[i].block = s[i].block /\ t[i].expected = s[i].expected
    BY <1>0, <1>2, <1>3
  <2>3. FirstBlock(w)' = FirstBlock(w) /\ opened' = opened
    BY <1>1 DEF FirstBlock
  <2>4. BlocksOf(t, FirstBlock(w), opened[w])
    BY <2>1, <2>2 DEF BlocksOf
  <2>5. QED BY <2>3, <2>4 DEF BlocksExact, t
<1>7. CtxExact(w)'
  BY <1>0, <1>1 DEF CtxExact
<1>8. QED BY <1>4, <1>5, <1>6, <1>7 DEF ExactInv

LEMMA StepExact ==
    ASSUME IInv, ExactInv, NEW w \in Workers,
           \/ StepStutter(w)
           \/ \E k \in 1 .. MaxBytes : StepReceive(w, k)
           \/ StepTerminate(w)
    PROVE  ExactInv'
<1> DEFINE c == conns[w][step[w] + 1]
<1>1. c \in ConnType
  <2>1. conns[w] \in Seq(ConnType) /\ step[w] \in Nat /\ step[w] < Len(conns[w])
    BY DEF IInv, WorkTyped, StepStutter, StepReceive, StepTerminate
  <2>2. QED BY <2>1
<1> HIDE DEF c
<1>2. CASE StepStutter(w)
  <2>1. ConnStep(w, c)
    BY <1>2 DEF StepStutter, c
  <2>2. QED BY <2>1, ConnStepExact DEF c
<1>3. CASE \E k \in 1 .. MaxBytes : StepReceive(w, k)
  <2>1. PICK k \in 1 .. MaxBytes : StepReceive(w, k)
    BY <1>3
  <2> DEFINE d == [c EXCEPT !.bytes = @ + k]
  <2>2. ConnStep(w, d)
    BY <2>1 DEF StepReceive, c
  <2>3. d.block = c.block /\ d.expected = c.expected
    BY <1>1 DEF ConnType
  <2>4. QED BY <2>2, <2>3, ConnStepExact DEF c
<1>4. CASE StepTerminate(w)
  <2>1. PICK clean \in BOOLEAN : ConnStep(w, [c EXCEPT !.done = TRUE, !.clean = clean])
    BY <1>4 DEF StepTerminate, c
  <2> DEFINE d == [c EXCEPT !.done = TRUE, !.clean = clean]
  <2>2. d.block = c.block /\ d.expected = c.expected
    BY <1>1 DEF ConnType
  <2>3. QED BY <2>1, <2>2, ConnStepExact DEF c
<1>5. QED BY <1>2, <1>3, <1>4

LEMMA WorkerEndExact ==
    ASSUME IInv, ExactInv, NEW w \in Workers, WorkerEnd(w) PROVE ExactInv'
<1>0. /\ worker[w] = "loop" /\ DOMAIN ctx = Workers
      /\ worker \in [Workers -> {"off", "start", "open", "loop", "ended"}]
  BY DEF IInv, WorkTyped, WorkerEnd
<1>1. /\ UNCHANGED mainvars /\ conns' = conns /\ opened' = opened
      /\ worker' = [worker EXCEPT ![w] = "ended"]
      /\ ctx' = [ctx EXCEPT ![w] = Results(conns[w])]
  BY DEF WorkerEnd, Leave
<1>2. /\ ctx'[w] = Results(conns[w])
      /\ \A v \in Workers : v # w => worker'[v] = worker[v] /\ ctx'[v] = ctx[v]
  BY <1>0, <1>1
<1>3. SumsExact' /\ VerdictIs'
  BY <1>0, <1>1, RunningMain
<1>4. \A v \in Workers : v # w => BlocksExact(v)' /\ CtxExact(v)'
  BY <1>1, <1>2, SameExact
<1>5. BlocksExact(w)'
  BY <1>1 DEF ExactInv, BlocksExact, FirstBlock
<1>6. CtxExact(w)'
  <2>1. Results(conns[w])' = Results(conns[w])
    BY <1>1 DEF Results
  <2>2. QED BY <1>2, <2>1 DEF CtxExact
<1>7. QED BY <1>3, <1>4, <1>5, <1>6 DEF ExactInv

LEMMA NextExact == IInv /\ ExactInv /\ [Next]_vars => ExactInv'
<1> SUFFICES ASSUME IInv, ExactInv, [Next]_vars PROVE ExactInv' OBVIOUS
<1>1. CASE Main
  BY <1>1, SpawnJoinExact, AddUpExact, ReportExact, StutterExact DEF Main, Exit
<1>2. CASE \E w \in Workers : Worker(w)
  BY <1>2, WorkerStartExact, OpenConnExact, PollExact, StepExact, WorkerEndExact DEF Worker
<1>3. CASE UNCHANGED vars
  BY <1>3, StutterExact
<1>4. QED BY <1>1, <1>2, <1>3 DEF Next

LEMMA AlwaysExact == Spec => []ExactInv
BY InitExact, NextExact, AlwaysIInv, PTL DEF Spec

-----------------------------------------------------------------------------
\* Every worker main started opened all the connections it was to open.
Whole == \A w \in 0 .. n_workers - 1 : Len(conns[w]) = CONNS_PER_WORKER

LEMMA Interval1 ==
    ASSUME NEW n \in Nat PROVE IsFiniteSet(1 .. n) /\ Cardinality(1 .. n) = n
<1>1. IsFiniteSet(1 .. n) /\ Cardinality(1 .. n) = IF 1 > n THEN 0 ELSE n - 1 + 1
  BY FS_Interval
<1>2. QED BY <1>1

LEMMA WorkersTyped ==
    ASSUME IInv
    PROVE  /\ n_workers \in Nat /\ n_workers > 0
           /\ \A w \in 0 .. n_workers - 1 :
                 /\ w \in Workers /\ w \in Nat /\ w < n_workers
                 /\ conns[w] \in Seq(ConnType) /\ Len(conns[w]) \in Nat
                 /\ Len(conns[w]) <= opened[w]
                 /\ opened[w] \in Nat /\ opened[w] <= CONNS_PER_WORKER
<1>1. n_workers \in 1 .. N_WORKERS_REQ /\ N_WORKERS_REQ \in Nat
  BY ConfigAssumption DEF IInv, MainTyped
<1>2. ASSUME NEW w \in 0 .. n_workers - 1
      PROVE  /\ w \in Workers /\ w \in Nat /\ w < n_workers
             /\ conns[w] \in Seq(ConnType) /\ Len(conns[w]) \in Nat
             /\ Len(conns[w]) <= opened[w]
             /\ opened[w] \in Nat /\ opened[w] <= CONNS_PER_WORKER
  <2>1. w \in Workers /\ w \in Nat /\ w < n_workers
    BY <1>1, <1>2 DEF Workers
  <2>2. /\ conns[w] \in Seq(ConnType) /\ opened[w] \in Nat /\ OpenInv(w)
        /\ n_conns[w] \in 0 .. CONNS_PER_WORKER /\ FAULT_ABANDON_CONNS \in Nat
    BY <2>1 DEF IInv, MainTyped, WorkTyped, WorkerInv
  <2>3. ToOpen(w) <= CONNS_PER_WORKER /\ ToOpen(w) \in Nat
    BY <2>2, ConfigAssumption DEF ToOpen, SaturatingSub
  <2>4. Len(conns[w]) \in Nat
    BY <2>2
  <2>5. QED BY <2>1, <2>2, <2>3, <2>4, ConfigAssumption DEF OpenInv
<1>3. QED BY <1>1, <1>2

LEMMA AllConnsWhole ==
    ASSUME IInv, Whole
    PROVE  AllConns = (0 .. n_workers - 1) \X (1 .. CONNS_PER_WORKER)
<1> USE ConfigAssumption
<1>1. ASSUME NEW p \in AllConns PROVE p \in (0 .. n_workers - 1) \X (1 .. CONNS_PER_WORKER)
  <2>1. p \in Workers \X (1 .. CONNS_PER_WORKER)
    BY DEF AllConns
  <2>2. p[1] \in Nat /\ p[1] + 1 <= n_workers /\ n_workers \in Nat
    BY <1>1, BlockBound, WorkersTyped
  <2>3. QED BY <2>1, <2>2
<1>2. ASSUME NEW w \in 0 .. n_workers - 1, NEW i \in 1 .. CONNS_PER_WORKER
      PROVE  <<w, i>> \in AllConns
  <2>1. w \in Workers /\ conns[w] \in Seq(ConnType) /\ Len(conns[w]) = CONNS_PER_WORKER
    BY <1>2, WorkersTyped DEF Whole
  <2>2. i \in DOMAIN conns[w]
    BY <2>1
  <2>3. QED BY <1>2, <2>1, <2>2 DEF AllConns
<1>3. QED BY <1>1, <1>2

\* The blocks of a worker that skipped none.
LEMMA BlockOfIndex ==
    ASSUME IInv, ExactInv, Whole, NEW w \in 0 .. n_workers - 1, NEW i \in 1 .. CONNS_PER_WORKER
    PROVE  conns[w][i].block = w * CONNS_PER_WORKER + (i - 1)
<1>1. /\ w \in Workers /\ w \in Nat /\ conns[w] \in Seq(ConnType) /\ opened[w] \in Nat
      /\ opened[w] <= CONNS_PER_WORKER /\ Len(conns[w]) = CONNS_PER_WORKER
  BY WorkersTyped DEF Whole
<1> DEFINE blk == conns[w][i].block
           fb == w * CONNS_PER_WORKER
<1>2. fb + i - 1 <= blk /\ blk + (CONNS_PER_WORKER - i) < fb + opened[w]
  <2>1. BlocksOf(conns[w], fb, opened[w])
    BY <1>1 DEF ExactInv, BlocksExact, FirstBlock
  <2>2. QED BY <1>1, <2>1 DEF BlocksOf
<1>3. blk \in Nat
  <2>1. conns[w][i] \in ConnType
    BY <1>1
  <2>2. QED BY <2>1 DEF ConnType
<1>4. fb \in Nat /\ CONNS_PER_WORKER \in Nat
  BY <1>1, ConfigAssumption
<1> HIDE DEF blk, fb
<1>5. blk = fb + (i - 1)
  BY <1>1, <1>2, <1>3, <1>4
<1>6. QED BY <1>5 DEF blk, fb

Blocks == {ConnAt(p).block : p \in AllConns}

\* If all workers are whole, every planned block has its connection.
LEMMA WholeCovers ==
    ASSUME IInv, ExactInv, Whole
    PROVE  Blocks = 0 .. n_workers * CONNS_PER_WORKER - 1
<1> DEFINE c == CONNS_PER_WORKER
           total == n_workers * c
<1>0. c \in Nat /\ c > 0 /\ n_workers \in Nat
  BY ConfigAssumption, WorkersTyped
<1>0a. total \in Nat
  BY <1>0
<1>1. ASSUME NEW p \in AllConns PROVE ConnAt(p).block \in 0 .. total - 1
  <2>1. /\ p[1] \in Nat /\ ConnAt(p).block \in Nat /\ p[1] + 1 <= n_workers
        /\ ConnAt(p).block < (p[1] + 1) * c
    BY <1>1, BlockBound
  <2>2. (p[1] + 1) * c <= total
    BY <1>0, <2>1, TimesMono
  <2>3. (p[1] + 1) * c \in Nat
    BY <1>0, <2>1
  <2> HIDE DEF total
  <2>4. QED BY <1>0a, <2>1, <2>2, <2>3
<1>2. ASSUME NEW b \in 0 .. total - 1 PROVE b \in Blocks
  <2> DEFINE w == b \div c
             i == (b % c) + 1
  <2>1. b \in Nat /\ b < total
    BY <1>0a
  <2>2. w \in Nat /\ b % c \in 0 .. c - 1 /\ b = w * c + (b % c)
    BY <1>0, <2>1, DivMod
  <2>3. w < n_workers
    <3>1. SUFFICES ASSUME n_workers <= w PROVE FALSE
      BY <1>0, <2>2
    <3>2. total <= w * c
      BY <1>0, <2>2, <3>1, TimesMono
    <3>3. w * c \in Nat
      BY <1>0, <2>2
    <3> HIDE DEF w, total
    <3>4. QED BY <1>0a, <2>1, <2>2, <3>2, <3>3
  <2>4. w \in 0 .. n_workers - 1 /\ i \in 1 .. c /\ i - 1 = b % c
    BY <1>0, <2>2, <2>3
  <2> HIDE DEF w, i
  <2>5. conns[w][i].block = w * c + (i - 1)
    BY <2>4, BlockOfIndex
  <2>6. <<w, i>> \in AllConns
    BY <2>4, AllConnsWhole
  <2>7. ConnAt(<<w, i>>).block = b
    BY <2>2, <2>4, <2>5 DEF ConnAt
  <2>8. QED BY <2>6, <2>7 DEF Blocks
<1> HIDE DEF total
<1>3. Blocks \subseteq 0 .. total - 1
  BY <1>1 DEF Blocks
<1>4. Blocks = 0 .. total - 1
  BY <1>2, <1>3
<1>5. QED BY <1>4 DEF total

\* Conversely, fewer connections than blocks cannot have all of them.
LEMMA CoversWhole ==
    ASSUME IInv, Blocks = 0 .. n_workers * CONNS_PER_WORKER - 1
    PROVE  Whole
<1> DEFINE c == CONNS_PER_WORKER
           total == n_workers * c
<1>0. c \in Nat /\ c > 0 /\ n_workers \in Nat /\ total \in Nat
  BY ConfigAssumption, WorkersTyped
<1>1. SUFFICES ASSUME NEW w \in 0 .. n_workers - 1 PROVE Len(conns[w]) = c
  BY DEF Whole
<1>2. /\ w \in Workers /\ w \in Nat /\ w < n_workers /\ conns[w] \in Seq(ConnType)
      /\ Len(conns[w]) \in Nat /\ Len(conns[w]) <= c
  <2>1. /\ w \in Workers /\ w \in Nat /\ w < n_workers /\ conns[w] \in Seq(ConnType)
        /\ Len(conns[w]) \in Nat /\ Len(conns[w]) <= opened[w]
        /\ opened[w] \in Nat /\ opened[w] <= c
    BY <1>1, WorkersTyped
  <2>2. QED BY <1>0, <2>1
<1> DEFINE fb == w * c
           T == fb .. fb + c - 1
           f == [i \in 1 .. Len(conns[w]) |-> conns[w][i].block]
<1>3. fb \in Nat /\ (w + 1) * c = fb + c
  BY <1>0, <1>2
<1>4. fb + c <= total
  <2>1. (w + 1) * c <= n_workers * c
    BY <1>0, <1>2, TimesMono
  <2>2. QED BY <1>3, <2>1
<1>5. ASSUME NEW i \in 1 .. Len(conns[w])
      PROVE  /\ <<w, i>> \in AllConns /\ ConnAt(<<w, i>>) = conns[w][i]
             /\ conns[w][i].block \in T
  <2>1. <<w, i>> \in AllConns /\ ConnAt(<<w, i>>) = conns[w][i]
    BY <1>0, <1>2, <1>5 DEF AllConns, ConnAt
  <2> DEFINE r == <<w, i>>
  <2>2. r \in AllConns /\ r[1] = w
    BY <2>1
  <2> HIDE DEF r
  <2>3. ConnAt(r).block \in Nat /\ w * c <= ConnAt(r).block /\ ConnAt(r).block < (w + 1) * c
    BY <2>2, BlockBound
  <2>4. ConnAt(r) = conns[w][i]
    BY <2>1 DEF r
  <2>5. QED BY <1>0, <1>3, <2>1, <2>3, <2>4
<1>6. ASSUME NEW b \in T PROVE \E i \in 1 .. Len(conns[w]) : conns[w][i].block = b
  <2>1. b \in Nat /\ fb <= b /\ b < fb + c
    BY <1>0, <1>3
  <2>2. b \in 0 .. total - 1
    <3> HIDE DEF fb, total
    <3>1. QED BY <1>0, <1>3, <1>4, <2>1
  <2>3. PICK p \in AllConns : ConnAt(p).block = b
    BY <2>2 DEF Blocks
  <2>4. p[1] \in Nat /\ p[1] * c <= b /\ b < (p[1] + 1) * c
    BY <2>3, BlockBound
  <2>5. p[1] = w
    <3>1. ~ (p[1] < w)
      <4>1. SUFFICES ASSUME p[1] + 1 <= w PROVE FALSE
        BY <1>2, <2>4
      <4>2. (p[1] + 1) * c <= fb
        <5>1. p[1] + 1 \in Nat
          BY <2>4
        <5>2. QED BY ONLY <1>0, <1>2, <5>1, <4>1, TimesMono
      <4>3. (p[1] + 1) * c \in Nat
        BY <1>0, <2>4
      <4> HIDE DEF fb
      <4>4. QED BY <1>3, <2>1, <2>4, <4>2, <4>3
    <3>2. ~ (w < p[1])
      <4>1. SUFFICES ASSUME w + 1 <= p[1] PROVE FALSE
        BY <1>2, <2>4
      <4>2. (w + 1) * c <= p[1] * c
        <5>1. w + 1 \in Nat
          BY <1>2
        <5>2. QED BY ONLY <1>0, <2>4, <5>1, <4>1, TimesMono
      <4>3. p[1] * c \in Nat
        BY <1>0, <2>4
      <4> HIDE DEF fb
      <4>4. QED BY <1>0, <1>3, <2>1, <2>4, <4>2, <4>3
    <3>3. QED BY <1>2, <2>4, <3>1, <3>2
  <2>6. p[2] \in 1 .. Len(conns[w]) /\ ConnAt(p) = conns[w][p[2]]
    BY <2>5, ConnIndex DEF ConnAt
  <2>7. QED BY <2>3, <2>6
<1>7. f \in Surjection(1 .. Len(conns[w]), T)
  <2>1. f \in [1 .. Len(conns[w]) -> T]
    BY <1>5
  <2>2. \A b \in T : \E i \in 1 .. Len(conns[w]) : f[i] = b
    BY <1>6
  <2>3. QED BY <2>1, <2>2 DEF Surjection
<1>8. IsFiniteSet(1 .. Len(conns[w])) /\ Cardinality(1 .. Len(conns[w])) = Len(conns[w])
  BY <1>2, Interval1
<1>9. Cardinality(T) = c
  <2>1. fb \in Int /\ fb + c - 1 \in Int
    BY <1>0, <1>3
  <2>2. Cardinality(T) = IF fb > fb + c - 1 THEN 0 ELSE (fb + c - 1) - fb + 1
    BY <2>1, FS_Interval
  <2> HIDE DEF fb
  <2>3. QED BY <1>0, <1>3, <2>2
<1> HIDE DEF f, T
<1>10. Cardinality(T) <= Cardinality(1 .. Len(conns[w]))
  BY <1>7, <1>8, FS_Surjection
<1>11. QED BY <1>0, <1>2, <1>8, <1>9, <1>10

\* main has added up everything: what its sums are when the workers are whole.
LEMMA SumsOfWhole ==
    ASSUME IInv, ExactInv, Whole, main = "exit"
    PROVE  /\ total_b = BytesCounted
           /\ total_expected = n_workers * CONNS_PER_WORKER * BLOCK_SIZE
           /\ conns_total = n_workers * CONNS_PER_WORKER
           /\ (\A p \in AllConns : ConnAt(p).clean) => conns_clean = n_workers * CONNS_PER_WORKER
<1> DEFINE c == CONNS_PER_WORKER
           N == 0 .. n_workers - 1
<1>0. c \in Nat /\ c > 0 /\ n_workers \in Nat /\ BLOCK_SIZE \in Nat
  BY ConfigAssumption, WorkersTyped
<1>1. Summed = n_workers
  BY DEF Summed
<1>2. ASSUME NEW w \in N
      PROVE  /\ w \in Workers /\ conns[w] \in Seq(ConnType) /\ Len(conns[w]) = c
             /\ ctx[w] = Results(conns[w])
  <2>1. w \in Workers /\ conns[w] \in Seq(ConnType) /\ Len(conns[w]) = c /\ w < n_workers
    BY <1>2, WorkersTyped DEF Whole
  <2>2. worker[w] = "ended"
    BY <2>1 DEF IInv, MainInv
  <2>3. QED BY <2>1, <2>2 DEF ExactInv, CtxExact
<1>3. IsFiniteSet(N) /\ Cardinality(N) = n_workers
  <2>1. 0 \in Int /\ n_workers - 1 \in Int
    BY <1>0
  <2>2. IsFiniteSet(N) /\ Cardinality(N) = IF 0 > n_workers - 1 THEN 0 ELSE (n_workers - 1) - 0 + 1
    BY <2>1, FS_Interval
  <2>3. QED BY <1>0, <2>2
<1>4. total_b = BytesCounted
  <2> DEFINE f == [p \in AllConns |-> ConnAt(p).bytes]
             row == [w \in Workers |-> [i \in DOMAIN conns[w] |-> conns[w][i].bytes]]
             rows == Received(ctx)
  <2>1. AllConns = N \X (1 .. c)
    BY AllConnsWhole
  <2>2. BytesCounted = SumOn(f, N \X (1 .. c))
    <3>1. BytesCounted = SumFunction(f) /\ DOMAIN f = N \X (1 .. c)
      BY <2>1 DEF BytesCounted
    <3> HIDE DEF f
    <3>2. QED BY <3>1 DEF SumFunction, SumOn
  <2>3. \A w \in N : rows[w] = SumOn(row[w], 1 .. c)
    <3>1. SUFFICES ASSUME NEW w \in N PROVE rows[w] = SumOn(row[w], 1 .. c)
      OBVIOUS
    <3>2. rows[w] = Results(conns[w]).bytes_received
      BY <1>2 DEF Received
    <3>3. Results(conns[w]).bytes_received
             = SumOn([i \in DOMAIN conns[w] |-> conns[w][i].bytes], 1 .. Len(conns[w]))
      BY <1>2, ResultsType
    <3>4. row[w] = [i \in DOMAIN conns[w] |-> conns[w][i].bytes]
      BY <1>2
    <3>5. Len(conns[w]) = c
      BY <1>2
    <3> HIDE DEF row, rows
    <3>6. QED BY <3>2, <3>3, <3>4, <3>5
  <2>4. \A w \in N : \A i \in 1 .. c : f[<<w, i>>] = row[w][i] /\ row[w][i] \in Nat
    <3>1. SUFFICES ASSUME NEW w \in N, NEW i \in 1 .. c
                   PROVE  f[<<w, i>>] = row[w][i] /\ row[w][i] \in Nat
      OBVIOUS
    <3>2. <<w, i>> \in AllConns
      BY <2>1
    <3>3. f[<<w, i>>] = conns[w][i].bytes
      BY <3>2 DEF ConnAt
    <3>4. i \in DOMAIN conns[w] /\ conns[w][i] \in ConnType /\ w \in Workers
      BY <1>2
    <3>5. row[w][i] = conns[w][i].bytes
      BY <3>4
    <3>6. conns[w][i].bytes \in Nat
      BY <3>4 DEF ConnType
    <3>7. QED BY <3>3, <3>5, <3>6
  <2>5. total_b = SumOn(rows, N)
    BY <1>1 DEF ExactInv, SumsExact
  <2> HIDE DEF f, row, rows, c
  <2>6. SumOn(f, (0 .. n_workers - 1) \X (1 .. c)) = SumOn(rows, 0 .. n_workers - 1)
    <3>1. TableOf(f, n_workers, c, rows, row)
      BY <1>0, <2>3, <2>4 DEF TableOf
    <3>2. QED BY ONLY <3>1, SumTable
  <2>7. QED BY <2>2, <2>5, <2>6
<1>5. total_expected = n_workers * c * BLOCK_SIZE
  <2>1. \A w \in N : Asked(ctx)[w] = c * BLOCK_SIZE
    <3>1. SUFFICES ASSUME NEW w \in N PROVE Asked(ctx)[w] = c * BLOCK_SIZE
      OBVIOUS
    <3> DEFINE g == [i \in DOMAIN conns[w] |-> conns[w][i].expected]
    <3>2. Asked(ctx)[w] = Results(conns[w]).bytes_expected
      BY <1>2 DEF Asked
    <3>3. Results(conns[w]).bytes_expected = SumOn(g, 1 .. c)
      BY <1>2, ResultsType
    <3>4. \A i \in 1 .. c : g[i] = BLOCK_SIZE
      <4>1. BlocksOf(conns[w], FirstBlock(w), opened[w])
        BY <1>2 DEF ExactInv, BlocksExact
      <4>2. QED BY <1>2, <4>1 DEF BlocksOf
    <3>5. IsFiniteSet(1 .. c) /\ Cardinality(1 .. c) = c
      BY <1>0, Interval1
    <3> HIDE DEF g, c
    <3>6. SumOn(g, 1 .. c) = Cardinality(1 .. c) * BLOCK_SIZE
      BY ONLY <1>0, <3>4, <3>5, SumConst
    <3>7. QED BY <3>2, <3>3, <3>5, <3>6
  <2>2. c * BLOCK_SIZE \in Nat
    BY <1>0
  <2>3. SumOn(Asked(ctx), N) = Cardinality(N) * (c * BLOCK_SIZE)
    BY ONLY <1>3, <2>1, <2>2, SumConst
  <2>4. total_expected = SumOn(Asked(ctx), N)
    BY <1>1 DEF ExactInv, SumsExact
  <2>5. n_workers * (c * BLOCK_SIZE) = n_workers * c * BLOCK_SIZE
    BY ONLY <1>0
  <2>6. QED BY <1>3, <2>3, <2>4, <2>5
<1>6. conns_total = n_workers * c
  <2>1. \A w \in N : Totals(ctx)[w] = c
    <3>1. SUFFICES ASSUME NEW w \in N PROVE Totals(ctx)[w] = c
      OBVIOUS
    <3>2. Totals(ctx)[w] = ctx[w].conns_total
      BY <1>2 DEF Totals
    <3>3. Results(conns[w]).conns_total = Len(conns[w])
      BY DEF Results
    <3>4. QED BY <1>2, <3>2, <3>3
  <2>2. SumOn(Totals(ctx), N) = Cardinality(N) * c
    BY ONLY <1>0, <1>3, <2>1, SumConst
  <2>3. conns_total = SumOn(Totals(ctx), N)
    BY <1>1 DEF ExactInv, SumsExact
  <2>4. QED BY <1>3, <2>2, <2>3
<1>7. ASSUME \A p \in AllConns : ConnAt(p).clean PROVE conns_clean = n_workers * c
  <2>1. \A w \in N : Cleans(ctx)[w] = c
    <3>1. SUFFICES ASSUME NEW w \in N PROVE Cleans(ctx)[w] = c
      OBVIOUS
    <3>2. \A i \in 1 .. c : conns[w][i].clean
      <4>1. SUFFICES ASSUME NEW i \in 1 .. c PROVE conns[w][i].clean
        OBVIOUS
      <4>2. <<w, i>> \in AllConns
        BY AllConnsWhole
      <4>3. QED BY <1>7, <4>2 DEF ConnAt
    <3>3. DOMAIN conns[w] = 1 .. c
      BY <1>2
    <3>4. {i \in DOMAIN conns[w] : conns[w][i].clean} = 1 .. c
      BY <3>2, <3>3
    <3>5. Cleans(ctx)[w] = Cardinality({i \in DOMAIN conns[w] : conns[w][i].clean})
      <4>1. Cleans(ctx)[w] = ctx[w].conns_clean /\ ctx[w] = Results(conns[w])
        BY <1>2 DEF Cleans
      <4>2. Results(conns[w]).conns_clean = Cardinality({i \in DOMAIN conns[w] : conns[w][i].clean})
        BY DEF Results
      <4>3. QED BY <4>1, <4>2
    <3>6. QED BY <1>0, <3>4, <3>5, Interval1
  <2>2. SumOn(Cleans(ctx), N) = Cardinality(N) * c
    BY ONLY <1>0, <1>3, <2>1, SumConst
  <2>3. conns_clean = SumOn(Cleans(ctx), N)
    BY <1>1 DEF ExactInv, SumsExact
  <2>4. QED BY <1>3, <2>2, <2>3
<1>8. QED BY <1>4, <1>5, <1>6, <1>7

\* For any number of workers, connections and bytes, and whatever fails: once
\* main has printed its verdict, that verdict is COMPLETE exactly if every
\* planned block has its connection, each connection was closed cleanly, the
\* bytes the connections counted are those the plan asks for, and no frame was
\* misrouted.
THEOREM VerdictExactHolds == Spec => []VerdictExact
<1>1. IInv /\ ExactInv => VerdictExact
  <2> SUFFICES ASSUME IInv, ExactInv, verdict # "none"
               PROVE  verdict = "COMPLETE" <=> RunComplete
    BY DEF VerdictExact
  <2> DEFINE planned == n_workers * CONNS_PER_WORKER * BLOCK_SIZE
             Bytes == IF STUB_TLS_AFTER_HANDSHAKE THEN BytesCounted >= planned
                                                  ELSE BytesCounted = planned
  <2>1. /\ main = "exit"
        /\ verdict = "COMPLETE" <=> RangesOk /\ Covered /\ BytesOk /\ MISROUTED_DROPS = 0
    BY DEF ExactInv, VerdictIs
  <2>2. Summed = n_workers /\ n_workers \in Nat /\ n_workers > 0
    BY <2>1, WorkersTyped DEF Summed
  <2>3. CASE Whole
    <3>1. Blocks = 0 .. n_workers * CONNS_PER_WORKER - 1
      BY <2>3, WholeCovers
    <3>2. /\ total_b = BytesCounted /\ total_expected = planned
          /\ conns_total = n_workers * CONNS_PER_WORKER
          /\ (\A p \in AllConns : ConnAt(p).clean) => conns_clean = n_workers * CONNS_PER_WORKER
      BY <2>1, <2>3, SumsOfWhole
    <3>3. conns_total > 0
      <4>1. n_workers * CONNS_PER_WORKER > 0
        BY <2>2, ConfigAssumption
      <4>2. QED BY <3>2, <4>1
    <3>4. Covered /\ (BytesOk <=> Bytes)
      BY <3>2 DEF Covered, BytesOk
    <3>5. \A p \in AllConns :
             /\ ConnAt(p).done
             /\ conns_clean = conns_total => ConnAt(p).clean
      <4>1. SUFFICES ASSUME NEW p \in AllConns
                     PROVE  ConnAt(p).done /\ (conns_clean = conns_total => ConnAt(p).clean)
        OBVIOUS
      <4>2. p[1] \in 0 .. n_workers - 1
        BY <2>3, AllConnsWhole
      <4>3. p[1] \in Workers /\ p[1] < n_workers /\ Len(conns[p[1]]) = CONNS_PER_WORKER
        BY <2>3, <4>2, WorkersTyped DEF Whole
      <4>4. worker[p[1]] = "ended" /\ CtxInv(p[1])
        BY <2>1, <4>3 DEF IInv, MainInv, WorkerInv
      <4>5. ctx[p[1]].conns_total = CONNS_PER_WORKER
        BY <2>2, <3>2, <4>3 DEF IInv, SumInv
      <4>6. conns_clean = conns_total => ctx[p[1]].conns_clean = ctx[p[1]].conns_total
        BY <2>2, <4>3 DEF IInv, SumInv
      <4>7. p[2] \in 1 .. Len(conns[p[1]])
        BY ConnIndex
      <4>8. QED BY <4>4, <4>5, <4>6, <4>7, ConfigAssumption DEF CtxInv, ConnAt
    <3>6. RangesOk <=> \A p \in AllConns : ConnAt(p).done /\ ConnAt(p).clean
      BY <3>2, <3>3, <3>5 DEF RangesOk
    <3>7. RunComplete <=>
             /\ Blocks = 0 .. n_workers * CONNS_PER_WORKER - 1
             /\ \A p \in AllConns : ConnAt(p).done /\ ConnAt(p).clean
             /\ Bytes /\ MISROUTED_DROPS = 0
      BY DEF RunComplete, Blocks
    <3> HIDE DEF Bytes, planned
    <3>8. QED BY <2>1, <3>1, <3>4, <3>6, <3>7
  <2>4. CASE ~ Whole
    <3>1. ~ Covered
      <4>1. SUFFICES ASSUME Covered PROVE Whole
        BY <2>4
      <4>2. SUFFICES ASSUME NEW w \in 0 .. n_workers - 1 PROVE Len(conns[w]) = CONNS_PER_WORKER
        BY DEF Whole
      <4>3. w \in Workers /\ w < n_workers
        BY <4>2, WorkersTyped
      <4>4. ctx[w].conns_total = CONNS_PER_WORKER
        BY <2>2, <4>1, <4>3 DEF IInv, SumInv, Covered
      <4>5. worker[w] = "ended" /\ CtxInv(w)
        BY <2>1, <4>3 DEF IInv, MainInv, WorkerInv
      <4>6. QED BY <4>4, <4>5, ConfigAssumption DEF CtxInv
    <3>2. Blocks # 0 .. n_workers * CONNS_PER_WORKER - 1
      BY <2>4, CoversWhole
    <3>3. QED BY <2>1, <3>1, <3>2 DEF RunComplete, Blocks
  <2>5. QED BY <2>3, <2>4
<1>2. QED BY <1>1, AlwaysIInv, AlwaysExact, PTL

-----------------------------------------------------------------------------
\* However many workers and connections, and whatever fails: main's and the
\* workers' variables keep their types, the sums of bytes and the published
\* results included, the loop that opens connections stays within the ports
\* found and a pass within the connections opened.
THEOREM TypeCorrect == Spec => []TypeOK
<1>1. IInv /\ ExactInv /\ Printed => TypeOK
  <2> SUFFICES ASSUME IInv, ExactInv, Printed PROVE TypeOK
    OBVIOUS
  <2>1. ASSUME NEW w \in Workers
        PROVE  step[w] <= Len(conns[w]) /\ Len(conns[w]) <= opened[w] /\ opened[w] <= n_conns[w]
    <3>1. n_conns[w] \in Nat /\ opened[w] \in Nat /\ FAULT_ABANDON_CONNS \in Nat
      BY <2>1, ConfigAssumption DEF IInv, MainTyped, WorkTyped
    <3>2. OpenInv(w)
      BY <2>1 DEF IInv, WorkerInv
    <3>3. QED BY <3>1, <3>2 DEF OpenInv, ToOpen, SaturatingSub
  <2>2. total_b \in Nat /\ total_expected \in Nat
    <3>1. Summed \in Int /\ \A w \in 0 .. Summed - 1 : w \in Workers
      BY ConfigAssumption DEF IInv, MainTyped, Summed, Workers
    <3>2. IsFiniteSet(0 .. Summed - 1)
      <4>1. Summed - 1 \in Int
        BY <3>1
      <4>2. QED BY <4>1, FS_Interval
    <3>3. \A w \in 0 .. Summed - 1 : Received(ctx)[w] \in Nat
      BY <3>1, CtxType DEF Received
    <3>4. \A w \in 0 .. Summed - 1 : Asked(ctx)[w] \in Nat
      BY <3>1, CtxType DEF Asked
    <3>5. SumOn(Received(ctx), 0 .. Summed - 1) \in Nat /\ SumOn(Asked(ctx), 0 .. Summed - 1) \in Nat
      BY <3>2, <3>3, <3>4, SumType
    <3>6. QED BY <3>5 DEF ExactInv, SumsExact
  <2>3. DOMAIN ctx = Workers /\ \A w \in Workers : ctx[w] \in ResultsRecord
    <3>1. ASSUME NEW w \in Workers PROVE ctx[w] \in ResultsRecord
      <4>1. /\ ctx[w].bytes_received \in Nat /\ ctx[w].bytes_expected \in Nat
            /\ ctx[w].conns_total \in Nat /\ ctx[w].conns_clean \in Nat
        BY <3>1, CtxType
      <4>2. CASE ctx[w] = NoResults
        BY <4>2 DEF NoResults, ResultsRecord
      <4>3. CASE ctx[w] = Results(conns[w])
        BY <4>1, <4>3 DEF Results, ResultsRecord
      <4>4. QED BY <3>1, <4>2, <4>3 DEF ExactInv, CtxExact
    <3>2. QED BY <3>1 DEF IInv, WorkTyped
  <2>4. QED BY <2>1, <2>2, <2>3 DEF IInv, MainTyped, WorkTyped, Printed, TypeOK
<1>2. QED BY <1>1, AlwaysIInv, AlwaysExact, AlwaysPrinted, PTL
==============================================================================
