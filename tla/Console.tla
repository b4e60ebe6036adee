------------------------------- MODULE Console -------------------------------
(***************************************************************************)
(* The console shared by main and the workers (print_line, BufWriter and   *)
(* PRINT_LOCK of bench/smoltcp-s3/src/lib.rs).  A line is formatted        *)
(* fragment by fragment into a buffer of its own, then written under a     *)
(* spin lock with as many write() calls as it takes.                       *)
(***************************************************************************)
EXTENDS Naturals, Sequences, FiniteSets

CONSTANTS Threads,    \* main and the workers
          LINE_MAX,   \* size of the line buffer
          MaxLines,   \* bound: lines each thread prints
          MaxFrag     \* bound: bytes of one format fragment

ASSUME LineAssumption == LINE_MAX \in Nat \ {0}
ASSUME BoundAssumption == MaxLines \in Nat /\ MaxFrag \in Nat

VARIABLES pc,           \* "idle", "format", "spin" or "write"
          line,         \* lines each thread has begun
          used, off,    \* print_line's locals
          PRINT_LOCK,
          console,      \* every byte that has been written, in order
          cut           \* lines whose write() failed

consolevars == <<pc, line, used, off, PRINT_LOCK, console, cut>>

ConsoleInit ==
    /\ pc = [t \in Threads |-> "idle"]
    /\ line = [t \in Threads |-> 0]
    /\ used = [t \in Threads |-> 0]
    /\ off = [t \in Threads |-> 0]
    /\ PRINT_LOCK = FALSE
    /\ console = <<>>
    /\ cut = {}

\* println! enters print_line with an empty buffer.
Enter(t) ==
    /\ pc[t] = "idle" /\ line[t] < MaxLines
    /\ pc' = [pc EXCEPT ![t] = "format"]
    /\ line' = [line EXCEPT ![t] = @ + 1]
    /\ used' = [used EXCEPT ![t] = 0]
    /\ UNCHANGED <<off, PRINT_LOCK, console, cut>>

\* What write_str takes of a fragment of n bytes: no more than there is room for.
Taken(n, u) == IF n <= LINE_MAX - u THEN n ELSE LINE_MAX - u

\* BufWriter::write_str, once per format fragment.
WriteStr(t) ==
    /\ pc[t] = "format"
    /\ \E n \in 1 .. MaxFrag : used' = [used EXCEPT ![t] = @ + Taken(n, @)]
    /\ UNCHANGED <<pc, line, off, PRINT_LOCK, console, cut>>

\* The length of the line with its newline, which replaces the last byte of a
\* full buffer.
Terminated(u) == IF u = LINE_MAX THEN u ELSE u + 1

Terminate(t) ==
    /\ pc[t] = "format"
    /\ used' = [used EXCEPT ![t] = Terminated(@)]
    /\ off' = [off EXCEPT ![t] = 0]
    /\ pc' = [pc EXCEPT ![t] = "spin"]
    /\ UNCHANGED <<line, PRINT_LOCK, console, cut>>

\* A slip: the lock is taken without looking at it.
LockFreeAlways == TRUE

LockFree == ~PRINT_LOCK

\* The compare_exchange_weak that succeeds; those that fail only spin.
Acquire(t) ==
    /\ pc[t] = "spin" /\ LockFree
    /\ PRINT_LOCK' = TRUE
    /\ pc' = [pc EXCEPT ![t] = "write"]
    /\ UNCHANGED <<line, used, off, console, cut>>

Bytes(t, n) ==
    [i \in 1 .. n |-> [thread |-> t, line |-> line[t], at |-> off[t] + i, len |-> used[t]]]

\* One write() that takes n of the bytes left.
WriteSome(t) ==
    /\ pc[t] = "write"
    /\ \E n \in 1 .. used[t] - off[t] :
          /\ console' = console \o Bytes(t, n)
          /\ off' = [off EXCEPT ![t] = @ + n]
    /\ UNCHANGED <<pc, line, used, PRINT_LOCK, cut>>

\* The loop over write() ends with the line.
MayRelease(t) == off[t] = used[t]

\* A slip: the way out of the loop skips the release.
UnlockForgotten(t) ==
    /\ pc' = [pc EXCEPT ![t] = "idle"]
    /\ UNCHANGED <<line, used, off, PRINT_LOCK, console>>

Unlock(t) ==
    /\ PRINT_LOCK' = FALSE
    /\ pc' = [pc EXCEPT ![t] = "idle"]
    /\ UNCHANGED <<line, used, off, console>>

Release(t) ==
    /\ pc[t] = "write" /\ MayRelease(t)
    /\ Unlock(t)
    /\ UNCHANGED cut

\* A write() that returns zero or less ends the loop with part of the line.
WriteFails(t) ==
    /\ pc[t] = "write" /\ off[t] < used[t]
    /\ cut' = cut \union {[thread |-> t, line |-> line[t]]}
    /\ Unlock(t)

PrintLine(t) ==
    \/ Enter(t) \/ WriteStr(t) \/ Terminate(t) \/ Acquire(t)
    \/ WriteSome(t) \/ Release(t) \/ WriteFails(t)

ConsoleNext == \E t \in Threads : PrintLine(t)

ConsoleSpec == ConsoleInit /\ [][ConsoleNext]_consolevars

\* Every thread runs, and formatting ends; a thread that spins while the lock
\* stays free takes it.  The lock is not fair.
ConsoleFairness ==
    \A t \in Threads :
        /\ WF_consolevars(Enter(t)) /\ WF_consolevars(Terminate(t)) /\ WF_consolevars(Acquire(t))
        /\ WF_consolevars(WriteSome(t)) /\ WF_consolevars(Release(t) \/ WriteFails(t))

ConsoleFairSpec == ConsoleSpec /\ ConsoleFairness

-----------------------------------------------------------------------------
(* Properties *)

ByteType == [thread : Threads, line : Nat, at : Nat, len : Nat]

\* Every variable keeps its type, and no thread's line outgrows its buffer,
\* newline included.
ConsoleTypeOK ==
    /\ pc \in [Threads -> {"idle", "format", "spin", "write"}]
    /\ line \in [Threads -> Nat]
    /\ used \in [Threads -> 0 .. LINE_MAX]
    /\ off \in [Threads -> 0 .. LINE_MAX]
    /\ PRINT_LOCK \in BOOLEAN
    /\ console \in Seq(ByteType)
    /\ cut \subseteq [thread : Threads, line : Nat]

\* "Guards the console so two workers cannot interleave their lines": a byte
\* either follows the previous byte of its own line, or starts a line right
\* after one that was written to its newline or given up by a failed write().
LinesWhole ==
    \A i \in 1 .. Len(console) - 1 :
        LET x == console[i]
            y == console[i + 1]
        IN  \/ y.thread = x.thread /\ y.line = x.line /\ y.at = x.at + 1
            \/ y.at = 1 /\ (x.at = x.len \/ [thread |-> x.thread, line |-> x.line] \in cut)

\* Every line gets printed in the end, although the lock is unfair: each
\* thread prints a bounded number of lines and none holds the lock for good.
AllPrinted == <>(\A t \in Threads : pc[t] = "idle" /\ line[t] = MaxLines)
==============================================================================
