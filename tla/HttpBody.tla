------------------------------ MODULE HttpBody ------------------------------
(***************************************************************************)
(* count_body (bench/smoltcp-s3/src/lib.rs): every connection is handed    *)
(* its plaintext response in slices of arbitrary length, TLS record by     *)
(* record or recv by recv, and counts the bytes that follow the HTTP       *)
(* header.  The state that survives from one call to the next is           *)
(* headers_done, hdr_state, status and status_pos; a call is one pass over *)
(* a slice, modelled one loop iteration per step so that the atomic        *)
(* counters of different workers interleave as they do in the program.     *)
(***************************************************************************)
EXTENDS Integers, Sequences, FiniteSets

CONSTANTS Conns,    \* connections, driven by any number of workers
          Streams   \* the responses a server may send: sequences of bytes

Byte == 0..255

ASSUME StreamsAssumption == Streams \subseteq Seq(Byte)
ASSUME ConnsAssumption == IsFiniteSet(Conns)

CR == 13
LF == 10

VARIABLES
    stream,            \* the plaintext this connection's peer sends (never changes)
    at,                \* bytes of stream that earlier iterations have looked at
    rest,              \* bytes of the slice of the running call not looked at yet
    bytes,             \* Conn.bytes_received
    headers_done,      \* Conn.headers_done
    hdr_state,         \* Conn.hdr_state
    status,            \* Conn.status
    status_pos,        \* Conn.status_pos
    cas,               \* connections between BAD_STATUS.fetch_add and the compare_exchange
    BAD_STATUS,        \* the two counters every worker shares
    FIRST_BAD_STATUS

conn == <<stream, at, rest, bytes, headers_done, hdr_state, status, status_pos>>
vars == <<conn, cas, BAD_STATUS, FIRST_BAD_STATUS>>

Init ==
    /\ stream \in [Conns -> Streams]
    /\ at = [c \in Conns |-> 0]
    /\ rest = [c \in Conns |-> 0]
    /\ bytes = [c \in Conns |-> 0]
    /\ headers_done = [c \in Conns |-> FALSE]
    /\ hdr_state = [c \in Conns |-> 0]
    /\ status = [c \in Conns |-> 0]
    /\ status_pos = [c \in Conns |-> 0]
    /\ cas = {}
    /\ BAD_STATUS = 0
    /\ FIRST_BAD_STATUS = 0

-----------------------------------------------------------------------------
IsDigit(b) == b \in 48..57

\* A slip: a CR in the middle of a match is not the start of the next one.
HdrNextNoRestart(h, b) ==
    CASE b = CR -> IF h \in {0, 2} THEN h + 1 ELSE 0
      [] b = LF /\ h \in {1, 3} -> h + 1
      [] OTHER -> 0

\* The CRLFCRLF recogniser: (state, byte) -> state.
HdrNext(h, b) ==
    CASE b = CR -> IF h = 2 THEN 3 ELSE 1
      [] b = LF /\ h \in {1, 3} -> h + 1
      [] OTHER -> 0

\* A slip: the window of the code starts one byte late.
StatusNextLate(s, pos, b) ==
    IF pos \in 10..12 /\ IsDigit(b) THEN s * 10 + (b - 48) ELSE s

\* The status code is the digits among bytes 9..11 of the response.
StatusNext(s, pos, b) ==
    IF pos \in 9..11 /\ IsDigit(b) THEN s * 10 + (b - 48) ELSE s

StatusPosNext(pos) == IF pos < 12 THEN pos + 1 ELSE pos

\* A call whose header is already behind it: the whole slice is body.
CountBodyPastHeader(c, n) ==
    /\ rest[c] = 0 /\ headers_done[c] /\ c \notin cas
    /\ bytes' = [bytes EXCEPT ![c] = @ + n]
    /\ at' = [at EXCEPT ![c] = @ + n]
    /\ UNCHANGED <<stream, rest, headers_done, hdr_state, status, status_pos,
                   cas, BAD_STATUS, FIRST_BAD_STATUS>>

\* A slip: a call after the header scans its slice again.
CountBodyEnterAgain(c, n) ==
    /\ rest[c] = 0 /\ c \notin cas
    /\ rest' = [rest EXCEPT ![c] = n]
    /\ UNCHANGED <<stream, at, bytes, headers_done, hdr_state, status, status_pos,
                   cas, BAD_STATUS, FIRST_BAD_STATUS>>

\* A call with the header still open enters the loop over its n bytes.
CountBodyEnter(c, n) ==
    /\ rest[c] = 0 /\ ~headers_done[c]
    /\ rest' = [rest EXCEPT ![c] = n]
    /\ UNCHANGED <<stream, at, bytes, headers_done, hdr_state, status, status_pos,
                   cas, BAD_STATUS, FIRST_BAD_STATUS>>

\* One iteration.  The iteration that completes the terminator counts what is
\* left of the slice and returns; a status other than 206 is counted on the way.
CountBodyByte(c) ==
    /\ rest[c] > 0
    /\ LET b == stream[c][at[c] + 1]
           h == HdrNext(hdr_state[c], b)
           s == StatusNext(status[c], status_pos[c], b)
       IN  /\ status' = [status EXCEPT ![c] = s]
           /\ status_pos' = [status_pos EXCEPT ![c] = StatusPosNext(@)]
           /\ hdr_state' = [hdr_state EXCEPT ![c] = h]
           /\ \/ /\ h # 4
                 /\ at' = [at EXCEPT ![c] = @ + 1]
                 /\ rest' = [rest EXCEPT ![c] = @ - 1]
                 /\ UNCHANGED <<bytes, headers_done, cas, BAD_STATUS>>
              \/ /\ h = 4
                 /\ headers_done' = [headers_done EXCEPT ![c] = TRUE]
                 /\ bytes' = [bytes EXCEPT ![c] = @ + rest[c] - 1]
                 /\ at' = [at EXCEPT ![c] = @ + rest[c]]
                 /\ rest' = [rest EXCEPT ![c] = 0]
                 /\ IF s # 206
                    THEN BAD_STATUS' = BAD_STATUS + 1 /\ cas' = cas \union {c}
                    ELSE UNCHANGED <<BAD_STATUS, cas>>
    /\ UNCHANGED <<stream, FIRST_BAD_STATUS>>

\* A slip: a plain store in place of the compare_exchange.
NoteFirstBadStore(c) ==
    /\ c \in cas
    /\ FIRST_BAD_STATUS' = status[c]
    /\ cas' = cas \ {c}
    /\ UNCHANGED <<conn, BAD_STATUS>>

\* FIRST_BAD_STATUS.compare_exchange(0, status): only a zero is replaced.
NoteFirstBad(c) ==
    /\ c \in cas
    /\ FIRST_BAD_STATUS' = IF FIRST_BAD_STATUS = 0 THEN status[c] ELSE FIRST_BAD_STATUS
    /\ cas' = cas \ {c}
    /\ UNCHANGED <<conn, BAD_STATUS>>

\* The slices of one connection are consecutive pieces of its stream.
Slice(c) == 1..(Len(stream[c]) - at[c])

Next ==
    \E c \in Conns :
        \/ \E n \in Slice(c) : CountBodyPastHeader(c, n) \/ CountBodyEnter(c, n)
        \/ CountBodyByte(c)
        \/ NoteFirstBad(c)

Spec == Init /\ [][Next]_vars
-----------------------------------------------------------------------------
\* Reference: an HTTP header ends with the first CRLFCRLF.
EndsHeader(s, k) ==
    k >= 4 /\ s[k - 3] = CR /\ s[k - 2] = LF /\ s[k - 1] = CR /\ s[k] = LF

HeaderLen(s, k) == EndsHeader(s, k) /\ \A j \in 4..(k - 1) : ~EndsHeader(s, j)

\* Reference: the number spelt by the digits among bytes 10..12 (one-based) of
\* the first k bytes of the response.
StatusOf(s, k) ==
    LET add(acc, i) == IF i <= k /\ IsDigit(s[i]) THEN acc * 10 + (s[i] - 48) ELSE acc
    IN  add(add(add(0, 10), 11), 12)

\* Every variable keeps its type: the position is held at 12 once the status
\* window is behind it, and no call looks past the end of the stream.
TypeOK ==
    /\ stream \in [Conns -> Streams]
    /\ at \in [Conns -> Nat]
    /\ rest \in [Conns -> Nat]
    /\ bytes \in [Conns -> Nat]
    /\ headers_done \in [Conns -> BOOLEAN]
    /\ hdr_state \in [Conns -> 0..4]
    /\ status \in [Conns -> Nat]
    /\ status_pos \in [Conns -> 0..12]
    /\ cas \subseteq Conns
    /\ BAD_STATUS \in Nat
    /\ FIRST_BAD_STATUS \in Nat
    /\ \A c \in Conns : at[c] + rest[c] <= Len(stream[c])

(***************************************************************************)
(* Whatever slices the response arrives in, what count_body has counted is *)
(* exactly the bytes after the first CRLFCRLF, and nothing before it: the  *)
(* promise behind "Count response *body* bytes only ... the terminator can *)
(* straddle records".                                                      *)
(***************************************************************************)
BodyExact(c) ==
    IF headers_done[c]
    THEN \E k \in 4..at[c] : HeaderLen(stream[c], k) /\ bytes[c] = at[c] - k
    ELSE /\ bytes[c] = 0
         /\ \A j \in 4..at[c] : ~EndsHeader(stream[c], j)

BodyOnly == \A c \in Conns : BodyExact(c)

(***************************************************************************)
(* The status that is compared with 206 is the code in the status line,    *)
(* even when that line is split over several slices.                       *)
(***************************************************************************)
StatusIsCode ==
    \A c \in Conns : headers_done[c] =>
        \E k \in 4..at[c] : HeaderLen(stream[c], k) /\ status[c] = StatusOf(stream[c], k)

Refused == {c \in Conns : headers_done[c] /\ status[c] # 206}

(***************************************************************************)
(* BAD_STATUS counts each response that was refused once, however its      *)
(* header was split and whichever workers run at the same time.            *)
(***************************************************************************)
RefusalsCounted == BAD_STATUS = Cardinality(Refused)

(***************************************************************************)
(* FIRST_BAD_STATUS always names a code some connection really received    *)
(* and rejected, and once every compare_exchange has run it is 0 only if   *)
(* no refusal carried a code.                                              *)
(***************************************************************************)
FirstBadIsReal ==
    /\ FIRST_BAD_STATUS # 0 => \E c \in Refused : status[c] = FIRST_BAD_STATUS
    /\ cas = {} /\ FIRST_BAD_STATUS = 0 => \A c \in Refused : status[c] = 0
=============================================================================
