-------------------------------- MODULE Conn --------------------------------
(***************************************************************************)
(* One connection of a worker (bench/smoltcp-s3/src/lib.rs): the Conn      *)
(* record and conn_step, the smoltcp client socket it reads and writes,    *)
(* the rustls session, and the server at the other end.                    *)
(*                                                                         *)
(* The worker alternates iface.poll and conn_step.  Frames reach the       *)
(* socket only inside poll, so conn_step is atomic for the socket but not  *)
(* for the server, which runs all the time.  conn_step is split where it   *)
(* loops: the receive loop and the TLS loop are one action per iteration.  *)
(*                                                                         *)
(* Data is counted in units: the client's side of the stream is made of    *)
(* "hello", "cfin" (the two TLS flights) and ReqLen units "req"; the       *)
(* server's of TLS records <<"part", kind>>, each of two units so that a   *)
(* read can end inside a record, or under PLAIN_HTTP of the bare kinds.    *)
(* The header of a response is one unit "hdr": how count_body finds its    *)
(* end in arbitrary slices is the subject of HttpBody.                     *)
(***************************************************************************)
EXTENDS Integers, Sequences

CONSTANTS
    Builds,                     \* the builds considered: "plain", "tls", "stub"
    ReqLen,                     \* units of one request
    BLOCK_SIZE,                 \* body units a range request asks for
    MaxBody,                    \* bound: most body units a server sends
    TxCap, RxCap,               \* capacities of the socket's buffers
    SYN_TIMEOUT_MS,             \* in ticks of the clock
    MaxSyns,                    \* bound: SYNs smoltcp sends before the timeout
    Faults                      \* what the server and the record layer may do wrong

AllFaults == {"refuse", "reset", "early_fin", "length", "bad_record", "tls_error"}

ASSUME BuildAssumption == Builds \subseteq {"plain", "tls", "stub"}
ASSUME SizeAssumption ==
    /\ ReqLen \in Nat \ {0} /\ BLOCK_SIZE \in Nat \ {0} /\ MaxBody \in Nat
    /\ TxCap \in Nat \ {0} /\ RxCap \in Nat \ {0}
    /\ SYN_TIMEOUT_MS \in Nat /\ MaxSyns \in Nat \ {0}
ASSUME FaultAssumption == Faults \subseteq AllFaults

VARIABLES
    build,             \* how the program was compiled (never changes)
    \* the smoltcp socket
    tcp,               \* Socket::state
    tuple,             \* the socket still has a remote endpoint to send to
    rx, tx,            \* its buffers
    \* the network and the server
    wire,              \* segments on their way to the client, in order
    syns,              \* SYNs the socket has sent
    peer,              \* "listen", "open" or "closed"
    got,               \* units that have reached the server
    stage,             \* what the server sends next
    sent_body,         \* body units the server has sent
    \* the Conn record
    incoming, outgoing, request_queued, handshake_done, bytes_received,
    done, closed_cleanly, headers_done, settled,
    tls,               \* the rustls session
    \* counters shared by all connections
    CONNS_ESTABLISHED, CONNS_FAILED, SYN_RETRIES,
    \* the worker
    clock,             \* ms since connect_start_ms
    pc,                \* where the worker is: "poll", or inside conn_step
    ret                \* what conn_step last returned

sockvars == <<tcp, tuple, rx, tx>>
peervars == <<peer, got, stage, sent_body>>
connvars == <<incoming, outgoing, request_queued, handshake_done, bytes_received,
              done, closed_cleanly, headers_done, settled, tls>>
counters == <<CONNS_ESTABLISHED, CONNS_FAILED, SYN_RETRIES>>
workvars == <<clock, pc, ret>>
vars == <<build, sockvars, wire, syns, peervars, connvars, counters, workvars>>

-----------------------------------------------------------------------------
PLAIN_HTTP == build = "plain"                  \* BENCH_SCHEME=http
STUB_TLS_AFTER_HANDSHAKE == build = "stub"     \* BENCH_TLS_STUB=1

\* The request, and the server's records.
Request == [i \in 1..ReqLen |-> "req"]
Attempts == 1                     \* Conn.attempts: set once, never updated

Record(kind) == IF PLAIN_HTTP THEN <<kind>> ELSE <<"part", kind>>

\* A worker has just called connect() and built the Conn.
Init ==
    /\ build \in Builds
    /\ tcp = "SynSent" /\ tuple = TRUE /\ rx = <<>> /\ tx = <<>>
    /\ wire = <<>> /\ syns = 0
    /\ peer = "listen" /\ got = <<>> /\ sent_body = 0
    /\ stage = IF PLAIN_HTTP THEN "header" ELSE "flight"
    /\ incoming = <<>> /\ outgoing = <<>>
    /\ request_queued = FALSE /\ handshake_done = FALSE
    /\ bytes_received = 0 /\ done = FALSE /\ closed_cleanly = FALSE
    /\ headers_done = FALSE /\ settled = FALSE
    /\ tls = IF PLAIN_HTTP THEN "none" ELSE "start"
    /\ CONNS_ESTABLISHED = 0 /\ CONNS_FAILED = 0 /\ SYN_RETRIES = 0
    /\ clock = 0 /\ pc = "poll" /\ ret = FALSE

-----------------------------------------------------------------------------
(* smoltcp: what conn_step asks of its socket *)

MaySend == tcp \in {"Established", "CloseWait"}
CanSend == MaySend /\ Len(tx) < TxCap
CanRecv == rx # <<>>

(* iface.poll: one segment in, or one segment out *)

\* Socket::process on the next segment of the flow.
Process(seg) ==
    \/ /\ seg = "synack" /\ tcp = "SynSent"
       /\ tcp' = "Established" /\ UNCHANGED <<tuple, rx, tx>>
    \/ /\ seg = "rst" /\ tcp # "Closed"
       /\ tcp' = "Closed" /\ tuple' = FALSE /\ UNCHANGED <<rx, tx>>
    \/ /\ seg = "fin" /\ tcp = "Established"
       /\ tcp' = "CloseWait" /\ UNCHANGED <<tuple, rx, tx>>
    \/ /\ seg \notin {"synack", "rst", "fin"} /\ tcp = "Established"
       /\ Len(rx) < RxCap
       /\ rx' = Append(rx, seg) /\ UNCHANGED <<tcp, tuple, tx>>
    \/ /\ tcp = "Closed"
       /\ UNCHANGED sockvars

Ingress ==
    /\ pc = "poll" /\ wire # <<>>
    /\ Process(Head(wire))
    /\ wire' = Tail(wire)
    /\ UNCHANGED <<build, syns, peervars, connvars, counters, workvars>>

\* Socket::dispatch: a SYN (again, whenever the retransmit timer has run out),
\* the next unit of the transmit buffer, or the RST of an aborted socket.
Egress ==
    /\ pc = "poll" /\ tuple
    /\ \/ /\ tcp = "SynSent" /\ syns < MaxSyns
          /\ syns' = syns + 1
          /\ UNCHANGED <<sockvars, peervars>>
       \/ /\ MaySend /\ tx # <<>>
          /\ tx' = Tail(tx)
          /\ got' = Append(got, Head(tx))
          /\ UNCHANGED <<tcp, tuple, rx, syns, peer, stage, sent_body>>
       \/ /\ tcp = "Closed"
          /\ tuple' = FALSE
          /\ peer' = "closed"
          /\ UNCHANGED <<tcp, rx, tx, syns, got, stage, sent_body>>
    /\ UNCHANGED <<build, wire, connvars, counters, workvars>>

\* poll returns once neither direction has anything left to do.
EndPoll ==
    /\ pc = "poll"
    /\ pc' = "step"
    /\ UNCHANGED <<build, sockvars, wire, syns, peervars, connvars, counters, clock, ret>>

\* Milliseconds only matter while the SYN is unanswered.
Tick ==
    /\ pc = "poll" /\ tcp = "SynSent" /\ clock <= SYN_TIMEOUT_MS
    /\ clock' = clock + 1
    /\ UNCHANGED <<build, sockvars, wire, syns, peervars, connvars, counters, pc, ret>>

-----------------------------------------------------------------------------
(* conn_step up to the receive loop *)

\* A slip: no early return for a connection that is done.
RunningAlways == TRUE

\* `if conn.done { return true; }`
Running == ~done

StepDone ==
    /\ pc = "step" /\ ~Running
    /\ ret' = TRUE /\ pc' = "poll"
    /\ UNCHANGED <<build, sockvars, wire, syns, peervars, connvars, counters, clock>>

SynExpired == tcp = "SynSent" /\ clock > SYN_TIMEOUT_MS

\* The SYN timeout: abort the socket, give the connection up.
StepSynTimeout ==
    /\ pc = "step" /\ Running /\ SynExpired
    /\ tcp' = "Closed"
    /\ settled' = TRUE
    /\ CONNS_FAILED' = IF settled THEN CONNS_FAILED ELSE CONNS_FAILED + 1
    /\ done' = TRUE /\ ret' = TRUE /\ pc' = "poll"
    /\ UNCHANGED <<build, tuple, rx, tx, wire, syns, peervars, incoming, outgoing, request_queued,
                   handshake_done, bytes_received, closed_cleanly, headers_done, tls,
                   CONNS_ESTABLISHED, SYN_RETRIES, clock>>

\* A slip: every step of an established connection counts it.
SettleAgain ==
    IF tcp = "Established"
    THEN /\ settled' = TRUE
         /\ SYN_RETRIES' = SYN_RETRIES + (Attempts - 1)
         /\ CONNS_ESTABLISHED' = CONNS_ESTABLISHED + 1
    ELSE UNCHANGED <<settled, SYN_RETRIES, CONNS_ESTABLISHED>>

\* Instrumentation on the first step that finds the socket established.
Settle ==
    IF ~settled /\ tcp = "Established"
    THEN /\ settled' = TRUE
         /\ SYN_RETRIES' = SYN_RETRIES + (Attempts - 1)
         /\ CONNS_ESTABLISHED' = CONNS_ESTABLISHED + 1
    ELSE UNCHANGED <<settled, SYN_RETRIES, CONNS_ESTABLISHED>>

\* Under PLAIN_HTTP the request is queued as soon as the socket is open.
QueuePlain == PLAIN_HTTP /\ ~request_queued /\ MaySend

\* A slip: send_slice is taken to accept everything.
AcceptedAll(out) == IF out # <<>> /\ CanSend THEN Len(out) ELSE 0

\* What send_slice takes of the bytes waiting to go out.
Accepted(out) ==
    IF out # <<>> /\ CanSend
    THEN IF Len(out) < TxCap - Len(tx) THEN Len(out) ELSE TxCap - Len(tx)
    ELSE 0

StepSend ==
    /\ pc = "step" /\ Running /\ ~SynExpired
    /\ Settle
    /\ LET out == IF QueuePlain THEN outgoing \o Request ELSE outgoing
           n   == Accepted(out)
       IN  /\ tx' = tx \o SubSeq(out, 1, n)
           /\ outgoing' = SubSeq(out, n + 1, Len(out))
    /\ request_queued' = (request_queued \/ QueuePlain)
    /\ handshake_done' = (handshake_done \/ QueuePlain)
    /\ pc' = "recv"
    /\ UNCHANGED <<build, tcp, tuple, rx, wire, syns, peervars, incoming, bytes_received, done,
                   closed_cleanly, headers_done, tls, CONNS_FAILED, clock, ret>>

\* One turn of `while s.can_recv()`: recv hands over the contiguous part of a
\* ring buffer, which may be any non-empty prefix of what it holds.
StepRecv ==
    /\ pc = "recv" /\ CanRecv
    /\ \E n \in 1..Len(rx) :
          /\ incoming' = incoming \o SubSeq(rx, 1, n)
          /\ rx' = SubSeq(rx, n + 1, Len(rx))
    /\ UNCHANGED <<build, tcp, tuple, tx, wire, syns, peervars, outgoing, request_queued,
                   handshake_done, bytes_received, done, closed_cleanly, headers_done,
                   settled, tls, counters, workvars>>

-----------------------------------------------------------------------------
(* counting, and the TLS loop *)

\* count_body on a slice of plaintext units.
BodyIn(units) ==
    IF headers_done THEN Len(units)
    ELSE IF \E i \in 1..Len(units) : units[i] = "hdr"
         THEN Len(units) - (CHOOSE i \in 1..Len(units) : units[i] = "hdr")
         ELSE 0

CountBody(units) ==
    /\ bytes_received' = bytes_received + BodyIn(units)
    /\ headers_done' = (headers_done \/ \E i \in 1..Len(units) : units[i] = "hdr")

\* After the receive loop: raw counting under the stub, body counting without
\* a record layer, or on to the TLS loop with what has been read.
StepCount ==
    /\ pc = "recv" /\ ~CanRecv
    /\ \/ /\ STUB_TLS_AFTER_HANDSHAKE /\ handshake_done /\ request_queued
          /\ bytes_received' = bytes_received + Len(incoming)
          /\ incoming' = <<>> /\ UNCHANGED headers_done
       \/ /\ PLAIN_HTTP
          /\ CountBody(incoming)
          /\ incoming' = <<>>
       \/ /\ ~PLAIN_HTTP
          /\ ~(STUB_TLS_AFTER_HANDSHAKE /\ handshake_done /\ request_queued)
          /\ UNCHANGED <<bytes_received, incoming, headers_done>>
    /\ pc' = IF PLAIN_HTTP THEN "exit" ELSE "tls"
    /\ UNCHANGED <<build, sockvars, wire, syns, peervars, outgoing, request_queued, handshake_done,
                   done, closed_cleanly, settled, tls, counters, clock, ret>>

\* process_tls_records finds a whole record at the front of `incoming`.
RecordReady == Len(incoming) >= 2
Kind == incoming[2]
Discard == incoming' = SubSeq(incoming, 3, Len(incoming))

TlsFrame == UNCHANGED <<build, sockvars, wire, syns, peervars, closed_cleanly, settled, counters,
                        clock, ret>>

\* `outgoing` is resized before encode() and encrypt() and cut back only when
\* they succeed: a failure leaves the zeros it was padded with.
PadWithZeros == outgoing' = Append(outgoing, "zero")

\* EncodeTlsData: the next flight joins `outgoing`, or encode() fails.
TlsEncode ==
    /\ pc = "tls" /\ tls \in {"start", "flight_seen"}
    /\ \/ /\ outgoing' = Append(outgoing, IF tls = "start" THEN "hello" ELSE "cfin")
          /\ tls' = IF tls = "start" THEN "hello_out" ELSE "cfin_out"
          /\ UNCHANGED <<done, pc>>
       \/ /\ "tls_error" \in Faults
          /\ done' = TRUE /\ pc' = "exit"
          /\ PadWithZeros /\ UNCHANGED tls
    /\ TlsFrame
    /\ UNCHANGED <<incoming, request_queued, handshake_done, bytes_received, headers_done>>

\* TransmitTlsData: only acknowledged, the bytes are already in `outgoing`.
TlsTransmit ==
    /\ pc = "tls" /\ tls \in {"hello_out", "cfin_out"}
    /\ tls' = IF tls = "hello_out" THEN "wait" ELSE "ready"
    /\ TlsFrame
    /\ UNCHANGED <<incoming, outgoing, request_queued, handshake_done, bytes_received, done,
                   headers_done, pc>>

\* A record is consumed: the server's flight, application data (ReadTraffic),
\* or close_notify (PeerClosed, which leaves the loop).
TlsRecord ==
    /\ pc = "tls" /\ RecordReady
    /\ \/ /\ tls = "wait" /\ Kind = "flight"
          /\ tls' = "flight_seen"
          /\ UNCHANGED <<bytes_received, headers_done, pc>>
       \/ /\ tls = "ready" /\ Kind \in {"hdr", "body"}
          /\ CountBody(<<Kind>>)
          /\ UNCHANGED <<tls, pc>>
       \/ /\ tls = "ready" /\ Kind = "bye"
          /\ tls' = "peer_closed" /\ pc' = "exit"
          /\ UNCHANGED <<bytes_received, headers_done>>
    /\ Discard
    /\ TlsFrame
    /\ UNCHANGED <<outgoing, request_queued, handshake_done, done>>

\* A record rustls rejects: process_tls_records fails and the loop is left, or
\* next_record fails and the loop goes on behind it.
TlsReject ==
    /\ pc = "tls" /\ RecordReady /\ Kind = "bad" /\ tls \in {"wait", "ready"}
    /\ done' = TRUE
    /\ \/ /\ pc' = "exit" /\ UNCHANGED incoming
       \/ /\ tls = "ready" /\ Discard /\ UNCHANGED pc
    /\ TlsFrame
    /\ UNCHANGED <<outgoing, request_queued, handshake_done, bytes_received, headers_done, tls>>

\* BlockedHandshake: nothing to do until more bytes arrive.
TlsBlocked ==
    /\ pc = "tls" /\ tls = "wait" /\ ~RecordReady
    /\ pc' = "exit"
    /\ TlsFrame
    /\ UNCHANGED <<incoming, outgoing, request_queued, handshake_done, bytes_received, done,
                   headers_done, tls>>

\* A slip: the request is encrypted whenever traffic may be written.
NeedsRequestAlways == TRUE

\* `if !conn.request_queued`
NeedsRequest == ~request_queued

\* WriteTraffic: the handshake is over; queue the request once.
TlsWriteTraffic ==
    /\ pc = "tls" /\ \/ tls = "ready" /\ ~RecordReady
                     \/ tls = "peer_closed"
    /\ handshake_done' = TRUE
    /\ \/ /\ NeedsRequest
          /\ outgoing' = outgoing \o Request /\ request_queued' = TRUE
          /\ UNCHANGED <<done, pc>>
       \/ /\ NeedsRequest /\ "tls_error" \in Faults
          /\ done' = TRUE /\ pc' = "exit"
          /\ PadWithZeros /\ UNCHANGED request_queued
       \/ /\ ~NeedsRequest
          /\ pc' = "exit"
          /\ UNCHANGED <<outgoing, request_queued, done>>
    /\ TlsFrame
    /\ UNCHANGED <<incoming, bytes_received, headers_done, tls>>

TlsLoop ==
    TlsEncode \/ TlsTransmit \/ TlsRecord \/ TlsReject \/ TlsBlocked \/ TlsWriteTraffic

\* A slip: only a socket that is closed both ways counts as ended.
EndedBothWays == tcp \in {"Closed", "TimeWait"}

\* The tail of conn_step: the socket has ended and nothing is left either way.
Ended == tcp \in {"Closed", "CloseWait", "TimeWait"}

\* A slip: the request may still be waiting to go out.
FinishedUnsent == handshake_done /\ request_queued /\ Ended /\ ~CanRecv

Finished ==
    handshake_done /\ request_queued /\ Ended /\ outgoing = <<>> /\ ~CanRecv

StepExit ==
    /\ pc = "exit"
    /\ closed_cleanly' = (closed_cleanly \/ Finished)
    /\ done' = (done \/ Finished)
    /\ ret' = (done \/ Finished)
    /\ pc' = "poll"
    /\ UNCHANGED <<build, sockvars, wire, syns, peervars, incoming, outgoing, request_queued,
                   handshake_done, bytes_received, headers_done, settled, tls, counters, clock>>

ConnStep ==
    StepDone \/ StepSynTimeout \/ StepSend \/ StepRecv \/ StepCount \/ TlsLoop \/ StepExit

-----------------------------------------------------------------------------
(* The server, as far as the client depends on it *)

Handshake == IF PLAIN_HTTP THEN <<>> ELSE <<"hello", "cfin">>
RequestSeen == Len(got) = Len(Handshake) + ReqLen

PeerSend(segs) == wire' = wire \o segs

PeerRest == UNCHANGED <<build, sockvars, syns, got, connvars, counters, workvars>>

PeerAccept ==
    /\ peer = "listen" /\ syns > 0
    /\ PeerSend(<<"synack">>)
    /\ peer' = "open"
    /\ UNCHANGED <<stage, sent_body>> /\ PeerRest

\* The server's flight, the header, BLOCK_SIZE body units (any number of them
\* with the fault "length"), close_notify and FIN, in this order.
PeerServe ==
    /\ peer = "open" /\ PeerRest /\ UNCHANGED peer
    /\ \/ /\ stage = "flight" /\ Len(got) > 0
          /\ PeerSend(Record("flight")) /\ stage' = "header" /\ UNCHANGED sent_body
       \/ /\ stage = "header" /\ RequestSeen
          /\ PeerSend(Record("hdr")) /\ stage' = "body" /\ UNCHANGED sent_body
       \/ /\ stage = "body"
          /\ sent_body < IF "length" \in Faults THEN MaxBody ELSE BLOCK_SIZE
          /\ PeerSend(Record("body")) /\ sent_body' = sent_body + 1 /\ UNCHANGED stage
       \/ /\ stage = "body" /\ (sent_body = BLOCK_SIZE \/ "length" \in Faults)
          /\ stage' = IF PLAIN_HTTP THEN "fin" ELSE "bye"
          /\ UNCHANGED <<wire, sent_body>>
       \/ /\ stage = "bye"
          /\ PeerSend(Record("bye")) /\ stage' = "fin" /\ UNCHANGED sent_body
       \/ /\ stage = "fin"
          /\ PeerSend(<<"fin">>) /\ stage' = "end" /\ UNCHANGED sent_body

\* A SYN to a port nobody listens on.
PeerRefuse ==
    /\ "refuse" \in Faults /\ peer = "listen" /\ syns > 0
    /\ PeerSend(<<"rst">>)
    /\ peer' = "closed"
    /\ UNCHANGED <<stage, sent_body>> /\ PeerRest

\* A reset loses whatever of the stream had not been delivered.
PeerReset ==
    /\ "reset" \in Faults /\ peer = "open"
    /\ \E k \in 0..Len(wire) : wire' = SubSeq(wire, 1, k) \o <<"rst">>
    /\ peer' = "closed"
    /\ UNCHANGED <<stage, sent_body>> /\ PeerRest

\* The server closes before it has answered, possibly inside a record.
PeerEarlyFin ==
    /\ "early_fin" \in Faults /\ peer = "open" /\ stage # "end"
    /\ \/ PeerSend(<<"fin">>)
       \/ ~PLAIN_HTTP /\ PeerSend(<<"part", "fin">>)
    /\ stage' = "end"
    /\ UNCHANGED <<peer, sent_body>> /\ PeerRest

\* A body record the client's TLS stack will not accept.
PeerBadRecord ==
    /\ "bad_record" \in Faults /\ ~PLAIN_HTTP /\ peer = "open" /\ stage = "body"
    /\ sent_body < BLOCK_SIZE
    /\ PeerSend(Record("bad")) /\ sent_body' = sent_body + 1
    /\ UNCHANGED <<peer, stage>> /\ PeerRest

Peer == PeerAccept \/ PeerServe \/ PeerRefuse \/ PeerReset \/ PeerEarlyFin \/ PeerBadRecord

Next == Ingress \/ Egress \/ EndPoll \/ Tick \/ ConnStep \/ Peer

Spec == Init /\ [][Next]_vars

(***************************************************************************)
(* The worker thread is pinned to its own CPU and never blocks (EndPoll,   *)
(* ConnStep); every poll drains the ring and the transmit buffer, so a     *)
(* segment that keeps waiting is handled (strong fairness, because the     *)
(* worker is not always inside poll); real time passes (Tick).  A server   *)
(* that has accepted goes on serving; nothing makes it accept.             *)
(***************************************************************************)
Fairness ==
    /\ WF_vars(EndPoll) /\ WF_vars(ConnStep) /\ SF_vars(Tick)
    /\ SF_vars(Ingress) /\ SF_vars(Egress)
    /\ WF_vars(PeerServe)

FairSpec == Spec /\ Fairness
-----------------------------------------------------------------------------
(* Properties *)

\* Every variable keeps its type; neither socket buffer is ever overfilled,
\* however send_slice and the server's segments interleave.
TypeOK ==
    /\ tcp \in {"SynSent", "Established", "CloseWait", "Closed"}
    /\ tuple \in BOOLEAN
    /\ Len(rx) <= RxCap /\ Len(tx) <= TxCap
    /\ syns \in 0..MaxSyns /\ clock \in 0..(SYN_TIMEOUT_MS + 1)
    /\ peer \in {"listen", "open", "closed"}
    /\ stage \in {"flight", "header", "body", "bye", "fin", "end"}
    /\ sent_body \in Nat /\ bytes_received \in Nat
    /\ tls \in {"none", "start", "hello_out", "wait", "flight_seen", "cfin_out", "ready",
                "peer_closed"}
    /\ {request_queued, handshake_done, done, closed_cleanly, headers_done, settled, ret}
          \subseteq BOOLEAN
    /\ pc \in {"poll", "step", "recv", "tls", "exit"}

(***************************************************************************)
(* However send_slice splits it, the client's half of the stream is the    *)
(* handshake followed by exactly one request: partial sends, the PLAIN     *)
(* path and the TLS path never duplicate, drop or reorder any of it, and   *)
(* the zeros a failed encode() or encrypt() leaves in `outgoing` are never *)
(* handed to the socket.                                                   *)
(***************************************************************************)
Padded == outgoing # <<>> /\ outgoing[Len(outgoing)] = "zero"

\* What is waiting to go out, without the padding at its end.
Queued == IF Padded THEN SubSeq(outgoing, 1, Len(outgoing) - 1) ELSE outgoing

ClientStream == got \o tx \o Queued

OneRequest ==
    /\ request_queued => ClientStream = Handshake \o Request
    /\ ~request_queued => ClientStream = SubSeq(Handshake, 1, Len(ClientStream))

(***************************************************************************)
(* A connection called clean has handed its whole request to the socket,   *)
(* and, when it was the peer's FIN that ended it, has counted every body   *)
(* unit the server sent (no fewer, when the stub counts ciphertext): no    *)
(* connection is "called complete while bytes are still sitting in it".    *)
(***************************************************************************)
Whole ==
    /\ request_queued /\ outgoing = <<>>
    /\ tcp = "CloseWait" =>
          IF STUB_TLS_AFTER_HANDSHAKE THEN bytes_received >= sent_body
          ELSE bytes_received = sent_body

CleanIsWhole == closed_cleanly => Whole

(***************************************************************************)
(* The same of every connection that had not already been given up by a    *)
(* TLS error when the exit test called it clean.                           *)
(***************************************************************************)
CleanIsWholeButErrors == [][closed_cleanly' /\ ~closed_cleanly => done \/ Whole']_vars

(***************************************************************************)
(* Each connection enters at most one of CONNS_ESTABLISHED and             *)
(* CONNS_FAILED, at most once and only when it is settled (one that is     *)
(* never seen in Established enters neither), and a failed one never       *)
(* counts bytes or passes for clean, even if its SYN|ACK arrives after the *)
(* timeout.                                                                *)
(***************************************************************************)
CountedOnce ==
    /\ CONNS_ESTABLISHED + CONNS_FAILED = IF settled THEN 1 ELSE 0
    /\ CONNS_FAILED > 0 => done /\ ~closed_cleanly /\ bytes_received = 0

(***************************************************************************)
(* Seen from the worker a connection is a ConnSpec: once a call has        *)
(* returned true, bytes_received and closed_cleanly are frozen.            *)
(***************************************************************************)
Abs == INSTANCE ConnSpec WITH
          done <- ret, clean <- (ret /\ closed_cleanly), bytes <- bytes_received

AbsSpec == Abs!Spec

(***************************************************************************)
(* Every connection terminates: conn_step eventually returns true.  lib.rs *)
(* says of it "Returns `true` if the connection has terminated for any     *)
(* reason".                                                                *)
(***************************************************************************)
Terminates == <>ret

(***************************************************************************)
(* What holds: a connection terminates, or its socket has been closed by   *)
(* the peer for good before the request had been queued and handed over.   *)
(***************************************************************************)
Stranded ==
    /\ ~ret /\ tcp \in {"Closed", "CloseWait"}
    /\ ~handshake_done \/ ~request_queued \/ outgoing # <<>>

TerminatesOrStranded == Terminates \/ <>[]Stranded
=============================================================================
