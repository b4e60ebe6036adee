----------------------------- MODULE ConnProofs -----------------------------
(***************************************************************************)
(* Proofs about Conn, for every request length, block size, buffer         *)
(* capacity, timeout, set of builds and set of faults.                     *)
(***************************************************************************)
EXTENDS Conn, SequenceTheorems, FiniteSetTheorems, TLAPS

\* What the client sends, what the server sends, and TCP's own segments.
Unit == {"hello", "cfin", "req", "zero"} \union {"part", "flight", "hdr", "body", "bye", "bad"}
           \union {"synack", "fin", "rst"}

(* ---------------------------- sequences -------------------------------- *)

\* Taking a sequence apart at n and putting it together again.
LEMMA SplitAt ==
    ASSUME NEW s \in Seq(Unit), NEW n \in 0..Len(s)
    PROVE  /\ SubSeq(s, 1, n) \in Seq(Unit) /\ Len(SubSeq(s, 1, n)) = n
           /\ SubSeq(s, n + 1, Len(s)) \in Seq(Unit)
           /\ Len(SubSeq(s, n + 1, Len(s))) = Len(s) - n
           /\ SubSeq(s, 1, n) \o SubSeq(s, n + 1, Len(s)) = s
<1>1. Len(s) \in Nat /\ \A i \in 1..Len(s) : s[i] \in Unit
    BY ElementOfSeq, LenProperties
<1>2. SubSeq(s, 1, n) \in Seq(Unit) /\ Len(SubSeq(s, 1, n)) = n
    <2>1. \A i \in 1..n : s[i] \in Unit
        BY <1>1
    <2>2. n \in Int /\ 1 \in Int
        BY <1>1
    <2>3. QED BY <2>1, <2>2, <1>1, SubSeqProperties
<1>3. /\ SubSeq(s, n + 1, Len(s)) \in Seq(Unit)
      /\ Len(SubSeq(s, n + 1, Len(s))) = Len(s) - n
    <2>1. \A i \in (n + 1)..Len(s) : s[i] \in Unit
        BY <1>1
    <2>2. n + 1 \in Int /\ Len(s) \in Int
        BY <1>1
    <2>3. QED BY <2>1, <2>2, <1>1, SubSeqProperties
<1>4. SubSeq(s, 1, n) \o SubSeq(s, n + 1, Len(s)) = s
    <2>1. 1 \in 1..Len(s) + 1 /\ n \in (1 - 1)..Len(s) /\ Len(s) \in n..Len(s)
        BY <1>1
    <2>2. SubSeq(s, 1, n) \o SubSeq(s, n + 1, Len(s)) = SubSeq(s, 1, Len(s))
        BY <2>1, ConcatAdjacentSubSeq
    <2>3. QED BY <2>2, SubSeqFull
<1>5. QED BY <1>2, <1>3, <1>4

\* All but the last of an extended sequence is the sequence.
LEMMA FrontOfAppend ==
    ASSUME NEW s \in Seq(Unit), NEW u \in Unit
    PROVE  SubSeq(Append(s, u), 1, Len(s)) = s
<1>1. /\ Append(s, u) \in Seq(Unit) /\ Len(Append(s, u)) = Len(s) + 1 /\ Len(s) \in Nat
      /\ \A i \in 1..Len(s) : Append(s, u)[i] = s[i]
    BY AppendProperties, LenProperties
<1>2. Len(s) \in 0..Len(Append(s, u)) /\ Len(s) \in Int /\ 1 \in Int
    BY <1>1
<1>3. /\ SubSeq(Append(s, u), 1, Len(s)) \in Seq(Unit)
      /\ Len(SubSeq(Append(s, u), 1, Len(s))) = Len(s)
    BY <1>1, <1>2, SplitAt
<1>4. \A i \in 1..Len(s) : Append(s, u)[i] \in Unit
    BY <1>1, ElementOfSeq
<1>5. \A i \in 1..Len(s) - 1 + 1 : SubSeq(Append(s, u), 1, Len(s))[i] = Append(s, u)[1 + i - 1]
    BY <1>2, <1>4, SubSeqProperties
<1>6. \A i \in 1..Len(s) : SubSeq(Append(s, u), 1, Len(s))[i] = s[i]
    <2>1. Len(s) - 1 + 1 = Len(s) /\ \A i \in 1..Len(s) : 1 + i - 1 = i
        BY <1>1
    <2>2. QED BY <1>1, <1>5, <2>1
<1>7. QED BY <1>3, <1>6, SeqEqual

\* A non-empty sequence is its head and its tail.
LEMMA HeadTail ==
    ASSUME NEW s \in Seq(Unit), s # <<>>
    PROVE  /\ Head(s) \in Unit /\ Tail(s) \in Seq(Unit) /\ Len(Tail(s)) = Len(s) - 1
           /\ <<Head(s)>> \o Tail(s) = s
<1>1. /\ Head(s) \in Unit /\ Tail(s) \in Seq(Unit) /\ Len(Tail(s)) = Len(s) - 1
      /\ \A i \in 1..Len(Tail(s)) : Tail(s)[i] = s[i + 1]
    BY HeadTailProperties
<1>2. <<Head(s)>> \in Seq(Unit) /\ Len(<<Head(s)>>) = 1 /\ <<Head(s)>>[1] = s[1]
    BY <1>1
<1>3. Len(s) \in Nat
    BY LenProperties
<1> DEFINE t == <<Head(s)>> \o Tail(s)
<1>4. /\ t \in Seq(Unit) /\ Len(t) = Len(s)
      /\ \A i \in 1..1 + Len(Tail(s)) :
            t[i] = IF i <= 1 THEN <<Head(s)>>[i] ELSE Tail(s)[i - 1]
    BY <1>1, <1>2, <1>3, ConcatProperties
<1>5. \A i \in 1..Len(s) : t[i] = s[i]
    BY <1>1, <1>2, <1>3, <1>4
<1>6. QED BY <1>1, <1>4, <1>5, SeqEqual

LEMMA Assoc ==
    ASSUME NEW s \in Seq(Unit), NEW t \in Seq(Unit), NEW u \in Seq(Unit)
    PROVE  (s \o t) \o u = s \o (t \o u)
BY ConcatAssociative

\* Two units one after the other.
LEMMA PairIsConcat ==
    ASSUME NEW a \in Unit, NEW b \in Unit
    PROVE  /\ <<a, b>> \in Seq(Unit) /\ Len(<<a, b>>) = 2
           /\ <<a>> \o <<b>> = <<a, b>>
<1>1. <<a>> \in Seq(Unit) /\ <<b>> \in Seq(Unit) /\ Len(<<a>>) = 1 /\ Len(<<b>>) = 1
    OBVIOUS
<1>2. <<a, b>> \in Seq(Unit) /\ Len(<<a, b>>) = 2
    OBVIOUS
<1> DEFINE c == <<a>> \o <<b>>
<1>3. /\ c \in Seq(Unit) /\ Len(c) = 1 + 1
      /\ \A i \in 1..1 + 1 : c[i] = IF i <= 1 THEN <<a>>[i] ELSE <<b>>[i - 1]
    BY <1>1, ConcatProperties
<1> HIDE DEF c
<1>4. c[1] = a /\ c[2] = b
    BY <1>3
<1>5. \A i \in 1..Len(c) : c[i] = <<a, b>>[i]
    <2>1. \A i \in 1..Len(c) : i = 1 \/ i = 2
        BY <1>3
    <2>2. QED BY <1>4, <2>1
<1>6. c = <<a, b>>
    BY <1>2, <1>3, <1>5, SeqEqual
<1>7. QED BY <1>2, <1>6 DEF c

-----------------------------------------------------------------------------
(* -------------------------------- types -------------------------------- *)

SeqOK ==
    /\ rx \in Seq(Unit) /\ tx \in Seq(Unit) /\ wire \in Seq(Unit)
    /\ got \in Seq(Unit) /\ incoming \in Seq(Unit) /\ outgoing \in Seq(Unit)

CountersOK == CONNS_ESTABLISHED \in Nat /\ CONNS_FAILED \in Nat /\ SYN_RETRIES \in Nat

\* The typing invariant: TypeOK, every buffer a sequence of units.
TypeInv == TypeOK /\ SeqOK /\ CountersOK

LEMMA RequestType == Request \in Seq(Unit) /\ Len(Request) = ReqLen
<1>1. Request \in [1..ReqLen -> Unit] /\ ReqLen \in Nat
    BY SizeAssumption DEF Request, Unit
<1>2. Request \in Seq(Unit)
    BY <1>1, SeqDef
<1>3. QED BY <1>1, <1>2, LenProperties

LEMMA HandshakeType ==
    /\ Handshake \in Seq(Unit)
    /\ PLAIN_HTTP => Handshake = <<>> /\ Len(Handshake) = 0
    /\ ~PLAIN_HTTP => Handshake = <<"hello", "cfin">> /\ Len(Handshake) = 2
<1>1. <<>> \in Seq(Unit) /\ Len(<<>>) = 0
    BY EmptySeq
<1>2. <<"hello", "cfin">> \in Seq(Unit) /\ Len(<<"hello", "cfin">>) = 2
    BY DEF Unit
<1>3. QED BY <1>1, <1>2 DEF Handshake

LEMMA RecordType == ASSUME NEW k \in Unit PROVE Record(k) \in Seq(Unit)
<1>1. <<k>> \in Seq(Unit) /\ <<"part", k>> \in Seq(Unit)
    BY DEF Unit
<1>2. QED BY <1>1 DEF Record

\* count_body never counts a negative number of bytes.
LEMMA BodyInNat == ASSUME NEW u \in Seq(Unit) PROVE BodyIn(u) \in Nat
<1>1. Len(u) \in Nat
    BY LenProperties
<1>2. CASE headers_done
    BY <1>1, <1>2 DEF BodyIn
<1>3. CASE ~headers_done /\ \E i \in 1..Len(u) : u[i] = "hdr"
    <2> DEFINE p == CHOOSE i \in 1..Len(u) : u[i] = "hdr"
    <2>1. p \in 1..Len(u)
        BY <1>3
    <2>2. BodyIn(u) = Len(u) - p
        BY <1>3 DEF BodyIn
    <2> HIDE DEF p
    <2>3. QED BY <1>1, <2>1, <2>2
<1>4. CASE ~headers_done /\ ~\E i \in 1..Len(u) : u[i] = "hdr"
    BY <1>4 DEF BodyIn
<1>5. QED BY <1>2, <1>3, <1>4

\* send_slice takes no more than it is offered and the buffer has room for.
LEMMA AcceptedFits ==
    ASSUME TypeInv, NEW out \in Seq(Unit)
    PROVE  Accepted(out) \in 0..Len(out) /\ Len(tx) + Accepted(out) <= TxCap
<1>1. Len(out) \in Nat /\ Len(tx) \in Nat /\ TxCap \in Nat /\ Len(tx) <= TxCap
    BY LenProperties, SizeAssumption DEF TypeInv, TypeOK, SeqOK
<1>2. QED BY <1>1 DEF Accepted, CanSend

\* Whatever the server does reaches the client only through the wire.
LEMMA PeerFrame ==
    ASSUME TypeInv, Peer
    PROVE  /\ UNCHANGED <<build, sockvars, syns, got, connvars, counters, workvars>>
           /\ wire' \in Seq(Unit)
           /\ peer' \in {"listen", "open", "closed"}
           /\ stage' \in {"flight", "header", "body", "bye", "fin", "end"}
           /\ sent_body' \in Nat
<1>0. /\ wire \in Seq(Unit) /\ sent_body \in Nat
      /\ peer \in {"listen", "open", "closed"}
      /\ stage \in {"flight", "header", "body", "bye", "fin", "end"}
    BY DEF TypeInv, TypeOK, SeqOK
<1>1. /\ <<"synack">> \in Seq(Unit) /\ <<"rst">> \in Seq(Unit) /\ <<"fin">> \in Seq(Unit)
      /\ <<"part", "fin">> \in Seq(Unit)
    BY DEF Unit
<1>2. \A k \in {"flight", "hdr", "body", "bye", "bad"} : Record(k) \in Seq(Unit)
    BY RecordType DEF Unit
<1>3. \A s \in Seq(Unit) : wire \o s \in Seq(Unit)
    BY <1>0, ConcatProperties
<1>4. CASE PeerAccept
    BY <1>0, <1>1, <1>3, <1>4 DEF PeerAccept, PeerSend, PeerRest
<1>5. CASE PeerServe
    <2>1. \/ wire' = wire
          \/ wire' = wire \o <<"fin">>
          \/ \E k \in {"flight", "hdr", "body", "bye", "bad"} : wire' = wire \o Record(k)
        BY <1>5 DEF PeerServe, PeerSend
    <2>2. wire' \in Seq(Unit)
        BY <2>1, <1>0, <1>1, <1>2, <1>3
    <2>3. QED BY <1>0, <1>5, <2>2 DEF PeerServe, PeerRest
<1>6. CASE PeerRefuse
    BY <1>0, <1>1, <1>3, <1>6 DEF PeerRefuse, PeerSend, PeerRest
<1>7. CASE PeerReset
    <2>1. PICK k \in 0..Len(wire) : wire' = SubSeq(wire, 1, k) \o <<"rst">>
        BY <1>7 DEF PeerReset
    <2>2. wire' \in Seq(Unit)
        BY <1>0, <1>1, <2>1, SplitAt, ConcatProperties
    <2>3. QED BY <1>0, <1>7, <2>2 DEF PeerReset, PeerRest
<1>8. CASE PeerEarlyFin
    BY <1>0, <1>1, <1>3, <1>8 DEF PeerEarlyFin, PeerSend, PeerRest
<1>9. CASE PeerBadRecord
    BY <1>0, <1>2, <1>3, <1>9 DEF PeerBadRecord, PeerSend, PeerRest
<1>10. QED BY <1>4, <1>5, <1>6, <1>7, <1>8, <1>9 DEF Peer

LEMMA TypeInit == Init => TypeInv
<1> SUFFICES ASSUME Init PROVE TypeInv
    OBVIOUS
<1>1. <<>> \in Seq(Unit) /\ Len(<<>>) = 0
    BY EmptySeq
<1>2. /\ stage \in {"flight", "header"} /\ tls \in {"none", "start"}
      /\ {request_queued, handshake_done, done, closed_cleanly, headers_done, settled, ret}
            \subseteq BOOLEAN
    BY DEF Init
<1>3. /\ Len(rx) <= RxCap /\ Len(tx) <= TxCap
      /\ syns \in 0..MaxSyns /\ clock \in 0..(SYN_TIMEOUT_MS + 1)
      /\ sent_body \in Nat /\ bytes_received \in Nat
    BY <1>1, SizeAssumption DEF Init
<1>4. TypeOK
    BY <1>2, <1>3 DEF Init, TypeOK
<1>5. QED BY <1>1, <1>4 DEF Init, TypeInv, SeqOK, CountersOK

\* Every step of the connection, the network and the server keeps the types.
LEMMA TypeStep == TypeInv /\ [Next]_vars => TypeInv'
<1> SUFFICES ASSUME TypeInv, [Next]_vars PROVE TypeInv'
    OBVIOUS
<1>s. SeqOK
    BY DEF TypeInv
<1>e. <<>> \in Seq(Unit) /\ Len(<<>>) = 0 /\ RxCap \in Nat /\ TxCap \in Nat
    BY EmptySeq, SizeAssumption
<1>1. CASE Ingress
    <2>1. Head(wire) \in Unit /\ wire' \in Seq(Unit)
        BY <1>1, <1>s, HeadTail DEF Ingress, SeqOK
    <2>2. rx' \in Seq(Unit) /\ Len(rx') <= RxCap
        <3>1. CASE rx' = rx
            BY <3>1 DEF TypeInv, TypeOK, SeqOK
        <3>2. CASE rx' = Append(rx, Head(wire)) /\ Len(rx) < RxCap
            <4>1. Len(rx) \in Nat
                BY <1>s, LenProperties DEF SeqOK
            <4>2. QED BY <1>s, <1>e, <2>1, <3>2, <4>1, AppendProperties DEF SeqOK
        <3>3. QED BY <1>1, <3>1, <3>2 DEF Ingress, Process, sockvars
    <2>3. tx' = tx /\ tuple' \in BOOLEAN
          /\ tcp' \in {"SynSent", "Established", "CloseWait", "Closed"}
        BY <1>1 DEF Ingress, Process, sockvars, TypeInv, TypeOK
    <2>4. UNCHANGED <<build, syns, peervars, connvars, counters, workvars>>
        BY <1>1 DEF Ingress
    <2>5. TypeOK'
        BY <2>2, <2>3, <2>4 DEF TypeInv, TypeOK, peervars, connvars, workvars
    <2>6. SeqOK' /\ CountersOK'
        BY <2>1, <2>2, <2>3, <2>4
        DEF TypeInv, SeqOK, CountersOK, peervars, connvars, counters
    <2>7. QED BY <2>5, <2>6 DEF TypeInv
<1>2. CASE Egress
    <2>1. UNCHANGED <<build, tcp, rx, wire, stage, sent_body, connvars, counters, workvars>>
        BY <1>2 DEF Egress, sockvars, peervars
    <2>2. /\ syns' \in 0..MaxSyns /\ tuple' \in BOOLEAN
          /\ peer' \in {"listen", "open", "closed"}
        <3>1. /\ syns \in 0..MaxSyns /\ MaxSyns \in Nat /\ tuple \in BOOLEAN
              /\ peer \in {"listen", "open", "closed"}
            BY SizeAssumption DEF TypeInv, TypeOK
        <3>2. \/ syns' = syns
              \/ syns < MaxSyns /\ syns' = syns + 1
            BY <1>2 DEF Egress, peervars
        <3>3. syns' \in 0..MaxSyns
            BY <3>1, <3>2
        <3>4. (tuple' = tuple \/ tuple' = FALSE) /\ (peer' = peer \/ peer' = "closed")
            BY <1>2 DEF Egress, sockvars, peervars
        <3>5. QED BY <3>1, <3>3, <3>4
    <2>3. tx' \in Seq(Unit) /\ got' \in Seq(Unit) /\ Len(tx') <= TxCap
        <3>1. CASE UNCHANGED <<tx, got>>
            BY <3>1 DEF TypeInv, TypeOK, SeqOK
        <3>2. CASE tx # <<>> /\ tx' = Tail(tx) /\ got' = Append(got, Head(tx))
            <4>1. Head(tx) \in Unit /\ Tail(tx) \in Seq(Unit) /\ Len(Tail(tx)) = Len(tx) - 1
                BY <1>s, <3>2, HeadTail DEF SeqOK
            <4>2. Append(got, Head(tx)) \in Seq(Unit)
                BY <1>s, <4>1, AppendProperties DEF SeqOK
            <4>3. Len(tx) \in Nat /\ Len(tx) <= TxCap
                BY <1>s, LenProperties DEF SeqOK, TypeInv, TypeOK
            <4>4. QED BY <1>e, <3>2, <4>1, <4>2, <4>3
        <3>3. QED BY <1>2, <3>1, <3>2 DEF Egress, sockvars, peervars
    <2>4. TypeOK'
        BY <2>1, <2>2, <2>3 DEF TypeInv, TypeOK, connvars, workvars
    <2>5. SeqOK' /\ CountersOK'
        BY <2>1, <2>3 DEF TypeInv, SeqOK, CountersOK, connvars, counters
    <2>6. QED BY <2>4, <2>5 DEF TypeInv
<1>3. CASE EndPoll
    BY <1>3
    DEF EndPoll, TypeInv, TypeOK, SeqOK, CountersOK, sockvars, peervars, connvars, counters
<1>4. CASE Tick
    BY <1>4, SizeAssumption
    DEF Tick, TypeInv, TypeOK, SeqOK, CountersOK, sockvars, peervars, connvars, counters
<1>5. CASE StepDone
    BY <1>5
    DEF StepDone, TypeInv, TypeOK, SeqOK, CountersOK, sockvars, peervars, connvars, counters
<1>6. CASE StepSynTimeout
    BY <1>6
    DEF StepSynTimeout, TypeInv, TypeOK, SeqOK, CountersOK, peervars
<1>7. CASE StepSend
    <2> DEFINE out == IF QueuePlain THEN outgoing \o Request ELSE outgoing
               n   == Accepted(out)
    <2>1. out \in Seq(Unit)
        BY <1>s, RequestType, ConcatProperties DEF SeqOK
    <2>2. n \in 0..Len(out) /\ Len(tx) + n <= TxCap
        BY <2>1, AcceptedFits
    <2>3. tx' = tx \o SubSeq(out, 1, n) /\ outgoing' = SubSeq(out, n + 1, Len(out))
        BY <1>7 DEF StepSend
    <2>4. /\ UNCHANGED <<build, tcp, tuple, rx, wire, syns, peervars, incoming, bytes_received,
                         done, closed_cleanly, headers_done, tls, CONNS_FAILED, clock, ret>>
          /\ pc' = "recv"
          /\ request_queued' \in BOOLEAN /\ handshake_done' \in BOOLEAN
        BY <1>7 DEF StepSend
    <2>5. settled' \in BOOLEAN /\ SYN_RETRIES' \in Nat /\ CONNS_ESTABLISHED' \in Nat
        <3>1. settled \in BOOLEAN /\ SYN_RETRIES \in Nat /\ CONNS_ESTABLISHED \in Nat
            BY DEF TypeInv, TypeOK, CountersOK
        <3>2. CASE UNCHANGED <<settled, SYN_RETRIES, CONNS_ESTABLISHED>>
            BY <3>1, <3>2
        <3>3. CASE /\ settled' = TRUE /\ SYN_RETRIES' = SYN_RETRIES + (Attempts - 1)
                   /\ CONNS_ESTABLISHED' = CONNS_ESTABLISHED + 1
            BY <3>1, <3>3 DEF Attempts
        <3>4. QED BY <1>7, <3>2, <3>3 DEF StepSend, Settle
    <2> HIDE DEF out, n
    <2>6. outgoing' \in Seq(Unit) /\ tx' \in Seq(Unit) /\ Len(tx') <= TxCap
        <3>1. SubSeq(out, 1, n) \in Seq(Unit) /\ Len(SubSeq(out, 1, n)) = n
            BY <2>1, <2>2, SplitAt
        <3>2. outgoing' \in Seq(Unit)
            BY <2>1, <2>2, <2>3, SplitAt
        <3>3. QED BY <1>s, <2>2, <2>3, <3>1, <3>2, ConcatProperties DEF SeqOK
    <2>7. TypeOK'
        BY <2>4, <2>5, <2>6 DEF TypeInv, TypeOK, peervars
    <2>8. SeqOK' /\ CountersOK'
        BY <2>4, <2>5, <2>6 DEF TypeInv, SeqOK, CountersOK, peervars
    <2>9. QED BY <2>7, <2>8 DEF TypeInv
<1>8. CASE StepRecv
    <2>1. PICK n \in 1..Len(rx) : /\ incoming' = incoming \o SubSeq(rx, 1, n)
                                  /\ rx' = SubSeq(rx, n + 1, Len(rx))
        BY <1>8 DEF StepRecv
    <2>2. n \in 0..Len(rx) /\ Len(rx) \in Nat
        BY <1>s, <2>1, LenProperties DEF SeqOK
    <2>3. rx' \in Seq(Unit) /\ Len(rx') = Len(rx) - n /\ SubSeq(rx, 1, n) \in Seq(Unit)
        BY <1>s, <2>1, <2>2, SplitAt DEF SeqOK
    <2>4. incoming' \in Seq(Unit)
        BY <1>s, <2>1, <2>3, ConcatProperties DEF SeqOK
    <2>5. Len(rx') <= RxCap
        BY <1>e, <2>2, <2>3 DEF TypeInv, TypeOK
    <2>6. TypeOK'
        BY <1>8, <2>5 DEF StepRecv, TypeInv, TypeOK, peervars, counters, workvars
    <2>7. SeqOK' /\ CountersOK'
        BY <1>8, <2>3, <2>4 DEF StepRecv, TypeInv, SeqOK, CountersOK, peervars, counters
    <2>8. QED BY <2>6, <2>7 DEF TypeInv
<1>9. CASE StepCount
    <2>1. bytes_received' \in Nat /\ headers_done' \in BOOLEAN
        <3>1. bytes_received \in Nat /\ headers_done \in BOOLEAN /\ Len(incoming) \in Nat
            BY <1>s, LenProperties DEF TypeInv, TypeOK, SeqOK
        <3>2. \/ bytes_received' = bytes_received + Len(incoming)
              \/ bytes_received' = bytes_received + BodyIn(incoming)
              \/ bytes_received' = bytes_received
            BY <1>9 DEF StepCount, CountBody
        <3>3. bytes_received' \in Nat
            BY <1>s, <3>1, <3>2, BodyInNat DEF SeqOK
        <3>4. headers_done' \in BOOLEAN
            BY <1>9, <3>1 DEF StepCount, CountBody
        <3>5. QED BY <3>3, <3>4
    <2>2. incoming' \in Seq(Unit)
        BY <1>9, <1>s, <1>e DEF StepCount, SeqOK
    <2>3. pc' \in {"exit", "tls"}
        BY <1>9 DEF StepCount
    <2>4. UNCHANGED <<build, sockvars, wire, syns, peervars, outgoing, request_queued,
                      handshake_done, done, closed_cleanly, settled, tls, counters, clock, ret>>
        BY <1>9 DEF StepCount
    <2>5. TypeOK'
        BY <2>1, <2>3, <2>4 DEF TypeInv, TypeOK, sockvars, peervars
    <2>6. SeqOK' /\ CountersOK'
        BY <2>2, <2>4 DEF TypeInv, SeqOK, CountersOK, sockvars, peervars, counters
    <2>7. QED BY <2>5, <2>6 DEF TypeInv
<1>10. CASE TlsLoop
    <2>1. UNCHANGED <<build, sockvars, wire, syns, peervars, closed_cleanly, settled, counters,
                      clock, ret>>
        BY <1>10 DEF TlsLoop, TlsEncode, TlsTransmit, TlsRecord, TlsReject, TlsBlocked,
                     TlsWriteTraffic, TlsFrame
    <2>2. outgoing' \in Seq(Unit)
        <3>1. \/ outgoing' = outgoing \/ outgoing' = outgoing \o Request
              \/ outgoing' = Append(outgoing, "hello") \/ outgoing' = Append(outgoing, "cfin")
              \/ outgoing' = Append(outgoing, "zero")
            BY <1>10 DEF TlsLoop, TlsEncode, TlsTransmit, TlsRecord, TlsReject, TlsBlocked,
                         TlsWriteTraffic, PadWithZeros
        <3>2. "hello" \in Unit /\ "cfin" \in Unit /\ "zero" \in Unit
            BY DEF Unit
        <3>3. outgoing \o Request \in Seq(Unit)
            BY <1>s, RequestType, ConcatProperties DEF SeqOK
        <3>4. /\ Append(outgoing, "hello") \in Seq(Unit) /\ Append(outgoing, "cfin") \in Seq(Unit)
              /\ Append(outgoing, "zero") \in Seq(Unit)
            BY <1>s, <3>2, AppendProperties DEF SeqOK
        <3>5. QED BY <1>s, <3>1, <3>3, <3>4 DEF SeqOK
    <2>3. incoming' \in Seq(Unit)
        <3>1. \/ incoming' = incoming
              \/ RecordReady /\ incoming' = SubSeq(incoming, 3, Len(incoming))
            BY <1>10 DEF TlsLoop, TlsEncode, TlsTransmit, TlsRecord, TlsReject, TlsBlocked,
                         TlsWriteTraffic, Discard
        <3>2. CASE RecordReady /\ incoming' = SubSeq(incoming, 3, Len(incoming))
            <4>1. Len(incoming) \in Nat /\ 2 \in 0..Len(incoming)
                BY <1>s, <3>2, LenProperties DEF SeqOK, RecordReady
            <4>2. SubSeq(incoming, 2 + 1, Len(incoming)) \in Seq(Unit)
                BY <1>s, <4>1, SplitAt DEF SeqOK
            <4>3. QED BY <3>2, <4>2
        <3>3. QED BY <1>s, <3>1, <3>2 DEF SeqOK
    <2>4. bytes_received' \in Nat
        <3>1. \/ bytes_received' = bytes_received
              \/ /\ Kind \in {"hdr", "body"}
                 /\ bytes_received' = bytes_received + BodyIn(<<Kind>>)
            BY <1>10 DEF TlsLoop, TlsEncode, TlsTransmit, TlsRecord, TlsReject, TlsBlocked,
                         TlsWriteTraffic, CountBody
        <3>2. CASE /\ Kind \in {"hdr", "body"}
                   /\ bytes_received' = bytes_received + BodyIn(<<Kind>>)
            <4>1. <<Kind>> \in Seq(Unit)
                BY <3>2 DEF Unit
            <4>2. BodyIn(<<Kind>>) \in Nat /\ bytes_received \in Nat
                BY <4>1, BodyInNat DEF TypeInv, TypeOK
            <4>3. QED BY <3>2, <4>2
        <3>3. QED BY <3>1, <3>2 DEF TypeInv, TypeOK
    <2>5. {request_queued', handshake_done', done', headers_done'} \subseteq BOOLEAN
        BY <1>10 DEF TlsLoop, TlsEncode, TlsTransmit, TlsRecord, TlsReject, TlsBlocked,
                     TlsWriteTraffic, CountBody, TypeInv, TypeOK
    <2>6. /\ pc' \in {"tls", "exit"}
          /\ tls' \in {"none", "start", "hello_out", "wait", "flight_seen", "cfin_out", "ready",
                       "peer_closed"}
        BY <1>10 DEF TlsLoop, TlsEncode, TlsTransmit, TlsRecord, TlsReject, TlsBlocked,
                     TlsWriteTraffic, TypeInv, TypeOK
    <2>7. TypeOK'
        BY <2>1, <2>4, <2>5, <2>6 DEF TypeInv, TypeOK, sockvars, peervars
    <2>8. SeqOK' /\ CountersOK'
        BY <2>1, <2>2, <2>3 DEF TypeInv, SeqOK, CountersOK, sockvars, peervars, counters
    <2>9. QED BY <2>7, <2>8 DEF TypeInv
<1>11. CASE StepExit
    <2>1. {closed_cleanly', done', ret'} \subseteq BOOLEAN
        BY <1>11 DEF StepExit
    <2>2. QED
        BY <1>11, <2>1
        DEF StepExit, TypeInv, TypeOK, SeqOK, CountersOK, sockvars, peervars, counters
<1>12. CASE Peer
    <2>1. TypeOK'
        BY <1>12, PeerFrame DEF TypeInv, TypeOK, sockvars, connvars, workvars
    <2>2. SeqOK' /\ CountersOK'
        BY <1>12, PeerFrame DEF TypeInv, SeqOK, CountersOK, sockvars, connvars, counters
    <2>3. QED BY <2>1, <2>2 DEF TypeInv
<1>13. CASE UNCHANGED vars
    BY <1>13 DEF vars, TypeInv, TypeOK, SeqOK, CountersOK, sockvars, peervars, connvars,
                 counters, workvars
<1>14. QED
    BY <1>1, <1>2, <1>3, <1>4, <1>5, <1>6, <1>7, <1>8, <1>9, <1>10, <1>11, <1>12, <1>13
    DEF Next, ConnStep

\* Spec never leaves TypeInv, whatever the network and the server do.
THEOREM ConnTypes == Spec => []TypeInv
<1>1. TypeInv /\ [Next]_vars => TypeInv'
    BY TypeStep
<1>2. QED BY <1>1, TypeInit, PTL DEF Spec

\* Every variable keeps its type and neither socket buffer is overfilled
\* (the invariant of the run ConnAll).
THEOREM ConnTypeOK == Spec => []TypeOK
<1>1. TypeInv => TypeOK
    BY DEF TypeInv
<1>2. QED BY <1>1, ConnTypes, PTL

-----------------------------------------------------------------------------
(* ------------------------- what the worker sees ------------------------ *)

\* Only a connection that is done has answered true, and no call is under way
\* once it has: conn_step returns before it touches anything.
RetInv == ret => done /\ pc \in {"poll", "step"}

LEMMA RetInit == Init => RetInv
BY DEF Init, RetInv

\* done and ret are never taken back, and inside conn_step ret is still FALSE.
LEMMA RetStep == TypeInv /\ RetInv /\ [Next]_vars => RetInv'
<1> SUFFICES ASSUME TypeInv, RetInv, [Next]_vars PROVE RetInv'
    OBVIOUS
<1>1. CASE Ingress
    BY <1>1 DEF Ingress, RetInv, connvars, workvars
<1>2. CASE Egress
    BY <1>2 DEF Egress, RetInv, connvars, workvars
<1>3. CASE EndPoll
    BY <1>3 DEF EndPoll, RetInv, connvars
<1>4. CASE Tick
    BY <1>4 DEF Tick, RetInv, connvars
<1>5. CASE StepDone
    BY <1>5 DEF StepDone, RetInv, Running, connvars
<1>6. CASE StepSynTimeout
    BY <1>6 DEF StepSynTimeout, RetInv
<1>7. CASE StepSend
    BY <1>7 DEF StepSend, RetInv, Running
<1>8. CASE StepRecv
    BY <1>8 DEF StepRecv, RetInv, workvars
<1>9. CASE StepCount
    BY <1>9 DEF StepCount, RetInv
<1>10. CASE TlsLoop
    <2>1. pc = "tls" /\ ret' = ret
        BY <1>10 DEF TlsLoop, TlsEncode, TlsTransmit, TlsRecord, TlsReject, TlsBlocked,
                     TlsWriteTraffic, TlsFrame
    <2>2. QED BY <2>1 DEF RetInv
<1>11. CASE StepExit
    BY <1>11 DEF StepExit, RetInv
<1>12. CASE Peer
    BY <1>12, PeerFrame DEF RetInv, connvars, workvars
<1>13. CASE UNCHANGED vars
    BY <1>13 DEF RetInv, vars, connvars, workvars
<1>14. QED
    BY <1>1, <1>2, <1>3, <1>4, <1>5, <1>6, <1>7, <1>8, <1>9, <1>10, <1>11, <1>12, <1>13
    DEF Next, ConnStep

\* A step that changes none of the three values the worker reads is a stutter
\* of ConnSpec.
LEMMA Stutters ==
    ASSUME UNCHANGED <<ret, closed_cleanly, bytes_received>>
    PROVE  UNCHANGED Abs!vars
BY DEF Abs!vars

\* Every step of Conn is a step or a stutter of ConnSpec.
LEMMA Simulates == TypeInv /\ RetInv /\ [Next]_vars => [Abs!Next]_(Abs!vars)
<1> SUFFICES ASSUME TypeInv, RetInv, [Next]_vars PROVE [Abs!Next]_(Abs!vars)
    OBVIOUS
<1>t. ret \in BOOLEAN /\ done \in BOOLEAN /\ closed_cleanly \in BOOLEAN
    BY DEF TypeInv, TypeOK
<1>b. bytes_received \in Nat /\ bytes_received' \in Nat
    BY TypeStep DEF TypeInv, TypeOK
<1>c. Abs!Terminate <=> /\ ~ret /\ ret' = TRUE
                        /\ (ret' /\ closed_cleanly') \in BOOLEAN
                        /\ bytes_received' = bytes_received
    BY DEF Abs!Terminate
<1>d. Abs!Receive <=> /\ ~ret
                      /\ bytes_received' \in Nat /\ bytes_received' > bytes_received
                      /\ ret' = ret /\ (ret' /\ closed_cleanly') = (ret /\ closed_cleanly)
    BY DEF Abs!Receive
<1>1. CASE Ingress
    BY <1>1, Stutters DEF Ingress, connvars, workvars
<1>2. CASE Egress
    BY <1>2, Stutters DEF Egress, connvars, workvars
<1>3. CASE EndPoll
    BY <1>3, Stutters DEF EndPoll, connvars
<1>4. CASE Tick
    BY <1>4, Stutters DEF Tick, connvars
<1>5. CASE StepDone
    <2>1. ret' = TRUE /\ UNCHANGED <<closed_cleanly, bytes_received>>
        BY <1>5 DEF StepDone, connvars
    <2>2. CASE ret
        BY <1>t, <2>1, <2>2, Stutters
    <2>3. CASE ~ret
        BY <1>c, <1>t, <2>1, <2>3 DEF Abs!Next
    <2>4. QED BY <2>2, <2>3
<1>6. CASE StepSynTimeout
    <2>1. ~ret
        BY <1>6 DEF StepSynTimeout, Running, RetInv
    <2>2. ret' = TRUE /\ UNCHANGED <<closed_cleanly, bytes_received>>
        BY <1>6 DEF StepSynTimeout
    <2>3. QED BY <1>c, <1>t, <2>1, <2>2 DEF Abs!Next
<1>7. CASE StepSend
    BY <1>7, Stutters DEF StepSend
<1>8. CASE StepRecv
    BY <1>8, Stutters DEF StepRecv, workvars
<1>9. CASE StepCount \/ TlsLoop
    <2>1. ~ret
        BY <1>9 DEF RetInv, StepCount, TlsLoop, TlsEncode, TlsTransmit, TlsRecord, TlsReject,
                    TlsBlocked, TlsWriteTraffic
    <2>2. UNCHANGED <<ret, closed_cleanly>>
        BY <1>9 DEF StepCount, TlsLoop, TlsEncode, TlsTransmit, TlsRecord, TlsReject,
                    TlsBlocked, TlsWriteTraffic, TlsFrame
    <2>3. bytes_received' >= bytes_received
        <3>1. \/ bytes_received' = bytes_received
              \/ bytes_received' = bytes_received + Len(incoming)
              \/ bytes_received' = bytes_received + BodyIn(incoming)
              \/ /\ Kind \in {"hdr", "body"}
                 /\ bytes_received' = bytes_received + BodyIn(<<Kind>>)
            BY <1>9 DEF StepCount, CountBody, TlsLoop, TlsEncode, TlsTransmit, TlsRecord,
                        TlsReject, TlsBlocked, TlsWriteTraffic
        <3>2. incoming \in Seq(Unit) /\ Len(incoming) \in Nat
            BY LenProperties DEF TypeInv, SeqOK
        <3>3. Kind \in {"hdr", "body"} => <<Kind>> \in Seq(Unit)
            BY DEF Unit
        <3>4. BodyIn(incoming) \in Nat
            BY <3>2, BodyInNat
        <3>5. Kind \in {"hdr", "body"} => BodyIn(<<Kind>>) \in Nat
            BY <3>3, BodyInNat
        <3>6. QED BY <1>b, <3>1, <3>2, <3>4, <3>5
    <2>4. CASE bytes_received' = bytes_received
        BY <2>2, <2>4, Stutters
    <2>5. CASE bytes_received' > bytes_received
        BY <1>b, <1>d, <2>1, <2>2, <2>5 DEF Abs!Next
    <2>6. QED BY <1>b, <2>3, <2>4, <2>5
<1>10. CASE StepExit
    <2>1. ~ret
        BY <1>10 DEF StepExit, RetInv
    <2>2. ret' \in BOOLEAN /\ closed_cleanly' \in BOOLEAN /\ bytes_received' = bytes_received
        BY <1>10 DEF StepExit
    <2>3. CASE ret'
        BY <1>c, <2>1, <2>2, <2>3 DEF Abs!Next
    <2>4. CASE ~ret'
        BY <1>t, <2>1, <2>2, <2>4 DEF Abs!vars
    <2>5. QED BY <2>3, <2>4
<1>11. CASE Peer
    BY <1>11, PeerFrame, Stutters DEF connvars, workvars
<1>12. CASE UNCHANGED vars
    BY <1>12, Stutters DEF vars, connvars, workvars
<1>13. QED
    BY <1>1, <1>2, <1>3, <1>4, <1>5, <1>6, <1>7, <1>8, <1>9, <1>10, <1>11, <1>12
    DEF Next, ConnStep

(***************************************************************************)
(* The refinement checked by the run ConnAll: once a call of conn_step has *)
(* answered true, the byte count and the verdict the worker adds up never  *)
(* change again, and bytes are never taken back.                           *)
(***************************************************************************)
THEOREM ConnImplementsSpec == Spec => AbsSpec
<1>1. Init => Abs!Init
    BY DEF Init, Abs!Init
<1>2. TypeInv /\ RetInv /\ [Next]_vars => [Abs!Next]_(Abs!vars)
    BY Simulates
<1>3. Spec => []RetInv
    <2>1. TypeInv /\ RetInv /\ [Next]_vars => RetInv'
        BY RetStep
    <2>2. QED BY <2>1, RetInit, ConnTypes, PTL DEF Spec
<1>4. QED BY <1>1, <1>2, <1>3, ConnTypes, PTL DEF Spec, AbsSpec, Abs!Spec

-----------------------------------------------------------------------------
(* --------------------------- counted once ------------------------------ *)

\* The counters and `settled`; a failed connection is out of conn_step for good.
FailedInv ==
    /\ CONNS_ESTABLISHED + CONNS_FAILED = IF settled THEN 1 ELSE 0
    /\ CONNS_FAILED > 0 => /\ done /\ ~closed_cleanly /\ bytes_received = 0
                           /\ tcp = "Closed" /\ pc \in {"poll", "step"}

\* Before the SYN|ACK nothing has been counted and nothing can have arrived.
UnansweredInv ==
    tcp = "SynSent" => /\ ~settled /\ ~closed_cleanly /\ bytes_received = 0
                       /\ rx = <<>> /\ incoming = <<>>

\* What a slice without a unit in it counts.
LEMMA BodyInEmpty == BodyIn(<<>>) = 0
<1>1. Len(<<>>) = 0
    BY EmptySeq
<1>2. QED BY <1>1 DEF BodyIn

LEMMA CountInit == Init => FailedInv /\ UnansweredInv
BY DEF Init, FailedInv, UnansweredInv

\* No step takes a socket back to SynSent, and none fills its buffers there.
LEMMA UnansweredStep == TypeInv /\ UnansweredInv /\ [Next]_vars => UnansweredInv'
<1> SUFFICES ASSUME TypeInv, UnansweredInv, [Next]_vars PROVE UnansweredInv'
    OBVIOUS
<1>e. Len(<<>>) = 0
    BY EmptySeq
<1>1. CASE Ingress
    BY <1>1 DEF Ingress, Process, UnansweredInv, sockvars, connvars
<1>2. CASE Egress
    BY <1>2 DEF Egress, UnansweredInv, sockvars, connvars
<1>3. CASE EndPoll \/ Tick \/ StepDone
    BY <1>3 DEF EndPoll, Tick, StepDone, UnansweredInv, sockvars, connvars
<1>4. CASE StepSynTimeout
    BY <1>4 DEF StepSynTimeout, UnansweredInv
<1>5. CASE StepSend
    BY <1>5 DEF StepSend, Settle, UnansweredInv
<1>6. CASE StepRecv
    BY <1>6, <1>e DEF StepRecv, CanRecv, UnansweredInv
<1>7. CASE StepCount
    BY <1>7, <1>e, BodyInEmpty DEF StepCount, CountBody, UnansweredInv, sockvars, TypeInv, TypeOK
<1>8. CASE TlsLoop
    <2>1. UNCHANGED <<tcp, rx, settled, closed_cleanly>>
        BY <1>8 DEF TlsLoop, TlsEncode, TlsTransmit, TlsRecord, TlsReject, TlsBlocked,
                    TlsWriteTraffic, TlsFrame, sockvars
    <2>2. RecordReady \/ UNCHANGED <<incoming, bytes_received>>
        BY <1>8 DEF TlsLoop, TlsEncode, TlsTransmit, TlsRecord, TlsReject, TlsBlocked,
                    TlsWriteTraffic
    <2>3. QED BY <1>e, <2>1, <2>2 DEF UnansweredInv, RecordReady
<1>9. CASE StepExit
    BY <1>9 DEF StepExit, Finished, Ended, UnansweredInv, sockvars
<1>10. CASE Peer
    BY <1>10, PeerFrame DEF UnansweredInv, sockvars, connvars
<1>11. CASE UNCHANGED vars
    BY <1>11 DEF UnansweredInv, vars, sockvars, connvars
<1>12. QED
    BY <1>1, <1>2, <1>3, <1>4, <1>5, <1>6, <1>7, <1>8, <1>9, <1>10, <1>11 DEF Next, ConnStep

\* A connection is settled by the timeout or by the first step that finds it
\* established, and the timeout shuts both the socket and conn_step.
LEMMA FailedStep == TypeInv /\ UnansweredInv /\ FailedInv /\ [Next]_vars => FailedInv'
<1> SUFFICES ASSUME TypeInv, UnansweredInv, FailedInv, [Next]_vars PROVE FailedInv'
    OBVIOUS
<1>n. CONNS_ESTABLISHED \in Nat /\ CONNS_FAILED \in Nat
    BY DEF TypeInv, CountersOK
<1>1. CASE Ingress
    BY <1>1 DEF Ingress, Process, FailedInv, sockvars, connvars, counters, workvars
<1>2. CASE Egress
    BY <1>2 DEF Egress, FailedInv, sockvars, connvars, counters, workvars
<1>3. CASE EndPoll \/ Tick \/ StepDone
    BY <1>3 DEF EndPoll, Tick, StepDone, FailedInv, sockvars, connvars, counters
<1>4. CASE StepSynTimeout
    <2>1. ~settled /\ ~closed_cleanly /\ bytes_received = 0
        BY <1>4 DEF StepSynTimeout, SynExpired, UnansweredInv
    <2>2. /\ settled' = TRUE /\ CONNS_ESTABLISHED' = CONNS_ESTABLISHED
          /\ CONNS_FAILED' = CONNS_FAILED + 1
        BY <1>4, <2>1 DEF StepSynTimeout
    <2>3. (CONNS_ESTABLISHED + CONNS_FAILED)' = 1
        BY <1>n, <2>1, <2>2 DEF FailedInv
    <2>4. /\ done' /\ ~closed_cleanly' /\ bytes_received' = 0
          /\ tcp' = "Closed" /\ pc' = "poll"
        BY <1>4, <2>1 DEF StepSynTimeout
    <2>5. QED BY <2>2, <2>3, <2>4 DEF FailedInv
<1>5. CASE StepSend
    <2>1. ~(CONNS_FAILED > 0) /\ CONNS_FAILED' = CONNS_FAILED
        BY <1>5 DEF StepSend, Running, FailedInv
    <2>2. CASE UNCHANGED <<settled, CONNS_ESTABLISHED>>
        BY <2>1, <2>2 DEF FailedInv
    <2>3. CASE ~settled /\ settled' = TRUE /\ CONNS_ESTABLISHED' = CONNS_ESTABLISHED + 1
        BY <1>n, <2>1, <2>3 DEF FailedInv
    <2>4. QED BY <1>5, <2>2, <2>3 DEF StepSend, Settle
<1>6. CASE StepRecv \/ StepCount \/ TlsLoop \/ StepExit
    <2>1. pc \notin {"poll", "step"}
        BY <1>6 DEF StepRecv, StepCount, TlsLoop, TlsEncode, TlsTransmit, TlsRecord, TlsReject,
                    TlsBlocked, TlsWriteTraffic, StepExit
    <2>2. UNCHANGED <<settled, counters>>
        BY <1>6 DEF StepRecv, StepCount, TlsLoop, TlsEncode, TlsTransmit, TlsRecord, TlsReject,
                    TlsBlocked, TlsWriteTraffic, TlsFrame, StepExit
    <2>3. QED BY <2>1, <2>2 DEF FailedInv, counters
<1>7. CASE Peer
    BY <1>7, PeerFrame DEF FailedInv, sockvars, connvars, counters, workvars
<1>8. CASE UNCHANGED vars
    BY <1>8 DEF FailedInv, vars, sockvars, connvars, counters, workvars
<1>9. QED
    BY <1>1, <1>2, <1>3, <1>4, <1>5, <1>6, <1>7, <1>8 DEF Next, ConnStep

\* Spec never leaves UnansweredInv: a socket whose SYN is unanswered holds no data.
LEMMA Unanswered == Spec => []UnansweredInv
<1>1. TypeInv /\ UnansweredInv /\ [Next]_vars => UnansweredInv'
    BY UnansweredStep
<1>2. QED BY <1>1, CountInit, ConnTypes, PTL DEF Spec

(***************************************************************************)
(* Every connection enters at most one of the two counters, at most once,  *)
(* and one that failed never counts a byte or passes for clean, whenever   *)
(* its SYN|ACK arrives (the invariant of the run ConnAll).                 *)
(***************************************************************************)
THEOREM ConnCountedOnce == Spec => []CountedOnce
<1>1. TypeInv /\ UnansweredInv /\ FailedInv /\ [Next]_vars => FailedInv'
    BY FailedStep
<1>2. FailedInv => CountedOnce
    BY DEF FailedInv, CountedOnce
<1>3. QED BY <1>1, <1>2, CountInit, ConnTypes, Unanswered, PTL DEF Spec

-----------------------------------------------------------------------------
(* ------------------------- the client's stream ------------------------- *)

\* The handshake flights rustls has handed to `outgoing` in each of its states.
Flights ==
    CASE tls \in {"none", "start"} -> <<>>
      [] tls \in {"hello_out", "wait", "flight_seen"} -> <<"hello">>
      [] OTHER -> <<"hello", "cfin">>

\* The rustls session exists unless the build is plain, and knows whether the
\* request may have been written.
SessionInv ==
    /\ (tls = "none") <=> PLAIN_HTTP
    /\ request_queued => handshake_done /\ tls \in {"none", "ready", "peer_closed"}

\* Padding is left only by a failure that gives the connection up.
PadInv == Padded => done /\ pc \notin {"recv", "tls"}

StreamInv ==
    ClientStream = IF request_queued THEN Handshake \o Request ELSE Flights

LEMMA FlightsType ==
    ASSUME TypeOK, SessionInv
    PROVE  /\ Flights \in Seq(Unit) /\ Len(Flights) <= Len(Handshake)
           /\ Flights = SubSeq(Handshake, 1, Len(Flights))
           /\ tls \in {"none", "ready", "peer_closed"} => Flights = Handshake
<1>1. <<>> \in Seq(Unit) /\ Len(<<>>) = 0
    BY EmptySeq
<1>2. <<"hello">> \in Seq(Unit) /\ Len(<<"hello">>) = 1
    BY DEF Unit
<1>3. <<"hello", "cfin">> \in Seq(Unit) /\ Len(<<"hello", "cfin">>) = 2
    BY DEF Unit
<1>4. CASE tls = "none"
    <2>1. Flights = <<>> /\ Handshake = <<>>
        BY <1>4, HandshakeType DEF Flights, SessionInv
    <2>2. SubSeq(<<>>, 1, 0) = <<>>
        BY SubSeqEmpty
    <2>3. QED BY <1>1, <2>1, <2>2
<1>5. CASE tls # "none"
    <2>1. Handshake = <<"hello", "cfin">>
        BY <1>5, HandshakeType DEF SessionInv
    <2>2. CASE tls = "start"
        <3>1. Flights = <<>>
            BY <2>2 DEF Flights
        <3>2. SubSeq(Handshake, 1, 0) = <<>>
            BY SubSeqEmpty
        <3>3. QED BY <1>1, <1>3, <2>1, <2>2, <3>1, <3>2
    <2>3. CASE tls \in {"hello_out", "wait", "flight_seen"}
        <3>1. Flights = <<"hello">>
            BY <2>3 DEF Flights
        <3>2. SubSeq(Handshake, 1, 1) = <<"hello">>
            <4>1. \A i \in 1..1 : Handshake[i] \in Unit
                BY <2>1 DEF Unit
            <4>2. /\ SubSeq(Handshake, 1, 1) \in Seq(Unit) /\ Len(SubSeq(Handshake, 1, 1)) = 1
                  /\ SubSeq(Handshake, 1, 1)[1] = Handshake[1]
                BY <4>1, SubSeqProperties
            <4>3. \A i \in 1..1 : SubSeq(Handshake, 1, 1)[i] = <<"hello">>[i]
                BY <2>1, <4>2
            <4>4. QED BY <1>2, <4>2, <4>3, SeqEqual
        <3>3. QED BY <1>2, <1>3, <2>1, <2>3, <3>1, <3>2
    <2>4. CASE tls \in {"cfin_out", "ready", "peer_closed"}
        <3>1. Flights = Handshake
            BY <2>1, <2>4 DEF Flights
        <3>2. SubSeq(Handshake, 1, Len(Handshake)) = Handshake
            BY <2>1, <1>3, SubSeqFull
        <3>3. QED BY <1>3, <2>1, <3>1, <3>2
    <2>5. QED BY <1>5, <2>2, <2>3, <2>4 DEF TypeOK
<1>6. QED BY <1>4, <1>5

LEMMA StreamInit == Init => SessionInv /\ PadInv /\ StreamInv
<1> SUFFICES ASSUME Init PROVE SessionInv /\ PadInv /\ StreamInv
    OBVIOUS
<1>1. SessionInv
    BY DEF Init, SessionInv
<1>2. Flights = <<>>
    BY DEF Init, Flights
<1>3. ClientStream = <<>>
    <2>1. <<>> \o <<>> = <<>>
        BY EmptySeq, ConcatEmptySeq
    <2>2. Queued = <<>>
        BY DEF Init, Queued, Padded
    <2>3. QED BY <2>1, <2>2 DEF Init, ClientStream
<1>4. PadInv
    BY DEF Init, PadInv, Padded
<1>5. QED BY <1>1, <1>2, <1>3, <1>4 DEF Init, StreamInv

\* The session is advanced by the TLS loop alone.
LEMMA SessionStep == TypeInv /\ SessionInv /\ [Next]_vars => SessionInv'
<1> SUFFICES ASSUME TypeInv, SessionInv, [Next]_vars PROVE SessionInv'
    OBVIOUS
<1>1. CASE Ingress \/ Egress \/ EndPoll \/ Tick \/ StepDone
    BY <1>1 DEF Ingress, Egress, EndPoll, Tick, StepDone, SessionInv, PLAIN_HTTP, connvars
<1>2. CASE StepSynTimeout \/ StepRecv \/ StepCount \/ StepExit
    BY <1>2 DEF StepSynTimeout, StepRecv, StepCount, StepExit, SessionInv, PLAIN_HTTP
<1>3. CASE StepSend
    BY <1>3 DEF StepSend, QueuePlain, SessionInv, PLAIN_HTTP
<1>4. CASE TlsLoop
    <2>1. build' = build
        BY <1>4 DEF TlsLoop, TlsEncode, TlsTransmit, TlsRecord, TlsReject, TlsBlocked,
                    TlsWriteTraffic, TlsFrame
    <2>2. CASE TlsEncode \/ TlsTransmit
        BY <2>1, <2>2 DEF TlsEncode, TlsTransmit, SessionInv, PLAIN_HTTP
    <2>3. CASE TlsRecord \/ TlsReject \/ TlsBlocked
        BY <2>1, <2>3 DEF TlsRecord, TlsReject, TlsBlocked, SessionInv, PLAIN_HTTP
    <2>4. CASE TlsWriteTraffic
        BY <2>1, <2>4 DEF TlsWriteTraffic, SessionInv, PLAIN_HTTP
    <2>5. QED BY <1>4, <2>2, <2>3, <2>4 DEF TlsLoop
<1>5. CASE Peer
    BY <1>5, PeerFrame DEF SessionInv, PLAIN_HTTP, connvars
<1>6. CASE UNCHANGED vars
    BY <1>6 DEF SessionInv, PLAIN_HTTP, vars, connvars
<1>7. QED BY <1>1, <1>2, <1>3, <1>4, <1>5, <1>6 DEF Next, ConnStep

\* The part that is not padding is a sequence of units.
LEMMA QueuedType == ASSUME SeqOK PROVE Queued \in Seq(Unit)
<1>1. outgoing \in Seq(Unit) /\ Len(outgoing) \in Nat
    BY LenProperties DEF SeqOK
<1>2. CASE Padded
    <2>1. Len(outgoing) # 0
        BY <1>1, <1>2, EmptySeq DEF Padded
    <2>2. Len(outgoing) - 1 \in 0..Len(outgoing)
        BY <1>1, <2>1
    <2>3. QED BY <1>1, <1>2, <2>2, SplitAt DEF Queued
<1>3. QED BY <1>1, <1>2 DEF Queued

\* What does not end in padding and is extended or partly sent still does not.
LEMMA PadStep == TypeInv /\ PadInv /\ [Next]_vars => PadInv'
<1> SUFFICES ASSUME TypeInv, PadInv, [Next]_vars PROVE PadInv'
    OBVIOUS
<1>s. outgoing \in Seq(Unit) /\ Len(outgoing) \in Nat
    BY LenProperties DEF TypeInv, SeqOK
<1>u. ASSUME outgoing' = outgoing, done => done',
             pc' \in {"recv", "tls"} => pc \in {"recv", "tls"}
      PROVE  PadInv'
    BY <1>u DEF PadInv, Padded
<1>r. Request \in Seq(Unit) /\ Len(Request) = ReqLen /\ ReqLen \in Nat /\ ReqLen > 0
      /\ Request[ReqLen] = "req"
    BY RequestType, SizeAssumption DEF Request
<1>q. /\ outgoing \o Request \in Seq(Unit)
      /\ Len(outgoing \o Request) \in Nat
      /\ (outgoing \o Request)[Len(outgoing \o Request)] = "req"
    <2>1. /\ outgoing \o Request \in Seq(Unit)
          /\ Len(outgoing \o Request) = Len(outgoing) + ReqLen
          /\ \A i \in 1..Len(outgoing) + ReqLen :
                (outgoing \o Request)[i] = IF i <= Len(outgoing) THEN outgoing[i]
                                          ELSE Request[i - Len(outgoing)]
        BY <1>s, <1>r, ConcatProperties
    <2>2. /\ Len(outgoing) + ReqLen \in 1..Len(outgoing) + ReqLen
          /\ ~(Len(outgoing) + ReqLen <= Len(outgoing))
          /\ (Len(outgoing) + ReqLen) - Len(outgoing) = ReqLen
          /\ Len(outgoing) + ReqLen \in Nat
        BY <1>s, <1>r
    <2>3. QED BY <1>r, <2>1, <2>2
<1>1. CASE Ingress \/ Egress \/ EndPoll \/ Tick \/ StepDone
    BY <1>1, <1>u DEF Ingress, Egress, EndPoll, Tick, StepDone, connvars, workvars
<1>2. CASE StepSynTimeout \/ StepRecv \/ StepCount \/ StepExit
    <2>1. CASE StepSynTimeout
        BY <1>u, <2>1 DEF StepSynTimeout
    <2>2. CASE StepRecv \/ StepCount
        BY <1>u, <2>2 DEF StepRecv, StepCount, workvars
    <2>3. CASE StepExit
        <3>1. outgoing' = outgoing /\ pc' = "poll" /\ done' = (done \/ Finished)
            BY <2>3 DEF StepExit
        <3>2. QED BY <1>u, <3>1
    <2>4. QED BY <1>2, <2>1, <2>2, <2>3
<1>3. CASE StepSend
    <2> DEFINE out == IF QueuePlain THEN outgoing \o Request ELSE outgoing
               n   == Accepted(out)
    <2>1. ~done /\ ~Padded
        BY <1>3 DEF StepSend, Running, PadInv
    <2>2. out \in Seq(Unit) /\ Len(out) \in Nat /\ (out = <<>> \/ out[Len(out)] # "zero")
        BY <1>s, <1>q, <2>1 DEF Padded
    <2>3. n \in 0..Len(out) /\ outgoing' = SubSeq(out, n + 1, Len(out))
        BY <1>3, <2>2, AcceptedFits DEF StepSend
    <2> HIDE DEF out, n
    <2>4. CASE n = Len(out)
        <3>1. outgoing' = <<>>
            BY <2>2, <2>3, <2>4, SubSeqEmpty
        <3>2. QED BY <3>1 DEF PadInv, Padded
    <2>5. CASE n < Len(out)
        <3>1. n + 1 \in Int /\ Len(out) \in Int /\ \A i \in n + 1..Len(out) : out[i] \in Unit
            BY <2>2, <2>3, ElementOfSeq
        <3>2. /\ Len(outgoing') = Len(out) - n
              /\ \A i \in 1..Len(out) - n : outgoing'[i] = out[n + i]
            <4>1. /\ Len(SubSeq(out, n + 1, Len(out)))
                        = IF n + 1 <= Len(out) THEN Len(out) - (n + 1) + 1 ELSE 0
                  /\ \A i \in 1..Len(out) - (n + 1) + 1 :
                        SubSeq(out, n + 1, Len(out))[i] = out[n + 1 + i - 1]
                BY <3>1, SubSeqProperties
            <4>2. \A i \in 1..Len(out) - n : n + 1 + i - 1 = n + i
                BY <2>2, <2>3
            <4>3. Len(out) - (n + 1) + 1 = Len(out) - n /\ n + 1 <= Len(out)
                BY <2>2, <2>3, <2>5
            <4>4. QED BY <2>3, <4>1, <4>2, <4>3
        <3>3. outgoing'[Len(out) - n] = out[Len(out)]
            <4>1. Len(out) - n \in 1..Len(out) - n /\ n + (Len(out) - n) = Len(out)
                BY <2>2, <2>3, <2>5
            <4>2. QED BY <3>2, <4>1
        <3>4. out # <<>>
            BY <2>2, <2>3, <2>5, EmptySeq
        <3>5. QED BY <2>2, <3>2, <3>3, <3>4 DEF PadInv, Padded
    <2>6. QED BY <2>2, <2>3, <2>4, <2>5
<1>4. CASE TlsLoop
    <2>1. pc = "tls" /\ ~Padded
        BY <1>4 DEF TlsLoop, TlsEncode, TlsTransmit, TlsRecord, TlsReject, TlsBlocked,
                    TlsWriteTraffic, PadInv
    <2>2. CASE outgoing' = outgoing
        BY <2>1, <2>2 DEF PadInv, Padded
    <2>3. CASE outgoing' = outgoing \o Request
        BY <1>q, <2>3 DEF PadInv, Padded
    <2>4. CASE done' = TRUE /\ pc' = "exit"
        BY <2>4 DEF PadInv
    <2>5. CASE outgoing' = Append(outgoing, IF tls = "start" THEN "hello" ELSE "cfin")
        <3>1. /\ Len(outgoing') = Len(outgoing) + 1
              /\ outgoing'[Len(outgoing) + 1] = IF tls = "start" THEN "hello" ELSE "cfin"
            BY <1>s, <2>5, AppendProperties DEF Unit
        <3>2. QED BY <3>1 DEF PadInv, Padded
    <2>6. QED
        BY <1>4, <2>2, <2>3, <2>4, <2>5
        DEF TlsLoop, TlsEncode, TlsTransmit, TlsRecord, TlsReject, TlsBlocked, TlsWriteTraffic
<1>5. CASE Peer
    BY <1>5, <1>u, PeerFrame DEF connvars, workvars
<1>6. CASE UNCHANGED vars
    BY <1>6, <1>u DEF vars, connvars, workvars
<1>7. QED BY <1>1, <1>2, <1>3, <1>4, <1>5, <1>6 DEF Next, ConnStep

\* Partial sends move units from `outgoing` to the socket and from there to the
\* server; only the two flights and the request are ever added.
LEMMA StreamStep ==
    TypeInv /\ SessionInv /\ PadInv /\ PadInv' /\ StreamInv /\ [Next]_vars => StreamInv'
<1> SUFFICES ASSUME TypeInv, SessionInv, PadInv, PadInv', StreamInv, [Next]_vars
             PROVE  StreamInv'
    OBVIOUS
<1>s. got \in Seq(Unit) /\ tx \in Seq(Unit) /\ outgoing \in Seq(Unit) /\ TypeOK
    BY DEF TypeInv, SeqOK
<1>r. Request \in Seq(Unit)
    BY RequestType
<1>g. got \o tx \in Seq(Unit)
    BY <1>s, ConcatProperties
<1>c. ~Padded => /\ ClientStream = (got \o tx) \o outgoing
                 /\ ClientStream \in Seq(Unit)
    BY <1>s, <1>g, ConcatProperties DEF ClientStream, Queued
<1>a. \A u \in Seq(Unit) : (got \o tx) \o (outgoing \o u) = ((got \o tx) \o outgoing) \o u
    <2> TAKE u \in Seq(Unit)
    <2> QED BY <1>s, <1>g, Assoc
<1>u. ASSUME UNCHANGED <<build, got, tx, outgoing, request_queued, tls>>
      PROVE  StreamInv'
    BY <1>u DEF StreamInv, ClientStream, Queued, Padded, Handshake, PLAIN_HTTP, Request, Flights
<1>1. CASE Ingress \/ EndPoll \/ Tick \/ StepDone
    <2>1. tx' = tx
        BY <1>1 DEF Ingress, Process, EndPoll, Tick, StepDone, sockvars
    <2>2. QED BY <1>1, <1>u, <2>1 DEF Ingress, EndPoll, Tick, StepDone, sockvars, peervars, connvars
<1>2. CASE Egress
    <2>1. CASE UNCHANGED <<got, tx>>
        BY <1>2, <1>u, <2>1 DEF Egress, connvars
    <2>2. CASE tx # <<>> /\ tx' = Tail(tx) /\ got' = Append(got, Head(tx))
        <3>1. /\ Head(tx) \in Unit /\ Tail(tx) \in Seq(Unit)
              /\ <<Head(tx)>> \o Tail(tx) = tx
            BY <1>s, <2>2, HeadTail
        <3>2. got' = got \o <<Head(tx)>> /\ <<Head(tx)>> \in Seq(Unit)
            BY <1>s, <2>2, <3>1, AppendIsConcat
        <3>3. (got \o <<Head(tx)>>) \o Tail(tx) = got \o (<<Head(tx)>> \o Tail(tx))
            BY <1>s, <3>1, <3>2, Assoc
        <3>4. got' \o tx' = got \o tx
            BY <2>2, <3>1, <3>2, <3>3
        <3>5. ClientStream' = ClientStream
            BY <1>2, <3>4 DEF ClientStream, Queued, Padded, Egress, connvars
        <3>6. QED
            BY <1>2, <3>5 DEF Egress, connvars, StreamInv, Handshake, PLAIN_HTTP, Request, Flights
    <2>3. QED BY <1>2, <2>1, <2>2 DEF Egress, sockvars, peervars
<1>3. CASE StepSynTimeout \/ StepRecv \/ StepCount \/ StepExit
    BY <1>3, <1>u DEF StepSynTimeout, StepRecv, StepCount, StepExit, sockvars, peervars
<1>4. CASE StepSend
    <2> DEFINE out == IF QueuePlain THEN outgoing \o Request ELSE outgoing
               n   == Accepted(out)
    <2>1. out \in Seq(Unit)
        BY <1>s, RequestType, ConcatProperties
    <2>2. n \in 0..Len(out)
        BY <2>1, AcceptedFits
    <2>3. /\ tx' = tx \o SubSeq(out, 1, n) /\ outgoing' = SubSeq(out, n + 1, Len(out))
          /\ got' = got /\ build' = build /\ tls' = tls
          /\ request_queued' = (request_queued \/ QueuePlain)
        BY <1>4 DEF StepSend, peervars
    <2>p. ~Padded /\ Queued' = outgoing'
        BY <1>4 DEF StepSend, Running, PadInv, Queued
    <2>4. QueuePlain => PLAIN_HTTP /\ ~request_queued
        BY DEF QueuePlain
    <2>5. out = IF QueuePlain THEN outgoing \o Request ELSE outgoing
        OBVIOUS
    <2> HIDE DEF out, n
    <2>6. /\ SubSeq(out, 1, n) \in Seq(Unit) /\ SubSeq(out, n + 1, Len(out)) \in Seq(Unit)
          /\ SubSeq(out, 1, n) \o SubSeq(out, n + 1, Len(out)) = out
        BY <2>1, <2>2, SplitAt
    <2>7. ClientStream' = (got \o tx) \o out
        <3>1. got \o (tx \o SubSeq(out, 1, n)) = (got \o tx) \o SubSeq(out, 1, n)
            BY <1>s, <2>6, Assoc
        <3>2. ((got \o tx) \o SubSeq(out, 1, n)) \o SubSeq(out, n + 1, Len(out))
              = (got \o tx) \o (SubSeq(out, 1, n) \o SubSeq(out, n + 1, Len(out)))
            BY <1>g, <2>6, Assoc
        <3>3. QED BY <2>p, <2>3, <2>6, <3>1, <3>2 DEF ClientStream
    <2>8. CASE QueuePlain
        <3>1. (got \o tx) \o (outgoing \o Request) = ((got \o tx) \o outgoing) \o Request
            BY <1>a, <1>r
        <3>2. Flights = Handshake
            BY <1>s, <2>4, <2>8, FlightsType DEF SessionInv
        <3>3. ClientStream = Handshake
            BY <2>4, <2>8, <3>2 DEF StreamInv
        <3>4. ClientStream' = Handshake \o Request
            BY <1>c, <2>p, <2>5, <2>7, <2>8, <3>1, <3>3
        <3>5. Handshake' = Handshake /\ Request' = Request /\ request_queued'
            BY <2>3, <2>8 DEF Handshake, PLAIN_HTTP, Request
        <3>6. QED BY <3>4, <3>5 DEF StreamInv
    <2>9. CASE ~QueuePlain
        <3>1. ClientStream' = ClientStream
            BY <1>c, <2>p, <2>5, <2>7, <2>9
        <3>2. /\ Handshake' = Handshake /\ Request' = Request /\ Flights' = Flights
              /\ request_queued' = request_queued
            BY <1>s, <2>3, <2>9 DEF Handshake, PLAIN_HTTP, Request, Flights, TypeOK
        <3>3. QED BY <3>1, <3>2 DEF StreamInv
    <2>10. QED BY <2>8, <2>9
<1>5. CASE TlsLoop
    <2>0. /\ build' = build /\ got' = got /\ tx' = tx
          /\ Handshake' = Handshake /\ Request' = Request
        BY <1>5 DEF TlsLoop, TlsEncode, TlsTransmit, TlsRecord, TlsReject, TlsBlocked,
                    TlsWriteTraffic, TlsFrame, sockvars, peervars, Handshake, PLAIN_HTTP, Request
    <2>p. ~Padded
        BY <1>5 DEF TlsLoop, TlsEncode, TlsTransmit, TlsRecord, TlsReject, TlsBlocked,
                    TlsWriteTraffic, PadInv
    <2>1. CASE UNCHANGED <<outgoing, request_queued>> /\ Flights' = Flights
        BY <2>0, <2>1 DEF StreamInv, ClientStream, Queued, Padded
    <2>z. CASE PadWithZeros /\ request_queued' = request_queued /\ Flights' = Flights
        <3>1. Queued' = outgoing
            <4>1. outgoing \in Seq(Unit) /\ "zero" \in Unit /\ Len(outgoing) \in Nat
                BY <1>s, LenProperties DEF Unit
            <4>2. /\ Append(outgoing, "zero") \in Seq(Unit)
                  /\ Append(outgoing, "zero") # <<>>
                  /\ Len(Append(outgoing, "zero")) = Len(outgoing) + 1
                  /\ Append(outgoing, "zero")[Len(outgoing) + 1] = "zero"
                BY <4>1, AppendProperties
            <4>3. (Len(outgoing) + 1) - 1 = Len(outgoing)
                BY <4>1
            <4>4. SubSeq(Append(outgoing, "zero"), 1, Len(outgoing)) = outgoing
                BY <4>1, FrontOfAppend
            <4>5. QED BY <2>z, <4>2, <4>3, <4>4 DEF PadWithZeros, Queued, Padded
        <3>2. ClientStream' = ClientStream
            BY <2>0, <2>p, <3>1 DEF ClientStream, Queued
        <3>3. QED BY <2>0, <2>z, <3>2 DEF StreamInv
    <2>2. CASE /\ pc' = "tls" /\ tls \in {"start", "flight_seen"} /\ request_queued' = request_queued
               /\ outgoing' = Append(outgoing, IF tls = "start" THEN "hello" ELSE "cfin")
               /\ tls' = IF tls = "start" THEN "hello_out" ELSE "cfin_out"
        <3>1. ~request_queued /\ ClientStream = Flights
            BY <2>2 DEF SessionInv, StreamInv
        <3> DEFINE u == IF tls = "start" THEN "hello" ELSE "cfin"
        <3>2. u \in Unit /\ <<u>> \in Seq(Unit)
            BY DEF Unit
        <3>3. outgoing' = outgoing \o <<u>>
            BY <1>s, <2>2, <3>2, AppendIsConcat
        <3>4. Flights' = Flights \o <<u>>
            <4>1. CASE tls = "start"
                <5>1. Flights = <<>> /\ Flights' = <<"hello">> /\ u = "hello"
                    BY <2>2, <4>1 DEF Flights
                <5>2. <<>> \o <<"hello">> = <<"hello">>
                    BY <3>2, <4>1, ConcatEmptySeq
                <5>3. QED BY <5>1, <5>2
            <4>2. CASE tls = "flight_seen"
                <5>1. Flights = <<"hello">> /\ Flights' = <<"hello", "cfin">> /\ u = "cfin"
                    BY <2>2, <4>2 DEF Flights
                <5>2. <<"hello">> \o <<"cfin">> = <<"hello", "cfin">>
                    BY PairIsConcat DEF Unit
                <5>3. QED BY <5>1, <5>2
            <4>3. QED BY <2>2, <4>1, <4>2
        <3> HIDE DEF u
        <3>5. (got \o tx) \o (outgoing \o <<u>>) = ((got \o tx) \o outgoing) \o <<u>>
            BY <1>s, <1>g, <3>2, Assoc
        <3>6. ClientStream' = ClientStream \o <<u>>
            BY <1>c, <2>0, <2>p, <2>2, <3>3, <3>5 DEF ClientStream, PadInv, Queued
        <3>7. QED BY <2>2, <3>1, <3>4, <3>6 DEF StreamInv
    <2>3. CASE /\ pc' = "tls" /\ tls \in {"ready", "peer_closed"}
               /\ ~request_queued /\ request_queued'
               /\ outgoing' = outgoing \o Request
        <3>1. Flights = Handshake
            BY <1>s, <2>3, FlightsType
        <3>2. (got \o tx) \o (outgoing \o Request) = ((got \o tx) \o outgoing) \o Request
            BY <1>a, <1>r
        <3>3. ClientStream' = ClientStream \o Request
            BY <1>c, <2>0, <2>p, <2>3, <3>2 DEF ClientStream, PadInv, Queued
        <3>4. QED BY <2>0, <2>3, <3>1, <3>3 DEF StreamInv
    <2>4. CASE TlsEncode
        <3>1. CASE PadWithZeros /\ tls' = tls
            BY <2>4, <2>z, <3>1 DEF TlsEncode, Flights
        <3>2. CASE /\ outgoing' = Append(outgoing, IF tls = "start" THEN "hello" ELSE "cfin")
                   /\ tls' = IF tls = "start" THEN "hello_out" ELSE "cfin_out"
                   /\ pc' = pc
            BY <2>2, <2>4, <3>2 DEF TlsEncode
        <3>3. QED BY <2>4, <3>1, <3>2 DEF TlsEncode
    <2>5. CASE TlsTransmit \/ TlsRecord \/ TlsReject \/ TlsBlocked
        <3>1. UNCHANGED <<outgoing, request_queued>>
            BY <2>5 DEF TlsTransmit, TlsRecord, TlsReject, TlsBlocked
        <3>2. Flights' = Flights
            BY <2>5 DEF TlsTransmit, TlsRecord, TlsReject, TlsBlocked, Flights
        <3>3. QED BY <2>1, <3>1, <3>2
    <2>6. CASE TlsWriteTraffic
        <3>1. Flights' = Flights /\ tls \in {"ready", "peer_closed"}
            BY <2>6 DEF TlsWriteTraffic, Flights
        <3>2. CASE UNCHANGED <<outgoing, request_queued>>
            BY <2>1, <3>1, <3>2
        <3>3. CASE /\ NeedsRequest /\ outgoing' = outgoing \o Request /\ request_queued' = TRUE
                   /\ pc' = "tls"
            BY <2>3, <3>1, <3>3 DEF NeedsRequest
        <3>4. CASE PadWithZeros /\ request_queued' = request_queued
            BY <2>z, <3>1, <3>4
        <3>5. QED BY <2>6, <3>2, <3>3, <3>4 DEF TlsWriteTraffic
    <2>7. QED BY <1>5, <2>4, <2>5, <2>6 DEF TlsLoop
<1>6. CASE Peer
    BY <1>6, <1>u, PeerFrame DEF sockvars, connvars
<1>7. CASE UNCHANGED vars
    BY <1>7, <1>u DEF vars, sockvars, peervars, connvars
<1>8. QED BY <1>1, <1>2, <1>3, <1>4, <1>5, <1>6, <1>7 DEF Next, ConnStep

\* Spec never leaves SessionInv, PadInv and StreamInv.
LEMMA Streams == Spec => [](SessionInv /\ PadInv /\ StreamInv)
<1>1. TypeInv /\ SessionInv /\ [Next]_vars => SessionInv'
    BY SessionStep
<1>2. TypeInv /\ PadInv /\ [Next]_vars => PadInv'
    BY PadStep
<1>3. TypeInv /\ SessionInv /\ PadInv /\ PadInv' /\ StreamInv /\ [Next]_vars => StreamInv'
    BY StreamStep
<1>4. QED BY <1>1, <1>2, <1>3, StreamInit, ConnTypes, PTL DEF Spec

(***************************************************************************)
(* The client's half of the stream is the handshake and exactly one        *)
(* request, however send_slice splits it (the invariant of the run         *)
(* ConnAll).                                                               *)
(***************************************************************************)
THEOREM ConnOneRequest == Spec => []OneRequest
<1>1. TypeInv /\ SessionInv /\ StreamInv => OneRequest
    <2> SUFFICES ASSUME TypeInv, SessionInv, StreamInv PROVE OneRequest
        OBVIOUS
    <2>1. Flights = SubSeq(Handshake, 1, Len(Flights))
        BY FlightsType DEF TypeInv
    <2>2. QED BY <2>1 DEF StreamInv, OneRequest
<1>2. QED BY <1>1, ConnTypes, Streams, PTL

-----------------------------------------------------------------------------
(* ------------------------- the server's stream ------------------------- *)

\* What occurs in a sequence, and how many body units it holds.
Units(s) == {s[i] : i \in 1..Len(s)}
InBody(u) == u \in {"body", "bad"}
BodyAt(s) == {i \in 1..Len(s) : InBody(s[i])}
Bodies(s) == Cardinality(BodyAt(s))

\* The order in which the server sends things.
Rank(u) ==
    CASE u \in {"part", "synack"} -> 0
      [] u = "flight" -> 1
      [] u = "hdr" -> 2
      [] InBody(u) -> 3
      [] u = "bye" -> 4
      [] u = "fin" -> 5
      [] OTHER -> 6

Sorted(s) ==
    \A i, j \in 1..Len(s) : i < j /\ s[j] # "part" =>
        Rank(s[i]) <= Rank(s[j]) /\ (s[i] = "hdr" => s[j] # "hdr")

\* Only a reset follows a FIN.
FinLast(s) == \A i, j \in 1..Len(s) : i < j /\ s[i] = "fin" => s[j] = "rst"

\* A record's kind follows the first half of that record.
Adjacent(s) ==
    \A i \in 1..Len(s) :
        s[i] \in {"flight", "hdr", "body", "bye", "bad"} => i > 1 /\ s[i - 1] = "part"

AtLeast(s, n) == \A u \in Units(s) : u = "part" \/ Rank(u) >= n

LEMMA RankType == \A u : Rank(u) \in 0..6
BY DEF Rank

LEMMA RankValues ==
    /\ Rank("part") = 0 /\ Rank("synack") = 0 /\ Rank("flight") = 1 /\ Rank("hdr") = 2
    /\ Rank("body") = 3 /\ Rank("bad") = 3 /\ Rank("bye") = 4 /\ Rank("fin") = 5
    /\ Rank("rst") = 6
BY DEF Rank, InBody

LEMMA UnitsOf ==
    ASSUME NEW s \in Seq(Unit), NEW i \in 1..Len(s) PROVE s[i] \in Units(s)
BY DEF Units

LEMMA UnitsConcat ==
    ASSUME NEW s \in Seq(Unit), NEW t \in Seq(Unit)
    PROVE  Units(s \o t) = Units(s) \union Units(t)
<1> DEFINE c == s \o t
<1>1. Len(s) \in Nat /\ Len(t) \in Nat
    BY LenProperties
<1>2. /\ Len(c) = Len(s) + Len(t)
      /\ \A i \in 1..Len(s) + Len(t) : c[i] = IF i <= Len(s) THEN s[i] ELSE t[i - Len(s)]
    BY ConcatProperties
<1> HIDE DEF c
<1>3. ASSUME NEW u \in Units(c) PROVE u \in Units(s) \union Units(t)
    <2>1. PICK i \in 1..Len(c) : u = c[i]
        BY <1>3 DEF Units
    <2>2. CASE i <= Len(s)
        BY <1>1, <1>2, <2>1, <2>2 DEF Units
    <2>3. CASE ~(i <= Len(s))
        <3>1. i - Len(s) \in 1..Len(t) /\ u = t[i - Len(s)]
            BY <1>1, <1>2, <2>1, <2>3
        <3>2. QED BY <3>1 DEF Units
    <2>4. QED BY <2>2, <2>3
<1>4. ASSUME NEW u \in Units(s) PROVE u \in Units(c)
    <2>1. PICK i \in 1..Len(s) : u = s[i]
        BY <1>4 DEF Units
    <2>2. i \in 1..Len(c) /\ c[i] = s[i]
        BY <1>1, <1>2, <2>1
    <2>3. QED BY <2>1, <2>2 DEF Units
<1>5. ASSUME NEW u \in Units(t) PROVE u \in Units(c)
    <2>1. PICK i \in 1..Len(t) : u = t[i]
        BY <1>5 DEF Units
    <2>2. i + Len(s) \in 1..Len(c) /\ c[i + Len(s)] = t[i]
        BY <1>1, <1>2, <2>1
    <2>3. QED BY <2>1, <2>2 DEF Units
<1>6. QED BY <1>3, <1>4, <1>5 DEF c

LEMMA BodiesType ==
    ASSUME NEW s \in Seq(Unit)
    PROVE  /\ IsFiniteSet(BodyAt(s)) /\ Bodies(s) \in Nat /\ Bodies(s) <= Len(s)
           /\ (\A u \in Units(s) : ~InBody(u)) => Bodies(s) = 0
<1>1. Len(s) \in Nat
    BY LenProperties
<1>2. IsFiniteSet(1..Len(s)) /\ Cardinality(1..Len(s)) = Len(s)
    BY <1>1, FS_Interval
<1>3. BodyAt(s) \in SUBSET (1..Len(s))
    BY DEF BodyAt
<1>4. IsFiniteSet(BodyAt(s)) /\ Cardinality(BodyAt(s)) <= Len(s)
    BY <1>2, <1>3, FS_Subset
<1>5. Cardinality(BodyAt(s)) \in Nat
    BY <1>4, FS_CardinalityType
<1>6. ASSUME \A u \in Units(s) : ~InBody(u) PROVE Bodies(s) = 0
    <2>1. BodyAt(s) = {}
        BY <1>6, UnitsOf DEF BodyAt
    <2>2. QED BY <2>1, FS_EmptySet DEF Bodies
<1>7. QED BY <1>4, <1>5, <1>6 DEF Bodies

\* Body units add up over concatenation.
LEMMA BodiesConcat ==
    ASSUME NEW s \in Seq(Unit), NEW t \in Seq(Unit)
    PROVE  Bodies(s \o t) = Bodies(s) + Bodies(t)
<1> DEFINE c == s \o t
           S == BodyAt(s)
           T == BodyAt(t)
           U == {i + Len(s) : i \in T}
           f == [i \in T |-> i + Len(s)]
<1>1. Len(s) \in Nat /\ Len(t) \in Nat
    BY LenProperties
<1>2. /\ Len(c) = Len(s) + Len(t)
      /\ \A i \in 1..Len(s) + Len(t) : c[i] = IF i <= Len(s) THEN s[i] ELSE t[i - Len(s)]
    BY ConcatProperties
<1>3. IsFiniteSet(S) /\ IsFiniteSet(T) /\ T \subseteq 1..Len(t) /\ S \subseteq 1..Len(s)
    BY BodiesType DEF BodyAt
<1>4. IsFiniteSet(U) /\ Cardinality(U) = Cardinality(T)
    <2>1. f \in Bijection(T, U)
        BY <1>1, <1>3 DEF Bijection, Injection, Surjection, IsInjective
    <2>2. ExistsBijection(T, U)
        BY <2>1 DEF ExistsBijection
    <2>3. QED BY <1>3, <2>2, FS_Bijection
<1>5. BodyAt(c) = S \union U
    <2> HIDE DEF c
    <2>1. ASSUME NEW i \in BodyAt(c) PROVE i \in S \union U
        <3>1. i \in 1..Len(c) /\ InBody(c[i])
            BY <2>1 DEF BodyAt
        <3>2. CASE i <= Len(s)
            BY <1>1, <1>2, <3>1, <3>2 DEF BodyAt
        <3>3. CASE ~(i <= Len(s))
            <4>1. i - Len(s) \in 1..Len(t) /\ c[i] = t[i - Len(s)]
                BY <1>1, <1>2, <3>1, <3>3
            <4>2. i - Len(s) \in T /\ i = (i - Len(s)) + Len(s)
                BY <1>1, <3>1, <4>1 DEF BodyAt
            <4>3. QED BY <4>2
        <3>4. QED BY <3>2, <3>3
    <2>2. ASSUME NEW i \in S PROVE i \in BodyAt(c)
        BY <1>1, <1>2, <2>2 DEF BodyAt
    <2>3. ASSUME NEW i \in T PROVE i + Len(s) \in BodyAt(c)
        <3>1. i \in 1..Len(t) /\ InBody(t[i])
            BY <2>3 DEF BodyAt
        <3>2. i + Len(s) \in 1..Len(c) /\ c[i + Len(s)] = t[i]
            BY <1>1, <1>2, <3>1
        <3>3. QED BY <3>1, <3>2 DEF BodyAt
    <2>4. QED BY <2>1, <2>2, <2>3
<1>6. S \cap U = {}
    BY <1>1, <1>3
<1> HIDE DEF S, T, U, c
<1>7. Cardinality(S \union U) = Cardinality(S) + Cardinality(U) - Cardinality(S \cap U)
    BY <1>3, <1>4, FS_Union
<1>8. Cardinality(S) \in Nat /\ Cardinality(U) \in Nat /\ Cardinality({}) = 0
    BY <1>3, <1>4, FS_CardinalityType, FS_EmptySet
<1>9. Cardinality(BodyAt(c)) = Cardinality(S) + Cardinality(T)
    <2>1. Cardinality(BodyAt(c)) = Cardinality(S) + Cardinality(U) - 0
        BY <1>5, <1>6, <1>7, <1>8
    <2>2. QED BY <1>4, <1>8, <2>1
<1>10. QED BY <1>9 DEF Bodies, S, T, c

\* Taking a piece out of a sequence keeps its order.
LEMMA SubKeeps ==
    ASSUME NEW a \in Seq(Unit), NEW q \in Seq(Unit), NEW b \in Seq(Unit)
    PROVE  /\ Sorted((a \o q) \o b) => Sorted(a \o b)
           /\ FinLast((a \o q) \o b) => FinLast(a \o b)
           /\ Units((a \o q) \o b) = Units(a \o b) \union Units(q)
<1> DEFINE s == (a \o q) \o b
           t == a \o b
           at(i) == IF i <= Len(a) THEN i ELSE i + Len(q)
<1>1. Len(a) \in Nat /\ Len(q) \in Nat /\ Len(b) \in Nat /\ a \o q \in Seq(Unit)
      /\ Len(a \o q) = Len(a) + Len(q)
    BY LenProperties, ConcatProperties
<1>2. /\ Len(t) = Len(a) + Len(b)
      /\ \A i \in 1..Len(a) + Len(b) : t[i] = IF i <= Len(a) THEN a[i] ELSE b[i - Len(a)]
    BY ConcatProperties
<1>3. \A i \in 1..Len(a) + Len(q) : (a \o q)[i] = IF i <= Len(a) THEN a[i] ELSE q[i - Len(a)]
    BY ConcatProperties
<1>4. /\ Len(s) = (Len(a) + Len(q)) + Len(b)
      /\ \A i \in 1..(Len(a) + Len(q)) + Len(b) :
            s[i] = IF i <= Len(a) + Len(q) THEN (a \o q)[i] ELSE b[i - (Len(a) + Len(q))]
    BY <1>1, ConcatProperties
<1>5. Units(s) = Units(t) \union Units(q)
    <2>1. Units(a \o q) = Units(a) \union Units(q)
        BY UnitsConcat
    <2>2. Units(a \o b) = Units(a) \union Units(b)
        BY UnitsConcat
    <2>3. Units((a \o q) \o b) = Units(a \o q) \union Units(b)
        BY <1>1, UnitsConcat
    <2>4. QED BY <2>1, <2>2, <2>3
<1> HIDE DEF s, t
<1>6. ASSUME NEW i \in 1..Len(t) PROVE at(i) \in 1..Len(s) /\ t[i] = s[at(i)]
    <2>1. CASE i <= Len(a)
        BY <1>1, <1>2, <1>3, <1>4, <2>1
    <2>2. CASE ~(i <= Len(a))
        <3>1. i + Len(q) \in 1..(Len(a) + Len(q)) + Len(b) /\ ~(i + Len(q) <= Len(a) + Len(q))
            BY <1>1, <1>2, <2>2
        <3>2. s[i + Len(q)] = b[(i + Len(q)) - (Len(a) + Len(q))] /\ t[i] = b[i - Len(a)]
            BY <1>1, <1>2, <1>4, <2>2, <3>1
        <3>3. (i + Len(q)) - (Len(a) + Len(q)) = i - Len(a)
            BY <1>1, <1>2
        <3>4. QED BY <1>4, <2>2, <3>1, <3>2, <3>3
    <2>3. QED BY <2>1, <2>2
<1>7. \A i, j \in 1..Len(t) : i < j => at(i) < at(j)
    BY <1>1, <1>2
<1> HIDE DEF at
<1>8. Sorted(s) => Sorted(t)
    BY <1>6, <1>7 DEF Sorted
<1>9. FinLast(s) => FinLast(t)
    BY <1>6, <1>7 DEF FinLast
<1>10. QED BY <1>5, <1>8, <1>9 DEF s, t

\* Putting later things behind earlier ones keeps the order.
LEMMA GrowKeeps ==
    ASSUME NEW s \in Seq(Unit), NEW t \in Seq(Unit), Sorted(s), Sorted(t),
           \A u \in Units(s), v \in Units(t) :
              v # "part" => Rank(u) <= Rank(v) /\ (u = "hdr" => v # "hdr")
    PROVE  Sorted(s \o t)
<1> DEFINE c == s \o t
<1>1. Len(s) \in Nat /\ Len(t) \in Nat
    BY LenProperties
<1>2. /\ Len(c) = Len(s) + Len(t)
      /\ \A i \in 1..Len(s) + Len(t) : c[i] = IF i <= Len(s) THEN s[i] ELSE t[i - Len(s)]
    BY ConcatProperties
<1> HIDE DEF c
<1>3. SUFFICES ASSUME NEW i \in 1..Len(c), NEW j \in 1..Len(c), i < j, c[j] # "part"
               PROVE  Rank(c[i]) <= Rank(c[j]) /\ (c[i] = "hdr" => c[j] # "hdr")
    BY DEF Sorted, c
<1>4. CASE j <= Len(s)
    <2>1. i \in 1..Len(s) /\ j \in 1..Len(s) /\ c[i] = s[i] /\ c[j] = s[j]
        BY <1>1, <1>2, <1>3, <1>4
    <2>2. QED BY <1>3, <2>1 DEF Sorted
<1>5. CASE i > Len(s)
    <2>1. /\ i - Len(s) \in 1..Len(t) /\ j - Len(s) \in 1..Len(t) /\ i - Len(s) < j - Len(s)
          /\ c[i] = t[i - Len(s)] /\ c[j] = t[j - Len(s)]
        BY <1>1, <1>2, <1>3, <1>5
    <2>2. QED BY <1>3, <2>1 DEF Sorted
<1>6. CASE i <= Len(s) /\ j > Len(s)
    <2>1. /\ i \in 1..Len(s) /\ j - Len(s) \in 1..Len(t)
          /\ c[i] = s[i] /\ c[j] = t[j - Len(s)]
        BY <1>1, <1>2, <1>3, <1>6
    <2>2. s[i] \in Units(s) /\ t[j - Len(s)] \in Units(t)
        BY <2>1, UnitsOf
    <2>3. QED BY <1>3, <2>1, <2>2
<1>7. QED BY <1>1, <1>4, <1>5, <1>6

LEMMA GrowFin ==
    ASSUME NEW s \in Seq(Unit), NEW t \in Seq(Unit), FinLast(s), FinLast(t),
           "fin" \notin Units(s) \/ Units(t) \subseteq {"rst"}
    PROVE  FinLast(s \o t)
<1> DEFINE c == s \o t
<1>1. Len(s) \in Nat /\ Len(t) \in Nat
    BY LenProperties
<1>2. /\ Len(c) = Len(s) + Len(t)
      /\ \A i \in 1..Len(s) + Len(t) : c[i] = IF i <= Len(s) THEN s[i] ELSE t[i - Len(s)]
    BY ConcatProperties
<1> HIDE DEF c
<1>3. SUFFICES ASSUME NEW i \in 1..Len(c), NEW j \in 1..Len(c), i < j, c[i] = "fin"
               PROVE  c[j] = "rst"
    BY DEF FinLast, c
<1>4. CASE j <= Len(s)
    <2>1. i \in 1..Len(s) /\ j \in 1..Len(s) /\ c[i] = s[i] /\ c[j] = s[j]
        BY <1>1, <1>2, <1>3, <1>4
    <2>2. QED BY <1>3, <2>1 DEF FinLast
<1>5. CASE i > Len(s)
    <2>1. /\ i - Len(s) \in 1..Len(t) /\ j - Len(s) \in 1..Len(t) /\ i - Len(s) < j - Len(s)
          /\ c[i] = t[i - Len(s)] /\ c[j] = t[j - Len(s)]
        BY <1>1, <1>2, <1>3, <1>5
    <2>2. QED BY <1>3, <2>1 DEF FinLast
<1>6. CASE i <= Len(s) /\ j > Len(s)
    <2>1. /\ i \in 1..Len(s) /\ j - Len(s) \in 1..Len(t)
          /\ c[i] = s[i] /\ c[j] = t[j - Len(s)]
        BY <1>1, <1>2, <1>3, <1>6
    <2>2. s[i] \in Units(s) /\ t[j - Len(s)] \in Units(t)
        BY <2>1, UnitsOf
    <2>3. QED BY <1>3, <2>1, <2>2
<1>7. QED BY <1>1, <1>4, <1>5, <1>6

\* Records stay whole when whole records are added or taken away.
LEMMA AdjacentConcat ==
    ASSUME NEW s \in Seq(Unit), NEW t \in Seq(Unit)
    PROVE  /\ Adjacent(s) /\ Adjacent(t) => Adjacent(s \o t)
           /\ Adjacent(s \o t) => Adjacent(s)
           /\ Adjacent(s \o t) /\ Len(s) > 0 /\ s[Len(s)] # "part" => Adjacent(t)
<1> DEFINE c == s \o t
           K == {"flight", "hdr", "body", "bye", "bad"}
<1>1. Len(s) \in Nat /\ Len(t) \in Nat
    BY LenProperties
<1>2. /\ Len(c) = Len(s) + Len(t)
      /\ \A i \in 1..Len(s) + Len(t) : c[i] = IF i <= Len(s) THEN s[i] ELSE t[i - Len(s)]
    BY ConcatProperties
<1> HIDE DEF c
<1>3. ASSUME Adjacent(s), Adjacent(t), NEW i \in 1..Len(c), c[i] \in K
      PROVE  i > 1 /\ c[i - 1] = "part"
    <2>1. CASE i <= Len(s)
        <3>1. i > 1 /\ s[i - 1] = "part"
            BY <1>1, <1>2, <1>3, <2>1 DEF Adjacent
        <3>2. QED BY <1>1, <1>2, <2>1, <3>1
    <2>2. CASE ~(i <= Len(s))
        <3>1. i - Len(s) \in 1..Len(t) /\ c[i] = t[i - Len(s)]
            BY <1>1, <1>2, <2>2
        <3>2. i - Len(s) > 1 /\ t[(i - Len(s)) - 1] = "part"
            BY <1>3, <3>1 DEF Adjacent
        <3>3. i - 1 \in 1..Len(s) + Len(t) /\ ~(i - 1 <= Len(s)) /\ (i - Len(s)) - 1 = (i - 1) - Len(s)
            BY <1>1, <1>2, <3>2
        <3>4. QED BY <1>1, <1>2, <3>2, <3>3
    <2>3. QED BY <2>1, <2>2
<1>4. ASSUME Adjacent(c), NEW i \in 1..Len(s), s[i] \in K PROVE i > 1 /\ s[i - 1] = "part"
    <2>1. i \in 1..Len(c) /\ c[i] = s[i]
        BY <1>1, <1>2
    <2>2. i > 1 /\ c[i - 1] = "part"
        BY <1>4, <2>1 DEF Adjacent
    <2>3. QED BY <1>1, <1>2, <2>2
<1>5. ASSUME Adjacent(c), Len(s) > 0, s[Len(s)] # "part", NEW i \in 1..Len(t), t[i] \in K
      PROVE  i > 1 /\ t[i - 1] = "part"
    <2>1. i + Len(s) \in 1..Len(s) + Len(t) /\ ~(i + Len(s) <= Len(s)) /\ (i + Len(s)) - Len(s) = i
        BY <1>1
    <2>2. c[i + Len(s)] = t[i]
        BY <1>2, <2>1
    <2>3. c[(i + Len(s)) - 1] = "part"
        BY <1>2, <1>5, <2>1, <2>2 DEF Adjacent
    <2>4. i # 1
        <3>1. CASE i = 1
            <4>1. (i + Len(s)) - 1 = Len(s) /\ Len(s) \in 1..Len(s) + Len(t)
                BY <1>1, <1>5, <3>1
            <4>2. c[Len(s)] = s[Len(s)]
                BY <1>1, <1>2, <4>1
            <4>3. QED BY <1>5, <2>3, <4>1, <4>2
        <3>2. QED BY <3>1
    <2>5. /\ (i + Len(s)) - 1 \in 1..Len(s) + Len(t) /\ ~((i + Len(s)) - 1 <= Len(s))
          /\ ((i + Len(s)) - 1) - Len(s) = i - 1
        BY <1>1, <2>4
    <2>6. QED BY <1>2, <2>3, <2>4, <2>5
<1>6. Adjacent(s) /\ Adjacent(t) => Adjacent(c)
    BY <1>3 DEF Adjacent
<1>7. Adjacent(c) => Adjacent(s)
    BY <1>4 DEF Adjacent
<1>8. Adjacent(c) /\ Len(s) > 0 /\ s[Len(s)] # "part" => Adjacent(t)
    BY <1>5 DEF Adjacent
<1>9. QED BY <1>6, <1>7, <1>8 DEF c

\* What the server's segments are made of.
LEMMA OneUnit ==
    ASSUME NEW u \in Unit
    PROVE  /\ <<u>> \in Seq(Unit) /\ Len(<<u>>) = 1 /\ <<u>>[1] = u /\ Units(<<u>>) = {u}
           /\ Sorted(<<u>>) /\ FinLast(<<u>>)
           /\ u \notin {"flight", "hdr", "body", "bye", "bad"} => Adjacent(<<u>>)
           /\ Bodies(<<u>>) = IF InBody(u) THEN 1 ELSE 0
<1>1. <<u>> \in Seq(Unit) /\ Len(<<u>>) = 1 /\ <<u>>[1] = u
    OBVIOUS
<1>2. \A i \in 1..Len(<<u>>) : i = 1
    BY <1>1
<1>3. Units(<<u>>) = {u}
    BY <1>1, <1>2 DEF Units
<1>4. Sorted(<<u>>) /\ FinLast(<<u>>)
    BY <1>2 DEF Sorted, FinLast
<1>5. u \notin {"flight", "hdr", "body", "bye", "bad"} => Adjacent(<<u>>)
    BY <1>1, <1>2 DEF Adjacent
<1>6. CASE InBody(u)
    <2>1. BodyAt(<<u>>) = {1}
        BY <1>1, <1>2, <1>6 DEF BodyAt
    <2>2. QED BY <1>1, <1>3, <1>4, <1>5, <1>6, <2>1, FS_Singleton DEF Bodies
<1>7. CASE ~InBody(u)
    <2>1. Bodies(<<u>>) = 0
        BY <1>1, <1>3, <1>7, BodiesType
    <2>2. QED BY <1>1, <1>3, <1>4, <1>5, <1>7, <2>1
<1>8. QED BY <1>6, <1>7

LEMMA TwoUnits ==
    ASSUME NEW u \in Unit
    PROVE  /\ <<"part", u>> \in Seq(Unit) /\ Len(<<"part", u>>) = 2
           /\ Units(<<"part", u>>) = {"part", u}
           /\ Sorted(<<"part", u>>) /\ FinLast(<<"part", u>>) /\ Adjacent(<<"part", u>>)
           /\ Bodies(<<"part", u>>) = IF InBody(u) THEN 1 ELSE 0
<1> DEFINE s == <<"part", u>>
<1>1. "part" \in Unit /\ ~InBody("part")
    BY DEF Unit, InBody
<1>2. s \in Seq(Unit) /\ Len(s) = 2 /\ <<"part">> \o <<u>> = s /\ s[1] = "part" /\ s[2] = u
    BY <1>1, PairIsConcat
<1>3. <<"part">> \in Seq(Unit) /\ <<u>> \in Seq(Unit)
    BY <1>1
<1>4. Units(<<"part">>) = {"part"} /\ Units(<<u>>) = {u}
    BY <1>1, OneUnit
<1> HIDE DEF s
<1>5. Units(s) = {"part", u}
    <2>1. Units(<<"part">> \o <<u>>) = Units(<<"part">>) \union Units(<<u>>)
        BY <1>3, UnitsConcat
    <2>2. QED BY <1>2, <1>4, <2>1
<1>6. Bodies(<<"part">>) = 0 /\ Bodies(<<u>>) = IF InBody(u) THEN 1 ELSE 0
    BY <1>1, OneUnit
<1>7. Bodies(<<"part">> \o <<u>>) = Bodies(<<"part">>) + Bodies(<<u>>)
    BY <1>3, BodiesConcat
<1>8. Bodies(s) = IF InBody(u) THEN 1 ELSE 0
    <2>1. Bodies(s) = Bodies(<<"part">>) + Bodies(<<u>>)
        BY <1>2, <1>7
    <2>2. QED BY <1>6, <2>1
<1>9. \A i \in 1..Len(s) : i = 1 \/ i = 2
    BY <1>2
<1>10. Rank("part") = 0 /\ Rank(u) \in 0..6
    BY RankType, RankValues
<1>11. Sorted(s) /\ FinLast(s) /\ Adjacent(s)
    <2>1. \A i, j \in 1..Len(s) : i < j => i = 1 /\ j = 2
        BY <1>9
    <2>2. Sorted(s)
        BY <1>2, <1>10, <2>1 DEF Sorted
    <2>3. FinLast(s)
        BY <1>2, <2>1 DEF FinLast
    <2>4. Adjacent(s)
        BY <1>2, <1>9 DEF Adjacent
    <2>5. QED BY <2>2, <2>3, <2>4
<1>12. QED BY <1>2, <1>5, <1>8, <1>11 DEF s

-----------------------------------------------------------------------------
(* ------------------- nothing of the response is lost ------------------- *)

\* What the client has yet to look at: read, received, and on the wire.
Front == incoming \o rx
Rest == Front \o wire

ServerUnits == {"part", "flight", "hdr", "body", "bye", "bad", "synack", "fin", "rst"}

StageRank ==
    CASE stage = "flight" -> 0
      [] stage = "header" -> 1
      [] stage \in {"body", "bye"} -> 3
      [] stage = "fin" -> 4
      [] OTHER -> 5

\* The stub counts what it reads without looking at it.
Raw == STUB_TLS_AFTER_HANDSHAKE /\ request_queued

\* What is under way is what the server sends, in the order it sends it.
WireInv ==
    /\ Sorted(Rest) /\ FinLast(Rest)
    /\ Units(Rest) \subseteq ServerUnits
    /\ Units(Front) \cap {"synack", "fin", "rst"} = {}
    /\ PLAIN_HTTP => Units(Rest) \subseteq {"synack", "hdr", "body", "fin", "rst"}
    /\ peer # "closed" => \A u \in Units(Rest) : Rank(u) <= StageRank
    /\ peer = "listen" => wire = <<>> /\ tcp = "SynSent"
    /\ tcp = "CloseWait" => Units(wire) \subseteq {"rst"} /\ (peer # "closed" => stage = "end")

\* How far the client has come in it: past the header, past close_notify, or
\* with the header still to come; no answer comes before the request.
HeaderInv == headers_done => AtLeast(Rest, 3) /\ (peer # "closed" => StageRank >= 3)

ByeInv ==
    tls = "peer_closed" =>
        AtLeast(Rest, 4) /\ (peer # "closed" => StageRank >= 4) /\ request_queued

AwaitInv ==
    ~headers_done /\ ~Raw =>
        /\ (\E u \in Units(Rest) : InBody(u)) => "hdr" \in Units(Rest)
        /\ stage = "body" /\ peer = "open" => "hdr" \in Units(Rest)

UnaskedInv ==
    ~request_queued => /\ Units(Rest) \cap {"hdr", "body", "bad", "bye"} = {}
                       /\ stage \in {"flight", "header", "end"}

WholeInv == ~PLAIN_HTTP /\ ~Raw => Adjacent(Rest)

ClientInv == HeaderInv /\ ByeInv /\ AwaitInv /\ UnaskedInv /\ WholeInv

\* What conn_step has read by the time it looks at it, and leaves behind.
PcInv ==
    /\ pc \in {"tls", "exit"} => rx = <<>>
    /\ pc = "tls" => ~PLAIN_HTTP
    /\ pc = "tls" /\ Raw => Len(incoming) < 2 /\ Bodies(incoming) = 0
    /\ pc = "exit" /\ ~done /\ request_queued => Bodies(incoming) = 0

\* Unless a reset has cut the stream short, what is counted and what is still
\* to be counted make up what the server has sent.
Counting == ~done /\ (peer # "closed" \/ tcp = "CloseWait" \/ "fin" \in Units(Rest))

ConserveInv ==
    Counting => IF STUB_TLS_AFTER_HANDSHAKE THEN bytes_received + Bodies(Rest) >= sent_body
                ELSE bytes_received + Bodies(Rest) = sent_body

DataInv == tcp # "Closed" => WireInv /\ ClientInv /\ PcInv /\ ConserveInv

\* What occurs in three pieces, and how many body units they hold.
LEMMA Parts ==
    ASSUME NEW a \in Seq(Unit), NEW b \in Seq(Unit), NEW c \in Seq(Unit)
    PROVE  /\ a \o b \in Seq(Unit) /\ (a \o b) \o c \in Seq(Unit)
           /\ Units(a \o b) = Units(a) \union Units(b)
           /\ Units((a \o b) \o c) = Units(a \o b) \union Units(c)
           /\ Bodies(a) \in Nat /\ Bodies(b) \in Nat /\ Bodies(c) \in Nat
           /\ Bodies(a \o b) = Bodies(a) + Bodies(b)
           /\ Bodies((a \o b) \o c) = (Bodies(a) + Bodies(b)) + Bodies(c)
<1>1. a \o b \in Seq(Unit)
    BY ConcatProperties
<1>2. (a \o b) \o c \in Seq(Unit)
    BY <1>1, ConcatProperties
<1>3. Units(a \o b) = Units(a) \union Units(b)
    BY UnitsConcat
<1>4. Units((a \o b) \o c) = Units(a \o b) \union Units(c)
    BY <1>1, UnitsConcat
<1>5. Bodies(a) \in Nat /\ Bodies(b) \in Nat /\ Bodies(c) \in Nat
    BY BodiesType
<1>6. Bodies(a \o b) = Bodies(a) + Bodies(b)
    BY BodiesConcat
<1>7. Bodies((a \o b) \o c) = Bodies(a \o b) + Bodies(c)
    BY <1>1, BodiesConcat
<1>8. QED BY <1>1, <1>2, <1>3, <1>4, <1>5, <1>6, <1>7

\* A step that leaves what is under way as it is, in the same order.
LEMMA DataKeeps ==
    ASSUME DataInv, Rest' = Rest,
           UNCHANGED <<build, tcp, peer, stage, sent_body, bytes_received, headers_done>>,
           wire' = wire \/ tcp = "Established",
           Units(Front') \cap {"synack", "fin", "rst"} = {} \/ Front' = Front,
           Raw => Raw', request_queued => request_queued', done => done',
           tls' = "peer_closed" => tls = "peer_closed",
           tcp # "Closed" => PcInv'
    PROVE  DataInv'
<1> SUFFICES ASSUME tcp # "Closed" PROVE WireInv' /\ ClientInv' /\ PcInv' /\ ConserveInv'
    BY DEF DataInv
<1>1. WireInv /\ ClientInv /\ ConserveInv /\ PcInv'
    BY DEF DataInv
<1>2. WireInv'
    <2>1. StageRank' = StageRank /\ PLAIN_HTTP' = PLAIN_HTTP
        BY DEF StageRank, PLAIN_HTTP
    <2>2. /\ Sorted(Rest') /\ FinLast(Rest') /\ Units(Rest') \subseteq ServerUnits
          /\ Units(Front') \cap {"synack", "fin", "rst"} = {}
        BY <1>1 DEF WireInv
    <2>3. PLAIN_HTTP' => Units(Rest') \subseteq {"synack", "hdr", "body", "fin", "rst"}
        BY <1>1, <2>1 DEF WireInv
    <2>4. peer' # "closed" => \A u \in Units(Rest') : Rank(u) <= StageRank'
        BY <1>1, <2>1 DEF WireInv
    <2>5. peer' = "listen" => wire' = <<>> /\ tcp' = "SynSent"
        BY <1>1 DEF WireInv
    <2>6. tcp' = "CloseWait" => Units(wire') \subseteq {"rst"} /\ (peer' # "closed" => stage' = "end")
        BY <1>1 DEF WireInv
    <2>7. QED BY <2>2, <2>3, <2>4, <2>5, <2>6 DEF WireInv
<1>3. HeaderInv'
    BY <1>1 DEF ClientInv, HeaderInv, StageRank, AtLeast
<1>4. ByeInv'
    BY <1>1 DEF ClientInv, ByeInv, StageRank, AtLeast
<1>5. AwaitInv'
    BY <1>1 DEF ClientInv, AwaitInv
<1>6. UnaskedInv'
    BY <1>1 DEF ClientInv, UnaskedInv
<1>7. WholeInv'
    BY <1>1 DEF ClientInv, WholeInv, PLAIN_HTTP
<1>8. ConserveInv'
    <2>1. Counting' => Counting
        BY DEF Counting
    <2>2. STUB_TLS_AFTER_HANDSHAKE' = STUB_TLS_AFTER_HANDSHAKE
        BY DEF STUB_TLS_AFTER_HANDSHAKE
    <2>3. QED BY <1>1, <2>1, <2>2 DEF ConserveInv
<1>9. QED BY <1>1, <1>2, <1>3, <1>4, <1>5, <1>6, <1>7, <1>8 DEF ClientInv

LEMMA DataInit == Init => DataInv
<1> SUFFICES ASSUME Init PROVE DataInv
    OBVIOUS
<1>1. <<>> \o <<>> = <<>> /\ Len(<<>>) = 0 /\ <<>> \in Seq(Unit)
    BY EmptySeq, ConcatEmptySeq
<1>2. Front = <<>> /\ Rest = <<>>
    BY <1>1 DEF Init, Front, Rest
<1>3. Units(<<>>) = {} /\ Sorted(<<>>) /\ FinLast(<<>>) /\ Adjacent(<<>>)
    BY <1>1 DEF Units, Sorted, FinLast, Adjacent
<1>4. Bodies(<<>>) = 0
    BY <1>1, <1>3, BodiesType
<1>5. WireInv
    BY <1>2, <1>3 DEF Init, WireInv
<1>6. ClientInv
    BY <1>2, <1>3 DEF Init, ClientInv, HeaderInv, ByeInv, AwaitInv, UnaskedInv, WholeInv
<1>7. PcInv
    BY DEF Init, PcInv
<1>8. ConserveInv
    BY <1>2, <1>4 DEF Init, ConserveInv
<1>9. QED BY <1>5, <1>6, <1>7, <1>8 DEF DataInv

\* Steps that neither read nor send any of the server's stream.
LEMMA DataIdle ==
    ASSUME TypeInv, SessionInv, DataInv,
           Egress \/ EndPoll \/ Tick \/ StepDone \/ StepSynTimeout \/ StepSend \/ StepExit
           \/ UNCHANGED vars
    PROVE  DataInv'
<1> SUFFICES ASSUME tcp' # "Closed" PROVE DataInv'
    BY DEF DataInv
<1>1. UNCHANGED <<build, tcp, wire, rx, incoming, stage, sent_body, bytes_received,
                  headers_done, tls>>
    BY DEF Egress, EndPoll, Tick, StepDone, StepSynTimeout, StepSend, StepExit, vars, sockvars,
           peervars, connvars
<1>d. done => done'
    BY DEF Egress, EndPoll, Tick, StepDone, StepSynTimeout, StepSend, StepExit, vars, connvars
<1>2. Rest' = Rest /\ Front' = Front
    BY <1>1 DEF Rest, Front
<1>3. peer' = peer
    BY <1>1 DEF Egress, EndPoll, Tick, StepDone, StepSynTimeout, StepSend, StepExit, vars, sockvars,
           peervars, MaySend
<1>4. (request_queued => request_queued') /\ (Raw => Raw')
    <2>1. request_queued => request_queued'
        BY DEF Egress, EndPoll, Tick, StepDone, StepSynTimeout, StepSend, StepExit, vars, connvars
    <2>2. QED BY <1>1, <2>1 DEF Raw, STUB_TLS_AFTER_HANDSHAKE
<1>5. PcInv'
    <2>1. CASE pc' \notin {"tls", "exit"}
        BY <2>1 DEF PcInv
    <2>2. CASE UNCHANGED vars
        <3>1. PcInv
            BY <1>1 DEF DataInv
        <3>2. QED
            BY <2>2, <3>1 DEF PcInv, vars, sockvars, connvars, workvars, Raw, PLAIN_HTTP,
                              STUB_TLS_AFTER_HANDSHAKE
    <2>3. QED
        BY <2>1, <2>2 DEF Egress, EndPoll, Tick, StepDone, StepSynTimeout, StepSend, StepExit,
                          workvars
<1>6. QED BY <1>1, <1>d, <1>2, <1>3, <1>4, <1>5, DataKeeps

LEMMA FinTail ==
    ASSUME NEW a \in Seq(Unit), NEW b \in Seq(Unit), FinLast((a \o <<"fin">>) \o b)
    PROVE  Units(b) \subseteq {"rst"}
<1> DEFINE q == a \o <<"fin">>
           c == q \o b
<1>1. <<"fin">> \in Seq(Unit) /\ Len(<<"fin">>) = 1 /\ <<"fin">>[1] = "fin"
    BY DEF Unit
<1>2. Len(a) \in Nat /\ Len(b) \in Nat
    BY LenProperties
<1>3. /\ q \in Seq(Unit) /\ Len(q) = Len(a) + 1
      /\ \A i \in 1..Len(a) + 1 : q[i] = IF i <= Len(a) THEN a[i] ELSE <<"fin">>[i - Len(a)]
    BY <1>1, ConcatProperties
<1>4. q[Len(a) + 1] = "fin"
    <2>1. Len(a) + 1 \in 1..Len(a) + 1 /\ ~(Len(a) + 1 <= Len(a)) /\ (Len(a) + 1) - Len(a) = 1
        BY <1>2
    <2>2. q[Len(a) + 1] = <<"fin">>[(Len(a) + 1) - Len(a)]
        BY <1>3, <2>1
    <2>3. QED BY <1>1, <2>1, <2>2
<1> HIDE DEF q
<1>5. /\ Len(c) = Len(q) + Len(b)
      /\ \A i \in 1..Len(q) + Len(b) : c[i] = IF i <= Len(q) THEN q[i] ELSE b[i - Len(q)]
    <2>1. q \in Seq(Unit) /\ b \in Seq(Unit)
        BY <1>3
    <2>2. QED BY ONLY <2>1, ConcatProperties DEF c
<1>6. FinLast(c)
    BY DEF q
<1> HIDE DEF c
<1>7. SUFFICES ASSUME NEW i \in 1..Len(b) PROVE b[i] = "rst"
    BY DEF Units
<1>8. Len(q) \in 1..Len(c) /\ c[Len(q)] = "fin"
    BY <1>2, <1>3, <1>4, <1>5
<1>9. i + Len(q) \in 1..Len(c) /\ Len(q) < i + Len(q) /\ (i + Len(q)) - Len(q) = i
    BY <1>2, <1>3, <1>5
<1>10. c[i + Len(q)] = b[i]
    BY <1>2, <1>3, <1>5, <1>9
<1>11. QED BY <1>6, <1>8, <1>9, <1>10 DEF FinLast

\* A segment is taken off the wire: data moves on into the receive buffer, a
\* SYN|ACK or a FIN is consumed, and a reset ends the connection.
LEMMA DataIngress == ASSUME TypeInv, DataInv, Ingress PROVE DataInv'
<1> SUFFICES ASSUME tcp' # "Closed" PROVE DataInv'
    BY DEF DataInv
<1> DEFINE h == Head(wire)
           W == Tail(wire)
<1>s. /\ incoming \in Seq(Unit) /\ rx \in Seq(Unit) /\ wire \in Seq(Unit)
      /\ stage \in {"flight", "header", "body", "bye", "fin", "end"}
    BY DEF TypeInv, TypeOK, SeqOK
<1>1. /\ wire # <<>> /\ wire' = W /\ pc = "poll" /\ Process(h) /\ tcp # "Closed"
      /\ UNCHANGED <<build, syns, peervars, connvars, counters, workvars>>
    BY DEF Ingress, Process, sockvars
<1>2. h \in Unit /\ W \in Seq(Unit) /\ <<h>> \o W = wire /\ <<h>> \in Seq(Unit)
    BY <1>s, <1>1, HeadTail
<1> HIDE DEF h, W
<1>3. Front \in Seq(Unit)
    BY <1>s, ConcatProperties DEF Front
<1>4. Rest = (Front \o <<h>>) \o W
    BY <1>2, <1>3, Assoc DEF Rest
<1>5. WireInv /\ ClientInv /\ ConserveInv
    BY <1>1 DEF DataInv
<1>6. PcInv'
    BY <1>1 DEF PcInv, workvars
<1>7. UNCHANGED <<build, peer, stage, sent_body, bytes_received, headers_done, request_queued,
                  done, tls, incoming>>
    BY <1>1 DEF peervars, connvars
<1>8. CASE h \notin {"synack", "rst", "fin"} /\ tcp = "Established"
    <2>1. tcp' = tcp /\ rx' = Append(rx, h)
        BY <1>1, <1>8 DEF Process, sockvars
    <2>2. rx' = rx \o <<h>>
        BY <1>s, <1>2, <2>1, AppendIsConcat
    <2>3. Front' = Front \o <<h>>
        BY <1>s, <1>2, <1>7, <2>2, Assoc DEF Front
    <2>4. Rest' = Rest
        BY <1>1, <1>4, <2>3 DEF Rest
    <2>5. Units(Front') \cap {"synack", "fin", "rst"} = {}
        <3>1. Units(<<h>>) = {h}
            BY <1>2, OneUnit
        <3>2. Units(Front \o <<h>>) = Units(Front) \union Units(<<h>>)
            BY <1>2, <1>3, UnitsConcat
        <3>3. Units(Front) \cap {"synack", "fin", "rst"} = {}
            BY <1>5 DEF WireInv
        <3>4. QED BY <1>8, <2>3, <3>1, <3>2, <3>3
    <2>6. Raw => Raw'
        BY <1>7 DEF Raw, STUB_TLS_AFTER_HANDSHAKE
    <2>7. QED BY <1>6, <1>7, <1>8, <2>1, <2>4, <2>5, <2>6, DataKeeps
<1>9. CASE \/ h = "synack" /\ tcp = "SynSent" /\ tcp' = "Established" /\ rx' = rx
           \/ h = "fin" /\ tcp = "Established" /\ tcp' = "CloseWait" /\ rx' = rx
    <2>1. Front' = Front /\ Rest' = Front \o W /\ Rest' \in Seq(Unit)
        BY <1>1, <1>2, <1>3, <1>7, <1>9, ConcatProperties DEF Front, Rest
    <2>2. /\ Units(<<h>>) = {h} /\ Bodies(<<h>>) = 0 /\ Len(<<h>>) = 1 /\ <<h>>[1] = h
          /\ h \in {"synack", "fin"}
        BY <1>2, <1>9, OneUnit DEF InBody
    <2>3. Units(Rest) = Units(Rest') \union {h}
        <3>1. Units((Front \o <<h>>) \o W) = Units(Front \o W) \union Units(<<h>>)
            BY <1>2, <1>3, SubKeeps
        <3>2. QED BY <1>4, <2>1, <2>2, <3>1
    <2>4. Sorted(Rest') /\ FinLast(Rest')
        <3>1. Sorted((Front \o <<h>>) \o W) /\ FinLast((Front \o <<h>>) \o W)
            BY <1>4, <1>5 DEF WireInv
        <3>2. QED BY <1>2, <1>3, <2>1, <3>1, SubKeeps
    <2>5. StageRank' = StageRank /\ PLAIN_HTTP' = PLAIN_HTTP /\ (Raw => Raw')
          /\ STUB_TLS_AFTER_HANDSHAKE' = STUB_TLS_AFTER_HANDSHAKE
        BY <1>7 DEF StageRank, PLAIN_HTTP, Raw, STUB_TLS_AFTER_HANDSHAKE
    <2>6. WireInv'
        <3>1. Units(Rest') \subseteq ServerUnits /\ Units(Front') \cap {"synack", "fin", "rst"} = {}
            BY <1>5, <2>1, <2>3 DEF WireInv
        <3>2. PLAIN_HTTP' => Units(Rest') \subseteq {"synack", "hdr", "body", "fin", "rst"}
            BY <1>5, <2>3, <2>5 DEF WireInv
        <3>3. peer' # "closed" => \A u \in Units(Rest') : Rank(u) <= StageRank'
            BY <1>5, <1>7, <2>3, <2>5 DEF WireInv
        <3>4. peer' # "listen"
            BY <1>1, <1>5, <1>7 DEF WireInv
        <3>5. ASSUME tcp' = "CloseWait"
              PROVE  Units(wire') \subseteq {"rst"} /\ (peer' # "closed" => stage' = "end")
            <4>1. h = "fin"
                BY <1>9, <3>5
            <4>2. FinLast((Front \o <<"fin">>) \o W)
                BY <1>4, <1>5, <4>1 DEF WireInv
            <4>3. Units(wire') \subseteq {"rst"}
                BY <1>1, <1>2, <1>3, <4>2, FinTail
            <4>4. "fin" \in Units(Rest)
                BY <2>3, <4>1
            <4>5. peer # "closed" => 5 <= StageRank
                BY <1>5, <4>4, RankValues DEF WireInv
            <4>6. peer # "closed" => stage = "end"
                BY <1>s, <4>5 DEF StageRank
            <4>7. QED BY <1>7, <4>3, <4>6
        <3>6. QED BY <2>4, <3>1, <3>2, <3>3, <3>4, <3>5 DEF WireInv
    <2>7. HeaderInv'
        BY <1>5, <1>7, <2>3, <2>5 DEF ClientInv, HeaderInv, AtLeast
    <2>8. ByeInv'
        BY <1>5, <1>7, <2>3, <2>5 DEF ClientInv, ByeInv, AtLeast
    <2>9. AwaitInv'
        BY <1>5, <1>7, <2>2, <2>3, <2>5 DEF ClientInv, AwaitInv
    <2>10. UnaskedInv'
        BY <1>5, <1>7, <2>3 DEF ClientInv, UnaskedInv
    <2>11. WholeInv'
        <3>1. SUFFICES ASSUME Adjacent(Rest) PROVE Adjacent(Rest')
            BY <1>5, <2>5 DEF ClientInv, WholeInv
        <3>2. Front \o <<h>> \in Seq(Unit)
            BY <1>2, <1>3, ConcatProperties
        <3>3. Adjacent(Front \o <<h>>)
            BY <1>2, <1>4, <3>1, <3>2, AdjacentConcat
        <3>4. Adjacent(Front)
            BY <1>2, <1>3, <3>3, AdjacentConcat
        <3>5. Len(Front \o <<h>>) > 0 /\ (Front \o <<h>>)[Len(Front \o <<h>>)] # "part"
            <4>1. Len(Front) \in Nat
                BY <1>3, LenProperties
            <4>2. /\ Len(Front \o <<h>>) = Len(Front) + Len(<<h>>)
                  /\ \A i \in 1..Len(Front) + Len(<<h>>) :
                        (Front \o <<h>>)[i] = IF i <= Len(Front) THEN Front[i]
                                              ELSE <<h>>[i - Len(Front)]
                BY <1>2, <1>3, ConcatProperties
            <4>3. /\ Len(Front) + 1 \in 1..Len(Front) + Len(<<h>>)
                  /\ ~(Len(Front) + 1 <= Len(Front)) /\ (Len(Front) + 1) - Len(Front) = 1
                BY <2>2, <4>1
            <4>4. (Front \o <<h>>)[Len(Front) + 1] = <<h>>[(Len(Front) + 1) - Len(Front)]
                BY <4>2, <4>3
            <4>5. (Front \o <<h>>)[Len(Front) + 1] = h
                BY <2>2, <4>3, <4>4
            <4>6. Len(Front \o <<h>>) = Len(Front) + 1
                BY <2>2, <4>2
            <4>7. QED BY <2>2, <4>1, <4>5, <4>6
        <3>6. Adjacent(W)
            BY <1>2, <1>4, <3>1, <3>2, <3>5, AdjacentConcat
        <3>7. QED BY <1>2, <1>3, <2>1, <3>4, <3>6, AdjacentConcat
    <2>12. ConserveInv'
        <3>1. Bodies(Rest) = (Bodies(Front) + 0) + Bodies(W) /\ Bodies(Front) \in Nat /\ Bodies(W) \in Nat
            BY <1>2, <1>3, <1>4, <2>2, Parts
        <3>2. Bodies(Rest') = Bodies(Front) + Bodies(W)
            BY <1>2, <1>3, <2>1, BodiesConcat
        <3>3. Bodies(Rest') = Bodies(Rest)
            BY <3>1, <3>2
        <3>4. Counting' => Counting
            BY <1>7, <1>9, <2>3 DEF Counting
        <3>5. QED BY <1>5, <1>7, <2>5, <3>3, <3>4 DEF ConserveInv
    <2>13. QED BY <1>6, <2>6, <2>7, <2>8, <2>9, <2>10, <2>11, <2>12 DEF DataInv, ClientInv
<1>10. QED BY <1>1, <1>8, <1>9 DEF Process, sockvars

\* The receive loop moves units from the socket to `incoming`.
LEMMA DataRecv == ASSUME TypeInv, DataInv, StepRecv PROVE DataInv'
<1>s. incoming \in Seq(Unit) /\ rx \in Seq(Unit) /\ wire \in Seq(Unit)
    BY DEF TypeInv, SeqOK
<1>1. PICK n \in 1..Len(rx) : /\ incoming' = incoming \o SubSeq(rx, 1, n)
                              /\ rx' = SubSeq(rx, n + 1, Len(rx))
    BY DEF StepRecv
<1>2. n \in 0..Len(rx)
    BY <1>s, <1>1, LenProperties
<1>3. /\ SubSeq(rx, 1, n) \in Seq(Unit) /\ SubSeq(rx, n + 1, Len(rx)) \in Seq(Unit)
      /\ SubSeq(rx, 1, n) \o SubSeq(rx, n + 1, Len(rx)) = rx
    BY <1>s, <1>2, SplitAt
<1>4. (incoming \o SubSeq(rx, 1, n)) \o SubSeq(rx, n + 1, Len(rx))
        = incoming \o (SubSeq(rx, 1, n) \o SubSeq(rx, n + 1, Len(rx)))
    BY <1>s, <1>3, Assoc
<1>5. Front' = Front
    BY <1>1, <1>3, <1>4 DEF Front
<1>6. UNCHANGED <<build, tcp, wire, peer, stage, sent_body, bytes_received, headers_done,
                  request_queued, done, tls, pc>> /\ pc = "recv"
    BY DEF StepRecv, peervars, workvars
<1>7. Rest' = Rest
    BY <1>5, <1>6 DEF Rest
<1>8. PcInv'
    BY <1>6 DEF PcInv
<1>9. Raw => Raw'
    BY <1>6 DEF Raw, STUB_TLS_AFTER_HANDSHAKE
<1>10. QED BY <1>5, <1>6, <1>7, <1>8, <1>9, DataKeeps

(***************************************************************************)
(* Looking at the first part q of what is under way.  Whatever q was, what *)
(* is left is still in order; the client's progress and the count are the  *)
(* caller's business.                                                      *)
(***************************************************************************)
LEMMA DropKeeps ==
    ASSUME NEW q \in Seq(Unit), Rest' \in Seq(Unit), Rest = q \o Rest', WireInv,
           Units(Front') \subseteq Units(Front),
           UNCHANGED <<build, tcp, wire, peer, stage>>
    PROVE  /\ WireInv'
           /\ Units(Rest) = Units(q) \union Units(Rest')
           /\ Bodies(Rest) = Bodies(q) + Bodies(Rest')
<1>1. Units(Rest) = Units(q) \union Units(Rest')
    BY UnitsConcat
<1>2. Bodies(Rest) = Bodies(q) + Bodies(Rest')
    BY BodiesConcat
<1>3. Sorted(Rest') /\ FinLast(Rest')
    <2>1. <<>> \in Seq(Unit) /\ <<>> \o q = q /\ <<>> \o Rest' = Rest'
        BY EmptySeq, ConcatEmptySeq
    <2>2. Sorted((<<>> \o q) \o Rest') /\ FinLast((<<>> \o q) \o Rest')
        BY <2>1 DEF WireInv
    <2>3. Sorted(<<>> \o Rest') /\ FinLast(<<>> \o Rest')
        BY <2>1, <2>2, SubKeeps
    <2>4. QED BY <2>1, <2>3
<1>4. StageRank' = StageRank /\ PLAIN_HTTP' = PLAIN_HTTP
    BY DEF StageRank, PLAIN_HTTP
<1>5. /\ Units(Rest') \subseteq ServerUnits /\ Units(Front') \cap {"synack", "fin", "rst"} = {}
      /\ PLAIN_HTTP' => Units(Rest') \subseteq {"synack", "hdr", "body", "fin", "rst"}
    BY <1>1, <1>4 DEF WireInv
<1>6. peer' # "closed" => \A u \in Units(Rest') : Rank(u) <= StageRank'
    BY <1>1, <1>4 DEF WireInv
<1>7. /\ peer' = "listen" => wire' = <<>> /\ tcp' = "SynSent"
      /\ tcp' = "CloseWait" => Units(wire') \subseteq {"rst"} /\ (peer' # "closed" => stage' = "end")
    BY DEF WireInv
<1>8. WireInv'
    BY <1>3, <1>5, <1>6, <1>7 DEF WireInv
<1>9. QED BY <1>1, <1>2, <1>8

\* Everything behind a unit of q that has rank n has at least that rank.
LEMMA DropRank ==
    ASSUME NEW q \in Seq(Unit), NEW t \in Seq(Unit), Sorted(q \o t), NEW i \in 1..Len(q)
    PROVE  /\ AtLeast(t, Rank(q[i]))
           /\ q[i] = "hdr" => "hdr" \notin Units(t)
<1> DEFINE c == q \o t
<1>1. Len(q) \in Nat /\ Len(t) \in Nat
    BY LenProperties
<1>2. /\ Len(c) = Len(q) + Len(t)
      /\ \A j \in 1..Len(q) + Len(t) : c[j] = IF j <= Len(q) THEN q[j] ELSE t[j - Len(q)]
    BY ConcatProperties
<1>3. Sorted(c)
    OBVIOUS
<1> HIDE DEF c
<1>4. ASSUME NEW j \in 1..Len(t), t[j] # "part"
      PROVE  Rank(q[i]) <= Rank(t[j]) /\ (q[i] = "hdr" => t[j] # "hdr")
    <2>1. i \in 1..Len(c) /\ j + Len(q) \in 1..Len(c) /\ i < j + Len(q) /\ (j + Len(q)) - Len(q) = j
        BY <1>1, <1>2
    <2>2. c[i] = q[i] /\ c[j + Len(q)] = t[j]
        BY <1>1, <1>2, <2>1
    <2>3. QED BY <1>3, <1>4, <2>1, <2>2 DEF Sorted
<1>5. \A u : Rank(u) \in Int
    BY RankType
<1>6. AtLeast(t, Rank(q[i]))
    <2>1. ASSUME NEW u \in Units(t), u # "part" PROVE Rank(u) >= Rank(q[i])
        <3>1. PICK j \in 1..Len(t) : u = t[j]
            BY DEF Units
        <3>2. QED BY <1>4, <1>5, <2>1, <3>1
    <2>2. QED BY <2>1 DEF AtLeast
<1>7. q[i] = "hdr" => "hdr" \notin Units(t)
    BY <1>4 DEF Units
<1>8. QED BY <1>6, <1>7

LEMMA RankTwo == ASSUME NEW u \in ServerUnits, Rank(u) = 2 PROVE u = "hdr"
BY RankValues DEF ServerUnits

LEMMA RankThree ==
    ASSUME NEW u \in ServerUnits
    PROVE  InBody(u) <=> Rank(u) = 3
BY RankValues DEF ServerUnits, InBody

LEMMA StageRankType == StageRank \in {0, 1, 3, 4, 5}
BY DEF StageRank

\* A stream without records: count_body counts the units behind the header.
LEMMA PlainCount ==
    ASSUME NEW s \in Seq(Unit), NEW t \in Seq(Unit), Sorted(s \o t),
           Units(s) \subseteq {"hdr", "body"}, Units(t) \subseteq ServerUnits,
           headers_done => AtLeast(s \o t, 3),
           ~headers_done => ((\E u \in Units(s \o t) : InBody(u)) => "hdr" \in Units(s \o t))
    PROVE  BodyIn(s) = Bodies(s)
<1>1. Len(s) \in Nat /\ \A i \in 1..Len(s) : s[i] \in Units(s) /\ s[i] \in {"hdr", "body"}
    BY LenProperties, UnitsOf
<1>u. Units(s \o t) = Units(s) \union Units(t)
    BY UnitsConcat
<1>2. CASE headers_done
    <2>1. \A i \in 1..Len(s) : InBody(s[i])
        <3>1. SUFFICES ASSUME NEW i \in 1..Len(s) PROVE InBody(s[i])
            OBVIOUS
        <3>2. s[i] \in Units(s \o t) /\ s[i] \in {"hdr", "body"}
            BY <1>1, <1>u
        <3>3. Rank(s[i]) >= 3
            BY <1>2, <3>2 DEF AtLeast
        <3>4. QED BY <3>2, <3>3, RankValues DEF InBody
    <2>2. BodyAt(s) = 1..Len(s)
        BY <2>1 DEF BodyAt
    <2>3. Bodies(s) = Len(s)
        <3>1. 1 \in Int /\ Len(s) \in Int
            BY <1>1
        <3>2. Cardinality(1..Len(s)) = IF 1 > Len(s) THEN 0 ELSE Len(s) - 1 + 1
            BY ONLY <3>1, FS_Interval
        <3>3. QED BY <1>1, <2>2, <3>2 DEF Bodies
    <2>4. QED BY <1>2, <2>3 DEF BodyIn
<1>3. CASE ~headers_done /\ \E i \in 1..Len(s) : s[i] = "hdr"
    <2> DEFINE p == CHOOSE i \in 1..Len(s) : s[i] = "hdr"
    <2>1. p \in 1..Len(s) /\ s[p] = "hdr"
        BY <1>3
    <2>2. BodyIn(s) = Len(s) - p
        BY <1>3 DEF BodyIn
    <2> HIDE DEF p
    <2>3. Sorted(s)
        <3>1. <<>> \in Seq(Unit) /\ s \o <<>> = s
            BY EmptySeq, ConcatEmptySeq
        <3>2. s \o t \in Seq(Unit) /\ (s \o t) \o <<>> = s \o t
            BY ConcatProperties, ConcatEmptySeq
        <3>3. Sorted((s \o t) \o <<>>)
            BY <3>2
        <3>4. Sorted(s \o <<>>)
            BY <3>1, <3>3, SubKeeps
        <3>5. QED BY <3>1, <3>4
    <2>4. \A i \in 1..Len(s) : InBody(s[i]) <=> i > p
        <3>1. SUFFICES ASSUME NEW i \in 1..Len(s) PROVE InBody(s[i]) <=> i > p
            OBVIOUS
        <3>2. CASE i = p
            BY <1>1, <2>1, <3>2 DEF InBody
        <3>3. CASE i < p
            <4>1. Rank(s[i]) <= Rank(s[p])
                BY <2>1, <2>3, <3>3 DEF Sorted
            <4>2. s[i] # "body"
                BY <2>1, <4>1, RankValues
            <4>3. QED BY <1>1, <2>1, <3>3, <4>2 DEF InBody
        <3>4. CASE i > p
            <4>1. s[i] # "hdr"
                BY <1>1, <2>1, <2>3, <3>4 DEF Sorted
            <4>2. QED BY <1>1, <3>4, <4>1 DEF InBody
        <3>5. QED BY <1>1, <2>1, <3>2, <3>3, <3>4
    <2>5. BodyAt(s) = (p + 1)..Len(s)
        BY <1>1, <2>1, <2>4 DEF BodyAt
    <2>6. Cardinality((p + 1)..Len(s)) = IF p + 1 > Len(s) THEN 0 ELSE Len(s) - (p + 1) + 1
        <3>1. p + 1 \in Int /\ Len(s) \in Int
            BY <1>1, <2>1
        <3>2. QED BY ONLY <3>1, FS_Interval
    <2>7. QED BY <1>1, <2>1, <2>2, <2>5, <2>6 DEF Bodies
<1>4. CASE ~headers_done /\ ~\E i \in 1..Len(s) : s[i] = "hdr"
    <2>1. BodyIn(s) = 0
        BY <1>4 DEF BodyIn
    <2>2. ASSUME NEW u \in Units(s), InBody(u) PROVE FALSE
        <3>1. PICK i \in 1..Len(s) : u = s[i]
            BY DEF Units
        <3>2. "hdr" \in Units(t)
            <4>1. "hdr" \in Units(s \o t)
                BY <1>4, <1>u, <2>2
            <4>2. "hdr" \notin Units(s)
                BY <1>4 DEF Units
            <4>3. QED BY <1>u, <4>1, <4>2
        <3>3. AtLeast(t, Rank(s[i]))
            BY DropRank
        <3>4. Rank(s[i]) = 3
            BY <2>2, <3>1, RankValues DEF InBody
        <3>5. QED BY <3>2, <3>3, <3>4, RankValues DEF AtLeast
    <2>3. Bodies(s) = 0
        BY <2>2, BodiesType
    <2>4. QED BY <2>1, <2>3
<1>5. QED BY <1>2, <1>3, <1>4

\* What has been read is counted where it stands, or left to the TLS loop.
LEMMA DataCount == ASSUME TypeInv, SessionInv, DataInv, StepCount PROVE DataInv'
<1> SUFFICES ASSUME tcp' # "Closed" PROVE DataInv'
    BY DEF DataInv
<1>s. /\ incoming \in Seq(Unit) /\ rx \in Seq(Unit) /\ wire \in Seq(Unit)
      /\ bytes_received \in Nat /\ sent_body \in Nat
      /\ headers_done \in BOOLEAN
    BY DEF TypeInv, TypeOK, SeqOK
<1>1. /\ UNCHANGED <<build, tcp, rx, wire, peer, stage, sent_body, request_queued, done, tls>>
      /\ rx = <<>>
    BY DEF StepCount, sockvars, peervars, CanRecv
<1>2. WireInv /\ ClientInv /\ ConserveInv
    BY <1>1 DEF DataInv
<1>e. <<>> \in Seq(Unit) /\ Len(<<>>) = 0 /\ <<>> \o <<>> = <<>>
    BY EmptySeq, ConcatEmptySeq
<1>3. Units(<<>>) = {} /\ Bodies(<<>>) = 0
    <2>1. Units(<<>>) = {}
        BY <1>e DEF Units
    <2>2. QED BY <1>e, <2>1, BodiesType
<1>4. Front = incoming /\ Rest = incoming \o wire
    BY <1>s, <1>1, ConcatEmptySeq DEF Front, Rest
<1>5. Raw' = Raw /\ StageRank' = StageRank /\ PLAIN_HTTP' = PLAIN_HTTP
      /\ STUB_TLS_AFTER_HANDSHAKE' = STUB_TLS_AFTER_HANDSHAKE
    BY <1>1 DEF Raw, StageRank, PLAIN_HTTP, STUB_TLS_AFTER_HANDSHAKE
<1>6. CASE UNCHANGED <<bytes_received, incoming, headers_done>> /\ ~PLAIN_HTTP
           /\ ~(STUB_TLS_AFTER_HANDSHAKE /\ handshake_done /\ request_queued)
    <2>1. Front' = Front /\ Rest' = Rest
        BY <1>1, <1>6 DEF Front, Rest
    <2>2. ~Raw' /\ pc' = "tls"
        BY <1>5, <1>6 DEF Raw, SessionInv, StepCount
    <2>3. PcInv'
        BY <1>1, <1>5, <1>6, <2>2 DEF PcInv
    <2>4. QED BY <1>1, <1>5, <1>6, <2>1, <2>3, DataKeeps
<1>7. CASE incoming' = <<>>
    <2>1. Front' = <<>> /\ Rest' = wire /\ Rest = incoming \o Rest'
        BY <1>s, <1>1, <1>e, <1>4, <1>7, ConcatEmptySeq DEF Front, Rest
    <2>2. /\ WireInv' /\ Units(Rest) = Units(incoming) \union Units(Rest')
          /\ Bodies(Rest) = Bodies(incoming) + Bodies(Rest')
        BY <1>s, <1>1, <1>2, <1>3, <2>1, DropKeeps
    <2>3. /\ Bodies(incoming) \in Nat /\ Bodies(incoming) <= Len(incoming)
          /\ Bodies(Rest') \in Nat /\ Len(incoming) \in Nat
        BY <1>s, <2>1, BodiesType, LenProperties
    <2>4. PcInv'
        <3>1. pc' \in {"tls", "exit"} /\ (pc' = "tls" => ~PLAIN_HTTP)
            BY DEF StepCount
        <3>2. QED BY <1>1, <1>3, <1>5, <1>7, <1>e, <3>1 DEF PcInv
    <2>5. Counting' => Counting
        BY <1>1, <2>2 DEF Counting
    <2>6. ByeInv'
        BY <1>1, <1>2, <1>5, <2>2 DEF ClientInv, ByeInv, AtLeast
    <2>7. UnaskedInv'
        BY <1>1, <1>2, <2>2 DEF ClientInv, UnaskedInv
    <2>8. CASE /\ STUB_TLS_AFTER_HANDSHAKE /\ request_queued /\ headers_done' = headers_done
               /\ bytes_received' = bytes_received + Len(incoming)
        <3>1. HeaderInv'
            BY <1>1, <1>2, <1>5, <2>2, <2>8 DEF ClientInv, HeaderInv, AtLeast
        <3>2. AwaitInv' /\ WholeInv'
            BY <1>5, <2>8 DEF AwaitInv, WholeInv, Raw
        <3>3. ConserveInv'
            <4>1. SUFFICES ASSUME Counting' PROVE bytes_received' + Bodies(Rest') >= sent_body'
                BY <1>5, <2>8 DEF ConserveInv
            <4>2. bytes_received + Bodies(Rest) >= sent_body
                BY <1>2, <2>5, <2>8, <4>1 DEF ConserveInv
            <4>3. QED BY <1>s, <1>1, <2>2, <2>3, <2>8, <4>2
        <3>4. QED BY <2>2, <2>4, <2>6, <2>7, <3>1, <3>2, <3>3 DEF DataInv, ClientInv
    <2>9. CASE PLAIN_HTTP /\ CountBody(incoming)
        <3>1. ~STUB_TLS_AFTER_HANDSHAKE /\ ~Raw
            BY <2>9 DEF PLAIN_HTTP, STUB_TLS_AFTER_HANDSHAKE, Raw
        <3>2. /\ bytes_received' = bytes_received + BodyIn(incoming)
              /\ headers_done' = (headers_done \/ \E i \in 1..Len(incoming) : incoming[i] = "hdr")
            BY <2>9 DEF CountBody
        <3>3. Units(incoming) \subseteq {"hdr", "body"} /\ Units(Rest') \subseteq ServerUnits
            <4>1. Units(Rest) \subseteq {"synack", "hdr", "body", "fin", "rst"}
                  /\ Units(incoming) \cap {"synack", "fin", "rst"} = {}
                BY <1>2, <1>4, <2>9 DEF WireInv
            <4>2. QED BY <2>2, <4>1 DEF WireInv
        <3>4. BodyIn(incoming) = Bodies(incoming)
            <4>1. Sorted(incoming \o Rest') /\ Rest' \in Seq(Unit)
                BY <1>s, <1>2, <2>1 DEF WireInv
            <4>2. headers_done => AtLeast(incoming \o Rest', 3)
                BY <1>2, <2>1 DEF ClientInv, HeaderInv
            <4>3. ~headers_done => ((\E u \in Units(incoming \o Rest') : InBody(u))
                                       => "hdr" \in Units(incoming \o Rest'))
                BY <1>2, <2>1, <3>1 DEF ClientInv, AwaitInv
            <4>4. QED BY <1>s, <3>3, <4>1, <4>2, <4>3, PlainCount
        <3>5. HeaderInv'
            <4>1. CASE headers_done
                BY <1>1, <1>2, <1>5, <2>2, <4>1 DEF ClientInv, HeaderInv, AtLeast
            <4>2. CASE \E i \in 1..Len(incoming) : incoming[i] = "hdr"
                <5>1. PICK i \in 1..Len(incoming) : incoming[i] = "hdr"
                    BY <4>2
                <5>2. AtLeast(Rest', 2) /\ "hdr" \notin Units(Rest')
                    <6>1. Sorted(incoming \o Rest') /\ Rest' \in Seq(Unit)
                        BY <1>s, <1>2, <2>1 DEF WireInv
                    <6>2. AtLeast(Rest', Rank(incoming[i])) /\ "hdr" \notin Units(Rest')
                        BY <1>s, <5>1, <6>1, DropRank
                    <6>3. QED BY <5>1, <6>2, RankValues
                <5>3. AtLeast(Rest', 3)
                    <6>1. ASSUME NEW u \in Units(Rest'), u # "part" PROVE Rank(u) >= 3
                        <7>1. Rank(u) >= 2 /\ u \in ServerUnits /\ u # "hdr" /\ Rank(u) \in 0..6
                            BY <3>3, <5>2, <6>1, RankType DEF AtLeast
                        <7>2. Rank(u) # 2
                            BY <7>1, RankTwo
                        <7>3. QED BY <7>1, <7>2
                    <6>2. QED BY <6>1 DEF AtLeast
                <5>4. "hdr" \in Units(Rest)
                    BY <1>s, <2>2, <5>1, UnitsOf
                <5>5. peer # "closed" => StageRank >= 3
                    <6>1. peer # "closed" => 2 <= StageRank
                        BY <1>2, <5>4, RankValues DEF WireInv
                    <6>2. QED BY <6>1, StageRankType
                <5>6. QED BY <1>1, <1>5, <5>3, <5>5 DEF HeaderInv
            <4>3. QED BY <3>2, <4>1, <4>2 DEF HeaderInv
        <3>6. AwaitInv'
            <4>1. SUFFICES ASSUME ~headers_done'
                           PROVE  /\ (\E u \in Units(Rest') : InBody(u)) => "hdr" \in Units(Rest')
                                  /\ stage' = "body" /\ peer' = "open" => "hdr" \in Units(Rest')
                BY DEF AwaitInv
            <4>2. ~headers_done /\ "hdr" \notin Units(incoming)
                BY <3>2, <4>1 DEF Units
            <4>3. QED BY <1>1, <1>2, <2>2, <3>1, <4>2 DEF ClientInv, AwaitInv
        <3>7. WholeInv'
            BY <1>5, <2>9 DEF WholeInv
        <3>8. ConserveInv'
            <4>1. SUFFICES ASSUME Counting' PROVE bytes_received' + Bodies(Rest') = sent_body'
                BY <1>5, <3>1 DEF ConserveInv
            <4>2. bytes_received + Bodies(Rest) = sent_body
                BY <1>2, <2>5, <3>1, <4>1 DEF ConserveInv
            <4>3. QED BY <1>s, <1>1, <2>2, <2>3, <3>2, <3>4, <4>2
        <3>9. QED BY <2>2, <2>4, <2>6, <2>7, <3>5, <3>6, <3>7, <3>8 DEF DataInv, ClientInv
    <2>10. QED BY <1>7, <2>8, <2>9, <1>6 DEF StepCount
<1>8. QED BY <1>6, <1>7 DEF StepCount

\* Less than a record at the front is not yet a body unit.
LEMMA ShortFront ==
    ASSUME NEW s \in Seq(Unit), NEW t \in Seq(Unit), Adjacent(s \o t), Len(s) < 2
    PROVE  Bodies(s) = 0
<1>1. Adjacent(s)
    BY AdjacentConcat
<1>2. Len(s) \in Nat
    BY LenProperties
<1>3. \A i \in 1..Len(s) : ~InBody(s[i])
    <2>1. \A i \in 1..Len(s) : ~(i > 1)
        BY <1>2
    <2>2. QED BY <1>1, <2>1 DEF Adjacent, InBody
<1>4. \A u \in Units(s) : ~InBody(u)
    BY <1>3 DEF Units
<1>5. QED BY <1>4, BodiesType

\* The TLS loop where it consumes no record.
LEMMA DataTlsIdle ==
    ASSUME TypeInv, SessionInv, DataInv,
           TlsEncode \/ TlsTransmit \/ TlsBlocked \/ TlsWriteTraffic
           \/ (TlsReject /\ pc' = "exit" /\ UNCHANGED incoming)
    PROVE  DataInv'
<1> SUFFICES ASSUME tcp' # "Closed" PROVE DataInv'
    BY DEF DataInv
<1>s. incoming \in Seq(Unit) /\ wire \in Seq(Unit)
    BY DEF TypeInv, SeqOK
<1>1. /\ UNCHANGED <<build, tcp, rx, wire, peer, stage, sent_body, bytes_received, headers_done,
                     incoming>>
      /\ pc = "tls"
    BY DEF TlsEncode, TlsTransmit, TlsBlocked, TlsWriteTraffic, TlsReject, TlsFrame, sockvars,
           peervars
<1>2. Front' = Front /\ Rest' = Rest
    BY <1>1 DEF Front, Rest
<1>3. WireInv /\ ClientInv /\ PcInv
    BY <1>1 DEF DataInv
<1>4. rx = <<>> /\ ~PLAIN_HTTP
    BY <1>1, <1>3 DEF PcInv
<1>5. Rest = incoming \o wire
    BY <1>s, <1>4, ConcatEmptySeq DEF Front, Rest
<1>6. PLAIN_HTTP' = PLAIN_HTTP /\ STUB_TLS_AFTER_HANDSHAKE' = STUB_TLS_AFTER_HANDSHAKE
    BY <1>1 DEF PLAIN_HTTP, STUB_TLS_AFTER_HANDSHAKE
<1>7. /\ request_queued => request_queued'
      /\ done => done'
      /\ tls' = "peer_closed" => tls = "peer_closed"
    BY DEF TlsEncode, TlsTransmit, TlsBlocked, TlsWriteTraffic, TlsReject
<1>8. Raw => Raw'
    BY <1>6, <1>7 DEF Raw
<1>9. ~Raw /\ Len(incoming) < 2 => Bodies(incoming) = 0
    BY <1>s, <1>3, <1>4, <1>5, ShortFront DEF ClientInv, WholeInv
<1>10. PcInv'
    <2>1. CASE TlsEncode \/ TlsTransmit \/ TlsBlocked \/ (TlsReject /\ pc' = "exit")
        <3>1. pc' = "tls" => request_queued' = request_queued /\ ~request_queued
            BY <2>1 DEF TlsEncode, TlsTransmit, TlsBlocked, TlsReject, SessionInv
        <3>2. pc' \in {"tls", "exit"} /\ (pc' = "exit" => done' \/ ~request_queued')
            BY <1>1, <2>1 DEF TlsEncode, TlsTransmit, TlsBlocked, TlsReject, SessionInv
        <3>3. QED BY <1>1, <1>4, <1>6, <3>1, <3>2 DEF PcInv, Raw
    <2>2. CASE TlsWriteTraffic /\ pc' = "tls"
        <3>1. ~request_queued /\ request_queued'
            BY <2>2 DEF TlsWriteTraffic, NeedsRequest
        <3>2. tls # "peer_closed"
            BY <1>3, <3>1 DEF ClientInv, ByeInv
        <3>3. Len(incoming) < 2
            <4>1. ~(Len(incoming) >= 2) /\ Len(incoming) \in Nat
                BY <1>s, <2>2, <3>2, LenProperties DEF TlsWriteTraffic, RecordReady
            <4>2. QED BY <4>1
        <3>4. Bodies(incoming) = 0
            BY <1>9, <3>1, <3>3 DEF Raw
        <3>5. QED BY <1>1, <1>4, <1>6, <2>2, <3>3, <3>4 DEF PcInv
    <2>3. CASE TlsWriteTraffic /\ pc' = "exit"
        <3>1. SUFFICES ASSUME ~done', request_queued' PROVE Bodies(incoming') = 0
            BY <1>1, <1>4, <2>3 DEF PcInv
        <3>2. CASE Raw
            BY <1>1, <1>3, <3>2 DEF PcInv
        <3>3. CASE ~Raw /\ tls = "peer_closed"
            <4>1. \A u \in Units(incoming) : ~InBody(u)
                <5>1. AtLeast(Rest, 4) /\ Units(Rest) = Units(incoming) \union Units(wire)
                    BY <1>s, <1>3, <1>5, <3>3, UnitsConcat DEF ClientInv, ByeInv
                <5>2. QED BY <5>1, RankValues DEF AtLeast, InBody
            <4>2. QED BY <1>s, <1>1, <4>1, BodiesType
        <3>4. CASE ~Raw /\ tls # "peer_closed"
            <4>1. ~(Len(incoming) >= 2) /\ Len(incoming) \in Nat
                BY <1>s, <2>3, <3>4, LenProperties DEF TlsWriteTraffic, RecordReady
            <4>2. QED BY <1>1, <1>9, <3>4, <4>1
        <3>5. QED BY <3>2, <3>3, <3>4
    <2>4. QED BY <1>1, <2>1, <2>2, <2>3 DEF TlsWriteTraffic
<1>11. QED BY <1>1, <1>2, <1>7, <1>8, <1>10, DataKeeps

\* A record is taken off the front.
LEMMA DiscardFacts ==
    ASSUME TypeInv, DataInv, tcp # "Closed", pc = "tls", RecordReady, Discard,
           Kind \in {"flight", "hdr", "body", "bye", "bad"},
           UNCHANGED <<build, tcp, rx, wire, peer, stage>>
    PROVE  /\ ~Raw /\ rx = <<>> /\ ~PLAIN_HTTP
           /\ Kind \in Unit
           /\ incoming' \in Seq(Unit) /\ Rest' \in Seq(Unit) /\ Rest' = incoming' \o wire
           /\ Rest = <<"part", Kind>> \o Rest'
           /\ Sorted(<<"part", Kind>> \o Rest')
           /\ WireInv' /\ Adjacent(Rest')
           /\ Units(Rest) = {"part", Kind} \union Units(Rest')
           /\ Bodies(Rest) = Bodies(<<"part", Kind>>) + Bodies(Rest')
<1>s. incoming \in Seq(Unit) /\ rx \in Seq(Unit) /\ wire \in Seq(Unit)
    BY DEF TypeInv, SeqOK
<1>1. WireInv /\ ClientInv /\ PcInv
    BY DEF DataInv
<1>2. Len(incoming) \in Nat /\ Len(incoming) >= 2
    BY <1>s, LenProperties DEF RecordReady
<1>3. ~Raw /\ rx = <<>> /\ ~PLAIN_HTTP
    BY <1>1, <1>2 DEF PcInv
<1>4. Front = incoming /\ Rest = incoming \o wire
    BY <1>s, <1>3, ConcatEmptySeq DEF Front, Rest
<1>5. Adjacent(incoming)
    <2>1. Adjacent(incoming \o wire)
        BY <1>1, <1>3, <1>4 DEF ClientInv, WholeInv
    <2>2. QED BY <1>s, <2>1, AdjacentConcat
<1>6. incoming[1] = "part" /\ incoming[2] = Kind
    <2>1. 2 \in 1..Len(incoming) /\ 2 - 1 = 1
        BY <1>2
    <2>2. incoming[2 - 1] = "part"
        BY <1>5, <2>1 DEF Adjacent, Kind
    <2>3. QED BY <2>1, <2>2 DEF Kind
<1>7. Kind \in Unit /\ Kind # "part"
    BY DEF Unit
<1> DEFINE k == Kind
           q == <<"part", k>>
<1>8. /\ q \in Seq(Unit) /\ Len(q) = 2 /\ q[1] = "part" /\ q[2] = k
      /\ Units(q) = {"part", k}
    BY <1>7, TwoUnits
<1> HIDE DEF k, q
<1>9. q = SubSeq(incoming, 1, 2)
    <2>1. \A i \in 1..2 : incoming[i] \in Unit
        BY <1>s, <1>2, ElementOfSeq
    <2>2. /\ SubSeq(incoming, 1, 2) \in Seq(Unit) /\ Len(SubSeq(incoming, 1, 2)) = 2
          /\ \A i \in 1..2 : SubSeq(incoming, 1, 2)[i] = incoming[i]
        <3>1. /\ SubSeq(incoming, 1, 2) \in Seq(Unit)
              /\ Len(SubSeq(incoming, 1, 2)) = IF 1 <= 2 THEN 2 - 1 + 1 ELSE 0
              /\ \A i \in 1..2 - 1 + 1 : SubSeq(incoming, 1, 2)[i] = incoming[1 + i - 1]
            BY <2>1, SubSeqProperties
        <3>2. QED BY <3>1
    <2>3. \A i \in 1..2 : q[i] = SubSeq(incoming, 1, 2)[i]
        <3>1. \A i \in 1..2 : i = 1 \/ i = 2
            OBVIOUS
        <3>2. QED BY <1>6, <1>8, <2>2, <3>1 DEF k
    <2>4. QED BY <1>8, <2>2, <2>3, SeqEqual
<1>10. /\ incoming' = SubSeq(incoming, 2 + 1, Len(incoming)) /\ incoming' \in Seq(Unit)
       /\ incoming = q \o incoming'
    <2>1. incoming' = SubSeq(incoming, 2 + 1, Len(incoming))
        BY DEF Discard
    <2>2. 2 \in 0..Len(incoming)
        BY <1>2
    <2>3. /\ SubSeq(incoming, 2 + 1, Len(incoming)) \in Seq(Unit)
          /\ SubSeq(incoming, 1, 2) \o SubSeq(incoming, 2 + 1, Len(incoming)) = incoming
        BY <1>s, <2>2, SplitAt
    <2>4. QED BY <1>9, <2>1, <2>3
<1>11. Front' = incoming' /\ Rest' = incoming' \o wire /\ Rest' \in Seq(Unit)
    <2>1. Front' = incoming'
        BY <1>3, <1>10, ConcatEmptySeq DEF Front
    <2>2. Rest' = incoming' \o wire
        BY <2>1 DEF Rest
    <2>3. QED BY <1>s, <1>10, <2>1, <2>2, ConcatProperties
<1>12. Rest = q \o Rest'
    <2>1. (q \o incoming') \o wire = q \o (incoming' \o wire)
        BY <1>s, <1>8, <1>10, Assoc
    <2>2. QED BY <1>4, <1>10, <1>11, <2>1
<1>13. Units(Front') \subseteq Units(Front)
    <2>1. Units(q \o incoming') = Units(q) \union Units(incoming')
        BY <1>8, <1>10, UnitsConcat
    <2>2. QED BY <1>4, <1>10, <1>11, <2>1
<1>14. /\ WireInv' /\ Units(Rest) = Units(q) \union Units(Rest')
       /\ Bodies(Rest) = Bodies(q) + Bodies(Rest')
    BY <1>1, <1>8, <1>11, <1>12, <1>13, DropKeeps
<1>15. Adjacent(Rest')
    <2>1. Adjacent(q \o Rest')
        BY <1>1, <1>3, <1>12 DEF ClientInv, WholeInv
    <2>2. Len(q) > 0 /\ q[Len(q)] # "part"
        BY <1>7, <1>8 DEF k
    <2>3. QED BY <1>8, <1>11, <2>1, <2>2, AdjacentConcat
<1>16. Sorted(q \o Rest')
    BY <1>1, <1>12 DEF WireInv
<1>17. QED
    BY <1>3, <1>7, <1>8, <1>10, <1>11, <1>12, <1>14, <1>15, <1>16 DEF k, q

\* The TLS loop where it consumes a record.
LEMMA DataTlsRecord ==
    ASSUME TypeInv, SessionInv, DataInv, TlsRecord \/ (TlsReject /\ Discard /\ UNCHANGED pc)
    PROVE  DataInv'
<1> SUFFICES ASSUME tcp' # "Closed" PROVE DataInv'
    BY DEF DataInv
<1>s. bytes_received \in Nat /\ sent_body \in Nat /\ headers_done \in BOOLEAN
    BY DEF TypeInv, TypeOK
<1>1. /\ UNCHANGED <<build, tcp, rx, wire, peer, stage, sent_body, request_queued>>
      /\ pc = "tls" /\ RecordReady /\ Discard
      /\ Kind \in {"flight", "hdr", "body", "bye", "bad"}
    BY DEF TlsRecord, TlsReject, TlsFrame, sockvars, peervars
<1>2. WireInv /\ ClientInv /\ ConserveInv
    BY <1>1 DEF DataInv
<1> DEFINE k == Kind
           q == <<"part", k>>
<1>3. /\ ~Raw /\ rx = <<>> /\ ~PLAIN_HTTP
      /\ k \in Unit
      /\ incoming' \in Seq(Unit) /\ Rest' \in Seq(Unit) /\ Rest' = incoming' \o wire
      /\ Rest = q \o Rest'
      /\ Sorted(q \o Rest')
      /\ WireInv' /\ Adjacent(Rest')
      /\ Units(Rest) = {"part", k} \union Units(Rest')
      /\ Bodies(Rest) = Bodies(q) + Bodies(Rest')
    BY <1>1, DiscardFacts
<1>4. q \in Seq(Unit) /\ Len(q) = 2 /\ q[2] = k
    BY <1>3, TwoUnits
<1>5. Bodies(q) = IF InBody(k) THEN 1 ELSE 0
    BY <1>3, TwoUnits
<1>6. k \in {"flight", "hdr", "body", "bye", "bad"}
    BY <1>1
<1>7. AtLeast(Rest', Rank(k)) /\ (k = "hdr" => "hdr" \notin Units(Rest'))
    <2>1. 2 \in 1..Len(q)
        BY <1>4
    <2>2. AtLeast(Rest', Rank(q[2])) /\ (q[2] = "hdr" => "hdr" \notin Units(Rest'))
        BY <1>3, <1>4, <2>1, DropRank
    <2>3. QED BY <1>4, <2>2
<1>8. /\ Raw' = Raw /\ StageRank' = StageRank /\ PLAIN_HTTP' = PLAIN_HTTP
      /\ STUB_TLS_AFTER_HANDSHAKE' = STUB_TLS_AFTER_HANDSHAKE
    BY <1>1 DEF Raw, StageRank, PLAIN_HTTP, STUB_TLS_AFTER_HANDSHAKE
<1>9. k \in {"hdr", "body", "bad", "bye"} => request_queued /\ ~STUB_TLS_AFTER_HANDSHAKE
    BY <1>2, <1>3 DEF ClientInv, UnaskedInv, Raw
<1>10. Bodies(Rest') \in Nat
    BY <1>3, BodiesType
<1>11. WholeInv' /\ UnaskedInv'
    BY <1>1, <1>2, <1>3 DEF ClientInv, WholeInv, UnaskedInv
<1>12. done => done'
    BY DEF TlsRecord, TlsReject
<1>13. Counting' => Counting
    BY <1>1, <1>3, <1>12 DEF Counting
<1>14. peer # "closed" => Rank(k) <= StageRank
    BY <1>2, <1>3 DEF WireInv
<1>c. /\ \/ k = "flight" /\ tls' = "flight_seen" /\ UNCHANGED <<bytes_received, headers_done, pc>>
         \/ k \in {"hdr", "body"} /\ CountBody(<<k>>) /\ UNCHANGED <<tls, pc>>
         \/ /\ k = "bye" /\ tls' = "peer_closed" /\ pc' = "exit"
            /\ UNCHANGED <<bytes_received, headers_done>>
         \/ k = "bad" /\ done' = TRUE /\ UNCHANGED <<tls, bytes_received, headers_done, pc>>
    BY DEF TlsRecord, TlsReject
<1> HIDE DEF k, q
<1>15. CASE k \in {"flight", "bad"}
    <2>1. UNCHANGED <<bytes_received, headers_done, pc>> /\ (tls' = tls \/ tls' = "flight_seen")
          /\ (k = "flight" \/ done')
        BY <1>15, <1>c
    <2>2. HeaderInv'
        BY <1>1, <1>2, <1>3, <1>8, <2>1 DEF ClientInv, HeaderInv, AtLeast
    <2>3. ByeInv'
        BY <1>1, <1>2, <1>3, <1>8, <2>1 DEF ClientInv, ByeInv, AtLeast
    <2>4. AwaitInv'
        BY <1>1, <1>2, <1>3, <1>8, <1>15, <2>1 DEF ClientInv, AwaitInv
    <2>5. PcInv'
        BY <1>1, <1>3, <1>8, <2>1 DEF PcInv
    <2>6. ConserveInv'
        <3>1. CASE k = "bad"
            BY <2>1, <3>1 DEF ConserveInv, Counting
        <3>2. CASE k = "flight"
            <4>1. Bodies(Rest) = Bodies(Rest')
                BY <1>3, <1>5, <1>10, <3>2 DEF InBody
            <4>2. QED BY <1>1, <1>2, <1>8, <1>13, <2>1, <4>1 DEF ConserveInv
        <3>3. QED BY <1>15, <3>1, <3>2
    <2>7. QED BY <1>3, <1>11, <2>2, <2>3, <2>4, <2>5, <2>6 DEF DataInv, ClientInv
<1>16. CASE k = "bye"
    <2>1. UNCHANGED <<bytes_received, headers_done>> /\ pc' = "exit"
        BY <1>16, <1>c
    <2>2. HeaderInv'
        BY <1>1, <1>2, <1>3, <1>8, <2>1 DEF ClientInv, HeaderInv, AtLeast
    <2>3. AtLeast(Rest', 4) /\ (peer # "closed" => StageRank >= 4)
        <3>1. Rank(k) = 4
            BY <1>16, RankValues
        <3>2. peer # "closed" => 4 <= StageRank
            BY <1>14, <3>1
        <3>3. QED BY <1>7, <3>1, <3>2, StageRankType
    <2>4. ByeInv'
        BY <1>1, <1>8, <1>9, <1>16, <2>3 DEF ByeInv
    <2>5. AwaitInv'
        BY <1>1, <1>2, <1>3, <1>8, <1>16, <2>1 DEF ClientInv, AwaitInv
    <2>6. PcInv'
        <3>1. Units(Rest') = Units(incoming') \union Units(wire)
            <4>1. wire \in Seq(Unit)
                BY DEF TypeInv, SeqOK
            <4>2. Units(incoming' \o wire) = Units(incoming') \union Units(wire)
                BY <1>3, <4>1, UnitsConcat
            <4>3. QED BY <1>3, <4>2
        <3>2. \A u \in Units(incoming') : ~InBody(u)
            BY <2>3, <3>1, RankValues DEF AtLeast, InBody
        <3>3. Bodies(incoming') = 0
            BY <1>3, <3>2, BodiesType
        <3>4. QED BY <1>1, <1>3, <2>1, <3>3 DEF PcInv
    <2>7. ConserveInv'
        <3>1. Bodies(Rest) = Bodies(Rest')
            BY <1>3, <1>5, <1>10, <1>16 DEF InBody
        <3>2. QED BY <1>1, <1>2, <1>8, <1>13, <2>1, <3>1 DEF ConserveInv
    <2>8. QED BY <1>3, <1>11, <2>2, <2>4, <2>5, <2>6, <2>7 DEF DataInv, ClientInv
<1>17. CASE k \in {"hdr", "body"}
    <2>1. CountBody(<<k>>) /\ UNCHANGED <<tls, pc>>
        BY <1>17, <1>c
    <2>2. ByeInv'
        BY <1>1, <1>2, <1>3, <1>8, <2>1 DEF ClientInv, ByeInv, AtLeast
    <2>3. PcInv'
        BY <1>1, <1>3, <1>8, <2>1 DEF PcInv
    <2>4. Len(<<k>>) = 1 /\ <<k>>[1] = k /\ \A i \in 1..Len(<<k>>) : i = 1
        OBVIOUS
    <2>5. CASE k = "hdr"
        <3>1. ~headers_done
            BY <1>2, <1>3, <2>5, RankValues DEF ClientInv, HeaderInv, AtLeast
        <3>2. headers_done'
            <4>1. \E i \in 1..Len(<<k>>) : <<k>>[i] = "hdr"
                BY <2>4, <2>5
            <4>2. QED BY <2>1, <4>1 DEF CountBody
        <3>3. BodyIn(<<k>>) = 0
            <4>1. \E i \in 1..Len(<<k>>) : <<k>>[i] = "hdr"
                BY <2>4, <2>5
            <4>2. (CHOOSE i \in 1..Len(<<k>>) : <<k>>[i] = "hdr") = 1
                BY <2>4, <4>1
            <4>3. QED BY <2>4, <3>1, <4>1, <4>2 DEF BodyIn
        <3>4. AtLeast(Rest', 3)
            <4>1. AtLeast(Rest', 2) /\ "hdr" \notin Units(Rest') /\ Units(Rest') \subseteq ServerUnits
                BY <1>3, <1>7, <2>5, RankValues DEF WireInv
            <4>2. ASSUME NEW u \in Units(Rest'), u # "part" PROVE Rank(u) >= 3
                <5>1. Rank(u) >= 2 /\ u \in ServerUnits /\ u # "hdr" /\ Rank(u) \in 0..6
                    BY <4>1, <4>2, RankType DEF AtLeast
                <5>2. Rank(u) # 2
                    BY <5>1, RankTwo
                <5>3. QED BY <5>1, <5>2
            <4>3. QED BY <4>2 DEF AtLeast
        <3>5. HeaderInv'
            <4>1. peer # "closed" => 2 <= StageRank
                BY <1>14, <2>5, RankValues
            <4>2. QED BY <1>1, <1>8, <3>4, <4>1, StageRankType DEF HeaderInv
        <3>6. AwaitInv'
            BY <3>2 DEF AwaitInv
        <3>7. ConserveInv'
            <4>1. Bodies(Rest) = Bodies(Rest')
                BY <1>3, <1>5, <1>10, <2>5 DEF InBody
            <4>2. bytes_received' = bytes_received
                BY <1>s, <2>1, <3>3 DEF CountBody
            <4>3. QED BY <1>1, <1>2, <1>8, <1>13, <4>1, <4>2 DEF ConserveInv
        <3>8. QED BY <1>3, <1>11, <2>2, <2>3, <3>5, <3>6, <3>7 DEF DataInv, ClientInv
    <2>6. CASE k = "body"
        <3>1. headers_done
            <4>1. SUFFICES ASSUME ~headers_done PROVE FALSE
                OBVIOUS
            <4>2. "hdr" \in Units(Rest)
                BY <1>2, <1>3, <2>6, <4>1 DEF ClientInv, AwaitInv, InBody
            <4>3. "hdr" \in Units(Rest')
                BY <1>3, <2>6, <4>2
            <4>4. AtLeast(Rest', 3)
                BY <1>7, <2>6, RankValues
            <4>5. QED BY <4>3, <4>4, RankValues DEF AtLeast
        <3>2. headers_done'
            BY <2>1, <3>1 DEF CountBody
        <3>3. bytes_received' = bytes_received + 1
            BY <2>1, <2>4, <3>1 DEF CountBody, BodyIn
        <3>4. HeaderInv'
            BY <1>1, <1>2, <1>3, <1>8, <3>1 DEF ClientInv, HeaderInv, AtLeast
        <3>5. AwaitInv'
            BY <3>2 DEF AwaitInv
        <3>6. ConserveInv'
            <4>1. Bodies(Rest) = 1 + Bodies(Rest')
                BY <1>3, <1>5, <1>10, <2>6 DEF InBody
            <4>2. SUFFICES ASSUME Counting' PROVE bytes_received' + Bodies(Rest') = sent_body'
                BY <1>8, <1>9, <2>6 DEF ConserveInv
            <4>3. bytes_received + Bodies(Rest) = sent_body
                BY <1>2, <1>9, <1>13, <2>6, <4>2 DEF ConserveInv
            <4>4. QED BY <1>s, <1>1, <1>10, <3>3, <4>1, <4>3
        <3>7. QED BY <1>3, <1>11, <2>2, <2>3, <3>4, <3>5, <3>6 DEF DataInv, ClientInv
    <2>7. QED BY <1>17, <2>5, <2>6
<1>18. QED BY <1>6, <1>15, <1>16, <1>17

\* What sending one more unit, or one more record, does to the stream.
LEMMA Send ==
    ASSUME NEW s \in Seq(Unit), NEW k \in Unit, NEW g, g = <<k>> \/ g = <<"part", k>>,
           Sorted(s), FinLast(s),
           \A u \in Units(s) : Rank(u) <= Rank(k) /\ (u = "hdr" => k # "hdr"),
           "fin" \notin Units(s) \/ g = <<"rst">>
    PROVE  /\ g \in Seq(Unit) /\ s \o g \in Seq(Unit) /\ Sorted(s \o g) /\ FinLast(s \o g)
           /\ Units(s \o g) = Units(s) \union Units(g) /\ k \in Units(g)
           /\ Units(g) \subseteq {"part", k} /\ (g = <<k>> => Units(g) = {k})
           /\ Bodies(s \o g) = Bodies(s) + (IF InBody(k) THEN 1 ELSE 0) /\ Bodies(s) \in Nat
           /\ Adjacent(s) /\ (g = <<k>> => k \notin {"flight", "hdr", "body", "bye", "bad"})
                 => Adjacent(s \o g)
<1>1. /\ g \in Seq(Unit) /\ Sorted(g) /\ FinLast(g)
      /\ Bodies(g) = IF InBody(k) THEN 1 ELSE 0
      /\ g = <<k>> => Units(g) = {k}
      /\ g = <<"part", k>> => Units(g) = {"part", k}
      /\ (g = <<k>> => k \notin {"flight", "hdr", "body", "bye", "bad"}) => Adjacent(g)
    BY OneUnit, TwoUnits
<1>2. Units(g) \subseteq {"part", k} /\ k \in Units(g)
    BY <1>1
<1>3. Sorted(s \o g)
    BY <1>1, <1>2, GrowKeeps
<1>4. FinLast(s \o g)
    <2>1. "fin" \notin Units(s) \/ Units(g) \subseteq {"rst"}
        <3>1. Units(<<"rst">>) = {"rst"}
            BY OneUnit DEF Unit
        <3>2. QED BY <3>1
    <2>2. QED BY <1>1, <2>1, GrowFin
<1>5. s \o g \in Seq(Unit) /\ Units(s \o g) = Units(s) \union Units(g)
    BY <1>1, ConcatProperties, UnitsConcat
<1>6. Bodies(s \o g) = Bodies(s) + Bodies(g) /\ Bodies(s) \in Nat
    BY <1>1, BodiesConcat, BodiesType
<1>7. Adjacent(s) /\ Adjacent(g) => Adjacent(s \o g)
    BY <1>1, AdjacentConcat
<1>8. QED BY <1>1, <1>2, <1>3, <1>4, <1>5, <1>6, <1>7

\* The server, having accepted, sends the next thing it has to send.
LEMMA DataServe ==
    ASSUME TypeInv, DataInv, tcp # "Closed", Peer, peer = "open", peer' = "open",
           NEW k \in {"flight", "hdr", "body", "bye", "bad", "fin"},
           NEW g, g = <<k>> \/ g = <<"part", k>>, wire' = wire \o g,
           PLAIN_HTTP => g = <<k>> /\ k \in {"hdr", "body", "fin"},
           ~PLAIN_HTTP /\ k # "fin" => g = <<"part", k>>,
           stage # "end", StageRank <= Rank(k), k = "hdr" => StageRank = 1,
           Rank(k) <= StageRank', stage' = "body" => k = "hdr" \/ stage = "body",
           InBody(k) => stage = "body",
           sent_body' = sent_body + (IF InBody(k) THEN 1 ELSE 0),
           ~request_queued => k \in {"flight", "fin"} /\ stage' \in {"flight", "header", "end"}
    PROVE  DataInv'
<1>0. WireInv /\ ClientInv /\ PcInv /\ ConserveInv
    BY DEF DataInv
<1>s. /\ incoming \in Seq(Unit) /\ rx \in Seq(Unit) /\ wire \in Seq(Unit)
      /\ sent_body \in Nat /\ bytes_received \in Nat
      /\ stage \in {"flight", "header", "body", "bye", "fin", "end"}
    BY DEF TypeInv, TypeOK, SeqOK
<1>1. UNCHANGED <<build, tcp, rx, incoming, request_queued, bytes_received, done, headers_done,
                  tls, pc>>
    BY PeerFrame DEF sockvars, connvars, workvars
<1>2. Front \in Seq(Unit) /\ Rest \in Seq(Unit) /\ Front' = Front
    BY <1>s, <1>1, Parts DEF Front, Rest
<1>3. k \in Unit /\ g \in Seq(Unit)
    <2>1. k \in Unit
        BY DEF Unit
    <2>2. QED BY <2>1, OneUnit, TwoUnits
<1>4. Rest' = Rest \o g
    <2>0. Front \in Seq(Unit) /\ wire \in Seq(Unit) /\ g \in Seq(Unit)
        BY <1>s, <1>2, <1>3
    <2>1. (Front \o wire) \o g = Front \o (wire \o g)
        BY ONLY <2>0, Assoc, ZenonT(60)
    <2>2. QED BY <1>2, <2>1 DEF Rest
<1>5. StageRank <= 4 /\ StageRank \in 0..5 /\ StageRank' \in 0..5 /\ Rank(k) \in 0..6
    BY <1>s, StageRankType, RankType DEF StageRank
<1>6. \A u \in Units(Rest) : Rank(u) <= StageRank /\ Rank(u) \in 0..6
    BY <1>0, RankType DEF WireInv
<1>7. "fin" \notin Units(Rest) /\ (k = "hdr" => "hdr" \notin Units(Rest))
    BY <1>5, <1>6, RankValues
<1>8. \A u \in Units(Rest) : Rank(u) <= Rank(k) /\ (u = "hdr" => k # "hdr")
    BY <1>5, <1>6, <1>7
<1>9. Sorted(Rest) /\ FinLast(Rest) /\ Units(Rest) \subseteq ServerUnits
    BY <1>0 DEF WireInv
<1>10. /\ Sorted(Rest') /\ FinLast(Rest') /\ Units(Rest') = Units(Rest) \union Units(g)
       /\ k \in Units(g) /\ Units(g) \subseteq {"part", k} /\ (g = <<k>> => Units(g) = {k})
       /\ Bodies(Rest') = Bodies(Rest) + (IF InBody(k) THEN 1 ELSE 0) /\ Bodies(Rest) \in Nat
       /\ Adjacent(Rest) /\ (g = <<k>> => k \notin {"flight", "hdr", "body", "bye", "bad"})
             => Adjacent(Rest')
    BY <1>2, <1>3, <1>4, <1>7, <1>8, <1>9, Send
<1>11. PLAIN_HTTP' = PLAIN_HTTP /\ Raw' = Raw
       /\ STUB_TLS_AFTER_HANDSHAKE' = STUB_TLS_AFTER_HANDSHAKE
    BY <1>1 DEF PLAIN_HTTP, Raw, STUB_TLS_AFTER_HANDSHAKE
<1>12. WireInv'
    <2>1. Units(Rest') \subseteq ServerUnits
        BY <1>9, <1>10 DEF ServerUnits
    <2>2. Units(Front') \cap {"synack", "fin", "rst"} = {}
        BY <1>0, <1>2 DEF WireInv
    <2>3. PLAIN_HTTP' => Units(Rest') \subseteq {"synack", "hdr", "body", "fin", "rst"}
        BY <1>0, <1>10, <1>11 DEF WireInv
    <2>4. \A u \in Units(Rest') : Rank(u) <= StageRank'
        BY <1>5, <1>6, <1>10, RankValues
    <2>5. tcp' # "CloseWait"
        BY <1>0, <1>1 DEF WireInv
    <2>6. QED BY <1>10, <2>1, <2>2, <2>3, <2>4, <2>5 DEF WireInv
<1>13. HeaderInv'
    <2>1. SUFFICES ASSUME headers_done PROVE AtLeast(Rest', 3) /\ StageRank' >= 3
        BY <1>1 DEF HeaderInv
    <2>2. AtLeast(Rest, 3) /\ StageRank >= 3
        BY <1>0, <2>1 DEF ClientInv, HeaderInv
    <2>3. QED BY <1>5, <1>10, <2>2 DEF AtLeast
<1>14. ByeInv'
    <2>1. SUFFICES ASSUME tls = "peer_closed"
                   PROVE AtLeast(Rest', 4) /\ StageRank' >= 4 /\ request_queued
        BY <1>1 DEF ByeInv
    <2>2. AtLeast(Rest, 4) /\ StageRank >= 4 /\ request_queued
        BY <1>0, <2>1 DEF ClientInv, ByeInv
    <2>3. QED BY <1>5, <1>10, <2>2 DEF AtLeast
<1>15. AwaitInv'
    <2>1. SUFFICES ASSUME ~headers_done, ~Raw,
                          (\E u \in Units(Rest') : InBody(u)) \/ stage' = "body"
                   PROVE "hdr" \in Units(Rest')
        BY <1>1, <1>11 DEF AwaitInv
    <2>2. CASE k = "hdr"
        BY <1>10, <2>2
    <2>3. CASE stage = "body"
        BY <1>0, <1>10, <2>1, <2>3 DEF ClientInv, AwaitInv
    <2>4. CASE k # "hdr" /\ stage # "body"
        <3>1. ~InBody(k) /\ stage' # "body"
            BY <2>4
        <3>2. \E u \in Units(Rest) : InBody(u)
            BY <1>10, <2>1, <3>1 DEF InBody
        <3>3. QED BY <1>0, <1>10, <2>1, <3>2 DEF ClientInv, AwaitInv
    <2>5. QED BY <2>2, <2>3, <2>4
<1>16. UnaskedInv'
    BY <1>0, <1>1, <1>10 DEF ClientInv, UnaskedInv
<1>17. WholeInv'
    BY <1>0, <1>10, <1>11 DEF ClientInv, WholeInv
<1>18. PcInv'
    BY <1>0, <1>1, <1>11 DEF PcInv
<1>19. ConserveInv'
    <2>1. Counting' => Counting
        BY <1>1 DEF Counting
    <2>2. CASE InBody(k)
        BY <1>s, <1>0, <1>1, <1>10, <1>11, <2>1, <2>2 DEF ConserveInv
    <2>3. CASE ~InBody(k)
        BY <1>s, <1>0, <1>1, <1>10, <1>11, <2>1, <2>3 DEF ConserveInv
    <2>4. QED BY <2>2, <2>3
<1>20. QED BY <1>12, <1>13, <1>14, <1>15, <1>16, <1>17, <1>18, <1>19 DEF DataInv, ClientInv

\* A server that has not accepted has not begun to answer; one that speaks
\* plain HTTP has neither a flight nor a close_notify to send.
StageInv ==
    /\ peer = "listen" => stage \in {"flight", "header"}
    /\ PLAIN_HTTP => stage \notin {"flight", "bye"}

LEMMA StageInit == Init => StageInv
BY DEF Init, StageInv

LEMMA StageStep == StageInv /\ [Next]_vars => StageInv'
<1> SUFFICES ASSUME StageInv, [Next]_vars PROVE StageInv'
    OBVIOUS
<1>1. CASE Peer
    <2>1. build' = build
        BY <1>1 DEF Peer, PeerAccept, PeerServe, PeerRefuse, PeerReset, PeerEarlyFin,
                    PeerBadRecord, PeerRest
    <2>2. CASE PeerServe
        <3>1. peer' # "listen"
            BY <2>2 DEF PeerServe
        <3>2. PLAIN_HTTP => stage' \notin {"flight", "bye"}
            BY <2>2 DEF PeerServe, StageInv
        <3>3. QED BY <2>1, <3>1, <3>2 DEF StageInv, PLAIN_HTTP
    <2>3. CASE ~PeerServe
        BY <1>1, <2>1, <2>3 DEF StageInv, Peer, PeerAccept, PeerRefuse, PeerReset, PeerEarlyFin,
                    PeerBadRecord, PLAIN_HTTP
    <2>4. QED BY <2>2, <2>3
<1>2. CASE Egress
    BY <1>2 DEF StageInv, Egress, peervars, PLAIN_HTTP
<1>3. CASE UNCHANGED <<build, peervars>>
    BY <1>3 DEF StageInv, peervars, PLAIN_HTTP
<1>4. CASE ~Peer /\ ~Egress
    BY <1>3, <1>4 DEF Next, Ingress, EndPoll, Tick, ConnStep, StepDone, StepSynTimeout, StepSend,
        StepRecv, StepCount, TlsLoop, TlsEncode, TlsTransmit, TlsRecord, TlsReject, TlsBlocked,
        TlsWriteTraffic, TlsFrame, StepExit, vars
<1>5. QED BY <1>1, <1>2, <1>4

\* The server answers the SYN, one way or the other.
LEMMA DataKnock ==
    ASSUME TypeInv, UnansweredInv, StageInv, DataInv, tcp # "Closed", PeerAccept \/ PeerRefuse
    PROVE  DataInv'
<1> DEFINE k == IF PeerAccept THEN "synack" ELSE "rst"
<1>0. WireInv /\ ClientInv /\ PcInv /\ ConserveInv
    BY DEF DataInv
<1>1. UNCHANGED <<build, tcp, rx, incoming, request_queued, bytes_received, done, headers_done,
                  tls, pc>>
    BY PeerFrame DEF Peer, sockvars, connvars, workvars
<1>2. /\ k \in {"synack", "rst"} /\ peer = "listen" /\ wire' = wire \o <<k>>
      /\ peer' \in {"open", "closed"} /\ (k = "rst" => peer' = "closed")
      /\ UNCHANGED <<stage, sent_body>>
    BY DEF PeerAccept, PeerRefuse, PeerSend
<1> HIDE DEF k
<1>3. wire = <<>> /\ tcp = "SynSent" /\ rx = <<>> /\ incoming = <<>> /\ bytes_received = 0
    BY <1>0, <1>2 DEF WireInv, UnansweredInv
<1>4. k \in Unit /\ <<k>> \in Seq(Unit)
    <2>1. k \in Unit
        BY <1>2 DEF Unit
    <2>2. QED BY <2>1
<1>5. <<>> \in Seq(Unit) /\ <<>> \o <<>> = <<>> /\ <<>> \o <<k>> = <<k>> /\ Len(<<>>) = 0
    BY <1>4, EmptySeq, ConcatEmptySeq
<1>6. Front = <<>> /\ Rest = <<>> /\ Front' = <<>> /\ Rest' = <<k>>
    BY <1>1, <1>2, <1>3, <1>5 DEF Front, Rest
<1>7. Units(<<>>) = {} /\ Bodies(<<>>) = 0
    <2>1. Units(<<>>) = {}
        BY <1>5 DEF Units
    <2>2. QED BY <1>5, <2>1, BodiesType
<1>8. /\ Units(Rest') = {k} /\ Sorted(Rest') /\ FinLast(Rest') /\ Adjacent(Rest')
      /\ Bodies(Rest') = 0
    BY <1>2, <1>4, <1>6, OneUnit DEF InBody
<1>9. ~headers_done /\ tls # "peer_closed" /\ stage # "body"
    <2>1. StageRank \in {0, 1} /\ stage # "body"
        BY <1>2 DEF StageInv, StageRank
    <2>2. QED BY <1>0, <1>2, <2>1 DEF ClientInv, HeaderInv, ByeInv
<1>10. PLAIN_HTTP' = PLAIN_HTTP /\ StageRank' = StageRank
    BY <1>1, <1>2 DEF PLAIN_HTTP, StageRank
<1>11. StageRank \in 0..5
    BY StageRankType
<1>12. WireInv'
    <2>1. Units(Front') \cap {"synack", "fin", "rst"} = {}
        BY <1>6, <1>7
    <2>2. Units(Rest') \subseteq ServerUnits
        BY <1>2, <1>8 DEF ServerUnits
    <2>3. peer' # "closed" => \A u \in Units(Rest') : Rank(u) <= StageRank'
        BY <1>2, <1>8, <1>10, <1>11, RankValues
    <2>4. PLAIN_HTTP' => Units(Rest') \subseteq {"synack", "hdr", "body", "fin", "rst"}
        BY <1>2, <1>8
    <2>5. QED BY <1>1, <1>2, <1>3, <1>8, <2>1, <2>2, <2>3, <2>4 DEF WireInv
<1>13. PcInv'
    BY <1>0, <1>1 DEF PcInv, PLAIN_HTTP, Raw, STUB_TLS_AFTER_HANDSHAKE
<1>14. HeaderInv' /\ ByeInv'
    BY <1>1, <1>9 DEF HeaderInv, ByeInv
<1>15. AwaitInv'
    BY <1>2, <1>8, <1>9 DEF AwaitInv, InBody
<1>16. UnaskedInv'
    BY <1>0, <1>1, <1>2, <1>8 DEF ClientInv, UnaskedInv
<1>17. WholeInv'
    BY <1>8 DEF WholeInv
<1>18. ConserveInv'
    <2>1. Counting' => Counting
        BY <1>1, <1>2 DEF Counting
    <2>2. Bodies(Rest) = 0 /\ Bodies(Rest') = 0
        BY <1>6, <1>7, <1>8
    <2>3. QED BY <1>0, <1>1, <1>2, <2>1, <2>2 DEF ConserveInv, STUB_TLS_AFTER_HANDSHAKE
<1>19. QED BY <1>12, <1>13, <1>14, <1>15, <1>16, <1>17, <1>18 DEF DataInv, ClientInv

\* A reset: what has not been delivered may be lost.
LEMMA DataReset ==
    ASSUME TypeInv, DataInv, tcp # "Closed", PeerReset PROVE DataInv'
<1>0. WireInv /\ ClientInv /\ PcInv /\ ConserveInv
    BY DEF DataInv
<1>s. incoming \in Seq(Unit) /\ rx \in Seq(Unit) /\ wire \in Seq(Unit)
    BY DEF TypeInv, SeqOK
<1>1. UNCHANGED <<build, tcp, rx, incoming, request_queued, bytes_received, done, headers_done,
                  tls, pc>>
    BY PeerFrame DEF Peer, sockvars, connvars, workvars
<1>2. /\ peer = "open" /\ peer' = "closed" /\ UNCHANGED <<stage, sent_body>>
      /\ \E n \in 0..Len(wire) : wire' = SubSeq(wire, 1, n) \o <<"rst">>
    BY DEF PeerReset
<1>3. PICK n \in 0..Len(wire) : wire' = SubSeq(wire, 1, n) \o <<"rst">>
    BY <1>2
<1> DEFINE a == SubSeq(wire, 1, n)
           b == SubSeq(wire, n + 1, Len(wire))
           p == Front \o a
<1>4. a \in Seq(Unit) /\ b \in Seq(Unit) /\ wire = a \o b /\ wire' = a \o <<"rst">>
    BY <1>s, <1>3, SplitAt
<1>5. "rst" \in Unit /\ <<"rst">> \in Seq(Unit)
    BY DEF Unit
<1> HIDE DEF a, b
<1>6. Front \in Seq(Unit) /\ Front' = Front /\ p \in Seq(Unit)
    <2>1. Front \in Seq(Unit) /\ Front' = Front
        BY <1>s, <1>1, ConcatProperties DEF Front
    <2>2. QED BY <1>4, <2>1, ConcatProperties
<1>7. Rest = p \o b
    BY <1>4, <1>6, Assoc DEF Rest
<1>8. Rest' = p \o <<"rst">>
    BY <1>4, <1>5, <1>6, Assoc DEF Rest
<1> HIDE DEF p
<1>9. Sorted(Rest) /\ FinLast(Rest) /\ Units(Rest) \subseteq ServerUnits
    BY <1>0 DEF WireInv
<1>10. Sorted(p) /\ FinLast(p) /\ Units(Rest) = Units(p) \union Units(b)
    <2>1. <<>> \in Seq(Unit) /\ p \o <<>> = p /\ (p \o b) \o <<>> = p \o b
        <3>1. p \o b \in Seq(Unit)
            BY <1>4, <1>6, ConcatProperties
        <3>2. QED BY <1>6, <3>1, EmptySeq, ConcatEmptySeq
    <2>2. /\ Sorted((p \o b) \o <<>>) => Sorted(p \o <<>>)
          /\ FinLast((p \o b) \o <<>>) => FinLast(p \o <<>>)
        BY <1>4, <1>6, <2>1, SubKeeps
    <2>3. Units(p \o b) = Units(p) \union Units(b)
        BY <1>4, <1>6, UnitsConcat
    <2>4. QED BY <1>7, <1>9, <2>1, <2>2, <2>3
<1>11. \A u \in Units(p) : Rank(u) <= Rank("rst") /\ (u = "hdr" => "rst" # "hdr")
    BY RankType, RankValues
<1>12. /\ Sorted(Rest') /\ FinLast(Rest') /\ Units(Rest') = Units(p) \union Units(<<"rst">>)
       /\ Units(<<"rst">>) = {"rst"}
       /\ Bodies(Rest') = Bodies(p) + (IF InBody("rst") THEN 1 ELSE 0) /\ Bodies(p) \in Nat
       /\ Adjacent(p) => Adjacent(Rest')
    <2>1. p \in Seq(Unit) /\ "rst" \in Unit
        BY <1>6 DEF Unit
    <2>2. /\ Sorted(p \o <<"rst">>) /\ FinLast(p \o <<"rst">>)
          /\ Units(p \o <<"rst">>) = Units(p) \union Units(<<"rst">>)
          /\ Units(<<"rst">>) = {"rst"}
          /\ Bodies(p \o <<"rst">>) = Bodies(p) + (IF InBody("rst") THEN 1 ELSE 0)
          /\ Bodies(p) \in Nat
          /\ Adjacent(p) => Adjacent(p \o <<"rst">>)
        BY ONLY <1>10, <1>11, <2>1, Send
    <2>3. QED BY <1>8, <2>2
<1>13. Units(Rest') = Units(p) \union {"rst"} /\ Bodies(Rest') = Bodies(p) /\ Bodies(p) \in Nat
    <2>1. ~InBody("rst")
        BY DEF InBody
    <2>2. QED BY <1>12, <2>1
<1>14. PLAIN_HTTP' = PLAIN_HTTP /\ Raw' = Raw
       /\ STUB_TLS_AFTER_HANDSHAKE' = STUB_TLS_AFTER_HANDSHAKE
    BY <1>1 DEF PLAIN_HTTP, Raw, STUB_TLS_AFTER_HANDSHAKE
<1>15. WireInv'
    <2>1. Units(Rest') \subseteq ServerUnits
        BY <1>9, <1>10, <1>13 DEF ServerUnits
    <2>2. Units(Front') \cap {"synack", "fin", "rst"} = {}
        BY <1>0, <1>6 DEF WireInv
    <2>3. PLAIN_HTTP' => Units(Rest') \subseteq {"synack", "hdr", "body", "fin", "rst"}
        BY <1>0, <1>10, <1>13, <1>14 DEF WireInv
    <2>4. tcp' = "CloseWait" => Units(wire') \subseteq {"rst"}
        <3>1. Units(wire') = Units(a) \union Units(<<"rst">>)
            BY <1>4, <1>5, UnitsConcat
        <3>2. Units(wire) = Units(a) \union Units(b)
            BY <1>4, UnitsConcat
        <3>3. QED BY <1>0, <1>1, <1>12, <3>1, <3>2 DEF WireInv
    <2>5. QED BY <1>2, <1>12, <2>1, <2>2, <2>3, <2>4 DEF WireInv
<1>16. HeaderInv' /\ ByeInv'
    <2>1. \A m \in {3, 4} : AtLeast(Rest, m) => AtLeast(Rest', m)
        BY <1>10, <1>13, RankValues DEF AtLeast
    <2>2. QED BY <1>0, <1>1, <1>2, <2>1 DEF ClientInv, HeaderInv, ByeInv
<1>17. AwaitInv'
    <2>1. SUFFICES ASSUME ~headers_done, ~Raw, NEW u \in Units(Rest'), InBody(u)
                   PROVE "hdr" \in Units(Rest')
        BY <1>1, <1>2, <1>14 DEF AwaitInv
    <2>2. u \in Units(p) /\ Rank(u) = 3
        BY <1>13, <2>1, RankValues DEF InBody
    <2>3. "hdr" \in Units(Rest)
        BY <1>0, <1>10, <2>1, <2>2 DEF ClientInv, AwaitInv
    <2>4. PICK i \in 1..Len(p) : p[i] = u
        BY <2>2 DEF Units
    <2>5. PICK j \in 1..Len(Rest) : Rest[j] = "hdr"
        BY <2>3 DEF Units
    <2>6. /\ Len(p) \in Nat /\ Len(b) \in Nat /\ Len(Rest) = Len(p) + Len(b)
          /\ \A x \in 1..Len(p) + Len(b) : Rest[x] = IF x <= Len(p) THEN p[x] ELSE b[x - Len(p)]
        BY <1>4, <1>6, <1>7, LenProperties, ConcatProperties
    <2>7. i \in 1..Len(Rest) /\ Rest[i] = u
        BY <2>4, <2>6
    <2>8. ~(i < j)
        <3>1. i < j => Rank(Rest[i]) <= Rank(Rest[j])
            BY <1>9, <2>5, <2>7 DEF Sorted
        <3>2. QED BY <2>2, <2>5, <2>7, <3>1, RankValues
    <2>9. j \in 1..Len(p) /\ p[j] = "hdr"
        BY <2>4, <2>5, <2>6, <2>8
    <2>10. "hdr" \in Units(p)
        BY <1>6, <2>9, UnitsOf
    <2>11. QED BY <1>13, <2>10
<1>18. UnaskedInv'
    BY <1>0, <1>1, <1>2, <1>10, <1>13 DEF ClientInv, UnaskedInv
<1>19. WholeInv'
    <2>1. Adjacent(Rest) => Adjacent(p)
        BY <1>4, <1>6, <1>7, AdjacentConcat
    <2>2. QED BY <1>0, <1>12, <1>14, <2>1 DEF ClientInv, WholeInv
<1>20. PcInv'
    BY <1>0, <1>1, <1>14 DEF PcInv
<1>21. ConserveInv'
    <2>1. SUFFICES ASSUME Counting' PROVE Counting /\ Bodies(Rest') = Bodies(Rest)
        BY <1>0, <1>1, <1>2, <1>14 DEF ConserveInv
    <2>2. Counting
        BY <1>1, <1>2, <2>1 DEF Counting
    <2>3. tcp = "CloseWait" \/ "fin" \in Units(p)
        BY <1>1, <1>2, <1>13, <2>1 DEF Counting
    <2>4. Units(b) \subseteq {"rst"}
        <3>1. CASE tcp = "CloseWait"
            <4>1. Units(wire) = Units(a) \union Units(b)
                BY <1>4, UnitsConcat
            <4>2. QED BY <1>0, <3>1, <4>1 DEF WireInv
        <3>2. CASE "fin" \in Units(p)
            <4>1. PICK i \in 1..Len(p) : p[i] = "fin"
                BY <3>2 DEF Units
            <4>2. /\ Len(p) \in Nat /\ Len(b) \in Nat /\ Len(Rest) = Len(p) + Len(b)
                  /\ \A x \in 1..Len(p) + Len(b) :
                        Rest[x] = IF x <= Len(p) THEN p[x] ELSE b[x - Len(p)]
                BY <1>4, <1>6, <1>7, LenProperties, ConcatProperties
            <4>3. ASSUME NEW j \in 1..Len(b) PROVE b[j] = "rst"
                <5>1. /\ j + Len(p) \in 1..Len(Rest) /\ i \in 1..Len(Rest) /\ i < j + Len(p)
                      /\ Rest[i] = p[i] /\ Rest[j + Len(p)] = b[(j + Len(p)) - Len(p)]
                      /\ (j + Len(p)) - Len(p) = j
                    BY <4>1, <4>2
                <5>2. QED BY <1>9, <4>1, <5>1 DEF FinLast
            <4>4. QED BY <4>3 DEF Units
        <3>3. QED BY <2>3, <3>1, <3>2
    <2>5. Bodies(b) = 0
        <3>1. \A u \in Units(b) : ~InBody(u)
            BY <2>4 DEF InBody
        <3>2. QED BY <1>4, <3>1, BodiesType
    <2>6. Bodies(Rest) = Bodies(p) + Bodies(b)
        BY <1>4, <1>6, <1>7, BodiesConcat
    <2>7. QED BY <1>13, <2>2, <2>5, <2>6
<1>22. QED BY <1>15, <1>16, <1>17, <1>18, <1>19, <1>20, <1>21 DEF DataInv, ClientInv

\* The header is sent only in answer to a request.
LEMMA SeenIsQueued ==
    ASSUME TypeInv, SessionInv, StreamInv, RequestSeen PROVE request_queued
<1> SUFFICES ASSUME ~request_queued PROVE FALSE
    BY DEF TypeInv, TypeOK
<1>1. got \in Seq(Unit) /\ tx \in Seq(Unit) /\ Queued \in Seq(Unit)
    BY QueuedType DEF TypeInv, SeqOK
<1>2. /\ Len(got) \in Nat /\ Len(tx) \in Nat /\ Len(Queued) \in Nat
      /\ Len(ClientStream) = (Len(got) + Len(tx)) + Len(Queued)
    <2>1. got \o tx \in Seq(Unit) /\ Len(got \o tx) = Len(got) + Len(tx)
        BY <1>1, ConcatProperties
    <2>2. Len((got \o tx) \o Queued) = Len(got \o tx) + Len(Queued)
        BY <1>1, <2>1, ConcatProperties
    <2>3. QED BY <1>1, <2>1, <2>2, LenProperties DEF ClientStream
<1>3. ClientStream = Flights /\ Len(Flights) <= Len(Handshake)
    BY FlightsType DEF StreamInv, TypeInv
<1>4. Len(Handshake) \in Nat /\ ReqLen \in Nat /\ ReqLen > 0
    BY HandshakeType, LenProperties, SizeAssumption
<1>5. QED BY <1>2, <1>3, <1>4 DEF RequestSeen

LEMMA DataPeer ==
    ASSUME TypeInv, SessionInv, StreamInv, UnansweredInv, StageInv, DataInv, Peer
    PROVE  DataInv'
<1>1. tcp' = tcp /\ tls' = tls
    BY PeerFrame DEF sockvars, connvars
<1> SUFFICES ASSUME tcp # "Closed" PROVE DataInv'
    BY <1>1 DEF DataInv
<1>0. WireInv /\ ClientInv /\ PcInv /\ ConserveInv
    BY DEF DataInv
<1>s. stage \in {"flight", "header", "body", "bye", "fin", "end"} /\ sent_body \in Nat
    BY DEF TypeInv, TypeOK
<1>2. CASE PeerAccept \/ PeerRefuse
    BY <1>2, DataKnock
<1>3. CASE PeerReset
    BY <1>3, DataReset
<1>4. CASE PeerEarlyFin
    <2>1. /\ peer = "open" /\ peer' = "open" /\ stage # "end" /\ stage' = "end"
          /\ sent_body' = sent_body
          /\ \/ wire' = wire \o <<"fin">>
             \/ ~PLAIN_HTTP /\ wire' = wire \o <<"part", "fin">>
        BY <1>4 DEF PeerEarlyFin, PeerSend
    <2>2. StageRank <= Rank("fin") /\ Rank("fin") <= StageRank'
        BY <1>s, <2>1, StageRankType, RankValues DEF StageRank
    <2>3. ~InBody("fin") /\ sent_body' = sent_body + (IF InBody("fin") THEN 1 ELSE 0)
        BY <1>s, <2>1 DEF InBody
    <2>4. CASE wire' = wire \o <<"fin">>
        BY <2>1, <2>2, <2>3, <2>4, DataServe
    <2>5. CASE ~PLAIN_HTTP /\ wire' = wire \o <<"part", "fin">>
        BY <2>1, <2>2, <2>3, <2>5, DataServe
    <2>6. QED BY <2>1, <2>4, <2>5
<1>5. CASE PeerBadRecord
    <2>1. /\ peer = "open" /\ peer' = "open" /\ stage = "body" /\ stage' = "body" /\ ~PLAIN_HTTP
          /\ sent_body' = sent_body + 1 /\ wire' = wire \o <<"part", "bad">>
        BY <1>5 DEF PeerBadRecord, PeerSend, Record
    <2>2. StageRank <= Rank("bad") /\ Rank("bad") <= StageRank'
        BY <2>1, RankValues DEF StageRank
    <2>3. InBody("bad") /\ request_queued
        BY <1>0, <2>1 DEF InBody, ClientInv, UnaskedInv
    <2>4. QED BY <2>1, <2>2, <2>3, DataServe
<1>6. CASE PeerServe
    <2>1. peer = "open" /\ peer' = "open"
        BY <1>6 DEF PeerServe
    <2>2. stage = "body" => request_queued
        BY <1>0 DEF ClientInv, UnaskedInv
    <2>3. CASE /\ stage = "flight" /\ stage' = "header" /\ sent_body' = sent_body
               /\ wire' = wire \o Record("flight")
        <3>1. ~PLAIN_HTTP /\ Record("flight") = <<"part", "flight">>
            BY <2>3 DEF StageInv, Record
        <3>2. StageRank = 0 /\ Rank("flight") = 1 /\ StageRank' = 1
            BY <2>3, RankValues DEF StageRank
        <3>3. ~InBody("flight") /\ sent_body' = sent_body + (IF InBody("flight") THEN 1 ELSE 0)
            BY <1>s, <2>3 DEF InBody
        <3>4. QED BY <2>1, <2>3, <3>1, <3>2, <3>3, DataServe
    <2>4. CASE /\ stage = "header" /\ stage' = "body" /\ sent_body' = sent_body /\ RequestSeen
               /\ wire' = wire \o Record("hdr")
        <3>1. StageRank = 1 /\ Rank("hdr") = 2 /\ StageRank' = 3 /\ request_queued
            BY <2>4, RankValues, SeenIsQueued DEF StageRank
        <3>2. ~InBody("hdr") /\ sent_body' = sent_body + (IF InBody("hdr") THEN 1 ELSE 0)
            BY <1>s, <2>4 DEF InBody
        <3>3. Record("hdr") = IF PLAIN_HTTP THEN <<"hdr">> ELSE <<"part", "hdr">>
            BY DEF Record
        <3>4. QED BY <2>1, <2>4, <3>1, <3>2, <3>3, DataServe
    <2>5. CASE /\ stage = "body" /\ stage' = "body" /\ sent_body' = sent_body + 1
               /\ wire' = wire \o Record("body")
        <3>1. StageRank = 3 /\ Rank("body") = 3 /\ StageRank' = 3
            BY <2>5, RankValues DEF StageRank
        <3>2. InBody("body")
            BY DEF InBody
        <3>3. Record("body") = IF PLAIN_HTTP THEN <<"body">> ELSE <<"part", "body">>
            BY DEF Record
        <3>4. QED BY <2>1, <2>2, <2>5, <3>1, <3>2, <3>3, DataServe
    <2>6. CASE /\ stage = "body" /\ stage' \in {"fin", "bye"} /\ UNCHANGED <<wire, sent_body>>
        <3>1. UNCHANGED <<build, tcp, rx, incoming, request_queued, bytes_received, done,
                          headers_done, tls, pc>>
            BY PeerFrame DEF sockvars, connvars, workvars
        <3>2. Front' = Front /\ Rest' = Rest
            BY <2>6, <3>1 DEF Front, Rest
        <3>3. StageRank = 3 /\ StageRank' >= 3 /\ StageRank' \in 0..5
            BY <2>6 DEF StageRank
        <3>4. PLAIN_HTTP' = PLAIN_HTTP /\ Raw' = Raw
              /\ STUB_TLS_AFTER_HANDSHAKE' = STUB_TLS_AFTER_HANDSHAKE
            BY <3>1 DEF PLAIN_HTTP, Raw, STUB_TLS_AFTER_HANDSHAKE
        <3>5. WireInv'
            <4>1. \A u \in Units(Rest') : Rank(u) <= StageRank'
                BY <1>0, <2>1, <3>2, <3>3, RankType DEF WireInv
            <4>2. /\ Sorted(Rest') /\ FinLast(Rest') /\ Units(Rest') \subseteq ServerUnits
                  /\ Units(Front') \cap {"synack", "fin", "rst"} = {}
                BY <1>0, <3>2 DEF WireInv
            <4>3. PLAIN_HTTP' => Units(Rest') \subseteq {"synack", "hdr", "body", "fin", "rst"}
                BY <1>0, <3>2, <3>4 DEF WireInv
            <4>4. tcp' # "CloseWait"
                BY <1>0, <2>1, <2>6, <3>1 DEF WireInv
            <4>5. QED BY <2>1, <4>1, <4>2, <4>3, <4>4 DEF WireInv
        <3>6. HeaderInv' /\ ByeInv'
            <4>1. tls # "peer_closed"
                BY <1>0, <2>1, <3>3 DEF ClientInv, ByeInv
            <4>2. QED BY <1>0, <3>1, <3>2, <3>3, <4>1 DEF ClientInv, HeaderInv, ByeInv, AtLeast
        <3>7. AwaitInv' /\ UnaskedInv' /\ WholeInv'
            <4>1. AwaitInv'
                BY <1>0, <2>6, <3>1, <3>2, <3>4 DEF ClientInv, AwaitInv
            <4>2. UnaskedInv'
                BY <2>2, <2>6, <3>1 DEF UnaskedInv
            <4>3. WholeInv'
                BY <1>0, <3>2, <3>4 DEF ClientInv, WholeInv
            <4>4. QED BY <4>1, <4>2, <4>3
        <3>8. PcInv'
            BY <1>0, <3>1, <3>4 DEF PcInv
        <3>9. ConserveInv'
            <4>1. Counting' => Counting
                BY <2>1, <3>1 DEF Counting
            <4>2. QED BY <1>0, <2>6, <3>1, <3>2, <3>4, <4>1 DEF ConserveInv
        <3>10. QED BY <3>5, <3>6, <3>7, <3>8, <3>9 DEF DataInv, ClientInv
    <2>7. CASE /\ stage = "bye" /\ stage' = "fin" /\ sent_body' = sent_body
               /\ wire' = wire \o Record("bye")
        <3>1. ~PLAIN_HTTP /\ Record("bye") = <<"part", "bye">> /\ request_queued
            BY <1>0, <2>7 DEF StageInv, Record, ClientInv, UnaskedInv
        <3>2. StageRank = 3 /\ Rank("bye") = 4 /\ StageRank' = 4
            BY <2>7, RankValues DEF StageRank
        <3>3. ~InBody("bye") /\ sent_body' = sent_body + (IF InBody("bye") THEN 1 ELSE 0)
            BY <1>s, <2>7 DEF InBody
        <3>4. QED BY <2>1, <2>7, <3>1, <3>2, <3>3, DataServe
    <2>8. CASE /\ stage = "fin" /\ stage' = "end" /\ sent_body' = sent_body
               /\ wire' = wire \o <<"fin">>
        <3>1. /\ StageRank <= Rank("fin") /\ Rank("fin") <= StageRank'
              /\ stage # "end" /\ stage' = "end"
            BY <2>8, RankValues DEF StageRank
        <3>2. ~InBody("fin") /\ sent_body' = sent_body + (IF InBody("fin") THEN 1 ELSE 0)
            BY <1>s, <2>8 DEF InBody
        <3>3. QED BY <2>1, <2>8, <3>1, <3>2, DataServe
    <2>9. \/ /\ stage = "flight" /\ stage' = "header" /\ sent_body' = sent_body
             /\ wire' = wire \o Record("flight")
          \/ /\ stage = "header" /\ stage' = "body" /\ sent_body' = sent_body /\ RequestSeen
             /\ wire' = wire \o Record("hdr")
          \/ /\ stage = "body" /\ stage' = "body" /\ sent_body' = sent_body + 1
             /\ wire' = wire \o Record("body")
          \/ stage = "body" /\ stage' \in {"fin", "bye"} /\ UNCHANGED <<wire, sent_body>>
          \/ /\ stage = "bye" /\ stage' = "fin" /\ sent_body' = sent_body
             /\ wire' = wire \o Record("bye")
          \/ /\ stage = "fin" /\ stage' = "end" /\ sent_body' = sent_body
             /\ wire' = wire \o <<"fin">>
        BY <1>6 DEF PeerServe, PeerSend
    <2>10. QED BY <2>3, <2>4, <2>5, <2>6, <2>7, <2>8, <2>9
<1>7. QED BY <1>2, <1>3, <1>4, <1>5, <1>6 DEF Peer

LEMMA DataStep ==
    TypeInv /\ SessionInv /\ StreamInv /\ UnansweredInv /\ StageInv /\ DataInv /\ [Next]_vars
        => DataInv'
<1> SUFFICES ASSUME TypeInv, SessionInv, StreamInv, UnansweredInv, StageInv, DataInv, [Next]_vars
             PROVE  DataInv'
    OBVIOUS
<1>1. CASE Peer
    BY <1>1, DataPeer
<1>2. CASE Ingress
    BY <1>2, DataIngress
<1>3. CASE StepRecv
    BY <1>3, DataRecv
<1>4. CASE StepCount
    BY <1>4, DataCount
<1>5. CASE TlsLoop
    <2>1. CASE TlsReject
        <3>1. \/ pc' = "exit" /\ UNCHANGED incoming
              \/ Discard /\ UNCHANGED pc
            BY <2>1 DEF TlsReject
        <3>2. QED BY <2>1, <3>1, DataTlsIdle, DataTlsRecord
    <2>2. QED BY <1>5, <2>1, DataTlsIdle, DataTlsRecord DEF TlsLoop
<1>6. CASE \/ Egress \/ EndPoll \/ Tick \/ StepDone \/ StepSynTimeout \/ StepSend \/ StepExit
           \/ UNCHANGED vars
    BY <1>6, DataIdle
<1>7. QED BY <1>1, <1>2, <1>3, <1>4, <1>5, <1>6 DEF Next, ConnStep

LEMMA Data == Spec => []DataInv
<1>1. Spec => []StageInv
    BY StageInit, StageStep, PTL DEF Spec
<1>2. QED BY <1>1, ConnTypes, Streams, Unanswered, DataInit, DataStep, PTL DEF Spec

\* Only the exit test calls a connection clean, and it finds nothing left.
LEMMA CleanStep ==
    ASSUME TypeInv, DataInv, [Next]_vars, closed_cleanly', ~closed_cleanly
    PROVE  done \/ Whole'
<1> SUFFICES ASSUME ~done PROVE Whole'
    OBVIOUS
<1>1. closed_cleanly' # closed_cleanly
    OBVIOUS
<1>2. StepExit
    <2>1. CASE Peer
        <3>1. closed_cleanly' = closed_cleanly
            BY <2>1, PeerFrame DEF connvars
        <3>2. QED BY <1>1, <3>1
    <2>2. CASE ~Peer /\ ~StepExit
        BY <1>1, <2>2 DEF Next, Ingress, Egress, EndPoll, Tick, ConnStep, StepDone, StepSynTimeout,
            StepSend, StepRecv, StepCount, TlsLoop, TlsEncode, TlsTransmit, TlsRecord, TlsReject,
            TlsBlocked, TlsWriteTraffic, TlsFrame, connvars, vars
    <2>3. QED BY <2>1, <2>2
<1>3. Finished /\ pc = "exit"
    BY <1>2 DEF StepExit
<1>4. UNCHANGED <<build, tcp, rx, wire, sent_body, incoming, outgoing, request_queued,
                  bytes_received>>
    BY <1>2 DEF StepExit, sockvars, peervars
<1>5. request_queued /\ outgoing = <<>>
    BY <1>3 DEF Finished
<1>6. SUFFICES ASSUME tcp = "CloseWait"
               PROVE  IF STUB_TLS_AFTER_HANDSHAKE THEN bytes_received >= sent_body
                      ELSE bytes_received = sent_body
    BY <1>4, <1>5 DEF Whole, STUB_TLS_AFTER_HANDSHAKE
<1>7. WireInv /\ PcInv /\ ConserveInv
    BY <1>6 DEF DataInv
<1>8. /\ incoming \in Seq(Unit) /\ rx \in Seq(Unit) /\ wire \in Seq(Unit)
      /\ bytes_received \in Nat /\ sent_body \in Nat
    BY DEF TypeInv, TypeOK, SeqOK
<1>9. rx = <<>> /\ Bodies(incoming) = 0
    BY <1>3, <1>5, <1>7 DEF PcInv
<1>10. Bodies(wire) = 0
    <2>1. \A u \in Units(wire) : ~InBody(u)
        BY <1>6, <1>7 DEF WireInv, InBody
    <2>2. QED BY <1>8, <2>1, BodiesType
<1>11. Bodies(Rest) = 0
    <2>1. Rest = incoming \o wire
        BY <1>8, <1>9, ConcatEmptySeq DEF Front, Rest
    <2>2. Bodies(incoming \o wire) = Bodies(incoming) + Bodies(wire)
        BY <1>8, BodiesConcat
    <2>3. QED BY <1>9, <1>10, <2>1, <2>2
<1>12. Counting
    BY <1>6 DEF Counting
<1>13. QED BY <1>7, <1>8, <1>11, <1>12 DEF ConserveInv

(***************************************************************************)
(* A connection that the exit test of conn_step calls clean, and that no   *)
(* TLS error had already given up, has handed over its whole request and,  *)
(* when the peer's FIN ended it, has counted every body unit the server    *)
(* sent: for every size of the buffers, of the request and of the answer,  *)
(* however reads cut records and whenever the FIN or a reset arrives.      *)
(***************************************************************************)
THEOREM ConnCleanIsWhole == Spec => CleanIsWholeButErrors
<1>1. TypeInv /\ DataInv /\ [Next]_vars
          => [closed_cleanly' /\ ~closed_cleanly => done \/ Whole']_vars
    BY CleanStep
<1>2. QED BY <1>1, ConnTypes, Data, PTL DEF Spec, CleanIsWholeButErrors

=============================================================================
