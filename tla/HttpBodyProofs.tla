--------------------------- MODULE HttpBodyProofs ---------------------------
(***************************************************************************)
(* For any set of connections and any responses, count_body's carried      *)
(* state is correct: the type invariant, BodyOnly and StatusIsCode hold in *)
(* every reachable state.  The strengthening says what hdr_state means     *)
(* while the header is open: it is the length of the longest prefix of     *)
(* CRLFCRLF that the bytes seen so far end with.  The two counters shared  *)
(* by the workers then follow: RefusalsCounted, and FirstBadIsReal, which  *)
(* needs to know what a connection between its fetch_add and its           *)
(* compare_exchange still owes.                                            *)
(***************************************************************************)
EXTENDS HttpBody, FiniteSetTheorems, TLAPS

\* The three ways the bytes seen so far can end inside a terminator.
Saw1(s, k) == k >= 1 /\ s[k] = CR
Saw2(s, k) == k >= 2 /\ s[k - 1] = CR /\ s[k] = LF
Saw3(s, k) == k >= 3 /\ s[k - 2] = CR /\ s[k - 1] = LF /\ s[k] = CR

\* hdr_state is the longest match.
Tracks(s, k, h) ==
    /\ h \in 0..3
    /\ h = 3 <=> Saw3(s, k)
    /\ h = 2 <=> Saw2(s, k)
    /\ h = 1 <=> (Saw1(s, k) /\ ~Saw3(s, k))

\* While the header is open, the carried state describes the first at[c] bytes.
OpenInv(c) ==
    ~headers_done[c] =>
        /\ Tracks(stream[c], at[c], hdr_state[c])
        /\ status_pos[c] = IF at[c] < 12 THEN at[c] ELSE 12
        /\ status[c] = StatusOf(stream[c], at[c])

\* After the header no call is inside the loop, and the code is settled.
ClosedInv(c) ==
    headers_done[c] =>
        /\ rest[c] = 0
        /\ \E k \in 4..at[c] : HeaderLen(stream[c], k) /\ status[c] = StatusOf(stream[c], k)

ConnInv(c) == BodyExact(c) /\ OpenInv(c) /\ ClosedInv(c)

IInv == TypeOK /\ \A c \in Conns : ConnInv(c)
-----------------------------------------------------------------------------
\* The recogniser is exact: one more byte keeps hdr_state the longest match,
\* and reaches 4 exactly when that byte ends a terminator.
LEMMA HdrNextTracks ==
    ASSUME NEW s \in Seq(Byte), NEW k \in Nat, k < Len(s), NEW h, Tracks(s, k, h)
    PROVE  /\ HdrNext(h, s[k + 1]) = 4 <=> EndsHeader(s, k + 1)
           /\ HdrNext(h, s[k + 1]) # 4 => Tracks(s, k + 1, HdrNext(h, s[k + 1]))
<1> DEFINE b == s[k + 1]
<1>0. k + 1 \in 1..Len(s)
  OBVIOUS
<1>1. CASE b = CR
  BY <1>0, <1>1, SMTT(60) DEF HdrNext, Tracks, Saw1, Saw2, Saw3, EndsHeader, CR, LF
<1>2. CASE b = LF
  BY <1>0, <1>2, SMTT(60) DEF HdrNext, Tracks, Saw1, Saw2, Saw3, EndsHeader, CR, LF
<1>3. CASE b # CR /\ b # LF
  BY <1>0, <1>3, SMTT(60) DEF HdrNext, Tracks, Saw1, Saw2, Saw3, EndsHeader, CR, LF
<1> QED
  BY <1>1, <1>2, <1>3

\* Reading one byte more is what StatusNext does to the code read so far.
LEMMA StatusOfNext ==
    ASSUME NEW s \in Seq(Byte), NEW k \in Nat, k < Len(s),
           NEW p, p = IF k < 12 THEN k ELSE 12
    PROVE  StatusOf(s, k + 1) = StatusNext(StatusOf(s, k), p, s[k + 1])
<1>1. CASE k = 9
  BY <1>1 DEF StatusOf, StatusNext
<1>2. CASE k = 10
  BY <1>2 DEF StatusOf, StatusNext
<1>3. CASE k = 11
  BY <1>3 DEF StatusOf, StatusNext
<1>4. CASE k \notin 9..11
  BY <1>4 DEF StatusOf, StatusNext
<1> QED
  BY <1>1, <1>2, <1>3, <1>4

LEMMA StatusNextNat ==
    ASSUME NEW s \in Nat, NEW p, NEW b \in Byte
    PROVE  StatusNext(s, p, b) \in Nat
BY DEF StatusNext, IsDigit, Byte

LEMMA InitIInv == Init => IInv
<1> SUFFICES ASSUME Init PROVE IInv
  OBVIOUS
<1>1. TypeOK
  BY StreamsAssumption DEF Init, TypeOK
<1>2. ASSUME NEW c \in Conns PROVE ConnInv(c)
  BY <1>1 DEF Init, TypeOK, ConnInv, BodyExact, OpenInv, ClosedInv, Tracks, Saw1, Saw2,
     Saw3, StatusOf
<1> QED
  BY <1>1, <1>2 DEF IInv

\* A step that leaves everything of a connection alone keeps its invariant.
Same(d) ==
    /\ stream'[d] = stream[d] /\ at'[d] = at[d] /\ rest'[d] = rest[d]
    /\ bytes'[d] = bytes[d] /\ headers_done'[d] = headers_done[d]
    /\ hdr_state'[d] = hdr_state[d] /\ status'[d] = status[d]
    /\ status_pos'[d] = status_pos[d]

LEMMA Frame ==
    ASSUME NEW d \in Conns, Same(d), ConnInv(d)
    PROVE  ConnInv(d)'
BY DEF Same, ConnInv, BodyExact, OpenInv, ClosedInv

LEMMA PastHeaderIInv ==
    ASSUME IInv, NEW c \in Conns, NEW n \in Slice(c), CountBodyPastHeader(c, n)
    PROVE  IInv'
<1> USE DEF IInv
<1>1. n \in Nat /\ at[c] + n <= Len(stream[c])
  BY StreamsAssumption DEF TypeOK, Slice
<1>2. TypeOK'
  <2>1. at' \in [Conns -> Nat] /\ bytes' \in [Conns -> Nat]
    BY <1>1 DEF TypeOK, CountBodyPastHeader
  <2>2. ASSUME NEW d \in Conns PROVE at'[d] + rest'[d] <= Len(stream'[d])
    <3>1. stream' = stream /\ rest' = rest /\ rest[c] = 0
      BY DEF CountBodyPastHeader
    <3>2. CASE d = c
      <4>1. at'[c] = at[c] + n /\ at[c] \in Nat
        BY DEF TypeOK, CountBodyPastHeader
      <4>2. at'[c] + 0 <= Len(stream[c])
        BY <1>1, <4>1
      <4> QED
        BY <3>1, <3>2, <4>2
    <3>3. CASE d # c
      <4>1. at'[d] = at[d]
        BY <3>3 DEF TypeOK, CountBodyPastHeader
      <4> QED
        BY <3>1, <4>1 DEF TypeOK
    <3> QED
      BY <3>2, <3>3
  <2>3. /\ stream' \in [Conns -> Streams] /\ rest' \in [Conns -> Nat]
        /\ headers_done' \in [Conns -> BOOLEAN] /\ hdr_state' \in [Conns -> 0..4]
        /\ status' \in [Conns -> Nat] /\ status_pos' \in [Conns -> 0..12]
        /\ cas' \subseteq Conns /\ BAD_STATUS' \in Nat /\ FIRST_BAD_STATUS' \in Nat
    BY DEF TypeOK, CountBodyPastHeader
  <2> QED
    BY <2>1, <2>2, <2>3 DEF TypeOK
<1>3. ConnInv(c)'
  <2>1. /\ at'[c] = at[c] + n /\ bytes'[c] = bytes[c] + n
        /\ stream' = stream /\ headers_done' = headers_done /\ rest' = rest /\ status' = status
        /\ headers_done[c] /\ at[c] \in Nat /\ bytes[c] \in Nat
    BY DEF TypeOK, CountBodyPastHeader
  <2>2. BodyExact(c)'
    BY <1>1, <2>1 DEF ConnInv, BodyExact
  <2>3. OpenInv(c)' /\ ClosedInv(c)'
    BY <1>1, <2>1 DEF ConnInv, OpenInv, ClosedInv
  <2> QED
    BY <2>2, <2>3 DEF ConnInv
<1>4. ASSUME NEW d \in Conns, d # c PROVE ConnInv(d)'
  BY <1>4, Frame DEF TypeOK, Same, CountBodyPastHeader
<1> QED
  BY <1>2, <1>3, <1>4

LEMMA EnterIInv ==
    ASSUME IInv, NEW c \in Conns, NEW n \in Slice(c), CountBodyEnter(c, n)
    PROVE  IInv'
<1> USE DEF IInv
<1>1. n \in Nat /\ at[c] + n <= Len(stream[c])
  BY StreamsAssumption DEF TypeOK, Slice
<1>2. TypeOK'
  BY <1>1, StreamsAssumption DEF TypeOK, CountBodyEnter
<1>3. ConnInv(c)'
  BY DEF TypeOK, CountBodyEnter, ConnInv, BodyExact, OpenInv, ClosedInv
<1>4. ASSUME NEW d \in Conns, d # c PROVE ConnInv(d)'
  BY <1>4, Frame DEF TypeOK, Same, CountBodyEnter
<1> QED
  BY <1>2, <1>3, <1>4

LEMMA ByteIInv ==
    ASSUME IInv, NEW c \in Conns, CountBodyByte(c)
    PROVE  IInv'
<1> USE DEF IInv
<1> DEFINE s == stream[c]
           k == at[c]
           b == s[k + 1]
           h == HdrNext(hdr_state[c], b)
           t == StatusNext(status[c], status_pos[c], b)
<1>1. /\ s \in Seq(Byte) /\ k \in Nat /\ rest[c] \in Nat /\ rest[c] > 0
      /\ k + rest[c] <= Len(s) /\ k < Len(s) /\ b \in Byte
  BY StreamsAssumption DEF TypeOK, CountBodyByte
<1>2. /\ ~headers_done[c] /\ bytes[c] = 0 /\ Tracks(s, k, hdr_state[c])
      /\ status_pos[c] = (IF k < 12 THEN k ELSE 12) /\ status[c] = StatusOf(s, k)
      /\ \A j \in 4..k : ~EndsHeader(s, j)
  BY <1>1 DEF TypeOK, ConnInv, BodyExact, OpenInv, ClosedInv
<1>3. /\ h = 4 <=> EndsHeader(s, k + 1)
      /\ h # 4 => Tracks(s, k + 1, h)
  BY <1>1, <1>2, HdrNextTracks
<1>4. t = StatusOf(s, k + 1) /\ t \in Nat
  <2> HIDE DEF s, k
  <2>1. StatusOf(s, k + 1) = StatusNext(StatusOf(s, k), status_pos[c], s[k + 1])
    BY <1>1, <1>2, StatusOfNext
  <2>2. t = StatusOf(s, k + 1)
    BY <1>2, <2>1
  <2>3. t \in Nat
    BY <1>1, StatusNextNat DEF TypeOK
  <2> QED
    BY <2>2, <2>3
<1>5. h \in 0..4
  BY <1>2 DEF HdrNext, Tracks
<1> HIDE DEF h, t
<1>6. /\ stream' = stream /\ FIRST_BAD_STATUS' = FIRST_BAD_STATUS
      /\ status' = [status EXCEPT ![c] = t] /\ hdr_state' = [hdr_state EXCEPT ![c] = h]
      /\ status_pos' = [status_pos EXCEPT ![c] = StatusPosNext(@)]
  BY DEF CountBodyByte, h, t
<1>a. h # 4 =>
        /\ at' = [at EXCEPT ![c] = k + 1] /\ rest' = [rest EXCEPT ![c] = @ - 1]
        /\ bytes' = bytes /\ headers_done' = headers_done
        /\ cas' = cas /\ BAD_STATUS' = BAD_STATUS
  BY DEF CountBodyByte, h
<1>b. h = 4 =>
        /\ at' = [at EXCEPT ![c] = k + rest[c]] /\ rest' = [rest EXCEPT ![c] = 0]
        /\ bytes' = [bytes EXCEPT ![c] = @ + rest[c] - 1]
        /\ headers_done' = [headers_done EXCEPT ![c] = TRUE]
        /\ cas' \in {cas, cas \union {c}} /\ BAD_STATUS' \in {BAD_STATUS, BAD_STATUS + 1}
  BY DEF CountBodyByte, h
<1>7. TypeOK'
  <2>1. status' \in [Conns -> Nat] /\ hdr_state' \in [Conns -> 0..4]
    BY <1>4, <1>5, <1>6 DEF TypeOK
  <2>2. status_pos' \in [Conns -> 0..12]
    <3>1. status_pos[c] \in 0..12 /\ status_pos \in [Conns -> 0..12]
      BY DEF TypeOK
    <3>2. StatusPosNext(status_pos[c]) \in 0..12
      BY <3>1 DEF StatusPosNext
    <3> QED
      BY <1>6, <3>1, <3>2
  <2>3. CASE h # 4
    <3>0. /\ at' = [at EXCEPT ![c] = k + 1] /\ rest' = [rest EXCEPT ![c] = @ - 1]
          /\ bytes' = bytes /\ headers_done' = headers_done
          /\ cas' = cas /\ BAD_STATUS' = BAD_STATUS
      BY <1>a, <2>3
    <3>1. at' \in [Conns -> Nat] /\ rest' \in [Conns -> Nat]
      BY <1>1, <3>0 DEF TypeOK
    <3>2. ASSUME NEW d \in Conns PROVE at'[d] + rest'[d] <= Len(stream'[d])
      BY <1>1, <1>6, <3>0 DEF TypeOK
    <3> QED
      BY <1>6, <2>1, <2>2, <3>0, <3>1, <3>2 DEF TypeOK
  <2>4. CASE h = 4
    <3>0. /\ at' = [at EXCEPT ![c] = k + rest[c]] /\ rest' = [rest EXCEPT ![c] = 0]
          /\ bytes' = [bytes EXCEPT ![c] = @ + rest[c] - 1]
          /\ headers_done' = [headers_done EXCEPT ![c] = TRUE]
          /\ cas' \in {cas, cas \union {c}} /\ BAD_STATUS' \in {BAD_STATUS, BAD_STATUS + 1}
      BY <1>b, <2>4
    <3>1. at' \in [Conns -> Nat] /\ rest' \in [Conns -> Nat] /\ bytes' \in [Conns -> Nat]
      <4>1. bytes[c] + rest[c] - 1 \in Nat
        BY <1>1, <1>2
      <4> QED
        BY <1>1, <3>0, <4>1 DEF TypeOK
    <3>2. ASSUME NEW d \in Conns PROVE at'[d] + rest'[d] <= Len(stream'[d])
      BY <1>1, <1>6, <3>0 DEF TypeOK
    <3>3. headers_done' \in [Conns -> BOOLEAN] /\ cas' \subseteq Conns /\ BAD_STATUS' \in Nat
      BY <3>0 DEF TypeOK
    <3> QED
      BY <1>6, <2>1, <2>2, <3>1, <3>2, <3>3 DEF TypeOK
  <2> QED
    BY <2>3, <2>4
<1>8. ConnInv(c)'
  <2>1. CASE h # 4
    <3>1. /\ at'[c] = k + 1 /\ headers_done'[c] = FALSE /\ bytes'[c] = 0
          /\ status'[c] = t /\ hdr_state'[c] = h
          /\ status_pos'[c] = StatusPosNext(status_pos[c])
      BY <1>1, <1>2, <1>6, <1>a, <2>1 DEF TypeOK
    <3>2. BodyExact(c)'
      BY <1>1, <1>2, <1>3, <1>6, <2>1, <3>1 DEF BodyExact
    <3>3. OpenInv(c)'
      BY <1>1, <1>2, <1>3, <1>4, <1>6, <2>1, <3>1 DEF OpenInv, StatusPosNext
    <3> QED
      BY <3>1, <3>2, <3>3 DEF ConnInv, ClosedInv
  <2>2. CASE h = 4
    <3>1. /\ at'[c] = k + rest[c] /\ headers_done'[c] = TRUE /\ rest'[c] = 0
          /\ bytes'[c] = rest[c] - 1 /\ status'[c] = t
      BY <1>1, <1>2, <1>6, <1>b, <2>2 DEF TypeOK
    <3>2. k + 1 \in 4..at'[c] /\ HeaderLen(s, k + 1)
      <4>1. EndsHeader(s, k + 1)
        BY <1>3, <2>2
      <4>2. k + 1 >= 4
        BY <4>1 DEF EndsHeader
      <4> QED
        BY <1>1, <1>2, <3>1, <4>1, <4>2 DEF HeaderLen
    <3>3. BodyExact(c)'
      BY <1>1, <1>6, <3>1, <3>2 DEF BodyExact
    <3>4. ClosedInv(c)'
      BY <1>1, <1>4, <1>6, <3>1, <3>2 DEF ClosedInv
    <3> QED
      BY <3>1, <3>3, <3>4 DEF ConnInv, OpenInv
  <2> QED
    BY <2>1, <2>2
<1>9. ASSUME NEW d \in Conns, d # c PROVE ConnInv(d)'
  BY <1>9, Frame, SMTT(60) DEF TypeOK, Same, CountBodyByte
<1> QED
  BY <1>7, <1>8, <1>9

LEMMA NextIInv == IInv /\ [Next]_vars => IInv'
<1> SUFFICES ASSUME IInv, [Next]_vars PROVE IInv'
  OBVIOUS
<1>1. CASE UNCHANGED vars
  BY <1>1, Frame DEF IInv, TypeOK, Same, vars, conn
<1>2. ASSUME NEW c \in Conns, NoteFirstBad(c) PROVE IInv'
  <2>1. TypeOK'
    BY <1>2 DEF IInv, TypeOK, NoteFirstBad, conn
  <2> QED
    BY <1>2, <2>1, Frame DEF IInv, Same, NoteFirstBad, conn
<1> QED
  BY <1>1, <1>2, PastHeaderIInv, EnterIInv, ByteIInv DEF Next

\* The carried state keeps its type, and no call reads past its slice.
THEOREM TypeCorrect == Spec => []TypeOK
<1>1. IInv => TypeOK
  BY DEF IInv
<1> QED
  BY <1>1, InitIInv, NextIInv, PTL DEF Spec

\* Whatever slices a response arrives in, exactly the bytes after its first
\* CRLFCRLF are counted.
THEOREM BodyOnlyHolds == Spec => []BodyOnly
<1>1. IInv => BodyOnly
  BY DEF IInv, ConnInv, BodyOnly
<1> QED
  BY <1>1, InitIInv, NextIInv, PTL DEF Spec

\* The status compared with 206 is the code in the status line of the response.
THEOREM StatusIsCodeHolds == Spec => []StatusIsCode
<1>1. IInv => StatusIsCode
  BY DEF IInv, ConnInv, ClosedInv, StatusIsCode
<1> QED
  BY <1>1, InitIInv, NextIInv, PTL DEF Spec

-----------------------------------------------------------------------------
(* The counters the workers share *)

\* Between its two atomics a connection has been refused, and only its code
\* may be missing from FIRST_BAD_STATUS.
SharedInv ==
    /\ RefusalsCounted
    /\ cas \subseteq Refused
    /\ FIRST_BAD_STATUS # 0 => \E c \in Refused : status[c] = FIRST_BAD_STATUS
    /\ FIRST_BAD_STATUS = 0 => \A c \in Refused \ cas : status[c] = 0

LEMMA InitShared == Init => SharedInv
<1> SUFFICES ASSUME Init PROVE SharedInv
  OBVIOUS
<1>1. Refused = {}
  BY DEF Init, Refused
<1>2. BAD_STATUS = Cardinality(Refused)
  BY <1>1, FS_EmptySet DEF Init
<1> QED
  BY <1>1, <1>2 DEF Init, SharedInv, RefusalsCounted

\* A step that settles no header keeps the refusals as they are.
LEMMA KeepsRefused ==
    ASSUME IInv, NEW c \in Conns, headers_done' = headers_done,
           status' = status \/ (~headers_done[c] /\ \E t : status' = [status EXCEPT ![c] = t])
    PROVE  Refused' = Refused /\ \A d \in Refused : status'[d] = status[d]
<1>1. status \in [Conns -> Nat]
  BY DEF IInv, TypeOK
<1>2. ASSUME NEW d \in Conns, headers_done[d] PROVE status'[d] = status[d]
  BY <1>1, <1>2
<1> QED
  BY <1>2 DEF Refused

LEMMA ByteShared ==
    ASSUME IInv, SharedInv, NEW c \in Conns, CountBodyByte(c)
    PROVE  SharedInv'
<1> DEFINE b == stream[c][at[c] + 1]
           h == HdrNext(hdr_state[c], b)
           t == StatusNext(status[c], status_pos[c], b)
<1>1. rest[c] > 0 /\ status' = [status EXCEPT ![c] = t] /\ FIRST_BAD_STATUS' = FIRST_BAD_STATUS
  BY DEF CountBodyByte
<1>2. /\ ~headers_done[c] /\ status \in [Conns -> Nat] /\ headers_done \in [Conns -> BOOLEAN]
      /\ cas \subseteq Conns /\ BAD_STATUS \in Nat
  BY <1>1 DEF IInv, TypeOK, ConnInv, ClosedInv
<1>3. h # 4 => headers_done' = headers_done /\ cas' = cas /\ BAD_STATUS' = BAD_STATUS
  BY DEF CountBodyByte
<1>4. h = 4 => /\ headers_done' = [headers_done EXCEPT ![c] = TRUE]
               /\ IF t # 206 THEN BAD_STATUS' = BAD_STATUS + 1 /\ cas' = cas \union {c}
                  ELSE BAD_STATUS' = BAD_STATUS /\ cas' = cas
  BY DEF CountBodyByte
<1> HIDE DEF b, h, t
<1>5. \A d \in Conns : d # c => status'[d] = status[d]
  BY <1>1, <1>2
<1>6. status'[c] = t /\ c \notin Refused
  BY <1>1, <1>2 DEF Refused
<1>7. CASE h # 4
  <2>1. Refused' = Refused /\ \A d \in Refused : status'[d] = status[d]
    BY <1>1, <1>2, <1>3, <1>7, KeepsRefused
  <2> QED
    BY <1>1, <1>3, <1>7, <2>1 DEF SharedInv, RefusalsCounted
<1>8. CASE h = 4 /\ t = 206
  <2>1. /\ headers_done' = [headers_done EXCEPT ![c] = TRUE] /\ cas' = cas
        /\ BAD_STATUS' = BAD_STATUS
    BY <1>4, <1>8
  <2>2. Refused' = Refused
    BY <1>2, <1>5, <1>6, <1>8, <2>1 DEF Refused
  <2>3. \A d \in Refused : status'[d] = status[d]
    BY <1>5, <1>6 DEF Refused
  <2> QED
    BY <1>1, <2>1, <2>2, <2>3 DEF SharedInv, RefusalsCounted
<1>9. CASE h = 4 /\ t # 206
  <2>1. /\ headers_done' = [headers_done EXCEPT ![c] = TRUE] /\ cas' = cas \union {c}
        /\ BAD_STATUS' = BAD_STATUS + 1
    BY <1>4, <1>9
  <2>2. Refused' = Refused \union {c}
    BY <1>2, <1>5, <1>6, <1>9, <2>1 DEF Refused
  <2>3. \A d \in Refused : status'[d] = status[d]
    BY <1>5, <1>6 DEF Refused
  <2>4. IsFiniteSet(Refused)
    BY ConnsAssumption, FS_Subset DEF Refused
  <2>5. Cardinality(Refused \union {c}) = Cardinality(Refused) + 1
    BY <1>6, <2>4, FS_AddElement
  <2>6. RefusalsCounted'
    BY <2>1, <2>2, <2>5 DEF SharedInv, RefusalsCounted
  <2>7. cas' \subseteq Refused'
    BY <2>1, <2>2 DEF SharedInv
  <2>8. FIRST_BAD_STATUS' # 0 => \E d \in Refused' : status'[d] = FIRST_BAD_STATUS'
    BY <1>1, <2>2, <2>3 DEF SharedInv
  <2>9. FIRST_BAD_STATUS' = 0 => \A d \in Refused' \ cas' : status'[d] = 0
    BY <1>1, <2>1, <2>2, <2>3 DEF SharedInv
  <2> QED
    BY <2>6, <2>7, <2>8, <2>9 DEF SharedInv
<1> QED
  BY <1>7, <1>8, <1>9

LEMMA NextShared == IInv /\ SharedInv /\ [Next]_vars => SharedInv'
<1> SUFFICES ASSUME IInv, SharedInv, [Next]_vars PROVE SharedInv'
  OBVIOUS
<1>1. CASE UNCHANGED <<headers_done, status, cas, BAD_STATUS, FIRST_BAD_STATUS>>
  <2>1. Refused' = Refused
    BY <1>1 DEF Refused
  <2> QED
    BY <1>1, <2>1 DEF SharedInv, RefusalsCounted
<1>2. CASE UNCHANGED vars
  BY <1>1, <1>2 DEF vars, conn
<1>3. ASSUME NEW c \in Conns, NEW n \in Slice(c), CountBodyPastHeader(c, n) \/ CountBodyEnter(c, n)
      PROVE  SharedInv'
  BY <1>1, <1>3 DEF CountBodyPastHeader, CountBodyEnter
<1>4. ASSUME NEW c \in Conns, NoteFirstBad(c) PROVE SharedInv'
  <2>1. /\ c \in cas /\ cas' = cas \ {c} /\ BAD_STATUS' = BAD_STATUS
        /\ headers_done' = headers_done /\ status' = status
        /\ FIRST_BAD_STATUS' = IF FIRST_BAD_STATUS = 0 THEN status[c] ELSE FIRST_BAD_STATUS
    BY <1>4 DEF NoteFirstBad, conn
  <2>2. Refused' = Refused /\ c \in Refused
    BY <2>1 DEF Refused, SharedInv
  <2> QED
    BY <2>1, <2>2 DEF SharedInv, RefusalsCounted
<1> QED
  BY <1>2, <1>3, <1>4, ByteShared DEF Next

LEMMA SharedHolds == Spec => []SharedInv
BY InitIInv, NextIInv, InitShared, NextShared, PTL DEF Spec

\* BAD_STATUS counts every refused response exactly once, for any number of
\* connections and whichever workers run count_body at the same time.
THEOREM RefusalsCountedHolds == Spec => []RefusalsCounted
<1>1. SharedInv => RefusalsCounted
  BY DEF SharedInv
<1> QED
  BY <1>1, SharedHolds, PTL

\* FIRST_BAD_STATUS names a code that was really received and refused, and once
\* every compare_exchange has run it is 0 only if no refusal carried a code.
THEOREM FirstBadIsRealHolds == Spec => []FirstBadIsReal
<1>1. SharedInv => FirstBadIsReal
  BY DEF SharedInv, FirstBadIsReal
<1> QED
  BY <1>1, SharedHolds, PTL
=============================================================================
