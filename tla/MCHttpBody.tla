---------------------------- MODULE MCHttpBody ----------------------------
(* A small instance of HttpBody. *)
EXTENDS HttpBody

\* Every response of at most MaxLen bytes over CR, LF and one other byte.
MaxLen == 7
ShortStreams == UNION {[1..n -> {CR, LF, 65}] : n \in 0..MaxLen}

\* Nine bytes of "HTTP/1.1 ", a code, the blank line and a body.
Filler == [i \in 1..9 |-> 65]
Blank == <<CR, LF, CR, LF>>
Response(code, body) == Filler \o code \o Blank \o body

CodedStreams ==
    { Response(<<50, 48, 54>>, <<65, 65>>),       \* 206
      Response(<<53, 48, 51>>, Blank),            \* 503, a body that looks like a header
      Response(<<65, 48, 65>>, <<>>),             \* no three-digit code: 0
      <<65>> \o Blank }                           \* too short to hold a code

MCStreams == ShortStreams \union CodedStreams

\* Two connections with a status line each, or one that gets any short response
\* while the other gets none.
MCInit ==
    /\ \/ stream \in [Conns -> CodedStreams]
       \/ LET d == CHOOSE c \in Conns : TRUE
          IN  stream \in {[c \in Conns |-> IF c = d THEN s ELSE <<>>] : s \in ShortStreams}
    /\ Init

MCSpec == MCInit /\ [][Next]_vars
===========================================================================
