-------------------------------- MODULE Config --------------------------------
(***************************************************************************)
(* The configuration compiled into the image: the variables of .env that   *)
(* lib.rs reads with env! and option_env!, the const fns that parse them,  *)
(* the const assertions that stop a build, and build.rs, which tells cargo *)
(* when to build again.  A text is a sequence of characters, or UNSET.     *)
(*                                                                         *)
(* UNIT, U16 and U64 are 1024, 2^16 and 2^64 in the code; an instance      *)
(* scales them down together.  The image is built with --release, where    *)
(* the arithmetic of a const fn wraps like that of any other function.     *)
(***************************************************************************)
EXTENDS Naturals, Sequences, FiniteSets, FiniteSetsExt, Functions

CONSTANTS UNSET, UNIT, U16, U64,
          Base,             \* the environment `just setup` wrote
          Texts(_),         \* bound: what a variable may be edited to
          MaxEdits          \* bound: edits of .env

\* Everything lib.rs reads.
Sizes == {"BENCH_WORKERS", "BENCH_CONNS_PER_WORKER", "AWS_BUCKET_SIZE", "BENCH_BLOCK_SIZE"}
Names == {"AWS_BUCKET", "AWS_REGION"}
EnvVars == Sizes \union Names \union {"AWS_TARGET_IP", "BENCH_TLS_STUB", "BENCH_SCHEME"}

\* A variable is a string of characters, or is not set.
Text == Seq(STRING) \union {UNSET}

ASSUME ConfigAssumption ==
    /\ UNIT \in Nat \ {0} /\ U16 \in Nat \ {0} /\ U64 \in Nat \ {0} /\ MaxEdits \in Nat
    /\ Base \in [EnvVars -> Text] /\ \A v \in EnvVars : Texts(v) \subseteq Text
    /\ UNSET \notin Seq(STRING)

VARIABLES env,      \* .env as the next build sees it
          edits,    \* edits so far
          baked,    \* the texts the image was compiled from, or UNSET without an image
          built     \* the image comes from a build since the last edit

configvars == <<env, edits, baked, built>>

ConfigInit == env = Base /\ edits = 0 /\ baked = UNSET /\ built = FALSE

-----------------------------------------------------------------------------
(* The parsers *)

Digit ==
    [c \in {"0", "1", "2", "3", "4", "5", "6", "7", "8", "9"} |->
        CASE c = "0" -> 0 [] c = "1" -> 1 [] c = "2" -> 2 [] c = "3" -> 3 [] c = "4" -> 4
          [] c = "5" -> 5 [] c = "6" -> 6 [] c = "7" -> 7 [] c = "8" -> 8 [] c = "9" -> 9]

MiB == UNIT * UNIT
GiB == UNIT * MiB

Multiplier ==
    [c \in {"K", "k", "M", "m", "G", "g", "T", "t", "B", "b", "i", "I"} |->
        CASE c \in {"K", "k"} -> UNIT
          [] c \in {"M", "m"} -> MiB
          [] c \in {"G", "g"} -> GiB
          [] c \in {"T", "t"} -> UNIT * GiB
          [] OTHER -> 1]

\* A slip: a suffix does not end the number.
SizeCharOn(a, c, default) ==
    IF a.returned THEN a
    ELSE IF c \in DOMAIN Digit THEN [a EXCEPT !.v = (@ * 10 + Digit[c]) % U64]
    ELSE IF c \in DOMAIN Multiplier THEN [a EXCEPT !.v = (@ * Multiplier[c]) % U64]
    ELSE [v |-> default, returned |-> TRUE]

\* One turn of parse_size's loop: a digit, or a character that returns.
SizeChar(a, c, default) ==
    IF a.returned THEN a
    ELSE IF c \in DOMAIN Digit THEN [a EXCEPT !.v = (@ * 10 + Digit[c]) % U64]
    ELSE IF c \in DOMAIN Multiplier THEN [v |-> (a.v * Multiplier[c]) % U64, returned |-> TRUE]
    ELSE [v |-> default, returned |-> TRUE]

parse_size(s, default) ==
    LET after[n \in 0 .. Len(s)] ==
            IF n = 0 THEN [v |-> 0, returned |-> FALSE]
            ELSE SizeChar(after[n - 1], s[n], default)
    IN  IF s \in {UNSET, <<>>} THEN default ELSE after[Len(s)].v

parse_bool(s, default) ==
    IF s \in {UNSET, <<>>} THEN default
    ELSE s[1] \in {"1", "t", "T", "y", "Y"} \/ (default /\ s[1] \notin {"0", "f", "F", "n", "N"})

bytes_eq(a, b) == Len(a) = Len(b) /\ \A i \in 1 .. Len(a) : a[i] = b[i]

Http == <<"h", "t", "t", "p">>
Https == Http \o <<"s">>

ASSUME SchemeAssumption == UNSET # Http

is_http(s) == s # UNSET /\ bytes_eq(s, Http)
scheme_ok(s) == s = UNSET \/ s = <<>> \/ bytes_eq(s, Http) \/ bytes_eq(s, Https)

\* A slip: a dot with no digit since the last one is taken.
IpCharLax(a, c) ==
    IF a.bad THEN a
    ELSE IF c \in DOMAIN Digit
    THEN LET acc == a.acc * 10 + Digit[c]
         IN  [a EXCEPT !.acc = acc, !.seen = TRUE, !.bad = acc > 255]
    ELSE IF c = "." /\ Len(a.out) < 3
    THEN [a EXCEPT !.out = Append(@, a.acc), !.acc = 0]
    ELSE [a EXCEPT !.bad = TRUE]

\* One turn of parse_ipv4's loop; out holds the octets before the current one.
IpChar(a, c) ==
    IF a.bad THEN a
    ELSE IF c \in DOMAIN Digit
    THEN LET acc == a.acc * 10 + Digit[c]
         IN  [a EXCEPT !.acc = acc, !.seen = TRUE, !.bad = acc > 255]
    ELSE IF c = "." /\ a.seen /\ Len(a.out) < 3
    THEN [a EXCEPT !.out = Append(@, a.acc), !.acc = 0, !.seen = FALSE]
    ELSE [a EXCEPT !.bad = TRUE]

NoAddress == <<0, 0, 0, 0>>

parse_ipv4(s) ==
    LET after[n \in 0 .. Len(s)] ==
            IF n = 0 THEN [out |-> <<>>, acc |-> 0, seen |-> FALSE, bad |-> FALSE]
            ELSE IpChar(after[n - 1], s[n])
    IN  IF s = UNSET THEN NoAddress
        ELSE LET a == after[Len(s)]
             IN  IF a.bad \/ ~a.seen \/ Len(a.out) # 3 THEN NoAddress ELSE Append(a.out, a.acc)

-----------------------------------------------------------------------------
(* The constants of the crate, of an environment e *)

DefaultOf ==
    [v \in Sizes |-> CASE v = "BENCH_WORKERS" -> 8
                       [] v = "BENCH_CONNS_PER_WORKER" -> 24
                       [] v = "AWS_BUCKET_SIZE" -> 10 * GiB
                       [] v = "BENCH_BLOCK_SIZE" -> 64 * MiB]

\* The defaults are literals of 64 bits.
ASSUME DefaultAssumption == \A v \in Sizes : DefaultOf[v] < U64

SizeOf(e, v) == parse_size(e[v], DefaultOf[v])

N_WORKERS_REQ(e) == SizeOf(e, "BENCH_WORKERS") % U16
PLAIN_HTTP(e) == is_http(e["BENCH_SCHEME"])
STUB_TLS_AFTER_HANDSHAKE(e) == parse_bool(e["BENCH_TLS_STUB"], FALSE) /\ ~PLAIN_HTTP(e)
TARGET_IP(e) == parse_ipv4(e["AWS_TARGET_IP"])
TARGET_PORT(e) == IF PLAIN_HTTP(e) THEN 80 ELSE 443

\* The const assertions and the env! of the host's name.
Compiles(e) ==
    /\ scheme_ok(e["BENCH_SCHEME"])
    /\ TARGET_IP(e) # NoAddress
    /\ \A v \in Names : e[v] # UNSET

-----------------------------------------------------------------------------
(* Editing and building *)

EditEnv ==
    /\ edits < MaxEdits
    /\ \E v \in EnvVars : \E t \in Texts(v) : env' = [env EXCEPT ![v] = t]
    /\ edits' = edits + 1 /\ built' = FALSE
    /\ UNCHANGED baked

\* A slip: a variable is added to lib.rs and not to build.rs.
RerunIfEnvChangedOld == EnvVars \ {"BENCH_BLOCK_SIZE"}

\* The list of build.rs.
RerunIfEnvChanged ==
    {"AWS_BUCKET", "AWS_REGION", "AWS_BUCKET_SIZE", "AWS_TARGET_IP", "BENCH_WORKERS",
     "BENCH_CONNS_PER_WORKER", "BENCH_TLS_STUB", "BENCH_SCHEME", "BENCH_BLOCK_SIZE"}

\* Cargo compiles without an image and when a variable of the list has
\* changed; otherwise it takes the image for up to date.  A build that fails
\* leaves none to boot.
CargoBuild ==
    /\ ~built
    /\ IF baked # UNSET /\ \A v \in RerunIfEnvChanged : env[v] = baked[v]
       THEN built' = TRUE /\ UNCHANGED baked
       ELSE /\ built' = Compiles(env)
            /\ baked' = IF Compiles(env) THEN env ELSE UNSET
    /\ UNCHANGED <<env, edits>>

-----------------------------------------------------------------------------
(* Properties *)

Pow10[n \in Nat] == IF n = 0 THEN 1 ELSE 10 * Pow10[n - 1]

\* The decimal number the digits of s at the places S write, the last at m.
Decimal(s, S, m) == SumFunction([i \in S |-> Digit[s[i]] * Pow10[m - i]])

\* What a size says: the digits it starts with, as a decimal number, times the
\* unit that follows them; anything else that follows, or nothing at all, is
\* the default.
SizeMeans(s, default) ==
    LET n == CHOOSE n \in 0 .. Len(s) :
                 /\ \A i \in 1 .. n : s[i] \in DOMAIN Digit
                 /\ n < Len(s) => s[n + 1] \notin DOMAIN Digit
        v == Decimal(s, 1 .. n, n)
    IN  IF s \in {UNSET, <<>>} THEN default
        ELSE IF n = Len(s) THEN v
        ELSE IF s[n + 1] \in DOMAIN Multiplier THEN v * Multiplier[s[n + 1]]
        ELSE default

\* An image holds what the texts of its sizes say, as far as 64 bits hold it: no
\* digit is lost or read twice and a unit counts once.  A number of 2^64 or more
\* does not stop the build: it is taken modulo 2^64, wherever it overflowed.
SizesAsWritten ==
    baked # UNSET =>
        \A v \in Sizes : SizeOf(baked, v) = SizeMeans(baked[v], DefaultOf[v]) % U64

\* Where the k-th text between the dots of s stands, and the number it writes.
Field(s, k) ==
    {i \in 1 .. Len(s) : s[i] # "." /\ Cardinality({j \in 1 .. i : s[j] = "."}) = k - 1}
Octet(s, k) == Decimal(s, Field(s, k), Max(Field(s, k)))

\* "Catch a missing or malformed address at build time": an image dials the
\* four numbers of 0 to 255 that .env spells out, over the scheme it names; of
\* every other text, a misspelt scheme included, there is no image.
TargetAsWritten ==
    baked # UNSET =>
        LET s == baked["AWS_TARGET_IP"]
        IN  /\ \A i \in 1 .. Len(s) : s[i] = "." \/ s[i] \in DOMAIN Digit
            /\ Cardinality({i \in 1 .. Len(s) : s[i] = "."}) = 3
            /\ \A k \in 1 .. 4 : /\ Field(s, k) # {} /\ Octet(s, k) <= 255
                                 /\ TARGET_IP(baked)[k] = Octet(s, k)
            /\ \E k \in 1 .. 4 : Octet(s, k) # 0
            /\ baked["BENCH_SCHEME"] \in {UNSET, <<>>, Http, Https}
            /\ TARGET_PORT(baked) = IF baked["BENCH_SCHEME"] = Http THEN 80 ELSE 443

\* "editing .env forces a rebuild": whatever was edited since the last build,
\* an image that has just been built is compiled from .env as it stands.
ImageFresh == built => baked = env
================================================================================
