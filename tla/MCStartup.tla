------------------------------- MODULE MCStartup -------------------------------
(* A small instance of Startup: .env as set up, and the texts one of its     *)
(* variables may be edited to.                                               *)
EXTENDS Startup, SequencesExt

MCBase ==
    [v \in EnvVars |->
        CASE v = "AWS_TARGET_IP" -> <<"3", ".", "5", ".", "2", ".", "0">>
          [] v = "BENCH_WORKERS" -> <<"3">>
          [] v = "AWS_BUCKET_SIZE" -> <<"1", "0", "G">>
          [] v = "BENCH_TLS_STUB" -> <<"1">>
          [] v \in Names -> <<"n">>
          [] OTHER -> UNSET]

\* Digits, none, some or too many, and what may follow them.
SizeTexts ==
    {d \o e : d \in {<<>>, <<"0">>, <<"4">>, <<"6", "4">>, <<"4", "0", "9", "6">>, <<"4", "0", "9", "9">>},
              e \in {<<>>, <<"K">>, <<"k", "i", "B">>, <<"i", "K">>, <<"M", "1">>,
                     <<"T">>, <<"x">>, <<".", "5", "G">>}}

\* Up to five fields between dots, well-formed or not.
OctetTexts == {<<>>, <<"0">>, <<"2", "5", "5">>, <<"2", "5", "6">>, <<"2", "x">>}
IpTexts ==
    {FoldLeft(LAMBDA a, f : a \o <<".">> \o f, fs[1], Tail(fs)) :
        fs \in UNION {[1 .. n -> OctetTexts] : n \in 1 .. 5}}

MCTexts(v) ==
    IF v \in Sizes THEN SizeTexts \union {UNSET}
    ELSE CASE v = "AWS_TARGET_IP" -> IpTexts \union {UNSET}
           [] v = "BENCH_SCHEME" -> {UNSET, <<>>, Http, Https, Https \o <<"s">>, <<"h", "t">>}
           [] v = "BENCH_TLS_STUB" -> {UNSET, <<>>, <<"0">>, <<"n", "o">>, <<"2">>}
           [] v \in Names -> {UNSET, <<"m">>}
================================================================================
