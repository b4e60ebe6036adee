------------------------------- MODULE MCBench -------------------------------
(* A small instance of Bench: which devices there are, what may fail, and    *)
(* which builds are run.                                                     *)
EXTENDS Bench

AnyDevice == {0, 1, 2}
AllFail == AllFailures

\* A plain build and one that abandons a connection of each worker and stubs
\* TLS out.
MCBuilds == {<<0, FALSE>>, <<1, TRUE>>}
==============================================================================
