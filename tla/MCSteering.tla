------------------------------ MODULE MCSteering ------------------------------
(* A small instance of Steering: a hash that spreads the ports evenly, one    *)
(* that gives runs of neighbours the same value, one that gives all the same. *)
EXTENDS Steering

Number(end) == IF end = "us" THEN 1 ELSE 2

Even == [t \in Tuples |-> (5 * t[4] + 3 * (t[3] \div 2) + Number(t[1])) % 8]
Runs == [t \in Tuples |-> (t[4] \div 3 + t[3] + Number(t[1])) % 8]
Same == [t \in Tuples |-> Number(t[1])]

MCHashFns == {Even, Runs, Same}

\* Masking is the remainder, for the hashes of this instance and for others.
ASSUME MaskIsRemainder ==
    \A n \in 1 .. 30 : /\ And(n, n - 1) = 0 <=> \E k \in 0 .. 4 : n = 2^k
                      /\ And(n, n - 1) = 0 => \A h \in 0 .. 99 : And(h, n - 1) = h % n
===============================================================================
