------------------------------ MODULE ConnSpec ------------------------------
(***************************************************************************)
(* What one connection promises the worker that drives it, seen through    *)
(* the return value of conn_step: it counts body bytes until one call      *)
(* returns true; from then on the byte count and the verdict clean/not     *)
(* clean that the worker will add up never change again.                   *)
(***************************************************************************)
EXTENDS Naturals

VARIABLES done,    \* some call of conn_step has returned true
          clean,   \* ... with closed_cleanly set
          bytes    \* Conn.bytes_received

vars == <<done, clean, bytes>>

Init == done = FALSE /\ clean = FALSE /\ bytes = 0

\* Response bytes arrive while the connection is running.
Receive ==
    /\ ~done
    /\ bytes' \in Nat /\ bytes' > bytes
    /\ UNCHANGED <<done, clean>>

\* The connection terminates, cleanly or not.
Terminate ==
    /\ ~done
    /\ done' = TRUE
    /\ clean' \in BOOLEAN
    /\ bytes' = bytes

Next == Receive \/ Terminate

Spec == Init /\ [][Next]_vars
=============================================================================
