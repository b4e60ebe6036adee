------------------------------ MODULE MCConn ------------------------------
(* Small instances of Conn. *)
EXTENDS Conn
===========================================================================
