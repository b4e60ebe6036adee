------------------------------- MODULE MCDevice -------------------------------
(* A small instance of Device. *)
EXTENDS Device
===============================================================================
