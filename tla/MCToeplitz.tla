------------------------------ MODULE MCToeplitz ------------------------------
(* A small instance of Toeplitz: every key of the lengths, every input. *)
EXTENDS Toeplitz
===============================================================================
