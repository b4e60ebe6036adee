------------------------------ MODULE MCNeighbor ------------------------------
(* A small instance of Neighbor: two other hosts and room for two entries. *)
EXTENDS Neighbor

MCOthers == {"h1", "h2"}
===============================================================================
