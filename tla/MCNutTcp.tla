------------------------------ MODULE MCNutTcp ------------------------------
(***************************************************************************)
(* A small instance of the connection for TLC: the node that connects      *)
(* sends one byte more than the window holds.                              *)
(***************************************************************************)
EXTENDS NutTcp

MCBytes    == [e \in Node |-> IF e = Active THEN 3 ELSE 0]
MCCapacity == [e \in Node |-> 1]

=============================================================================
