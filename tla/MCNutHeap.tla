----------------------------- MODULE MCNutHeap ------------------------------
(***************************************************************************)
(* A heap of three regions: one by itself, one at a distance behind it,    *)
(* and one that lies directly before the first.                            *)
(***************************************************************************)
EXTENDS NutHeap

MCRegion == <<[addr |-> 9, size |-> 18], [addr |-> 29, size |-> 6], [addr |-> 4, size |-> 5]>>

=============================================================================
