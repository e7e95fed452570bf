------------------------------ MODULE MCNutDhcp -----------------------------
(***************************************************************************)
(* A small instance of the DHCP client for TLC: ten milliseconds make a    *)
(* second, and the macros are scaled accordingly.                          *)
(***************************************************************************)
EXTENDS NutDhcp, TLC

Symmetry == Permutations(App) \cup Permutations(Address)

=============================================================================
