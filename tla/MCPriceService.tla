--------------------------- MODULE MCPriceService ---------------------------
(* Small instances of PriceService for TLC. *)
EXTENDS PriceService, TLC

Symmetry == Permutations(Callers)
=============================================================================
