----------------------------- MODULE MCStockRoom -----------------------------
(* StockRoom with one delivery for TLC, of both products at a new price. *)
EXTENDS StockRoom
MCQty(d, p) == 2
MCPrice(d) == 16
RequestSymmetry == Permutations(Requests)
=============================================================================
