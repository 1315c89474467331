------------------------------ MODULE MCReturns ------------------------------
(***************************************************************************)
(* A small instance of Returns: a line of a few pieces, at prices, rates   *)
(* and discounts around the rounding boundaries, and a line of one piece.  *)
(***************************************************************************)
EXTENDS Returns

CONSTANTS l1, l2, MaxQuantity, UnitPrices, Rates, Discounts

MCSoldAs ==
    l1 :> [quantity : 2 .. MaxQuantity, unit : UnitPrices, discount : Discounts, rate : Rates]
 @@ l2 :> [quantity : {1}, unit : {10}, discount : {0}, rate : {21}]

ReturnsSymmetry == Permutations(Returns)
==============================================================================
