------------------------------ MODULE MCPayments ------------------------------
(* Small instances of Payments. *)
EXTENDS Payments, TLC

(* Two lives of a sale: paid without a cash session up to the largest total, or with
   one, up to a smaller total. *)
Profile ==
    \/ \A x \in Sessions : sessState[x] = "unopened"
    \/ \A s \in Sales : total[s] <= MaxTotal - 1

Symmetry == Permutations(Keys) \cup Permutations(Returns)
===============================================================================
