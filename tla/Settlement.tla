------------------------------ MODULE Settlement ------------------------------
(***************************************************************************)
(* What the payment engine promises about one sale, without payments,      *)
(* returns or customer accounts: the customer keeps goods of some value,   *)
(* the shop holds some of the customer's money, and what may still be      *)
(* collected is exactly the value not yet covered by that money.  Goods    *)
(* are only taken back after the sale, money only goes back when the shop  *)
(* holds more than the goods kept are worth.                               *)
(***************************************************************************)
EXTENDS Integers

CONSTANT Sales            \* the sales of the business

VARIABLES
    value,                \* value[s]: worth of the goods the customer keeps
    held,                 \* held[s]: the customer's money the shop holds
    due                   \* due[s]: what the shop may still collect

settlementVars == <<value, held, due>>

(* The part of v not covered by h. *)
Uncovered(v, h) == IF v > h THEN v - h ELSE 0

SettlementInit ==
    /\ value = [s \in Sales |-> 0]
    /\ held  = [s \in Sales |-> 0]
    /\ due   = [s \in Sales |-> 0]

(* The cart is sold: its whole value becomes due. *)
Sell(s, v) ==
    /\ v > 0
    /\ value[s] = 0 /\ held[s] = 0
    /\ value' = [value EXCEPT ![s] = v]
    /\ due'   = [due EXCEPT ![s] = v]
    /\ UNCHANGED held

(* Money comes in, never more than is due. *)
Collect(s, a) ==
    /\ 0 < a /\ a <= due[s]
    /\ held' = [held EXCEPT ![s] = @ + a]
    /\ due'  = [due EXCEPT ![s] = @ - a]
    /\ UNCHANGED value

(* Goods come back: what is left to keep is worth v. *)
TakeBack(s, v) ==
    /\ 0 <= v /\ v < value[s]
    /\ value' = [value EXCEPT ![s] = v]
    /\ due'   = [due EXCEPT ![s] = Uncovered(v, held[s])]
    /\ UNCHANGED held

(* Money goes back, never more than the shop holds above the kept value. *)
PayBack(s, a) ==
    /\ 0 < a /\ a <= held[s] - value[s]
    /\ held' = [held EXCEPT ![s] = @ - a]
    /\ UNCHANGED <<value, due>>

SettlementNext ==
    \E s \in Sales : \/ Sell(s, value'[s])
                     \/ Collect(s, held'[s] - held[s])
                     \/ TakeBack(s, value'[s])
                     \/ PayBack(s, held[s] - held'[s])

SettlementSpec == SettlementInit /\ [][SettlementNext]_settlementVars
===============================================================================
