------------------------------ MODULE MCCheckout ------------------------------
(* Small instances of Checkout: the keys of the pages and of other payments. *)
EXTENDS Checkout, FiniteSets

CONSTANTS
    SplitForms,           \* the pages that can split a payment
    OtherKeys             \* keys of payments registered from other pages

MCKeys == Forms \X {0} \cup SplitForms \X {1, 2} \cup OtherKeys

Symmetry == Permutations(Forms) \cup Permutations(Requests)
              \cup Permutations(Sessions)

(* A sale of one total, that lacks one thing at a time to be documented. *)
Settling == \A s \in Sales : total[s] \in {0, MaxTotal} /\ Cardinality(lacking[s]) <= 1

(* Two lives of one sale.  Racing: requests of two pages without cash sessions,
   while returns or documents of other pages overtake them. *)
PaidByCardAtOnce(i) == i.method \notin CashMethods /\ i.key[2] = 0
Racing ==
    /\ \A x \in Sessions : sessState[x] = "unopened"
    /\ \A q \in Requests : \A n \in DOMAIN intents[q] :
          PaidByCardAtOnce(intents[q][n])
    /\ \A s \in Sales : doc[s] = Direct => \A r \in Returns : retSale[r] = None

(* Recovering: one request at a time, payments split between cash and card from
   one of the pages, and the session of the sale closed between its payments. *)
IsSplit(f) ==
    \/ \E q \in Requests : \E n \in DOMAIN intents[q] :
          intents[q][n].key \in {<<f, 1>>, <<f, 2>>}
    \/ \E i \in {1, 2} : payment[<<f, i>>].kind # "none"
Recovering ==
    /\ \A r \in Returns : retSale[r] = None
    /\ Cardinality({q \in Requests : pc[q] # "idle"}) <= 1
    /\ Cardinality({f \in Forms : IsSplit(f)}) <= 1
    /\ \A s \in Sales : /\ doc[s] # Direct /\ total[s] \in {0, MaxTotal}
                        /\ status[s] # "open" => saleSession[s] # None

Profile == Racing \/ Recovering
===============================================================================
