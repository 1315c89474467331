------------------------------ MODULE MCBilling ------------------------------
(***************************************************************************)
(* A small instance of Billing that keeps two profiles in one state space: *)
(* the whole history of a sale and its return within a year, and fewer     *)
(* documents of two sales around the end of a year.                        *)
(***************************************************************************)
EXTENDS FiscalReports, TLC

OverTwoYears == year > 1 \/ \E x \in Series : series[x].year > 1
Invoices == \E x \in Series : series[x].type \in {"F1", "R1"}

Issues == Cardinality({k \in Keys : doc[k] # NoDocument})

SwitchedOff(x) == series[x] # NoSeries /\ ~series[x].active

Profile ==
    /\ Cardinality({x \in Series : SwitchedOff(x)}) <= 1
    /\ Invoices => Issues <= 2
    /\ OverTwoYears => /\ \A r \in Returns : retSale[r] = None
                       /\ ~Invoices /\ Issues <= 2
                       /\ \E x \in Series : series[x] = NoSeries

Symmetry == Permutations(Sales) \cup Permutations(Keys)
                \cup Permutations(Series) \cup Permutations(Commands)
===============================================================================
