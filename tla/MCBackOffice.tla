----------------------------- MODULE MCBackOffice -----------------------------
(* Three parts of the program side by side: the returns of a sale, the cash register
   and the locks of the transactions.  They share no state here, and a behaviour is
   one of one of them. *)
EXTENDS MCReturns, MCCashRegister, Locks

VARIABLE part

officeVars == <<part, returnVars, cashVars, lockVars>>

OfficeInit ==
    /\ part \in {"returns", "cash", "locks"}
    /\ ReturnsInit /\ CashInit /\ LocksInit
    /\ part # "returns" => \A l \in Lines : sold[l] = CHOOSE s \in SoldAs[l] : Sellable(s)

OfficeNext ==
    /\ UNCHANGED part
    /\ \/ part = "returns" /\ ReturnsNext /\ UNCHANGED <<cashVars, lockVars>>
       \/ part = "cash" /\ CashNext /\ UNCHANGED <<returnVars, lockVars>>
       \/ part = "locks" /\ LocksNext /\ UNCHANGED <<returnVars, cashVars>>

OfficeSpec == OfficeInit /\ [][OfficeNext]_officeVars

OfficeSymmetry == ReturnsSymmetry \cup CashSymmetry
===============================================================================
