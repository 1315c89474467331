---------------------------- MODULE MCCashRegister ----------------------------
(* Small instances of CashRegister. *)
EXTENDS CashRegister, FiniteSets, TLC

CashSymmetry ==
    Permutations(Stores) \cup Permutations(Dialogs) \cup Permutations(Sessions)

(* Registers are interchangeable too: one of them is created first. *)
FirstRegister == CHOOSE r \in Registers : TRUE
RegistersInOrder ==
    (\E r \in Registers : regStore[r] # None) => regStore[FirstRegister] # None

(* Two lives of the same system: stores, registers and sessions come and go with
   empty drawers, or one drawer is worked with while its register is opened again,
   with two pages at once while only one session was opened, and empty. *)
EmptyDrawers ==
    /\ \A x \in Sessions : opening[x] = 0 /\ moves[x] = <<>>
    /\ \A p \in Dialogs : dialog[p].kind \in {"none", "close"}
                          /\ dialog[p].amount = 0
    /\ Cardinality({p \in Dialogs : dialog[p] # NoDialog}) <= 1
UsedSessions ==
    {x \in Sessions : opening[x] > 0 \/ moves[x] # <<>> \/ counts[x] # <<>>}
      \cup ({dialog[p].session : p \in Dialogs} \ {None})
OneDrawer ==
    /\ Cardinality(stores) = 1 /\ stores = default /\ overwritten = {}
    /\ \A e \in Editors : edit[e] = NoEdit
    /\ \E r \in Registers : /\ activeRegs = {r}
                            /\ \A q \in Registers \ {r} : regStore[q] = None
    /\ Cardinality(UsedSessions) <= 1
    /\ \/ Cardinality({p \in Dialogs : dialog[p] # NoDialog}) <= 1
       \/ /\ \A x \in Sessions : opening[x] = 0
          /\ \E x \in Sessions : sessState[x] = "unopened"
    /\ \A p \in Dialogs : /\ dialog[p].reason => dialog[p].amount < 0
                          /\ dialog[p].kind = "review" => dialog[p].amount = 0

Profile == RegistersInOrder /\ (EmptyDrawers \/ OneDrawer)
===============================================================================
