----------------------------- MODULE MCInventory -----------------------------
(* Small instances of Inventory, alone and with the orders that fill it. *)
EXTENDS Purchases

(* The elements of a small set are interchangeable: the first one is used first. *)
First(S) == CHOOSE x \in S : TRUE
FirstUsed(S, Used(_)) == \A x \in S : Used(x) => Used(First(S))

AllOn == [sold |-> Items, tracked |-> Items, supplier |-> TRUE, store |-> TRUE]

(* Two lives of one store: its stock is counted, sold and filled by hand, the first
   item more often, ... *)
Counting ==
    /\ \A o \in Orders : orderStatus[o] = "none"
    /\ catalog = AllOn
    /\ \A i \in Items : Len(moves[i]) <= Len(moves[First(Items)])
    /\ \A i \in Items \ {First(Items)} :
          Len(moves[i]) <= 1 /\ stock[i] <= 1 /\ record[i] # "inactive"
    /\ \A l \in Lines : line[l].counted <= 1
    /\ \A e \in Editors : request[e].counted <= 1
    /\ FirstUsed(Lines, LAMBDA l : ~Fresh(l))

(* ... or an order of two units fills it, with one thing out of order at a time:
   of what the draft depends on, or of what its receipts depend on. *)
Placed == \E o \in Orders : orderStatus[o] \notin {"none", "draft"}
Unexplained(i) ==
    \/ record[i] = "inactive"
    \/ record[i] = "active" /\ moves[i] = <<>>
Off == {<<"sold", i>> : i \in Items \ catalog.sold}
         \cup {<<"tracked", i>> : i \in Items \ catalog.tracked}
         \cup {<<"record", i>> : i \in {j \in Items : Unexplained(j)}}
         \cup {<<f, NoOne>> : f \in {g \in {"supplier", "store"} : ~catalog[g]}}
AtMostTwo(lines) ==
    \A n, m \in OrderLines : n # m => lines[n] + lines[m] <= 2
Receiving ==
    /\ \A a \in Adjustments : status[a] = "none"
    /\ \A e \in Editors : request[e] = Idle
    /\ \A q \in Attempts : AtMostTwo(attempt[q].lines)
    /\ AtMostTwo([n \in OrderLines |-> orderLine[n].ordered])
    /\ \A i \in Items : Len(moves[i]) = Cardinality({a \in arrivals : a.item = i})
    /\ FirstUsed(Attempts, LAMBDA q : attempt[q] # NoAttempt)
    /\ FirstUsed(OrderLines, LAMBDA n : orderLine[n] # NoRow)
    /\ FirstUsed(Keys, LAMBDA k : \/ receipt[k] # NoReceipt
                                  \/ \E q \in Attempts : attempt[q].key = k)
    /\ Cardinality(Off) <= 1
    /\ Off # {} => \A q \in Attempts \ {First(Attempts)} : attempt[q] = NoAttempt
    /\ \A f \in Off : f[1] \in (IF Placed THEN {"tracked", "record", "store"}
                                        ELSE {"sold", "supplier", "store"})

Profile == Counting \/ Receiving
===============================================================================
