------------------------------ MODULE Purchases ------------------------------
(***************************************************************************)
(* Purchase orders of one store and their receipts, together with the      *)
(* stock they fill: apps/purchases/services.py and its views, on top of    *)
(* Inventory.                                                              *)
(*                                                                         *)
(* A service holds the lock of its order, so it is one action.  The page   *)
(* that receives goods is not: its view looks at the order and at the      *)
(* receipts without a lock (Submit), the service locks the order later     *)
(* (Register...), and the browser submits the same page again, with the    *)
(* same key, when an answer is late.                                       *)
(***************************************************************************)
EXTENDS Inventory, SequencesExt, FiniteSets, Sums

CONSTANTS
    Orders, OrderLines,   \* Purchase and PurchaseLine rows
    Keys,                 \* idempotency keys, one for each receipt page
    Attempts              \* submissions of receipt pages

ASSUME PurchasesAssumption ==
    /\ NoOne \notin Orders \cup OrderLines \cup Keys
    /\ IsFiniteSet(OrderLines)

VARIABLES
    orderStatus,          \* Purchase.status
    orderLine,            \* the PurchaseLine rows
    receipt,              \* receipt[k]: the PurchaseReceipt of key k, its lines
    arrivals,             \* which movement belongs to which receipt line
    attempt,              \* attempt[q]: what a page submitted, and its answer
    catalog               \* is_active of products, supplier, store; stock control

purchaseVars == <<orderStatus, orderLine, receipt, arrivals, attempt, catalog>>
allVars == <<inventoryVars, purchaseVars>>

NoRow == [order |-> NoOne, item |-> NoOne, ordered |-> 0, received |-> 0]
NoReceipt == [order |-> NoOne, lines |-> [n \in OrderLines |-> 0], tracked |-> {}]
NoAttempt == [key |-> NoOne, order |-> NoOne, lines |-> [n \in OrderLines |-> 0],
              stage |-> "idle"]

Row == [order : Orders \cup {NoOne}, item : Items \cup {NoOne}, ordered : Nat,
        received : Nat]
Amounts == [OrderLines -> 0 .. MaxStock]
Receipt == [order : Orders \cup {NoOne}, lines : Amounts, tracked : SUBSET OrderLines]
Attempt == [key : Keys \cup {NoOne}, order : Orders \cup {NoOne}, lines : Amounts,
            stage : {"idle", "checked", "registered", "refused"}]
Arrival == [item : Items, at : Nat, key : Keys, line : OrderLines]
Catalog == [sold : SUBSET Items, tracked : SUBSET Items, supplier : BOOLEAN,
            store : BOOLEAN]

(* Every variable keeps its type; a receipt tracks only lines it received. *)
PurchasesTypeOK ==
    /\ InventoryTypeOK
    /\ orderStatus \in [Orders -> {"none", "draft", "ordered", "partially_received",
                                   "received", "cancelled"}]
    /\ orderLine \in [OrderLines -> Row]
    /\ receipt \in [Keys -> Receipt]
    /\ \A k \in Keys : \A n \in receipt[k].tracked : receipt[k].lines[n] > 0
    /\ arrivals \subseteq Arrival
    /\ attempt \in [Attempts -> Attempt]
    /\ catalog \in Catalog

PurchasesInit ==
    /\ InventoryInit
    /\ orderStatus = [o \in Orders |-> "none"]
    /\ orderLine = [n \in OrderLines |-> NoRow]
    /\ receipt = [k \in Keys |-> NoReceipt]
    /\ arrivals = {}
    /\ attempt = [q \in Attempts |-> NoAttempt]
    /\ catalog = [sold |-> Items, tracked |-> Items, supplier |-> TRUE, store |-> TRUE]
-------------------------------------------------------------------------------
RowsOf(o) == {n \in OrderLines : orderLine[n].order = o}

CreatePurchase(o) ==
    /\ orderStatus[o] = "none"
    /\ catalog.store /\ catalog.supplier
    /\ orderStatus' = [orderStatus EXCEPT ![o] = "draft"]
    /\ UNCHANGED <<inventoryVars, orderLine, receipt, arrivals, attempt, catalog>>

(* _validate_draft, under the lock. *)
Editable(o) == orderStatus[o] = "draft"

WriteRow(n, row) ==
    /\ catalog.store
    /\ orderLine' = [orderLine EXCEPT ![n] = row]
    /\ UNCHANGED <<inventoryVars, orderStatus, receipt, arrivals, attempt, catalog>>

AddPurchaseLine(o, n, i, x) ==
    /\ Editable(o) /\ orderLine[n] = NoRow
    /\ i \in catalog.sold
    /\ WriteRow(n, [order |-> o, item |-> i, ordered |-> x, received |-> 0])

UpdatePurchaseLine(n, x) ==
    /\ orderLine[n] # NoRow /\ Editable(orderLine[n].order)
    /\ WriteRow(n, [orderLine[n] EXCEPT !.ordered = x])

DeletePurchaseLine(n) ==
    /\ orderLine[n] # NoRow /\ Editable(orderLine[n].order)
    /\ WriteRow(n, NoRow)

(* Ordering an order again changes nothing. *)
OrderPurchase(o) ==
    /\ orderStatus[o] = "draft"
    /\ catalog.store /\ catalog.supplier
    /\ RowsOf(o) # {}
    /\ \A n \in RowsOf(o) : orderLine[n].item \in catalog.sold
    /\ orderStatus' = [orderStatus EXCEPT ![o] = "ordered"]
    /\ UNCHANGED <<inventoryVars, orderLine, receipt, arrivals, attempt, catalog>>

(* An inactive store does not keep its orders from being cancelled. *)
CancelPurchase(o) ==
    /\ orderStatus[o] \in {"draft", "ordered"}
    /\ \A k \in Keys : receipt[k].order # o
    /\ \A n \in RowsOf(o) : orderLine[n].received = 0
    /\ orderStatus' = [orderStatus EXCEPT ![o] = "cancelled"]
    /\ UNCHANGED <<inventoryVars, orderLine, receipt, arrivals, attempt, catalog>>

(* The catalogue, the directory of suppliers, the store and the settings. *)
ChangeCatalog ==
    /\ \/ \E i \in Items, f \in {"sold", "tracked"} :
             catalog' = [catalog EXCEPT ![f] = IF i \in @ THEN @ \ {i} ELSE @ \cup {i}]
       \/ \E f \in {"supplier", "store"} : catalog' = [catalog EXCEPT ![f] = ~@]
    /\ UNCHANGED <<inventoryVars, orderStatus, orderLine, receipt, arrivals, attempt>>
-------------------------------------------------------------------------------
Receivable(o) == orderStatus[o] \in {"ordered", "partially_received"}

(* A faulty variant of the view that knows nothing of retries. *)
ViewAcceptsNew(k, o) == Receivable(o)

(* An order all of which was received still takes the retry of a receipt. *)
ViewAccepts(k, o) ==
    \/ Receivable(o)
    \/ orderStatus[o] = "received" /\ receipt[k].order = o

(* A page opened for an order that was placed is submitted, for the first time or
   again, with the lines it has now. *)
Submit(q, k, o, lines) ==
    /\ attempt[q].stage # "checked"
    /\ orderStatus[o] \notin {"none", "draft"}
    /\ \A p \in Attempts : attempt[p].key = k => attempt[p].order = o
    /\ \E n \in OrderLines : lines[n] > 0
    /\ \A n \in OrderLines : lines[n] > 0 => n \in RowsOf(o)
    /\ attempt' = [attempt EXCEPT ![q] =
           [key |-> k, order |-> o, lines |-> lines,
            stage |-> IF ViewAccepts(k, o) THEN "checked" ELSE "refused"]]
    /\ UNCHANGED <<inventoryVars, orderStatus, orderLine, receipt, arrivals, catalog>>

Answer(q, stage) == attempt' = [attempt EXCEPT ![q].stage = stage]

(* A faulty variant: any receipt of the key answers the retry. *)
SameKey(a) == receipt[a.key].order = a.order

(* The fingerprint: business, order, store and lines. *)
SameReceipt(a) ==
    receipt[a.key].order = a.order /\ receipt[a.key].lines = a.lines

(* The key was used: the same receipt again, or a conflict. *)
AnswerFromReceipt(q) ==
    /\ attempt[q].stage = "checked"
    /\ receipt[attempt[q].key] # NoReceipt
    /\ Answer(q, IF SameReceipt(attempt[q]) THEN "registered" ELSE "refused")
    /\ UNCHANGED <<inventoryVars, orderStatus, orderLine, receipt, arrivals, catalog>>

Requested(a) == {n \in OrderLines : a.lines[n] > 0}

(* A faulty variant that takes every line of the order for a received one. *)
TrackedRows(a) == {n \in RowsOf(a.order) : orderLine[n].item \in catalog.tracked}

TrackedLines(a) == {n \in Requested(a) : orderLine[n].item \in catalog.tracked}
TrackedItems(a) == {orderLine[n].item : n \in TrackedLines(a)}

(* A faulty variant that compares with what was ordered, as the row's clean does. *)
FitsOrdered(a) ==
    \A n \in Requested(a) : a.lines[n] <= orderLine[n].ordered

(* No line receives more than what is left of it. *)
Fits(a) ==
    \A n \in Requested(a) :
        a.lines[n] <= orderLine[n].ordered - orderLine[n].received

(* What the service asks of a receipt with a new key, under the lock of its order. *)
Acceptable(a) ==
    /\ Receivable(a.order) /\ catalog.store
    /\ Fits(a)
    /\ \A i \in TrackedItems(a) : record[i] # "inactive"

RefuseReceipt(q) ==
    /\ attempt[q].stage = "checked"
    /\ receipt[attempt[q].key] = NoReceipt
    /\ ~Acceptable(attempt[q])
    /\ Answer(q, "refused")
    /\ UNCHANGED <<inventoryVars, orderStatus, orderLine, receipt, arrivals, catalog>>

LinesOn(a, i) == {n \in TrackedLines(a) : orderLine[n].item = i}

(* What the first j of the lines s bring. *)
Brought(lines, s, j) ==
    UnitSum([m \in DOMAIN s |-> IF m <= j THEN lines[s[m]] ELSE 0])

(* The movements of one item, for its lines in the order s. *)
ArrivalRows(i, lines, s) ==
    [j \in DOMAIN s |-> Movement(stock[i] + Brought(lines, s, j - 1),
                                 stock[i] + Brought(lines, s, j), NoOne)]

(* A faulty variant that relates only the first movement of an item. *)
FirstOfItem(i, k, s) ==
    {[item |-> i, at |-> Len(moves[i]) + j, key |-> k, line |-> s[j]] :
        j \in DOMAIN s \cap {1}}

ArrivalsOf(i, k, s) ==
    {[item |-> i, at |-> Len(moves[i]) + j, key |-> k, line |-> s[j]] :
        j \in DOMAIN s}

(* A faulty variant: the lines that came decide, not all the lines of the order. *)
StatusOfRequested(o, after) ==
    IF \A n \in RowsOf(o) : after[n].received \in {0, after[n].ordered}
    THEN "received" ELSE "partially_received"

StatusAfter(o, after) ==
    IF \A n \in RowsOf(o) : after[n].received = after[n].ordered
    THEN "received" ELSE "partially_received"

AfterReceipt(a) ==
    [n \in OrderLines |-> [orderLine[n] EXCEPT !.received = @ + a.lines[n]]]

(* The receipt, its lines, one movement for each tracked line, the quantities and
   the status of the order, in one transaction. *)
Receive(q) ==
    LET a == attempt[q] IN
    /\ a.stage = "checked"
    /\ receipt[a.key] = NoReceipt
    /\ Acceptable(a)
    /\ receipt' = [receipt EXCEPT ![a.key] =
           [order |-> a.order, lines |-> a.lines, tracked |-> TrackedLines(a)]]
    /\ record' = [i \in Items |-> IF i \in TrackedItems(a) THEN "active" ELSE record[i]]
    /\ \E s \in [Items -> UNION {SetToSeqs(LinesOn(a, i)) : i \in Items}] :
           /\ \A i \in Items : s[i] \in SetToSeqs(LinesOn(a, i))
           /\ \A i \in TrackedItems(a) :
                  /\ Len(moves[i]) + Len(s[i]) <= MaxMoves
                  /\ stock[i] + Brought(a.lines, s[i], Len(s[i])) <= MaxStock
           /\ stock' = [i \in Items |-> stock[i] + Brought(a.lines, s[i], Len(s[i]))]
           /\ moves' = [i \in Items |-> moves[i] \o ArrivalRows(i, a.lines, s[i])]
           /\ arrivals' = arrivals \cup
                  UNION {ArrivalsOf(i, a.key, s[i]) : i \in Items}
    /\ orderLine' = AfterReceipt(a)
    /\ orderStatus' = [orderStatus EXCEPT ![a.order] =
                          StatusAfter(a.order, AfterReceipt(a))]
    /\ Answer(q, "registered")
    /\ UNCHANGED <<status, line, gone, request, catalog>>

OrderStep(o) ==
    \/ CreatePurchase(o) \/ OrderPurchase(o) \/ CancelPurchase(o)
    \/ \E n \in OrderLines, i \in Items, x \in Quantities : AddPurchaseLine(o, n, i, x)

RowStep(n) ==
    \/ \E x \in Quantities : UpdatePurchaseLine(n, x)
    \/ DeletePurchaseLine(n)

AttemptStep(q) ==
    \/ \E k \in Keys, o \in Orders, lines \in Amounts : Submit(q, k, o, lines)
    \/ AnswerFromReceipt(q) \/ RefuseReceipt(q) \/ Receive(q)

PurchasesNext ==
    \/ InventoryNext /\ UNCHANGED purchaseVars
    \/ \E o \in Orders : OrderStep(o)
    \/ \E n \in OrderLines : RowStep(n)
    \/ \E q \in Attempts : AttemptStep(q)
    \/ ChangeCatalog

PurchasesSpec == PurchasesInit /\ [][PurchasesNext]_allVars
-------------------------------------------------------------------------------
(* What the lines of an order have received is what its receipts say, and never more
   than was ordered, although two pages receive the same remainder: the service's own
   check of "histórico incoherente" never fails.  The status tells it: nothing came
   while the order can be cancelled, everything exactly when it is received. *)
ReceivedIsReceipts ==
    /\ \A n \in OrderLines :
          /\ orderLine[n].received
               = UnitSum([k \in Keys |-> receipt[k].lines[n]])
          /\ orderLine[n].received <= orderLine[n].ordered
    /\ \A o \in Orders :
          LET some == \E k \in Keys : receipt[k].order = o
              all == \A n \in RowsOf(o) : orderLine[n].received = orderLine[n].ordered
          IN
          /\ orderStatus[o] = "received" <=> some /\ all
          /\ orderStatus[o] = "partially_received" <=> some /\ ~all

(* Each line that arrived while its product was tracked has exactly one movement, of
   its quantity, and no other line has any: a receipt that is repeated moves no stock
   again, and one refused for an inactive record moved none of its lines. *)
ArrivalsAreReceipts ==
    \A i \in Items, k \in Keys, n \in OrderLines :
        LET rows == {a \in arrivals : a.item = i /\ a.key = k /\ a.line = n} IN
        IF n \in receipt[k].tracked /\ orderLine[n].item = i
        THEN \E a \in rows :
                /\ rows = {a}
                /\ a.at \in 1 .. Len(moves[i])
                /\ moves[i][a.at].after - moves[i][a.at].before = receipt[k].lines[n]
                /\ \A b \in arrivals : b.item = i /\ b.at = a.at => b = a
        ELSE rows = {}

(* A submission that was just refused has no receipt, and one that was told
   "registrada" has its own. *)
Told(q) ==
    LET a == attempt'[q]
        same == receipt'[a.key].order = a.order /\ receipt'[a.key].lines = a.lines
    IN
    /\ a.stage = "registered" => same
    /\ a.stage = "refused" /\ a # attempt[q] => ~same

(* What a page is told of its receipt stays true: one that was told "registrada" has
   the receipt, with its own lines, and one whose receipt exists is never refused,
   whatever other pages received or cancelled before the retry of a lost answer. *)
AnswersTellReceipts ==
    [][receipt' # receipt \/ attempt' # attempt => \A q \in Attempts : Told(q)]_allVars
==============================================================================
