--------------------------------- MODULE Locks ---------------------------------
(***************************************************************************)
(* The row locks of the program's transactions.                            *)
(*                                                                         *)
(* A service is one transaction.  It locks rows with select_for_update, in *)
(* the order of its statements; a statement that joins other tables with   *)
(* select_related, and does not restrict the lock with of=("self",), locks *)
(* the rows of every joined table.  When it commits, the database checks   *)
(* the foreign keys of the rows it inserted or changed: it takes a share   *)
(* lock of the rows they name, the business first.  Locks are released     *)
(* when the transaction ends.  Transactions that wait in a circle are      *)
(* found by the database, which ends one of them with an error.            *)
(*                                                                         *)
(* One business, with one store, one customer and one series; rows that    *)
(* are locked only together with a row of the model (lines under their     *)
(* sale, return or purchase) and rows of users are left out.               *)
(***************************************************************************)
EXTENDS Integers, Sequences, SequencesExt

CONSTANTS
    Requests,             \* requests, each running one service at a time
    Sales,                \* sales, each with a return of its own
    Drawers,              \* cash sessions, each of a register of its own
    Products,             \* products with an inventory record, by their keys
    NoDrawer,             \* no cash session
    MaxLines              \* bound on the lines of a sale, a return or a receipt

ASSUME LocksAssumption ==
    Products \subseteq Nat /\ NoDrawer \notin Drawers /\ MaxLines \in Nat

VARIABLES
    work,                 \* work[q]: the service request q runs
    taken                 \* taken[q]: the locks of its plan that it has

lockVars == <<work, taken>>

Business == <<"business">>
Store == <<"store">>
Customer == <<"customer">>
CustomerAccount == <<"account">>
Series == <<"series">>
Session(x) == <<"session", x>>
Register(x) == <<"register", x>>
Sale(s) == <<"sale", s>>
Return(s) == <<"return", s>>
Item(i) == <<"item", i>>
Product(i) == <<"product", i>>
-------------------------------------------------------------------------------
ForUpdate(row) == [row |-> row, mode |-> "update"]
ForShare(row) == [row |-> row, mode |-> "share"]

(* payments._cash_context, cash_register.get_cash_session_for_update *)
Drawer(x) == IF x = NoDrawer THEN <<>> ELSE <<Session(x), Register(x)>>

(* CustomerAccountService._get_locked_account *)
Account == <<CustomerAccount, Business, Customer>>

(* increase_stock, decrease_stock: the record with its joined rows *)
Stock(i) == <<Item(i), Business, Store, Product(i)>>
Moved(items) ==
    [n \in 1 .. 4 * Len(items) |-> Stock(items[(n + 3) \div 4])[1 + ((n - 1) % 4)]]

(* sales._lock_return *)
ReturnRows(s) == <<Return(s), Business, Store, Sale(s)>>

(* A service and the locks it takes, in order. *)
Service(name, locked, checked) ==
    [name |-> name,
     plan |-> [n \in 1 .. Len(locked) + Len(checked) |->
                  IF n <= Len(locked) THEN ForUpdate(locked[n])
                                      ELSE ForShare(checked[n - Len(locked)])]]
-------------------------------------------------------------------------------
NoWork == Service("none", <<>>, <<>>)

(* Carts, payments, documents and drawers. *)
CreateSale(x) ==
    Service("create_sale", <<>>,
            <<Business>> \o (IF x = NoDrawer THEN <<>> ELSE <<Register(x), Session(x)>>)
              \o <<Customer, Store>>)
EditCart(s, i) == Service("edit_cart", <<Sale(s)>>, <<Business, Product(i)>>)
UpdateHeader(s) == Service("update_header", <<Sale(s)>>, <<Customer>>)

(* A faulty variant that takes the session before the sale. *)
AttachSessionFirst(s, x) ==
    Service("attach_session", <<Session(x), Sale(s)>>, <<Register(x)>>)

AttachSession(s, x) ==
    Service("attach_session", <<Sale(s), Session(x)>>, <<Register(x)>>)

(* The lines are completed in the order of their products. *)
CompleteSale(s, x, items) ==
    Service("complete_sale",
            <<Sale(s)>> \o (IF x = NoDrawer THEN <<>> ELSE <<Session(x)>>)
              \o Moved(items),
            <<Business, Store>>)

PaySale(s, x, debt) ==
    Service("pay_sale",
            <<Sale(s)>> \o Drawer(x) \o (IF debt THEN Account ELSE <<>>),
            <<Business, Store>>)
ChargeOnAccount(s) == Service("charge_on_account", <<Sale(s)>> \o Account, <<Store>>)
UpdateAccount == Service("update_account", Account, <<>>)
UpdateCustomer == Service("update_customer", <<Customer>>, <<>>)

(* The document names the session of the sale only when the sale has one. *)
Documented(x) ==
    <<Business>> \o (IF x = NoDrawer THEN <<>> ELSE <<Register(x), Session(x)>>)
      \o <<Customer, Store>>
IssueDocument(s, x) ==
    Service("issue_document", <<Sale(s), Series>>, Documented(x))
IssueRectification(s, x) ==
    Service("issue_rectification", <<Return(s), Sale(s), Series>>, Documented(x))

WorkDrawer(x) == Service("work_drawer", Drawer(x), <<Business, Store>>)
DraftReturn(s) == Service("create_return", <<Sale(s)>>, <<Business, Store>>)

(* Services that hold the row of the business, the store or a product while they
   wait for another row. *)
EditReturn(s) == Service("edit_return", ReturnRows(s), <<>>)
FinishReturn(s, items) ==
    Service("complete_return", ReturnRows(s) \o Moved(items) \o Account, <<>>)
Refund(s, x) ==
    Service("refund", <<Return(s), Store, Sale(s)>> \o Drawer(x), <<Business>>)
ManageRegister(x) ==
    Service("manage_register", <<Business, Store, Register(x)>>, <<>>)
ManageStore == Service("manage_store", <<Business, Store>>, <<>>)
AdjustStock(i) == Service("adjust_stock", Stock(i), <<>>)
ConfirmAdjustment(items) ==
    Service("confirm_adjustment", <<Business, Store>> \o Moved(items), <<>>)

(* The lines of an order and of a receipt are taken in the order of their own keys
   or of their products, the records of a receipt in the order of the products. *)
OrderPurchase(items) ==
    Service("order_purchase", [n \in DOMAIN items |-> Product(items[n])], <<>>)
ReceivePurchase(items, sorted) ==
    Service("receive_purchase",
            [n \in DOMAIN items |-> Product(items[n])]
              \o [n \in DOMAIN sorted |-> Item(sorted[n])] \o Moved(items),
            <<>>)
-------------------------------------------------------------------------------
(* The products of the lines of a sale, a return, an adjustment or a receipt, in any
   order or in that of their keys. *)
Baskets == UNION {{l \in [1 .. n -> Products] : IsInjective(l)} : n \in 1 .. MaxLines}
Sorted == {l \in Baskets : \A m, n \in DOMAIN l : m < n => l[m] < l[n]}
Arranged == {p \in Baskets \X Sorted : ToSet(p[1]) = ToSet(p[2])}
MaybeDrawer == Drawers \cup {NoDrawer}

Services ==
    {CreateSale(x) : x \in MaybeDrawer}
    \cup {EditCart(s, i) : s \in Sales, i \in Products}
    \cup {UpdateHeader(s) : s \in Sales}
    \cup {AttachSession(s, x) : s \in Sales, x \in Drawers}
    \cup {CompleteSale(s, x, l) : s \in Sales, x \in MaybeDrawer, l \in Sorted \cup {<<>>}}
    \cup {PaySale(s, x, debt) : s \in Sales, x \in MaybeDrawer, debt \in BOOLEAN}
    \cup {ChargeOnAccount(s) : s \in Sales}
    \cup {UpdateAccount, UpdateCustomer}
    \cup {IssueDocument(s, x) : s \in Sales, x \in MaybeDrawer}
    \cup {IssueRectification(s, x) : s \in Sales, x \in MaybeDrawer}
    \cup {WorkDrawer(x) : x \in Drawers}
    \cup {DraftReturn(s) : s \in Sales}
    \cup {EditReturn(s) : s \in Sales}
    \cup {FinishReturn(s, l) : s \in Sales, l \in Baskets}
    \cup {Refund(s, x) : s \in Sales, x \in MaybeDrawer}
    \cup {ManageRegister(x) : x \in Drawers}
    \cup {ManageStore}
    \cup {AdjustStock(i) : i \in Products}
    \cup {ConfirmAdjustment(l) : l \in Baskets}
    \cup {OrderPurchase(l) : l \in Baskets}
    \cup {ReceivePurchase(p[1], p[2]) : p \in Arranged}
-------------------------------------------------------------------------------
Running(q) == work[q] # NoWork
Waits(q) == Running(q) /\ taken[q] < Len(work[q].plan)
Wanted(q) == work[q].plan[taken[q] + 1]
Held(q) == IF Running(q) THEN {work[q].plan[n] : n \in 1 .. taken[q]} ELSE {}

Conflict(a, b) == a.row = b.row /\ "update" \in {a.mode, b.mode}
Blocks(p, q) == p # q /\ Waits(q) /\ \E lock \in Held(p) : Conflict(lock, Wanted(q))

(* Every one of these requests waits for another of them. *)
Circle(C) == C # {} /\ \A q \in C : \E p \in C : Blocks(p, q)

LocksInit == work = [q \in Requests |-> NoWork] /\ taken = [q \in Requests |-> 0]

Start(q, o) ==
    /\ ~Running(q)
    /\ work' = [work EXCEPT ![q] = o]
    /\ UNCHANGED taken

Lock(q) ==
    /\ Waits(q) /\ \A p \in Requests : ~Blocks(p, q)
    /\ taken' = [taken EXCEPT ![q] = @ + 1]
    /\ UNCHANGED work

End(q) ==
    /\ work' = [work EXCEPT ![q] = NoWork]
    /\ taken' = [taken EXCEPT ![q] = 0]

Commit(q) == Running(q) /\ ~Waits(q) /\ End(q)

(* A rule of the service is not met. *)
Refuse(q) == Waits(q) /\ taken[q] > 0 /\ (\A p \in Requests : ~Blocks(p, q)) /\ End(q)

(* The database ends one of the requests of a circle. *)
Deadlock(q) == (\E C \in SUBSET Requests : q \in C /\ Circle(C)) /\ End(q)

LocksNext ==
    \E q \in Requests :
        \/ \E o \in Services : Start(q, o)
        \/ Lock(q) \/ Commit(q) \/ Refuse(q) \/ Deadlock(q)

LocksSpec == LocksInit /\ [][LocksNext]_lockVars
-------------------------------------------------------------------------------
(* The order in which the services take the rows they work on, and after them those
   they only refer to. *)
Rank(row) ==
    CASE row[1] = "return" -> 1 [] row[1] = "sale" -> 2 [] row[1] = "session" -> 3
      [] row[1] = "register" -> 4 [] row[1] = "item" -> 5 [] row[1] = "account" -> 6
      [] row[1] = "series" -> 7 [] row[1] = "business" -> 8 [] row[1] = "customer" -> 9
      [] row[1] = "store" -> 10 [] row[1] = "product" -> 11

(* The rows that everything refers to. *)
Common(row) == row[1] \in {"business", "store", "product"}

(* The request holds such a row and waits for one that is not after it. *)
Inverted(q) ==
    /\ Waits(q)
    /\ \E lock \in Held(q) : Common(lock.row) /\ Rank(Wanted(q).row) <= Rank(lock.row)

(* Requests of all the services wait in a circle only if one of them holds the row of
   the business, the store or a product, taken by a join or a foreign key, while it
   waits for a row before it: among the rows the services mean to lock, the return
   before the sale, the sale before its session (sales.complete_sale), the session
   before the stock and the account, none is ever waited for in a circle. *)
CirclesAreInversions ==
    \A C \in SUBSET Requests : Circle(C) => \E q \in C : Inverted(q)
===============================================================================
