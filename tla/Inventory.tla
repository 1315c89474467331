------------------------------ MODULE Inventory ------------------------------
(***************************************************************************)
(* The stock of one store (apps/inventory/services.py): the stock an item  *)
(* has now, the movements that explain it, and the adjustments by which a  *)
(* count replaces it.                                                      *)
(*                                                                         *)
(* A service that changes stock holds the lock of the item, and confirming *)
(* or cancelling holds the lock of the adjustment: one action each.  The   *)
(* pages that write the lines of a draft take no lock: what they read      *)
(* (Begin...) and what they write (Write...) are two actions, and anything *)
(* happens in between.                                                     *)
(***************************************************************************)
EXTENDS Integers, Sequences

CONSTANTS
    Items,                \* InventoryItem rows
    Adjustments,          \* StockAdjustment rows
    Lines,                \* StockAdjustmentLine rows
    Editors,              \* requests that write lines
    NoOne,                \* no item, no adjustment, no line
    AllowOversell,        \* PosSettings.allow_sale_without_stock
    MaxStock,             \* bound on a stock, above and below zero
    MaxMoves              \* bound on the movements of an item

ASSUME InventoryAssumption ==
    /\ AllowOversell \in BOOLEAN
    /\ MaxStock \in Nat /\ MaxMoves \in Nat
    /\ NoOne \notin Items \cup Adjustments \cup Lines

VARIABLES
    record,               \* the item's record: "none", "active" or "inactive"
    stock,                \* InventoryItem.current_stock
    moves,                \* StockMovement rows of the item, oldest first
    status,               \* StockAdjustment.status
    line, gone,           \* the lines of the adjustments; those deleted
    request               \* what a page that writes a line has read

inventoryVars == <<record, stock, moves, status, line, gone, request>>

Unwritten == [adj |-> NoOne, item |-> NoOne, system |-> 0, counted |-> 0]
Idle == [kind |-> "idle", line |-> NoOne, adj |-> NoOne, item |-> NoOne,
         system |-> 0, counted |-> 0]

Fresh(l) == line[l] = Unwritten
Exists(l) == ~Fresh(l) /\ l \notin gone
LinesOf(a) == {l \in Lines : Exists(l) /\ line[l].adj = a}

InventoryInit ==
    /\ record = [i \in Items |-> "none"]
    /\ stock = [i \in Items |-> 0]
    /\ moves = [i \in Items |-> <<>>]
    /\ status = [a \in Adjustments |-> "none"]
    /\ line = [l \in Lines |-> Unwritten] /\ gone = {}
    /\ request = [e \in Editors |-> Idle]

Quantities == 1 .. MaxStock
Counts == 0 .. MaxStock
-------------------------------------------------------------------------------
(* Records and movements. *)
CreateItem(i) ==
    /\ record[i] = "none"
    /\ record' = [record EXCEPT ![i] = "active"]
    /\ UNCHANGED <<stock, moves, status, line, gone, request>>

(* A faulty variant whose form saves the whole row it read at some earlier time. *)
UpdateWholeRow(i) ==
    /\ record[i] # "none"
    /\ \E k \in 1 .. Len(moves[i]) : stock' = [stock EXCEPT ![i] = moves[i][k].before]
    /\ UNCHANGED <<record, moves, status, line, gone, request>>

(* The settings form writes no stock. *)
UpdateSettings(i) ==
    /\ record[i] # "none"
    /\ record' = [record EXCEPT ![i] = IF record[i] = "active" THEN "inactive"
                                                                ELSE "active"]
    /\ UNCHANGED <<stock, moves, status, line, gone, request>>

(* One movement, with the stock it found and the stock it leaves. *)
Movement(before, after, l) == [before |-> before, after |-> after, line |-> l]

SetStock(i, after) ==
    /\ Len(moves[i]) < MaxMoves
    /\ stock' = [stock EXCEPT ![i] = after]
    /\ moves' = [moves EXCEPT ![i] = Append(moves[i], Movement(stock[i], after, NoOne))]

InitialStock(i, q) ==
    /\ record[i] = "active"
    /\ moves[i] = <<>> /\ stock[i] = 0
    /\ SetStock(i, q)
    /\ UNCHANGED <<record, status, line, gone, request>>

(* A receipt of goods or a return. *)
IncreaseStock(i, q) ==
    /\ record[i] = "active"
    /\ stock[i] + q <= MaxStock
    /\ SetStock(i, stock[i] + q)
    /\ UNCHANGED <<record, status, line, gone, request>>

(* A faulty variant that asks for some stock, whatever is sold. *)
SufficesAnyway(i, q) == AllowOversell \/ stock[i] >= 1

(* Nothing is ever reserved, so what is available is the stock. *)
Suffices(i, q) == AllowOversell \/ stock[i] >= q

(* A sale. *)
DecreaseStock(i, q) ==
    /\ record[i] = "active"
    /\ Suffices(i, q)
    /\ stock[i] - q >= -MaxStock
    /\ SetStock(i, stock[i] - q)
    /\ UNCHANGED <<record, status, line, gone, request>>
-------------------------------------------------------------------------------
(* Adjustments.  Preparing one moves nothing. *)
CreateAdjustment(a) ==
    /\ status[a] = "none"
    /\ status' = [status EXCEPT ![a] = "draft"]
    /\ UNCHANGED <<record, stock, moves, line, gone, request>>

(* What the page read: the adjustment was a draft and the item active; the stock
   it read becomes the one the count is made against. *)
Read(e, kind, l, a, i, n) ==
    /\ request[e] = Idle
    /\ request' = [request EXCEPT ![e] =
           [kind |-> kind, line |-> l, adj |-> a, item |-> i,
            system |-> IF i = NoOne THEN 0 ELSE stock[i], counted |-> n]]
    /\ UNCHANGED <<record, stock, moves, status, line, gone>>

BeginAdd(e, a, i, n) ==
    /\ status[a] = "draft" /\ record[i] = "active"
    /\ Read(e, "add", NoOne, a, i, n)

BeginUpdate(e, l, i, n) ==
    /\ Exists(l) /\ status[line[l].adj] = "draft" /\ record[i] = "active"
    /\ Read(e, "update", l, line[l].adj, i, n)

BeginDelete(e, l) ==
    /\ Exists(l) /\ status[line[l].adj] = "draft"
    /\ Read(e, "delete", l, line[l].adj, NoOne, 0)

BeginQuick(e, i, n) ==
    /\ record[i] = "active"
    /\ Read(e, "quick", NoOne, NoOne, i, n)

(* An adjustment has one line per item: checked, and a constraint of the table. *)
ItemFree(a, i, l) == \A m \in LinesOf(a) \ {l} : line[m].item # i

Written(r, a) == [adj |-> a, item |-> r.item, system |-> r.system,
                  counted |-> r.counted]

Done(e) == request' = [request EXCEPT ![e] = Idle]

WriteAdd(e) ==
    LET r == request[e] IN
    /\ r.kind = "add"
    /\ ItemFree(r.adj, r.item, NoOne)
    /\ \E l \in Lines : Fresh(l) /\ line' = [line EXCEPT ![l] = Written(r, r.adj)]
    /\ Done(e)
    /\ UNCHANGED <<record, stock, moves, status, gone>>

(* The row is written again if it was deleted meanwhile: save() inserts what it
   finds nothing to update of. *)
WriteUpdate(e) ==
    LET r == request[e] IN
    /\ r.kind = "update"
    /\ ItemFree(r.adj, r.item, r.line)
    /\ line' = [line EXCEPT ![r.line] = Written(r, r.adj)]
    /\ gone' = gone \ {r.line}
    /\ Done(e)
    /\ UNCHANGED <<record, stock, moves, status>>

(* A faulty variant of the key from movements to lines that protects nothing. *)
UnprotectedByMovements(l) == TRUE

(* Movements protect the line they come from. *)
Unreferenced(l) ==
    \A i \in Items : \A k \in 1 .. Len(moves[i]) : moves[i][k].line # l

WriteDelete(e) ==
    LET l == request[e].line IN
    /\ request[e].kind = "delete"
    /\ Unreferenced(l)
    /\ gone' = gone \cup {l}
    /\ Done(e)
    /\ UNCHANGED <<record, stock, moves, status, line>>

(* The adjustment and its line in one transaction, after the page read the item. *)
WriteQuick(e) ==
    LET r == request[e] IN
    /\ r.kind = "quick"
    /\ \E a \in Adjustments, l \in Lines :
           /\ status[a] = "none" /\ Fresh(l)
           /\ status' = [status EXCEPT ![a] = "draft"]
           /\ line' = [line EXCEPT ![l] = Written(r, a)]
    /\ Done(e)
    /\ UNCHANGED <<record, stock, moves, gone>>

(* A request that is refused when it writes, or dies, leaves nothing. *)
Fail(e) ==
    /\ request[e] # Idle
    /\ Done(e)
    /\ UNCHANGED <<record, stock, moves, status, line, gone>>

LineOn(a, i) == CHOOSE l \in LinesOf(a) : line[l].item = i
Counted(a) == {line[l].item : l \in LinesOf(a)}

(* A faulty variant that trusts the stock the count was made against. *)
CountHoldsAnyway(l) == record[line[l].item] = "active"

CountHolds(l) ==
    /\ record[line[l].item] = "active"
    /\ stock[line[l].item] = line[l].system

(* A faulty variant without the check under the lock. *)
ConfirmableAgain(a) == status[a] # "none"

Confirmable(a) == status[a] = "draft"

(* The lines are read once; the locks of the items are held to the end. *)
ConfirmAdjustment(a) ==
    LET moved == {i \in Counted(a) : line[LineOn(a, i)].counted # stock[i]} IN
    /\ Confirmable(a)
    /\ LinesOf(a) # {}
    /\ \A l \in LinesOf(a) : CountHolds(l)
    /\ \A i \in moved : Len(moves[i]) < MaxMoves
    /\ stock' = [i \in Items |-> IF i \in moved THEN line[LineOn(a, i)].counted
                                                ELSE stock[i]]
    /\ moves' = [i \in Items |->
           IF i \in moved
           THEN LET l == LineOn(a, i) IN
                Append(moves[i], Movement(stock[i], line[l].counted, l))
           ELSE moves[i]]
    /\ status' = [status EXCEPT ![a] = "confirmed"]
    /\ UNCHANGED <<record, line, gone, request>>

CancelAdjustment(a) ==
    /\ status[a] = "draft"
    /\ status' = [status EXCEPT ![a] = "cancelled"]
    /\ UNCHANGED <<record, stock, moves, line, gone, request>>

StockStep(i) ==
    \/ CreateItem(i) \/ UpdateSettings(i)
    \/ \E q \in Quantities : InitialStock(i, q) \/ IncreaseStock(i, q)
                                                \/ DecreaseStock(i, q)

AdjustmentStep(a) ==
    CreateAdjustment(a) \/ ConfirmAdjustment(a) \/ CancelAdjustment(a)

EditorStep(e) ==
    \/ \E i \in Items, n \in Counts :
           \/ \E a \in Adjustments : BeginAdd(e, a, i, n)
           \/ \E l \in Lines : BeginUpdate(e, l, i, n)
           \/ BeginQuick(e, i, n)
    \/ \E l \in Lines : BeginDelete(e, l)
    \/ WriteAdd(e) \/ WriteUpdate(e) \/ WriteDelete(e) \/ WriteQuick(e)
    \/ Fail(e)

InventoryNext ==
    \/ \E i \in Items : StockStep(i)
    \/ \E a \in Adjustments : AdjustmentStep(a)
    \/ \E e \in Editors : EditorStep(e)

InventorySpec == InventoryInit /\ [][InventoryNext]_inventoryVars
-------------------------------------------------------------------------------
RecordStates == {"none", "active", "inactive"}
AdjustmentStates == {"none", "draft", "confirmed", "cancelled"}
MovementRow == [before : Int, after : Int, line : Lines \cup {NoOne}]
Line == [adj : Adjustments \cup {NoOne}, item : Items \cup {NoOne}, system : Int,
         counted : Nat]
Request == [kind : {"idle", "add", "update", "delete", "quick"},
            line : Lines \cup {NoOne}, adj : Adjustments \cup {NoOne},
            item : Items \cup {NoOne}, system : Int, counted : Nat]

InventoryTypeOK ==
    /\ record \in [Items -> RecordStates]
    /\ stock \in [Items -> Int]
    /\ moves \in [Items -> Seq(MovementRow)]
    /\ status \in [Adjustments -> AdjustmentStates]
    /\ line \in [Lines -> Line] /\ gone \subseteq Lines
    /\ request \in [Editors -> Request]
    /\ \A l \in Lines : ~Fresh(l) => line[l].adj \in Adjustments

(* The stock of an item is the last of its movements, each of which starts where the
   one before ended: whatever sales, receipts, returns and counts do at once, the
   history explains the stock ("si cambia current_stock, debe crearse
   StockMovement", services.py:4). *)
StockIsLedger ==
    \A i \in Items :
        LET n == Len(moves[i]) IN
        /\ stock[i] = IF n = 0 THEN 0 ELSE moves[i][n].after
        /\ \A k \in 1 .. n :
               moves[i][k].before = IF k = 1 THEN 0 ELSE moves[i][k - 1].after

(* Unless the shop sells what it does not have, two sales of the last unit, a count
   and a receipt in any order leave no stock below zero. *)
NoOversell == AllowOversell \/ \A i \in Items : stock[i] >= 0

(* A count moves stock once, and only if its adjustment was confirmed: not by a
   second confirmation, nor by a draft that was cancelled or is edited meanwhile; and
   its line is never deleted afterwards, although a page may have read a draft. *)
CountsApplyOnce ==
    \A i, j \in Items :
        \A k \in 1 .. Len(moves[i]), m \in 1 .. Len(moves[j]) :
            moves[i][k].line # NoOne =>
                /\ Exists(moves[i][k].line)
                /\ status[line[moves[i][k].line].adj] = "confirmed"
                /\ moves[i][k].line = moves[j][m].line => i = j /\ k = m

(* A count replaces the very stock it was made against: nothing sold, received,
   returned or counted between the reading of a line and its confirmation is lost in
   the difference that the confirmation applies. *)
ReplacesWhatItSaw(i) ==
    LET n == Len(moves'[i])
        l == moves'[i][n].line
    IN  n > Len(moves[i]) /\ l # NoOne =>
            /\ stock[i] = line[l].system
            /\ stock'[i] = line[l].counted

CountsReplaceWhatTheySaw ==
    [][moves' # moves => \A i \in Items : ReplacesWhatItSaw(i)]_inventoryVars

(* "Solo se pueden editar líneas de ajustes en borrador" (models.py:512): the lines of
   an adjustment are final when it is confirmed or cancelled.  The pages read that it
   is a draft and write later, without its lock. *)
LinesOnlyInDraft ==
    [][\A a \in Adjustments :
           status[a] \in {"confirmed", "cancelled"} =>
               {<<l, line[l]>> : l \in LinesOf(a)}
                   = {<<l, line'[l]>> : l \in LinesOf(a)'}]_inventoryVars
===============================================================================
