---------------------------- MODULE PurchasesProofs ----------------------------
(***************************************************************************)
(* What the stock services, the orders, their receipts, the stock they     *)
(* fill and the pages that receive goods keep, for any number of each.     *)
(*                                                                         *)
(* First Inventory alone: its invariant adds to its properties what a page *)
(* that writes a line still knows, that the adjustment of the line it read *)
(* cannot change and that the counts it writes are not negative.           *)
(*                                                                         *)
(* Then Purchases, whose invariant has three parts besides that one: what  *)
(* a page was told and which status an order with a receipt has; what a    *)
(* row received is the sum of the receipts, of lines that belong to their  *)
(* order; and a movement of a receipt stays the movement of its line.      *)
(***************************************************************************)
EXTENDS Purchases, SumsProofs, SequenceTheorems

(* What a request has read and can rely on when it writes. *)
RequestKnows(e) ==
    LET r == request[e] IN
    /\ r.kind = "add" => r.adj \in Adjustments /\ r.item \in Items
    /\ r.kind = "quick" => r.item \in Items
    /\ r.kind = "update" =>
           /\ r.line \in Lines /\ r.adj \in Adjustments /\ r.item \in Items
           /\ ~Fresh(r.line) /\ line[r.line].adj = r.adj
    /\ r.kind = "delete" => r.line \in Lines

(* A line that is written names an adjustment and an item. *)
LineKnows(l) == ~Fresh(l) => line[l].adj \in Adjustments /\ line[l].item \in Items

(* A movement of a count refers to a line, which stays, of a confirmed adjustment. *)
Applied(i, k) ==
    moves[i][k].line # NoOne =>
        /\ moves[i][k].line \in Lines /\ Exists(moves[i][k].line)
        /\ status[line[moves[i][k].line].adj] = "confirmed"

MovementsApplied == \A i \in Items : \A k \in 1 .. Len(moves[i]) : Applied(i, k)

EachLineOnce ==
    \A i, j \in Items : \A k \in 1 .. Len(moves[i]), m \in 1 .. Len(moves[j]) :
        moves[i][k].line # NoOne /\ moves[i][k].line = moves[j][m].line
            => i = j /\ k = m

InventoryInvariant ==
    /\ InventoryTypeOK
    /\ StockIsLedger
    /\ NoOversell
    /\ \A e \in Editors : RequestKnows(e)
    /\ \A l \in Lines : LineKnows(l)
    /\ MovementsApplied
    /\ EachLineOnce

-------------------------------------------------------------------------------
(* The movements of an item after one more. *)
LEMMA Appended ==
    ASSUME InventoryTypeOK, NEW i \in Items, NEW b \in Int, NEW a \in Int,
           NEW l \in Lines \cup {NoOne},
           NEW after, after = Append(moves[i], Movement(b, a, l))
    PROVE  /\ after \in Seq(MovementRow)
           /\ Len(after) = Len(moves[i]) + 1 /\ Len(moves[i]) \in Nat
           /\ \A k \in 1 .. Len(moves[i]) : after[k] = moves[i][k]
           /\ after[Len(after)].before = b
           /\ after[Len(after)].after = a
           /\ after[Len(after)].line = l
<1>1. Movement(b, a, l) \in MovementRow /\ moves[i] \in Seq(MovementRow)
  BY DEF Movement, MovementRow, InventoryTypeOK
<1>. QED
  BY <1>1, AppendProperties DEF Movement

(* One movement from the stock of an item to another keeps the ledger. *)
LEMMA LedgerGrows ==
    ASSUME InventoryTypeOK, StockIsLedger, NEW i \in Items, NEW a \in Int,
           NEW l \in Lines \cup {NoOne}, stock'[i] = a,
           moves'[i] = Append(moves[i], Movement(stock[i], a, l))
    PROVE  LET n == Len(moves'[i]) IN
           /\ stock'[i] = IF n = 0 THEN 0 ELSE moves'[i][n].after
           /\ \A k \in 1 .. n :
                  moves'[i][k].before = IF k = 1 THEN 0 ELSE moves'[i][k - 1].after
<1>. DEFINE old == moves[i]
            new == moves'[i]
<1>1. stock[i] \in Int
  BY DEF InventoryTypeOK
<1>2. /\ Len(new) = Len(old) + 1 /\ Len(old) \in Nat
      /\ \A k \in 1 .. Len(old) : new[k] = old[k]
      /\ new[Len(new)].before = stock[i] /\ new[Len(new)].after = a
  BY <1>1, Appended
<1>3. /\ stock[i] = IF Len(old) = 0 THEN 0 ELSE old[Len(old)].after
      /\ \A k \in 1 .. Len(old) :
             old[k].before = IF k = 1 THEN 0 ELSE old[k - 1].after
  BY DEF StockIsLedger
<1>4. ASSUME NEW k \in 1 .. Len(new)
      PROVE  new[k].before = IF k = 1 THEN 0 ELSE new[k - 1].after
  <2>1. CASE k = Len(new)
    <3>1. new[k].before = stock[i] /\ (k = 1 <=> Len(old) = 0)
      BY <1>2, <2>1
    <3>2. CASE k = 1
      BY <3>1, <3>2, <1>3
    <3>3. CASE k # 1
      <4>1. k - 1 = Len(old) /\ k - 1 \in 1 .. Len(old)
        BY <1>2, <2>1, <3>3
      <4>. QED
        BY <4>1, <3>1, <3>3, <1>2, <1>3
    <3>. QED
      BY <3>2, <3>3
  <2>2. CASE k # Len(new)
    <3>1. k \in 1 .. Len(old) /\ (k # 1 => k - 1 \in 1 .. Len(old))
      BY <1>2, <2>2
    <3>. QED
      BY <3>1, <1>2, <1>3
  <2>. QED
    BY <2>1, <2>2
<1>5. stock'[i] = IF Len(new) = 0 THEN 0 ELSE new[Len(new)].after
  BY <1>2
<1>. QED
  BY <1>4, <1>5, Zenon

(* A store begins without stock, movements or adjustments. *)
LEMMA InventoryStarts ==
    ASSUME InventoryAssumption, InventoryInit
    PROVE  InventoryInvariant
<1>1. InventoryTypeOK
  BY DEF InventoryInit, InventoryTypeOK, RecordStates, AdjustmentStates, Line, Request,
         Unwritten, Idle, Fresh
<1>2. \A i \in Items : Len(moves[i]) = 0
  BY DEF InventoryInit
<1>3. StockIsLedger /\ MovementsApplied /\ EachLineOnce
  BY <1>2 DEF InventoryInit, StockIsLedger, MovementsApplied, EachLineOnce
<1>4. NoOversell /\ (\A e \in Editors : RequestKnows(e)) /\ \A l \in Lines : LineKnows(l)
  BY DEF InventoryInit, NoOversell, RequestKnows, LineKnows, Idle, Fresh
<1>. QED
  BY <1>1, <1>3, <1>4 DEF InventoryInvariant
-------------------------------------------------------------------------------
(* The steps.  A record that is created, activated or deactivated. *)
LEMMA RecordKeeps ==
    ASSUME InventoryInvariant, NEW i \in Items, CreateItem(i) \/ UpdateSettings(i)
    PROVE  InventoryInvariant'
<1>1. /\ UNCHANGED <<stock, moves, status, line, gone, request>>
      /\ record' \in [Items -> RecordStates]
  BY DEF InventoryInvariant, InventoryTypeOK, CreateItem, UpdateSettings, RecordStates
<1>2. InventoryTypeOK'
  BY <1>1 DEF InventoryInvariant, InventoryTypeOK, Fresh
<1>3. StockIsLedger' /\ NoOversell'
  BY <1>1 DEF InventoryInvariant, StockIsLedger, NoOversell
<1>4. (\A e \in Editors : RequestKnows(e))' /\ (\A l \in Lines : LineKnows(l))'
  BY <1>1 DEF InventoryInvariant, RequestKnows, LineKnows, Fresh
<1>5. MovementsApplied' /\ EachLineOnce'
  BY <1>1 DEF InventoryInvariant, MovementsApplied, Applied, EachLineOnce, Exists, Fresh
<1>. QED
  BY <1>2, <1>3, <1>4, <1>5 DEF InventoryInvariant

(* A movement of no count: an initial stock, a receipt, a return or a sale. *)
LEMMA SetStockKeeps ==
    ASSUME InventoryAssumption, InventoryInvariant, NEW i \in Items, NEW a \in Int,
           AllowOversell \/ a >= 0, SetStock(i, a),
           UNCHANGED <<record, status, line, gone, request>>
    PROVE  InventoryInvariant'
<1>1. /\ InventoryTypeOK /\ StockIsLedger /\ stock[i] \in Int
      /\ moves \in [Items -> Seq(MovementRow)] /\ stock \in [Items -> Int]
  BY DEF InventoryInvariant, InventoryTypeOK
<1>2. /\ stock'[i] = a /\ moves'[i] = Append(moves[i], Movement(stock[i], a, NoOne))
      /\ \A j \in Items \ {i} : stock'[j] = stock[j] /\ moves'[j] = moves[j]
      /\ stock' = [stock EXCEPT ![i] = a]
      /\ moves' = [moves EXCEPT ![i] = moves'[i]]
  BY <1>1 DEF SetStock
<1>3. /\ moves'[i] \in Seq(MovementRow)
      /\ Len(moves'[i]) = Len(moves[i]) + 1 /\ Len(moves[i]) \in Nat
      /\ \A k \in 1 .. Len(moves[i]) : moves'[i][k] = moves[i][k]
      /\ moves'[i][Len(moves'[i])].line = NoOne
  <2>1. moves'[i] = Append(moves[i], Movement(stock[i], a, NoOne))
    BY <1>2
  <2>2. NoOne \in Lines \cup {NoOne}
    OBVIOUS
  <2>. QED
    BY <2>1, <2>2, <1>1, Appended
<1>4. InventoryTypeOK'
  <2>1. stock' \in [Items -> Int] /\ moves' \in [Items -> Seq(MovementRow)]
    BY <1>1, <1>2, <1>3
  <2>. QED
    BY <1>1, <2>1 DEF InventoryTypeOK, Fresh
<1>5. StockIsLedger'
  <2>1. ASSUME NEW j \in Items
        PROVE  LET n == Len(moves'[j]) IN
               /\ stock'[j] = IF n = 0 THEN 0 ELSE moves'[j][n].after
               /\ \A k \in 1 .. n : moves'[j][k].before =
                      IF k = 1 THEN 0 ELSE moves'[j][k - 1].after
    <3>1. CASE j = i
      BY <3>1, <1>1, <1>2, LedgerGrows, ZenonT(60)
    <3>2. CASE j # i
      <4>1. stock'[j] = stock[j] /\ moves'[j] = moves[j]
        BY <3>2, <1>2
      <4>. QED
        BY <4>1, <1>1 DEF StockIsLedger
    <3>. QED
      BY <3>1, <3>2
  <2>. QED
    BY <2>1, Zenon DEF StockIsLedger
<1>6. NoOversell'
  BY <1>1, <1>2 DEF InventoryInvariant, NoOversell
<1>7. (\A e \in Editors : RequestKnows(e))' /\ (\A l \in Lines : LineKnows(l))'
  BY DEF InventoryInvariant, RequestKnows, LineKnows, Fresh
<1>8. ASSUME NEW j \in Items, NEW k \in 1 .. Len(moves'[j]), moves'[j][k].line # NoOne
      PROVE  k \in 1 .. Len(moves[j]) /\ moves'[j][k] = moves[j][k]
  <2>1. CASE j = i
    BY <2>1, <1>3, <1>8
  <2>2. CASE j # i
    BY <2>2, <1>2
  <2>. QED
    BY <2>1, <2>2
<1>9. MovementsApplied'
  BY <1>8 DEF InventoryInvariant, MovementsApplied, Applied, Exists, Fresh
<1>10. EachLineOnce'
  <2>1. ASSUME NEW j \in Items, NEW h \in Items,
               NEW k \in 1 .. Len(moves'[j]), NEW m \in 1 .. Len(moves'[h]),
               moves'[j][k].line # NoOne, moves'[j][k].line = moves'[h][m].line
        PROVE  j = h /\ k = m
    <3>1. /\ k \in 1 .. Len(moves[j]) /\ moves'[j][k] = moves[j][k]
          /\ m \in 1 .. Len(moves[h]) /\ moves'[h][m] = moves[h][m]
      BY <2>1, <1>8
    <3>. QED
      BY <2>1, <3>1 DEF InventoryInvariant, EachLineOnce
  <2>. QED
    BY <2>1 DEF EachLineOnce
<1>. QED
  BY <1>4, <1>5, <1>6, <1>7, <1>9, <1>10 DEF InventoryInvariant

(* An adjustment that is created or cancelled: no movement refers to it. *)
LEMMA StatusKeeps ==
    ASSUME InventoryInvariant, NEW a \in Adjustments, NEW s \in AdjustmentStates,
           status[a] # "confirmed", status' = [status EXCEPT ![a] = s],
           UNCHANGED <<record, stock, moves, line, gone, request>>
    PROVE  InventoryInvariant'
<1>1. /\ status' \in [Adjustments -> AdjustmentStates]
      /\ \A b \in Adjustments : status[b] = "confirmed" => status'[b] = "confirmed"
  BY DEF InventoryInvariant, InventoryTypeOK
<1>2. InventoryTypeOK'
  BY <1>1 DEF InventoryInvariant, InventoryTypeOK, Fresh
<1>3. StockIsLedger' /\ NoOversell' /\ EachLineOnce'
  BY DEF InventoryInvariant, StockIsLedger, NoOversell, EachLineOnce
<1>4. (\A e \in Editors : RequestKnows(e))' /\ (\A l \in Lines : LineKnows(l))'
  BY DEF InventoryInvariant, RequestKnows, LineKnows, Fresh
<1>5. MovementsApplied'
  <2>1. ASSUME NEW i \in Items, NEW k \in 1 .. Len(moves[i]), moves[i][k].line # NoOne
        PROVE  LET l == moves[i][k].line IN
               /\ l \in Lines /\ Exists(l)' /\ status'[line[l].adj] = "confirmed"
    <3>1. LET l == moves[i][k].line IN
          /\ l \in Lines /\ Exists(l) /\ status[line[l].adj] = "confirmed"
          /\ line[l].adj \in Adjustments
      BY <2>1 DEF InventoryInvariant, MovementsApplied, Applied, LineKnows, Exists
    <3>. QED
      BY <3>1, <1>1 DEF Exists, Fresh
  <2>. QED
    BY <2>1 DEF MovementsApplied, Applied
<1>. QED
  BY <1>2, <1>3, <1>4, <1>5 DEF InventoryInvariant

(* A page that reads, fails or is done: only its request changes. *)
LEMMA RequestKeeps ==
    ASSUME InventoryInvariant, NEW e \in Editors, NEW r \in Request,
           request' = [request EXCEPT ![e] = r], RequestKnows(e)',
           UNCHANGED <<record, stock, moves, status, line, gone>>
    PROVE  InventoryInvariant'
<1>1. /\ request' \in [Editors -> Request]
      /\ \A f \in Editors \ {e} : request'[f] = request[f]
  BY DEF InventoryInvariant, InventoryTypeOK
<1>2. InventoryTypeOK'
  BY <1>1 DEF InventoryInvariant, InventoryTypeOK, Fresh
<1>3. StockIsLedger' /\ NoOversell' /\ EachLineOnce'
  BY DEF InventoryInvariant, StockIsLedger, NoOversell, EachLineOnce
<1>4. (\A f \in Editors : RequestKnows(f))'
  <2>1. ASSUME NEW f \in Editors \ {e} PROVE RequestKnows(f)'
    BY <1>1 DEF InventoryInvariant, RequestKnows, Fresh
  <2>. QED
    BY <2>1
<1>5. (\A l \in Lines : LineKnows(l))' /\ MovementsApplied'
  BY DEF InventoryInvariant, LineKnows, MovementsApplied, Applied, Exists, Fresh
<1>. QED
  BY <1>2, <1>3, <1>4, <1>5 DEF InventoryInvariant
(* Pages that read: each notes what it may rely on when it writes. *)
LEMMA BeginKeeps ==
    ASSUME InventoryInvariant, NEW e \in Editors,
           \/ \E i \in Items, n \in Counts :
                  \/ \E a \in Adjustments : BeginAdd(e, a, i, n)
                  \/ \E l \in Lines : BeginUpdate(e, l, i, n)
                  \/ BeginQuick(e, i, n)
           \/ \E l \in Lines : BeginDelete(e, l)
    PROVE  InventoryInvariant'
<1>. DEFINE r == request'[e]
            Reads == /\ r \in Request /\ request' = [request EXCEPT ![e] = r]
                     /\ UNCHANGED <<record, stock, moves, status, line, gone>>
                     /\ RequestKnows(e)'
<1>1. /\ stock \in [Items -> Int] /\ Counts \subseteq Nat
      /\ request \in [Editors -> Request]
      /\ \A l \in Lines : Exists(l) => line[l].adj \in Adjustments
  BY DEF InventoryInvariant, InventoryTypeOK, Counts, Exists, LineKnows
<1>2. ASSUME NEW i \in Items, NEW n \in Counts, NEW a \in Adjustments,
             BeginAdd(e, a, i, n)
      PROVE  Reads
  BY <1>1, <1>2 DEF BeginAdd, Read, Request, RequestKnows
<1>3. ASSUME NEW i \in Items, NEW n \in Counts, NEW l \in Lines,
             BeginUpdate(e, l, i, n)
      PROVE  Reads
  BY <1>1, <1>3 DEF BeginUpdate, Read, Request, RequestKnows, Exists, Fresh
<1>4. ASSUME NEW i \in Items, NEW n \in Counts, BeginQuick(e, i, n)
      PROVE  Reads
  BY <1>1, <1>4 DEF BeginQuick, Read, Request, RequestKnows
<1>5. ASSUME NEW l \in Lines, BeginDelete(e, l)
      PROVE  Reads
  BY <1>1, <1>5 DEF BeginDelete, Read, Request, RequestKnows
<1>6. Reads
  BY <1>2, <1>3, <1>4, <1>5
<1>. QED
  BY <1>6, RequestKeeps

(* A line that is written: of no adjustment before, or of the same one. *)
LEMMA WriteKeeps ==
    ASSUME InventoryAssumption, InventoryInvariant, NEW e \in Editors, NEW l \in Lines,
           NEW row \in Line, row.adj \in Adjustments, row.item \in Items,
           Fresh(l) \/ line[l].adj = row.adj,
           line' = [line EXCEPT ![l] = row], Done(e),
           gone' \subseteq gone,
           status' \in [Adjustments -> AdjustmentStates],
           \A b \in Adjustments : status[b] = "confirmed" => status'[b] = "confirmed",
           UNCHANGED <<record, stock, moves>>
    PROVE  InventoryInvariant'
<1>1. /\ line' \in [Lines -> Line] /\ line'[l] = row
      /\ \A m \in Lines \ {l} : line'[m] = line[m]
  BY DEF InventoryInvariant, InventoryTypeOK
<1>2. row # Unwritten
  BY DEF InventoryAssumption, Unwritten
<1>3. ASSUME NEW m \in Lines, ~Fresh(m)
      PROVE  ~Fresh(m)' /\ line'[m].adj = line[m].adj
  BY <1>1, <1>2, <1>3 DEF Fresh, Unwritten
<1>4. /\ request' \in [Editors -> Request]
      /\ \A f \in Editors \ {e} : request'[f] = request[f]
      /\ request'[e] = Idle
  <2>1. Idle \in Request
    BY DEF Idle, Request
  <2>. QED
    BY <2>1 DEF InventoryInvariant, InventoryTypeOK, Done
<1>5. (\A m \in Lines : LineKnows(m))'
  BY <1>1 DEF InventoryInvariant, LineKnows, Fresh, Unwritten
<1>6. InventoryTypeOK'
  BY <1>1, <1>4, <1>5 DEF InventoryInvariant, InventoryTypeOK, LineKnows
<1>7. StockIsLedger' /\ NoOversell' /\ EachLineOnce'
  <2>1. stock' = stock /\ moves' = moves
    OBVIOUS
  <2>2. StockIsLedger'
    BY <2>1 DEF InventoryInvariant, StockIsLedger
  <2>3. NoOversell'
    BY <2>1 DEF InventoryInvariant, NoOversell
  <2>4. EachLineOnce'
    BY <2>1 DEF InventoryInvariant, EachLineOnce
  <2>. QED
    BY <2>2, <2>3, <2>4
<1>8. ASSUME NEW f \in Editors
      PROVE  RequestKnows(f)'
  <2>1. CASE f = e
    BY <2>1, <1>4 DEF RequestKnows, Idle
  <2>2. CASE f # e
    <3>1. RequestKnows(f) /\ request'[f] = request[f]
      BY <2>2, <1>4 DEF InventoryInvariant
    <3>. QED
      BY <3>1, <1>3 DEF RequestKnows
  <2>. QED
    BY <2>1, <2>2
<1>9. ASSUME NEW i \in Items, NEW k \in 1 .. Len(moves[i]), moves[i][k].line # NoOne
      PROVE  LET m == moves[i][k].line IN
             /\ m \in Lines /\ Exists(m)' /\ status'[line'[m].adj] = "confirmed"
  <2>1. LET m == moves[i][k].line IN
        /\ m \in Lines /\ Exists(m) /\ status[line[m].adj] = "confirmed"
        /\ line[m].adj \in Adjustments
    BY <1>9 DEF InventoryInvariant, MovementsApplied, Applied, LineKnows, Exists
  <2>. QED
    BY <2>1, <1>3 DEF Exists
<1>10. MovementsApplied'
  BY <1>9 DEF MovementsApplied, Applied
<1>. QED
  BY <1>5, <1>6, <1>7, <1>8, <1>10 DEF InventoryInvariant

(* The pages that write a line. *)
LEMMA EditorWrites ==
    ASSUME InventoryAssumption, InventoryInvariant, NEW e \in Editors,
           WriteAdd(e) \/ WriteUpdate(e) \/ WriteQuick(e)
    PROVE  InventoryInvariant'
<1>. DEFINE r == request[e]
<1>1. /\ r \in Request /\ RequestKnows(e)
      /\ status \in [Adjustments -> AdjustmentStates]
  BY DEF InventoryInvariant, InventoryTypeOK
<1>2. ASSUME NEW a \in Adjustments, r.item \in Items
      PROVE  /\ Written(r, a) \in Line
             /\ Written(r, a).adj = a /\ Written(r, a).item \in Items
  BY <1>1, <1>2 DEF Written, Line, Request
<1>3. CASE WriteAdd(e)
  <2>1. PICK l \in Lines : Fresh(l) /\ line' = [line EXCEPT ![l] = Written(r, r.adj)]
    BY <1>3 DEF WriteAdd
  <2>2. /\ r.adj \in Adjustments /\ r.item \in Items
        /\ Done(e) /\ UNCHANGED <<record, stock, moves, status, gone>>
    BY <1>1, <1>3 DEF WriteAdd, RequestKnows
  <2>. QED
    BY <2>1, <2>2, <1>1, <1>2, WriteKeeps
<1>4. CASE WriteUpdate(e)
  <2>1. /\ line' = [line EXCEPT ![r.line] = Written(r, r.adj)]
        /\ gone' \subseteq gone
        /\ Done(e) /\ UNCHANGED <<record, stock, moves, status>>
    BY <1>4 DEF WriteUpdate
  <2>2. /\ r.line \in Lines /\ r.adj \in Adjustments /\ r.item \in Items
        /\ line[r.line].adj = r.adj
    BY <1>1, <1>4 DEF WriteUpdate, RequestKnows
  <2>3. /\ Written(r, r.adj) \in Line /\ Written(r, r.adj).adj = r.adj
        /\ Written(r, r.adj).item \in Items
    BY <2>2, <1>2
  <2>4. /\ status' \in [Adjustments -> AdjustmentStates]
        /\ \A b \in Adjustments : status[b] = "confirmed" => status'[b] = "confirmed"
        /\ UNCHANGED <<record, stock, moves>>
    BY <2>1, <1>1
  <2>5. Fresh(r.line) \/ line[r.line].adj = Written(r, r.adj).adj
    BY <2>2, <2>3
  <2>. HIDE DEF r
  <2>. QED
    BY <2>1, <2>2, <2>3, <2>4, <2>5, WriteKeeps
<1>5. CASE WriteQuick(e)
  <2>1. PICK a \in Adjustments, l \in Lines :
            /\ status[a] = "none" /\ Fresh(l)
            /\ status' = [status EXCEPT ![a] = "draft"]
            /\ line' = [line EXCEPT ![l] = Written(r, a)]
    BY <1>5 DEF WriteQuick
  <2>2. r.item \in Items /\ Done(e) /\ UNCHANGED <<record, stock, moves, gone>>
    BY <1>1, <1>5 DEF WriteQuick, RequestKnows
  <2>3. /\ status' \in [Adjustments -> AdjustmentStates]
        /\ \A b \in Adjustments : status[b] = "confirmed" => status'[b] = "confirmed"
    BY <2>1, <1>1 DEF AdjustmentStates
  <2>. QED
    BY <2>1, <2>2, <2>3, <1>2, WriteKeeps
<1>. QED
  BY <1>3, <1>4, <1>5

(* A page that deletes a line no movement refers to. *)
LEMMA DeleteKeeps ==
    ASSUME InventoryInvariant, NEW e \in Editors, WriteDelete(e)
    PROVE  InventoryInvariant'
<1>. DEFINE l == request[e].line
<1>1. /\ l \in Lines /\ Unreferenced(l) /\ gone' = gone \cup {l} /\ Done(e)
      /\ UNCHANGED <<record, stock, moves, status, line>>
  BY DEF InventoryInvariant, RequestKnows, WriteDelete
<1>2. /\ request' \in [Editors -> Request]
      /\ \A f \in Editors \ {e} : request'[f] = request[f]
      /\ request'[e] = Idle
  <2>1. Idle \in Request
    BY DEF Idle, Request
  <2>. QED
    BY <2>1, <1>1 DEF InventoryInvariant, InventoryTypeOK, Done
<1>3. InventoryTypeOK'
  BY <1>1, <1>2 DEF InventoryInvariant, InventoryTypeOK, Fresh
<1>4. StockIsLedger' /\ NoOversell' /\ EachLineOnce'
  BY <1>1 DEF InventoryInvariant, StockIsLedger, NoOversell, EachLineOnce
<1>5. (\A m \in Lines : LineKnows(m))'
  BY <1>1 DEF InventoryInvariant, LineKnows, Fresh
<1>6. ASSUME NEW f \in Editors
      PROVE  RequestKnows(f)'
  <2>1. CASE f = e
    BY <2>1, <1>2 DEF RequestKnows, Idle
  <2>2. CASE f # e
    BY <2>2, <1>1, <1>2 DEF InventoryInvariant, RequestKnows, Fresh
  <2>. QED
    BY <2>1, <2>2
<1>7. MovementsApplied'
  BY <1>1 DEF InventoryInvariant, MovementsApplied, Applied, Exists, Fresh, Unreferenced
<1>. QED
  BY <1>3, <1>4, <1>5, <1>6, <1>7 DEF InventoryInvariant
(* A count that replaces the stock: each item counted has one line of this draft, and
   no movement refers to a line of a draft. *)
LEMMA ConfirmKeeps ==
    ASSUME InventoryAssumption, InventoryInvariant, NEW a \in Adjustments,
           ConfirmAdjustment(a)
    PROVE  InventoryInvariant'
<1>. DEFINE moved == {i \in Counted(a) : line[LineOn(a, i)].counted # stock[i]}
<1>1. /\ InventoryTypeOK /\ StockIsLedger
      /\ status[a] = "draft" /\ status \in [Adjustments -> AdjustmentStates]
      /\ line \in [Lines -> Line]
      /\ stock \in [Items -> Int] /\ moves \in [Items -> Seq(MovementRow)]
      /\ UNCHANGED <<record, line, gone, request>>
      /\ status' = [status EXCEPT ![a] = "confirmed"]
  BY DEF InventoryInvariant, InventoryTypeOK, ConfirmAdjustment, Confirmable
<1>2. ASSUME NEW i \in Counted(a)
      PROVE  /\ i \in Items
             /\ LineOn(a, i) \in Lines /\ Exists(LineOn(a, i))
             /\ line[LineOn(a, i)].adj = a
             /\ line[LineOn(a, i)].counted \in Nat
             /\ line[LineOn(a, i)].system = stock[i]
  <2>1. \E l \in LinesOf(a) : line[l].item = i
    BY <1>2 DEF Counted
  <2>2. LineOn(a, i) \in LinesOf(a) /\ line[LineOn(a, i)].item = i
    BY <2>1 DEF LineOn
  <2>3. CountHolds(LineOn(a, i))
    BY <2>2 DEF ConfirmAdjustment
  <2>. QED
    BY <2>2, <2>3, <1>1 DEF LinesOf, Exists, CountHolds, InventoryInvariant, LineKnows, Line
<1>3. ASSUME NEW i \in Items, i \in moved
      PROVE  /\ stock'[i] = line[LineOn(a, i)].counted
             /\ moves'[i] = Append(moves[i], Movement(stock[i], stock'[i], LineOn(a, i)))
  BY <1>3, Zenon DEF ConfirmAdjustment
<1>4. ASSUME NEW i \in Items, i \notin moved
      PROVE  stock'[i] = stock[i] /\ moves'[i] = moves[i]
  BY <1>4, Zenon DEF ConfirmAdjustment
<1>5. /\ DOMAIN stock' = Items /\ stock' = [i \in Items |-> stock'[i]]
      /\ DOMAIN moves' = Items /\ moves' = [i \in Items |-> moves'[i]]
  BY Zenon DEF ConfirmAdjustment
<1>. HIDE DEF moved
<1>6. ASSUME NEW i \in Items, i \in moved
      PROVE  /\ stock'[i] \in Nat
             /\ LineOn(a, i) \in Lines /\ Exists(LineOn(a, i))
             /\ line[LineOn(a, i)].adj = a /\ LineOn(a, i) # NoOne
             /\ moves'[i] \in Seq(MovementRow)
             /\ Len(moves'[i]) = Len(moves[i]) + 1 /\ Len(moves[i]) \in Nat
             /\ \A k \in 1 .. Len(moves[i]) : moves'[i][k] = moves[i][k]
             /\ moves'[i][Len(moves'[i])].line = LineOn(a, i)
  <2>1. i \in Counted(a)
    BY <1>6 DEF moved
  <2>2. stock'[i] \in Nat /\ stock[i] \in Int /\ LineOn(a, i) \in Lines
    BY <2>1, <1>1, <1>2, <1>3, <1>6
  <2>3. /\ moves'[i] \in Seq(MovementRow)
        /\ Len(moves'[i]) = Len(moves[i]) + 1 /\ Len(moves[i]) \in Nat
        /\ \A k \in 1 .. Len(moves[i]) : moves'[i][k] = moves[i][k]
        /\ moves'[i][Len(moves'[i])].line = LineOn(a, i)
    <3>1. moves'[i] = Append(moves[i], Movement(stock[i], stock'[i], LineOn(a, i)))
      BY <1>3, <1>6
    <3>2. stock'[i] \in Int /\ LineOn(a, i) \in Lines \cup {NoOne}
      BY <2>2
    <3>. QED
      BY <3>1, <3>2, <2>2, <1>1, Appended
  <2>4. LineOn(a, i) # NoOne /\ Exists(LineOn(a, i)) /\ line[LineOn(a, i)].adj = a
    BY <2>1, <2>2, <1>2 DEF InventoryAssumption
  <2>. QED
    BY <2>2, <2>3, <2>4
<1>7. InventoryTypeOK'
  <2>1. ASSUME NEW i \in Items PROVE stock'[i] \in Int /\ moves'[i] \in Seq(MovementRow)
    <3>1. CASE i \in moved
      BY <3>1, <1>6
    <3>2. CASE i \notin moved
      BY <3>2, <1>1, <1>4
    <3>. QED
      BY <3>1, <3>2
  <2>2. stock' \in [Items -> Int] /\ moves' \in [Items -> Seq(MovementRow)]
    BY <2>1, <1>5
  <2>3. status' \in [Adjustments -> AdjustmentStates]
    BY <1>1 DEF AdjustmentStates
  <2>. QED
    BY <2>2, <2>3, <1>1 DEF InventoryTypeOK, Fresh
<1>8. StockIsLedger'
  <2>1. ASSUME NEW i \in Items
        PROVE  LET n == Len(moves'[i]) IN
               /\ stock'[i] = IF n = 0 THEN 0 ELSE moves'[i][n].after
               /\ \A k \in 1 .. n : moves'[i][k].before =
                      IF k = 1 THEN 0 ELSE moves'[i][k - 1].after
    <3>1. CASE i \in moved
      <4>1. /\ stock'[i] \in Int /\ LineOn(a, i) \in Lines \cup {NoOne}
            /\ moves'[i] = Append(moves[i], Movement(stock[i], stock'[i], LineOn(a, i)))
        BY <3>1, <1>3, <1>6
      <4>. QED
        BY <4>1, <1>1, LedgerGrows
    <3>2. CASE i \notin moved
      <4>1. stock'[i] = stock[i] /\ moves'[i] = moves[i]
        BY <3>2, <1>4
      <4>2. LET n == Len(moves[i]) IN
            /\ stock[i] = IF n = 0 THEN 0 ELSE moves[i][n].after
            /\ \A k \in 1 .. n : moves[i][k].before =
                   IF k = 1 THEN 0 ELSE moves[i][k - 1].after
        BY <1>1, Zenon DEF StockIsLedger
      <4>. QED
        BY <4>1, <4>2, Zenon
    <3>. QED
      BY <3>1, <3>2
  <2>. QED
    BY <2>1, Zenon DEF StockIsLedger
<1>9. NoOversell'
  <2>1. ASSUME NEW i \in Items, stock[i] >= 0 PROVE stock'[i] >= 0
    BY <2>1, <1>1, <1>4, <1>6
  <2>. QED
    BY <2>1 DEF InventoryInvariant, NoOversell
<1>10. (\A e \in Editors : RequestKnows(e))' /\ (\A l \in Lines : LineKnows(l))'
  BY <1>1 DEF InventoryInvariant, RequestKnows, LineKnows, Fresh
<1>11. ASSUME NEW i \in Items, NEW k \in 1 .. Len(moves'[i])
       PROVE  \/ k \in 1 .. Len(moves[i]) /\ moves'[i][k] = moves[i][k]
              \/ /\ i \in moved /\ k = Len(moves'[i])
                 /\ moves'[i][k].line = LineOn(a, i)
  <2>1. CASE i \in moved
    <3>1. CASE k = Len(moves'[i])
      BY <2>1, <3>1, <1>6
    <3>2. CASE k # Len(moves'[i])
      BY <2>1, <3>2, <1>6
    <3>. QED
      BY <3>1, <3>2
  <2>2. CASE i \notin moved
    BY <2>2, <1>4
  <2>. QED
    BY <2>1, <2>2
<1>12. ASSUME NEW i \in Items, NEW k \in 1 .. Len(moves[i]), moves[i][k].line # NoOne
       PROVE  LET l == moves[i][k].line IN
              /\ l \in Lines /\ Exists(l) /\ line[l].adj # a
              /\ status'[line[l].adj] = "confirmed"
  <2>1. LET l == moves[i][k].line IN
        /\ l \in Lines /\ Exists(l) /\ status[line[l].adj] = "confirmed"
        /\ line[l].adj \in Adjustments
    BY <1>12 DEF InventoryInvariant, MovementsApplied, Applied, LineKnows, Exists
  <2>. QED
    BY <2>1, <1>1
<1>13. MovementsApplied'
  <2>1. ASSUME NEW i \in Items, NEW k \in 1 .. Len(moves'[i]), moves'[i][k].line # NoOne
        PROVE  LET l == moves'[i][k].line IN
               l \in Lines /\ Exists(l) /\ status'[line[l].adj] = "confirmed"
    <3>1. CASE k \in 1 .. Len(moves[i]) /\ moves'[i][k] = moves[i][k]
      BY <3>1, <2>1, <1>12
    <3>2. CASE i \in moved /\ moves'[i][k].line = LineOn(a, i)
      BY <3>2, <1>1, <1>6
    <3>. QED
      BY <3>1, <3>2, <1>11
  <2>. QED
    BY <2>1, <1>1 DEF MovementsApplied, Applied, Exists, Fresh
<1>14. ASSUME NEW i \in Items, NEW j \in Items, NEW k \in 1 .. Len(moves'[i]),
              NEW m \in 1 .. Len(moves'[j]), moves'[i][k].line # NoOne,
              moves'[i][k].line = moves'[j][m].line
       PROVE  i = j /\ k = m
  <2>1. ASSUME NEW h \in Items, NEW x \in Items, h \in moved, x \in moved,
               LineOn(a, h) = LineOn(a, x)
        PROVE  h = x
    <3>1. \A y \in Counted(a) : line[LineOn(a, y)].item = y
      BY DEF LineOn, Counted
    <3>. QED
      BY <3>1, <2>1 DEF moved
  <2>2. CASE /\ k \in 1 .. Len(moves[i]) /\ moves'[i][k] = moves[i][k]
             /\ m \in 1 .. Len(moves[j]) /\ moves'[j][m] = moves[j][m]
    BY <2>2, <1>14, SMTT(40) DEF InventoryInvariant, EachLineOnce
  <2>3. CASE /\ i \in moved /\ k = Len(moves'[i]) /\ moves'[i][k].line = LineOn(a, i)
             /\ j \in moved /\ m = Len(moves'[j]) /\ moves'[j][m].line = LineOn(a, j)
    BY <2>1, <2>3, <1>14
  <2>4. CASE /\ k \in 1 .. Len(moves[i]) /\ moves'[i][k] = moves[i][k]
             /\ j \in moved /\ moves'[j][m].line = LineOn(a, j)
    <3>1. line[moves[i][k].line].adj # a /\ moves[i][k].line = LineOn(a, j)
      BY <2>4, <1>12, <1>14
    <3>. QED
      BY <3>1, <2>4, <1>6
  <2>5. CASE /\ i \in moved /\ moves'[i][k].line = LineOn(a, i)
             /\ m \in 1 .. Len(moves[j]) /\ moves'[j][m] = moves[j][m]
    <3>1. moves[j][m].line = LineOn(a, i) /\ moves[j][m].line # NoOne
      BY <2>5, <1>14
    <3>2. line[moves[j][m].line].adj # a
      BY <2>5, <3>1, <1>12
    <3>. QED
      BY <3>1, <3>2, <2>5, <1>6
  <2>. QED
    BY <2>2, <2>3, <2>4, <2>5, <1>11
<1>15. EachLineOnce'
  BY <1>14 DEF EachLineOnce
<1>. QED
  BY <1>7, <1>8, <1>9, <1>10, <1>13, <1>15 DEF InventoryInvariant
(* Every step keeps the invariant. *)
LEMMA InventoryKeeps ==
    ASSUME InventoryAssumption, InventoryInvariant, [InventoryNext]_inventoryVars
    PROVE  InventoryInvariant'
<1>1. ASSUME NEW i \in Items, StockStep(i)
      PROVE  InventoryInvariant'
  <2>1. CASE CreateItem(i) \/ UpdateSettings(i)
    BY <2>1, RecordKeeps
  <2>2. ASSUME NEW q \in Quantities,
               InitialStock(i, q) \/ IncreaseStock(i, q) \/ DecreaseStock(i, q)
        PROVE  InventoryInvariant'
    <3>1. /\ stock[i] \in Int /\ q \in Int /\ q >= 0
          /\ AllowOversell \/ stock[i] >= 0
      BY <2>2 DEF InventoryInvariant, InventoryTypeOK, NoOversell, Quantities,
                  InventoryAssumption
    <3>2. CASE InitialStock(i, q)
      BY <3>1, <3>2, SetStockKeeps DEF InitialStock
    <3>3. CASE IncreaseStock(i, q)
      <4>1. stock[i] + q \in Int /\ (AllowOversell \/ stock[i] + q >= 0)
        BY <3>1
      <4>. QED
        BY <4>1, <3>3, SetStockKeeps DEF IncreaseStock
    <3>4. CASE DecreaseStock(i, q)
      <4>1. stock[i] - q \in Int /\ (AllowOversell \/ stock[i] - q >= 0)
        BY <3>1, <3>4 DEF DecreaseStock, Suffices
      <4>. QED
        BY <4>1, <3>4, SetStockKeeps DEF DecreaseStock
    <3>. QED
      BY <2>2, <3>2, <3>3, <3>4
  <2>. QED
    BY <1>1, <2>1, <2>2 DEF StockStep
<1>2. ASSUME NEW a \in Adjustments, AdjustmentStep(a)
      PROVE  InventoryInvariant'
  <2>1. CASE CreateAdjustment(a)
    BY <2>1, StatusKeeps DEF CreateAdjustment, AdjustmentStates
  <2>2. CASE ConfirmAdjustment(a)
    BY <2>2, ConfirmKeeps
  <2>3. CASE CancelAdjustment(a)
    BY <2>3, StatusKeeps DEF CancelAdjustment, AdjustmentStates
  <2>. QED
    BY <1>2, <2>1, <2>2, <2>3 DEF AdjustmentStep
<1>3. ASSUME NEW e \in Editors, EditorStep(e)
      PROVE  InventoryInvariant'
  <2>1. CASE WriteAdd(e) \/ WriteUpdate(e) \/ WriteQuick(e)
    BY <2>1, EditorWrites
  <2>2. CASE WriteDelete(e)
    BY <2>2, DeleteKeeps
  <2>3. CASE Fail(e)
    <3>1. Idle \in Request /\ request' = [request EXCEPT ![e] = Idle] /\ RequestKnows(e)'
      BY <2>3 DEF Fail, Done, Idle, Request, RequestKnows, InventoryInvariant,
                  InventoryTypeOK
    <3>. QED
      BY <2>3, <3>1, RequestKeeps DEF Fail
  <2>. QED
    BY <1>3, <2>1, <2>2, <2>3, BeginKeeps DEF EditorStep
<1>4. CASE UNCHANGED inventoryVars
  <2>1. /\ record' = record /\ stock' = stock /\ moves' = moves /\ status' = status
        /\ line' = line /\ gone' = gone /\ request' = request
    BY <1>4 DEF inventoryVars
  <2>2. InventoryTypeOK' /\ StockIsLedger' /\ NoOversell'
    BY <2>1, Zenon DEF InventoryInvariant, InventoryTypeOK, StockIsLedger, NoOversell, Fresh
  <2>3. (\A e \in Editors : RequestKnows(e))' /\ (\A l \in Lines : LineKnows(l))'
    BY <2>1 DEF InventoryInvariant, RequestKnows, LineKnows, Fresh
  <2>4. MovementsApplied' /\ EachLineOnce'
    BY <2>1 DEF InventoryInvariant, MovementsApplied, Applied, EachLineOnce, Exists, Fresh
  <2>. QED
    BY <2>2, <2>3, <2>4 DEF InventoryInvariant
<1>. QED
  BY <1>1, <1>2, <1>3, <1>4 DEF InventoryNext

(* In every state the services and pages reach, what the invariant says holds. *)
THEOREM InventoryIsKept == InventorySpec => []InventoryInvariant
<1>1. InventoryInit => InventoryInvariant
  BY InventoryAssumption, InventoryStarts
<1>2. InventoryInvariant /\ [InventoryNext]_inventoryVars => InventoryInvariant'
  BY InventoryAssumption, InventoryKeeps
<1>. QED
  BY <1>1, <1>2, PTL DEF InventorySpec

(* Records, stocks, movements, lines and requests keep their types, and a written line
   belongs to an adjustment. *)
THEOREM InventoryTyped == InventorySpec => []InventoryTypeOK
<1>1. InventoryInvariant => InventoryTypeOK
  BY DEF InventoryInvariant
<1>. QED
  BY <1>1, InventoryIsKept, PTL

(* However many sales, receipts, counts and pages interleave, the movements of an item
   explain its stock. *)
THEOREM StockExplained == InventorySpec => []StockIsLedger
<1>1. InventoryInvariant => StockIsLedger
  BY DEF InventoryInvariant
<1>. QED
  BY <1>1, InventoryIsKept, PTL

(* A shop that does not sell what it does not have never owes stock. *)
THEOREM NeverOversold == InventorySpec => []NoOversell
<1>1. InventoryInvariant => NoOversell
  BY DEF InventoryInvariant
<1>. QED
  BY <1>1, InventoryIsKept, PTL

(* A count moves stock at most once, and only through its confirmation. *)
THEOREM CountsAppliedOnce == InventorySpec => []CountsApplyOnce
<1>1. InventoryInvariant => CountsApplyOnce
  BY DEF InventoryInvariant, CountsApplyOnce, MovementsApplied, Applied, EachLineOnce
<1>. QED
  BY <1>1, InventoryIsKept, PTL

-------------------------------------------------------------------------------
Begun == {"ordered", "partially_received", "received", "cancelled"}

(* What a submission that was told "registrada" may rely on. *)
AttemptKnows(q) ==
    attempt[q].stage # "idle" =>
        /\ attempt[q].key \in Keys /\ attempt[q].order \in Orders
        /\ attempt[q].stage = "registered" =>
               SameReceipt(attempt[q])

(* An order with a receipt is past being cancelled. *)
ReceiptKnows(k) ==
    receipt[k] # NoReceipt =>
        /\ receipt[k].order \in Orders
        /\ orderStatus[receipt[k].order] \in {"partially_received", "received"}

AnswerInvariant ==
    /\ attempt \in [Attempts -> Attempt]
    /\ receipt \in [Keys -> Receipt]
    /\ orderStatus \in [Orders -> {"none", "draft"} \cup Begun]
    /\ \A q \in Attempts : AttemptKnows(q)
    /\ \A k \in Keys : ReceiptKnows(k)
-------------------------------------------------------------------------------
(* A step that leaves submissions and receipts alone tells nobody anything new. *)
LEMMA NothingTold ==
    ASSUME AnswerInvariant, attempt' = attempt, receipt' = receipt,
           orderStatus' \in [Orders -> {"none", "draft"} \cup Begun],
           \A o \in Orders : orderStatus[o] \in {"partially_received", "received"} =>
                                 orderStatus'[o] = orderStatus[o]
    PROVE  AnswerInvariant' /\ \A q \in Attempts : Told(q)
<1>1. AnswerInvariant'
  <2>1. \A q \in Attempts : AttemptKnows(q)'
    BY DEF AnswerInvariant, AttemptKnows, SameReceipt
  <2>2. \A k \in Keys : ReceiptKnows(k)'
    BY DEF AnswerInvariant, ReceiptKnows
  <2>. QED
    BY <2>1, <2>2 DEF AnswerInvariant
<1>2. \A q \in Attempts : Told(q)
  BY DEF AnswerInvariant, AttemptKnows, SameReceipt, Told
<1>. QED
  BY <1>1, <1>2

(* An answer changes the stage of its submission only. *)
LEMMA Answered ==
    ASSUME AnswerInvariant, NEW q \in Attempts, NEW stage, Answer(q, stage),
           stage \in {"idle", "checked", "registered", "refused"}
    PROVE  /\ attempt' \in [Attempts -> Attempt]
           /\ attempt'[q] = [key |-> attempt[q].key, order |-> attempt[q].order,
                             lines |-> attempt[q].lines, stage |-> stage]
           /\ \A p \in Attempts : p # q => attempt'[p] = attempt[p]
<1>1. attempt \in [Attempts -> Attempt] /\ attempt[q] \in Attempt
  BY DEF AnswerInvariant
<1>2. attempt' = [attempt EXCEPT ![q] = [attempt[q] EXCEPT !.stage = stage]]
  BY <1>1 DEF Answer
<1>3. [attempt[q] EXCEPT !.stage = stage]
        = [key |-> attempt[q].key, order |-> attempt[q].order,
           lines |-> attempt[q].lines, stage |-> stage]
  BY <1>1 DEF Attempt
<1>4. [attempt[q] EXCEPT !.stage = stage] \in Attempt
  BY <1>1 DEF Attempt
<1>. QED
  BY <1>1, <1>2, <1>3, <1>4

(* A submission is refused by the view only if its key has no receipt of its order. *)
LEMMA Submitted ==
    ASSUME AnswerInvariant, NEW q \in Attempts, NEW k \in Keys, NEW o \in Orders,
           NEW lines \in Amounts, Submit(q, k, o, lines)
    PROVE  AnswerInvariant' /\ \A p \in Attempts : Told(p)
<1>1. receipt' = receipt /\ orderStatus' = orderStatus
  BY DEF Submit
<1>. DEFINE stage == IF ViewAccepts(k, o) THEN "checked" ELSE "refused"
            a == [key |-> k, order |-> o, lines |-> lines, stage |-> stage]
<1>2. attempt' = [attempt EXCEPT ![q] = a]
  BY DEF Submit
<1>3. a \in Attempt
  BY DEF Attempt
<1>4. attempt' \in [Attempts -> Attempt]
  BY <1>2, <1>3 DEF AnswerInvariant
<1>5. attempt'[q] = a /\ \A p \in Attempts : p # q => attempt'[p] = attempt[p]
  BY <1>2 DEF AnswerInvariant
<1>6. a.key = k /\ a.order = o /\ a.lines = lines /\ a.stage \in {"checked", "refused"}
      /\ (a.stage = "refused" <=> ~ViewAccepts(k, o))
  OBVIOUS
<1>. HIDE DEF a
<1>7. ASSUME NEW p \in Attempts PROVE AttemptKnows(p)'
  <2>1. CASE p = q
    BY <1>5, <1>6, <2>1 DEF AttemptKnows
  <2>2. CASE p # q
    BY <1>1, <1>5, <2>2 DEF AnswerInvariant, AttemptKnows, SameReceipt
  <2>. QED
    BY <2>1, <2>2
<1>8. AnswerInvariant'
  BY <1>1, <1>4, <1>7 DEF AnswerInvariant, ReceiptKnows
<1>9. a.stage = "refused" => receipt[k].order # o
  <2>1. ReceiptKnows(k)
    BY DEF AnswerInvariant
  <2>2. NoReceipt.order # o
    BY PurchasesAssumption DEF NoReceipt
  <2>. QED
    BY <1>6, <2>1, <2>2 DEF ReceiptKnows, ViewAccepts, Receivable
<1>10. ASSUME NEW p \in Attempts PROVE Told(p)
  <2>1. CASE p = q
    BY <1>1, <1>5, <1>6, <1>9, <2>1 DEF Told
  <2>2. CASE p # q
    BY <1>1, <1>5, <2>2 DEF AnswerInvariant, AttemptKnows, SameReceipt, Told
  <2>. QED
    BY <2>1, <2>2
<1>. QED
  BY <1>8, <1>10

(* The service answers from the receipt of the key, or refuses when there is none. *)
LEMMA AnsweredFromReceipt ==
    ASSUME AnswerInvariant, NEW q \in Attempts,
           AnswerFromReceipt(q) \/ RefuseReceipt(q)
    PROVE  AnswerInvariant' /\ \A p \in Attempts : Told(p)
<1>1. receipt' = receipt /\ orderStatus' = orderStatus /\ attempt[q].stage = "checked"
  BY DEF AnswerFromReceipt, RefuseReceipt
<1>2. attempt[q].key \in Keys /\ attempt[q].order \in Orders
  BY <1>1 DEF AnswerInvariant, AttemptKnows
<1>3. PICK stage \in {"registered", "refused"} :
          /\ Answer(q, stage)
          /\ stage = "registered" => SameReceipt(attempt[q])
          /\ stage = "refused" => ~SameReceipt(attempt[q])
  <2>1. CASE AnswerFromReceipt(q)
    BY <2>1 DEF AnswerFromReceipt
  <2>2. CASE RefuseReceipt(q)
    <3>1. Answer(q, "refused") /\ receipt[attempt[q].key] = NoReceipt
      BY <2>2 DEF RefuseReceipt
    <3>2. NoReceipt.order # attempt[q].order
      BY <1>2, PurchasesAssumption DEF NoReceipt
    <3>. QED
      BY <3>1, <3>2 DEF SameReceipt
  <2>. QED
    BY <2>1, <2>2
<1>4. /\ attempt' \in [Attempts -> Attempt]
      /\ attempt'[q] = [key |-> attempt[q].key, order |-> attempt[q].order,
                        lines |-> attempt[q].lines, stage |-> stage]
      /\ \A p \in Attempts : p # q => attempt'[p] = attempt[p]
  BY <1>3, Answered
<1>5. ASSUME NEW p \in Attempts PROVE AttemptKnows(p)' /\ Told(p)
  <2>1. CASE p = q
    BY <1>1, <1>2, <1>3, <1>4, <2>1 DEF AttemptKnows, SameReceipt, Told
  <2>2. CASE p # q
    BY <1>1, <1>4, <2>2 DEF AnswerInvariant, AttemptKnows, SameReceipt, Told
  <2>. QED
    BY <2>1, <2>2
<1>6. AnswerInvariant'
  BY <1>1, <1>4, <1>5 DEF AnswerInvariant, ReceiptKnows
<1>. QED
  BY <1>5, <1>6

(* A receipt is written once for its key, by the submission that is told so. *)
LEMMA Received ==
    ASSUME AnswerInvariant, NEW q \in Attempts, Receive(q)
    PROVE  AnswerInvariant' /\ \A p \in Attempts : Told(p)
<1>. DEFINE k == attempt[q].key
            o == attempt[q].order
            new == [order |-> o, lines |-> attempt[q].lines,
                    tracked |-> TrackedLines(attempt[q])]
<1>1. attempt[q].stage = "checked" /\ receipt[k] = NoReceipt
      /\ Receivable(o) /\ Answer(q, "registered")
  BY DEF Receive, Acceptable
<1>2. receipt' = [receipt EXCEPT ![k] = new]
  BY DEF Receive
<1>3. orderStatus' = [orderStatus EXCEPT ![o] = StatusAfter(o, AfterReceipt(attempt[q]))]
  BY DEF Receive
<1>4. k \in Keys /\ o \in Orders /\ attempt[q] \in Attempt
  BY <1>1 DEF AnswerInvariant, AttemptKnows
<1>5. new \in Receipt
  BY <1>4 DEF Receipt, Attempt, TrackedLines, Requested
<1>6. StatusAfter(o, AfterReceipt(attempt[q])) \in {"partially_received", "received"}
  BY DEF StatusAfter
<1>7. /\ attempt' \in [Attempts -> Attempt]
      /\ attempt'[q] = [key |-> k, order |-> o, lines |-> attempt[q].lines,
                        stage |-> "registered"]
      /\ \A p \in Attempts : p # q => attempt'[p] = attempt[p]
  BY <1>1, Answered
<1>8. /\ receipt' \in [Keys -> Receipt]
      /\ receipt'[k] = new /\ \A m \in Keys : m # k => receipt'[m] = receipt[m]
  BY <1>2, <1>4, <1>5 DEF AnswerInvariant
<1>9. /\ orderStatus' \in [Orders -> {"none", "draft"} \cup Begun]
      /\ orderStatus'[o] \in {"partially_received", "received"}
      /\ \A m \in Orders : m # o => orderStatus'[m] = orderStatus[m]
  BY <1>3, <1>4, <1>6 DEF AnswerInvariant, Begun
<1>10. new.order = o /\ new.lines = attempt[q].lines /\ new # NoReceipt
  BY <1>4, PurchasesAssumption DEF NoReceipt
<1>. HIDE DEF new
<1>11. ASSUME NEW p \in Attempts PROVE AttemptKnows(p)' /\ Told(p)
  <2>1. CASE p = q
    BY <1>4, <1>7, <1>8, <1>10, <2>1 DEF AttemptKnows, SameReceipt, Told
  <2>2. CASE p # q
    <3>1. attempt[p].stage = "registered" => attempt[p].key # k
      BY <1>1, PurchasesAssumption DEF AnswerInvariant, AttemptKnows, SameReceipt, NoReceipt
    <3>. QED
      BY <1>7, <1>8, <2>2, <3>1 DEF AnswerInvariant, AttemptKnows, SameReceipt, Told
  <2>. QED
    BY <2>1, <2>2
<1>12. ASSUME NEW m \in Keys PROVE ReceiptKnows(m)'
  <2>1. CASE m = k
    BY <1>4, <1>8, <1>9, <1>10, <2>1 DEF ReceiptKnows
  <2>2. CASE m # k
    <3>1. ReceiptKnows(m) /\ receipt'[m] = receipt[m]
      BY <1>8, <2>2 DEF AnswerInvariant
    <3>. QED
      BY <1>9, <3>1 DEF ReceiptKnows, NoReceipt
  <2>. QED
    BY <2>1, <2>2
<1>13. AnswerInvariant'
  BY <1>7, <1>8, <1>9, <1>11, <1>12 DEF AnswerInvariant
<1>. QED
  BY <1>11, <1>13

(* Initially no key has a receipt and nothing was submitted. *)
LEMMA AnswersInitially ==
    ASSUME PurchasesInit
    PROVE  AnswerInvariant
<1>. USE DEF PurchasesInit
<1>1. \A n \in OrderLines : 0 \in 0 .. MaxStock
  BY InventoryAssumption
<1>2. [n \in OrderLines |-> 0] \in Amounts
  BY <1>1 DEF Amounts
<1>3. NoAttempt \in Attempt /\ NoAttempt.stage = "idle"
  BY <1>2 DEF NoAttempt, Attempt
<1>4. NoReceipt \in Receipt
  BY <1>2 DEF NoReceipt, Receipt
<1>. QED
  BY <1>3, <1>4 DEF AnswerInvariant, AttemptKnows, ReceiptKnows

(* Every step keeps the invariant and what pages were told. *)
LEMMA AnswersStep ==
    ASSUME AnswerInvariant, [PurchasesNext]_allVars
    PROVE  AnswerInvariant' /\ \A q \in Attempts : Told(q)
<1>. DEFINE Goal == AnswerInvariant' /\ \A q \in Attempts : Told(q)
<1>1. (UNCHANGED <<attempt, receipt, orderStatus>>) => Goal
  BY NothingTold DEF AnswerInvariant
<1>2. ASSUME NEW o \in Orders, CreatePurchase(o) \/ OrderPurchase(o) \/ CancelPurchase(o)
      PROVE  Goal
  <2>1. /\ attempt' = attempt /\ receipt' = receipt
        /\ \E to \in {"draft", "ordered", "cancelled"} :
               orderStatus' = [orderStatus EXCEPT ![o] = to]
        /\ orderStatus[o] \in {"none", "draft", "ordered"}
    BY <1>2 DEF CreatePurchase, OrderPurchase, CancelPurchase
  <2>2. /\ orderStatus' \in [Orders -> {"none", "draft"} \cup Begun]
        /\ \A m \in Orders : orderStatus[m] \in {"partially_received", "received"} =>
                               orderStatus'[m] = orderStatus[m]
    BY <2>1 DEF AnswerInvariant, Begun
  <2>. QED
    BY <2>1, <2>2, NothingTold
<1>3. ASSUME NEW o \in Orders, NEW n \in OrderLines, NEW i \in Items, NEW x,
             AddPurchaseLine(o, n, i, x)
      PROVE  Goal
  BY <1>1, <1>3 DEF AddPurchaseLine, WriteRow
<1>4. ASSUME NEW n \in OrderLines, RowStep(n)
      PROVE  Goal
  BY <1>1, <1>4 DEF RowStep, UpdatePurchaseLine, DeletePurchaseLine, WriteRow
<1>5. ASSUME NEW q \in Attempts, AttemptStep(q)
      PROVE  Goal
  <2>1. CASE \E k \in Keys, o \in Orders, lines \in Amounts : Submit(q, k, o, lines)
    BY <2>1, Submitted
  <2>2. CASE AnswerFromReceipt(q) \/ RefuseReceipt(q)
    BY <2>2, AnsweredFromReceipt
  <2>3. CASE Receive(q)
    BY <2>3, Received
  <2>. QED
    BY <1>5, <2>1, <2>2, <2>3 DEF AttemptStep
<1>6. CASE ChangeCatalog
  BY <1>1, <1>6 DEF ChangeCatalog
<1>7. CASE InventoryNext /\ UNCHANGED purchaseVars
  BY <1>1, <1>7 DEF purchaseVars
<1>8. CASE UNCHANGED allVars
  BY <1>1, <1>8 DEF allVars, purchaseVars
<1>9. ASSUME NEW o \in Orders, OrderStep(o) PROVE Goal
  BY <1>2, <1>3, <1>9 DEF OrderStep
<1>10. CASE PurchasesNext
  BY <1>4, <1>5, <1>6, <1>7, <1>9, <1>10 DEF PurchasesNext
<1>. QED
  BY <1>8, <1>10

-------------------------------------------------------------------------------
(* A sum grows by a term that was zero. *)
LEMMA TermAppears ==
    ASSUME NEW D, NEW f \in [D -> Nat], NEW g \in [D -> Nat], NEW j \in D,
           IsFiniteSet(Units(f)), \A m \in D \ {j} : g[m] = f[m], f[j] = 0
    PROVE  UnitSum(g) = UnitSum(f) + g[j]
<1>1. /\ UnitSum(f) \in Nat /\ g[j] \in Nat
      /\ UnitSum(g) = UnitSum(f) - f[j] + g[j]
  BY SumChange
<1>. QED
  BY <1>1

(* The stock that arrives.  What the first lines of a receipt bring grows line by
   line. *)
LEMMA BroughtGrows ==
    ASSUME NEW lines \in [OrderLines -> Nat], NEW s \in Seq(OrderLines)
    PROVE  /\ \A j \in 0 .. Len(s) : Brought(lines, s, j) \in Nat
           /\ Brought(lines, s, 0) = 0
           /\ \A j \in 1 .. Len(s) :
                  Brought(lines, s, j) = Brought(lines, s, j - 1) + lines[s[j]]
<1>. DEFINE D == DOMAIN s
            F(j) == [m \in D |-> IF m <= j THEN lines[s[m]] ELSE 0]
<1>1. D = 1 .. Len(s) /\ Len(s) \in Nat /\ IsFiniteSet(D)
  BY FS_Interval
<1>2. \A j \in 0 .. Len(s) : F(j) \in [D -> Nat]
  BY <1>1
<1>3. \A j \in 0 .. Len(s) : Brought(lines, s, j) = UnitSum(F(j))
  BY DEF Brought
<1>4. ASSUME NEW j \in 0 .. Len(s)
      PROVE  IsFiniteSet(Units(F(j))) /\ UnitSum(F(j)) \in Nat
  <2>1. F(j) \in [D -> Nat]
    BY <1>2
  <2>. HIDE DEF F, D
  <2>. QED
    BY <1>1, <2>1, SumTyped
<1>5. UnitSum(F(0)) = 0
  <2>1. F(0) \in [D -> Nat] /\ \A m \in D : F(0)[m] = 0
    BY <1>1, <1>2
  <2>. HIDE DEF F, D
  <2>. QED
    BY <2>1, SumOfZeros
<1>6. ASSUME NEW j \in 1 .. Len(s)
      PROVE  UnitSum(F(j)) = UnitSum(F(j - 1)) + lines[s[j]]
  <2>1. j \in D /\ j - 1 \in 0 .. Len(s) /\ j \in 0 .. Len(s)
    BY <1>1
  <2>2. F(j - 1) \in [D -> Nat] /\ F(j) \in [D -> Nat]
    BY <1>2, <2>1
  <2>3. /\ \A m \in D \ {j} : F(j)[m] = F(j - 1)[m]
        /\ F(j)[j] = lines[s[j]] /\ F(j - 1)[j] = 0
    BY <1>1, <2>1
  <2>4. IsFiniteSet(Units(F(j - 1)))
    BY <1>4, <2>1
  <2>5. lines[s[j]] \in Nat
    BY <1>1, <2>1
  <2>. DEFINE f == F(j - 1)
              g == F(j)
  <2>6. /\ f \in [D -> Nat] /\ g \in [D -> Nat] /\ IsFiniteSet(Units(f))
        /\ \A m \in D \ {j} : g[m] = f[m]
    BY <2>2, <2>3, <2>4
  <2>7. g[j] = lines[s[j]]
    BY <2>3
  <2>9. f[j] = 0
    BY <2>3
  <2>10. j \in D
    BY <2>1
  <2>. HIDE DEF F, D, f, g
  <2>8. UnitSum(g) = UnitSum(f) + lines[s[j]]
    <3>1. UnitSum(g) = UnitSum(f) + g[j]
      BY <2>6, <2>9, <2>10, TermAppears, Zenon
    <3>. QED
      BY <2>7, <3>1
  <2>. QED
    BY <2>8 DEF f, g
<1>. HIDE DEF F
<1>7. 0 \in 0 .. Len(s) /\ \A j \in 1 .. Len(s) : j \in 0 .. Len(s) /\ j - 1 \in 0 .. Len(s)
  BY <1>1
<1>. QED
  BY <1>3, <1>4, <1>5, <1>6, <1>7

(* The movements of one item: from the stock it has to what all of its lines leave. *)
Arriving(i, lines, s, rows) ==
    /\ rows \in Seq(MovementRow) /\ Len(rows) = Len(s)
    /\ \A j \in 1 .. Len(s) :
           /\ rows[j].before = IF j = 1 THEN stock[i] ELSE rows[j - 1].after
           /\ rows[j].after - rows[j].before = lines[s[j]]
           /\ rows[j].line = NoOne
    /\ Len(s) = 0 => Brought(lines, s, Len(s)) = 0
    /\ Len(s) # 0 => rows[Len(s)].after = stock[i] + Brought(lines, s, Len(s))
    /\ Brought(lines, s, Len(s)) \in Nat

LEMMA RowsArrive ==
    ASSUME NEW i \in Items, stock[i] \in Int,
           NEW lines \in [OrderLines -> Nat], NEW s \in Seq(OrderLines),
           NEW rows, rows = ArrivalRows(i, lines, s)
    PROVE  Arriving(i, lines, s, rows)
<1>. DEFINE B(j) == Brought(lines, s, j)
<1>1. DOMAIN s = 1 .. Len(s) /\ Len(s) \in Nat
  OBVIOUS
<1>2. /\ \A j \in 0 .. Len(s) : B(j) \in Nat
      /\ B(0) = 0
      /\ \A j \in 1 .. Len(s) : B(j) = B(j - 1) + lines[s[j]]
  BY BroughtGrows
<1>3. rows = [j \in 1 .. Len(s) |-> [before |-> stock[i] + B(j - 1),
                                     after |-> stock[i] + B(j), line |-> NoOne]]
  BY <1>1 DEF ArrivalRows, Movement
<1>. HIDE DEF B
<1>4. ASSUME NEW j \in 1 .. Len(s)
      PROVE  /\ rows[j] \in MovementRow
             /\ rows[j].before = IF j = 1 THEN stock[i] ELSE rows[j - 1].after
             /\ rows[j].after - rows[j].before = lines[s[j]]
             /\ rows[j].line = NoOne
             /\ rows[j].after = stock[i] + B(j)
  <2>1. /\ j - 1 \in 0 .. Len(s) /\ j \in 0 .. Len(s)
        /\ B(j) \in Nat /\ B(j - 1) \in Nat /\ B(j) = B(j - 1) + lines[s[j]]
        /\ lines[s[j]] \in Nat /\ (j = 1 => j - 1 = 0)
    BY <1>1, <1>2
  <2>2. rows[j] = [before |-> stock[i] + B(j - 1), after |-> stock[i] + B(j),
                   line |-> NoOne]
    BY <1>3
  <2>3. j # 1 => rows[j - 1].after = stock[i] + B(j - 1)
    <3>1. j # 1 => j - 1 \in 1 .. Len(s)
      BY <1>1
    <3>. QED
      BY <1>3, <3>1
  <2>4. rows[j] \in MovementRow
    BY <2>1, <2>2, SMTT(40) DEF MovementRow
  <2>5. /\ rows[j].before = stock[i] + B(j - 1) /\ rows[j].after = stock[i] + B(j)
        /\ rows[j].line = NoOne
    BY <2>2
  <2>6. rows[j].after - rows[j].before = lines[s[j]]
    BY <2>1, <2>5, SMTT(40)
  <2>7. rows[j].before = IF j = 1 THEN stock[i] ELSE rows[j - 1].after
    <3>1. CASE j = 1
      <4>1. B(j - 1) = 0
        BY <1>2, <2>1, <3>1
      <4>. QED
        BY <2>5, <3>1, <4>1
    <3>2. CASE j # 1
      BY <2>3, <2>5, <3>2
    <3>. QED
      BY <3>1, <3>2
  <2>. QED
    BY <2>4, <2>5, <2>6, <2>7
<1>5. rows \in Seq(MovementRow) /\ Len(rows) = Len(s)
  BY <1>1, <1>3, <1>4
<1>6. 0 \in 0 .. Len(s) /\ Len(s) \in 0 .. Len(s) /\ (Len(s) # 0 => Len(s) \in 1 .. Len(s))
  BY <1>1
<1>. QED
  BY <1>2, <1>4, <1>5, <1>6 DEF B, Arriving

(* The movements explain the stock: StockIsLedger for one item. *)
Explained(now, rows) ==
    /\ now = IF Len(rows) = 0 THEN 0 ELSE rows[Len(rows)].after
    /\ \A k \in 1 .. Len(rows) :
           rows[k].before = IF k = 1 THEN 0 ELSE rows[k - 1].after

(* What a receipt does to the history of an item. *)
Lengthened(old, new, s, lines) ==
    /\ new \in Seq(MovementRow) /\ Len(old) \in Nat
    /\ Len(new) = Len(old) + Len(s)
    /\ \A k \in 1 .. Len(old) : new[k] = old[k]
    /\ \A j \in 1 .. Len(s) :
           LET k == Len(old) + j IN
           new[k].after - new[k].before = lines[s[j]] /\ new[k].line = NoOne

(* Several movements in a row keep the ledger, as one does. *)
LEMMA LedgerContinues ==
    ASSUME InventoryTypeOK, StockIsLedger, NEW i \in Items,
           NEW lines \in [OrderLines -> Nat], NEW s \in Seq(OrderLines),
           NEW new, new = moves[i] \o ArrivalRows(i, lines, s),
           NEW now, now = stock[i] + Brought(lines, s, Len(s))
    PROVE  /\ Lengthened(moves[i], new, s, lines)
           /\ now \in Int /\ now >= stock[i]
           /\ Explained(now, new)
<1>. DEFINE old == moves[i]
            rows == ArrivalRows(i, lines, s)
<1>1. /\ stock[i] \in Int /\ old \in Seq(MovementRow) /\ Len(old) \in Nat /\ Len(s) \in Nat
      /\ rows = ArrivalRows(i, lines, s) /\ new = old \o rows
  BY DEF InventoryTypeOK
<1>3. /\ stock[i] = IF Len(old) = 0 THEN 0 ELSE old[Len(old)].after
      /\ \A k \in 1 .. Len(old) :
             old[k].before = IF k = 1 THEN 0 ELSE old[k - 1].after
  BY DEF StockIsLedger
<1>. HIDE DEF old, rows
<1>2. /\ rows \in Seq(MovementRow) /\ Len(rows) = Len(s)
      /\ \A j \in 1 .. Len(s) :
             /\ rows[j].before = IF j = 1 THEN stock[i] ELSE rows[j - 1].after
             /\ rows[j].after - rows[j].before = lines[s[j]]
             /\ rows[j].line = NoOne
      /\ Len(s) = 0 => Brought(lines, s, Len(s)) = 0
      /\ Len(s) # 0 => rows[Len(s)].after = stock[i] + Brought(lines, s, Len(s))
      /\ Brought(lines, s, Len(s)) \in Nat
  <2>1. stock[i] \in Int /\ rows = ArrivalRows(i, lines, s)
    BY <1>1
  <2>2. Arriving(i, lines, s, rows)
    BY <2>1, RowsArrive
  <2>. QED
    BY <2>2 DEF Arriving
<1>4. /\ new \in Seq(MovementRow) /\ Len(new) = Len(old) + Len(s)
      /\ \A k \in 1 .. Len(old) + Len(s) :
             new[k] = IF k <= Len(old) THEN old[k] ELSE rows[k - Len(old)]
  <2>1. /\ new \in Seq(MovementRow) /\ Len(new) = Len(old) + Len(rows)
        /\ \A k \in 1 .. Len(old) + Len(rows) :
               new[k] = IF k <= Len(old) THEN old[k] ELSE rows[k - Len(old)]
    <3>1. old \in Seq(MovementRow) /\ rows \in Seq(MovementRow) /\ new = old \o rows
      BY <1>1, <1>2
    <3>. QED
      BY <3>1, ConcatProperties
  <2>2. Len(rows) = Len(s)
    BY <1>2
  <2>. QED
    BY <2>1, <2>2
<1>5. \A k \in 1 .. Len(old) : new[k] = old[k]
  BY <1>1, <1>4
<1>6. ASSUME NEW j \in 1 .. Len(s) PROVE new[Len(old) + j] = rows[j]
  <2>1. /\ Len(old) + j \in 1 .. Len(old) + Len(s) /\ ~(Len(old) + j <= Len(old))
        /\ (Len(old) + j) - Len(old) = j
    BY <1>1
  <2>. QED
    BY <1>4, <2>1
<1>7. ASSUME NEW k \in 1 .. Len(new)
      PROVE  new[k].before = IF k = 1 THEN 0 ELSE new[k - 1].after
  <2>1. CASE k <= Len(old)
    <3>1. k \in 1 .. Len(old) /\ (k # 1 => k - 1 \in 1 .. Len(old))
      BY <1>1, <2>1
    <3>. QED
      BY <1>3, <1>5, <3>1
  <2>2. CASE k = Len(old) + 1
    <3>1. 1 \in 1 .. Len(s)
      BY <1>1, <1>4, <2>2
    <3>2. new[k].before = stock[i]
      BY <1>2, <1>6, <2>2, <3>1
    <3>3. CASE Len(old) = 0
      BY <1>3, <2>2, <3>2, <3>3
    <3>4. CASE Len(old) # 0
      <4>1. k # 1 /\ k - 1 = Len(old) /\ k - 1 \in 1 .. Len(old)
        BY <1>1, <2>2, <3>4
      <4>. QED
        BY <1>3, <1>5, <3>2, <3>4, <4>1
    <3>. QED
      BY <3>3, <3>4
  <2>3. CASE k > Len(old) + 1
    <3>. DEFINE j == k - Len(old)
    <3>1. /\ j \in 1 .. Len(s) /\ j # 1 /\ j - 1 \in 1 .. Len(s) /\ k # 1
          /\ k = Len(old) + j /\ k - 1 = Len(old) + (j - 1)
      <4>1. Len(new) = Len(old) + Len(s) /\ k \in 1 .. Len(old) + Len(s)
        BY <1>4
      <4>2. Len(old) \in Nat /\ Len(s) \in Nat
        BY <1>1
      <4>. QED
        BY <2>3, <4>1, <4>2
    <3>. HIDE DEF j
    <3>2. new[k] = rows[j] /\ new[k - 1] = rows[j - 1]
      BY <1>6, <3>1
    <3>. QED
      BY <1>2, <3>1, <3>2
  <2>. QED
    BY <1>1, <1>4, <2>1, <2>2, <2>3, SMTT(40)
<1>8. now = IF Len(new) = 0 THEN 0 ELSE new[Len(new)].after
  <2>1. CASE Len(s) = 0
    <3>1. Len(new) = Len(old) /\ now = stock[i]
      BY <1>1, <1>2, <1>4, <2>1
    <3>2. Len(old) # 0 => Len(old) \in 1 .. Len(old)
      BY <1>1
    <3>. QED
      BY <1>3, <1>5, <3>1, <3>2
  <2>2. CASE Len(s) # 0
    <3>1. Len(s) \in 1 .. Len(s) /\ Len(new) = Len(old) + Len(s) /\ Len(new) # 0
      BY <1>1, <1>4, <2>2
    <3>. QED
      BY <1>2, <1>6, <2>2, <3>1
  <2>. QED
    BY <2>1, <2>2
<1>9. Lengthened(old, new, s, lines)
  BY <1>1, <1>2, <1>4, <1>5, <1>6 DEF Lengthened
<1>10. Explained(now, new)
  BY <1>7, <1>8 DEF Explained
<1>11. now \in Int /\ now >= stock[i]
  BY <1>1, <1>2
<1>. QED
  BY <1>9, <1>10, <1>11 DEF old

(* A receipt keeps everything that is kept of a stock. *)
LEMMA StockReceived ==
    ASSUME InventoryInvariant, NEW lines \in [OrderLines -> Nat],
           NEW s \in [Items -> Seq(OrderLines)],
           stock' = [i \in Items |-> stock[i] + Brought(lines, s[i], Len(s[i]))],
           moves' = [i \in Items |-> moves[i] \o ArrivalRows(i, lines, s[i])],
           record' \in [Items -> RecordStates],
           UNCHANGED <<status, line, gone, request>>
    PROVE  /\ InventoryInvariant'
           /\ \A i \in Items : Lengthened(moves[i], moves'[i], s[i], lines)
<1>1. InventoryTypeOK /\ StockIsLedger /\ stock \in [Items -> Int]
  BY DEF InventoryInvariant, InventoryTypeOK
<1>2. ASSUME NEW i \in Items
      PROVE  /\ Lengthened(moves[i], moves'[i], s[i], lines)
             /\ stock'[i] \in Int /\ stock'[i] >= stock[i]
             /\ Explained(stock'[i], moves'[i])
  <2>1. /\ s[i] \in Seq(OrderLines)
        /\ moves'[i] = moves[i] \o ArrivalRows(i, lines, s[i])
        /\ stock'[i] = stock[i] + Brought(lines, s[i], Len(s[i]))
    OBVIOUS
  <2>. QED
    BY <1>1, <2>1, LedgerContinues
<1>3. InventoryTypeOK'
  <2>1. stock' \in [Items -> Int] /\ moves' \in [Items -> Seq(MovementRow)]
    BY <1>2 DEF Lengthened
  <2>. QED
    BY <1>1, <2>1 DEF InventoryTypeOK, Fresh
<1>4. StockIsLedger'
  BY <1>2, Zenon DEF StockIsLedger, Explained
<1>5. NoOversell'
  <2>1. \A i \in Items : stock[i] \in Int /\ stock'[i] \in Int /\ stock'[i] >= stock[i]
    BY <1>1, <1>2
  <2>2. AllowOversell \/ \A i \in Items : stock[i] >= 0
    BY DEF InventoryInvariant, NoOversell
  <2>. QED
    BY <2>1, <2>2 DEF NoOversell
<1>6. (\A e \in Editors : RequestKnows(e))' /\ (\A l \in Lines : LineKnows(l))'
  BY DEF InventoryInvariant, RequestKnows, LineKnows, Fresh
<1>7. ASSUME NEW i \in Items, NEW k \in 1 .. Len(moves'[i]), moves'[i][k].line # NoOne
      PROVE  k \in 1 .. Len(moves[i]) /\ moves'[i][k] = moves[i][k]
  <2>1. Lengthened(moves[i], moves'[i], s[i], lines)
    BY <1>2
  <2>4. s[i] \in Seq(OrderLines) /\ Len(s[i]) \in Nat
    OBVIOUS
  <2>2. CASE k <= Len(moves[i])
    BY <2>1, <2>2 DEF Lengthened
  <2>3. CASE k > Len(moves[i])
    <3>1. k - Len(moves[i]) \in 1 .. Len(s[i]) /\ k = Len(moves[i]) + (k - Len(moves[i]))
      BY <2>1, <2>3, <2>4 DEF Lengthened
    <3>. QED
      BY <1>7, <2>1, <3>1 DEF Lengthened
  <2>. QED
    BY <2>1, <2>2, <2>3 DEF Lengthened
<1>8. MovementsApplied'
  BY <1>7 DEF InventoryInvariant, MovementsApplied, Applied, Exists, Fresh
<1>9. EachLineOnce'
  <2>1. ASSUME NEW j \in Items, NEW h \in Items,
               NEW k \in 1 .. Len(moves'[j]), NEW m \in 1 .. Len(moves'[h]),
               moves'[j][k].line # NoOne, moves'[j][k].line = moves'[h][m].line
        PROVE  j = h /\ k = m
    <3>1. /\ k \in 1 .. Len(moves[j]) /\ moves'[j][k] = moves[j][k]
          /\ m \in 1 .. Len(moves[h]) /\ moves'[h][m] = moves[h][m]
      BY <2>1, <1>7
    <3>. QED
      BY <2>1, <3>1 DEF InventoryInvariant, EachLineOnce
  <2>. QED
    BY <2>1 DEF EachLineOnce
<1>. QED
  BY <1>2, <1>3, <1>4, <1>5, <1>6, <1>8, <1>9 DEF InventoryInvariant

-------------------------------------------------------------------------------
(* The rows of orders: what a row received is the sum of its receipts, whose lines
   are rows of their own order, and so are those of a page on an order that was
   placed. *)
ReceivedOf(n) == [k \in Keys |-> receipt[k].lines[n]]

RowKnows(n) ==
    /\ IsFiniteSet(Units(ReceivedOf(n)))
    /\ orderLine[n].received = UnitSum(ReceivedOf(n))
    /\ orderLine[n].received <= orderLine[n].ordered
    /\ orderLine[n] # NoRow => orderLine[n].order \in Orders /\ orderLine[n].item \in Items

LinesKnow(k) ==
    /\ \A n \in OrderLines :
           receipt[k].lines[n] > 0 => orderLine[n].order = receipt[k].order
    /\ \A n \in receipt[k].tracked : receipt[k].lines[n] > 0

PageKnows(q) ==
    attempt[q].stage # "idle" =>
        /\ orderStatus[attempt[q].order] \in Begun
        /\ \A n \in OrderLines :
               attempt[q].lines[n] > 0 => orderLine[n].order = attempt[q].order

Some(o) == \E k \in Keys : receipt[k].order = o
All(o) == \A n \in RowsOf(o) : orderLine[n].received = orderLine[n].ordered
OrderKnows(o) ==
    /\ orderStatus[o] = "received" <=> Some(o) /\ All(o)
    /\ orderStatus[o] = "partially_received" <=> Some(o) /\ ~All(o)

ReceivingInvariant ==
    /\ orderLine \in [OrderLines -> Row]
    /\ catalog \in Catalog
    /\ \A n \in OrderLines : RowKnows(n)
    /\ \A k \in Keys : LinesKnow(k)
    /\ \A q \in Attempts : PageKnows(q)
    /\ \A o \in Orders : OrderKnows(o)

(* Lines of receipts are natural numbers. *)
LEMMA ReceivedTyped ==
    ASSUME AnswerInvariant, NEW n \in OrderLines
    PROVE  /\ ReceivedOf(n) \in [Keys -> Nat]
           /\ \A k \in Keys : receipt[k].lines \in Amounts
                              /\ receipt[k].lines[n] \in 0 .. MaxStock
<1>1. \A k \in Keys : receipt[k].lines \in Amounts
  BY DEF AnswerInvariant, Receipt
<1>2. \A k \in Keys : receipt[k].lines[n] \in 0 .. MaxStock
  BY <1>1 DEF Amounts
<1>3. \A x \in 0 .. MaxStock : x \in Nat
  BY InventoryAssumption
<1>. QED
  BY <1>1, <1>2, <1>3 DEF ReceivedOf

(* Nothing was received of a row that can still be written. *)
Writable(n) ==
    orderLine[n] = NoRow
    \/ (orderLine[n].order \in Orders /\ orderStatus[orderLine[n].order] = "draft")

LEMMA NothingReceived ==
    ASSUME AnswerInvariant, ReceivingInvariant, NEW n \in OrderLines, Writable(n)
    PROVE  /\ \A k \in Keys : receipt[k].lines[n] = 0
           /\ orderLine[n].received = 0
           /\ \A q \in Attempts : attempt[q].stage # "idle" => ~(attempt[q].lines[n] > 0)
<1>1. ASSUME NEW k \in Keys PROVE receipt[k].lines[n] = 0
  <2>1. receipt[k].lines[n] \in 0 .. MaxStock
    BY ReceivedTyped
  <2>2. SUFFICES ASSUME receipt[k].lines[n] > 0 PROVE FALSE
    BY <2>1, InventoryAssumption
  <2>3. orderLine[n].order = receipt[k].order
    BY <2>2 DEF ReceivingInvariant, LinesKnow
  <2>4. receipt[k] # NoReceipt
    BY <2>2 DEF NoReceipt
  <2>5. receipt[k].order \in Orders
        /\ orderStatus[receipt[k].order] \in {"partially_received", "received"}
    BY <2>4 DEF AnswerInvariant, ReceiptKnows
  <2>. QED
    BY <2>3, <2>5, PurchasesAssumption DEF Writable, NoRow
<1>2. orderLine[n].received = 0
  <2>1. ReceivedOf(n) \in [Keys -> Nat] /\ \A k \in Keys : ReceivedOf(n)[k] = 0
    BY <1>1, ReceivedTyped DEF ReceivedOf
  <2>2. UnitSum(ReceivedOf(n)) = 0
    BY <2>1, SumOfZeros
  <2>. QED
    BY <2>2 DEF ReceivingInvariant, RowKnows
<1>3. ASSUME NEW q \in Attempts, attempt[q].stage # "idle", attempt[q].lines[n] > 0
      PROVE  FALSE
  <2>1. /\ orderStatus[attempt[q].order] \in Begun
        /\ orderLine[n].order = attempt[q].order /\ attempt[q].order \in Orders
    BY <1>3 DEF ReceivingInvariant, PageKnows, AnswerInvariant, AttemptKnows
  <2>. QED
    BY <2>1, PurchasesAssumption DEF Writable, NoRow, Begun
<1>. QED
  BY <1>1, <1>2, <1>3

(* A row written in a draft. *)
LEMMA RowWritten ==
    ASSUME AnswerInvariant, ReceivingInvariant, NEW n \in OrderLines, Writable(n),
           NEW row \in Row, row.received = 0,
           row = NoRow \/ (row.order \in Orders /\ row.item \in Items
                           /\ orderStatus[row.order] = "draft"),
           orderLine' = [orderLine EXCEPT ![n] = row],
           UNCHANGED <<orderStatus, receipt, attempt, catalog>>
    PROVE  ReceivingInvariant'
<1>1. /\ \A k \in Keys : receipt[k].lines[n] = 0
      /\ orderLine[n].received = 0
      /\ \A q \in Attempts : attempt[q].stage # "idle" => ~(attempt[q].lines[n] > 0)
  BY NothingReceived
<1>2. /\ orderLine' \in [OrderLines -> Row] /\ orderLine'[n] = row
      /\ \A m \in OrderLines \ {n} : orderLine'[m] = orderLine[m]
  BY DEF ReceivingInvariant
<1>3. ASSUME NEW m \in OrderLines PROVE RowKnows(m)'
  <2>1. ReceivedOf(m)' = ReceivedOf(m)
    BY DEF ReceivedOf
  <2>2. CASE m = n
    <3>1. row.ordered \in Nat
      BY DEF Row
    <3>. QED
      BY <1>1, <1>2, <2>1, <2>2, <3>1 DEF ReceivingInvariant, RowKnows
  <2>3. CASE m # n
    BY <1>2, <2>1, <2>3 DEF ReceivingInvariant, RowKnows
  <2>. QED
    BY <2>2, <2>3
<1>4. ASSUME NEW k \in Keys PROVE LinesKnow(k)'
  BY <1>1, <1>2 DEF ReceivingInvariant, LinesKnow
<1>5. ASSUME NEW q \in Attempts PROVE PageKnows(q)'
  BY <1>1, <1>2 DEF ReceivingInvariant, PageKnows
<1>6. ASSUME NEW o \in Orders PROVE OrderKnows(o)'
  <2>1. CASE orderStatus[o] = "draft"
    <3>1. ~Some(o)
      BY <2>1, PurchasesAssumption DEF AnswerInvariant, ReceiptKnows, Some, NoReceipt
    <3>. QED
      BY <2>1, <3>1 DEF OrderKnows, Some
  <2>2. CASE orderStatus[o] # "draft"
    <3>1. RowsOf(o)' = RowsOf(o) /\ n \notin RowsOf(o)
      BY <1>2, <2>2, PurchasesAssumption DEF RowsOf, Writable, NoRow
    <3>2. \A m \in RowsOf(o) : orderLine'[m] = orderLine[m]
      BY <1>2, <3>1 DEF RowsOf
    <3>3. All(o)' <=> All(o)
      BY <3>1, <3>2 DEF All
    <3>. QED
      BY <3>3 DEF ReceivingInvariant, OrderKnows, Some
  <2>. QED
    BY <2>1, <2>2
<1>. QED
  BY <1>2, <1>3, <1>4, <1>5, <1>6 DEF ReceivingInvariant

(* Placing or cancelling an order of which nothing came. *)
LEMMA StatusWritten ==
    ASSUME AnswerInvariant, ReceivingInvariant, NEW o \in Orders,
           NEW to \in {"draft", "ordered", "cancelled"},
           orderStatus' = [orderStatus EXCEPT ![o] = to],
           orderStatus[o] \in {"none", "draft", "ordered"},
           orderStatus[o] \in Begun => to \in Begun,
           UNCHANGED <<orderLine, receipt, attempt, catalog>>
    PROVE  ReceivingInvariant'
<1>1. /\ orderStatus'[o] = to
      /\ \A p \in Orders \ {o} : orderStatus'[p] = orderStatus[p]
  BY DEF AnswerInvariant
<1>2. ~Some(o)
  BY PurchasesAssumption DEF AnswerInvariant, ReceiptKnows, Some, NoReceipt
<1>3. \A n \in OrderLines : RowKnows(n)'
  BY DEF ReceivingInvariant, RowKnows, ReceivedOf
<1>4. \A k \in Keys : LinesKnow(k)'
  BY DEF ReceivingInvariant, LinesKnow
<1>5. ASSUME NEW q \in Attempts PROVE PageKnows(q)'
  <2>1. attempt[q].stage # "idle" => attempt[q].order \in Orders
    BY DEF AnswerInvariant, AttemptKnows
  <2>. QED
    BY <1>1, <2>1 DEF ReceivingInvariant, PageKnows
<1>6. ASSUME NEW p \in Orders PROVE OrderKnows(p)'
  <2>1. CASE p = o
    BY <1>1, <1>2, <2>1 DEF OrderKnows, Some
  <2>2. CASE p # o
    BY <1>1, <2>2 DEF ReceivingInvariant, OrderKnows, Some, All, RowsOf
  <2>. QED
    BY <2>1, <2>2
<1>. QED
  BY <1>3, <1>4, <1>5, <1>6 DEF ReceivingInvariant

(* A page is submitted with rows of its order, or answered. *)
LEMMA PagesWritten ==
    ASSUME AnswerInvariant, ReceivingInvariant, NEW q \in Attempts, NEW a,
           attempt' = [attempt EXCEPT ![q] = a],
           orderStatus[a.order] \in Begun,
           \A n \in OrderLines : a.lines[n] > 0 => orderLine[n].order = a.order,
           UNCHANGED <<orderStatus, orderLine, receipt, catalog>>
    PROVE  ReceivingInvariant'
<1>1. /\ attempt'[q] = a
      /\ \A p \in Attempts \ {q} : attempt'[p] = attempt[p]
  BY DEF AnswerInvariant
<1>2. ASSUME NEW p \in Attempts PROVE PageKnows(p)'
  BY <1>1 DEF ReceivingInvariant, PageKnows
<1>3. \A n \in OrderLines : RowKnows(n)'
  BY DEF ReceivingInvariant, RowKnows, ReceivedOf
<1>4. \A k \in Keys : LinesKnow(k)'
  BY DEF ReceivingInvariant, LinesKnow
<1>5. \A p \in Orders : OrderKnows(p)'
  BY DEF ReceivingInvariant, OrderKnows, Some, All, RowsOf
<1>. QED
  BY <1>2, <1>3, <1>4, <1>5 DEF ReceivingInvariant

(* The orders, rows and receipts after one receipt. *)
LEMMA RowsReceived ==
    ASSUME AnswerInvariant, AnswerInvariant', ReceivingInvariant,
           NEW q \in Attempts, Receive(q)
    PROVE  ReceivingInvariant'
<1>. DEFINE a == attempt[q]
            k == a.key
            o == a.order
<1>1. /\ a.stage = "checked" /\ receipt[k] = NoReceipt
      /\ Receivable(o) /\ Fits(a)
      /\ receipt' = [receipt EXCEPT ![k] =
             [order |-> o, lines |-> a.lines, tracked |-> TrackedLines(a)]]
      /\ orderLine' = AfterReceipt(a)
      /\ orderStatus' = [orderStatus EXCEPT ![o] = StatusAfter(o, AfterReceipt(a))]
      /\ Answer(q, "registered") /\ catalog' = catalog
  BY DEF Receive, Acceptable
<1>2. /\ k \in Keys /\ o \in Orders /\ a \in Attempt
      /\ \A n \in OrderLines : a.lines[n] > 0 => orderLine[n].order = o
  BY <1>1 DEF AnswerInvariant, AttemptKnows, ReceivingInvariant, PageKnows
<1>3. \A n \in OrderLines : a.lines[n] \in Nat
  <2>1. a.lines \in Amounts
    BY <1>2 DEF Attempt
  <2>2. \A x \in 0 .. MaxStock : x \in Nat
    BY InventoryAssumption
  <2>. QED
    BY <2>1, <2>2 DEF Amounts
<1>4. /\ receipt'[k].order = o /\ receipt'[k].lines = a.lines
      /\ receipt'[k].tracked = TrackedLines(a)
      /\ \A j \in Keys \ {k} : receipt'[j] = receipt[j]
  BY <1>1, <1>2 DEF AnswerInvariant
<1>5. /\ \A n \in OrderLines : receipt[k].lines[n] = 0
      /\ receipt[k].order = NoOne
  BY <1>1 DEF NoReceipt
<1>6. ASSUME NEW n \in OrderLines
      PROVE  /\ orderLine'[n].order = orderLine[n].order
             /\ orderLine'[n].item = orderLine[n].item
             /\ orderLine'[n].ordered = orderLine[n].ordered
             /\ orderLine'[n].received = orderLine[n].received + a.lines[n]
             /\ orderLine'[n] \in Row
             /\ a.lines[n] = 0 => orderLine'[n] = orderLine[n]
  <2>1. orderLine[n] \in Row /\ orderLine[n].received \in Nat
    BY DEF ReceivingInvariant, Row
  <2>2. orderLine'[n] = [order |-> orderLine[n].order, item |-> orderLine[n].item,
                         ordered |-> orderLine[n].ordered,
                         received |-> orderLine[n].received + a.lines[n]]
    BY <1>1, <2>1 DEF AfterReceipt, Row
  <2>3. orderLine[n] = [order |-> orderLine[n].order, item |-> orderLine[n].item,
                        ordered |-> orderLine[n].ordered,
                        received |-> orderLine[n].received]
    BY <2>1 DEF Row
  <2>. QED
    BY <1>3, <2>1, <2>2, <2>3 DEF Row
<1>7. orderLine' \in [OrderLines -> Row]
  BY <1>1, <1>6 DEF AfterReceipt
<1>. HIDE DEF a, k, o
<1>8. ASSUME NEW n \in OrderLines PROVE RowKnows(n)'
  <2>. DEFINE f == ReceivedOf(n)
              g == ReceivedOf(n)'
  <2>1. f \in [Keys -> Nat]
    BY ReceivedTyped
  <2>2. /\ \A j \in Keys \ {k} : g[j] = f[j]
        /\ g[k] = a.lines[n] /\ f[k] = 0
    BY <1>2, <1>4, <1>5 DEF ReceivedOf
  <2>3. g \in [Keys -> Nat]
    <3>1. g = [j \in Keys |-> receipt'[j].lines[n]]
      BY DEF ReceivedOf
    <3>2. \A j \in Keys : g[j] \in Nat
      BY <1>3, <2>1, <2>2
    <3>. QED
      BY <3>1, <3>2
  <2>4. IsFiniteSet(Units(f)) /\ orderLine[n].received = UnitSum(f)
    BY DEF ReceivingInvariant, RowKnows
  <2>. HIDE DEF f, g
  <2>5. /\ IsFiniteSet(Units(g)) /\ UnitSum(f) \in Nat
        /\ UnitSum(g) = UnitSum(f) - f[k] + g[k]
    BY <1>2, <2>1, <2>2, <2>3, <2>4, SumChange
  <2>6. orderLine'[n].received = UnitSum(g)
    BY <1>3, <1>6, <2>2, <2>4, <2>5
  <2>7. orderLine'[n].received <= orderLine'[n].ordered
    <3>1. orderLine[n].received \in Nat /\ orderLine[n].ordered \in Nat
          /\ orderLine[n].received <= orderLine[n].ordered
      BY DEF ReceivingInvariant, Row, RowKnows
    <3>2. CASE a.lines[n] > 0
      <4>1. a.lines[n] <= orderLine[n].ordered - orderLine[n].received
        BY <1>1, <3>2 DEF Fits, Requested, a
      <4>. QED
        BY <1>3, <1>6, <3>1, <4>1
    <3>3. CASE a.lines[n] = 0
      BY <1>6, <3>1, <3>3
    <3>. QED
      BY <1>3, <3>2, <3>3
  <2>8. orderLine'[n] # NoRow =>
            orderLine'[n].order \in Orders /\ orderLine'[n].item \in Items
    <3>1. orderLine[n] # NoRow => orderLine[n].order \in Orders /\ orderLine[n].item \in Items
      BY DEF ReceivingInvariant, RowKnows
    <3>2. orderLine[n] = NoRow => a.lines[n] = 0
      BY <1>2, <1>3, PurchasesAssumption DEF NoRow, a, o
    <3>. QED
      BY <1>6, <3>1, <3>2
  <2>. QED
    BY <2>5, <2>6, <2>7, <2>8 DEF RowKnows, g
<1>9. ASSUME NEW j \in Keys PROVE LinesKnow(j)'
  <2>1. CASE j = k
    BY <1>2, <1>4, <1>6, <2>1 DEF LinesKnow, TrackedLines, Requested, a, o
  <2>2. CASE j # k
    BY <1>4, <1>6, <2>2 DEF ReceivingInvariant, LinesKnow
  <2>. QED
    BY <2>1, <2>2
<1>10. StatusAfter(o, AfterReceipt(a)) \in {"partially_received", "received"}
  BY DEF StatusAfter
<1>11. /\ orderStatus'[o] = StatusAfter(o, AfterReceipt(a))
       /\ \A p \in Orders \ {o} : orderStatus'[p] = orderStatus[p]
  BY <1>1, <1>2 DEF AnswerInvariant, a, o
<1>12. /\ attempt'[q].stage = "registered" /\ attempt'[q].order = o
       /\ attempt'[q].lines = a.lines
       /\ \A p \in Attempts : p # q => attempt'[p] = attempt[p]
  <2>1. Answer(q, "registered")
    BY <1>1
  <2>2. /\ attempt'[q] = [key |-> attempt[q].key, order |-> attempt[q].order,
                          lines |-> attempt[q].lines, stage |-> "registered"]
        /\ \A p \in Attempts : p # q => attempt'[p] = attempt[p]
    BY <2>1, Answered
  <2>. QED
    BY <2>2 DEF a, o
<1>13. ASSUME NEW p \in Attempts PROVE PageKnows(p)'
  <2>1. CASE p = q
    BY <1>2, <1>6, <1>10, <1>11, <1>12, <2>1 DEF PageKnows, Begun, a, o
  <2>2. CASE p # q
    <3>1. attempt[p].stage # "idle" =>
              /\ attempt[p].order \in Orders /\ orderStatus[attempt[p].order] \in Begun
              /\ \A n \in OrderLines :
                     attempt[p].lines[n] > 0 => orderLine[n].order = attempt[p].order
      BY DEF ReceivingInvariant, PageKnows, AnswerInvariant, AttemptKnows
    <3>2. attempt[p].stage # "idle" => orderStatus'[attempt[p].order] \in Begun
      BY <1>10, <1>11, <3>1 DEF Begun
    <3>. QED
      BY <1>6, <1>12, <2>2, <3>1, <3>2 DEF PageKnows
  <2>. QED
    BY <2>1, <2>2
<1>14. \A p \in Orders : RowsOf(p)' = RowsOf(p)
  BY <1>6 DEF RowsOf
<1>15. ASSUME NEW p \in Orders PROVE OrderKnows(p)'
  <2>1. CASE p = o
    <3>1. Some(p)'
      BY <1>2, <1>4, <2>1 DEF Some, a, k
    <3>2. All(p)' <=> orderStatus'[o] = "received"
      <4>1. All(p)' <=> \A n \in RowsOf(o) : orderLine'[n].received = orderLine'[n].ordered
        BY <1>2, <1>14, <2>1 DEF All, a, o
      <4>2. orderLine' = AfterReceipt(a)
        BY <1>1 DEF a
      <4>. QED
        BY <1>11, <4>1, <4>2 DEF StatusAfter
    <3>. QED
      BY <1>10, <1>11, <2>1, <3>1, <3>2 DEF OrderKnows
  <2>2. CASE p # o
    <3>1. Some(p)' <=> Some(p)
      BY <1>2, <1>4, <1>5, <2>2, PurchasesAssumption DEF Some, a, o, k
    <3>2. \A n \in RowsOf(p) : orderLine'[n] = orderLine[n]
      <4>1. ASSUME NEW n \in RowsOf(p) PROVE a.lines[n] = 0
        BY <1>2, <1>3, <2>2 DEF RowsOf, a, o
      <4>. QED
        BY <1>6, <4>1 DEF RowsOf
    <3>3. All(p)' <=> All(p)
      BY <1>14, <3>2 DEF All
    <3>. QED
      BY <1>11, <2>2, <3>1, <3>3 DEF ReceivingInvariant, OrderKnows
  <2>. QED
    BY <2>1, <2>2
<1>. QED
  BY <1>1, <1>7, <1>8, <1>9, <1>13, <1>15 DEF ReceivingInvariant

(* Initially there are no rows and no receipts. *)
LEMMA ReceivingInitially ==
    ASSUME PurchasesInit, AnswerInvariant
    PROVE  ReceivingInvariant
<1>. USE DEF PurchasesInit
<1>1. NoRow \in Row /\ catalog \in Catalog
  BY DEF NoRow, Row, Catalog
<1>2. \A k \in Keys : receipt[k] = NoReceipt /\ receipt[k].order = NoOne
                      /\ receipt[k].tracked = {}
                      /\ \A n \in OrderLines : receipt[k].lines[n] = 0
  BY DEF NoReceipt
<1>3. ASSUME NEW n \in OrderLines PROVE RowKnows(n)
  <2>1. ReceivedOf(n) \in [Keys -> Nat] /\ \A k \in Keys : ReceivedOf(n)[k] = 0
    BY <1>2, ReceivedTyped DEF ReceivedOf
  <2>2. IsFiniteSet(Units(ReceivedOf(n))) /\ UnitSum(ReceivedOf(n)) = 0
    BY <2>1, SumOfZeros
  <2>3. orderLine[n] = NoRow /\ NoRow.received = 0 /\ NoRow.ordered = 0
    BY DEF NoRow
  <2>. QED
    BY <2>2, <2>3 DEF RowKnows
<1>4. \A k \in Keys : LinesKnow(k)
  BY <1>2 DEF LinesKnow
<1>5. \A q \in Attempts : PageKnows(q)
  BY DEF PageKnows, NoAttempt
<1>6. \A o \in Orders : OrderKnows(o)
  BY <1>2, PurchasesAssumption DEF OrderKnows, Some
<1>. QED
  BY <1>1, <1>3, <1>4, <1>5, <1>6 DEF ReceivingInvariant

(* Every step keeps what orders and pages know. *)
LEMMA ReceivingStep ==
    ASSUME AnswerInvariant, AnswerInvariant', ReceivingInvariant,
           [PurchasesNext]_allVars
    PROVE  ReceivingInvariant'
<1>1. ASSUME UNCHANGED <<orderStatus, orderLine, receipt, attempt>>, catalog' \in Catalog
      PROVE  ReceivingInvariant'
  <2>1. (\A n \in OrderLines : RowKnows(n))' /\ (\A k \in Keys : LinesKnow(k))'
    BY <1>1 DEF ReceivingInvariant, RowKnows, ReceivedOf, LinesKnow
  <2>2. (\A q \in Attempts : PageKnows(q))' /\ (\A o \in Orders : OrderKnows(o))'
    BY <1>1 DEF ReceivingInvariant, PageKnows, OrderKnows, Some, All, RowsOf
  <2>. QED
    BY <1>1, <2>1, <2>2 DEF ReceivingInvariant
<1>2. ASSUME NEW o \in Orders, CreatePurchase(o) \/ OrderPurchase(o) \/ CancelPurchase(o)
      PROVE  ReceivingInvariant'
  <2>1. /\ UNCHANGED <<orderLine, receipt, attempt, catalog>>
        /\ \E to \in {"draft", "ordered", "cancelled"} :
               /\ orderStatus' = [orderStatus EXCEPT ![o] = to]
               /\ orderStatus[o] \in Begun => to \in Begun
        /\ orderStatus[o] \in {"none", "draft", "ordered"}
    BY <1>2 DEF CreatePurchase, OrderPurchase, CancelPurchase, Begun
  <2>. QED
    BY <2>1, StatusWritten
<1>3. ASSUME NEW o \in Orders, NEW n \in OrderLines, NEW i \in Items, NEW x \in Quantities,
             AddPurchaseLine(o, n, i, x)
      PROVE  ReceivingInvariant'
  <2>. DEFINE row == [order |-> o, item |-> i, ordered |-> x, received |-> 0]
  <2>1. x \in Nat
    BY InventoryAssumption DEF Quantities
  <2>2. row \in Row /\ row.received = 0 /\ row.order = o /\ row.item = i
    BY <2>1 DEF Row
  <2>3. /\ orderStatus[o] = "draft" /\ orderLine[n] = NoRow
        /\ orderLine' = [orderLine EXCEPT ![n] = row]
        /\ UNCHANGED <<orderStatus, receipt, attempt, catalog>>
    BY <1>3 DEF AddPurchaseLine, Editable, WriteRow
  <2>4. Writable(n)
    BY <2>3 DEF Writable
  <2>. HIDE DEF row
  <2>. QED
    BY <2>2, <2>3, <2>4, RowWritten
<1>4. ASSUME NEW n \in OrderLines, RowStep(n)
      PROVE  ReceivingInvariant'
  <2>1. /\ orderLine[n] # NoRow /\ orderStatus[orderLine[n].order] = "draft"
        /\ UNCHANGED <<orderStatus, receipt, attempt, catalog>>
    BY <1>4 DEF RowStep, UpdatePurchaseLine, DeletePurchaseLine, WriteRow, Editable
  <2>2. orderLine[n].order \in Orders /\ orderLine[n].item \in Items /\ orderLine[n] \in Row
    BY <2>1 DEF ReceivingInvariant, RowKnows
  <2>3. Writable(n)
    BY <2>1, <2>2 DEF Writable
  <2>4. orderLine[n].received = 0
    BY <2>3, NothingReceived
  <2>5. CASE DeletePurchaseLine(n)
    <3>1. orderLine' = [orderLine EXCEPT ![n] = NoRow]
      BY <2>5 DEF DeletePurchaseLine, WriteRow
    <3>2. NoRow \in Row /\ NoRow.received = 0
      BY DEF NoRow, Row
    <3>. QED
      BY <2>1, <2>3, <3>1, <3>2, RowWritten
  <2>6. ASSUME NEW x \in Quantities, UpdatePurchaseLine(n, x)
        PROVE  ReceivingInvariant'
    <3>. DEFINE row == [orderLine[n] EXCEPT !.ordered = x]
    <3>1. orderLine' = [orderLine EXCEPT ![n] = row]
      BY <2>6 DEF UpdatePurchaseLine, WriteRow
    <3>2. x \in Nat
      BY InventoryAssumption DEF Quantities
    <3>3. row \in Row /\ row.received = 0 /\ row.order = orderLine[n].order
          /\ row.item = orderLine[n].item
      BY <2>2, <2>4, <3>2 DEF Row
    <3>. HIDE DEF row
    <3>. QED
      BY <2>1, <2>2, <2>3, <3>1, <3>3, RowWritten
  <2>. QED
    BY <1>4, <2>5, <2>6 DEF RowStep
<1>5. ASSUME NEW q \in Attempts, NEW k \in Keys, NEW o \in Orders, NEW lines \in Amounts,
             Submit(q, k, o, lines)
      PROVE  ReceivingInvariant'
  <2>. DEFINE a == [key |-> k, order |-> o, lines |-> lines,
                    stage |-> IF ViewAccepts(k, o) THEN "checked" ELSE "refused"]
  <2>1. /\ attempt' = [attempt EXCEPT ![q] = a]
        /\ UNCHANGED <<orderStatus, orderLine, receipt, catalog>>
        /\ orderStatus[o] \notin {"none", "draft"}
        /\ \A n \in OrderLines : lines[n] > 0 => orderLine[n].order = o
    BY <1>5 DEF Submit, RowsOf
  <2>2. orderStatus[o] \in Begun
    BY <2>1 DEF AnswerInvariant
  <2>3. a.order = o /\ a.lines = lines
    OBVIOUS
  <2>. HIDE DEF a
  <2>. QED
    BY <2>1, <2>2, <2>3, PagesWritten
<1>6. ASSUME NEW q \in Attempts, AnswerFromReceipt(q) \/ RefuseReceipt(q)
      PROVE  ReceivingInvariant'
  <2>1. attempt[q].stage = "checked" /\ attempt[q] \in Attempt
    BY <1>6 DEF AnswerFromReceipt, RefuseReceipt, AnswerInvariant
  <2>2. /\ \E stage \in {"registered", "refused"} : Answer(q, stage)
        /\ UNCHANGED <<orderStatus, orderLine, receipt, catalog>>
    BY <1>6 DEF AnswerFromReceipt, RefuseReceipt
  <2>3. PICK stage \in {"registered", "refused"} : Answer(q, stage)
    BY <2>2
  <2>. DEFINE a == [attempt[q] EXCEPT !.stage = stage]
  <2>4. attempt' = [attempt EXCEPT ![q] = a]
    BY <2>3 DEF Answer, AnswerInvariant
  <2>5. a.order = attempt[q].order /\ a.lines = attempt[q].lines
    BY <2>1 DEF Attempt
  <2>6. /\ orderStatus[attempt[q].order] \in Begun
        /\ \A n \in OrderLines :
               attempt[q].lines[n] > 0 => orderLine[n].order = attempt[q].order
    BY <2>1 DEF ReceivingInvariant, PageKnows
  <2>. HIDE DEF a
  <2>. QED
    BY <2>2, <2>4, <2>5, <2>6, PagesWritten
<1>7. ASSUME NEW q \in Attempts, Receive(q) PROVE ReceivingInvariant'
  BY <1>7, RowsReceived
<1>8. CASE ChangeCatalog
  <2>1. catalog' \in Catalog
    <3>1. catalog \in Catalog
      BY DEF ReceivingInvariant
    <3>2. ASSUME NEW i \in Items, NEW f \in {"sold", "tracked"},
                 catalog' = [catalog EXCEPT ![f] = IF i \in @ THEN @ \ {i} ELSE @ \cup {i}]
          PROVE  catalog' \in Catalog
      <4>1. CASE f = "sold"
        BY <3>1, <3>2, <4>1 DEF Catalog
      <4>2. CASE f = "tracked"
        BY <3>1, <3>2, <4>2 DEF Catalog
      <4>. QED
        BY <4>1, <4>2
    <3>3. ASSUME NEW f \in {"supplier", "store"}, catalog' = [catalog EXCEPT ![f] = ~@]
          PROVE  catalog' \in Catalog
      <4>1. CASE f = "supplier"
        BY <3>1, <3>3, <4>1 DEF Catalog
      <4>2. CASE f = "store"
        BY <3>1, <3>3, <4>2 DEF Catalog
      <4>. QED
        BY <4>1, <4>2
    <3>. QED
      BY <1>8, <3>2, <3>3 DEF ChangeCatalog
  <2>. QED
    BY <1>1, <1>8, <2>1 DEF ChangeCatalog
<1>9. CASE UNCHANGED purchaseVars
  BY <1>1, <1>9 DEF purchaseVars, ReceivingInvariant
<1>10. CASE UNCHANGED allVars
  BY <1>9, <1>10 DEF allVars
<1>11. ASSUME NEW o \in Orders, OrderStep(o) PROVE ReceivingInvariant'
  BY <1>2, <1>3, <1>11 DEF OrderStep
<1>12. ASSUME NEW q \in Attempts, AttemptStep(q) PROVE ReceivingInvariant'
  BY <1>5, <1>6, <1>7, <1>12 DEF AttemptStep
<1>13. CASE PurchasesNext
  BY <1>4, <1>8, <1>9, <1>11, <1>12, <1>13 DEF PurchasesNext
<1>. QED
  BY <1>10, <1>13

-------------------------------------------------------------------------------
(* The movements of receipts. *)
ArrivalKnows(b) ==
    /\ b \in Arrival
    /\ b.line \in receipt[b.key].tracked
    /\ orderLine[b.line].item = b.item
    /\ b.at \in 1 .. Len(moves[b.item])
    /\ moves[b.item][b.at].after - moves[b.item][b.at].before
           = receipt[b.key].lines[b.line]

ArrivalsInvariant ==
    /\ \A b \in arrivals : ArrivalKnows(b)
    /\ \A b, c \in arrivals : b.item = c.item /\ b.at = c.at => b = c
    /\ \A b, c \in arrivals : b.key = c.key /\ b.line = c.line => b = c
    /\ \A k \in Keys : \A n \in receipt[k].tracked :
           \E b \in arrivals : b.key = k /\ b.line = n

(* History is only added to. *)
Extended(i) ==
    /\ Len(moves[i]) \in Nat /\ Len(moves'[i]) \in Nat
    /\ Len(moves[i]) <= Len(moves'[i])
    /\ \A j \in 1 .. Len(moves[i]) : moves'[i][j] = moves[i][j]

LEMMA HistoryExtended ==
    ASSUME InventoryInvariant, [InventoryNext]_inventoryVars, NEW i \in Items
    PROVE  Extended(i)
<1>1. /\ moves \in [Items -> Seq(MovementRow)] /\ stock \in [Items -> Int]
      /\ \A m \in Items : moves[m] \in Seq(MovementRow) /\ Len(moves[m]) \in Nat
  BY DEF InventoryInvariant, InventoryTypeOK
<1>2. ASSUME moves' = moves PROVE Extended(i)
  BY <1>1, <1>2 DEF Extended
<1>3. ASSUME NEW x, moves'[i] = Append(moves[i], x) PROVE Extended(i)
  BY <1>1, <1>3 DEF Extended
<1>4. ASSUME NEW m \in Items, NEW x, SetStock(m, x) PROVE Extended(i)
  <2>1. moves' = [moves EXCEPT ![m] = Append(moves[m], Movement(stock[m], x, NoOne))]
    BY <1>4 DEF SetStock
  <2>2. CASE m = i
    <3>1. moves'[i] = Append(moves[i], Movement(stock[i], x, NoOne))
      BY <1>1, <2>1, <2>2
    <3>. QED
      BY <1>3, <3>1
  <2>3. CASE m # i
    BY <1>1, <2>1, <2>3 DEF Extended
  <2>. QED
    BY <2>2, <2>3
<1>5. ASSUME NEW m \in Items, StockStep(m) PROVE Extended(i)
  BY <1>2, <1>4, <1>5 DEF StockStep, CreateItem, UpdateSettings, InitialStock,
                          IncreaseStock, DecreaseStock
<1>6. ASSUME NEW a \in Adjustments, ConfirmAdjustment(a) PROVE Extended(i)
  <2>. DEFINE moved == {m \in Counted(a) : line[LineOn(a, m)].counted # stock[m]}
              l == LineOn(a, i)
  <2>1. moves' = [m \in Items |-> IF m \in moved
                      THEN LET n == LineOn(a, m) IN
                           Append(moves[m], Movement(stock[m], line[n].counted, n))
                      ELSE moves[m]]
    BY <1>6 DEF ConfirmAdjustment
  <2>2. CASE i \in moved
    <3>1. moves'[i] = Append(moves[i], Movement(stock[i], line[l].counted, l))
      BY <2>1, <2>2
    <3>. QED
      BY <1>3, <3>1
  <2>3. CASE i \notin moved
    <3>1. moves'[i] = moves[i]
      BY <2>1, <2>3
    <3>. QED
      BY <1>1, <3>1 DEF Extended
  <2>. QED
    BY <2>2, <2>3
<1>7. ASSUME NEW a \in Adjustments, AdjustmentStep(a) PROVE Extended(i)
  BY <1>2, <1>6, <1>7 DEF AdjustmentStep, CreateAdjustment, CancelAdjustment
<1>8. ASSUME NEW e \in Editors, EditorStep(e) PROVE Extended(i)
  BY <1>2, <1>8 DEF EditorStep, BeginAdd, BeginUpdate, BeginQuick, BeginDelete, Read,
                   WriteAdd, WriteUpdate, WriteDelete, WriteQuick, Fail
<1>9. CASE UNCHANGED inventoryVars
  BY <1>2, <1>9 DEF inventoryVars
<1>. QED
  BY <1>5, <1>7, <1>8, <1>9 DEF InventoryNext

(* Only a confirmation adds a movement of a count, and it found the stock that the
   line was counted against. *)
LEMMA CountsReplace ==
    ASSUME InventoryAssumption, InventoryInvariant, [InventoryNext]_inventoryVars,
           NEW i \in Items
    PROVE  ReplacesWhatItSaw(i)
<1>1. /\ moves \in [Items -> Seq(MovementRow)] /\ stock \in [Items -> Int]
      /\ moves[i] \in Seq(MovementRow) /\ Len(moves[i]) \in Nat
  BY DEF InventoryInvariant, InventoryTypeOK
<1>2. ASSUME moves' = moves PROVE ReplacesWhatItSaw(i)
  BY <1>1, <1>2 DEF ReplacesWhatItSaw
<1>3. ASSUME NEW x, NEW y, NEW l, moves'[i] = Append(moves[i], Movement(x, y, l))
      PROVE  moves'[i][Len(moves'[i])] = Movement(x, y, l)
  BY <1>1, <1>3
<1>4. ASSUME NEW m \in Items, NEW x, SetStock(m, x) PROVE ReplacesWhatItSaw(i)
  <2>1. moves' = [moves EXCEPT ![m] = Append(moves[m], Movement(stock[m], x, NoOne))]
    BY <1>4 DEF SetStock
  <2>2. CASE m = i
    <3>1. moves'[i] = Append(moves[i], Movement(stock[i], x, NoOne))
      BY <1>1, <2>1, <2>2
    <3>2. moves'[i][Len(moves'[i])] = Movement(stock[i], x, NoOne)
      BY <1>3, <3>1
    <3>. QED
      BY <3>2 DEF ReplacesWhatItSaw, Movement
  <2>3. CASE m # i
    <3>1. moves'[i] = moves[i]
      BY <1>1, <2>1, <2>3
    <3>. QED
      BY <1>1, <3>1 DEF ReplacesWhatItSaw
  <2>. QED
    BY <2>2, <2>3
<1>5. ASSUME NEW m \in Items, StockStep(m) PROVE ReplacesWhatItSaw(i)
  BY <1>2, <1>4, <1>5 DEF StockStep, CreateItem, UpdateSettings, InitialStock,
                          IncreaseStock, DecreaseStock
<1>6. ASSUME NEW a \in Adjustments, ConfirmAdjustment(a) PROVE ReplacesWhatItSaw(i)
  <2>. DEFINE moved == {m \in Counted(a) : line[LineOn(a, m)].counted # stock[m]}
              l == LineOn(a, i)
  <2>1. /\ stock' = [m \in Items |-> IF m \in moved THEN line[LineOn(a, m)].counted
                                                   ELSE stock[m]]
        /\ moves' = [m \in Items |-> IF m \in moved
                      THEN LET n == LineOn(a, m) IN
                           Append(moves[m], Movement(stock[m], line[n].counted, n))
                      ELSE moves[m]]
    BY <1>6 DEF ConfirmAdjustment
  <2>2. CASE i \in moved
    <3>1. l \in LinesOf(a) /\ line[l].item = i
      <4>1. \E n \in LinesOf(a) : line[n].item = i
        BY <2>2 DEF Counted
      <4>. QED
        BY <4>1 DEF LineOn
    <3>2. CountHolds(l)
      BY <1>6, <3>1 DEF ConfirmAdjustment
    <3>3. moves'[i] = Append(moves[i], Movement(stock[i], line[l].counted, l))
      BY <2>1, <2>2
    <3>4. moves'[i][Len(moves'[i])] = Movement(stock[i], line[l].counted, l)
      BY <1>3, <3>3
    <3>5. stock'[i] = line[l].counted
      BY <2>1, <2>2
    <3>6. stock[i] = line[l].system
      BY <3>1, <3>2 DEF CountHolds
    <3>. HIDE DEF l
    <3>. QED
      BY <3>4, <3>5, <3>6 DEF ReplacesWhatItSaw, Movement
  <2>3. CASE i \notin moved
    <3>1. moves'[i] = moves[i]
      BY <2>1, <2>3
    <3>. QED
      BY <1>1, <3>1 DEF ReplacesWhatItSaw
  <2>. QED
    BY <2>2, <2>3
<1>7. ASSUME NEW a \in Adjustments, AdjustmentStep(a) PROVE ReplacesWhatItSaw(i)
  BY <1>2, <1>6, <1>7 DEF AdjustmentStep, CreateAdjustment, CancelAdjustment
<1>8. ASSUME NEW e \in Editors, EditorStep(e) PROVE ReplacesWhatItSaw(i)
  BY <1>2, <1>8 DEF EditorStep, BeginAdd, BeginUpdate, BeginQuick, BeginDelete, Read,
                   WriteAdd, WriteUpdate, WriteDelete, WriteQuick, Fail
<1>9. CASE UNCHANGED inventoryVars
  BY <1>2, <1>9 DEF inventoryVars
<1>. QED
  BY <1>5, <1>7, <1>8, <1>9 DEF InventoryNext

(* What a movement of a receipt tells stays true while its row stays. *)
LEMMA ArrivalsKept ==
    ASSUME ArrivalsInvariant, \A i \in Items : Extended(i),
           UNCHANGED <<arrivals, receipt>>,
           \A b \in arrivals : orderLine'[b.line].item = orderLine[b.line].item
    PROVE  ArrivalsInvariant'
<1>1. ASSUME NEW b \in arrivals PROVE ArrivalKnows(b)'
  <2>1. ArrivalKnows(b) /\ b.item \in Items
    BY DEF ArrivalsInvariant, ArrivalKnows, Arrival
  <2>2. b.at \in 1 .. Len(moves'[b.item]) /\ moves'[b.item][b.at] = moves[b.item][b.at]
    BY <2>1 DEF ArrivalKnows, Extended
  <2>. QED
    BY <2>1, <2>2 DEF ArrivalKnows
<1>. QED
  BY <1>1 DEF ArrivalsInvariant

(* An order of some lines names each of them once. *)
LEMMA EachOnce ==
    ASSUME NEW S \in SUBSET OrderLines, NEW s \in SetToSeqs(S)
    PROVE  /\ s \in Seq(OrderLines) /\ Len(s) \in Nat
           /\ \A j \in 1 .. Len(s) : s[j] \in S
           /\ \A j, m \in 1 .. Len(s) : s[j] = s[m] => j = m
           /\ \A n \in S : \E j \in 1 .. Len(s) : s[j] = n
<1>. DEFINE c == Cardinality(S)
<1>1. IsFiniteSet(S) /\ c \in Nat
  BY PurchasesAssumption, FS_Subset, FS_CardinalityType
<1>2. s \in [1 .. c -> S] /\ \A j, m \in 1 .. c : j # m => s[j] # s[m]
  BY DEF SetToSeqs
<1>. HIDE DEF c
<1>3. s \in Injection(1 .. c, S)
  <2>1. \A j, m \in 1 .. c : s[j] = s[m] => j = m
    BY <1>2
  <2>. QED
    BY <1>2, <2>1 DEF Injection, IsInjective
<1>4. IsFiniteSet(1 .. c) /\ Cardinality(1 .. c) = c
  BY <1>1, FS_Interval
<1>5. s \in Surjection(1 .. c, S)
  <2>1. Cardinality(S) = c
    BY DEF c
  <2>. QED
    BY <1>1, <1>3, <1>4, <2>1, FS_Injection
<1>6. s \in Seq(OrderLines) /\ Len(s) = c
  BY <1>1, <1>2
<1>. QED
  BY <1>1, <1>2, <1>5, <1>6 DEF Surjection

(* What a step keeps of the stock and of the movements of receipts. *)
StockKept ==
    /\ InventoryInvariant' /\ ArrivalsInvariant'
    /\ \A i \in Items : ReplacesWhatItSaw(i)

(* The movements of a receipt and those before it. *)
LEMMA Arrived ==
    ASSUME InventoryInvariant, AnswerInvariant, ReceivingInvariant, ArrivalsInvariant,
           NEW q \in Attempts, Receive(q)
    PROVE  StockKept
<1>. DEFINE a == attempt[q]
            k == a.key
            o == a.order
<1>1. /\ a.stage = "checked" /\ receipt[k] = NoReceipt
      /\ receipt' = [receipt EXCEPT ![k] =
             [order |-> o, lines |-> a.lines, tracked |-> TrackedLines(a)]]
      /\ record' = [i \in Items |-> IF i \in TrackedItems(a) THEN "active" ELSE record[i]]
      /\ orderLine' = AfterReceipt(a)
      /\ UNCHANGED <<status, line, gone, request>>
  BY DEF Receive
<1>2. PICK s \in [Items -> UNION {SetToSeqs(LinesOn(a, i)) : i \in Items}] :
          /\ \A i \in Items : s[i] \in SetToSeqs(LinesOn(a, i))
          /\ stock' = [i \in Items |-> stock[i] + Brought(a.lines, s[i], Len(s[i]))]
          /\ moves' = [i \in Items |-> moves[i] \o ArrivalRows(i, a.lines, s[i])]
          /\ arrivals' = arrivals \cup UNION {ArrivalsOf(i, k, s[i]) : i \in Items}
  BY DEF Receive
<1>3. /\ k \in Keys /\ o \in Orders /\ a.lines \in Amounts
      /\ \A n \in OrderLines : a.lines[n] > 0 => orderLine[n].order = o
  BY <1>1 DEF AnswerInvariant, AttemptKnows, ReceivingInvariant, PageKnows, Attempt
<1>4. a.lines \in [OrderLines -> Nat]
  <2>1. \A x \in 0 .. MaxStock : x \in Nat
    BY InventoryAssumption
  <2>. QED
    BY <1>3, <2>1 DEF Amounts
<1>5. \A i \in Items : LinesOn(a, i) \in SUBSET OrderLines
  BY DEF LinesOn, TrackedLines, Requested
<1>6. ASSUME NEW i \in Items
      PROVE  /\ s[i] \in Seq(OrderLines) /\ Len(s[i]) \in Nat
             /\ \A j \in 1 .. Len(s[i]) : s[i][j] \in LinesOn(a, i)
             /\ \A j, m \in 1 .. Len(s[i]) : s[i][j] = s[i][m] => j = m
             /\ \A n \in LinesOn(a, i) : \E j \in 1 .. Len(s[i]) : s[i][j] = n
  BY <1>2, <1>5, EachOnce
<1>7. s \in [Items -> Seq(OrderLines)]
  BY <1>2, <1>6
<1>8. record' \in [Items -> RecordStates]
  BY <1>1 DEF InventoryInvariant, InventoryTypeOK, RecordStates
<1>. DEFINE lines == a.lines
<1>9. lines \in [OrderLines -> Nat]
  BY <1>4
<1>10. /\ stock' = [i \in Items |-> stock[i] + Brought(lines, s[i], Len(s[i]))]
       /\ moves' = [i \in Items |-> moves[i] \o ArrivalRows(i, lines, s[i])]
  BY <1>2
<1>11. /\ receipt'[k].lines = lines /\ receipt'[k].tracked = TrackedLines(a)
       /\ \A m \in Keys \ {k} : receipt'[m] = receipt[m]
       /\ receipt[k].tracked = {}
  BY <1>1, <1>3 DEF AnswerInvariant, NoReceipt
<1>12. \A n \in OrderLines : orderLine'[n].item = orderLine[n].item
  BY <1>1 DEF AfterReceipt, ReceivingInvariant, Row
<1>13. ASSUME NEW n \in TrackedLines(a)
       PROVE  n \in OrderLines /\ orderLine[n].item \in Items
  <2>1. n \in OrderLines /\ lines[n] > 0
    BY DEF TrackedLines, Requested
  <2>2. orderLine[n] # NoRow
    BY <1>3, <2>1, PurchasesAssumption DEF NoRow
  <2>. QED
    BY <2>1, <2>2 DEF ReceivingInvariant, RowKnows
<1>14. \A i \in Items : \A n \in LinesOn(a, i) : n \in TrackedLines(a) /\ orderLine[n].item = i
  BY DEF LinesOn
<1>15. \A n \in TrackedLines(a) : n \in LinesOn(a, orderLine[n].item)
  BY DEF LinesOn
<1>. DEFINE new == UNION {ArrivalsOf(i, k, s[i]) : i \in Items}
<1>16. ASSUME NEW b \in new
       PROVE  \E i \in Items : \E j \in 1 .. Len(s[i]) :
                  b = [item |-> i, at |-> Len(moves[i]) + j, key |-> k, line |-> s[i][j]]
  <2>1. PICK i \in Items : b \in ArrivalsOf(i, k, s[i])
    OBVIOUS
  <2>2. DOMAIN s[i] = 1 .. Len(s[i])
    BY <1>6
  <2>. QED
    BY <2>1, <2>2 DEF ArrivalsOf
<1>17. ASSUME NEW i \in Items, NEW j \in 1 .. Len(s[i])
       PROVE  [item |-> i, at |-> Len(moves[i]) + j, key |-> k, line |-> s[i][j]] \in new
  <2>1. DOMAIN s[i] = 1 .. Len(s[i])
    BY <1>6
  <2>2. [item |-> i, at |-> Len(moves[i]) + j, key |-> k, line |-> s[i][j]]
            \in ArrivalsOf(i, k, s[i])
    BY <2>1 DEF ArrivalsOf
  <2>. HIDE DEF k
  <2>. QED
    BY <2>2
<1>18. arrivals' = arrivals \cup new
  BY <1>2
<1>. HIDE DEF a, k, o, lines, new
<1>19. /\ InventoryInvariant'
       /\ \A i \in Items : Lengthened(moves[i], moves'[i], s[i], lines)
  BY <1>1, <1>7, <1>8, <1>9, <1>10, StockReceived
<1>20. ASSUME NEW i \in Items PROVE Extended(i)
  <2>1. moves'[i] \in Seq(MovementRow) /\ Len(moves'[i]) \in Nat
    BY <1>19 DEF Lengthened
  <2>. QED
    BY <1>6, <1>19, <2>1 DEF Lengthened, Extended
<1>21. ASSUME NEW b \in arrivals PROVE ArrivalKnows(b)' /\ b.key # k
  <2>1. ArrivalKnows(b) /\ b.item \in Items /\ b.key \in Keys
    BY DEF ArrivalsInvariant, ArrivalKnows, Arrival
  <2>2. b.key # k
    BY <1>11, <2>1 DEF ArrivalKnows
  <2>3. b.at \in 1 .. Len(moves'[b.item]) /\ moves'[b.item][b.at] = moves[b.item][b.at]
    BY <1>20, <2>1 DEF ArrivalKnows, Extended
  <2>4. receipt'[b.key] = receipt[b.key]
    BY <1>11, <2>1, <2>2
  <2>5. orderLine'[b.line].item = orderLine[b.line].item
    BY <1>12, <2>1 DEF ArrivalKnows, Arrival
  <2>. QED
    BY <2>1, <2>2, <2>3, <2>4, <2>5 DEF ArrivalKnows
<1>22. ASSUME NEW i \in Items, NEW j \in 1 .. Len(s[i]), NEW b,
              b = [item |-> i, at |-> Len(moves[i]) + j, key |-> k, line |-> s[i][j]]
       PROVE  /\ ArrivalKnows(b)'
              /\ b.item = i /\ b.at = Len(moves[i]) + j /\ b.key = k /\ b.line = s[i][j]
              /\ orderLine[b.line].item = i
              /\ Len(moves[i]) \in Nat /\ ~(b.at <= Len(moves[i]))
  <2>1. b.item = i /\ b.at = Len(moves[i]) + j /\ b.key = k /\ b.line = s[i][j]
    BY <1>22
  <2>2. /\ s[i][j] \in TrackedLines(a) /\ orderLine[s[i][j]].item = i
        /\ s[i][j] \in OrderLines
    BY <1>6, <1>13, <1>14
  <2>3. Lengthened(moves[i], moves'[i], s[i], lines) /\ Len(s[i]) \in Nat
    BY <1>6, <1>19
  <2>4. /\ b.at \in 1 .. Len(moves'[i]) /\ b.at \in Nat
        /\ moves'[i][b.at].after - moves'[i][b.at].before = lines[s[i][j]]
        /\ Len(moves[i]) \in Nat /\ ~(b.at <= Len(moves[i]))
    BY <2>1, <2>3 DEF Lengthened
  <2>5. b \in Arrival
    BY <1>3, <1>22, <2>1, <2>2, <2>4 DEF Arrival, a, k
  <2>6. orderLine'[b.line].item = i
    BY <1>12, <2>1, <2>2
  <2>. QED
    BY <1>11, <2>1, <2>2, <2>4, <2>5, <2>6 DEF ArrivalKnows
<1>23. \A b \in arrivals' : ArrivalKnows(b)'
  <2>1. \A b \in new : ArrivalKnows(b)'
    BY <1>16, <1>22
  <2>. QED
    BY <1>18, <1>21, <2>1
<1>24. \A b \in arrivals : b.item \in Items /\ b.at <= Len(moves[b.item])
  BY DEF ArrivalsInvariant, ArrivalKnows, Arrival
<1>25. ASSUME NEW b \in arrivals', NEW c \in arrivals',
              \/ b.item = c.item /\ b.at = c.at
              \/ b.key = c.key /\ b.line = c.line
       PROVE  b = c
  <2>1. CASE b \in arrivals /\ c \in arrivals
    BY <1>25, <2>1 DEF ArrivalsInvariant
  <2>2. CASE b \in new /\ c \in arrivals
    BY <1>16, <1>21, <1>22, <1>24, <1>25, <2>2
  <2>3. CASE b \in arrivals /\ c \in new
    BY <1>16, <1>21, <1>22, <1>24, <1>25, <2>3
  <2>4. CASE b \in new /\ c \in new
    <3>7. PICK i \in Items : \E j \in 1 .. Len(s[i]) :
              b = [item |-> i, at |-> Len(moves[i]) + j, key |-> k, line |-> s[i][j]]
      BY <1>16, <2>4
    <3>1. PICK j \in 1 .. Len(s[i]) :
              b = [item |-> i, at |-> Len(moves[i]) + j, key |-> k, line |-> s[i][j]]
      BY <3>7
    <3>8. PICK h \in Items : \E m \in 1 .. Len(s[h]) :
              c = [item |-> h, at |-> Len(moves[h]) + m, key |-> k, line |-> s[h][m]]
      BY <1>16, <2>4
    <3>2. PICK m \in 1 .. Len(s[h]) :
              c = [item |-> h, at |-> Len(moves[h]) + m, key |-> k, line |-> s[h][m]]
      BY <3>8
    <3>3. /\ b.item = i /\ b.at = Len(moves[i]) + j /\ b.line = s[i][j]
          /\ orderLine[b.line].item = i /\ Len(moves[i]) \in Nat
      BY <1>22, <3>1
    <3>4. /\ c.item = h /\ c.at = Len(moves[h]) + m /\ c.line = s[h][m]
          /\ orderLine[c.line].item = h
      BY <1>22, <3>2
    <3>5. i = h
      BY <1>25, <3>3, <3>4
    <3>6. j = m
      <4>1. CASE b.at = c.at
        <5>1. Len(moves[i]) + j = Len(moves[i]) + m /\ j \in Int /\ m \in Int
          BY <1>6, <3>3, <3>4, <3>5, <4>1
        <5>. QED
          BY <3>3, <5>1
      <4>2. CASE b.line = c.line
        BY <1>6, <3>3, <3>4, <3>5, <4>2
      <4>. QED
        BY <1>25, <4>1, <4>2
    <3>. QED
      BY <3>1, <3>2, <3>5, <3>6
  <2>. QED
    BY <1>18, <2>1, <2>2, <2>3, <2>4
<1>26. ASSUME NEW m \in Keys, NEW n \in receipt'[m].tracked
       PROVE  \E b \in arrivals' : b.key = m /\ b.line = n
  <2>1. CASE m = k
    <3>1. n \in TrackedLines(a)
      BY <1>11, <2>1
    <3>2. orderLine[n].item \in Items /\ n \in LinesOn(a, orderLine[n].item)
      BY <1>13, <1>15, <3>1
    <3>3. PICK j \in 1 .. Len(s[orderLine[n].item]) : s[orderLine[n].item][j] = n
      BY <1>6, <3>2
    <3>4. [item |-> orderLine[n].item, at |-> Len(moves[orderLine[n].item]) + j,
           key |-> k, line |-> n] \in new
      BY <1>17, <3>2, <3>3
    <3>. QED
      BY <1>18, <2>1, <3>4
  <2>2. CASE m # k
    <3>1. n \in receipt[m].tracked
      BY <1>11, <2>2
    <3>2. \E b \in arrivals : b.key = m /\ b.line = n
      BY <3>1 DEF ArrivalsInvariant
    <3>. QED
      BY <1>18, <3>2
  <2>. QED
    BY <2>1, <2>2
<1>27. ArrivalsInvariant'
  <2>1. \A b, c \in arrivals' : b.item = c.item /\ b.at = c.at => b = c
    BY <1>25
  <2>2. \A b, c \in arrivals' : b.key = c.key /\ b.line = c.line => b = c
    BY <1>25
  <2>3. \A m \in Keys : \A n \in receipt'[m].tracked :
            \E b \in arrivals' : b.key = m /\ b.line = n
    BY <1>26
  <2>. QED
    BY <1>23, <2>1, <2>2, <2>3 DEF ArrivalsInvariant
<1>28. ASSUME NEW i \in Items PROVE ReplacesWhatItSaw(i)
  <2>1. Lengthened(moves[i], moves'[i], s[i], lines) /\ Len(s[i]) \in Nat
    BY <1>6, <1>19
  <2>2. Len(moves[i]) \in Nat /\ Len(moves'[i]) = Len(moves[i]) + Len(s[i])
    BY <2>1 DEF Lengthened
  <2>3. CASE Len(s[i]) = 0
    BY <2>2, <2>3 DEF ReplacesWhatItSaw
  <2>4. CASE Len(s[i]) # 0
    <3>1. Len(s[i]) \in 1 .. Len(s[i])
      BY <2>1, <2>4
    <3>2. moves'[i][Len(moves'[i])].line = NoOne
      BY <2>1, <2>2, <3>1 DEF Lengthened
    <3>. QED
      BY <3>2 DEF ReplacesWhatItSaw
  <2>. QED
    BY <2>3, <2>4
<1>. QED
  BY <1>19, <1>27, <1>28 DEF StockKept

(* Every step keeps the stock and the movements of receipts. *)
LEMMA ArrivalsStep ==
    ASSUME InventoryInvariant, AnswerInvariant, ReceivingInvariant, ArrivalsInvariant,
           [PurchasesNext]_allVars
    PROVE  StockKept
<1>1. ASSUME NEW q \in Attempts, Receive(q)
      PROVE  StockKept
  BY <1>1, Arrived
<1>2. ASSUME [InventoryNext]_inventoryVars, UNCHANGED <<arrivals, receipt>>,
             \A b \in arrivals : orderLine'[b.line].item = orderLine[b.line].item
      PROVE  StockKept
  <2>1. InventoryInvariant'
    BY <1>2, InventoryAssumption, InventoryKeeps
  <2>2. \A i \in Items : Extended(i)
    BY <1>2, HistoryExtended
  <2>3. ArrivalsInvariant'
    BY <1>2, <2>2, ArrivalsKept
  <2>4. \A i \in Items : ReplacesWhatItSaw(i)
    BY <1>2, InventoryAssumption, CountsReplace
  <2>. QED
    BY <2>1, <2>3, <2>4 DEF StockKept
<1>3. ASSUME NEW n \in OrderLines, NEW row, Writable(n), WriteRow(n, row)
      PROVE  StockKept
  <2>1. /\ UNCHANGED <<inventoryVars, arrivals, receipt>>
        /\ orderLine' = [orderLine EXCEPT ![n] = row]
    BY <1>3 DEF WriteRow
  <2>2. \A k \in Keys : receipt[k].lines[n] = 0
    BY <1>3, NothingReceived
  <2>3. ASSUME NEW b \in arrivals
        PROVE  orderLine'[b.line].item = orderLine[b.line].item
    <3>1. b.key \in Keys /\ b.line \in OrderLines /\ b.line \in receipt[b.key].tracked
      BY DEF ArrivalsInvariant, ArrivalKnows, Arrival
    <3>2. receipt[b.key].lines[b.line] > 0
      BY <3>1 DEF ReceivingInvariant, LinesKnow
    <3>3. b.line # n
      BY <2>2, <3>1, <3>2
    <3>. QED
      BY <2>1, <3>1, <3>3 DEF ReceivingInvariant
  <2>. QED
    BY <1>2, <2>1, <2>3 DEF inventoryVars
<1>4. ASSUME UNCHANGED <<inventoryVars, arrivals, receipt, orderLine>>
      PROVE  StockKept
  BY <1>2, <1>4 DEF inventoryVars
<1>5. ASSUME NEW o \in Orders, OrderStep(o)
      PROVE  StockKept
  <2>1. CASE CreatePurchase(o) \/ OrderPurchase(o) \/ CancelPurchase(o)
    BY <1>4, <2>1 DEF CreatePurchase, OrderPurchase, CancelPurchase
  <2>2. ASSUME NEW n \in OrderLines, NEW i \in Items, NEW x \in Quantities,
               AddPurchaseLine(o, n, i, x)
        PROVE  StockKept
    BY <1>3, <2>2 DEF AddPurchaseLine, Writable
  <2>. QED
    BY <1>5, <2>1, <2>2 DEF OrderStep
<1>6. ASSUME NEW n \in OrderLines, RowStep(n)
      PROVE  StockKept
  <2>1. orderLine[n] # NoRow /\ orderStatus[orderLine[n].order] = "draft"
    BY <1>6 DEF RowStep, UpdatePurchaseLine, DeletePurchaseLine, Editable
  <2>2. Writable(n)
    BY <2>1 DEF Writable, ReceivingInvariant, RowKnows
  <2>. QED
    BY <1>3, <1>6, <2>2 DEF RowStep, UpdatePurchaseLine, DeletePurchaseLine
<1>7. ASSUME NEW q \in Attempts, AttemptStep(q)
      PROVE  StockKept
  BY <1>1, <1>4, <1>7 DEF AttemptStep, Submit, AnswerFromReceipt, RefuseReceipt
<1>8. CASE ChangeCatalog
  BY <1>4, <1>8 DEF ChangeCatalog
<1>9. CASE InventoryNext /\ UNCHANGED purchaseVars
  BY <1>2, <1>9 DEF purchaseVars
<1>10. CASE UNCHANGED allVars
  BY <1>4, <1>10 DEF allVars, purchaseVars
<1>11. CASE PurchasesNext
  BY <1>5, <1>6, <1>7, <1>8, <1>9, <1>11 DEF PurchasesNext
<1>. QED
  BY <1>10, <1>11

-------------------------------------------------------------------------------
(* What a submission knows of its receipt holds in every behaviour. *)
THEOREM AnswersAlways == PurchasesSpec => []AnswerInvariant
<1>1. PurchasesInit => AnswerInvariant
  BY AnswersInitially
<1>2. AnswerInvariant /\ [PurchasesNext]_allVars => AnswerInvariant'
  BY AnswersStep
<1>. QED
  BY <1>1, <1>2, PTL DEF PurchasesSpec

(* A page that was told its receipt is registered has it, with its own lines, and one
   whose receipt exists is never refused. *)
THEOREM AnswersTrue == PurchasesSpec => AnswersTellReceipts
<1>1. AnswerInvariant /\ [PurchasesNext]_allVars =>
          (receipt' # receipt \/ attempt' # attempt => \A q \in Attempts : Told(q))
  BY AnswersStep
<1>. QED
  BY <1>1, AnswersAlways, PTL DEF PurchasesSpec, AnswersTellReceipts

-------------------------------------------------------------------------------
(* What the orders, the receipts, the stock and the pages keep together. *)
PurchasesInvariant ==
    InventoryInvariant /\ AnswerInvariant /\ ReceivingInvariant /\ ArrivalsInvariant

THEOREM PurchasesAreKept == PurchasesSpec => []PurchasesInvariant
<1>1. PurchasesInit => PurchasesInvariant
  <2>. SUFFICES ASSUME PurchasesInit PROVE PurchasesInvariant
    OBVIOUS
  <2>1. InventoryInvariant
    BY InventoryAssumption, InventoryStarts DEF PurchasesInit
  <2>2. AnswerInvariant /\ ReceivingInvariant
    BY AnswersInitially, ReceivingInitially
  <2>3. ArrivalsInvariant
    BY DEF PurchasesInit, NoReceipt, ArrivalsInvariant
  <2>. QED
    BY <2>1, <2>2, <2>3 DEF PurchasesInvariant
<1>2. PurchasesInvariant /\ [PurchasesNext]_allVars => PurchasesInvariant'
  <2>. SUFFICES ASSUME PurchasesInvariant, [PurchasesNext]_allVars
                PROVE  PurchasesInvariant'
    OBVIOUS
  <2>1. AnswerInvariant'
    BY AnswersStep DEF PurchasesInvariant
  <2>2. ReceivingInvariant'
    BY <2>1, ReceivingStep DEF PurchasesInvariant
  <2>3. InventoryInvariant' /\ ArrivalsInvariant'
    BY ArrivalsStep DEF PurchasesInvariant, StockKept
  <2>. QED
    BY <2>1, <2>2, <2>3 DEF PurchasesInvariant
<1>. QED
  BY <1>1, <1>2, PTL DEF PurchasesSpec

(* Whatever is sold, received, returned or counted between the reading of a line and
   its confirmation, a count replaces the very stock it was made against. *)
THEOREM CountsReplaced == PurchasesSpec => CountsReplaceWhatTheySaw
<1>1. PurchasesInvariant /\ [PurchasesNext]_allVars =>
          \A i \in Items : ReplacesWhatItSaw(i)
  BY ArrivalsStep DEF PurchasesInvariant, StockKept
<1>2. PurchasesInvariant /\ [PurchasesNext]_allVars =>
          [moves' # moves => \A i \in Items : ReplacesWhatItSaw(i)]_inventoryVars
  BY <1>1
<1>. QED
  BY <1>2, PurchasesAreKept, PTL DEF PurchasesSpec, CountsReplaceWhatTheySaw

(* Orders, rows, receipts, movements and pages keep their types, and a receipt tracks
   only lines it received. *)
THEOREM PurchasesTyped == PurchasesSpec => []PurchasesTypeOK
<1>1. PurchasesInvariant => PurchasesTypeOK
  <2>. SUFFICES ASSUME PurchasesInvariant PROVE PurchasesTypeOK
    OBVIOUS
  <2>1. InventoryTypeOK
    BY DEF PurchasesInvariant, InventoryInvariant
  <2>2. orderStatus \in [Orders -> {"none", "draft", "ordered", "partially_received",
                                    "received", "cancelled"}]
    BY DEF PurchasesInvariant, AnswerInvariant, Begun
  <2>3. \A k \in Keys : \A n \in receipt[k].tracked : receipt[k].lines[n] > 0
    BY DEF PurchasesInvariant, ReceivingInvariant, LinesKnow
  <2>4. arrivals \subseteq Arrival
    BY DEF PurchasesInvariant, ArrivalsInvariant, ArrivalKnows
  <2>. QED
    BY <2>1, <2>2, <2>3, <2>4
    DEF PurchasesInvariant, AnswerInvariant, ReceivingInvariant, PurchasesTypeOK
<1>. QED
  BY <1>1, PurchasesAreKept, PTL

(* Whatever pages receive the same order at once, what its lines received is the sum of
   its receipts and at most what was ordered, and its status says how much came. *)
THEOREM ReceiptsExplainOrders == PurchasesSpec => []ReceivedIsReceipts
<1>1. PurchasesInvariant => ReceivedIsReceipts
  BY DEF PurchasesInvariant, ReceivingInvariant, RowKnows, ReceivedOf, OrderKnows, Some,
         All, ReceivedIsReceipts
<1>. QED
  BY <1>1, PurchasesAreKept, PTL

(* A line that arrived while its product was tracked has exactly one movement, of its
   quantity, and no other line has one. *)
THEOREM ArrivalsExplained == PurchasesSpec => []ArrivalsAreReceipts
<1>1. ASSUME ArrivalsInvariant, NEW i \in Items, NEW k \in Keys, NEW n \in OrderLines
      PROVE  LET rows == {a \in arrivals : a.item = i /\ a.key = k /\ a.line = n} IN
             IF n \in receipt[k].tracked /\ orderLine[n].item = i
             THEN \E a \in rows :
                     /\ rows = {a}
                     /\ a.at \in 1 .. Len(moves[i])
                     /\ moves[i][a.at].after - moves[i][a.at].before = receipt[k].lines[n]
                     /\ \A b \in arrivals : b.item = i /\ b.at = a.at => b = a
             ELSE rows = {}
  <2>. DEFINE rows == {a \in arrivals : a.item = i /\ a.key = k /\ a.line = n}
  <2>1. CASE n \in receipt[k].tracked /\ orderLine[n].item = i
    <3>1. PICK a \in arrivals : a.key = k /\ a.line = n
      BY <1>1, <2>1 DEF ArrivalsInvariant
    <3>2. ArrivalKnows(a) /\ a.item = i
      BY <1>1, <2>1, <3>1 DEF ArrivalsInvariant, ArrivalKnows
    <3>3. \A b \in arrivals : b.key = k /\ b.line = n => b = a
      BY <1>1, <3>1 DEF ArrivalsInvariant
    <3>4. rows = {a}
      BY <3>1, <3>2, <3>3
    <3>5. \A b \in arrivals : b.item = i /\ b.at = a.at => b = a
      BY <1>1, <3>1, <3>2 DEF ArrivalsInvariant
    <3>. QED
      BY <2>1, <3>1, <3>2, <3>4, <3>5 DEF ArrivalKnows
  <2>2. CASE ~(n \in receipt[k].tracked /\ orderLine[n].item = i)
    <3>1. rows = {}
      BY <1>1, <2>2 DEF ArrivalsInvariant, ArrivalKnows
    <3>. QED
      BY <2>2, <3>1
  <2>. QED
    BY <2>1, <2>2
<1>2. PurchasesInvariant => ArrivalsAreReceipts
  BY <1>1 DEF PurchasesInvariant, ArrivalsAreReceipts
<1>. QED
  BY <1>2, PurchasesAreKept, PTL

(* With receipts among the sales and the counts, stock is still what its movements say,
   is not oversold, and a count still moves it once. *)
THEOREM StockWithReceipts ==
    PurchasesSpec => [](StockIsLedger /\ NoOversell /\ CountsApplyOnce)
<1>1. PurchasesInvariant => StockIsLedger /\ NoOversell /\ CountsApplyOnce
  BY DEF PurchasesInvariant, InventoryInvariant, CountsApplyOnce, MovementsApplied,
         Applied, EachLineOnce
<1>. QED
  BY <1>1, PurchasesAreKept, PTL

===============================================================================
