----------------------------- MODULE ReturnsProofs -----------------------------
(***************************************************************************)
(* What the returns of a sale keep for any lines, prices, rates, discounts *)
(* and number of returns: completed returns are never touched again, so    *)
(* the rectification of each is fixed, and the rounding of their parts     *)
(* stays within half a cent each; no more comes back than was sold, and    *)
(* the stock that comes back is that of the completed rows; and a line     *)
(* that came back completely is rectified to the cent.                     *)
(***************************************************************************)
EXTENDS Returns, SumsProofs, SequenceTheorems

StoredRow == [quantity : Nat, amount : Int, restock : BOOLEAN]

(* The order of completion names each completed return once. *)
HistorySound ==
    /\ history \in Seq(Returns)
    /\ \A i, j \in DOMAIN history : history[i] = history[j] => i = j
    /\ \A r \in Returns :
           retStatus[r] = "completed" <=> \E i \in DOMAIN history : history[i] = r

ReturnRowsTyped ==
    /\ retStatus \in [Returns -> {"none", "draft", "completed", "cancelled"}]
    /\ rows \in [Returns -> [Lines -> StoredRow]]

(* RoundingDrift for one line, with the finiteness that its bound needs. *)
Drift(l) == returned[l].amount * sold[l].quantity - Total(l) * returned[l].quantity
LineSound(l) ==
    /\ returned[l] \in [quantity : Nat, amount : Int]
    /\ returned[l].quantity <= sold[l].quantity
    /\ IsFiniteSet(PartsOf(l))
    /\ -(Cardinality(PartsOf(l)) * sold[l].quantity) <= 2 * Drift(l)
    /\ 2 * Drift(l) <= Cardinality(PartsOf(l)) * sold[l].quantity
    /\ returned[l].quantity = sold[l].quantity => Drift(l) = 0

SoldSound == \A l \in Lines : sold[l] \in Snapshot /\ Sellable(sold[l])

ReturnsInvariant ==
    /\ HistorySound /\ ReturnRowsTyped /\ SoldSound
    /\ returned \in [Lines -> [quantity : Nat, amount : Int]]
    /\ \A l \in Lines : LineSound(l)
-------------------------------------------------------------------------------
(* The quotient of natural numbers. *)
LEMMA Quotient ==
    ASSUME NEW n \in Nat, NEW d \in Nat, d > 0
    PROVE  n \div d \in Nat /\ d * (n \div d) <= n /\ n < d * (n \div d) + d
<1>1. n \div d \in Int /\ n \div d >= 0
  OBVIOUS
<1>2. d * (n \div d) <= n
  OBVIOUS
<1>3. n < d * (n \div d) + d
  OBVIOUS
<1>. QED
  BY <1>1, <1>2, <1>3

(* Rounding half up gives a natural number at most half away from the fraction. *)
LEMMA Rounding ==
    ASSUME NEW a \in Nat, NEW b \in Nat \ {0}
    PROVE  /\ RoundHalfUp(a, b) \in Nat
           /\ -b <= 2 * (RoundHalfUp(a, b) * b - a)
           /\ 2 * (RoundHalfUp(a, b) * b - a) <= b
<1>. DEFINE n == 2 * a + b
            d == 2 * b
            h == n \div d
<1>1. n \in Nat /\ d \in Nat /\ d > 0
  OBVIOUS
<1>2. h \in Nat /\ d * h <= n /\ n < d * h + d
  BY <1>1, Quotient
<1>3. RoundHalfUp(a, b) = h
  BY DEF RoundHalfUp
<1>. HIDE DEF h
<1>4. d * h = 2 * (h * b)
  BY <1>2
<1>. QED
  BY <1>2, <1>3, <1>4

(* A sold line has a total in cents. *)
LEMMA TotalTyped ==
    ASSUME NEW s \in Snapshot, Sellable(s)
    PROVE  Fiscal(s).total \in Nat
<1>1. s.quantity \in Nat /\ s.unit \in Nat /\ s.discount \in Nat /\ s.rate \in Nat
  BY DEF Snapshot
<1>2. s.unit * s.quantity \in Nat
  BY <1>1
<1>3. Gross(s, s.quantity) \in Nat
  BY <1>2, Rounding, ReturnsAssumption DEF Gross
<1>. DEFINE base == Gross(s, s.quantity) - s.discount
<1>4. base \in Nat
  BY <1>1, <1>3 DEF Sellable
<1>5. base * s.rate \in Nat
  BY <1>1, <1>4
<1>6. TaxOf(base, s.rate) \in Nat
  BY <1>5, Rounding DEF TaxOf
<1>7. Fiscal(s).total = base + TaxOf(base, s.rate)
  BY DEF Fiscal
<1>. QED
  BY <1>4, <1>6, <1>7

(* A part of a line is an amount that the rounding allows; the last one is exact. *)
LEMMA PartOfLine ==
    ASSUME NEW l \in Lines, SoldSound, LineSound(l), NEW q \in Nat, Fits(l, q)
    PROVE  /\ Amount(l, q) \in Int /\ Total(l) \in Nat /\ sold[l].quantity \in Nat
           /\ returned[l].quantity + q <= sold[l].quantity
           /\ returned[l].quantity + q = sold[l].quantity =>
                  Amount(l, q) = Total(l) - returned[l].amount
           /\ returned[l].quantity + q < sold[l].quantity =>
                  LET off == Amount(l, q) * sold[l].quantity - Total(l) * q IN
                  /\ -sold[l].quantity <= 2 * off /\ 2 * off <= sold[l].quantity
<1>1. sold[l] \in Snapshot /\ Sellable(sold[l])
  BY DEF SoldSound
<1>2. Total(l) \in Nat /\ sold[l].quantity \in Nat \ {0}
  BY <1>1, TotalTyped DEF Total, Snapshot
<1>3. returned[l].quantity \in Nat /\ returned[l].amount \in Int
  BY DEF LineSound
<1>4. returned[l].quantity + q <= sold[l].quantity
  BY <1>2, <1>3 DEF Fits, RemainingQuantity
<1>5. CASE returned[l].quantity + q = sold[l].quantity
  <2>1. q = RemainingQuantity(l)
    BY <1>2, <1>3, <1>5 DEF RemainingQuantity
  <2>2. Amount(l, q) = Total(l) - returned[l].amount
    BY <2>1 DEF Amount, RemainingAmount
  <2>. QED
    BY <1>2, <1>3, <1>4, <1>5, <2>2
<1>6. CASE returned[l].quantity + q # sold[l].quantity
  <2>1. q # RemainingQuantity(l)
    BY <1>2, <1>3, <1>6 DEF RemainingQuantity
  <2>2. Amount(l, q) = RoundHalfUp(Total(l) * q, sold[l].quantity)
    BY <2>1 DEF Amount
  <2>3. Total(l) * q \in Nat
    BY <1>2
  <2>4. /\ Amount(l, q) \in Nat
        /\ -sold[l].quantity <= 2 * (Amount(l, q) * sold[l].quantity - Total(l) * q)
        /\ 2 * (Amount(l, q) * sold[l].quantity - Total(l) * q) <= sold[l].quantity
    BY <1>2, <2>2, <2>3, Rounding
  <2>. QED
    BY <1>2, <1>4, <1>6, <2>4
<1>. QED
  BY <1>5, <1>6

(* One more part moves the drift by at most half of what the bound grows. *)
LEMMA DriftGrows ==
    ASSUME NEW Q \in Nat, NEW T \in Nat, NEW A \in Int, NEW a \in Int, NEW q0 \in Nat,
           NEW q \in Nat, NEW n \in Nat,
           -(n * Q) <= 2 * (A * Q - T * q0), 2 * (A * Q - T * q0) <= n * Q,
           -Q <= 2 * (a * Q - T * q), 2 * (a * Q - T * q) <= Q
    PROVE  /\ -((n + 1) * Q) <= 2 * ((A + a) * Q - T * (q0 + q))
           /\ 2 * ((A + a) * Q - T * (q0 + q)) <= (n + 1) * Q
<1>1. (A + a) * Q - T * (q0 + q) = (A * Q - T * q0) + (a * Q - T * q)
  OBVIOUS
<1>2. (n + 1) * Q = n * Q + Q
  OBVIOUS
<1>. QED
  BY <1>1, <1>2

(* A line of a draft that is written again has the type of a row. *)
LEMMA RowsWritten ==
    ASSUME ReturnsInvariant, NEW r \in Returns, NEW l \in Lines, NEW row \in StoredRow,
           retStatus[r] = "draft", SetRow(r, l, row)
    PROVE  ReturnsInvariant'
<1>1. /\ UNCHANGED <<sold, retStatus, returned, history>>
      /\ rows' = [rows EXCEPT ![r] = [rows[r] EXCEPT ![l] = row]]
  BY DEF SetRow, ReturnsInvariant, ReturnRowsTyped
<1>2. ReturnRowsTyped'
  BY <1>1 DEF ReturnsInvariant, ReturnRowsTyped
<1>3. ASSUME NEW m \in Lines PROVE LineSound(m)'
  <2>1. PartsOf(m)' = PartsOf(m)
    BY <1>1 DEF PartsOf, Rows, ReturnsInvariant, ReturnRowsTyped
  <2>2. Drift(m)' = Drift(m)
    BY <1>1 DEF Drift, Total
  <2>. QED
    BY <1>1, <2>1, <2>2 DEF ReturnsInvariant, LineSound
<1>4. HistorySound' /\ SoldSound'
  BY <1>1 DEF ReturnsInvariant, HistorySound, SoldSound
<1>. QED
  BY <1>1, <1>2, <1>3, <1>4 DEF ReturnsInvariant

(* A line after a completed return. *)
LEMMA LineCompleted ==
    ASSUME ReturnsInvariant, NEW r \in Returns, CompleteReturn(r), NEW l \in Lines
    PROVE  /\ Repriced(r)[l] \in StoredRow
           /\ LineSound(l)'
<1>. DEFINE q == rows[r][l].quantity
            a == Amount(l, q)
            Q == sold[l].quantity
<1>1. /\ retStatus[r] = "draft" /\ sold' = sold
      /\ retStatus' = [retStatus EXCEPT ![r] = "completed"]
      /\ rows' = [rows EXCEPT ![r] = Repriced(r)]
      /\ returned' = [m \in Lines |->
             [quantity |-> returned[m].quantity + Repriced(r)[m].quantity,
              amount |-> returned[m].amount + Repriced(r)[m].amount]]
      /\ \A m \in Rows(r) : Fits(m, rows[r][m].quantity)
  BY DEF CompleteReturn, Completable
<1>2. rows[r][l] \in StoredRow /\ LineSound(l) /\ SoldSound
  BY DEF ReturnsInvariant, ReturnRowsTyped
<1>3. q \in Nat /\ rows[r][l].restock \in BOOLEAN
  BY <1>2 DEF StoredRow
<1>4. returned[l].quantity \in Nat /\ returned[l].amount \in Int
  BY <1>2 DEF LineSound
<1>5. PartsOf(l)' = IF q > 0 THEN PartsOf(l) \cup {r} ELSE PartsOf(l)
  <2>1. Repriced(r)[l].quantity = IF q > 0 THEN q ELSE 0
    BY <1>2 DEF Repriced, Rows, NoRow, StoredRow
  <2>2. ASSUME NEW t \in Returns, t # r
        PROVE  retStatus'[t] = retStatus[t] /\ rows'[t] = rows[t]
    BY <1>1, <2>2 DEF ReturnsInvariant, ReturnRowsTyped
  <2>3. retStatus'[r] = "completed" /\ rows'[r][l] = Repriced(r)[l]
    BY <1>1 DEF ReturnsInvariant, ReturnRowsTyped
  <2>. QED
    BY <1>1, <1>3, <2>1, <2>2, <2>3 DEF PartsOf, Rows
<1>6. r \notin PartsOf(l) /\ IsFiniteSet(PartsOf(l))
  BY <1>1, <1>2 DEF PartsOf, LineSound
<1>7. CASE q > 0
  <2>1. Repriced(r)[l] = [quantity |-> q, amount |-> a, restock |-> rows[r][l].restock]
    BY <1>2, <1>7 DEF Repriced, Rows, StoredRow
  <2>2. Fits(l, q)
    BY <1>1, <1>7 DEF Rows
  <2>3. /\ a \in Int /\ Total(l) \in Nat /\ Q \in Nat
        /\ returned[l].quantity + q <= Q
        /\ returned[l].quantity + q = Q => a = Total(l) - returned[l].amount
        /\ returned[l].quantity + q < Q =>
               -Q <= 2 * (a * Q - Total(l) * q) /\ 2 * (a * Q - Total(l) * q) <= Q
    BY <1>2, <1>3, <2>2, PartOfLine
  <2>4. returned'[l] = [quantity |-> returned[l].quantity + q,
                        amount |-> returned[l].amount + a]
    BY <1>1, <2>1
  <2>5. returned'[l] \in [quantity : Nat, amount : Int]
    BY <1>3, <1>4, <2>3, <2>4
  <2>6. /\ IsFiniteSet(PartsOf(l))'
        /\ Cardinality(PartsOf(l))' = Cardinality(PartsOf(l)) + 1
    BY <1>5, <1>6, <1>7, FS_AddElement
  <2>7. Cardinality(PartsOf(l)) \in Nat
    BY <1>6, FS_CardinalityType
  <2>8. Drift(l)' = (returned[l].amount + a) * Q
                      - Total(l) * (returned[l].quantity + q)
    BY <1>1, <2>4 DEF Drift, Total
  <2>9. CASE returned[l].quantity + q = Q
    <3>1. Drift(l)' = 0
      <4>1. returned[l].amount + a = Total(l)
        BY <1>4, <2>3, <2>9
      <4>. QED
        BY <2>3, <2>8, <2>9, <4>1
    <3>2. (Cardinality(PartsOf(l)) + 1) * Q \in Nat
      BY <2>3, <2>7
    <3>. QED
      BY <1>1, <2>1, <1>3, <2>3, <2>4, <2>5, <2>6, <2>7, <2>9, <3>1, <3>2
         DEF LineSound, StoredRow
  <2>10. CASE returned[l].quantity + q < Q
    <3>1. /\ -(Cardinality(PartsOf(l)) * Q) <= 2 * (returned[l].amount * Q
                                               - Total(l) * returned[l].quantity)
          /\ 2 * (returned[l].amount * Q - Total(l) * returned[l].quantity)
                <= Cardinality(PartsOf(l)) * Q
      BY <1>2 DEF LineSound, Drift
    <3>2. /\ -((Cardinality(PartsOf(l)) + 1) * Q) <= 2 * Drift(l)'
          /\ 2 * Drift(l)' <= (Cardinality(PartsOf(l)) + 1) * Q
      BY <1>3, <1>4, <2>3, <2>7, <2>8, <2>10, <3>1, DriftGrows
    <3>. QED
      BY <1>1, <1>3, <2>1, <2>3, <2>4, <2>5, <2>6, <2>10, <3>2 DEF LineSound, StoredRow
  <2>. QED
    BY <1>3, <1>4, <2>3, <2>9, <2>10
<1>8. CASE q = 0
  <2>1. Repriced(r)[l] = NoRow
    BY <1>8 DEF Repriced, Rows
  <2>2. returned'[l] = [quantity |-> returned[l].quantity,
                        amount |-> returned[l].amount]
    BY <1>1, <1>4, <2>1 DEF NoRow
  <2>3. returned'[l].quantity = returned[l].quantity
        /\ returned'[l].amount = returned[l].amount
        /\ returned'[l] \in [quantity : Nat, amount : Int]
    BY <1>4, <2>2
  <2>4. PartsOf(l)' = PartsOf(l)
    BY <1>5, <1>8
  <2>5. Drift(l)' = Drift(l)
    BY <1>1, <2>3 DEF Drift, Total
  <2>. QED
    BY <1>1, <1>2, <2>1, <2>3, <2>4, <2>5 DEF LineSound, NoRow, StoredRow
<1>. QED
  BY <1>3, <1>7, <1>8

(* The return that is completed is the last of the history. *)
LEMMA CompletionKept ==
    ASSUME ReturnsInvariant, NEW r \in Returns, CompleteReturn(r)
    PROVE  ReturnsInvariant'
<1>1. /\ retStatus[r] = "draft" /\ sold' = sold
      /\ retStatus' = [retStatus EXCEPT ![r] = "completed"]
      /\ rows' = [rows EXCEPT ![r] = Repriced(r)]
      /\ returned' = [m \in Lines |->
             [quantity |-> returned[m].quantity + Repriced(r)[m].quantity,
              amount |-> returned[m].amount + Repriced(r)[m].amount]]
      /\ history' = Append(history, r)
  BY DEF CompleteReturn, Completable
<1>2. \A l \in Lines : Repriced(r)[l] \in StoredRow /\ LineSound(l)'
  BY LineCompleted
<1>3. Repriced(r) \in [Lines -> StoredRow]
  BY <1>2 DEF Repriced
<1>4. ReturnRowsTyped'
  BY <1>1, <1>3 DEF ReturnsInvariant, ReturnRowsTyped
<1>5. returned' \in [Lines -> [quantity : Nat, amount : Int]]
  <2>1. \A m \in Lines : returned[m].quantity \in Nat /\ returned[m].amount \in Int
    BY DEF ReturnsInvariant, LineSound
  <2>2. \A m \in Lines : /\ Repriced(r)[m].quantity \in Nat
                         /\ Repriced(r)[m].amount \in Int
    BY <1>2 DEF StoredRow
  <2>. QED
    BY <1>1, <2>1, <2>2
<1>6. HistorySound'
  <2>1. history \in Seq(Returns) /\ \A i \in DOMAIN history : history[i] # r
    BY <1>1 DEF ReturnsInvariant, HistorySound
  <2>2. /\ history' \in Seq(Returns) /\ DOMAIN history' = 1 .. Len(history) + 1
        /\ DOMAIN history = 1 .. Len(history) /\ Len(history) \in Nat
        /\ \A i \in DOMAIN history : history'[i] = history[i]
        /\ history'[Len(history) + 1] = r
    BY <1>1, <2>1
  <2>3. \A i, j \in DOMAIN history' : history'[i] = history'[j] => i = j
    BY <2>1, <2>2 DEF ReturnsInvariant, HistorySound
  <2>4. ASSUME NEW t \in Returns
        PROVE  retStatus'[t] = "completed" <=> \E i \in DOMAIN history' : history'[i] = t
    <3>1. CASE t = r
      <4>1. retStatus'[t] = "completed"
        BY <1>1, <3>1 DEF ReturnsInvariant, ReturnRowsTyped
      <4>2. Len(history) + 1 \in DOMAIN history'
        BY <2>2
      <4>. QED
        BY <2>2, <3>1, <4>1, <4>2
    <3>2. CASE t # r
      <4>1. retStatus'[t] = retStatus[t]
        BY <1>1, <3>2 DEF ReturnsInvariant, ReturnRowsTyped
      <4>2. retStatus[t] = "completed" <=> \E i \in DOMAIN history : history[i] = t
        BY DEF ReturnsInvariant, HistorySound
      <4>. QED
        BY <2>2, <3>2, <4>1, <4>2
    <3>. QED
      BY <3>1, <3>2
  <2>. QED
    BY <2>2, <2>3, <2>4 DEF HistorySound
<1>7. SoldSound'
  BY <1>1 DEF ReturnsInvariant, SoldSound
<1>. QED
  BY <1>2, <1>4, <1>5, <1>6, <1>7 DEF ReturnsInvariant

(* A status that does not touch completed returns. *)
LEMMA StatusKept ==
    ASSUME ReturnsInvariant, UNCHANGED <<sold, rows, returned, history>>,
           retStatus' \in [Returns -> {"none", "draft", "completed", "cancelled"}],
           \A r \in Returns : retStatus'[r] = "completed" <=> retStatus[r] = "completed"
    PROVE  ReturnsInvariant'
<1>1. \A l \in Lines : PartsOf(l)' = PartsOf(l) /\ Drift(l)' = Drift(l)
  BY DEF PartsOf, Rows, Drift, Total
<1>2. \A l \in Lines : LineSound(l)'
  BY <1>1 DEF ReturnsInvariant, LineSound
<1>3. HistorySound' /\ SoldSound' /\ ReturnRowsTyped'
  BY DEF ReturnsInvariant, HistorySound, SoldSound, ReturnRowsTyped
<1>. QED
  BY <1>2, <1>3 DEF ReturnsInvariant

(* A sale is sold with snapshots that have a total, and nothing is returned yet. *)
LEMMA ReturnsInitially ==
    ASSUME ReturnsInit
    PROVE  ReturnsInvariant
<1>. USE DEF ReturnsInit
<1>1. SoldSound
  BY ReturnsAssumption DEF SoldSound
<1>2. ReturnRowsTyped
  BY DEF ReturnRowsTyped, StoredRow, NoRow
<1>3. HistorySound
  BY DEF HistorySound
<1>4. returned \in [Lines -> [quantity : Nat, amount : Int]]
  BY DEF Nothing
<1>5. ASSUME NEW l \in Lines PROVE LineSound(l)
  <2>1. PartsOf(l) = {}
    BY DEF PartsOf
  <2>2. IsFiniteSet(PartsOf(l)) /\ Cardinality(PartsOf(l)) = 0
    BY <2>1, FS_EmptySet
  <2>3. sold[l].quantity \in Nat \ {0} /\ Total(l) \in Nat
    BY <1>1, TotalTyped DEF SoldSound, Snapshot, Total
  <2>4. returned[l].quantity = 0 /\ returned[l].amount = 0
        /\ returned[l] \in [quantity : Nat, amount : Int]
    BY DEF Nothing
  <2>5. Drift(l) = 0 /\ Cardinality(PartsOf(l)) * sold[l].quantity = 0
    BY <2>2, <2>3, <2>4 DEF Drift
  <2>. QED
    BY <2>2, <2>3, <2>4, <2>5 DEF LineSound
<1>. QED
  BY <1>1, <1>2, <1>3, <1>4, <1>5 DEF ReturnsInvariant

(* The row that a quantity typed beside a line becomes. *)
LEMMA RowPriced ==
    ASSUME ReturnsInvariant, NEW r \in Returns, NEW l \in Lines,
           NEW q \in 0 .. sold[l].quantity, NEW restock \in BOOLEAN,
           SelectQuantity(r, l, q, restock)
    PROVE  ReturnsInvariant'
<1>1. CASE DeleteReturnLine(r, l)
  <2>1. NoRow \in StoredRow
    BY DEF NoRow, StoredRow
  <2>. QED
    BY <1>1, <2>1, RowsWritten DEF DeleteReturnLine
<1>2. CASE Priced(r, l, q, restock)
  <2>1. q \in Nat /\ Amount(l, q) \in Int
    <3>1. SoldSound /\ LineSound(l) /\ sold[l].quantity \in Nat
      BY DEF ReturnsInvariant, SoldSound, Snapshot
    <3>2. q \in Nat /\ Fits(l, q)
      BY <1>2, <3>1 DEF Priced
    <3>. QED
      BY <3>1, <3>2, PartOfLine
  <2>2. [quantity |-> q, amount |-> Amount(l, q), restock |-> restock] \in StoredRow
    BY <2>1 DEF StoredRow
  <2>. QED
    BY <1>2, <2>2, RowsWritten DEF Priced
<1>. QED
  BY <1>1, <1>2 DEF SelectQuantity, UpdateReturnLine, AddReturnLine

(* Every step keeps the invariant. *)
LEMMA ReturnsStep ==
    ASSUME ReturnsInvariant, [ReturnsNext]_returnVars
    PROVE  ReturnsInvariant'
<1>1. ASSUME NEW r \in Returns, CreateReturn(r) \/ CancelReturn(r)
      PROVE  ReturnsInvariant'
  <2>1. /\ UNCHANGED <<sold, rows, returned, history>>
        /\ retStatus[r] \in {"none", "draft"}
        /\ \E to \in {"draft", "cancelled"} : retStatus' = [retStatus EXCEPT ![r] = to]
    BY <1>1 DEF CreateReturn, CancelReturn
  <2>2. /\ retStatus' \in [Returns -> {"none", "draft", "completed", "cancelled"}]
        /\ \A t \in Returns : retStatus'[t] = "completed" <=> retStatus[t] = "completed"
    BY <2>1 DEF ReturnsInvariant, ReturnRowsTyped
  <2>. QED
    BY <2>1, <2>2, StatusKept
<1>2. ASSUME NEW r \in Returns, NEW l \in Lines, NEW q \in 0 .. sold[l].quantity,
             NEW restock \in RestockChoices(l), SelectQuantity(r, l, q, restock)
      PROVE  ReturnsInvariant'
  <2>1. restock \in BOOLEAN
    BY DEF RestockChoices
  <2>. QED
    BY <1>2, <2>1, RowPriced
<1>3. ASSUME NEW r \in Returns, CompleteReturn(r) PROVE ReturnsInvariant'
  BY <1>3, CompletionKept
<1>4. CASE UNCHANGED returnVars
  BY <1>4, StatusKept DEF returnVars, ReturnsInvariant, ReturnRowsTyped
<1>. QED
  BY <1>1, <1>2, <1>3, <1>4 DEF ReturnsNext

(* What a completed return reads to be rectified: its place in the history, and the
   rows of the returns up to it. *)
Kept(r) ==
    /\ CompletedAt(r) \in DOMAIN history /\ DOMAIN history = 1 .. Len(history)
    /\ CompletedAt(r)' = CompletedAt(r) /\ sold' = sold
    /\ \A i \in 1 .. CompletedAt(r) : rows'[history'[i]] = rows[history[i]]

(* No step changes what a completed return reads. *)
LEMMA CompletedKept ==
    ASSUME ReturnsInvariant, [ReturnsNext]_returnVars,
           NEW r \in Returns, retStatus[r] = "completed"
    PROVE  Kept(r)
<1>1. /\ history \in Seq(Returns) /\ DOMAIN history = 1 .. Len(history)
      /\ Len(history) \in Nat
      /\ \A i, j \in DOMAIN history : history[i] = history[j] => i = j
      /\ \A t \in Returns :
             retStatus[t] = "completed" <=> \E i \in DOMAIN history : history[i] = t
  BY DEF ReturnsInvariant, HistorySound
<1>2. PICK at \in DOMAIN history : history[at] = r
  BY <1>1
<1>3. CompletedAt(r) = at
  BY <1>1, <1>2 DEF CompletedAt
<1>4. SUFFICES /\ sold' = sold /\ CompletedAt(r)' = at
               /\ \A i \in 1 .. at : rows'[history'[i]] = rows[history[i]]
  BY <1>1, <1>2, <1>3 DEF Kept
<1>5. CASE history' = history /\ sold' = sold
           /\ \A t \in Returns : retStatus[t] = "completed" => rows'[t] = rows[t]
  <2>1. CompletedAt(r)' = at
    BY <1>3, <1>5 DEF CompletedAt
  <2>. QED
    BY <1>1, <1>2, <1>5, <2>1
<1>6. ASSUME NEW t \in Returns, CompleteReturn(t)
      PROVE  /\ sold' = sold /\ CompletedAt(r)' = at
             /\ \A i \in 1 .. at : rows'[history'[i]] = rows[history[i]]
  <2>1. /\ retStatus[t] = "draft" /\ sold' = sold
        /\ rows' = [rows EXCEPT ![t] = Repriced(t)] /\ history' = Append(history, t)
    BY <1>6 DEF CompleteReturn, Completable
  <2>2. /\ DOMAIN history' = 1 .. Len(history) + 1
        /\ \A i \in DOMAIN history : history'[i] = history[i]
        /\ history'[Len(history) + 1] = t
    BY <1>1, <2>1
  <2>3. t # r
    BY <2>1
  <2>4. \A i \in DOMAIN history' : history'[i] = r <=> i = at
    BY <1>1, <1>2, <2>2, <2>3
  <2>5. CompletedAt(r)' = at /\ at \in DOMAIN history'
    BY <1>1, <1>2, <2>2, <2>4 DEF CompletedAt
  <2>6. ASSUME NEW i \in 1 .. at PROVE rows'[history'[i]] = rows[history[i]]
    <3>1. i \in DOMAIN history /\ history[i] \in Returns
      BY <1>1, <1>2
    <3>2. history[i] # t
      BY <1>1, <2>1, <3>1
    <3>. QED
      BY <2>1, <2>2, <3>1, <3>2 DEF ReturnsInvariant, ReturnRowsTyped
  <2>. QED
    BY <2>1, <2>5, <2>6
<1>7. ASSUME NEW t \in Returns, NEW l \in Lines, NEW row, retStatus[t] = "draft",
             SetRow(t, l, row)
      PROVE  history' = history /\ sold' = sold
             /\ \A u \in Returns : retStatus[u] = "completed" => rows'[u] = rows[u]
  BY <1>7 DEF SetRow, ReturnsInvariant, ReturnRowsTyped
<1>8. ASSUME NEW t \in Returns, NEW l \in Lines, NEW q \in 0 .. sold[l].quantity,
             NEW restock \in RestockChoices(l), SelectQuantity(t, l, q, restock)
      PROVE  history' = history /\ sold' = sold
             /\ \A u \in Returns : retStatus[u] = "completed" => rows'[u] = rows[u]
  BY <1>7, <1>8 DEF SelectQuantity, DeleteReturnLine, UpdateReturnLine, AddReturnLine,
                   Priced
<1>9. ASSUME NEW t \in Returns, CreateReturn(t) \/ CancelReturn(t)
      PROVE  history' = history /\ sold' = sold /\ rows' = rows
  BY <1>9 DEF CreateReturn, CancelReturn
<1>10. CASE UNCHANGED returnVars
  BY <1>5, <1>10 DEF returnVars
<1>. QED
  BY <1>5, <1>6, <1>8, <1>9, <1>10 DEF ReturnsNext

(* What does not change is split in the same way. *)
LEMMA AllocationKept ==
    ASSUME NEW r \in Returns, Kept(r), NEW l \in Lines
    PROVE  Allocation(l, r)' = Allocation(l, r)
<1>. DEFINE read == [i \in 1 .. CompletedAt(r) |-> rows[history[i]][l]]
<1>1. read' = read
  BY DEF Kept
<1>2. RowsUpTo(l, r) = read
  BY DEF RowsUpTo
<1>3. RowsUpTo(l, r)' = read'
  BY DEF RowsUpTo
<1>4. RowsUpTo(l, r)' = RowsUpTo(l, r)
  BY <1>1, <1>2, <1>3
<1>. QED
  BY <1>4 DEF Kept, Allocation

(* The invariant holds in every behaviour. *)
THEOREM ReturnsAlways == ReturnsSpec => []ReturnsInvariant
<1>1. ReturnsInit => ReturnsInvariant
  BY ReturnsInitially
<1>2. ReturnsInvariant /\ [ReturnsNext]_returnVars => ReturnsInvariant'
  BY ReturnsStep
<1>. QED
  BY <1>1, <1>2, PTL DEF ReturnsSpec

(* The amounts that a line gave back differ from its share by half a cent for each
   part at most, and not at all once it came back whole. *)
THEOREM DriftBounded == ReturnsSpec => []RoundingDrift
<1>1. ReturnsInvariant => RoundingDrift
  BY DEF ReturnsInvariant, LineSound, Drift, RoundingDrift
<1>. QED
  BY <1>1, ReturnsAlways, PTL

(* The part of a document that rectifies a completed return is fixed when it is
   completed, whatever is returned afterwards. *)
THEOREM AllocationFixed == ReturnsSpec => StableAllocation
<1>1. ReturnsInvariant /\ [ReturnsNext]_returnVars =>
          [CompletedRows' # CompletedRows =>
               \A l \in Lines : \A r \in PartsOf(l) :
                   Allocation(l, r)' = Allocation(l, r)]_returnVars
  BY CompletedKept, AllocationKept DEF PartsOf
<1>. QED
  BY <1>1, ReturnsAlways, PTL DEF ReturnsSpec, StableAllocation
-------------------------------------------------------------------------------
(* What the sums over rows add: amounts and totals are natural numbers, the stock
   that came back is that of the completed rows, and the sale is returned exactly
   when nothing of it is left. *)
RestockSound(l) ==
    /\ IsFiniteSet(Units(RestockedBy(l)))
    /\ restocked[l] = UnitSum(RestockedBy(l))

RestockInvariant ==
    /\ restocked \in [Lines -> Nat]
    /\ \A l \in Lines : RestockSound(l)

AmountsTyped ==
    /\ retTotal \in [Returns -> Nat]
    /\ \A r \in Returns : \A l \in Lines : rows[r][l].amount \in Nat
    /\ \A l \in Lines : returned[l].amount \in Nat

StatusInvariant ==
    /\ saleStatus \in {"completed", "returned"}
    /\ saleStatus = "returned" <=> Returnable = {}
    /\ \A l \in Lines : sold[l] \in SoldAs[l]

TotalsInvariant == RestockInvariant /\ AmountsTyped /\ StatusInvariant

LEMMA RestockedTyped ==
    ASSUME ReturnsInvariant, NEW l \in Lines
    PROVE  RestockedBy(l) \in [Returns -> Nat]
BY DEF RestockedBy, ReturnsInvariant, ReturnRowsTyped, StoredRow

(* The total of a return is the sum of natural numbers. *)
LEMMA TotalOfRows ==
    ASSUME NEW row, \A l \in Lines : row[l].amount \in Nat
    PROVE  SumOfRows(row) \in Nat
<1>1. [l \in Lines |-> row[l].amount] \in [Lines -> Nat]
  OBVIOUS
<1>. QED
  BY <1>1, SumTyped, ReturnsAssumption DEF SumOfRows

(* The parts of a line that is left as it was keep what came back of it. *)
LEMMA RestockKept ==
    ASSUME RestockInvariant, restocked' = restocked,
           \A r \in Returns : retStatus'[r] = "completed" <=> retStatus[r] = "completed",
           \A r \in Returns : retStatus[r] = "completed" => rows'[r] = rows[r]
    PROVE  RestockInvariant'
<1>1. ASSUME NEW l \in Lines PROVE RestockSound(l)'
  <2>1. RestockedBy(l)' = RestockedBy(l)
    BY DEF RestockedBy, PartsOf, Rows
  <2>. QED
    BY <2>1 DEF RestockInvariant, RestockSound
<1>. QED
  BY <1>1 DEF RestockInvariant

(* A completed return adds its marked pieces to the stock. *)
LEMMA RestockCompleted ==
    ASSUME ReturnsInvariant, ReturnsInvariant', RestockInvariant,
           NEW r \in Returns, CompleteReturn(r), NEW l \in Lines
    PROVE  restocked'[l] \in Nat /\ RestockSound(l)'
<1>. DEFINE f == RestockedBy(l)
            g == RestockedBy(l)'
            marked == rows[r][l].restock /\ l \in Tracked
<1>1. /\ retStatus[r] = "draft"
      /\ retStatus' = [retStatus EXCEPT ![r] = "completed"]
      /\ rows' = [rows EXCEPT ![r] = Repriced(r)]
      /\ restocked' = [m \in Lines |-> IF rows[r][m].restock /\ m \in Tracked
                            THEN restocked[m] + rows[r][m].quantity ELSE restocked[m]]
  BY DEF CompleteReturn, Completable, Restock
<1>2. f \in [Returns -> Nat]
  BY RestockedTyped
<1>3. g \in [Returns -> Nat]
  BY DEF RestockedBy, ReturnsInvariant, ReturnRowsTyped, StoredRow
<1>4. ASSUME NEW t \in Returns \ {r} PROVE g[t] = f[t]
  BY <1>1 DEF RestockedBy, PartsOf, Rows, ReturnsInvariant, ReturnRowsTyped
<1>5. f[r] = 0
  BY <1>1 DEF RestockedBy, PartsOf
<1>6. rows[r][l] \in StoredRow /\ rows[r][l].quantity \in Nat
      /\ rows[r][l].restock \in BOOLEAN
  BY DEF ReturnsInvariant, ReturnRowsTyped, StoredRow
<1>7. g[r] = IF marked THEN rows[r][l].quantity ELSE 0
  <2>1. rows'[r][l] = Repriced(r)[l] /\ retStatus'[r] = "completed"
    BY <1>1 DEF ReturnsInvariant, ReturnRowsTyped
  <2>2. CASE rows[r][l].quantity > 0
    <3>1. /\ Repriced(r)[l].quantity = rows[r][l].quantity
          /\ Repriced(r)[l].restock = rows[r][l].restock
      BY <1>6, <2>2 DEF Repriced, Rows, StoredRow
    <3>. QED
      BY <1>6, <2>1, <2>2, <3>1 DEF RestockedBy, PartsOf, Rows
  <2>3. CASE rows[r][l].quantity = 0
    <3>1. Repriced(r)[l] = NoRow
      BY <2>3 DEF Repriced, Rows
    <3>2. g[r] = 0
      BY <2>1, <3>1 DEF RestockedBy, NoRow
    <3>. QED
      BY <2>3, <3>2
  <2>. QED
    BY <1>6, <2>2, <2>3
<1>8. /\ IsFiniteSet(Units(f)) /\ restocked[l] = UnitSum(f) /\ restocked[l] \in Nat
  BY DEF RestockInvariant, RestockSound
<1>. HIDE DEF f, g
<1>9. /\ IsFiniteSet(Units(g)) /\ UnitSum(g) \in Nat
      /\ UnitSum(g) = UnitSum(f) - f[r] + g[r]
  BY <1>2, <1>3, <1>4, <1>8, SumChange
<1>10. restocked'[l] = IF marked THEN restocked[l] + rows[r][l].quantity ELSE restocked[l]
  BY <1>1
<1>11. restocked'[l] = UnitSum(g)
  <2>1. CASE marked
    BY <1>5, <1>6, <1>7, <1>8, <1>9, <1>10, <2>1
  <2>2. CASE ~marked
    BY <1>5, <1>6, <1>7, <1>8, <1>9, <1>10, <2>2
  <2>. QED
    BY <2>1, <2>2
<1>. QED
  BY <1>9, <1>11 DEF g, RestockSound

(* Prices that pass the checks of a row are natural numbers. *)
LEMMA AmountsCompleted ==
    ASSUME ReturnsInvariant, AmountsTyped, NEW r \in Returns, CompleteReturn(r)
    PROVE  AmountsTyped'
<1>1. /\ rows' = [rows EXCEPT ![r] = Repriced(r)]
      /\ retTotal' = [retTotal EXCEPT ![r] = SumOfRows(Repriced(r))]
      /\ returned' = [m \in Lines |->
             [quantity |-> returned[m].quantity + Repriced(r)[m].quantity,
              amount |-> returned[m].amount + Repriced(r)[m].amount]]
      /\ \A m \in Rows(r) : RowOK(m, rows[r][m].quantity, Repriced(r)[m].amount)
  BY DEF CompleteReturn, Completable
<1>2. ASSUME NEW l \in Lines PROVE Repriced(r)[l].amount \in Nat
  <2>1. CASE l \in Rows(r)
    <3>1. Repriced(r)[l].amount >= 0
      BY <1>1, <2>1 DEF RowOK
    <3>2. Repriced(r)[l] \in StoredRow
      BY LineCompleted
    <3>. QED
      BY <3>1, <3>2 DEF StoredRow
  <2>2. CASE l \notin Rows(r)
    BY <2>2 DEF Repriced, NoRow
  <2>. QED
    BY <2>1, <2>2
<1>3. retTotal' \in [Returns -> Nat]
  BY <1>1, <1>2, TotalOfRows DEF AmountsTyped
<1>4. ASSUME NEW t \in Returns, NEW l \in Lines PROVE rows'[t][l].amount \in Nat
  BY <1>1, <1>2 DEF AmountsTyped, ReturnsInvariant, ReturnRowsTyped
<1>5. ASSUME NEW l \in Lines PROVE returned'[l].amount \in Nat
  BY <1>1, <1>2 DEF AmountsTyped
<1>. QED
  BY <1>3, <1>4, <1>5 DEF AmountsTyped

LEMMA AmountsWritten ==
    ASSUME ReturnsInvariant, AmountsTyped, NEW r \in Returns, NEW l \in Lines,
           NEW row, row.amount \in Nat, SetRow(r, l, row)
    PROVE  AmountsTyped'
<1>1. /\ rows' = [rows EXCEPT ![r] = [rows[r] EXCEPT ![l] = row]]
      /\ retTotal' = [retTotal EXCEPT ![r] = SumOfRows(rows'[r])]
      /\ returned' = returned
  BY DEF SetRow, ReturnsInvariant, ReturnRowsTyped
<1>2. ASSUME NEW t \in Returns, NEW m \in Lines PROVE rows'[t][m].amount \in Nat
  BY <1>1 DEF AmountsTyped, ReturnsInvariant, ReturnRowsTyped
<1>3. retTotal' \in [Returns -> Nat]
  <2>1. SumOfRows(rows'[r]) \in Nat
    BY <1>2, TotalOfRows
  <2>. QED
    BY <1>1, <2>1 DEF AmountsTyped
<1>. QED
  BY <1>1, <1>2, <1>3 DEF AmountsTyped

(* The sale is returned when the last piece is. *)
LEMMA StatusCompleted ==
    ASSUME ReturnsInvariant, ReturnsInvariant', StatusInvariant,
           NEW r \in Returns, CompleteReturn(r)
    PROVE  StatusInvariant'
<1>1. /\ sold' = sold
      /\ returned' = [m \in Lines |->
             [quantity |-> returned[m].quantity + Repriced(r)[m].quantity,
              amount |-> returned[m].amount + Repriced(r)[m].amount]]
      /\ saleStatus' = IF FullyReturned(returned') THEN "returned" ELSE "completed"
  BY DEF CompleteReturn
<1>2. \A l \in Lines : /\ sold[l].quantity \in Nat /\ returned'[l].quantity \in Nat
                       /\ returned'[l].quantity <= sold[l].quantity
  BY <1>1 DEF ReturnsInvariant, SoldSound, Snapshot, LineSound
<1>3. FullyReturned(returned') <=> Returnable' = {}
  <2>1. ASSUME NEW l \in Lines
        PROVE  ~(RemainingQuantity(l)' > 0) <=> returned'[l].quantity >= sold[l].quantity
    <3>1. RemainingQuantity(l)' = sold[l].quantity - returned'[l].quantity
      BY <1>1 DEF RemainingQuantity
    <3>. QED
      BY <1>2, <3>1
  <2>2. Returnable' = {} <=> \A l \in Lines : ~(RemainingQuantity(l)' > 0)
    BY DEF Returnable, RemainingQuantity
  <2>3. FullyReturned(returned')
          <=> \A l \in Lines : returned'[l].quantity >= sold[l].quantity
    BY DEF FullyReturned
  <2>. QED
    BY <2>1, <2>2, <2>3
<1>. QED
  BY <1>1, <1>3 DEF StatusInvariant

(* The rest of the invariant holds initially, and every step keeps it. *)
LEMMA TotalsInitially ==
    ASSUME ReturnsInit, ReturnsInvariant
    PROVE  TotalsInvariant
<1>. USE DEF ReturnsInit
<1>1. AmountsTyped
  BY DEF AmountsTyped, NoRow, Nothing
<1>2. ASSUME NEW l \in Lines PROVE RestockSound(l)
  <2>1. RestockedBy(l) \in [Returns -> Nat] /\ \A r \in Returns : RestockedBy(l)[r] = 0
    BY RestockedTyped DEF RestockedBy, PartsOf
  <2>. QED
    BY <2>1, SumOfZeros DEF RestockSound
<1>3. Returnable # {}
  <2>1. PICK l \in Lines : TRUE
    BY ReturnsAssumption
  <2>2. sold[l].quantity \in Nat \ {0} /\ returned[l].quantity = 0
    BY DEF ReturnsInvariant, SoldSound, Snapshot, Nothing
  <2>. QED
    BY <2>2 DEF Returnable, RemainingQuantity
<1>. QED
  BY <1>1, <1>2, <1>3 DEF TotalsInvariant, RestockInvariant, StatusInvariant

LEMMA TotalsStep ==
    ASSUME ReturnsInvariant, ReturnsInvariant', TotalsInvariant,
           [ReturnsNext]_returnVars
    PROVE  TotalsInvariant'
<1>. USE DEF TotalsInvariant
<1>1. ASSUME UNCHANGED <<sold, saleStatus, returned, restocked>>,
             \A r \in Returns : retStatus'[r] = "completed" <=> retStatus[r] = "completed",
             \A r \in Returns : retStatus[r] = "completed" => rows'[r] = rows[r]
      PROVE  RestockInvariant' /\ StatusInvariant'
  BY <1>1, RestockKept DEF StatusInvariant, Returnable, RemainingQuantity
<1>2. ASSUME NEW r \in Returns, CreateReturn(r) \/ CancelReturn(r)
      PROVE  TotalsInvariant'
  <2>1. /\ UNCHANGED <<sold, saleStatus, retTotal, rows, returned, restocked>>
        /\ retStatus[r] \in {"none", "draft"}
        /\ \E to \in {"draft", "cancelled"} : retStatus' = [retStatus EXCEPT ![r] = to]
    BY <1>2 DEF CreateReturn, CancelReturn
  <2>2. \A t \in Returns : retStatus'[t] = "completed" <=> retStatus[t] = "completed"
    BY <2>1 DEF ReturnsInvariant, ReturnRowsTyped
  <2>. QED
    BY <1>1, <2>1, <2>2 DEF AmountsTyped
<1>3. ASSUME NEW r \in Returns, NEW l \in Lines, NEW row, row.amount \in Nat,
             retStatus[r] = "draft", SetRow(r, l, row)
      PROVE  TotalsInvariant'
  <2>1. AmountsTyped'
    BY <1>3, AmountsWritten
  <2>2. /\ UNCHANGED <<sold, saleStatus, retStatus, returned, restocked>>
        /\ \A t \in Returns \ {r} : rows'[t] = rows[t]
    BY <1>3 DEF SetRow, ReturnsInvariant, ReturnRowsTyped
  <2>. QED
    BY <1>1, <1>3, <2>1, <2>2
<1>4. ASSUME NEW r \in Returns, NEW l \in Lines, NEW q \in 0 .. sold[l].quantity,
             NEW restock \in RestockChoices(l), SelectQuantity(r, l, q, restock)
      PROVE  TotalsInvariant'
  <2>1. CASE DeleteReturnLine(r, l)
    BY <1>3, <2>1 DEF DeleteReturnLine, NoRow
  <2>2. CASE Priced(r, l, q, restock)
    <3>1. /\ retStatus[r] = "draft" /\ Fits(l, q) /\ RowOK(l, q, Amount(l, q))
          /\ SetRow(r, l, [quantity |-> q, amount |-> Amount(l, q), restock |-> restock])
      BY <2>2 DEF Priced
    <3>2. SoldSound /\ LineSound(l) /\ sold[l].quantity \in Nat
      BY DEF ReturnsInvariant, SoldSound, Snapshot
    <3>3. Amount(l, q) \in Int
      BY <3>1, <3>2, PartOfLine
    <3>4. Amount(l, q) \in Nat
      BY <3>1, <3>3 DEF RowOK
    <3>. QED
      BY <1>3, <3>1, <3>4
  <2>. QED
    BY <1>4, <2>1, <2>2 DEF SelectQuantity, UpdateReturnLine, AddReturnLine
<1>5. ASSUME NEW r \in Returns, CompleteReturn(r) PROVE TotalsInvariant'
  <2>1. \A l \in Lines : restocked'[l] \in Nat /\ RestockSound(l)'
    BY <1>5, RestockCompleted
  <2>2. RestockInvariant'
    BY <1>5, <2>1 DEF RestockInvariant, CompleteReturn, Restock
  <2>. QED
    BY <1>5, <2>2, AmountsCompleted, StatusCompleted
<1>6. CASE UNCHANGED returnVars
  BY <1>1, <1>6 DEF returnVars, AmountsTyped
<1>. QED
  BY <1>2, <1>4, <1>5, <1>6 DEF ReturnsNext

THEOREM TotalsAlways == ReturnsSpec => []TotalsInvariant
<1>1. ReturnsInit /\ ReturnsInvariant => TotalsInvariant
  BY TotalsInitially
<1>2. ReturnsInvariant /\ ReturnsInvariant' /\ TotalsInvariant
      /\ [ReturnsNext]_returnVars => TotalsInvariant'
  BY TotalsStep
<1>. QED
  BY <1>1, <1>2, ReturnsAlways, PTL DEF ReturnsSpec

(* Every variable keeps to what its field stores: no rounding makes an amount or
   a total negative. *)
THEOREM ReturnsTyped == ReturnsSpec => []ReturnsTypeOK
<1>1. ReturnsInvariant /\ TotalsInvariant => ReturnsTypeOK
  <2>. SUFFICES ASSUME ReturnsInvariant, TotalsInvariant PROVE ReturnsTypeOK
    OBVIOUS
  <2>2. rows \in [Returns -> [Lines -> [quantity : Nat, amount : Nat, restock : BOOLEAN]]]
    <3>1. ASSUME NEW r \in Returns, NEW l \in Lines
          PROVE  rows[r][l] \in [quantity : Nat, amount : Nat, restock : BOOLEAN]
      <4>1. rows[r][l] \in StoredRow /\ rows[r][l].amount \in Nat
        BY DEF ReturnsInvariant, ReturnRowsTyped, TotalsInvariant, AmountsTyped
      <4>. QED
        BY <4>1 DEF StoredRow
    <3>. QED
      BY <3>1 DEF ReturnsInvariant, ReturnRowsTyped
  <2>3. returned \in [Lines -> [quantity : Nat, amount : Nat]]
    <3>1. ASSUME NEW l \in Lines PROVE returned[l] \in [quantity : Nat, amount : Nat]
      <4>1. returned[l] \in [quantity : Nat, amount : Int] /\ returned[l].amount \in Nat
        BY DEF ReturnsInvariant, TotalsInvariant, AmountsTyped
      <4>. QED
        BY <4>1
    <3>. QED
      BY <3>1 DEF ReturnsInvariant
  <2>. QED
    BY <2>2, <2>3 DEF ReturnsTypeOK, ReturnsInvariant, ReturnRowsTyped, HistorySound,
                      TotalsInvariant, AmountsTyped, StatusInvariant, RestockInvariant
<1>. QED
  BY <1>1, ReturnsAlways, TotalsAlways, PTL

(* Drafts completed in any order return no more than was sold, put back the pieces
   marked in completed rows and no others, and leave the sale returned exactly when
   nothing of it is left. *)
THEOREM ReturnedWithinSold == ReturnsSpec => []WithinSold
<1>1. ReturnsInvariant /\ TotalsInvariant => WithinSold
  BY DEF ReturnsInvariant, LineSound, TotalsInvariant, RestockInvariant, RestockSound,
         StatusInvariant, WithinSold
<1>. QED
  BY <1>1, ReturnsAlways, TotalsAlways, PTL
-------------------------------------------------------------------------------
(* The split of a sold line over the returns that gave it back.  The code does not
   remember the parts: it finds them again from the rows, in the order of completion.
   A row has at most one part, a part leaves no negative amount, and the part that
   takes the rest of the quantity takes the rest of every amount; so the parts and
   what is left always add up to the line. *)
Amounts == [quantity : Int, gross : Int, discount : Int, taxable : Int, tax : Int,
            total : Int]
Kinds == {"quantity", "gross", "discount", "taxable", "tax", "total"}

(* The amounts of a sold line are natural numbers. *)
LEMMA WholeTyped ==
    ASSUME NEW s \in Snapshot, Sellable(s)
    PROVE  /\ Whole(s) \in Amounts /\ DOMAIN Whole(s) = Kinds
           /\ \A field \in Kinds : Whole(s)[field] \in Nat
           /\ Whole(s).quantity = s.quantity
<1>1. /\ s.quantity \in Nat /\ s.unit \in Nat /\ s.discount \in Nat /\ s.rate \in Nat
      /\ s.unit * s.quantity \in Nat
  BY DEF Snapshot
<1>2. Gross(s, s.quantity) \in Nat
  BY <1>1, Rounding, ReturnsAssumption DEF Gross
<1>. DEFINE base == Gross(s, s.quantity) - s.discount
<1>3. base \in Nat /\ base * s.rate \in Nat
  BY <1>1, <1>2 DEF Sellable
<1>4. TaxOf(base, s.rate) \in Nat
  BY <1>3, Rounding DEF TaxOf
<1>5. Whole(s) = [quantity |-> s.quantity, gross |-> Gross(s, s.quantity),
                  discount |-> s.discount, taxable |-> base,
                  tax |-> TaxOf(base, s.rate), total |-> base + TaxOf(base, s.rate)]
  BY DEF Whole, Fiscal
<1>. HIDE DEF base
<1>6. base + TaxOf(base, s.rate) \in Nat
  BY <1>3, <1>4
<1>. QED
  BY <1>1, <1>2, <1>3, <1>4, <1>5, <1>6 DEF Amounts, Kinds

(* A share of a line: its base is one that the remainder and the amount allow. *)
LEMMA ShareMeans ==
    ASSUME NEW s \in Snapshot, NEW rest \in Amounts, NEW row \in StoredRow,
           NEW part \in Share(s, rest, row)
    PROVE  /\ part \in Amounts
           /\ part.quantity = row.quantity /\ part.total = row.amount
           /\ part.gross \in Nat
           /\ part.taxable \in Nat /\ part.taxable <= rest.taxable
           /\ part.tax \in Nat /\ part.tax <= rest.tax
<1>1. PICK b \in Nearest(s, Bases(s, rest, row), row) : part = SharePart(s, b, row)
  BY DEF Share
<1>2. b \in Bases(s, rest, row)
  BY DEF Nearest
<1>3. b \in Nat /\ b <= rest.taxable /\ TaxOf(b, s.rate) <= rest.tax
  BY <1>2 DEF Bases
<1>4. s.unit \in Nat /\ s.rate \in Nat /\ row.quantity \in Nat /\ row.amount \in Int
  BY DEF Snapshot, StoredRow
<1>5. s.unit * row.quantity \in Nat /\ b * s.rate \in Nat
  BY <1>3, <1>4
<1>6. Gross(s, row.quantity) \in Nat /\ TaxOf(b, s.rate) \in Nat
  BY <1>5, Rounding, ReturnsAssumption DEF Gross, TaxOf
<1>7. part = [quantity |-> row.quantity, gross |-> Gross(s, row.quantity),
              discount |-> Gross(s, row.quantity) - b, taxable |-> b,
              tax |-> TaxOf(b, s.rate), total |-> row.amount]
  BY <1>1 DEF SharePart
<1>8. Gross(s, row.quantity) - b \in Int
  BY <1>3, <1>6
<1>. QED
  BY <1>3, <1>4, <1>6, <1>7, <1>8 DEF Amounts

(* Only one base is the nearest. *)
LEMMA ShareIsOne ==
    ASSUME NEW s \in Snapshot, Sellable(s), NEW rest, NEW row \in StoredRow,
           NEW p \in Share(s, rest, row), NEW q \in Share(s, rest, row)
    PROVE  p = q
<1>. DEFINE B == Bases(s, rest, row)
            share == Fiscal(s).taxable * row.quantity
            away == [b \in B |-> IF b * s.quantity < share THEN share - b * s.quantity
                                                           ELSE b * s.quantity - share]
<1>1. PICK b \in Nearest(s, B, row) : p = SharePart(s, b, row)
  BY DEF Share
<1>2. PICK c \in Nearest(s, B, row) : q = SharePart(s, c, row)
  BY DEF Share
<1>3. \A x \in Nearest(s, B, row) :
          /\ x \in B
          /\ \A y \in B : away[x] < away[y] \/ (away[x] = away[y] /\ x <= y)
  BY DEF Nearest
<1>4. s.quantity \in Nat /\ Fiscal(s).taxable \in Int
  <2>1. Whole(s) \in Amounts /\ Whole(s).taxable = Fiscal(s).taxable
    BY WholeTyped DEF Whole
  <2>. QED
    BY <2>1 DEF Amounts, Snapshot
<1>5. share \in Int
  BY <1>4 DEF StoredRow
<1>. HIDE DEF share
<1>6. \A x \in B : x \in Nat /\ x * s.quantity \in Int
  BY <1>4 DEF Bases
<1>7. \A x \in B : away[x] \in Int
  BY <1>5, <1>6
<1>. HIDE DEF away, B
<1>8. b = c
  BY <1>1, <1>2, <1>3, <1>6, <1>7
<1>. QED
  BY <1>1, <1>2, <1>8

(* The part of a row, and what it leaves. *)
PartOfRow(part, rest, row) ==
    /\ part \in Amounts
    /\ \A field \in Kinds : part[field] \in Nat /\ part[field] <= rest[field]
    /\ part.quantity = row.quantity
    /\ row.quantity = rest.quantity => part = rest

(* A part takes from no amount more than is left of it. *)
LEMMA PartMeans ==
    ASSUME NEW s \in Snapshot, NEW rest \in Amounts,
           \A field \in Kinds : rest[field] \in Nat,
           NEW row \in StoredRow, row.amount \in Nat, NEW part \in Part(s, rest, row)
    PROVE  PartOfRow(part, rest, row)
<1>1. CASE part \in LastPart(s, rest, row)
  BY <1>1 DEF LastPart, PartOfRow, Amounts, Kinds
<1>2. CASE part \notin LastPart(s, rest, row)
  <2>1. /\ part \in Share(s, rest, row) /\ row.quantity < rest.quantity
        /\ part.discount \in 0 .. rest.discount /\ part.gross <= rest.gross
        /\ part.total <= rest.total
    BY <1>2 DEF Part
  <2>2. /\ part \in Amounts
        /\ part.quantity = row.quantity /\ part.total = row.amount
        /\ part.gross \in Nat
        /\ part.taxable \in Nat /\ part.taxable <= rest.taxable
        /\ part.tax \in Nat /\ part.tax <= rest.tax
    BY <2>1, ShareMeans
  <2>3. row.quantity \in Nat /\ rest.quantity \in Nat /\ part.discount \in Nat
        /\ part.discount <= rest.discount
    BY <2>1 DEF StoredRow, Kinds
  <2>. QED
    BY <2>1, <2>2, <2>3 DEF PartOfRow, Kinds
<1>. QED
  BY <1>1, <1>2

(* The search for a base never leaves a choice of two parts. *)
LEMMA PartIsOne ==
    ASSUME NEW s \in Snapshot, Sellable(s), NEW rest \in Amounts, NEW row \in StoredRow,
           NEW p \in Part(s, rest, row), NEW q \in Part(s, rest, row)
    PROVE  p = q
<1>1. CASE row.quantity = rest.quantity
  <2>1. ~(row.quantity < rest.quantity)
    BY <1>1 DEF Amounts
  <2>2. p \in LastPart(s, rest, row) /\ q \in LastPart(s, rest, row)
    BY <2>1 DEF Part
  <2>. QED
    BY <2>2 DEF LastPart
<1>2. CASE row.quantity # rest.quantity
  <2>1. p \in Share(s, rest, row) /\ q \in Share(s, rest, row)
    BY <1>2 DEF Part, LastPart
  <2>. QED
    BY <2>1, ShareIsOne
<1>. QED
  BY <1>1, <1>2

(* Every part has amounts in cents, so has what it leaves. *)
LEMMA AfterTyped ==
    ASSUME NEW s \in Snapshot, NEW rest \in SUBSET Amounts, NEW row \in StoredRow
    PROVE  After(s, rest, row) \in SUBSET Amounts
<1>1. ASSUME NEW left \in rest, NEW part \in Part(s, left, row)
      PROVE  Less(left, part) \in Amounts
  <2>1. left \in Amounts
    OBVIOUS
  <2>2. part \in Amounts
    <3>1. part \in LastPart(s, left, row) \/ part \in Share(s, left, row)
      BY DEF Part
    <3>2. part \in LastPart(s, left, row) => part = left
      BY DEF LastPart
    <3>. QED
      BY <2>1, <3>1, <3>2, ShareMeans
  <2>. QED
    BY <2>1, <2>2 DEF Less, Amounts
<1>. QED
  BY <1>1 DEF After

(* f is what the rows leave of a line, one after another. *)
Leaves(f, s, row, n) ==
    /\ f \in [0 .. n -> SUBSET Amounts]
    /\ f[0] = {Whole(s)} /\ \A k \in 1 .. n : f[k] = After(s, f[k - 1], row[k])

(* There is such a function. *)
LEMMA LeavesExists ==
    ASSUME NEW s \in Snapshot, Sellable(s), NEW n \in Nat, NEW row,
           \A k \in 1 .. n : row[k] \in StoredRow
    PROVE  \E f : Leaves(f, s, row, n)
<1>. DEFINE T == SUBSET Amounts
            g == [k \in 1 .. n |-> [rest \in T |-> After(s, rest, row[k])]]
<1>1. {Whole(s)} \in T
  BY WholeTyped
<1>2. g \in [1 .. n -> [T -> T]]
  <2>1. \A k \in 1 .. n : \A rest \in T : After(s, rest, row[k]) \in T
    BY AfterTyped
  <2>. HIDE DEF T
  <2>. QED
    BY <2>1
<1>. HIDE DEF T, g
<1>3. PICK f : Solves(f, T, {Whole(s)}, n, g)
  <2>1. Recursion(T, {Whole(s)}, n, g)
    BY <1>1, <1>2 DEF Recursion
  <2>. QED
    BY <2>1, RecursionSolved, Zenon
<1>4. f \in [0 .. n -> T] /\ f[0] = {Whole(s)}
      /\ \A k \in 1 .. n : f[k] = g[k][f[k - 1]]
  BY <1>3 DEF Solves
<1>5. ASSUME NEW k \in 1 .. n PROVE f[k] = After(s, f[k - 1], row[k])
  <2>1. k - 1 \in 0 .. n
    OBVIOUS
  <2>2. f[k - 1] \in T /\ f[k] = g[k][f[k - 1]]
    BY <1>4, <2>1
  <2>. QED
    BY <2>2 DEF g
<1>. QED
  BY <1>4, <1>5 DEF Leaves, T

(* The definition by recursion is that function. *)
LEMMA RemainderFollows ==
    ASSUME NEW s, NEW n \in Nat, NEW row, NEW f, Leaves(f, s, row, n)
    PROVE  Remainder(s, row, n) = f[n]
<1>. DEFINE Step(h) == [i \in 0 .. n |-> IF i = 0 THEN {Whole(s)}
                                         ELSE After(s, h[i - 1], row[i])]
            rest == CHOOSE h : h = Step(h)
<1>1. f = Step(f)
  <2>1. ASSUME NEW i \in 0 .. n PROVE f[i] = Step(f)[i]
    <3>1. CASE i = 0
      BY <3>1 DEF Leaves
    <3>2. CASE i # 0
      <4>1. i \in 1 .. n
        BY <3>2
      <4>. QED
        BY <3>2, <4>1 DEF Leaves
    <3>. QED
      BY <3>1, <3>2
  <2>2. f = [i \in 0 .. n |-> f[i]]
    BY DEF Leaves
  <2>. QED
    BY <2>1, <2>2
<1>2. rest = Step(rest)
  <2>. HIDE DEF Step
  <2>. QED
    BY <1>1, Zenon
<1>3. Remainder(s, row, n) = rest[n]
  BY Zenon DEF Remainder
<1>. HIDE DEF rest
<1>4. rest[0] = {Whole(s)} /\ \A i \in 1 .. n : rest[i] = After(s, rest[i - 1], row[i])
  <2>1. 0 \in 0 .. n /\ \A i \in 1 .. n : i \in 0 .. n /\ i # 0
    OBVIOUS
  <2>2. \A i \in 0 .. n : rest[i] = IF i = 0 THEN {Whole(s)}
                                    ELSE After(s, rest[i - 1], row[i])
    BY <1>2
  <2>. QED
    BY <2>1, <2>2
<1>. DEFINE C == {i \in 0 .. n : rest[i] = f[i]}
<1>5. 0 \in C
  <2>1. 0 \in 0 .. n
    OBVIOUS
  <2>2. f[0] = {Whole(s)}
    BY DEF Leaves
  <2>. QED
    BY <1>4, <2>1, <2>2
<1>6. ASSUME NEW i \in 1 .. n, i - 1 \in C PROVE i \in C
  BY <1>4, <1>6 DEF Leaves
<1>7. n \in C
  <2>. HIDE DEF C
  <2>1. 0 .. n \subseteq C
    BY <1>5, <1>6, InductionUpTo
  <2>. QED
    BY <2>1
<1>. QED
  BY <1>3, <1>7

(* What one row more leaves. *)
LEMMA RemainderGrows ==
    ASSUME NEW s \in Snapshot, Sellable(s), NEW n \in Nat, NEW row,
           \A k \in 1 .. n + 1 : row[k] \in StoredRow
    PROVE  Remainder(s, row, n + 1) = After(s, Remainder(s, row, n), row[n + 1])
<1>1. PICK f : Leaves(f, s, row, n + 1)
  BY LeavesExists, n + 1 \in Nat
<1>2. Remainder(s, row, n + 1) = f[n + 1]
  BY <1>1, RemainderFollows, n + 1 \in Nat
<1>. DEFINE h == [k \in 0 .. n |-> f[k]]
<1>3. Leaves(h, s, row, n)
  BY <1>1 DEF Leaves
<1>. HIDE DEF h
<1>4. Remainder(s, row, n) = h[n]
  BY <1>3, RemainderFollows
<1>5. f[n + 1] = After(s, f[n], row[n + 1])
  BY <1>1 DEF Leaves
<1>. QED
  BY <1>2, <1>4, <1>5 DEF h

(* The remainder after n rows depends on those rows only. *)
LEMMA RemainderOfSame ==
    ASSUME NEW s \in Snapshot, Sellable(s), NEW n \in Nat, NEW row, NEW other,
           \A k \in 1 .. n : row[k] \in StoredRow /\ other[k] = row[k]
    PROVE  Remainder(s, other, n) = Remainder(s, row, n)
<1>1. PICK f : Leaves(f, s, row, n)
  BY LeavesExists
<1>2. Leaves(f, s, other, n)
  BY <1>1 DEF Leaves
<1>. QED
  BY <1>1, <1>2, RemainderFollows

(* Without rows the whole line is left. *)
LEMMA RemainderOfNone ==
    ASSUME NEW s \in Snapshot, Sellable(s), NEW row
    PROVE  Remainder(s, row, 0) = {Whole(s)}
<1>1. PICK f : Leaves(f, s, row, 0)
  BY LeavesExists
<1>2. Remainder(s, row, 0) = f[0]
  BY <1>1, RemainderFollows
<1>3. f[0] = {Whole(s)}
  BY <1>1 DEF Leaves
<1>. QED
  BY <1>2, <1>3

(* A line is rectified down to what is left of it: as long as every return of it has a
   part, the parts and the remainder add up to the line, and nothing is left of the
   amounts when nothing is left of the quantity. *)
PartRows(l) == [i \in DOMAIN history |-> rows[history[i]][l]]

AddsUp(l, left, field) ==
    /\ Rectified(l, field) \in [Returns -> Nat]
    /\ IsFiniteSet(Units(Rectified(l, field)))
    /\ UnitSum(Rectified(l, field)) + left[field] = Whole(sold[l])[field]

RectifiedTo(l, left) ==
    /\ left \in Amounts /\ \A field \in Kinds : left[field] \in Nat
    /\ Remainder(sold[l], PartRows(l), Len(history)) = {left}
    /\ left.quantity = RemainingQuantity(l)
    /\ left.quantity = 0 => \A field \in Kinds : left[field] = 0
    /\ \A field \in Kinds : AddsUp(l, left, field)

AllRectifiable(l) == \A r \in PartsOf(l) : Allocation(l, r) # {}

SplitInvariant == \A l \in Lines : AllRectifiable(l) => \E left : RectifiedTo(l, left)

(* Nothing is rectified yet, and all of the line is left. *)
LEMMA SplitInitially ==
    ASSUME ReturnsInit, ReturnsInvariant
    PROVE  SplitInvariant
<1>. SUFFICES ASSUME NEW l \in Lines PROVE RectifiedTo(l, Whole(sold[l]))
  BY DEF SplitInvariant
<1>. DEFINE s == sold[l]
            left == Whole(s)
<1>1. s \in Snapshot /\ Sellable(s)
  BY DEF ReturnsInvariant, SoldSound
<1>2. /\ left \in Amounts /\ \A field \in Kinds : left[field] \in Nat
      /\ left.quantity = s.quantity /\ s.quantity \in Nat \ {0}
  BY <1>1, WholeTyped DEF Snapshot
<1>3. Remainder(s, PartRows(l), Len(history)) = {left}
  <2>1. Len(history) = 0
    BY DEF ReturnsInit
  <2>. QED
    BY <1>1, <2>1, RemainderOfNone
<1>4. RemainingQuantity(l) = s.quantity
  BY <1>2 DEF ReturnsInit, RemainingQuantity, Nothing
<1>. HIDE DEF left
<1>5. ASSUME NEW field \in Kinds PROVE AddsUp(l, left, field)
  <2>1. \A r \in Returns : Rectified(l, field)[r] = 0
    BY DEF Rectified, PartsOf, ReturnsInit
  <2>2. Rectified(l, field) \in [Returns -> Nat]
    BY <2>1 DEF Rectified
  <2>3. IsFiniteSet(Units(Rectified(l, field))) /\ UnitSum(Rectified(l, field)) = 0
    BY <2>1, <2>2, SumOfZeros
  <2>4. left[field] \in Nat /\ left[field] = Whole(sold[l])[field]
    BY <1>2 DEF left
  <2>. QED
    BY <2>2, <2>3, <2>4 DEF AddsUp
<1>. QED
  BY <1>2, <1>3, <1>4, <1>5 DEF RectifiedTo, left

(* The rows of the history are rows of completed returns, each of them stored. *)
LEMMA PartRowsTyped ==
    ASSUME ReturnsInvariant, NEW l \in Lines
    PROVE  /\ Len(history) \in Nat /\ DOMAIN history = 1 .. Len(history)
           /\ \A k \in 1 .. Len(history) :
                  /\ history[k] \in Returns /\ retStatus[history[k]] = "completed"
                  /\ PartRows(l)[k] = rows[history[k]][l]
                  /\ PartRows(l)[k] \in StoredRow
<1>1. /\ history \in Seq(Returns) /\ DOMAIN history = 1 .. Len(history)
      /\ Len(history) \in Nat
  BY DEF ReturnsInvariant, HistorySound
<1>2. \A k \in 1 .. Len(history) : history[k] \in Returns
  BY <1>1
<1>3. \A k \in 1 .. Len(history) : retStatus[history[k]] = "completed"
  BY <1>1, <1>2 DEF ReturnsInvariant, HistorySound
<1>. QED
  BY <1>1, <1>2, <1>3 DEF PartRows, ReturnsInvariant, ReturnRowsTyped

(* The parts of the completed returns of a line stay as they are. *)
LEMMA PartsKept ==
    ASSUME ReturnsInvariant, [ReturnsNext]_returnVars, NEW l \in Lines,
           NEW r \in PartsOf(l)
    PROVE  Allocation(l, r)' = Allocation(l, r)
<1>1. r \in Returns /\ retStatus[r] = "completed"
  BY DEF PartsOf
<1>2. Kept(r)
  BY <1>1, CompletedKept
<1>. QED
  BY <1>1, <1>2, AllocationKept

(* So do the amounts that they rectify. *)
LEMMA RectifiedKept ==
    ASSUME ReturnsInvariant, [ReturnsNext]_returnVars, NEW l \in Lines, NEW field,
           NEW t \in Returns, t \in PartsOf(l)' <=> t \in PartsOf(l)
    PROVE  Rectified(l, field)'[t] = Rectified(l, field)[t]
<1>1. CASE t \in PartsOf(l)
  <2>1. Allocation(l, t)' = Allocation(l, t)
    BY <1>1, PartsKept
  <2>2. Rectified(l, field)[t] = (CHOOSE part \in Allocation(l, t) : TRUE)[field]
    BY <1>1 DEF Rectified
  <2>3. Rectified(l, field)'[t] = (CHOOSE part \in Allocation(l, t)' : TRUE)[field]
    BY <1>1 DEF Rectified
  <2>. QED
    BY <2>1, <2>2, <2>3
<1>2. CASE t \notin PartsOf(l)
  BY <1>2 DEF Rectified
<1>. QED
  BY <1>1, <1>2

(* A line that no return gave back, or that was left as it was, is split as before. *)
LEMMA SplitKept ==
    ASSUME ReturnsInvariant, [ReturnsNext]_returnVars, NEW l \in Lines,
           sold' = sold, PartsOf(l)' = PartsOf(l),
           RemainingQuantity(l)' = RemainingQuantity(l),
           Remainder(sold[l], PartRows(l), Len(history))'
               = Remainder(sold[l], PartRows(l), Len(history)),
           AllRectifiable(l) => \E left : RectifiedTo(l, left)
    PROVE  (AllRectifiable(l) => \E left : RectifiedTo(l, left))'
<1>1. AllRectifiable(l)' <=> AllRectifiable(l)
  BY PartsKept DEF AllRectifiable
<1>2. ASSUME NEW field PROVE Rectified(l, field)' = Rectified(l, field)
  <2>1. \A t \in Returns : Rectified(l, field)'[t] = Rectified(l, field)[t]
    BY RectifiedKept
  <2>2. /\ Rectified(l, field) = [t \in Returns |-> Rectified(l, field)[t]]
        /\ Rectified(l, field)' = [t \in Returns |-> Rectified(l, field)'[t]]
    BY DEF Rectified
  <2>. QED
    BY <2>1, <2>2
<1>3. ASSUME NEW left, RectifiedTo(l, left) PROVE RectifiedTo(l, left)'
  <2>1. \A field \in Kinds : AddsUp(l, left, field)'
    BY <1>2, <1>3 DEF RectifiedTo, AddsUp
  <2>. QED
    BY <1>3, <2>1 DEF RectifiedTo
<1>. QED
  BY <1>1, <1>3

(* The rows of a line after a return is completed: its row is the last. *)
LEMMA RowsCompleted ==
    ASSUME ReturnsInvariant, AmountsTyped', NEW r \in Returns, CompleteReturn(r),
           NEW l \in Lines
    PROVE  LET n == Len(history)
               row == Repriced(r)[l] IN
           /\ row \in StoredRow /\ row.amount \in Nat /\ sold' = sold
           /\ n \in Nat /\ Len(history)' = n + 1 /\ CompletedAt(r)' = n + 1
           /\ RowsUpTo(l, r)' = PartRows(l)' /\ Len(PartRows(l)') = n + 1
           /\ PartRows(l)'[n + 1] = row
           /\ \A k \in 1 .. n : PartRows(l)'[k] = PartRows(l)[k]
           /\ RemainingQuantity(l)' = RemainingQuantity(l) - row.quantity
           /\ r \notin PartsOf(l)
           /\ PartsOf(l)' = IF row.quantity = 0 THEN PartsOf(l) ELSE PartsOf(l) \cup {r}
<1>. DEFINE n == Len(history)
            row == Repriced(r)[l]
<1>1. /\ retStatus[r] = "draft" /\ sold' = sold
      /\ retStatus' = [retStatus EXCEPT ![r] = "completed"]
      /\ rows' = [rows EXCEPT ![r] = Repriced(r)]
      /\ returned' = [m \in Lines |->
             [quantity |-> returned[m].quantity + Repriced(r)[m].quantity,
              amount |-> returned[m].amount + Repriced(r)[m].amount]]
      /\ history' = Append(history, r)
  BY DEF CompleteReturn, Completable
<1>2. row \in StoredRow
  BY LineCompleted
<1>3. /\ rows'[r] = Repriced(r) /\ retStatus'[r] = "completed"
      /\ \A t \in Returns \ {r} : rows'[t] = rows[t] /\ retStatus'[t] = retStatus[t]
  BY <1>1 DEF ReturnsInvariant, ReturnRowsTyped
<1>4. row.amount \in Nat
  BY <1>3 DEF AmountsTyped
<1>5. /\ n \in Nat /\ DOMAIN history = 1 .. n
      /\ \A k \in 1 .. n : /\ history[k] \in Returns \ {r}
                           /\ PartRows(l)[k] = rows[history[k]][l]
  BY <1>1, PartRowsTyped
<1>6. /\ history' \in Seq(Returns) /\ Len(history)' = n + 1
      /\ DOMAIN history' = 1 .. n + 1 /\ history'[n + 1] = r
      /\ \A k \in 1 .. n : history'[k] = history[k]
  <2>1. history \in Seq(Returns)
    BY DEF ReturnsInvariant, HistorySound
  <2>. QED
    BY <1>1, <1>5, <2>1
<1>7. PartRows(l)' = [k \in 1 .. n + 1 |-> rows'[history'[k]][l]]
  BY <1>6 DEF PartRows
<1>8. CompletedAt(r)' = n + 1
  <2>1. \A i \in DOMAIN history' : history'[i] = r <=> i = n + 1
    BY <1>5, <1>6
  <2>2. n + 1 \in DOMAIN history'
    BY <1>5, <1>6
  <2>. QED
    BY <2>1, <2>2 DEF CompletedAt
<1>9. RowsUpTo(l, r)' = PartRows(l)'
  BY <1>7, <1>8 DEF RowsUpTo
<1>10. Len(PartRows(l)') = n + 1
  <2>. DEFINE after == PartRows(l)'
  <2>1. \A k \in 1 .. n + 1 : rows'[history'[k]][l] \in StoredRow
    <3>1. ASSUME NEW k \in 1 .. n PROVE rows'[history'[k]][l] \in StoredRow
      BY <1>3, <1>5, <1>6 DEF ReturnsInvariant, ReturnRowsTyped
    <3>2. rows'[history'[n + 1]][l] \in StoredRow
      BY <1>2, <1>3, <1>6
    <3>3. \A k \in 1 .. n + 1 : k \in 1 .. n \/ k = n + 1
      BY <1>5
    <3>. QED
      BY <3>1, <3>2, <3>3
  <2>2. after \in [1 .. n + 1 -> StoredRow]
    BY <1>7, <2>1
  <2>3. n + 1 \in Nat
    BY <1>5
  <2>. HIDE DEF after
  <2>4. after \in Seq(StoredRow) /\ DOMAIN after = 1 .. n + 1
    BY <2>2, <2>3, SeqDef
  <2>5. Len(after) = n + 1
    BY <2>3, <2>4
  <2>. QED
    BY <2>5 DEF after
<1>11. PartRows(l)'[n + 1] = row /\ \A k \in 1 .. n : PartRows(l)'[k] = PartRows(l)[k]
  <2>1. n + 1 \in 1 .. n + 1 /\ \A k \in 1 .. n : k \in 1 .. n + 1
    BY <1>5
  <2>. QED
    BY <1>3, <1>5, <1>6, <1>7, <2>1
<1>12. RemainingQuantity(l)' = RemainingQuantity(l) - row.quantity
  <2>1. /\ returned[l].quantity \in Nat /\ sold[l].quantity \in Nat
        /\ row.quantity \in Nat
    BY <1>2 DEF ReturnsInvariant, LineSound, SoldSound, Snapshot, StoredRow
  <2>2. returned'[l].quantity = returned[l].quantity + row.quantity
    BY <1>1
  <2>. QED
    BY <1>1, <2>1, <2>2 DEF RemainingQuantity
<1>13. /\ r \notin PartsOf(l)
       /\ PartsOf(l)' = IF row.quantity = 0 THEN PartsOf(l) ELSE PartsOf(l) \cup {r}
  <2>1. row.quantity \in Nat
    BY <1>2 DEF StoredRow
  <2>. QED
    BY <1>1, <1>3, <2>1 DEF PartsOf, Rows
<1>. QED
  BY <1>1, <1>2, <1>4, <1>5, <1>6, <1>8, <1>9, <1>10, <1>11, <1>12, <1>13

(* The amounts of one kind after a part more. *)
LEMMA PartAdded ==
    ASSUME NEW f \in [Returns -> Nat], IsFiniteSet(Units(f)),
           NEW g \in [Returns -> Nat], NEW r \in Returns,
           \A t \in Returns \ {r} : g[t] = f[t], f[r] = 0,
           NEW a \in Nat, NEW w, UnitSum(f) + a = w, g[r] <= a
    PROVE  IsFiniteSet(Units(g)) /\ UnitSum(g) + (a - g[r]) = w
<1>1. /\ IsFiniteSet(Units(g)) /\ UnitSum(f) \in Nat /\ UnitSum(g) \in Nat
      /\ UnitSum(g) = UnitSum(f) - f[r] + g[r]
  BY SumChange
<1>. QED
  BY <1>1

(* A return that gives a line back takes the part that the split found for its row. *)
LEMMA SplitCompleted ==
    ASSUME ReturnsInvariant, AmountsTyped', SplitInvariant,
           NEW r \in Returns, CompleteReturn(r), NEW l \in Lines,
           AllRectifiable(l)'
    PROVE  \E left : RectifiedTo(l, left)'
<1>. DEFINE n == Len(history)
            row == Repriced(r)[l]
            s == sold[l]
<1>0. s \in Snapshot /\ Sellable(s)
  BY DEF ReturnsInvariant, SoldSound
<1>00. [ReturnsNext]_returnVars
  BY DEF ReturnsNext
<1>1. /\ row \in StoredRow /\ row.amount \in Nat /\ sold' = sold
      /\ n \in Nat /\ Len(history)' = n + 1 /\ CompletedAt(r)' = n + 1
      /\ RowsUpTo(l, r)' = PartRows(l)' /\ Len(PartRows(l)') = n + 1
      /\ PartRows(l)'[n + 1] = row
      /\ \A k \in 1 .. n : PartRows(l)'[k] = PartRows(l)[k]
      /\ RemainingQuantity(l)' = RemainingQuantity(l) - row.quantity
      /\ r \notin PartsOf(l)
      /\ PartsOf(l)' = IF row.quantity = 0 THEN PartsOf(l) ELSE PartsOf(l) \cup {r}
  BY RowsCompleted
<1>2. \A k \in 1 .. n + 1 : PartRows(l)'[k] \in StoredRow
  BY <1>1, PartRowsTyped
<1>3. /\ Remainder(s, PartRows(l)', n) = Remainder(s, PartRows(l), n)
      /\ Remainder(s, PartRows(l)', n + 1)
            = After(s, Remainder(s, PartRows(l), n), row)
  <2>1. \A k \in 1 .. n : PartRows(l)[k] \in StoredRow
    BY PartRowsTyped
  <2>2. Remainder(s, PartRows(l)', n) = Remainder(s, PartRows(l), n)
    BY <1>0, <1>1, <2>1, RemainderOfSame
  <2>3. Remainder(s, PartRows(l)', n + 1)
            = After(s, Remainder(s, PartRows(l)', n), PartRows(l)'[n + 1])
    BY <1>0, <1>1, <1>2, RemainderGrows
  <2>. QED
    BY <1>1, <2>2, <2>3
<1>4. AllRectifiable(l)
  BY <1>00, <1>1, PartsKept DEF AllRectifiable
<1>5. PICK left : RectifiedTo(l, left)
  BY <1>4 DEF SplitInvariant
<1>. HIDE DEF n, row, s
<1>6. CASE row.quantity = 0
  <2>1. PartsOf(l)' = PartsOf(l) /\ RemainingQuantity(l)' = RemainingQuantity(l)
    <3>1. RemainingQuantity(l) \in Int
      BY <1>5 DEF RectifiedTo, Amounts
    <3>. QED
      BY <1>1, <1>6, <3>1
  <2>2. Remainder(s, PartRows(l)', n + 1) = Remainder(s, PartRows(l), n)
    BY <1>3, <1>6 DEF After
  <2>3. Remainder(sold[l], PartRows(l), Len(history))'
            = Remainder(sold[l], PartRows(l), Len(history))
    BY <1>1, <2>2 DEF s, n
  <2>4. AllRectifiable(l) => \E x : RectifiedTo(l, x)
    BY <1>5
  <2>5. (AllRectifiable(l) => \E x : RectifiedTo(l, x))'
    BY <1>00, <1>1, <2>1, <2>3, <2>4, SplitKept
  <2>. QED
    BY <2>5
<1>7. CASE row.quantity # 0
  <2>1. /\ left \in Amounts /\ \A field \in Kinds : left[field] \in Nat
        /\ Remainder(s, PartRows(l), n) = {left}
        /\ left.quantity = RemainingQuantity(l)
        /\ \A field \in Kinds : AddsUp(l, left, field)
    BY <1>5 DEF RectifiedTo, s, n
  <2>2. PartsOf(l)' = PartsOf(l) \cup {r}
    BY <1>1, <1>7
  <2>3. Allocation(l, r)' = Part(s, left, row)
    <3>1. Allocation(l, r)' = Split(s, PartRows(l)')
      BY <1>1 DEF Allocation, s
    <3>2. Split(s, PartRows(l)') = UNION {Part(s, x, row) : x \in {left}}
      <4>1. (n + 1) - 1 = n
        BY <1>1
      <4>. QED
        BY <1>1, <1>3, <2>1, <4>1 DEF Split
    <3>. QED
      BY <3>1, <3>2
  <2>4. PICK part \in Part(s, left, row) : TRUE
    BY <2>2, <2>3 DEF AllRectifiable
  <2>5. PartOfRow(part, left, row)
    BY <1>0, <1>1, <2>1, PartMeans
  <2>6. Part(s, left, row) = {part}
    BY <1>0, <1>1, <2>1, PartIsOne
  <2>. DEFINE rest == Less(left, part)
  <2>7. Remainder(s, PartRows(l)', n + 1) = {rest}
    BY <1>3, <1>7, <2>1, <2>6 DEF After
  <2>8. /\ rest \in Amounts /\ rest.quantity = left.quantity - row.quantity
        /\ \A field \in Kinds : /\ rest[field] = left[field] - part[field]
                                /\ rest[field] \in Nat
    BY <2>1, <2>5 DEF Less, PartOfRow, Amounts, Kinds
  <2>9. rest.quantity = 0 => \A field \in Kinds : rest[field] = 0
    <3>1. rest.quantity = 0 => part = left
      <4>1. row.quantity \in Int /\ left.quantity \in Int
        BY <1>1, <2>1 DEF StoredRow, Amounts
      <4>2. rest.quantity = 0 => row.quantity = left.quantity
        BY <2>8, <4>1
      <4>. QED
        BY <2>5, <4>2 DEF PartOfRow
    <3>. QED
      BY <2>1, <2>8, <3>1
  <2>. HIDE DEF rest
  <2>10. ASSUME NEW field \in Kinds PROVE AddsUp(l, rest, field)'
    <3>. DEFINE f == Rectified(l, field)
                g == Rectified(l, field)'
                w == Whole(sold[l])[field]
    <3>1. /\ f \in [Returns -> Nat] /\ IsFiniteSet(Units(f))
          /\ UnitSum(f) + left[field] = w
      BY <2>1 DEF AddsUp
    <3>2. \A t \in Returns \ {r} : g[t] = f[t]
      <4>1. \A t \in Returns \ {r} : t \in PartsOf(l)' <=> t \in PartsOf(l)
        BY <2>2
      <4>. QED
        BY <1>00, <4>1, RectifiedKept
    <3>3. f[r] = 0
      BY <1>1 DEF Rectified
    <3>4. g[r] = part[field]
      <4>1. g[r] = (CHOOSE x \in Allocation(l, r)' : TRUE)[field]
        BY <2>2 DEF Rectified
      <4>2. (CHOOSE x \in {part} : TRUE) = part
        OBVIOUS
      <4>. QED
        BY <2>3, <2>6, <4>1, <4>2
    <3>5. part[field] \in Nat /\ part[field] <= left[field] /\ left[field] \in Nat
          /\ rest[field] = left[field] - part[field]
      BY <2>1, <2>5, <2>8 DEF PartOfRow
    <3>6. g = [t \in Returns |-> g[t]]
      BY DEF Rectified
    <3>7. w = Whole(sold'[l])[field]
      BY <1>1
    <3>. HIDE DEF f, g, w
    <3>8. g \in [Returns -> Nat]
      <4>1. \A t \in Returns : g[t] \in Nat
        BY <3>1, <3>2, <3>4, <3>5
      <4>. QED
        BY <3>6, <4>1
    <3>9. IsFiniteSet(Units(g)) /\ UnitSum(g) + (left[field] - g[r]) = w
      BY <3>1, <3>2, <3>3, <3>4, <3>5, <3>8, PartAdded
    <3>. QED
      BY <3>4, <3>5, <3>7, <3>8, <3>9 DEF AddsUp, g
  <2>11. RectifiedTo(l, rest)'
    BY <1>1, <2>1, <2>7, <2>8, <2>9, <2>10 DEF RectifiedTo, s, n
  <2>. QED
    BY <2>11
<1>. QED
  BY <1>6, <1>7

(* Every step keeps the parts of a line adding up to it. *)
LEMMA SplitStep ==
    ASSUME ReturnsInvariant, ReturnsInvariant', TotalsInvariant', SplitInvariant,
           [ReturnsNext]_returnVars
    PROVE  SplitInvariant'
<1>1. ASSUME UNCHANGED <<sold, returned, history>>,
             \A t \in Returns : retStatus'[t] = "completed" <=> retStatus[t] = "completed",
             \A t \in Returns : retStatus[t] = "completed" => rows'[t] = rows[t]
      PROVE  SplitInvariant'
  <2>. SUFFICES ASSUME NEW l \in Lines
                PROVE  (AllRectifiable(l) => \E left : RectifiedTo(l, left))'
    BY DEF SplitInvariant
  <2>1. PartsOf(l)' = PartsOf(l)
    BY <1>1 DEF PartsOf, Rows
  <2>2. RemainingQuantity(l)' = RemainingQuantity(l)
    BY <1>1 DEF RemainingQuantity
  <2>3. PartRows(l)' = PartRows(l)
    BY <1>1, PartRowsTyped DEF PartRows
  <2>4. Remainder(sold[l], PartRows(l), Len(history))'
            = Remainder(sold[l], PartRows(l), Len(history))
    BY <1>1, <2>3
  <2>5. AllRectifiable(l) => \E left : RectifiedTo(l, left)
    BY DEF SplitInvariant
  <2>. QED
    BY <1>1, <2>1, <2>2, <2>4, <2>5, SplitKept
<1>2. ASSUME NEW r \in Returns, CreateReturn(r) \/ CancelReturn(r)
      PROVE  SplitInvariant'
  <2>1. /\ UNCHANGED <<sold, rows, returned, history>>
        /\ retStatus[r] \in {"none", "draft"}
        /\ \E to \in {"draft", "cancelled"} : retStatus' = [retStatus EXCEPT ![r] = to]
    BY <1>2 DEF CreateReturn, CancelReturn
  <2>2. \A t \in Returns : retStatus'[t] = "completed" <=> retStatus[t] = "completed"
    BY <2>1 DEF ReturnsInvariant, ReturnRowsTyped
  <2>. QED
    BY <1>1, <2>1, <2>2
<1>3. ASSUME NEW r \in Returns, NEW l \in Lines, NEW row, retStatus[r] = "draft",
             SetRow(r, l, row)
      PROVE  SplitInvariant'
  <2>1. /\ UNCHANGED <<sold, retStatus, returned, history>>
        /\ \A t \in Returns \ {r} : rows'[t] = rows[t]
    BY <1>3 DEF SetRow, ReturnsInvariant, ReturnRowsTyped
  <2>. QED
    BY <1>1, <1>3, <2>1
<1>4. ASSUME NEW r \in Returns, NEW l \in Lines, NEW q \in 0 .. sold[l].quantity,
             NEW restock \in RestockChoices(l), SelectQuantity(r, l, q, restock)
      PROVE  SplitInvariant'
  BY <1>3, <1>4 DEF SelectQuantity, DeleteReturnLine, UpdateReturnLine, AddReturnLine,
                    Priced
<1>5. ASSUME NEW r \in Returns, CompleteReturn(r) PROVE SplitInvariant'
  BY <1>5, SplitCompleted DEF SplitInvariant, TotalsInvariant
<1>6. CASE UNCHANGED returnVars
  BY <1>1, <1>6 DEF returnVars
<1>. QED
  BY <1>2, <1>4, <1>5, <1>6 DEF ReturnsNext

(* The parts of a line and what is left of it add up to it in every behaviour. *)
THEOREM SplitAlways == ReturnsSpec => []SplitInvariant
<1>1. ReturnsInit /\ ReturnsInvariant => SplitInvariant
  BY SplitInitially
<1>2. ReturnsInvariant /\ ReturnsInvariant' /\ TotalsInvariant' /\ SplitInvariant
      /\ [ReturnsNext]_returnVars => SplitInvariant'
  BY SplitStep
<1>. QED
  BY <1>1, <1>2, ReturnsAlways, TotalsAlways, PTL DEF ReturnsSpec

(* A line that came back completely, in parts that can all be rectified, is rectified
   to the cent: for every amount of the document the parts add up to it. *)
THEOREM RectifiedToTheCent == ReturnsSpec => []WholeRectified
<1>1. ReturnsInvariant /\ SplitInvariant => WholeRectified
  <2>. SUFFICES ASSUME ReturnsInvariant, SplitInvariant, NEW l \in Lines,
                       returned[l].quantity = sold[l].quantity,
                       \A r \in PartsOf(l) : Allocation(l, r) # {},
                       NEW field \in DOMAIN Whole(sold[l])
                PROVE  UnitSum(Rectified(l, field)) = Whole(sold[l])[field]
    BY DEF WholeRectified
  <2>1. sold[l] \in Snapshot /\ Sellable(sold[l]) /\ returned[l].quantity \in Nat
    BY DEF ReturnsInvariant, SoldSound, LineSound
  <2>2. field \in Kinds
    BY <2>1, WholeTyped
  <2>3. PICK left : RectifiedTo(l, left)
    BY DEF SplitInvariant, AllRectifiable
  <2>4. left.quantity = 0
    BY <2>1, <2>3 DEF RectifiedTo, RemainingQuantity
  <2>5. left[field] = 0 /\ AddsUp(l, left, field)
    BY <2>2, <2>3, <2>4 DEF RectifiedTo
  <2>6. UnitSum(Rectified(l, field)) \in Nat
    BY <2>5, FS_CardinalityType DEF AddsUp, UnitSum
  <2>. QED
    BY <2>5, <2>6 DEF AddsUp
<1>. QED
  BY <1>1, ReturnsAlways, SplitAlways, PTL
===============================================================================
