-------------------------------- MODULE Returns --------------------------------
(***************************************************************************)
(* The returns of a completed sale: the second half of                     *)
(* apps/sales/services.py, and the part of apps/billing/services.py that   *)
(* splits the fiscal amounts of a sold line over its returns.              *)
(*                                                                         *)
(* Several returns of the sale are drafted side by side and completed in   *)
(* any order.  Every service is one transaction that holds the row of the  *)
(* SaleReturn (and, to complete it, the row of the Sale), so it is one     *)
(* action.  The views read pages before and let the services decide again. *)
(*                                                                         *)
(* Money is in cents and quantities are in steps of 1/Scale of a unit; the *)
(* code rounds half up, line by line.  The SUM queries over completed      *)
(* returns are kept in the variable returned.                              *)
(***************************************************************************)
EXTENDS Integers, Sequences, SequencesExt, FiniteSets, Sums

CONSTANTS
    Lines, Returns,       \* rows of SaleLine (of the sale) and of SaleReturn
    SoldAs,               \* SoldAs[l]: the snapshots line l may have been sold with
    Scale,                \* steps of quantity in a unit (1000 in the code)
    Tracked               \* lines whose product keeps stock

Snapshot == [quantity : Nat \ {0}, unit : Nat, discount : Nat, rate : Nat]

ASSUME ReturnsAssumption ==
    /\ Scale \in Nat \ {0} /\ Tracked \subseteq Lines
    /\ Lines # {} /\ IsFiniteSet(Lines)
    /\ \A l \in Lines : SoldAs[l] \subseteq Snapshot

VARIABLES
    sold,                 \* the snapshot of each line, fixed by the sale
    saleStatus,           \* Sale.status
    retStatus, retTotal,  \* SaleReturn.status, SaleReturn.total_amount
    rows,                 \* rows[r][l]: the SaleReturnLine, quantity 0 if absent
    returned,             \* SUM of the rows of completed returns, per line
    history,              \* completed returns by completed_at
    restocked             \* SUM of the sale_return movements, per line

returnVars == <<sold, saleStatus, retStatus, retTotal, rows, returned, history,
                restocked>>

NoRow == [quantity |-> 0, amount |-> 0, restock |-> FALSE]
Nothing == [quantity |-> 0, amount |-> 0]

(* Every variable keeps to what its field stores. *)
ReturnsTypeOK ==
    /\ \A l \in Lines : sold[l] \in SoldAs[l]
    /\ saleStatus \in {"completed", "returned"}
    /\ retStatus \in [Returns -> {"none", "draft", "completed", "cancelled"}]
    /\ \A r \in Returns : retTotal[r] \in Nat
    /\ rows \in [Returns -> [Lines -> [quantity : Nat, amount : Nat,
                                       restock : BOOLEAN]]]
    /\ returned \in [Lines -> [quantity : Nat, amount : Nat]]
    /\ history \in Seq(Returns)
    /\ restocked \in [Lines -> Nat]
-------------------------------------------------------------------------------
(* A faulty variant that rounds up. *)
RoundUp(a, b) == (a + b - 1) \div b

(* ROUND_HALF_UP of a / b, for a >= 0 and b > 0. *)
RoundHalfUp(a, b) == (2 * a + b) \div (2 * b)

Gross(s, q) == RoundHalfUp(s.unit * q, Scale)
TaxOf(base, rate) == RoundHalfUp(base * rate, 100)

(* calculate_sale_line_amounts *)
Fiscal(s) ==
    LET gross == Gross(s, s.quantity)
        base == gross - s.discount IN
    [gross |-> gross, discount |-> s.discount, taxable |-> base,
     tax |-> TaxOf(base, s.rate), total |-> base + TaxOf(base, s.rate)]
Sellable(s) == s.discount <= Gross(s, s.quantity)

Total(l) == Fiscal(sold[l]).total

RemainingQuantity(l) == sold[l].quantity - returned[l].quantity
RemainingAmount(l) == Total(l) - returned[l].amount

(* A faulty variant that compares a part with what was sold, not with what is left. *)
FitsAsSold(l, q) == q > 0 /\ q <= sold[l].quantity

(* The last part takes what is left, every other part its rounded share. *)
Amount(l, q) ==
    IF q = RemainingQuantity(l) THEN RemainingAmount(l)
                                ELSE RoundHalfUp(Total(l) * q, sold[l].quantity)

Fits(l, q) == q > 0 /\ q <= RemainingQuantity(l)

(* SaleReturnLine.clean and the check constraints *)
RowOK(l, q, amount) ==
    /\ q <= sold[l].quantity
    /\ amount >= 0 /\ amount <= Total(l)

Rows(r) == {l \in Lines : rows[r][l].quantity > 0}
SumOfRows(row) == UnitSum([l \in Lines |-> row[l].amount])

(* What the pages offer: the lines with something left. *)
Returnable == {l \in Lines : RemainingQuantity(l) > 0}

ReturnsInit ==
    /\ sold \in {s \in [Lines -> UNION Range(SoldAs)] :
                    \A l \in Lines : s[l] \in SoldAs[l] /\ Sellable(s[l])}
    /\ saleStatus = "completed"
    /\ retStatus = [r \in Returns |-> "none"]
    /\ retTotal = [r \in Returns |-> 0]
    /\ rows = [r \in Returns |-> [l \in Lines |-> NoRow]]
    /\ returned = [l \in Lines |-> Nothing]
    /\ history = <<>>
    /\ restocked = [l \in Lines |-> 0]
-------------------------------------------------------------------------------
CreateReturn(r) ==
    /\ retStatus[r] = "none"
    /\ saleStatus = "completed" /\ Returnable # {}
    /\ retStatus' = [retStatus EXCEPT ![r] = "draft"]
    /\ UNCHANGED <<sold, saleStatus, retTotal, rows, returned, history, restocked>>

(* _recalculate_locked_return: the stored total follows the rows. *)
SetRow(r, l, row) ==
    /\ rows' = [rows EXCEPT ![r][l] = row]
    /\ retTotal' = [retTotal EXCEPT ![r] = SumOfRows(rows'[r])]
    /\ UNCHANGED <<sold, saleStatus, retStatus, returned, history, restocked>>

Priced(r, l, q, restock) ==
    /\ retStatus[r] = "draft"
    /\ Fits(l, q) /\ RowOK(l, q, Amount(l, q))
    /\ SetRow(r, l, [quantity |-> q, amount |-> Amount(l, q), restock |-> restock])

AddReturnLine(r, l, q, restock) == l \notin Rows(r) /\ Priced(r, l, q, restock)
UpdateReturnLine(r, l, q, restock) == l \in Rows(r) /\ Priced(r, l, q, restock)
DeleteReturnLine(r, l) ==
    /\ retStatus[r] = "draft" /\ l \in Rows(r)
    /\ SetRow(r, l, NoRow)

(* The workspace: a quantity typed beside a line of the sale. *)
SelectQuantity(r, l, q, restock) ==
    \/ q = 0 /\ DeleteReturnLine(r, l)
    \/ q > 0 /\ UpdateReturnLine(r, l, q, restock)
    \/ q > 0 /\ AddReturnLine(r, l, q, restock)

(* A faulty variant that trusts the amounts of the draft. *)
AsDrafted(r) == rows[r]

(* The rows of a draft priced against what is left when it is completed. *)
Repriced(r) ==
    [l \in Lines |-> IF l \in Rows(r)
                     THEN [rows[r][l] EXCEPT !.amount = Amount(l, rows[r][l].quantity)]
                     ELSE NoRow]

(* Two faulty variants: every returned piece goes back, and stock goes out. *)
RestockAll(r) ==
    restocked' = [l \in Lines |-> restocked[l] + rows[r][l].quantity]
RestockOut(r) ==
    restocked' = [l \in Lines |-> restocked[l] - rows[r][l].quantity]

(* increase_stock of the rows that go back to the shelf *)
Restock(r) ==
    restocked' = [l \in Lines |->
                     IF rows[r][l].restock /\ l \in Tracked
                     THEN restocked[l] + rows[r][l].quantity ELSE restocked[l]]

(* A faulty variant that looks at the lines of the return only. *)
AnyLineReturned(done) == \E l \in Lines : done[l].quantity >= sold[l].quantity

FullyReturned(done) == \A l \in Lines : done[l].quantity >= sold[l].quantity

Completable(r) ==
    /\ retStatus[r] = "draft" /\ Rows(r) # {}
    /\ \A l \in Rows(r) : /\ Fits(l, rows[r][l].quantity)
                          /\ RowOK(l, rows[r][l].quantity, Repriced(r)[l].amount)
    /\ SumOfRows(Repriced(r)) > 0

CompleteReturn(r) ==
    LET priced == Repriced(r)
        done == [l \in Lines |->
                    [quantity |-> returned[l].quantity + priced[l].quantity,
                     amount |-> returned[l].amount + priced[l].amount]] IN
    /\ Completable(r)
    /\ rows' = [rows EXCEPT ![r] = priced]
    /\ retTotal' = [retTotal EXCEPT ![r] = SumOfRows(priced)]
    /\ retStatus' = [retStatus EXCEPT ![r] = "completed"]
    /\ returned' = done
    /\ history' = Append(history, r)
    /\ Restock(r)
    /\ saleStatus' = IF FullyReturned(done) THEN "returned" ELSE "completed"
    /\ UNCHANGED sold

CancelReturn(r) ==
    /\ retStatus[r] = "draft"
    /\ retStatus' = [retStatus EXCEPT ![r] = "cancelled"]
    /\ UNCHANGED <<sold, saleStatus, retTotal, rows, returned, history, restocked>>

(* The mark of a line without stock has no effect: it is left out. *)
RestockChoices(l) == IF l \in Tracked THEN BOOLEAN ELSE {FALSE}

ReturnsNext ==
    \E r \in Returns :
        \/ CreateReturn(r)
        \/ \E l \in Lines : \E q \in 0 .. sold[l].quantity :
               \E restock \in RestockChoices(l) : SelectQuantity(r, l, q, restock)
        \/ CompleteReturn(r)
        \/ CancelReturn(r)

ReturnsSpec == ReturnsInit /\ [][ReturnsNext]_returnVars
-------------------------------------------------------------------------------
(* The fiscal side.  The amounts of a line of the document are split over   *)
(* the completed returns of that line, in the order they were completed.    *)
Consistent(s, part) ==
    /\ Gross(s, part.quantity) = part.gross
    /\ part.gross - part.discount = part.taxable
    /\ TaxOf(part.taxable, s.rate) = part.tax
    /\ part.taxable + part.tax = part.total

Whole(s) ==
    LET fiscal == Fiscal(s) IN
    [quantity |-> s.quantity, gross |-> fiscal.gross, discount |-> fiscal.discount,
     taxable |-> fiscal.taxable, tax |-> fiscal.tax, total |-> fiscal.total]
Less(rest, part) ==
    [quantity |-> rest.quantity - part.quantity, gross |-> rest.gross - part.gross,
     discount |-> rest.discount - part.discount, tax |-> rest.tax - part.tax,
     taxable |-> rest.taxable - part.taxable, total |-> rest.total - part.total]

(* Bases near the proportional one, or near the one the amount implies, that
   represent the amount exactly. *)
Bases(s, rest, row) ==
    LET whole == Fiscal(s)
        centre == RoundHalfUp(100 * row.amount, 100 + s.rate)
        expected == RoundHalfUp(whole.taxable * row.quantity, s.quantity) IN
    {b \in Nat \cap UNION {(c - 2) .. (c + 2) : c \in {centre, expected}} :
        /\ b <= rest.taxable
        /\ TaxOf(b, s.rate) <= rest.tax
        /\ b + TaxOf(b, s.rate) = row.amount}

Nearest(s, bases, row) ==
    LET share == Fiscal(s).taxable * row.quantity
        away == [b \in bases |-> IF b * s.quantity < share THEN share - b * s.quantity
                                                          ELSE b * s.quantity - share] IN
    {b \in bases : \A c \in bases : \/ away[b] < away[c]
                                    \/ (away[b] = away[c] /\ b <= c)}

SharePart(s, base, row) ==
    LET gross == Gross(s, row.quantity) IN
    [quantity |-> row.quantity, gross |-> gross, discount |-> gross - base,
     taxable |-> base, tax |-> TaxOf(base, s.rate), total |-> row.amount]

LastPart(s, rest, row) ==
    {part \in {rest} : /\ row.quantity = rest.quantity /\ row.amount = rest.total
                       /\ Consistent(s, rest)}
Share(s, rest, row) ==
    {SharePart(s, b, row) : b \in Nearest(s, Bases(s, rest, row), row)}

(* A faulty variant that splits every row on its own, whatever is left. *)
PartOnItsOwn(s, rest, row) == Share(s, Whole(s), row)

(* The part of a row in what the rows before it left: the only member, or none
   if the code refuses to split. *)
Part(s, rest, row) ==
    LastPart(s, rest, row) \cup
    {part \in Share(s, rest, row) :
        /\ row.quantity < rest.quantity
        /\ part.discount \in 0 .. rest.discount /\ part.gross <= rest.gross
        /\ Consistent(s, part) /\ part.total <= rest.total}

(* What a row leaves of what was left; a return without the line has no row. *)
After(s, rest, row) ==
    IF row.quantity = 0 THEN rest
    ELSE UNION {{Less(left, part) : part \in Part(s, left, row)} : left \in rest}

(* What the first n rows of a line leave of what was sold. *)
Remainder(s, row, n) ==
    LET rest[i \in 0 .. n] ==
            IF i = 0 THEN {Whole(s)} ELSE After(s, rest[i - 1], row[i]) IN
    rest[n]

(* The part of the last of the rows of a line, after those of the rows before it. *)
Split(s, row) ==
    LET last == Len(row) IN
    UNION {Part(s, left, row[last]) : left \in Remainder(s, row, last - 1)}

CompletedAt(r) == CHOOSE i \in DOMAIN history : history[i] = r

(* A faulty variant that reads the newest return first. *)
RowsFromNewest(l, r) ==
    LET seen == Reverse(SubSeq(history, CompletedAt(r), Len(history))) IN
    [i \in DOMAIN seen |-> rows[seen[i]][l]]

(* The rows of line l in the completed returns up to r. *)
RowsUpTo(l, r) == [i \in 1 .. CompletedAt(r) |-> rows[history[i]][l]]

Allocation(l, r) == Split(sold[l], RowsUpTo(l, r))

(* The returns whose rectification the code can write. *)
Rectifiable(r) ==
    /\ retStatus[r] = "completed"
    /\ \A l \in Rows(r) : Allocation(l, r) # {}
-------------------------------------------------------------------------------
PartsOf(l) == {r \in Returns : retStatus[r] = "completed" /\ l \in Rows(r)}

RestockedBy(l) ==
    [r \in Returns |-> IF r \in PartsOf(l) /\ rows[r][l].restock /\ l \in Tracked
                       THEN rows[r][l].quantity ELSE 0]

(* Returns drafted side by side and completed in any order never return more of a
   line than was sold; the sale is returned exactly when nothing is left to return;
   and the stock that came back is that of the completed rows marked to restock. *)
WithinSold ==
    /\ \A l \in Lines :
          /\ returned[l].quantity <= sold[l].quantity
          /\ restocked[l] = UnitSum(RestockedBy(l))
    /\ saleStatus = "returned" <=> Returnable = {}

(* The amounts of one kind in the parts of a line that its returns are rectified by. *)
Rectified(l, field) ==
    [r \in Returns |-> IF r \in PartsOf(l)
                       THEN (CHOOSE part \in Allocation(l, r) : TRUE)[field] ELSE 0]

(* What a line gave back differs from its share by at most half a cent for each
   part, and not at all once the line came back completely, in however many parts. *)
RoundingDrift ==
    \A l \in Lines :
        LET Q == sold[l].quantity
            drift == returned[l].amount * Q - Total(l) * returned[l].quantity
            bound == Cardinality(PartsOf(l)) * Q IN
        /\ -bound <= 2 * drift /\ 2 * drift <= bound
        /\ returned[l].quantity = Q => drift = 0

(* A line returned completely whose parts can all be rectified is rectified to
   the cent: bases and taxes of the parts are those of the document. *)
WholeRectified ==
    \A l \in Lines :
        (returned[l].quantity = sold[l].quantity
         /\ \A r \in PartsOf(l) : Allocation(l, r) # {})
        => \A field \in DOMAIN Whole(sold[l]) :
               UnitSum(Rectified(l, field)) = Whole(sold[l])[field]

CompletedRows == [i \in DOMAIN history |-> rows[history[i]]]

(* What a completed return is rectified with never depends on later returns:
   the document is the same whenever it is issued. *)
StableAllocation ==
    [][CompletedRows' # CompletedRows =>
           \A l \in Lines : \A r \in PartsOf(l) :
               Allocation(l, r)' = Allocation(l, r)]_returnVars
===============================================================================
