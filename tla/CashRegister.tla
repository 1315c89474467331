----------------------------- MODULE CashRegister -----------------------------
(***************************************************************************)
(* Stores, their cash registers and the sessions of a register:            *)
(* apps/cash_register/services.py with its views, and apps/stores.         *)
(*                                                                         *)
(* The services of stores and registers lock the Business first, so each   *)
(* is one action.  What a session's page does is not: the view and the     *)
(* first checks of the service read the store and the session without a    *)
(* lock (Begin, ConfirmClose), the rest of the service holds the row of    *)
(* the session (Finish...).  The edition of a store reads its row when the *)
(* request starts and writes every column of it later (BeginEdit,          *)
(* SaveEdit).  Amounts are integers.                                       *)
(***************************************************************************)
EXTENDS Integers, Sequences

CONSTANTS
    Stores, Registers, Sessions,  \* rows of Store, CashRegister, CashSession
    Editors, Dialogs,             \* requests that edit a store; session pages
    None,                         \* a null foreign key
    MaxCash,                      \* bound on an amount
    MaxMoves, MaxCounts           \* bounds on the rows of one session

ASSUME CashAssumption ==
    /\ None \notin Stores /\ None \notin Registers /\ None \notin Sessions
    /\ MaxCash \in Nat /\ MaxMoves \in Nat /\ MaxCounts \in Nat

VARIABLES
    stores,               \* the Store rows that exist
    active, default,      \* those with is_active, with is_default
    overwritten,          \* history: stores whose state an edition wrote over
    edit,                 \* edit[e]: the row an edition read
    regStore, activeRegs, \* CashRegister.store, is_active
    sessReg, sessState,   \* CashSession.cash_register, status
    opening, expected,    \* opening_amount, expected_cash_amount
    moves, counts,        \* the CashMovement and CashCount rows of a session
    dialog                \* dialog[p]: what a session page submitted

storeVars   == <<stores, active, default, overwritten, edit>>
regVars     == <<regStore, activeRegs>>
sessionVars == <<sessReg, sessState, opening>>
drawerVars  == <<expected, moves, counts>>
cashVars    == <<storeVars, regVars, sessionVars, drawerVars, dialog>>

Amounts == 1 .. MaxCash
Deltas == Amounts \cup {-a : a \in Amounts}

NoEdit == [store |-> None, active |-> FALSE, default |-> FALSE]
NoDialog == [kind |-> "none", session |-> None, amount |-> 0, reason |-> FALSE,
             shown |-> 0, entered |-> FALSE]

Edition == [store : Stores \cup {None}, active : BOOLEAN, default : BOOLEAN]
Dialog == [kind : {"none", "movement", "review", "close"},
           session : Sessions \cup {None}, amount : Int, reason : BOOLEAN,
           shown : Int, entered : BOOLEAN]
Movement == [delta : Int, after : Int, manual : BOOLEAN, reason : BOOLEAN]
Count == [type : {"review", "closing"}, counted : Nat, expected : Int]

(* Every variable keeps its type. *)
CashTypeOK ==
    /\ stores \subseteq Stores
    /\ active \subseteq stores /\ default \subseteq active
    /\ overwritten \subseteq Stores
    /\ edit \in [Editors -> Edition]
    /\ regStore \in [Registers -> stores \cup {None}]
    /\ activeRegs \subseteq Registers
    /\ sessReg \in [Sessions -> Registers \cup {None}]
    /\ sessState \in [Sessions -> {"unopened", "open", "closed"}]
    /\ opening \in [Sessions -> Nat] /\ expected \in [Sessions -> Int]
    /\ moves \in [Sessions -> Seq(Movement)]
    /\ counts \in [Sessions -> Seq(Count)]
    /\ dialog \in [Dialogs -> Dialog]

CashInit ==
    /\ stores = {} /\ active = {} /\ default = {} /\ overwritten = {}
    /\ edit = [e \in Editors |-> NoEdit]
    /\ regStore = [r \in Registers |-> None] /\ activeRegs = {}
    /\ sessReg = [x \in Sessions |-> None]
    /\ sessState = [x \in Sessions |-> "unopened"]
    /\ opening = [x \in Sessions |-> 0] /\ expected = [x \in Sessions |-> 0]
    /\ moves = [x \in Sessions |-> <<>>] /\ counts = [x \in Sessions |-> <<>>]
    /\ dialog = [p \in Dialogs |-> NoDialog]
-------------------------------------------------------------------------------
OpenSessionsOf(r) == {x \in Sessions : sessState[x] = "open" /\ sessReg[x] = r}
OpenSessionsIn(s) ==
    {x \in Sessions : sessState[x] = "open" /\ regStore[sessReg[x]] = s}

(* What a save of a Store leaves as default: an active store becomes the
   default when no other one is. *)
DefaultAfterSave(s, wanted) ==
    wanted \/ (default \cap active) \ {s} = {}

CreateStore(s) ==
    /\ s \notin stores
    /\ stores' = stores \cup {s}
    /\ active' = active \cup {s}
    /\ default' = IF DefaultAfterSave(s, FALSE) THEN default \cup {s} ELSE default
    /\ UNCHANGED <<overwritten, edit, regVars, sessionVars, drawerVars, dialog>>

SetDefaultStore(s) ==
    /\ s \in active
    /\ default' = {s}
    /\ UNCHANGED <<stores, active, overwritten, edit, regVars, sessionVars,
                   drawerVars, dialog>>

(* Activating an active store still makes it the default when none is. *)
ActivateStore(s) ==
    /\ s \in stores
    /\ active' = active \cup {s}
    /\ default' = IF (default \cap active) \ {s} = {} THEN default \cup {s}
                                                      ELSE default
    /\ UNCHANGED <<stores, overwritten, edit, regVars, sessionVars, drawerVars,
                   dialog>>

(* A faulty variant that leaves the business without a default store. *)
DropDefault(s) == default' = default \ {s}

(* The default passes to an active store, the first by name, when there is one. *)
PassDefault(s) ==
    IF s \in default
    THEN IF active \ {s} = {} THEN default' = default \ {s}
         ELSE \E t \in active \ {s} : default' = (default \ {s}) \cup {t}
    ELSE UNCHANGED default

(* A faulty variant without the look at the open sessions. *)
DeactivateStoreUnchecked(s) ==
    /\ s \in active
    /\ active' = active \ {s}
    /\ PassDefault(s)
    /\ UNCHANGED <<stores, overwritten, edit, regVars, sessionVars, drawerVars,
                   dialog>>

DeactivateStore(s) ==
    /\ s \in active
    /\ OpenSessionsIn(s) = {}
    /\ active' = active \ {s}
    /\ PassDefault(s)
    /\ UNCHANGED <<stores, overwritten, edit, regVars, sessionVars, drawerVars,
                   dialog>>

(* A store with registers is protected; other rows that protect one (sales,
   documents, stock) are not modelled. *)
DeleteStore(s) ==
    /\ s \in stores
    /\ \A r \in Registers : regStore[r] # s
    /\ stores' = stores \ {s}
    /\ active' = active \ {s}
    /\ PassDefault(s)
    /\ UNCHANGED <<overwritten, edit, regVars, sessionVars, drawerVars, dialog>>

(* The edition of name and address: StoreUpdateView reads the row ... *)
BeginEdit(e, s) ==
    /\ edit[e] = NoEdit
    /\ s \in stores
    /\ edit' = [edit EXCEPT ![e] = [store |-> s, active |-> s \in active,
                                    default |-> s \in default]]
    /\ UNCHANGED <<stores, active, default, overwritten, regVars, sessionVars,
                   drawerVars, dialog>>

(* ... and saves all its columns; an UPDATE that finds no row becomes an INSERT.
   A second default store is refused by the constraint of the model. *)
SaveEdit(e) ==
    LET s == edit[e].store
        on == edit[e].active
        first == on /\ DefaultAfterSave(s, edit[e].default)
    IN
    /\ edit[e] # NoEdit
    /\ edit' = [edit EXCEPT ![e] = NoEdit]
    /\ IF first /\ default \ {s} # {}
       THEN UNCHANGED <<stores, active, default, overwritten>>
       ELSE /\ stores' = stores \cup {s}
            /\ active' = IF on THEN active \cup {s} ELSE active \ {s}
            /\ default' = IF first THEN default \cup {s} ELSE default \ {s}
            /\ overwritten' = IF on = (s \in active) /\ first = (s \in default)
                              THEN overwritten ELSE overwritten \cup {s}
    /\ UNCHANGED <<regVars, sessionVars, drawerVars, dialog>>
-------------------------------------------------------------------------------
CreateRegister(r, s) ==
    /\ regStore[r] = None
    /\ s \in stores
    /\ regStore' = [regStore EXCEPT ![r] = s]
    /\ activeRegs' = activeRegs \cup {r}
    /\ UNCHANGED <<storeVars, sessionVars, drawerVars, dialog>>

ActivateRegister(r) ==
    /\ regStore[r] # None
    /\ activeRegs' = activeRegs \cup {r}
    /\ UNCHANGED <<storeVars, regStore, sessionVars, drawerVars, dialog>>

DeactivateRegister(r) ==
    /\ r \in activeRegs
    /\ OpenSessionsOf(r) = {}
    /\ activeRegs' = activeRegs \ {r}
    /\ UNCHANGED <<storeVars, regStore, sessionVars, drawerVars, dialog>>

OpenCashSession(x, r, a) ==
    /\ sessState[x] = "unopened"
    /\ regStore[r] \in active
    /\ r \in activeRegs
    /\ OpenSessionsOf(r) = {}
    /\ sessReg' = [sessReg EXCEPT ![x] = r]
    /\ sessState' = [sessState EXCEPT ![x] = "open"]
    /\ opening' = [opening EXCEPT ![x] = a]
    /\ expected' = [expected EXCEPT ![x] = a]
    /\ UNCHANGED <<storeVars, regVars, moves, counts, dialog>>
-------------------------------------------------------------------------------
StoreOf(x) == regStore[sessReg[x]]

(* The page of a session submits a movement, a review or the count of a closing
   (which is only prepared).  amount is the signed movement, or the count. *)
Begin(p, x, kind, n, why) ==
    /\ dialog[p] = NoDialog
    /\ sessState[x] # "unopened"
    /\ StoreOf(x) \in active
    /\ dialog' = [dialog EXCEPT ![p] =
                    [kind |-> kind, session |-> x, amount |-> n, reason |-> why,
                     shown |-> expected[x], entered |-> kind # "close"]]
    /\ UNCHANGED <<storeVars, regVars, sessionVars, drawerVars>>

(* The prepared closing is confirmed; its signed count cannot change. *)
ConfirmClose(p) ==
    /\ dialog[p].kind = "close" /\ ~dialog[p].entered
    /\ StoreOf(dialog[p].session) \in active
    /\ dialog' = [dialog EXCEPT ![p] = [@ EXCEPT !.entered = TRUE]]
    /\ UNCHANGED <<storeVars, regVars, sessionVars, drawerVars>>

(* The page is left, or the service refuses what it submitted. *)
Leave(p) ==
    /\ dialog[p] # NoDialog
    /\ dialog' = [dialog EXCEPT ![p] = NoDialog]
    /\ UNCHANGED <<storeVars, regVars, sessionVars, drawerVars>>

Row(d, balance, manual, why) ==
    [delta |-> d, after |-> balance, manual |-> manual, reason |-> why]

(* The movement row and the expected cash it leaves. *)
Insert(x, d, balance, manual, why) ==
    /\ Len(moves[x]) < MaxMoves
    /\ moves' = [moves EXCEPT ![x] = Append(@, Row(d, balance, manual, why))]
    /\ expected' = [expected EXCEPT ![x] = balance]
    /\ UNCHANGED counts

(* A faulty variant that computes with the session the view had read. *)
BalanceShown(p) == dialog[p].shown + dialog[p].amount

(* The balance after the movement of page p, read under the lock. *)
Balance(p) == expected[dialog[p].session] + dialog[p].amount

(* A faulty variant that asks for a reason only when the cash shown was short. *)
ReasonAsShown(p) ==
    dialog[p].shown + dialog[p].amount < 0 /\ dialog[p].amount < 0
        => dialog[p].reason

(* Taking out more than there is needs a reason. *)
ReasonGiven(p) ==
    Balance(p) < 0 /\ dialog[p].amount < 0 => dialog[p].reason

(* CashSession.is_open, under the lock. *)
IsOpen(x) == sessState[x] = "open"

FinishMovement(p) ==
    /\ dialog[p].kind = "movement"
    /\ IsOpen(dialog[p].session)
    /\ ReasonGiven(p)
    /\ Insert(dialog[p].session, dialog[p].amount, Balance(p), TRUE,
              dialog[p].reason)
    /\ dialog' = [dialog EXCEPT ![p] = NoDialog]
    /\ UNCHANGED <<storeVars, regVars, sessionVars>>

AddCount(x, type, n, e) ==
    /\ counts' = [counts EXCEPT
                    ![x] = Append(@, [type |-> type, counted |-> n, expected |-> e])]
    /\ UNCHANGED <<expected, moves>>

FinishReview(p) ==
    LET x == dialog[p].session IN
    /\ dialog[p].kind = "review"
    /\ IsOpen(x)
    /\ Len(counts[x]) < MaxCounts
    /\ AddCount(x, "review", dialog[p].amount, expected[x])
    /\ dialog' = [dialog EXCEPT ![p] = NoDialog]
    /\ UNCHANGED <<storeVars, regVars, sessionVars>>

(* A faulty variant that closes against the cash that the cashier reviewed. *)
ExpectedReviewed(p) == dialog[p].shown

(* The cash a closing is compared with. *)
ExpectedAtClosing(p) == expected[dialog[p].session]

(* The difference is counted - expected, of the row and of its last count. *)
FinishClose(p) ==
    LET x == dialog[p].session IN
    /\ dialog[p].kind = "close" /\ dialog[p].entered
    /\ IsOpen(x)
    /\ AddCount(x, "closing", dialog[p].amount, ExpectedAtClosing(p))
    /\ sessState' = [sessState EXCEPT ![x] = "closed"]
    /\ dialog' = [dialog EXCEPT ![p] = NoDialog]
    /\ UNCHANGED <<storeVars, regVars, sessReg, opening>>

(* register_payment_cash_movement, in the transaction of a payment or a refund
   that locked the session. *)
PaymentMovement(x, d) ==
    /\ IsOpen(x) /\ sessReg[x] \in activeRegs
    /\ Insert(x, d, expected[x] + d, FALSE, FALSE)
    /\ UNCHANGED <<storeVars, regVars, sessionVars, dialog>>
-------------------------------------------------------------------------------
StoreNext ==
    \/ \E s \in Stores : \/ CreateStore(s) \/ SetDefaultStore(s)
                         \/ ActivateStore(s) \/ DeactivateStore(s)
                         \/ DeleteStore(s)
    \/ \E e \in Editors : \/ \E s \in Stores : BeginEdit(e, s)
                          \/ SaveEdit(e)

RegisterNext ==
    \E r \in Registers : \/ \E s \in Stores : CreateRegister(r, s)
                         \/ ActivateRegister(r)
                         \/ DeactivateRegister(r)
                         \/ \E x \in Sessions, a \in 0 .. MaxCash :
                               OpenCashSession(x, r, a)

DialogNext ==
    \E p \in Dialogs :
        \/ \E x \in Sessions :
              \/ \E d \in Deltas, why \in BOOLEAN : Begin(p, x, "movement", d, why)
              \/ \E n \in 0 .. MaxCash, kind \in {"review", "close"} :
                    Begin(p, x, kind, n, FALSE)
        \/ ConfirmClose(p) \/ Leave(p)
        \/ FinishMovement(p) \/ FinishReview(p) \/ FinishClose(p)

CashNext ==
    \/ StoreNext \/ RegisterNext \/ DialogNext
    \/ \E x \in Sessions, d \in Deltas : PaymentMovement(x, d)

CashSpec == CashInit /\ [][CashNext]_cashVars
-------------------------------------------------------------------------------
(* An open session can be worked with and closed: its register and its store are
   active and it is the only one of its register, whatever opened, deactivated
   and activated in between.  The exception: the edition of a store that wrote an
   older state over it (see OpenSessionsInActiveStores). *)
OpenSessionsOperable ==
    \A x \in Sessions : sessState[x] = "open" =>
        /\ sessReg[x] \in activeRegs
        /\ StoreOf(x) \in active \cup overwritten
        /\ OpenSessionsOf(sessReg[x]) = {x}

(* As the comment of deactivate_store has it: no store is inactive while one of
   its sessions is open. *)
OpenSessionsInActiveStores ==
    \A x \in Sessions : sessState[x] = "open" => StoreOf(x) \in active

(* A business with an active store has exactly one default store, through every
   creation, activation, deactivation and deletion; no edition makes it two. *)
OneDefaultStore ==
    /\ \A s, t \in default : s = t
    /\ active # {} /\ overwritten = {} => default # {}

(* The movements of a session explain its expected cash one after the other from
   its opening: no movement is computed from a balance already spent.  A manual one
   that leaves a shortage in the drawer says why, even when the cash it counted on
   went out while its page was open. *)
MovementsFromOpening ==
    \A x \in Sessions :
        /\ \A i \in 1 .. Len(moves[x]) :
              LET m == moves[x][i] IN
              /\ m.after = m.delta + (IF i = 1 THEN opening[x] ELSE moves[x][i - 1].after)
              /\ m.manual /\ m.delta < 0 /\ m.after < 0 => m.reason
        /\ expected[x] = IF moves[x] = <<>> THEN opening[x]
                         ELSE moves[x][Len(moves[x])].after

(* A session has a closing count exactly when it is closed, one, the last, and it
   was compared with the cash of the movements, not with the cash on the page. *)
ClosedByItsLastCount ==
    \A x \in Sessions :
        LET closing == {i \in 1 .. Len(counts[x]) : counts[x][i].type = "closing"} IN
        /\ closing = IF sessState[x] = "closed" THEN {Len(counts[x])} ELSE {}
        /\ \A i \in closing : counts[x][i].expected = expected[x]

===============================================================================
