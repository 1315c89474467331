-------------------------------- MODULE Billing --------------------------------
(***************************************************************************)
(* The fiscal documents of apps/billing/services.py: an invoice or a       *)
(* simplified one for a completed sale (F1, F2), an invoice in place of a  *)
(* simplified one (F3), a rectification for a completed return (R1, R5),   *)
(* with an F3 of its own when the simplified invoice had been replaced.    *)
(*                                                                         *)
(* A command is one transaction that holds the lock of its sale, but it    *)
(* reads its series and its key before it locks the series: two actions,   *)
(* Begin... and Finish, with other sales, other keys and the pages of the  *)
(* series in between.  A refusal or a crash rolls everything back.  A      *)
(* document is known by its idempotency key, and the F3 of a rectification *)
(* by the key derived from it (uuid5); a fingerprint is the intent itself. *)
(***************************************************************************)
EXTENDS Integers, FiniteSets

CONSTANTS
    Sales, Returns,       \* rows of Sale and SaleReturn
    Keys,                 \* idempotency keys
    Series,               \* rows of BillingSeries
    Commands,             \* commands in progress
    None,                 \* a null foreign key
    Types,                \* document types of the series
    MaxYear, MaxNumber    \* bounds on the years and on the numbers of a series

ASSUME BillingAssumption ==
    /\ None \notin Sales \cup Returns \cup Keys \cup Series
    /\ Types \subseteq {"F1", "F2", "F3", "R1", "R5"}
    /\ MaxYear \in Nat \ {0} /\ MaxNumber \in Nat

VARIABLES
    wanted, saleStatus,   \* the type a sale asks for (F1, F2); Sale.status
    retSale, anchor,      \* a completed return: its sale, its original document
    series,               \* BillingSeries rows
    doc, companion,       \* issued documents by key and by derived key
    command,              \* what a command has decided before it locks the series
    year                  \* the local year of now()

salesVars == <<wanted, saleStatus, retSale>>
documentVars == <<series, doc, companion, anchor>>
billingVars == <<salesVars, documentVars, command, year>>

NoSeries == [type |-> "none", year |-> 0, active |-> FALSE, number |-> 0]
NoIntent == [op |-> "none", sale |-> None, ret |-> None, type |-> "none",
             series |-> None, target |-> None, companion |-> None, f3 |-> None]
NoDocument == [intent |-> NoIntent, number |-> 0, year |-> 0]
Idle == [key |-> None, intent |-> NoIntent, year |-> 0]

BillingInit ==
    /\ wanted \in [Sales -> {"F1", "F2"}]
    /\ saleStatus = [s \in Sales |-> "completed"]
    /\ retSale = [r \in Returns |-> None]
    /\ anchor = [r \in Returns |-> None]
    /\ series = [x \in Series |-> NoSeries]
    /\ doc = [k \in Keys |-> NoDocument]
    /\ companion = [k \in Keys |-> NoDocument]
    /\ command = [q \in Commands |-> Idle]
    /\ year = 1
-------------------------------------------------------------------------------
(* The history of a sale. *)
Of(op) == {k \in Keys : doc[k].intent.op = op}
Initial(s) == {k \in Of("issue") : doc[k].intent.sale = s}
Simplified(s) == {k \in Initial(s) : doc[k].intent.type = "F2"}
Substitutions(k) == {m \in Of("substitute") : doc[m].intent.target = k}
Rectifications(r) == {k \in Of("rectify") : doc[k].intent.ret = r}

Used(x) == \E k \in Keys : \/ doc[k].intent.series = x
                           \/ companion[k].intent.series = x

(* _resolve_return_original: the anchor of the return, or the only candidate. *)
Originals(r) == IF anchor[r] # None THEN {anchor[r]} ELSE Initial(retSale[r])

RectificationType(k) == IF doc[k].intent.type = "F1" THEN "R1" ELSE "R5"

(* A faulty variant that takes the newest F3 of the sale. *)
InitialF3OfSale(k) ==
    LET newest == {m \in Keys : /\ companion[m] # NoDocument
                                /\ companion[m].intent.sale = doc[k].intent.sale} IN
    IF newest = {} THEN Substitutions(k) ELSE newest

(* _initial_f3_for_f2 *)
InitialF3(k) == IF RectificationType(k) = "R5" THEN Substitutions(k) ELSE {}
OneOf(S) == IF S = {} THEN None ELSE CHOOSE k \in S : TRUE

(* The payloads that are fingerprinted. *)
IssueIntent(s, x) ==
    [op |-> "issue", sale |-> s, ret |-> None, type |-> wanted[s], series |-> x,
     target |-> None, companion |-> None, f3 |-> None]
SubstitutionIntent(s, x) ==
    [op |-> "substitute", sale |-> s, ret |-> None, type |-> "F3", series |-> x,
     target |-> OneOf(Simplified(s)), companion |-> None, f3 |-> None]
RectificationIntent(r, x, y) ==
    LET original == OneOf(Originals(r)) IN
    [op |-> "rectify", sale |-> retSale[r], ret |-> r, target |-> original,
     type |-> RectificationType(original), series |-> x, companion |-> y,
     f3 |-> OneOf(InitialF3(original))]
CompanionIntent(k, i) ==
    [op |-> "companion", sale |-> i.sale, ret |-> i.ret, type |-> "F3",
     series |-> i.companion, target |-> k, companion |-> None, f3 |-> i.f3]

(* _validate_series *)
Fits(x, type, y) ==
    /\ series[x].active
    /\ series[x].type = type /\ series[x].year = y

(* A faulty variant that reads the sale without its lock. *)
UnlockedFor(s) == TRUE

(* _lock_sale *)
Unlocked(s) == \A q \in Commands : command[q].intent.sale # s

KeyFree(k) == doc[k] = NoDocument
-------------------------------------------------------------------------------
(* What a command decides under the lock of its sale.  A key seen before does
   not come this far: see Retry. *)
Begin(q, k, i) ==
    /\ command[q] = Idle /\ KeyFree(k)
    /\ Unlocked(i.sale)
    /\ Fits(i.series, i.type, year)
    /\ command' = [command EXCEPT ![q] = [key |-> k, intent |-> i, year |-> year]]
    /\ UNCHANGED <<salesVars, documentVars, year>>

(* issue_sale_document *)
BeginIssue(q, k, s, x) ==
    /\ saleStatus[s] = "completed"
    /\ Initial(s) = {}
    /\ Begin(q, k, IssueIntent(s, x))

(* substitute_simplified_document *)
BeginSubstitution(q, k, s, x) ==
    /\ saleStatus[s] = "completed"
    /\ Cardinality(Simplified(s)) = 1
    /\ Substitutions(OneOf(Simplified(s))) = {}
    /\ Begin(q, k, SubstitutionIntent(s, x))

(* A faulty variant that asks for the second series only if it was given. *)
CompanionIfGiven(r, y) == y # None => Fits(y, "F3", year)

(* A second series is given exactly when the history needs it. *)
CompanionAsNeeded(r, y) ==
    IF InitialF3(OneOf(Originals(r))) = {} THEN y = None
                                           ELSE y # None /\ Fits(y, "F3", year)

(* issue_sale_return_rectification *)
BeginRectification(q, k, r, x, y) ==
    /\ retSale[r] # None
    /\ Cardinality(Originals(r)) = 1
    /\ CompanionAsNeeded(r, y)
    /\ Rectifications(r) = {}
    /\ Begin(q, k, RectificationIntent(r, x, y))

(* The unique constraint on the keys: a key that another sale won meanwhile is
   refused, the derived key as well. *)
Insertable(k) == KeyFree(k) /\ companion[k] = NoDocument

(* A faulty variant that trusts the series it read before it had the lock. *)
StillFits(x, type, y) == series[x].type # "none"

(* _lock_series reads the series again, locked, and validates it again. *)
LockedFits(x, type, y) == Fits(x, type, y)

Document(i, y) == [intent |-> i, number |-> series[i.series].number + 1, year |-> y]

(* The document and its companion take the next numbers of their series. *)
Finish(q) ==
    LET k == command[q].key
        i == command[q].intent
        y == command[q].year
        taken == {x \in {i.series, i.companion} : x # None} IN
    /\ command[q] # Idle
    /\ Insertable(k)
    /\ LockedFits(i.series, i.type, y)
    /\ i.companion # None => LockedFits(i.companion, "F3", y)
    /\ \A x \in taken : series[x].number < MaxNumber
    /\ doc' = [doc EXCEPT ![k] = Document(i, y)]
    /\ companion' = IF i.companion = None THEN companion
                    ELSE [companion EXCEPT ![k] = Document(CompanionIntent(k, i), y)]
    /\ series' = [x \in Series |-> IF x \in taken
                                   THEN [series[x] EXCEPT !.number = @ + 1]
                                   ELSE series[x]]
    /\ anchor' = IF i.op = "rectify" THEN [anchor EXCEPT ![i.ret] = i.target]
                                     ELSE anchor
    /\ command' = [command EXCEPT ![q] = Idle]
    /\ UNCHANGED <<salesVars, year>>

(* A faulty variant that has already taken the number of its series. *)
FailConsuming(q) ==
    LET x == command[q].intent.series IN
    /\ command[q] # Idle
    /\ command' = [command EXCEPT ![q] = Idle]
    /\ series' = [series EXCEPT ![x].number = @ + 1]
    /\ UNCHANGED <<salesVars, doc, companion, anchor, year>>

(* A refusal after the lock, amounts that cannot be split, a crash. *)
Fail(q) ==
    /\ command[q] # Idle
    /\ command' = [command EXCEPT ![q] = Idle]
    /\ UNCHANGED <<salesVars, documentVars, year>>
-------------------------------------------------------------------------------
(* The pages of the series. *)
CreateSeries(x, type, y) ==
    /\ series[x] = NoSeries
    /\ series' = [series EXCEPT ![x] = [type |-> type, year |-> y, active |-> TRUE,
                                        number |-> 0]]
    /\ UNCHANGED <<salesVars, doc, companion, anchor, command, year>>

(* The identity of a series with issued documents is immutable. *)
Editable(x) == ~Used(x)

UpdateSeries(x, type, y) ==
    /\ series[x] # NoSeries /\ Editable(x)
    /\ series' = [series EXCEPT ![x].type = type, ![x].year = y]
    /\ UNCHANGED <<salesVars, doc, companion, anchor, command, year>>

SetSeriesActive(x, active) ==
    /\ series[x] # NoSeries
    /\ series' = [series EXCEPT ![x].active = active]
    /\ UNCHANGED <<salesVars, doc, companion, anchor, command, year>>

(* A return of the sale is completed, under the lock of the sale. *)
CompleteReturn(r, s, full) ==
    /\ retSale[r] = None
    /\ saleStatus[s] = "completed" /\ Unlocked(s)
    /\ retSale' = [retSale EXCEPT ![r] = s]
    /\ saleStatus' = [saleStatus EXCEPT ![s] = IF full THEN "returned" ELSE @]
    /\ UNCHANGED <<wanted, documentVars, command, year>>

NewYear ==
    /\ year < MaxYear
    /\ year' = year + 1
    /\ UNCHANGED <<salesVars, documentVars, command>>

CommandStep(q) ==
    \/ \E k \in Keys, x \in Series :
           \/ \E s \in Sales : BeginIssue(q, k, s, x) \/ BeginSubstitution(q, k, s, x)
           \/ \E r \in Returns, y \in Series \cup {None} :
                  BeginRectification(q, k, r, x, y)
    \/ Finish(q)
    \/ Fail(q)

SeriesStep(x) ==
    \/ \E type \in Types, y \in 1 .. MaxYear : \/ CreateSeries(x, type, y)
                                               \/ UpdateSeries(x, type, y)
    \/ \E active \in BOOLEAN : SetSeriesActive(x, active)

BillingNext ==
    \/ \E q \in Commands : CommandStep(q)
    \/ \E x \in Series : SeriesStep(x)
    \/ \E r \in Returns, s \in Sales, full \in BOOLEAN : CompleteReturn(r, s, full)
    \/ NewYear

BillingSpec == BillingInit /\ [][BillingNext]_billingVars
-------------------------------------------------------------------------------
Row == [type : {"none", "F1", "F2", "F3", "R1", "R5"}, year : 0 .. MaxYear,
        active : BOOLEAN, number : Nat]
Intent == [op : {"none", "issue", "substitute", "rectify", "companion"},
           sale : Sales \cup {None}, ret : Returns \cup {None},
           type : {"none", "F1", "F2", "F3", "R1", "R5"},
           series : Series \cup {None}, target : Keys \cup {None},
           companion : Series \cup {None}, f3 : Keys \cup {None}]
Issued == [intent : Intent, number : Nat, year : 0 .. MaxYear]

(* Every variable keeps to what its rows store. *)
BillingTypeOK ==
    /\ wanted \in [Sales -> {"F1", "F2"}]
    /\ saleStatus \in [Sales -> {"completed", "returned"}]
    /\ retSale \in [Returns -> Sales \cup {None}]
    /\ anchor \in [Returns -> Keys \cup {None}]
    /\ series \in [Series -> Row]
    /\ doc \in [Keys -> Issued] /\ companion \in [Keys -> Issued]
    /\ command \in [Commands -> [key : Keys \cup {None}, intent : Intent,
                                 year : 0 .. MaxYear]]
    /\ year \in 1 .. MaxYear

Own(x) == {k \in Keys : doc[k].intent.series = x}
Derived(x) == {k \in Keys : companion[k].intent.series = x}

(* The numbers of a series are 1, 2, ... without a gap or a repetition, although
   commands of several sales issue at once and some of them roll back; and each
   document is of the type and the year of its series for good, although the series
   may be edited between the choice of the command and its number. *)
NumbersCorrelative ==
    /\ \A x \in Series :
          /\ {doc[k].number : k \in Own(x)} \cup {companion[k].number : k \in Derived(x)}
                 = 1 .. series[x].number
          /\ Cardinality(Own(x)) + Cardinality(Derived(x)) = series[x].number
    /\ \A k \in Keys : \A d \in {doc[k], companion[k]} \ {NoDocument} :
          /\ series[d.intent.series].type = d.intent.type
          /\ series[d.intent.series].year = d.year

(* Commands with different keys never give a sale two initial documents, a
   simplified invoice two substitutions, or a return two rectifications. *)
OneOfEach ==
    /\ \A s \in Sales : Cardinality(Initial(s)) <= 1
    /\ \A k \in Keys : Cardinality(Substitutions(k)) <= 1
    /\ \A r \in Returns : Cardinality(Rectifications(r)) <= 1

(* A return is rectified against the initial document of its own sale, which its
   anchor keeps: R1 for an F1, R5 for an F2, and with an F3 of the same return
   exactly if the F2 had an F3. *)
RectifiesTheOriginal ==
    \A k \in Of("rectify") :
        LET i == doc[k].intent IN
        /\ anchor[i.ret] = i.target
        /\ i.target \in Initial(retSale[i.ret]) /\ i.sale = retSale[i.ret]
        /\ i.type = "R1" <=> doc[i.target].intent.type = "F1"
        /\ i.f3 # None => Substitutions(i.target) = {i.f3}
        /\ companion[k] = IF i.f3 = None THEN NoDocument
                          ELSE [companion[k] EXCEPT !.intent = CompanionIntent(k, i)]
        /\ i.f3 # None => companion[k].number > 0

(* A rectification sent again derives the intent it was issued with from the anchor
   and the history, whatever was issued, returned or edited since, with one
   exception: if its simplified invoice got its F3 only afterwards, the code asks for
   a companion that the first request had not, and the retry is refused. *)
DerivesTheSame(i) == RectificationIntent(i.ret, i.series, i.companion) = i

RetryFindsItsDocument ==
    \A k \in Of("rectify") :
        LET i == doc[k].intent IN
        DerivesTheSame(i) <=> (i.f3 = None => Substitutions(i.target) = {})

(* "Idempotency fingerprints protect intent, retries return the same result": a
   rectification sent again finds its document after any history. *)
RetriesReturnTheSame == \A k \in Of("rectify") : DerivesTheSame(doc[k].intent)
===============================================================================
