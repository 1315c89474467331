--------------------------------- MODULE Cart ---------------------------------
(***************************************************************************)
(* The optimistic cart: one sale on the server (apps/sales/cart.py) and    *)
(* the queue of one browser tab that edits it (static/js/sales_cart.js).   *)
(* The tab shows its intents at once and sends them later, one request at  *)
(* a time; requests are delayed, answers are lost, the tab reloads, and    *)
(* other editors change the same sale.  A handler of the server holds the  *)
(* lock of the sale row, and a function of the queue runs between two      *)
(* awaits without interruption: each is one action.                        *)
(*                                                                         *)
(* An operation is known by the number of its creation, which stands for   *)
(* its UUID and its order; the line it adds is known by the same number.   *)
(* What a cart holds is the quantity of each line.  The fields saw, over   *)
(* and foreign and the variables foreign, applied and gone are history:    *)
(* no action reads them.                                                   *)
(***************************************************************************)
EXTENDS Integers, FiniteSets, Sequences, SequencesExt

CONSTANTS
    MaxOps,               \* bound on the operations the tab creates
    MaxQuantity,          \* bound on the quantity of a line
    MaxBatch,             \* operations a batch may carry
    MaxSends,             \* bound on the requests the tab sends
    MaxForeign,           \* bound on the changes of other editors
    MaxHeaders            \* bound on the header forms the tab saves

ASSUME CartAssumption ==
    /\ MaxOps \in Nat \ {0} /\ MaxQuantity \in Nat \ {0} /\ MaxBatch \in Nat \ {0}
    /\ MaxSends \in Nat /\ MaxForeign \in Nat /\ MaxHeaders \in Nat

Keys == 1 .. MaxOps
Lines == 0 .. MaxOps      \* line 0 was there before the tab was opened

VARIABLES
    version, lines,       \* Sale.cart_version; quantity of each line, 0 if absent
    open,                 \* the sale is editable
    receipt,              \* receipt[k]: the CartOperation row of key k
    foreign, applied,     \* history: changes of others; keys in order of effect
    ops, flight,          \* the queue and the batch under way (sessionStorage)
    mapped,               \* adds whose line id is known (sessionStorage)
    cart,                 \* the snapshot the tab shows
    pc,                   \* what the queue awaits; see Free
    error, conflict, rejected, ready,   \* flags of the queue
    own, headers,         \* transitions of the version by own header forms; how many
    header, headerPending, headerError, \* the form under way and its flags
    created, gone,        \* operations created so far; history: why one was dropped
    wire, sends, reply,   \* requests on their way; how many; the awaited answer
    reads                 \* snapshots on their way to the pump or to the page

serverVars == <<version, lines, open, receipt, foreign, applied>>
storedVars == <<ops, flight, mapped>>
flagVars   == <<error, conflict, rejected, ready>>
headerVars == <<own, headers, header, headerPending, headerError>>
netVars    == <<wire, sends, reply, reads>>
cartVars   == <<serverVars, storedVars, cart, pc, flagVars, headerVars, created,
                gone, netVars>>

NotSent == -1
NoReceipt == [version |-> NotSent]
NoReply == [status |-> "none"]
NoRead == [cart |-> NotSent]
NoHeader == [state |-> "none", previous |-> 0, current |-> 0]

(* Not busy: idle, or parked when discard ended, which does not call the pump. *)
Free == pc \in {"idle", "parked"}

Content(op) == [kind |-> op.kind, line |-> op.line, quantity |-> op.quantity]
KeysOf(seq) == {seq[i].key : i \in DOMAIN seq}

(* The elements of seq at the positions S. *)
Keep(seq, S) ==
    LET kept[n \in 0 .. Len(seq)] ==
            IF n = 0 THEN <<>>
            ELSE IF n \in S THEN Append(kept[n - 1], seq[n]) ELSE kept[n - 1]
    IN kept[Len(seq)]

Snapshot == [version |-> version, lines |-> lines, open |-> open,
             foreign |-> foreign]
Confirmed == {k \in Keys : receipt[k] # NoReceipt}

CartInit ==
    /\ version = 0 /\ lines = [l \in Lines |-> IF l = 0 THEN 1 ELSE 0]
    /\ open = TRUE
    /\ receipt = [k \in Keys |-> NoReceipt]
    /\ foreign = 0 /\ applied = <<>>
    /\ ops = <<>> /\ flight = <<>> /\ mapped = {}
    /\ cart = Snapshot
    /\ pc = "idle"
    /\ error = FALSE /\ conflict = FALSE /\ rejected = FALSE /\ ready = FALSE
    /\ own = {} /\ headers = 0 /\ header = NoHeader
    /\ headerPending = FALSE /\ headerError = FALSE
    /\ created = 0 /\ gone = [k \in Keys |-> "no"]
    /\ wire = {} /\ sends = 0 /\ reply = NoReply
    /\ reads = [r \in {"pump", "page"} |-> NoRead]
-------------------------------------------------------------------------------
(* The server.  mutate and mutate_batch differ in the number of operations. *)
ReceiptsOf(m) == KeysOf(m.ops) \cap Confirmed
Known(m) ==
    /\ ReceiptsOf(m) = KeysOf(m.ops)
    /\ \A i \in DOMAIN m.ops :
           receipt[m.ops[i].key].content = Content(m.ops[i])

(* A provisional line is named by the operation that adds it, in a batch only. *)
Resolved(m) ==
    \A i \in DOMAIN m.ops :
        \/ m.ops[i].bound
        \/ Len(m.ops) > 1 /\ m.ops[i].line \in Confirmed \cup
                                                   KeysOf(SubSeq(m.ops, 1, i - 1))
WellFormed(m) == Len(m.ops) = 1 => m.ops[1].bound

Target(op) == IF op.kind = "add" THEN op.key ELSE op.line
NewQuantity(op) == IF op.kind = "delete" THEN 0 ELSE op.quantity

(* add_sale_line, update_sale_line, delete_sale_line: an equal line is no change. *)
Effect(st, op) ==
    LET same == st.lines[Target(op)] = NewQuantity(op)
        after == IF same THEN st.version ELSE st.version + 1 IN
    [fault |-> FALSE, version |-> after, stored |-> Append(st.stored, after),
     lines |-> [st.lines EXCEPT ![Target(op)] = NewQuantity(op)]]

ApplyOne(st, op) ==
    IF st.fault \/ (op.kind # "add" /\ st.lines[op.line] = 0)
    THEN [st EXCEPT !.fault = TRUE]
    ELSE Effect(st, op)
Execute(seq) ==
    LET start == [fault |-> FALSE, version |-> version, lines |-> lines,
                  stored |-> <<>>]
        done[n \in 0 .. Len(seq)] == IF n = 0 THEN start
                                     ELSE ApplyOne(done[n - 1], seq[n])
    IN done[Len(seq)]

Fresh(m) == WellFormed(m) /\ ReceiptsOf(m) = {} /\ open

(* A faulty variant that takes an operation for an older cart. *)
AcceptableAnyVersion(m) ==
    /\ Fresh(m) /\ m.version <= version
    /\ Resolved(m) /\ ~Execute(m.ops).fault

Acceptable(m) ==
    /\ Fresh(m) /\ m.version = version
    /\ Resolved(m) /\ ~Execute(m.ops).fault

(* The answer reaches the pump if it still waits for this very request. *)
Answer(m, status, accepted) ==
    /\ wire' = wire \ {m}
    /\ reply' = IF pc = "sending" /\ m.attempt = sends
                THEN [status |-> status, accepted |-> accepted, cart |-> Snapshot']
                ELSE reply
    /\ UNCHANGED <<sends, reads, storedVars, cart, pc, flagVars, headerVars,
                   created, gone>>

(* A faulty variant that executes again what it finds receipts for. *)
ReplayAgain(m) ==
    /\ WellFormed(m) /\ Known(m) /\ ~Execute(m.ops).fault
    /\ LET done == Execute(m.ops) IN
       /\ version' = done.version /\ lines' = done.lines
       /\ applied' = applied \o [i \in DOMAIN m.ops |-> m.ops[i].key]
       /\ UNCHANGED <<open, receipt, foreign>>
       /\ Answer(m, "ok", Last(done.stored))

(* Every operation of the request has its receipt. *)
Replay(m) ==
    /\ WellFormed(m) /\ Known(m)
    /\ UNCHANGED serverVars
    /\ Answer(m, "ok", receipt[Last(m.ops).key].version)

Accept(m) ==
    LET done == Execute(m.ops) IN
    /\ Acceptable(m)
    /\ version' = done.version /\ lines' = done.lines
    /\ receipt' = [k \in Keys |->
           IF k \in KeysOf(m.ops)
           THEN LET i == CHOOSE i \in DOMAIN m.ops : m.ops[i].key = k IN
                [version |-> done.stored[i], content |-> Content(m.ops[i]),
                 saw |-> m.ops[i].saw, over |-> foreign]
           ELSE receipt[k]]
    /\ applied' = applied \o [i \in DOMAIN m.ops |-> m.ops[i].key]
    /\ UNCHANGED <<open, foreign>>
    /\ Answer(m, "ok", Last(done.stored))

RefuseVersion(m) ==
    /\ Fresh(m) /\ m.version # version
    /\ UNCHANGED serverVars
    /\ Answer(m, "version", 0)

(* 422, or 409 for a key or a line, which the queue treats alike: what the guards
   above exclude, and what a rule kept elsewhere excludes.  The seller's access is
   checked before the receipts are looked for, and products, prices and settings
   before an effect; an administrator may change them between two requests, hence
   any request may end here. *)
Refuse(m) ==
    /\ UNCHANGED serverVars
    /\ Answer(m, "refused", 0)

Serve(m) == Replay(m) \/ Accept(m) \/ RefuseVersion(m) \/ Refuse(m)

(* GET: a snapshot under the lock, with the receipts of what is queued. *)
Reading == pc \in {"refreshing", "discarding"}
AfterRead == IF pc = "discarding" THEN "parked" ELSE "idle"

ServeRead(r) ==
    /\ reads[r] = NoRead
    /\ r = "pump" => Reading
    /\ reads' = [reads EXCEPT ![r] = [cart |-> Snapshot,
                                      receipts |-> KeysOf(ops) \cap Confirmed]]
    /\ UNCHANGED <<serverVars, storedVars, cart, pc, flagVars, headerVars, created,
                   gone, wire, sends, reply>>

(* Other editors: another tab, the forms without the queue, the checkout. *)
EditElsewhere ==
    /\ open /\ foreign < MaxForeign
    /\ foreign' = foreign + 1 /\ version' = version + 1
    /\ \/ UNCHANGED lines
       \/ \E l \in Lines, n \in 0 .. MaxQuantity :
              lines[l] > 0 /\ lines' = [lines EXCEPT ![l] = n]
    /\ UNCHANGED <<open, receipt, applied, storedVars, cart, pc, flagVars,
                   headerVars, created, gone, netVars>>

CompleteElsewhere ==
    /\ open /\ open' = FALSE
    /\ UNCHANGED <<version, lines, receipt, foreign, applied, storedVars,
                   cart, pc, flagVars, headerVars, created, gone, netVars>>
-------------------------------------------------------------------------------
(* A faulty variant that takes the newest version its forms produced. *)
AdvanceToLatest(moves, v) ==
    CHOOSE u \in {v} \cup {p[2] : p \in moves} :
        \A w \in {v} \cup {p[2] : p \in moves} : w <= u

(* The queue.  A version follows the header forms this tab saved itself. *)
AdvanceBy(moves, v) ==
    LET next[u \in Nat] == IF \E p \in moves : p[1] = u
                           THEN next[(CHOOSE p \in moves : p[1] = u)[2]]
                           ELSE u
    IN next[v]

Advance(v) == AdvanceBy(own, v)

Unsent(op) == op.version = NotSent
Rebased(seq, v) ==
    [i \in DOMAIN seq |-> IF Unsent(seq[i]) THEN [seq[i] EXCEPT !.base = v]
                                            ELSE seq[i]]

(* What the tab shows and the cashier can act on. *)
Shown ==
    ({l \in Lines : cart.lines[l] > 0}
        \cup {ops[i].key : i \in {j \in DOMAIN ops : ops[j].kind = "add"}})
      \ {ops[i].line : i \in {j \in DOMAIN ops : ops[j].kind = "delete"}}

(* A faulty variant that forgets that the last operation may have been sent. *)
CoalescesAny(line) ==
    /\ ops # <<>>
    /\ Last(ops).kind = "quantity" /\ Last(ops).line = line

(* The last operation takes a new quantity while it has not been sent. *)
Coalesces(line) ==
    /\ ops # <<>>
    /\ Last(ops).kind = "quantity" /\ Last(ops).line = line
    /\ Unsent(Last(ops)) /\ Last(ops).key \notin KeysOf(flight)

Coalesce(line, n) ==
    /\ ~rejected /\ cart.open
    /\ Coalesces(line)
    /\ ops' = [ops EXCEPT ![Len(ops)].quantity = n]
    /\ UNCHANGED <<serverVars, flight, mapped, cart, pc, flagVars, headerVars,
                   created, gone, netVars>>

(* enqueue, for every intent of one gesture: removing part of a group of lines is
   a deletion and one more change. *)
Enqueue(intents) ==
    /\ ~rejected /\ cart.open
    /\ created + Len(intents) <= MaxOps
    /\ intents[1].kind = "quantity" => ~Coalesces(intents[1].line)
    /\ created' = created + Len(intents)
    /\ ops' = ops \o [i \in DOMAIN intents |->
           [key |-> created + i, kind |-> intents[i].kind, line |-> intents[i].line,
            quantity |-> intents[i].quantity, base |-> cart.version,
            version |-> NotSent, saw |-> cart.foreign]]
    /\ pc' = IF pc = "parked" THEN "idle" ELSE pc
    /\ UNCHANGED <<serverVars, flight, mapped, cart, flagVars, headerVars, gone,
                   netVars>>

Intent(kind, l, n) == [kind |-> kind, line |-> l, quantity |-> n]
Deletions == {Intent("delete", l, 0) : l \in Shown}
Quantities == {Intent("quantity", l, n) : l \in Shown, n \in 1 .. MaxQuantity}

Edit ==
    \/ Enqueue(<<Intent("add", 0, 1)>>)
    \/ \E first \in Deletions \cup Quantities : Enqueue(<<first>>)
    \/ \E first \in Deletions, second \in Deletions \cup Quantities :
           first.line # second.line /\ Enqueue(<<first, second>>)
    \/ \E l \in Shown, n \in 1 .. MaxQuantity : Coalesce(l, n)

CanPump ==
    /\ ready /\ ~headerPending /\ ~headerError
    /\ Free /\ ~error /\ ops # <<>>
HeadIsStale == Unsent(ops[1]) /\ ops[1].base # cart.version

(* The cart is not the one the first operation was made for. *)
PumpConflict ==
    /\ CanPump /\ HeadIsStale
    /\ conflict' = TRUE /\ rejected' = TRUE /\ error' = TRUE
    /\ pc' = "refreshing"
    /\ UNCHANGED <<serverVars, storedVars, cart, ready, headerVars, created, gone,
                   netVars>>

(* A faulty variant that stores the version of a batch and not of one operation. *)
NewBatchUnstamped ==
    LET n == Cardinality({i \in DOMAIN ops \cap 1 .. MaxBatch :
                              \A j \in 1 .. i : Unsent(ops[j])}) IN
    IF n > 1 THEN [i \in 1 .. n |-> [ops[i] EXCEPT !.version = cart.version]]
    ELSE <<ops[1]>>

(* The leading operations that were never sent and were made for the same cart. *)
Leading ==
    {i \in DOMAIN ops : /\ i <= MaxBatch
                        /\ \A j \in 1 .. i : Unsent(ops[j])
                        /\ ops[i].base = ops[1].base}
NewBatch ==
    LET batch == Keep(ops, Leading) IN
    [i \in DOMAIN batch |-> [batch[i] EXCEPT !.version = cart.version]]

ToSend ==
    IF flight # <<>> THEN flight
    ELSE IF Unsent(ops[1]) THEN NewBatch ELSE <<ops[1]>>

(* A line is named by its id once the answer of its addition was seen. *)
OnWire(seq) ==
    [i \in DOMAIN seq |->
        [key |-> seq[i].key, kind |-> seq[i].kind, line |-> seq[i].line,
         quantity |-> seq[i].quantity, saw |-> seq[i].saw,
         bound |-> seq[i].kind = "add" \/ seq[i].line \in mapped \cup {0}]]

Stamped(seq, sent) ==
    [i \in DOMAIN seq |->
        IF seq[i].key \in KeysOf(sent)
        THEN sent[CHOOSE j \in DOMAIN sent : sent[j].key = seq[i].key]
        ELSE seq[i]]

(* The batch is stored before it is sent; one operation is stored in its place. *)
PumpSend ==
    LET sent == ToSend IN
    /\ CanPump /\ ~HeadIsStale
    /\ sends < MaxSends
    /\ sends' = sends + 1
    /\ ops' = Stamped(ops, sent)
    /\ flight' = IF Len(sent) > 1 THEN sent ELSE <<>>
    /\ wire' = wire \cup {[attempt |-> sends + 1, version |-> sent[1].version,
                           ops |-> OnWire(sent)]}
    /\ pc' = "sending"
    /\ UNCHANGED <<serverVars, mapped, cart, flagVars, headerVars, created, gone,
                   reply, reads>>

(* A faulty variant that takes the answer for one to all that is queued. *)
SendingEverything == ops

(* What the awaited answer is about. *)
Sending == IF flight # <<>> THEN flight ELSE <<ops[1]>>

Added(seq) == {seq[i].key : i \in {j \in DOMAIN seq : seq[j].kind = "add"}}

(* A faulty variant that compares with the version that was sent out. *)
ForeignUnlessNewer(shown) == shown < Advance(reply.accepted)

(* Someone else moved the version past the one the operations produced. *)
ForeignChange(shown) == shown # Advance(reply.accepted)

Receive ==
    LET newer == IF reply.cart.version >= cart.version THEN reply.cart ELSE cart
        shown == Advance(newer.version)
        rest == Keep(ops, {i \in DOMAIN ops : ops[i].key \notin KeysOf(Sending)})
        review == ForeignChange(shown) /\ rest # <<>> /\ Unsent(rest[1]) IN
    /\ pc = "sending" /\ reply.status = "ok"
    /\ reply' = NoReply
    /\ cart' = [newer EXCEPT !.version = shown]
    /\ mapped' = mapped \cup Added(Sending)
    /\ flight' = <<>>
    /\ ops' = IF ForeignChange(shown) THEN rest ELSE Rebased(rest, shown)
    /\ conflict' = review /\ rejected' = review /\ error' = (error \/ review)
    /\ pc' = IF review THEN "refreshing" ELSE "idle"
    /\ UNCHANGED <<serverVars, ready, headerVars, created, gone, wire, sends, reads>>

ReceiveRefusal ==
    /\ pc = "sending" /\ reply.status \in {"version", "refused"}
    /\ reply' = NoReply
    /\ conflict' = (reply.status = "version")
    /\ rejected' = TRUE /\ error' = TRUE
    /\ pc' = "refreshing"
    /\ UNCHANGED <<serverVars, storedVars, cart, ready, headerVars, created, gone,
                   wire, sends, reads>>

(* Fifteen seconds without an answer: the outcome is unknown. *)
Timeout ==
    /\ pc = "sending"
    /\ reply' = NoReply
    /\ error' = TRUE
    /\ pc' = "idle"
    /\ UNCHANGED <<serverVars, storedVars, cart, conflict, rejected, ready,
                   headerVars, created, gone, wire, sends, reads>>

(* refresh(): an older snapshot than the one shown is ignored. *)
Refresh(r) ==
    /\ reads[r] # NoRead
    /\ reads' = [reads EXCEPT ![r] = NoRead]
    /\ ready' = TRUE
    /\ IF reads[r].cart.version >= cart.version
       THEN /\ cart' = reads[r].cart
            /\ mapped' = mapped \cup {k \in reads[r].receipts :
                                          receipt[k].content.kind = "add"}
       ELSE UNCHANGED <<cart, mapped>>
    /\ pc' = IF r = "pump" THEN AfterRead ELSE pc
    /\ UNCHANGED <<serverVars, ops, flight, error, conflict, rejected, headerVars,
                   created, gone, wire, sends, reply>>

(* A read that fails: some reads of the page report it, others do not. *)
RefreshFails(r) ==
    /\ IF r = "pump" THEN Reading ELSE reads[r] # NoRead
    /\ reads' = [reads EXCEPT ![r] = NoRead]
    /\ pc' = IF r = "pump" THEN AfterRead ELSE pc
    /\ error' \in IF r = "pump" \/ ~ready THEN {TRUE} ELSE {error, TRUE}
    /\ UNCHANGED <<serverVars, storedVars, cart, conflict, rejected, ready,
                   headerVars, created, gone, wire, sends, reply>>

(* The buttons of the status line. *)
Retry ==
    /\ error /\ ~rejected /\ Free
    /\ error' = FALSE
    /\ UNCHANGED <<serverVars, storedVars, cart, pc, conflict, rejected, ready,
                   headerVars, created, gone, netVars>>

(* The cashier applies the operations again, over the cart now shown. *)
AcceptConflict ==
    /\ conflict /\ Free
    /\ flight' = <<>>
    /\ ops' = [i \in DOMAIN ops |->
                  [ops[i] EXCEPT !.version = NotSent, !.base = cart.version,
                                 !.saw = cart.foreign]]
    /\ error' = FALSE /\ conflict' = FALSE /\ rejected' = FALSE
    /\ UNCHANGED <<serverVars, mapped, cart, pc, ready, headerVars, created, gone,
                   netVars>>

Discard ==
    /\ rejected /\ Free
    /\ ops' = <<>> /\ flight' = <<>>
    /\ gone' = [k \in Keys |->
                   IF k \in KeysOf(ops)
                   THEN IF conflict THEN "conflict" ELSE "refused"
                   ELSE gone[k]]
    /\ error' = FALSE /\ conflict' = FALSE /\ rejected' = FALSE
    /\ pc' = "discarding"
    /\ UNCHANGED <<serverVars, mapped, cart, ready, headerVars, created, netVars>>

(* The page is loaded again: sessionStorage and requests on their way survive. *)
Reload ==
    /\ cart' = Snapshot
    /\ pc' = "idle"
    /\ error' = FALSE /\ conflict' = FALSE /\ rejected' = FALSE /\ ready' = FALSE
    /\ own' = {} /\ headerPending' = FALSE /\ headerError' = FALSE
    /\ header' = CASE header.state = "sent"   -> [header EXCEPT !.state = "orphan"]
                   [] header.state = "served" -> NoHeader
                   [] OTHER                   -> header
    /\ reply' = NoReply
    /\ reads' = [r \in {"pump", "page"} |-> NoRead]
    /\ UNCHANGED <<serverVars, storedVars, headers, created, gone, wire, sends>>
-------------------------------------------------------------------------------
(* The form of customer and document, which moves the version as well. *)
PostHeader ==
    /\ header.state = "none" /\ headers < MaxHeaders
    /\ headers' = headers + 1
    /\ header' = [header EXCEPT !.state = "sent"]
    /\ headerPending' = TRUE
    /\ UNCHANGED <<serverVars, storedVars, cart, pc, flagVars, own, headerError,
                   created, gone, netVars>>

(* update_sale_header names the transition it made under the lock; a form that
   changes nothing makes none. *)
ServeHeader ==
    /\ header.state \in {"sent", "orphan"} /\ open
    /\ version' \in {version, version + 1}
    /\ header' = IF header.state = "orphan" THEN NoHeader
                 ELSE [state |-> "served", previous |-> version,
                       current |-> version']
    /\ UNCHANGED <<lines, open, receipt, foreign, applied, storedVars, cart,
                   pc, flagVars, own, headers, headerPending, headerError, created,
                   gone, netVars>>

(* recordOwnRevision, on time or late. *)
HeaderSaved ==
    /\ header.state = "served"
    /\ own' = own \cup {p \in {<<header.previous, header.current>>} : p[2] > p[1]}
    /\ header' = NoHeader
    /\ headerPending' = FALSE /\ headerError' = FALSE
    /\ cart' = [cart EXCEPT !.version = AdvanceBy(own', @)]
    /\ ops' = [i \in DOMAIN ops |->
                  IF Unsent(ops[i]) THEN [ops[i] EXCEPT !.base = AdvanceBy(own', @)]
                                    ELSE ops[i]]
    /\ UNCHANGED <<serverVars, flight, mapped, pc, flagVars, headers, created, gone,
                   netVars>>

(* No answer in time, or an answer that saves nothing: the header is uncertain. *)
HeaderUncertain ==
    /\ headerPending
    /\ headerPending' = FALSE /\ headerError' = TRUE
    /\ UNCHANGED <<serverVars, storedVars, cart, pc, flagVars, own, headers, header,
                   created, gone, netVars>>

ServerStep ==
    \/ \E m \in wire : Serve(m)
    \/ \E r \in {"pump", "page"} : ServeRead(r)
    \/ ServeHeader
    \/ EditElsewhere \/ CompleteElsewhere

TabEvent ==
    \/ Edit
    \/ Receive \/ ReceiveRefusal \/ Timeout
    \/ \E r \in {"pump", "page"} : Refresh(r) \/ RefreshFails(r)
    \/ Retry \/ AcceptConflict \/ Discard \/ Reload
    \/ PostHeader \/ HeaderSaved \/ HeaderUncertain

(* Whatever lets the pump go on calls it, before any other event of the tab, except
   the end of discard: what was queued meanwhile waits for another call. *)
QueueStep ==
    \/ PumpConflict \/ PumpSend
    \/ (CanPump => pc = "parked") /\ TabEvent

CartNext == ServerStep \/ QueueStep

CartSpec == CartInit /\ [][CartNext]_cartVars
-------------------------------------------------------------------------------
Op == [key : Keys, kind : {"add", "quantity", "delete"}, line : Lines,
       quantity : 0 .. MaxQuantity, base : Nat, version : Nat \cup {NotSent},
       saw : Nat]
Shot == [version : Nat, lines : [Lines -> 0 .. MaxQuantity], open : BOOLEAN,
         foreign : Nat]

CartTypeOK ==
    /\ version \in Nat /\ lines \in [Lines -> 0 .. MaxQuantity]
    /\ open \in BOOLEAN
    /\ foreign \in 0 .. MaxForeign /\ applied \in Seq(Keys)
    /\ ops \in Seq(Op) /\ flight \in Seq(Op) /\ mapped \subseteq Keys
    /\ cart \in Shot
    /\ pc \in {"idle", "sending", "refreshing", "discarding", "parked"}
    /\ \A m \in wire : m.version \in Nat
    /\ pc = "sending" => ops # <<>>
    /\ {error, conflict, rejected, ready, headerPending, headerError} \subseteq BOOLEAN
    /\ created \in 0 .. MaxOps /\ sends \in 0 .. MaxSends
    /\ gone \in [Keys -> {"no", "conflict", "refused"}]

(* However often requests are repeated, delayed or lost, every operation takes
   effect at most once, and those the cashier stands by take effect in the order
   they were made. *)
OnceInOrder ==
    \A i, j \in DOMAIN applied : i < j =>
        /\ applied[i] # applied[j]
        /\ gone[applied[j]] = "no" => applied[i] < applied[j]

(* Every operation has the fate the tab shows, across batches, partial answers,
   timeouts and reloads: it is queued, or has its receipt, or was discarded; one
   that is queued and has taken effect took it with the content that is queued;
   one discarded after a conflict never takes effect, although a request with it
   may still be on its way. *)
NothingLost ==
    /\ \A k \in 1 .. created : k \in KeysOf(ops) \cup Confirmed \/ gone[k] # "no"
    /\ \A i \in DOMAIN ops : ops[i].key \in Confirmed =>
           receipt[ops[i].key].content = Content(ops[i])
    /\ \A k \in Confirmed : gone[k] # "conflict"

(* No operation is applied over a change of another editor that the cashier had
   not been shown when making it or when applying it again: the queue never
   rebases silently, whatever versions its own forms and answers moved. *)
NoSilentRebase == \A k \in Confirmed : receipt[k].over = receipt[k].saw

(* The version a tab shows stands for the lines it shows, which is what the checkout
   relies on when it compares versions only. *)
VersionTellsLines ==
    cart.version = version => cart.lines = lines /\ cart.foreign = foreign

(* A refusal by a rule is definitive, as a conflict of versions is. *)
RefusalIsDefinitive == \A k \in Keys : gone[k] = "refused" => k \notin Confirmed
===============================================================================
