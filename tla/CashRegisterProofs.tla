-------------------------- MODULE CashRegisterProofs --------------------------
(***************************************************************************)
(* What stores, registers and cash sessions keep for any number of them,   *)
(* of pages and of editions.  The invariant has one part for each group of *)
(* variables; it adds to the properties of CashRegister that a session     *)
(* that was opened names a register with a store, that one that was not    *)
(* has no movements, and what an edition and a page still know of the rows *)
(* they read.                                                              *)
(*                                                                         *)
(* And where the transactions of the program may wait for one another in a *)
(* circle (module Locks): the tables have an order, which every service    *)
(* follows as far as the first row of the business, the store or a product *)
(* that it takes; so a circle needs a request that holds such a row.       *)
(***************************************************************************)
EXTENDS CashRegister, Locks, SumsProofs, SequenceTheorems, TLAPS

(* An edition that has begun names a store. *)
EditsKnow == \A e \in Editors : edit[e] = NoEdit \/ edit[e].store \in Stores

StoreInvariant ==
    /\ stores \subseteq Stores
    /\ active \subseteq stores /\ default \subseteq active
    /\ overwritten \subseteq Stores
    /\ edit \in [Editors -> Edition]
    /\ EditsKnow
    /\ OneDefaultStore

(* The register of a session, and its store, stay. *)
SessionKnows(x) ==
    sessState[x] # "unopened" => /\ sessReg[x] \in Registers
                                 /\ regStore[sessReg[x]] \in stores

LinkInvariant ==
    /\ regStore \in [Registers -> stores \cup {None}]
    /\ activeRegs \subseteq Registers
    /\ sessReg \in [Sessions -> Registers \cup {None}]
    /\ sessState \in [Sessions -> {"unopened", "open", "closed"}]
    /\ \A x \in Sessions : SessionKnows(x)
    /\ OpenSessionsOperable

DrawerTypeOK ==
    /\ opening \in [Sessions -> Nat] /\ expected \in [Sessions -> Int]
    /\ moves \in [Sessions -> Seq(Movement)]
    /\ counts \in [Sessions -> Seq(Count)]

(* The movements of session x, as MovementsFromOpening has them. *)
Explained(x) ==
    /\ \A i \in 1 .. Len(moves[x]) :
          LET m == moves[x][i] IN
          /\ m.after = m.delta + (IF i = 1 THEN opening[x] ELSE moves[x][i - 1].after)
          /\ m.manual /\ m.delta < 0 /\ m.after < 0 => m.reason
    /\ expected[x] = IF moves[x] = <<>> THEN opening[x]
                     ELSE moves[x][Len(moves[x])].after

(* The counts of session x, as ClosedByItsLastCount has them. *)
Closed(x) ==
    LET closing == {i \in 1 .. Len(counts[x]) : counts[x][i].type = "closing"} IN
    /\ closing = IF sessState[x] = "closed" THEN {Len(counts[x])} ELSE {}
    /\ \A i \in closing : counts[x][i].expected = expected[x]

DrawerInvariant ==
    /\ DrawerTypeOK
    /\ \A x \in Sessions : sessState[x] = "unopened" => moves[x] = <<>>
    /\ \A x \in Sessions : Explained(x) /\ Closed(x)

(* A page that submitted something names a session that was opened. *)
DialogKnows(p) ==
    dialog[p].kind # "none" =>
        /\ dialog[p].session \in Sessions
        /\ sessState[dialog[p].session] # "unopened"
        /\ dialog[p].kind # "movement" => dialog[p].amount \in Nat

DialogInvariant ==
    /\ dialog \in [Dialogs -> Dialog]
    /\ \A p \in Dialogs : DialogKnows(p)

CashInvariant ==
    StoreInvariant /\ LinkInvariant /\ DrawerInvariant /\ DialogInvariant
-------------------------------------------------------------------------------
(* The rows of the stores after a service or an edition. *)
LEMMA StoresKept ==
    ASSUME StoreInvariant, StoreNext
    PROVE  StoreInvariant'
<1>. USE DEF StoreInvariant, EditsKnow, OneDefaultStore
<1>1. ASSUME NEW s \in Stores,
             \/ CreateStore(s) \/ SetDefaultStore(s) \/ ActivateStore(s)
      PROVE  StoreInvariant'
  BY <1>1 DEF CreateStore, SetDefaultStore, ActivateStore, DefaultAfterSave
<1>2. ASSUME NEW s \in Stores, DeactivateStore(s) \/ DeleteStore(s)
      PROVE  StoreInvariant'
  <2>1. CASE s \in default /\ active \ {s} # {}
    <3>1. PICK t \in active \ {s} : default' = (default \ {s}) \cup {t}
      BY <1>2, <2>1 DEF DeactivateStore, DeleteStore, PassDefault
    <3>. QED
      BY <1>2, <2>1, <3>1 DEF DeactivateStore, DeleteStore
  <2>2. CASE ~(s \in default /\ active \ {s} # {})
    BY <1>2, <2>2 DEF DeactivateStore, DeleteStore, PassDefault
  <2>. QED
    BY <2>1, <2>2
<1>3. ASSUME NEW e \in Editors, NEW s \in Stores, BeginEdit(e, s)
      PROVE  StoreInvariant'
  <2>1. [store |-> s, active |-> s \in active, default |-> s \in default] \in Edition
    BY DEF Edition
  <2>2. /\ edit' \in [Editors -> Edition]
        /\ \A d \in Editors : edit'[d] = NoEdit \/ edit'[d].store \in Stores
    BY <1>3, <2>1 DEF BeginEdit
  <2>. QED
    BY <1>3, <2>2 DEF BeginEdit
<1>4. ASSUME NEW e \in Editors, SaveEdit(e)
      PROVE  StoreInvariant'
  <2>1. NoEdit \in Edition
    BY DEF NoEdit, Edition
  <2>2. /\ edit' \in [Editors -> Edition]
        /\ \A d \in Editors : edit'[d] = NoEdit \/ edit'[d].store \in Stores
    BY <1>4, <2>1 DEF SaveEdit
  <2>3. edit[e].store \in Stores
    BY <1>4 DEF SaveEdit
  <2>. DEFINE s == edit[e].store
              on == edit[e].active
              first == on /\ DefaultAfterSave(s, edit[e].default)
  <2>4. CASE first /\ default \ {s} # {}
    BY <1>4, <2>2, <2>4 DEF SaveEdit
  <2>5. CASE ~(first /\ default \ {s} # {})
    <3>1. /\ stores' = stores \cup {s}
          /\ active' = IF on THEN active \cup {s} ELSE active \ {s}
          /\ default' = IF first THEN default \cup {s} ELSE default \ {s}
          /\ overwritten' = IF on = (s \in active) /\ first = (s \in default)
                            THEN overwritten ELSE overwritten \cup {s}
      BY <1>4, <2>5 DEF SaveEdit
    <3>2. on \in BOOLEAN /\ first \in BOOLEAN /\ (first => on)
      BY DEF Edition
    <3>3. s \in Stores
      BY <2>3
    <3>. HIDE DEF s, on, first
    <3>. QED
      BY <2>2, <2>5, <3>1, <3>2, <3>3
  <2>. QED
    BY <2>4, <2>5
<1>. QED
  BY <1>1, <1>2, <1>3, <1>4 DEF StoreNext

(* Sessions, registers and stores stay linked when the stores change. *)
LEMMA LinksSurviveStores ==
    ASSUME StoreInvariant, LinkInvariant, StoreNext
    PROVE  LinkInvariant'
<1>. USE DEF LinkInvariant, SessionKnows, OpenSessionsOperable, StoreOf, OpenSessionsOf
<1>1. UNCHANGED <<regVars, sessionVars>>
  BY DEF StoreNext, CreateStore, SetDefaultStore, ActivateStore, DeactivateStore,
         DeleteStore, BeginEdit, SaveEdit
<1>2. /\ regStore' = regStore /\ activeRegs' = activeRegs
      /\ sessReg' = sessReg /\ sessState' = sessState
  BY <1>1 DEF regVars, sessionVars
<1>3. \A r \in Registers : regStore[r] \in stores => regStore[r] \in stores'
  BY DEF StoreNext, CreateStore, SetDefaultStore, ActivateStore, DeactivateStore,
         DeleteStore, BeginEdit, SaveEdit
<1>4. ASSUME NEW x \in Sessions, sessState[x] = "open"
      PROVE  StoreOf(x) \in active' \cup overwritten'
  <2>1. sessReg[x] \in Registers /\ StoreOf(x) \in stores
    BY <1>4
  <2>2. StoreOf(x) \in active \cup overwritten
    BY <1>4
  <2>3. ASSUME NEW s \in Stores,
               \/ CreateStore(s) \/ SetDefaultStore(s) \/ ActivateStore(s)
        PROVE  StoreOf(x) \in active' \cup overwritten'
    BY <2>2, <2>3 DEF CreateStore, SetDefaultStore, ActivateStore
  <2>4. ASSUME NEW s \in Stores, DeactivateStore(s) \/ DeleteStore(s)
        PROVE  StoreOf(x) \in active' \cup overwritten'
    <3>1. StoreOf(x) # s
      BY <1>4, <2>1, <2>4 DEF DeactivateStore, DeleteStore, OpenSessionsIn
    <3>. QED
      BY <2>2, <2>4, <3>1 DEF DeactivateStore, DeleteStore
  <2>5. ASSUME NEW e \in Editors, NEW s \in Stores, BeginEdit(e, s)
        PROVE  StoreOf(x) \in active' \cup overwritten'
    BY <2>2, <2>5 DEF BeginEdit
  <2>6. ASSUME NEW e \in Editors, SaveEdit(e)
        PROVE  StoreOf(x) \in active' \cup overwritten'
    <3>1. edit[e].active \in BOOLEAN
      BY DEF StoreInvariant, Edition
    <3>. QED
      BY <2>2, <2>6, <3>1 DEF SaveEdit
  <2>. QED
    BY <2>3, <2>4, <2>5, <2>6 DEF StoreNext
<1>5. OpenSessionsOperable'
  BY <1>2, <1>4
<1>6. regStore' \in [Registers -> stores' \cup {None}]
  BY <1>2, <1>3
<1>7. \A x \in Sessions : SessionKnows(x)'
  BY <1>2, <1>3
<1>. QED
  BY <1>2, <1>5, <1>6, <1>7

(* ... and when registers and sessions change: an opening finds its store and its
   register active and no other open session of it. *)
LEMMA LinksKept ==
    ASSUME StoreInvariant, LinkInvariant, RegisterNext
    PROVE  LinkInvariant'
<1>. USE DEF LinkInvariant, SessionKnows, OpenSessionsOperable, StoreOf, OpenSessionsOf
<1>1. PICK r \in Registers :
          \/ \E s \in Stores : CreateRegister(r, s)
          \/ ActivateRegister(r) \/ DeactivateRegister(r)
          \/ \E x \in Sessions, a \in 0 .. MaxCash : OpenCashSession(x, r, a)
  BY DEF RegisterNext
<1>2. ASSUME NEW s \in Stores, CreateRegister(r, s)
      PROVE  LinkInvariant'
  <2>1. /\ regStore' = [regStore EXCEPT ![r] = s] /\ activeRegs' = activeRegs \cup {r}
        /\ stores' = stores /\ active' = active /\ overwritten' = overwritten
        /\ sessReg' = sessReg /\ sessState' = sessState
        /\ regStore[r] = None /\ s \in stores
    BY <1>2 DEF CreateRegister, storeVars, sessionVars
  <2>2. \A x \in Sessions : sessState[x] # "unopened" => sessReg[x] # r
    BY <2>1, CashAssumption DEF StoreInvariant
  <2>. QED
    BY <2>1, <2>2
<1>3. CASE ActivateRegister(r)
  BY <1>3 DEF ActivateRegister, storeVars, sessionVars
<1>4. CASE DeactivateRegister(r)
  BY <1>4 DEF DeactivateRegister, storeVars, sessionVars
<1>5. ASSUME NEW x \in Sessions, NEW a \in 0 .. MaxCash, OpenCashSession(x, r, a)
      PROVE  LinkInvariant'
  <2>1. /\ sessState[x] = "unopened" /\ regStore[r] \in active /\ r \in activeRegs
        /\ OpenSessionsOf(r) = {}
        /\ sessReg' = [sessReg EXCEPT ![x] = r]
        /\ sessState' = [sessState EXCEPT ![x] = "open"]
        /\ regStore' = regStore /\ activeRegs' = activeRegs
        /\ stores' = stores /\ active' = active /\ overwritten' = overwritten
    BY <1>5 DEF OpenCashSession, storeVars, regVars
  <2>2. \A y \in Sessions : SessionKnows(y)'
    BY <2>1 DEF StoreInvariant
  <2>3. OpenSessionsOf(r)' = {x}
    BY <2>1
  <2>4. \A q \in Registers \ {r} : OpenSessionsOf(q)' = OpenSessionsOf(q)
    BY <2>1
  <2>5. ASSUME NEW y \in Sessions, (sessState[y] = "open")'
        PROVE  /\ (sessReg[y] \in activeRegs)'
               /\ (StoreOf(y) \in active \cup overwritten)'
               /\ OpenSessionsOf(sessReg[y])' = {y}
    <3>1. CASE y = x
      BY <2>1, <2>3, <3>1
    <3>2. CASE y # x
      <4>1. sessState[y] = "open" /\ sessReg'[y] = sessReg[y] /\ sessReg[y] # r
        BY <2>1, <2>5, <3>2
      <4>. QED
        BY <2>1, <2>4, <4>1
    <3>. QED
      BY <3>1, <3>2
  <2>6. OpenSessionsOperable'
    BY <2>5
  <2>. QED
    BY <2>1, <2>2, <2>6
<1>. QED
  BY <1>1, <1>2, <1>3, <1>4, <1>5
-------------------------------------------------------------------------------
(* What explains the cash of a session explains it as long as its rows stay. *)
LEMMA ExplainedKept ==
    ASSUME NEW x, Explained(x), moves'[x] = moves[x], opening'[x] = opening[x],
           expected'[x] = expected[x]
    PROVE  Explained(x)'
BY DEF Explained

(* What an insertion leaves of the movements of a session. *)
LEMMA MovementInserted ==
    ASSUME DrawerInvariant, NEW x \in Sessions, NEW d \in Int, NEW balance \in Int,
           NEW manual \in BOOLEAN, NEW why \in BOOLEAN,
           sessState[x] = "open", sessState' = sessState, opening' = opening,
           Insert(x, d, balance, manual, why), balance = expected[x] + d,
           manual /\ d < 0 /\ balance < 0 => why
    PROVE  DrawerInvariant'
<1>. USE DEF DrawerInvariant, DrawerTypeOK
<1>. DEFINE row == Row(d, balance, manual, why)
            after == Append(moves[x], row)
<1>1. row \in Movement /\ moves[x] \in Seq(Movement)
  BY DEF Row, Movement
<1>2. /\ row.delta = d /\ row.after = balance /\ row.manual = manual
      /\ row.reason = why
  BY DEF Row
<1>. HIDE DEF row
<1>3. /\ after \in Seq(Movement) /\ after # <<>>
      /\ Len(after) = Len(moves[x]) + 1 /\ Len(moves[x]) \in Nat
      /\ \A i \in 1 .. Len(moves[x]) : after[i] = moves[x][i]
      /\ after[Len(after)] = row
  BY <1>1, AppendProperties
<1>. HIDE DEF after
<1>4. /\ moves' = [moves EXCEPT ![x] = after]
      /\ expected' = [expected EXCEPT ![x] = balance]
      /\ counts' = counts
  BY DEF Insert, after, row
<1>5. DrawerTypeOK'
  BY <1>3, <1>4
<1>6. Explained(x)'
  <2>1. /\ moves'[x] = after /\ expected'[x] = balance /\ opening'[x] = opening[x]
    BY <1>4
  <2>2. Explained(x)
    OBVIOUS
  <2>3. expected[x] = IF Len(after) = 1 THEN opening[x] ELSE after[Len(after) - 1].after
    <3>1. CASE moves[x] = <<>>
      BY <1>1, <1>3, <2>2, <3>1, EmptySeq DEF Explained
    <3>2. CASE moves[x] # <<>>
      <4>1. Len(moves[x]) \in 1 .. Len(moves[x])
        BY <1>1, <1>3, <3>2, EmptySeq
      <4>2. Len(after) # 1 /\ Len(after) - 1 = Len(moves[x])
        BY <1>3, <4>1
      <4>3. after[Len(after) - 1] = moves[x][Len(moves[x])]
        BY <1>3, <4>1, <4>2
      <4>4. expected[x] = moves[x][Len(moves[x])].after
        BY <2>2, <3>2 DEF Explained
      <4>. QED
        BY <4>2, <4>3, <4>4
    <3>. QED
      BY <3>1, <3>2
  <2>4. ASSUME NEW i \in 1 .. Len(after)
        PROVE  /\ after[i].after = after[i].delta
                     + (IF i = 1 THEN opening[x] ELSE after[i - 1].after)
               /\ after[i].manual /\ after[i].delta < 0 /\ after[i].after < 0
                     => after[i].reason
    <3>1. CASE i = Len(after)
      BY <1>2, <1>3, <2>3, <3>1
    <3>2. CASE i # Len(after)
      <4>1. i \in 1 .. Len(moves[x]) /\ (i # 1 => i - 1 \in 1 .. Len(moves[x]))
        BY <1>3, <3>2
      <4>. QED
        BY <1>3, <2>2, <4>1 DEF Explained
    <3>. QED
      BY <3>1, <3>2
  <2>. QED
    BY <1>2, <1>3, <2>1, <2>4 DEF Explained
<1>7. ASSUME NEW y \in Sessions \ {x}
      PROVE  Explained(y)'
  <2>1. /\ moves'[y] = moves[y] /\ opening'[y] = opening[y]
        /\ expected'[y] = expected[y]
    BY <1>4
  <2>2. Explained(y)
    OBVIOUS
  <2>. QED
    BY <2>1, <2>2, ExplainedKept, Zenon
<1>8. \A y \in Sessions : Closed(y)'
  BY <1>4 DEF Closed
<1>. QED
  BY <1>4, <1>5, <1>6, <1>7, <1>8

(* A session whose count is added, and which it closes or not. *)
LEMMA CountAdded ==
    ASSUME DrawerInvariant, sessState \in [Sessions -> {"unopened", "open", "closed"}],
           NEW x \in Sessions, NEW type \in {"review", "closing"}, NEW n \in Nat,
           AddCount(x, type, n, expected[x]), sessState[x] = "open",
           sessState' = IF type = "closing" THEN [sessState EXCEPT ![x] = "closed"]
                                            ELSE sessState,
           opening' = opening
    PROVE  DrawerInvariant'
<1>. USE DEF DrawerInvariant, DrawerTypeOK
<1>. DEFINE row == [type |-> type, counted |-> n, expected |-> expected[x]]
            after == Append(counts[x], row)
<1>1. row \in Count /\ counts[x] \in Seq(Count)
  BY DEF Count
<1>2. row.type = type /\ row.expected = expected[x]
  OBVIOUS
<1>. HIDE DEF row
<1>3. /\ after \in Seq(Count)
      /\ Len(after) = Len(counts[x]) + 1 /\ Len(counts[x]) \in Nat
      /\ \A i \in 1 .. Len(counts[x]) : after[i] = counts[x][i]
      /\ after[Len(after)] = row
  BY <1>1, AppendProperties
<1>. HIDE DEF after
<1>4. /\ counts' = [counts EXCEPT ![x] = after]
      /\ expected' = expected /\ moves' = moves
  BY DEF AddCount, after, row
<1>5. DrawerTypeOK'
  BY <1>3, <1>4
<1>6. \A y \in Sessions : Explained(y)'
  BY <1>4 DEF Explained
<1>7. Closed(x)'
  <2>0. Closed(x) /\ sessState[x] # "closed"
    OBVIOUS
  <2>1. \A i \in 1 .. Len(counts[x]) : counts[x][i].type # "closing"
    <3>1. {i \in 1 .. Len(counts[x]) : counts[x][i].type = "closing"} = {}
      BY <2>0 DEF Closed
    <3>. QED
      BY <3>1
  <2>2. {i \in 1 .. Len(after) : after[i].type = "closing"}
          = IF type = "closing" THEN {Len(after)} ELSE {}
    <3>1. ASSUME NEW i \in 1 .. Len(after)
          PROVE  after[i].type = "closing" <=> i = Len(after) /\ type = "closing"
      <4>1. CASE i = Len(after)
        BY <1>2, <1>3, <4>1
      <4>2. CASE i # Len(after)
        <5>1. i \in 1 .. Len(counts[x])
          BY <1>3, <4>2
        <5>2. after[i] = counts[x][i]
          BY <1>3, <5>1
        <5>. QED
          BY <2>1, <4>2, <5>1, <5>2
      <4>. QED
        BY <4>1, <4>2
    <3>2. Len(after) \in 1 .. Len(after)
      BY <1>3
    <3>. QED
      BY <3>1, <3>2
  <2>3. counts'[x] = after /\ expected'[x] = expected[x]
        /\ (sessState'[x] = "closed" <=> type = "closing")
    BY <1>4
  <2>. QED
    BY <1>2, <1>3, <2>2, <2>3 DEF Closed
<1>8. \A y \in Sessions \ {x} : Closed(y)'
  BY <1>4 DEF Closed
<1>9. \A y \in Sessions : sessState'[y] = "unopened" => moves'[y] = <<>>
  BY <1>4
<1>. QED
  BY <1>5, <1>6, <1>7, <1>8, <1>9

(* The drawer of a session in every step of its register, its pages and payments. *)
LEMMA DrawersKept ==
    ASSUME LinkInvariant, DrawerInvariant, DialogInvariant,
           \/ RegisterNext \/ DialogNext
           \/ \E x \in Sessions, d \in Deltas : PaymentMovement(x, d)
    PROVE  DrawerInvariant'
<1>. USE DEF DrawerInvariant, DrawerTypeOK
<1>1. ASSUME UNCHANGED <<sessState, opening, drawerVars>>
      PROVE  DrawerInvariant'
  <2>1. /\ sessState' = sessState /\ opening' = opening /\ expected' = expected
        /\ moves' = moves /\ counts' = counts
    BY <1>1 DEF drawerVars
  <2>2. ASSUME NEW x \in Sessions
        PROVE  Explained(x)'
    <3>1. Explained(x)
      OBVIOUS
    <3>2. /\ moves'[x] = moves[x] /\ opening'[x] = opening[x]
          /\ expected'[x] = expected[x]
      BY <2>1
    <3>. QED
      BY <3>1, <3>2, ExplainedKept, Zenon
  <2>3. \A x \in Sessions : Closed(x)'
    BY <2>1 DEF Closed
  <2>. QED
    BY <2>1, <2>2, <2>3
<1>2. ASSUME NEW r \in Registers,
             \/ \E s \in Stores : CreateRegister(r, s)
             \/ ActivateRegister(r) \/ DeactivateRegister(r)
      PROVE  DrawerInvariant'
  BY <1>1, <1>2 DEF CreateRegister, ActivateRegister, DeactivateRegister, sessionVars
<1>4. ASSUME NEW x \in Sessions, NEW r \in Registers, NEW a \in 0 .. MaxCash,
             OpenCashSession(x, r, a)
      PROVE  DrawerInvariant'
  <2>1. /\ sessState[x] = "unopened" /\ moves[x] = <<>>
        /\ sessState' = [sessState EXCEPT ![x] = "open"]
        /\ opening' = [opening EXCEPT ![x] = a] /\ expected' = [expected EXCEPT ![x] = a]
        /\ moves' = moves /\ counts' = counts
    BY <1>4 DEF OpenCashSession
  <2>2. a \in Nat /\ Len(moves[x]) = 0
    BY <2>1, CashAssumption
  <2>3. DrawerTypeOK'
    BY <2>1, <2>2
  <2>4. \A y \in Sessions : Explained(y)'
    <3>1. ASSUME NEW y \in Sessions, y # x
          PROVE  Explained(y)'
      <4>1. /\ moves'[y] = moves[y] /\ opening'[y] = opening[y]
            /\ expected'[y] = expected[y]
        BY <2>1, <3>1
      <4>2. Explained(y)
        OBVIOUS
      <4>. QED
        BY <4>1, <4>2, ExplainedKept, Zenon
    <3>2. /\ moves'[x] = <<>> /\ Len(moves'[x]) = 0
          /\ expected'[x] = a /\ opening'[x] = a
      BY <2>1, <2>2
    <3>3. Explained(x)'
      BY <3>2 DEF Explained
    <3>. QED
      BY <3>1, <3>3
  <2>5. \A y \in Sessions : Closed(y)'
    BY <2>1 DEF Closed, LinkInvariant
  <2>. QED
    BY <2>1, <2>3, <2>4, <2>5 DEF LinkInvariant
<1>5. ASSUME NEW p \in Dialogs, FinishMovement(p)
      PROVE  DrawerInvariant'
  <2>. DEFINE x == dialog[p].session
  <2>1. /\ x \in Sessions /\ dialog[p].amount \in Int /\ dialog[p].reason \in BOOLEAN
    BY <1>5 DEF FinishMovement, DialogInvariant, DialogKnows, Dialog
  <2>2. /\ sessState[x] = "open" /\ sessState' = sessState /\ opening' = opening
        /\ Balance(p) = expected[x] + dialog[p].amount
        /\ Balance(p) < 0 /\ dialog[p].amount < 0 => dialog[p].reason
        /\ Insert(x, dialog[p].amount, Balance(p), TRUE, dialog[p].reason)
    BY <1>5 DEF FinishMovement, IsOpen, ReasonGiven, Balance, sessionVars
  <2>3. Balance(p) \in Int
    BY <2>1, <2>2
  <2>. HIDE DEF x
  <2>. QED
    BY <2>1, <2>2, <2>3, MovementInserted
<1>6. ASSUME NEW p \in Dialogs, FinishReview(p)
      PROVE  DrawerInvariant'
  <2>. DEFINE x == dialog[p].session
  <2>1. x \in Sessions /\ dialog[p].amount \in Nat
    BY <1>6 DEF FinishReview, DialogInvariant, DialogKnows
  <2>2. /\ sessState[x] = "open" /\ sessState' = sessState /\ opening' = opening
        /\ AddCount(x, "review", dialog[p].amount, expected[x])
    BY <1>6 DEF FinishReview, IsOpen, sessionVars
  <2>. HIDE DEF x
  <2>. QED
    BY <2>1, <2>2, CountAdded DEF LinkInvariant
<1>7. ASSUME NEW p \in Dialogs, FinishClose(p)
      PROVE  DrawerInvariant'
  <2>. DEFINE x == dialog[p].session
  <2>1. x \in Sessions /\ dialog[p].amount \in Nat
    BY <1>7 DEF FinishClose, DialogInvariant, DialogKnows
  <2>2. /\ sessState[x] = "open" /\ sessState' = [sessState EXCEPT ![x] = "closed"]
        /\ opening' = opening
        /\ AddCount(x, "closing", dialog[p].amount, expected[x])
    BY <1>7 DEF FinishClose, IsOpen, ExpectedAtClosing
  <2>. HIDE DEF x
  <2>. QED
    BY <2>1, <2>2, CountAdded DEF LinkInvariant
<1>8. ASSUME NEW p \in Dialogs, ConfirmClose(p) \/ Leave(p)
      PROVE  DrawerInvariant'
  BY <1>1, <1>8 DEF ConfirmClose, Leave, sessionVars
<1>9. ASSUME NEW p \in Dialogs, NEW x \in Sessions, NEW kind, NEW n, NEW why,
             Begin(p, x, kind, n, why)
      PROVE  DrawerInvariant'
  BY <1>1, <1>9 DEF Begin, sessionVars
<1>10. ASSUME NEW x \in Sessions, NEW d \in Deltas, PaymentMovement(x, d)
       PROVE  DrawerInvariant'
  <2>1. d \in Int /\ expected[x] + d \in Int
    BY CashAssumption DEF Deltas, Amounts
  <2>2. /\ sessState[x] = "open" /\ sessState' = sessState /\ opening' = opening
        /\ Insert(x, d, expected[x] + d, FALSE, FALSE)
    BY <1>10 DEF PaymentMovement, IsOpen, sessionVars
  <2>. QED
    BY <2>1, <2>2, MovementInserted
<1>11. CASE RegisterNext
  BY <1>2, <1>4, <1>11 DEF RegisterNext
<1>12. CASE DialogNext
  BY <1>5, <1>6, <1>7, <1>8, <1>9, <1>12 DEF DialogNext
<1>. QED
  BY <1>10, <1>11, <1>12
(* What a page submitted stays about a session that was opened. *)
LEMMA DialogsKept ==
    ASSUME LinkInvariant, DrawerInvariant, DialogInvariant, CashNext
    PROVE  DialogInvariant'
<1>. USE DEF DialogInvariant
<1>1. \A x \in Sessions : sessState[x] # "unopened" => sessState'[x] # "unopened"
  BY DEF LinkInvariant, CashNext, StoreNext, RegisterNext, DialogNext, CreateStore,
         SetDefaultStore, ActivateStore, DeactivateStore, DeleteStore, BeginEdit,
         SaveEdit, CreateRegister, ActivateRegister, DeactivateRegister,
         OpenCashSession, Begin, ConfirmClose, Leave, FinishMovement, FinishReview,
         FinishClose, PaymentMovement, sessionVars
<1>2. NoDialog \in Dialog /\ NoDialog.kind = "none"
  BY DEF NoDialog, Dialog
<1>3. ASSUME NEW p \in Dialogs, dialog' = [dialog EXCEPT ![p] = NoDialog]
      PROVE  DialogInvariant'
  BY <1>1, <1>2, <1>3 DEF DialogKnows
<1>4. ASSUME UNCHANGED dialog
      PROVE  DialogInvariant'
  BY <1>1, <1>4 DEF DialogKnows
<1>5. ASSUME NEW p \in Dialogs, NEW x \in Sessions, NEW why \in BOOLEAN,
             \/ \E d \in Deltas : Begin(p, x, "movement", d, why)
             \/ \E n \in 0 .. MaxCash, kind \in {"review", "close"} :
                    Begin(p, x, kind, n, FALSE)
      PROVE  DialogInvariant'
  <2>1. PICK kind \in {"movement", "review", "close"}, n \in Int, because \in BOOLEAN :
            Begin(p, x, kind, n, because) /\ (kind # "movement" => n \in Nat)
    <3>1. CASE \E d \in Deltas : Begin(p, x, "movement", d, why)
      <4>1. PICK d \in Deltas : Begin(p, x, "movement", d, why)
        BY <3>1
      <4>2. d \in Int
        BY CashAssumption DEF Deltas, Amounts
      <4>. QED
        BY <4>1, <4>2
    <3>2. CASE \E n \in 0 .. MaxCash, kind \in {"review", "close"} :
                   Begin(p, x, kind, n, FALSE)
      <4>1. PICK n \in 0 .. MaxCash, kind \in {"review", "close"} :
                Begin(p, x, kind, n, FALSE)
        BY <3>2
      <4>2. n \in Nat /\ n \in Int /\ kind \in {"movement", "review", "close"}
        BY CashAssumption
      <4>. QED
        BY <4>1, <4>2
    <3>. QED
      BY <1>5, <3>1, <3>2
  <2>. DEFINE new == [kind |-> kind, session |-> x, amount |-> n, reason |-> because,
                      shown |-> expected[x], entered |-> kind # "close"]
  <2>2. expected[x] \in Int
    BY DEF DrawerInvariant, DrawerTypeOK
  <2>3. new \in Dialog /\ new.kind = kind /\ new.session = x /\ new.amount = n
    BY <2>2 DEF Dialog
  <2>4. dialog' = [dialog EXCEPT ![p] = new] /\ sessState[x] # "unopened"
    BY <2>1 DEF Begin
  <2>. HIDE DEF new
  <2>. QED
    BY <1>1, <2>1, <2>3, <2>4 DEF DialogKnows
<1>6. ASSUME NEW p \in Dialogs, ConfirmClose(p)
      PROVE  DialogInvariant'
  <2>. DEFINE new == [dialog[p] EXCEPT !.entered = TRUE]
  <2>1. /\ new \in Dialog /\ new.kind = dialog[p].kind
        /\ new.session = dialog[p].session /\ new.amount = dialog[p].amount
    BY DEF Dialog
  <2>2. dialog' = [dialog EXCEPT ![p] = new]
    BY <1>6 DEF ConfirmClose
  <2>. HIDE DEF new
  <2>. QED
    BY <1>1, <2>1, <2>2 DEF DialogKnows
<1>7. CASE StoreNext \/ RegisterNext
  BY <1>4, <1>7 DEF StoreNext, RegisterNext, CreateStore, SetDefaultStore, ActivateStore,
         DeactivateStore, DeleteStore, BeginEdit, SaveEdit, CreateRegister,
         ActivateRegister, DeactivateRegister, OpenCashSession
<1>8. CASE \E x \in Sessions, d \in Deltas : PaymentMovement(x, d)
  BY <1>4, <1>8 DEF PaymentMovement
<1>9. ASSUME NEW p \in Dialogs,
             Leave(p) \/ FinishMovement(p) \/ FinishReview(p) \/ FinishClose(p)
      PROVE  DialogInvariant'
  BY <1>3, <1>9 DEF Leave, FinishMovement, FinishReview, FinishClose
<1>. QED
  BY <1>5, <1>6, <1>7, <1>8, <1>9 DEF CashNext, DialogNext
-------------------------------------------------------------------------------
(* The business without stores satisfies it. *)
LEMMA CashStarts == CashInit => CashInvariant
<1>. SUFFICES ASSUME CashInit PROVE CashInvariant
  OBVIOUS
<1>1. StoreInvariant
  BY DEF CashInit, StoreInvariant, EditsKnow, OneDefaultStore, Edition, NoEdit
<1>2. LinkInvariant
  BY DEF CashInit, LinkInvariant, SessionKnows, OpenSessionsOperable
<1>3. <<>> \in Seq(Movement) /\ <<>> \in Seq(Count) /\ Len(<<>>) = 0
  OBVIOUS
<1>4. DrawerInvariant
  BY <1>3 DEF CashInit, DrawerInvariant, DrawerTypeOK, Explained, Closed
<1>5. DialogInvariant
  BY DEF CashInit, DialogInvariant, DialogKnows, Dialog, NoDialog
<1>. QED
  BY <1>1, <1>2, <1>4, <1>5 DEF CashInvariant

(* Each group of variables keeps its part of the invariant, whichever step is taken. *)
LEMMA CashKeeps == CashInvariant /\ [CashNext]_cashVars => CashInvariant'
<1>. SUFFICES ASSUME CashInvariant, [CashNext]_cashVars PROVE CashInvariant'
  OBVIOUS
<1>. USE DEF CashInvariant
<1>1. CASE StoreNext
  <2>1. UNCHANGED <<sessState, opening, drawerVars>>
    BY <1>1 DEF StoreNext, CreateStore, SetDefaultStore, ActivateStore, DeactivateStore,
           DeleteStore, BeginEdit, SaveEdit, sessionVars
  <2>2. DrawerInvariant'
    <3>1. /\ sessState' = sessState /\ opening' = opening
          /\ expected' = expected /\ moves' = moves /\ counts' = counts
      BY <2>1 DEF drawerVars
    <3>2. DrawerTypeOK' <=> DrawerTypeOK
      BY <3>1 DEF DrawerTypeOK
    <3>3. \A x \in Sessions : /\ Explained(x)' <=> Explained(x)
                              /\ Closed(x)' <=> Closed(x)
      BY <3>1 DEF Explained, Closed
    <3>. QED
      BY <3>1, <3>2, <3>3 DEF DrawerInvariant
  <2>. QED
    BY <1>1, <2>2, StoresKept, LinksSurviveStores, DialogsKept DEF CashNext
<1>2. CASE RegisterNext
  <2>1. UNCHANGED storeVars
    BY <1>2 DEF RegisterNext, CreateRegister, ActivateRegister, DeactivateRegister,
           OpenCashSession
  <2>2. StoreInvariant'
    BY <2>1 DEF storeVars, StoreInvariant, EditsKnow, OneDefaultStore
  <2>. QED
    BY <1>2, <2>2, LinksKept, DrawersKept, DialogsKept DEF CashNext
<1>3. ASSUME \/ DialogNext
             \/ \E x \in Sessions, d \in Deltas : PaymentMovement(x, d)
      PROVE  CashInvariant'
  <2>1. UNCHANGED <<storeVars, regVars>> /\ sessReg' = sessReg
    BY <1>3 DEF DialogNext, Begin, ConfirmClose, Leave, FinishMovement, FinishReview,
           FinishClose, PaymentMovement, sessionVars
  <2>2. \/ sessState' = sessState
        \/ \E x \in Sessions : /\ sessState[x] = "open"
                              /\ sessState' = [sessState EXCEPT ![x] = "closed"]
    BY <1>3 DEF DialogNext, Begin, ConfirmClose, Leave, FinishMovement, FinishReview,
           FinishClose, PaymentMovement, sessionVars, IsOpen, DialogInvariant, DialogKnows
  <2>3. StoreInvariant'
    BY <2>1 DEF storeVars, StoreInvariant, EditsKnow, OneDefaultStore
  <2>4. LinkInvariant'
    BY <2>1, <2>2 DEF storeVars, regVars, LinkInvariant, SessionKnows,
           OpenSessionsOperable, StoreOf, OpenSessionsOf
  <2>. QED
    BY <1>3, <2>3, <2>4, DrawersKept, DialogsKept DEF CashNext
<1>4. CASE UNCHANGED cashVars
  BY <1>4 DEF cashVars, storeVars, regVars, sessionVars, drawerVars, StoreInvariant,
         EditsKnow, OneDefaultStore, LinkInvariant, SessionKnows, OpenSessionsOperable,
         StoreOf, OpenSessionsOf, DrawerInvariant, DrawerTypeOK, Explained, Closed,
         DialogInvariant, DialogKnows
<1>. QED
  BY <1>1, <1>2, <1>3, <1>4 DEF CashNext

(* In every state that services, pages, editions and payments reach, the invariant
   holds. *)
THEOREM CashIsKept == CashSpec => []CashInvariant
<1>. QED
  BY CashStarts, CashKeeps, PTL DEF CashSpec

(* Every row of stores, registers, sessions, movements and counts keeps its type. *)
THEOREM CashTyped == CashSpec => []CashTypeOK
<1>1. CashInvariant => CashTypeOK
  BY DEF CashInvariant, StoreInvariant, LinkInvariant, DrawerInvariant, DrawerTypeOK,
         DialogInvariant, CashTypeOK
<1>. QED
  BY <1>1, CashIsKept, PTL

(* An open session is the only one of an active register, in an active store unless
   an edition wrote over it. *)
THEOREM SessionsOperable == CashSpec => []OpenSessionsOperable
<1>1. CashInvariant => OpenSessionsOperable
  BY DEF CashInvariant, LinkInvariant
<1>. QED
  BY <1>1, CashIsKept, PTL

(* There is at most one default store, and one while a store is active and no edition
   wrote over another. *)
THEOREM DefaultUnique == CashSpec => []OneDefaultStore
<1>1. CashInvariant => OneDefaultStore
  BY DEF CashInvariant, StoreInvariant
<1>. QED
  BY <1>1, CashIsKept, PTL

(* The movements of a session explain its expected cash, each computed from the one
   before, and a shortage is explained by its reason. *)
THEOREM MovementsExplain == CashSpec => []MovementsFromOpening
<1>1. CashInvariant => MovementsFromOpening
  BY DEF CashInvariant, DrawerInvariant, Explained, MovementsFromOpening
<1>. QED
  BY <1>1, CashIsKept, PTL

(* A closed session has one closing count, the last, against the cash of all its
   movements. *)
THEOREM ClosingIsLast == CashSpec => []ClosedByItsLastCount
<1>1. CashInvariant => ClosedByItsLastCount
  BY DEF CashInvariant, DrawerInvariant, Closed, ClosedByItsLastCount
<1>. QED
  BY <1>1, CashIsKept, PTL
-------------------------------------------------------------------------------
(* The rows of the model. *)
Rows ==
    {Business, Store, Customer, CustomerAccount, Series}
      \cup {Session(x) : x \in Drawers} \cup {Register(x) : x \in Drawers}
      \cup {Sale(s) : s \in Sales} \cup {Return(s) : s \in Sales}
      \cup {Item(i) : i \in Products} \cup {Product(i) : i \in Products}

(* The numbers of the tables. *)
LEMMA Ranks ==
    /\ Rank(Business) = 8 /\ Rank(Store) = 10 /\ Rank(Customer) = 9
    /\ Rank(CustomerAccount) = 6 /\ Rank(Series) = 7
    /\ \A x : Rank(Session(x)) = 3 /\ Rank(Register(x)) = 4
    /\ \A s : Rank(Sale(s)) = 2 /\ Rank(Return(s)) = 1
    /\ \A i : Rank(Item(i)) = 5 /\ Rank(Product(i)) = 11
BY DEF Rank, Business, Store, Customer, CustomerAccount, Series, Session, Register,
       Sale, Return, Item, Product

(* A row of the model has a number; from 8 on they are the common rows, and 9 is the
   customer's. *)
LEMMA RankTyped ==
    ASSUME NEW row \in Rows
    PROVE  /\ Rank(row) \in 1 .. 11
           /\ Rank(row) >= 8 => Common(row) \/ row = Customer
           /\ Rank(row) = 9 => row = Customer
           /\ Common(row) => Rank(row) >= 8
BY Ranks DEF Rows, Common, Business, Store, Customer, CustomerAccount, Series, Session,
             Register, Sale, Return, Item, Product

(* Rows in ascending order, above a and up to b. *)
Between(seq, a, b) ==
    /\ seq \in Seq(Rows)
    /\ \A i \in 1 .. Len(seq) : a < Rank(seq[i]) /\ Rank(seq[i]) <= b
    /\ \A i, j \in 1 .. Len(seq) : i < j => Rank(seq[i]) < Rank(seq[j])

(* Rows that ascend, above a, as far as the first common row; after it, any rows. *)
Headed(seq, a) ==
    /\ seq \in Seq(Rows)
    /\ \E p \in 1 .. Len(seq) :
          /\ Common(seq[p])
          /\ \A i \in 1 .. p : a < Rank(seq[i])
          /\ \A i, j \in 1 .. p : i < j => Rank(seq[i]) < Rank(seq[j])

(* The rows of two lists, one after the other. *)
LEMMA Joined ==
    ASSUME NEW s \in Seq(Rows), NEW t \in Seq(Rows)
    PROVE  /\ s \o t \in Seq(Rows) /\ Len(s \o t) = Len(s) + Len(t)
           /\ Len(s) \in Nat /\ Len(t) \in Nat
           /\ \A i \in 1 .. Len(s) : (s \o t)[i] = s[i] /\ s[i] \in Rows
           /\ \A i \in 1 .. Len(t) : (s \o t)[Len(s) + i] = t[i] /\ t[i] \in Rows
           /\ \A i \in 1 .. Len(s) + Len(t) : i \notin 1 .. Len(s) =>
                  \E j \in 1 .. Len(t) : i = Len(s) + j
<1>. DEFINE u == s \o t
            m == Len(s)
            n == Len(t)
<1>1. m \in Nat /\ n \in Nat
  BY LenProperties
<1>2. /\ u \in Seq(Rows) /\ Len(u) = m + n
      /\ \A i \in 1 .. m + n : u[i] = IF i <= m THEN s[i] ELSE t[i - m]
  BY ConcatProperties
<1>3. \A i \in 1 .. m : s[i] \in Rows
  OBVIOUS
<1>4. \A i \in 1 .. n : t[i] \in Rows
  OBVIOUS
<1>. HIDE DEF u, m, n
<1>5. \A i \in 1 .. m : u[i] = s[i]
  BY <1>1, <1>2
<1>6. \A i \in 1 .. n : u[m + i] = t[i]
  <2>1. \A i \in 1 .. n : m + i \in 1 .. m + n /\ ~(m + i <= m) /\ (m + i) - m = i
    BY <1>1
  <2>. QED
    BY <1>2, <2>1
<1>7. ASSUME NEW i \in 1 .. m + n, i \notin 1 .. m
      PROVE  \E j \in 1 .. n : i = m + j
  <2>1. i - m \in 1 .. n /\ i = m + (i - m)
    BY <1>1, <1>7
  <2>. QED
    BY <2>1
<1>. QED
  BY <1>1, <1>2, <1>3, <1>4, <1>5, <1>6, <1>7 DEF u, m, n

(* Two ascending lists, the second above the first, make an ascending list. *)
LEMMA RowsJoined ==
    ASSUME NEW a \in Nat, NEW b \in Nat, NEW c \in Nat, a <= b, b <= c, NEW s, NEW t,
           Between(s, a, b), Between(t, b, c)
    PROVE  Between(s \o t, a, c)
<1>. DEFINE u == s \o t
            m == Len(s)
            n == Len(t)
<1>1. s \in Seq(Rows) /\ t \in Seq(Rows)
  BY DEF Between
<1>2. /\ u \in Seq(Rows) /\ Len(u) = m + n /\ m \in Nat /\ n \in Nat
      /\ \A i \in 1 .. m : u[i] = s[i] /\ s[i] \in Rows
      /\ \A i \in 1 .. n : u[m + i] = t[i] /\ t[i] \in Rows
      /\ \A i \in 1 .. m + n : i \notin 1 .. m => \E j \in 1 .. n : i = m + j
  BY <1>1, Joined
<1>a. /\ \A i \in 1 .. m : a < Rank(s[i]) /\ Rank(s[i]) <= b
      /\ \A i, j \in 1 .. m : i < j => Rank(s[i]) < Rank(s[j])
  BY DEF Between
<1>b. /\ \A i \in 1 .. n : b < Rank(t[i]) /\ Rank(t[i]) <= c
      /\ \A i, j \in 1 .. n : i < j => Rank(t[i]) < Rank(t[j])
  BY DEF Between
<1>c. \A row \in Rows : Rank(row) \in Int
  BY RankTyped
<1>. HIDE DEF m, n, u
<1>3. \A i \in 1 .. m : Rank(u[i]) \in Int /\ a < Rank(u[i]) /\ Rank(u[i]) <= b
  BY <1>2, <1>a, <1>c
<1>4. \A i \in 1 .. n : Rank(u[m + i]) \in Int /\ b < Rank(u[m + i]) /\ Rank(u[m + i]) <= c
  BY <1>2, <1>b, <1>c
<1>5. ASSUME NEW i \in 1 .. m + n PROVE a < Rank(u[i]) /\ Rank(u[i]) <= c
  <2>1. CASE i \in 1 .. m
    BY <1>3, <2>1
  <2>2. CASE i \notin 1 .. m
    <3>1. PICK j \in 1 .. n : i = m + j
      BY <1>2, <2>2
    <3>2. Rank(u[i]) \in Int /\ b < Rank(u[i]) /\ Rank(u[i]) <= c
      BY <1>4, <3>1
    <3>. QED
      BY <3>2
  <2>. QED
    BY <2>1, <2>2
<1>6. ASSUME NEW i \in 1 .. m + n, NEW j \in 1 .. m + n, i < j
      PROVE  Rank(u[i]) < Rank(u[j])
  <2>1. CASE j \in 1 .. m
    <3>1. i \in 1 .. m
      BY <1>2, <1>6, <2>1
    <3>. QED
      BY <1>2, <1>6, <1>a, <2>1, <3>1
  <2>2. CASE i \in 1 .. m /\ j \notin 1 .. m
    <3>1. PICK k \in 1 .. n : j = m + k
      BY <1>2, <2>2
    <3>. QED
      BY <1>3, <1>4, <2>2, <3>1
  <2>3. CASE i \notin 1 .. m
    <3>1. j \notin 1 .. m
      BY <1>2, <1>6, <2>3
    <3>2. PICK h \in 1 .. n : i = m + h
      BY <1>2, <2>3
    <3>3. PICK k \in 1 .. n : j = m + k
      BY <1>2, <3>1
    <3>4. h < k
      BY <1>2, <1>6, <3>2, <3>3
    <3>. QED
      BY <1>2, <1>b, <3>2, <3>3, <3>4
  <2>. QED
    BY <2>1, <2>2, <2>3
<1>7. Between(u, a, c)
  BY <1>2, <1>5, <1>6 DEF Between
<1>. QED
  BY <1>7 DEF u

(* An ascending list before rows that ascend to a common one, above it. *)
LEMMA HeadJoined ==
    ASSUME NEW a \in Nat, NEW b \in Nat, a <= b, NEW s, NEW t,
           Between(s, a, b), Headed(t, b)
    PROVE  Headed(s \o t, a)
<1>. DEFINE u == s \o t
            m == Len(s)
            n == Len(t)
<1>1. s \in Seq(Rows) /\ t \in Seq(Rows)
  BY DEF Between, Headed
<1>2. /\ u \in Seq(Rows) /\ Len(u) = m + n /\ m \in Nat /\ n \in Nat
      /\ \A i \in 1 .. m : u[i] = s[i] /\ s[i] \in Rows
      /\ \A i \in 1 .. n : u[m + i] = t[i] /\ t[i] \in Rows
      /\ \A i \in 1 .. m + n : i \notin 1 .. m => \E j \in 1 .. n : i = m + j
  BY <1>1, Joined
<1>a. /\ \A i \in 1 .. m : a < Rank(s[i]) /\ Rank(s[i]) <= b
      /\ \A i, j \in 1 .. m : i < j => Rank(s[i]) < Rank(s[j])
  BY DEF Between
<1>c. \A row \in Rows : Rank(row) \in Int
  BY RankTyped
<1>. HIDE DEF m, n, u
<1>3. PICK p \in 1 .. n :
          /\ Common(t[p])
          /\ \A i \in 1 .. p : b < Rank(t[i])
          /\ \A i, j \in 1 .. p : i < j => Rank(t[i]) < Rank(t[j])
  BY DEF Headed, n
<1>4. \A i \in 1 .. m : Rank(u[i]) \in Int /\ a < Rank(u[i]) /\ Rank(u[i]) <= b
  BY <1>2, <1>a, <1>c
<1>5. \A i \in 1 .. p : i \in 1 .. n /\ Rank(u[m + i]) \in Int /\ b < Rank(u[m + i])
  <2>1. \A i \in 1 .. p : i \in 1 .. n
    BY <1>2
  <2>. QED
    BY <1>2, <1>3, <1>c, <2>1
<1>6. /\ m + p \in 1 .. m + n /\ Common(u[m + p])
      /\ \A i \in 1 .. m + p : i \notin 1 .. m => \E j \in 1 .. p : i = m + j
  <2>1. ASSUME NEW i \in 1 .. m + p, i \notin 1 .. m PROVE \E j \in 1 .. p : i = m + j
    <3>1. i - m \in 1 .. p /\ i = m + (i - m)
      BY <1>2, <2>1
    <3>. QED
      BY <3>1
  <2>. QED
    BY <1>2, <1>3, <2>1
<1>7. ASSUME NEW i \in 1 .. m + p PROVE a < Rank(u[i])
  <2>1. CASE i \in 1 .. m
    BY <1>4, <2>1
  <2>2. CASE i \notin 1 .. m
    BY <1>5, <1>6, <2>2
  <2>. QED
    BY <2>1, <2>2
<1>8. ASSUME NEW i \in 1 .. m + p, NEW j \in 1 .. m + p, i < j
      PROVE  Rank(u[i]) < Rank(u[j])
  <2>1. CASE j \in 1 .. m
    <3>1. i \in 1 .. m
      BY <1>2, <1>8, <2>1
    <3>. QED
      BY <1>2, <1>8, <1>a, <2>1, <3>1
  <2>2. CASE i \in 1 .. m /\ j \notin 1 .. m
    BY <1>4, <1>5, <1>6, <2>2
  <2>3. CASE i \notin 1 .. m
    <3>1. j \notin 1 .. m
      BY <1>2, <1>8, <2>3
    <3>2. PICK h \in 1 .. p : i = m + h
      BY <1>6, <2>3
    <3>3. PICK k \in 1 .. p : j = m + k
      BY <1>6, <3>1
    <3>4. h < k /\ h \in 1 .. n /\ k \in 1 .. n
      BY <1>2, <1>8, <3>2, <3>3
    <3>. QED
      BY <1>2, <1>3, <3>2, <3>3, <3>4
  <2>. QED
    BY <2>1, <2>2, <2>3
<1>9. Headed(u, a)
  BY <1>2, <1>6, <1>7, <1>8 DEF Headed
<1>. QED
  BY <1>9 DEF u

(* After the common row any rows may follow. *)
LEMMA TailJoined ==
    ASSUME NEW a, NEW s, NEW t \in Seq(Rows), Headed(s, a)
    PROVE  Headed(s \o t, a)
<1>. DEFINE u == s \o t
<1>1. s \in Seq(Rows)
  BY DEF Headed
<1>2. /\ u \in Seq(Rows) /\ Len(u) = Len(s) + Len(t)
      /\ Len(s) \in Nat /\ Len(t) \in Nat
      /\ \A i \in 1 .. Len(s) : u[i] = s[i]
  BY <1>1, Joined
<1>. HIDE DEF u
<1>3. PICK p \in 1 .. Len(s) :
          /\ Common(s[p])
          /\ \A i \in 1 .. p : a < Rank(s[i])
          /\ \A i, j \in 1 .. p : i < j => Rank(s[i]) < Rank(s[j])
  BY DEF Headed
<1>4. p \in 1 .. Len(u) /\ \A i \in 1 .. p : i \in 1 .. Len(s)
  BY <1>2
<1>5. \A i \in 1 .. p : u[i] = s[i]
  BY <1>2, <1>4
<1>6. p \in 1 .. p
  OBVIOUS
<1>7. Headed(u, a)
  BY <1>2, <1>3, <1>4, <1>5, <1>6 DEF Headed
<1>. QED
  BY <1>7 DEF u

(* Each row of a list comes after the rows before it, or is one of them, or comes
   while a common row that is not before it in the order is held. *)
Passable(seq) ==
    /\ seq \in Seq(Rows)
    /\ \A j \in 1 .. Len(seq) : \A i \in 1 .. j - 1 :
          \/ Rank(seq[i]) < Rank(seq[j])
          \/ \E k \in 1 .. j - 1 : seq[k] = seq[j]
          \/ \E k \in 1 .. j - 1 : Common(seq[k]) /\ Rank(seq[j]) <= Rank(seq[k])

(* So it is for lists that ascend, and for lists that ascend to a common row: the rows
   after it that are above it are common themselves, or the customer's. *)
LEMMA HeadPasses ==
    ASSUME NEW seq, Headed(seq, 0) \/ Between(seq, 0, 11)
    PROVE  Passable(seq)
<1>1. seq \in Seq(Rows) /\ Len(seq) \in Nat /\ \A i \in 1 .. Len(seq) : seq[i] \in Rows
  BY DEF Headed, Between
<1>2. CASE Between(seq, 0, 11)
  <2>1. \A j \in 1 .. Len(seq) : \A i \in 1 .. j - 1 : i \in 1 .. Len(seq) /\ i < j
    BY <1>1
  <2>. QED
    BY <1>1, <1>2, <2>1 DEF Between, Passable
<1>3. CASE Headed(seq, 0)
  <2>1. PICK p \in 1 .. Len(seq) :
            /\ Common(seq[p])
            /\ \A i, j \in 1 .. p : i < j => Rank(seq[i]) < Rank(seq[j])
    BY <1>3 DEF Headed
  <2>2. ASSUME NEW j \in 1 .. Len(seq), NEW i \in 1 .. j - 1
        PROVE  \/ Rank(seq[i]) < Rank(seq[j])
               \/ \E k \in 1 .. j - 1 : seq[k] = seq[j]
               \/ \E k \in 1 .. j - 1 : Common(seq[k]) /\ Rank(seq[j]) <= Rank(seq[k])
    <3>1. i \in 1 .. Len(seq) /\ i < j
      BY <1>1
    <3>2. CASE j <= p
      <4>1. i \in 1 .. p /\ j \in 1 .. p
        BY <1>1, <3>1, <3>2
      <4>. QED
        BY <2>1, <3>1, <4>1
    <3>3. CASE p < j
      <4>1. p \in 1 .. j - 1
        BY <1>1, <3>3
      <4>2. /\ Rank(seq[i]) \in 1 .. 11 /\ Rank(seq[j]) \in 1 .. 11
            /\ Rank(seq[p]) \in 1 .. 11 /\ Rank(seq[p]) >= 8
            /\ Rank(seq[i]) >= 8 => Common(seq[i]) \/ seq[i] = Customer
            /\ Rank(seq[j]) >= 8 => Common(seq[j]) \/ seq[j] = Customer
        BY <1>1, <2>1, <3>1, RankTyped
      <4>3. CASE Rank(seq[j]) <= Rank(seq[p])
        BY <2>1, <4>1, <4>3
      <4>4. CASE Common(seq[i]) /\ Rank(seq[j]) <= Rank(seq[i])
        BY <4>4
      <4>5. CASE /\ Rank(seq[p]) < Rank(seq[j]) /\ Rank(seq[j]) <= Rank(seq[i])
                 /\ ~Common(seq[i])
        <5>1. seq[i] = Customer /\ Rank(seq[i]) = 9
          BY <4>2, <4>5, Ranks
        <5>2. Rank(seq[j]) = 9
          BY <4>2, <4>5, <5>1
        <5>3. seq[j] = seq[i]
          BY <1>1, <5>1, <5>2, RankTyped
        <5>. QED
          BY <5>3
      <4>. QED
        BY <4>2, <4>3, <4>4, <4>5
    <3>. QED
      BY <1>1, <3>2, <3>3
  <2>. QED
    BY <1>1, <2>2 DEF Passable
<1>. QED
  BY <1>2, <1>3

(* The plan of a service: its rows are passable, and those locked for update come
   before those that are shared. *)
Guarded(plan) ==
    /\ Len(plan) \in Nat /\ DOMAIN plan = 1 .. Len(plan)
    /\ \A j \in DOMAIN plan :
          /\ Rank(plan[j].row) \in 1 .. 11
          /\ \A i \in 1 .. j - 1 :
                \/ Rank(plan[i].row) < Rank(plan[j].row)
                \/ \E k \in 1 .. j - 1 :
                      /\ plan[k].row = plan[j].row
                      /\ plan[k].mode = "update" \/ plan[j].mode = "share"
                \/ \E k \in 1 .. j - 1 :
                      Common(plan[k].row) /\ Rank(plan[j].row) <= Rank(plan[k].row)

LEMMA PlanGuarded ==
    ASSUME NEW name, NEW locked \in Seq(Rows), NEW checked \in Seq(Rows),
           Passable(locked \o checked)
    PROVE  Guarded(Service(name, locked, checked).plan)
<1>. DEFINE m == Len(locked)
            n == Len(checked)
            u == locked \o checked
            plan == Service(name, locked, checked).plan
<1>1. plan = [i \in 1 .. m + n |-> IF i <= m THEN ForUpdate(locked[i])
                                             ELSE ForShare(checked[i - m])]
  BY DEF Service
<1>2. /\ u \in Seq(Rows) /\ Len(u) = m + n /\ m \in Nat /\ n \in Nat
      /\ \A i \in 1 .. m : u[i] = locked[i] /\ locked[i] \in Rows
      /\ \A i \in 1 .. n : u[m + i] = checked[i] /\ checked[i] \in Rows
      /\ \A i \in 1 .. m + n : i \notin 1 .. m => \E j \in 1 .. n : i = m + j
  BY Joined
<1>3. Passable(u)
  OBVIOUS
<1>. HIDE DEF m, n, u, plan
<1>4. \A i \in 1 .. m + n : u[i] \in Rows /\ Rank(u[i]) \in 1 .. 11
  BY <1>2, RankTyped
<1>5. ASSUME NEW i \in 1 .. m + n
      PROVE  /\ plan[i].row = u[i]
             /\ plan[i].mode = IF i <= m THEN "update" ELSE "share"
  <2>1. CASE i <= m
    <3>1. i \in 1 .. m /\ plan[i] = ForUpdate(locked[i])
      BY <1>1, <1>2, <2>1
    <3>. QED
      BY <1>2, <2>1, <3>1 DEF ForUpdate
  <2>2. CASE ~(i <= m)
    <3>1. PICK j \in 1 .. n : i = m + j
      BY <1>2, <2>2
    <3>2. plan[i] = ForShare(checked[j])
      <4>1. i - m = j
        BY <1>2, <3>1
      <4>. QED
        BY <1>1, <2>2, <4>1
    <3>. QED
      BY <1>2, <2>2, <3>1, <3>2 DEF ForShare
  <2>. QED
    BY <2>1, <2>2
<1>6. Len(plan) = m + n /\ DOMAIN plan = 1 .. m + n /\ m + n \in Nat
  <2>. DEFINE S == {plan[i] : i \in 1 .. m + n}
  <2>1. plan \in [1 .. m + n -> S]
    BY <1>1
  <2>. HIDE DEF S
  <2>2. m + n \in Nat
    BY <1>2
  <2>3. plan \in Seq(S) /\ DOMAIN plan = 1 .. m + n
    BY <2>1, <2>2, SeqDef
  <2>. QED
    BY <2>2, <2>3, LenProperties
<1>7. ASSUME NEW j \in 1 .. m + n, NEW i \in 1 .. j - 1
      PROVE  \/ Rank(plan[i].row) < Rank(plan[j].row)
             \/ \E k \in 1 .. j - 1 :
                   /\ plan[k].row = plan[j].row
                   /\ plan[k].mode = "update" \/ plan[j].mode = "share"
             \/ \E k \in 1 .. j - 1 :
                   Common(plan[k].row) /\ Rank(plan[j].row) <= Rank(plan[k].row)
  <2>1. \A k \in 1 .. j - 1 : k \in 1 .. m + n /\ k < j
    BY <1>2
  <2>2. \/ Rank(u[i]) < Rank(u[j])
        \/ \E k \in 1 .. j - 1 : u[k] = u[j]
        \/ \E k \in 1 .. j - 1 : Common(u[k]) /\ Rank(u[j]) <= Rank(u[k])
    BY <1>2, <1>3 DEF Passable
  <2>3. ASSUME NEW k \in 1 .. j - 1, u[k] = u[j]
        PROVE  /\ plan[k].row = plan[j].row
               /\ plan[k].mode = "update" \/ plan[j].mode = "share"
    <3>1. k <= m \/ ~(j <= m)
      BY <1>2, <2>1
    <3>. QED
      BY <1>5, <2>1, <2>3, <3>1
  <2>. QED
    BY <1>5, <2>1, <2>2, <2>3
<1>8. Guarded(plan)
  BY <1>4, <1>5, <1>6, <1>7 DEF Guarded
<1>. QED
  BY <1>8 DEF plan

(* The three shapes of plans. *)
LEMMA HeadedPlan ==
    ASSUME NEW name, NEW locked, NEW checked \in Seq(Rows), Headed(locked, 0)
    PROVE  Guarded(Service(name, locked, checked).plan)
<1>1. Headed(locked \o checked, 0) /\ locked \in Seq(Rows)
  BY TailJoined DEF Headed
<1>2. Passable(locked \o checked)
  BY <1>1, HeadPasses
<1>. QED
  BY <1>1, <1>2, PlanGuarded

LEMMA CheckedPlan ==
    ASSUME NEW name, NEW locked, NEW checked, NEW b \in Nat, Between(locked, 0, b),
           Headed(checked, b)
    PROVE  Guarded(Service(name, locked, checked).plan)
<1>1. 0 \in Nat /\ 0 <= b /\ locked \in Seq(Rows) /\ checked \in Seq(Rows)
  BY DEF Between, Headed
<1>2. Headed(locked \o checked, 0)
  BY <1>1, HeadJoined
<1>3. Passable(locked \o checked)
  BY <1>2, HeadPasses
<1>. QED
  BY <1>1, <1>3, PlanGuarded

LEMMA AscendingPlan ==
    ASSUME NEW name, NEW locked, NEW checked, NEW b \in 0 .. 11, Between(locked, 0, b),
           Between(checked, b, 11)
    PROVE  Guarded(Service(name, locked, checked).plan)
<1>1. /\ 0 \in Nat /\ b \in Nat /\ 11 \in Nat /\ 0 <= b /\ b <= 11
      /\ locked \in Seq(Rows) /\ checked \in Seq(Rows)
  BY DEF Between
<1>2. Between(locked \o checked, 0, 11)
  BY <1>1, RowsJoined
<1>3. Passable(locked \o checked)
  BY <1>2, HeadPasses
<1>. QED
  BY <1>1, <1>3, PlanGuarded

(* The lists of rows that ascend. *)
LEMMA AscendingLists ==
    /\ \A a, b : Between(<<>>, a, b)
    /\ \A s \in Sales : /\ Between(<<Sale(s)>>, 0, 2)
                        /\ Between(<<Sale(s), Series>>, 0, 7)
                        /\ Between(<<Return(s), Sale(s), Series>>, 0, 7)
    /\ \A s \in Sales, x \in Drawers : Between(<<Sale(s), Session(x)>>, 0, 3)
    /\ \A x \in Drawers : /\ Between(<<Session(x)>>, 2, 3)
                          /\ Between(<<Session(x), Register(x)>>, 2, 4)
                          /\ Between(<<Session(x), Register(x)>>, 0, 4)
                          /\ Between(<<Register(x)>>, 3, 11)
    /\ Between(<<Customer>>, 0, 9) /\ Between(<<Customer>>, 2, 11)
<1>. USE Ranks DEF Between, Rows
<1>1. \A a, b : Between(<<>>, a, b)
  OBVIOUS
<1>2. \A s \in Sales : Between(<<Sale(s)>>, 0, 2)
  OBVIOUS
<1>3. \A s \in Sales : Between(<<Sale(s), Series>>, 0, 7)
  OBVIOUS
<1>4. \A s \in Sales : Between(<<Return(s), Sale(s), Series>>, 0, 7)
  OBVIOUS
<1>5. \A s \in Sales, x \in Drawers : Between(<<Sale(s), Session(x)>>, 0, 3)
  OBVIOUS
<1>6. \A x \in Drawers : /\ Between(<<Session(x)>>, 2, 3)
                         /\ Between(<<Session(x), Register(x)>>, 2, 4)
                         /\ Between(<<Session(x), Register(x)>>, 0, 4)
                         /\ Between(<<Register(x)>>, 3, 11)
  OBVIOUS
<1>7. Between(<<Customer>>, 0, 9) /\ Between(<<Customer>>, 2, 11)
  OBVIOUS
<1>. QED
  BY <1>1, <1>2, <1>3, <1>4, <1>5, <1>6, <1>7

(* The common row of a list in its first place, or in its second. *)
LEMMA FirstHeads ==
    ASSUME NEW seq \in Seq(Rows), Len(seq) >= 1, NEW first, seq[1] = first,
           Common(first), NEW a, a < Rank(first)
    PROVE  Headed(seq, a)
<1>1. 1 \in 1 .. Len(seq) /\ \A i \in 1 .. 1 : i = 1
  OBVIOUS
<1>. QED
  BY <1>1 DEF Headed

LEMMA SecondHeads ==
    ASSUME NEW seq \in Seq(Rows), Len(seq) >= 2, Common(seq[2]), NEW a \in Nat,
           a < Rank(seq[1]), Rank(seq[1]) < Rank(seq[2])
    PROVE  Headed(seq, a)
<1>1. 2 \in 1 .. Len(seq) /\ seq[1] \in Rows /\ seq[2] \in Rows
  OBVIOUS
<1>2. Rank(seq[1]) \in Int /\ Rank(seq[2]) \in Int
  BY <1>1, RankTyped
<1>3. \A i \in 1 .. 2 : i = 1 \/ i = 2
  OBVIOUS
<1>4. \A i \in 1 .. 2 : a < Rank(seq[i])
  BY <1>2, <1>3
<1>5. \A i, j \in 1 .. 2 : i < j => Rank(seq[i]) < Rank(seq[j])
  <2>1. \A i, j \in 1 .. 2 : i < j => i = 1 /\ j = 2
    BY <1>3
  <2>. QED
    BY <2>1
<1>. QED
  BY <1>1, <1>4, <1>5 DEF Headed

(* The lists of rows that ascend to a common row. *)
LEMMA HeadedLists ==
    /\ \A a \in 0 .. 7 : /\ Headed(<<Business>>, a) /\ Headed(<<Business, Store>>, a)
                         /\ \A i \in Products : Headed(<<Business, Product(i)>>, a)
                         /\ \A x \in Drawers : Headed(<<Business, Store, Register(x)>>, a)
    /\ \A a \in 0 .. 4 : Headed(Account, a) /\ \A i \in Products : Headed(Stock(i), a)
    /\ \A s \in Sales : /\ Headed(ReturnRows(s), 0)
                        /\ Headed(<<Return(s), Store, Sale(s)>>, 0)
<1>1. Common(Business) /\ Common(Store)
  BY DEF Common, Business, Store
<1>2. ASSUME NEW a \in 0 .. 7
      PROVE  /\ Headed(<<Business>>, a) /\ Headed(<<Business, Store>>, a)
             /\ \A i \in Products : Headed(<<Business, Product(i)>>, a)
             /\ \A x \in Drawers : Headed(<<Business, Store, Register(x)>>, a)
  <2>1. a < Rank(Business)
    BY Ranks
  <2>2. <<Business>> \in Seq(Rows) /\ <<Business, Store>> \in Seq(Rows)
    BY DEF Rows
  <2>3. \A i \in Products : <<Business, Product(i)>> \in Seq(Rows)
    BY DEF Rows
  <2>4. \A x \in Drawers : <<Business, Store, Register(x)>> \in Seq(Rows)
    BY DEF Rows
  <2>5. Headed(<<Business>>, a) /\ Headed(<<Business, Store>>, a)
    <3>1. Len(<<Business>>) >= 1 /\ <<Business>>[1] = Business
      OBVIOUS
    <3>2. Len(<<Business, Store>>) >= 1 /\ <<Business, Store>>[1] = Business
      OBVIOUS
    <3>. QED
      BY <1>1, <2>1, <2>2, <3>1, <3>2, FirstHeads, Zenon
  <2>6. ASSUME NEW i \in Products PROVE Headed(<<Business, Product(i)>>, a)
    <3>1. Len(<<Business, Product(i)>>) >= 1 /\ <<Business, Product(i)>>[1] = Business
      OBVIOUS
    <3>. QED
      BY <1>1, <2>1, <2>3, <3>1, FirstHeads, Zenon
  <2>7. ASSUME NEW x \in Drawers PROVE Headed(<<Business, Store, Register(x)>>, a)
    <3>1. /\ Len(<<Business, Store, Register(x)>>) >= 1
          /\ <<Business, Store, Register(x)>>[1] = Business
      OBVIOUS
    <3>. QED
      BY <1>1, <2>1, <2>4, <3>1, FirstHeads, Zenon
  <2>. QED
    BY <2>5, <2>6, <2>7
<1>3. ASSUME NEW a \in 0 .. 4
      PROVE  Headed(Account, a) /\ \A i \in Products : Headed(Stock(i), a)
  <2>1. /\ Account \in Seq(Rows) /\ Len(Account) >= 2
        /\ Account[1] = CustomerAccount /\ Account[2] = Business
    BY DEF Account, Rows
  <2>2. Headed(Account, a)
    BY <1>1, <2>1, Ranks, SecondHeads
  <2>3. ASSUME NEW i \in Products PROVE Headed(Stock(i), a)
    <3>1. /\ Stock(i) \in Seq(Rows) /\ Len(Stock(i)) >= 2
          /\ Stock(i)[1] = Item(i) /\ Stock(i)[2] = Business
      BY DEF Stock, Rows
    <3>. QED
      BY <1>1, <3>1, Ranks, SecondHeads
  <2>. QED
    BY <2>2, <2>3
<1>4. ASSUME NEW s \in Sales
      PROVE  Headed(ReturnRows(s), 0) /\ Headed(<<Return(s), Store, Sale(s)>>, 0)
  <2>1. /\ ReturnRows(s) \in Seq(Rows) /\ Len(ReturnRows(s)) >= 2
        /\ ReturnRows(s)[1] = Return(s) /\ ReturnRows(s)[2] = Business
    BY DEF ReturnRows, Rows
  <2>2. <<Return(s), Store, Sale(s)>> \in Seq(Rows)
    BY DEF Rows
  <2>3. Headed(ReturnRows(s), 0)
    BY <1>1, <2>1, Ranks, SecondHeads
  <2>4. Headed(<<Return(s), Store, Sale(s)>>, 0)
    <3>. DEFINE q == <<Return(s), Store, Sale(s)>>
    <3>1. Len(q) >= 2 /\ q[1] = Return(s) /\ q[2] = Store
      OBVIOUS
    <3>2. q \in Seq(Rows)
      BY <2>2
    <3>. HIDE DEF q
    <3>3. Common(q[2]) /\ 0 < Rank(q[1]) /\ Rank(q[1]) < Rank(q[2]) /\ 0 \in Nat
      BY <1>1, <3>1, Ranks
    <3>4. Headed(q, 0)
      BY <3>1, <3>2, <3>3, SecondHeads, Zenon
    <3>. QED
      BY <3>4 DEF q
  <2>. QED
    BY <2>3, <2>4
<1>. QED
  BY <1>2, <1>3, <1>4

(* Other lists of rows. *)
LEMMA SomeLists ==
    /\ <<>> \in Seq(Rows)
    /\ <<Store>> \in Seq(Rows) /\ <<Business>> \in Seq(Rows)
    /\ <<Business, Store>> \in Seq(Rows) /\ <<Customer, Store>> \in Seq(Rows)
    /\ Account \in Seq(Rows)
    /\ \A x \in MaybeDrawer :
          /\ Drawer(x) \in Seq(Rows)
          /\ (IF x = NoDrawer THEN <<>> ELSE <<Register(x), Session(x)>>) \in Seq(Rows)
<1>1. /\ <<>> \in Seq(Rows)
      /\ <<Store>> \in Seq(Rows) /\ <<Business>> \in Seq(Rows)
      /\ <<Business, Store>> \in Seq(Rows) /\ <<Customer, Store>> \in Seq(Rows)
      /\ Account \in Seq(Rows)
  BY DEF Rows, Account
<1>2. ASSUME NEW x \in Drawers
      PROVE  <<Session(x), Register(x)>> \in Seq(Rows) /\ <<Register(x), Session(x)>> \in Seq(Rows)
  BY DEF Rows
<1>. QED
  BY <1>1, <1>2 DEF Drawer, MaybeDrawer

(* The lines of a sale, a return, an adjustment or a receipt. *)
LEMMA BasketLists ==
    ASSUME NEW l \in Baskets
    PROVE  /\ l \in Seq(Products) /\ Len(l) \in Nat \ {0}
           /\ \A n \in 1 .. Len(l) : l[n] \in Products
<1>1. PICK n \in 1 .. MaxLines : l \in [1 .. n -> Products]
  BY DEF Baskets
<1>2. n \in Nat \ {0}
  OBVIOUS
<1>3. l \in Seq(Products) /\ Len(l) = n
  BY <1>1, <1>2
<1>. QED
  BY <1>2, <1>3

LEMMA MovedLists ==
    ASSUME NEW l \in Baskets
    PROVE  Moved(l) \in Seq(Rows) /\ \A a \in 0 .. 4 : Headed(Moved(l), a)
<1>. DEFINE N == 4 * Len(l)
            m == Moved(l)
<1>1. l \in Seq(Products) /\ Len(l) \in Nat \ {0} /\ \A n \in 1 .. Len(l) : l[n] \in Products
  BY BasketLists
<1>2. N \in Nat /\ N >= 4
  BY <1>1
<1>3. m = [n \in 1 .. N |-> Stock(l[(n + 3) \div 4])[1 + ((n - 1) % 4)]]
  BY DEF Moved
<1>4. ASSUME NEW i \in Products, NEW k \in 1 .. 4 PROVE Stock(i)[k] \in Rows
  BY DEF Stock, Rows
<1>5. ASSUME NEW n \in 1 .. N
      PROVE  (n + 3) \div 4 \in 1 .. Len(l) /\ 1 + ((n - 1) % 4) \in 1 .. 4
  BY <1>1
<1>6. m[1] = Stock(l[1])[1] /\ m[2] = Stock(l[1])[2]
  <2>1. 1 \in 1 .. N /\ 2 \in 1 .. N
    BY <1>2
  <2>2. (1 + 3) \div 4 = 1 /\ 1 + ((1 - 1) % 4) = 1 /\ (2 + 3) \div 4 = 1 /\ 1 + ((2 - 1) % 4) = 2
    OBVIOUS
  <2>. QED
    BY <1>3, <2>1, <2>2
<1>7. l[1] \in Products
  BY <1>1
<1>. HIDE DEF N, m
<1>8. \A n \in 1 .. N : Stock(l[(n + 3) \div 4])[1 + ((n - 1) % 4)] \in Rows
  <2>. SUFFICES ASSUME NEW n \in 1 .. N
                PROVE  Stock(l[(n + 3) \div 4])[1 + ((n - 1) % 4)] \in Rows
    OBVIOUS
  <2>1. l[(n + 3) \div 4] \in Products
    BY <1>1, <1>5
  <2>. QED
    BY <1>4, <1>5, <2>1
<1>9. m \in Seq(Rows) /\ Len(m) = N
  <2>1. m \in [1 .. N -> Rows]
    BY <1>3, <1>8
  <2>. QED
    BY <1>2, <2>1
<1>10. m[1] = Item(l[1]) /\ m[2] = Business
  BY <1>6 DEF Stock
<1>11. Common(Business)
  BY DEF Common, Business
<1>12. ASSUME NEW a \in 0 .. 4 PROVE Headed(m, a)
  <2>1. Len(m) >= 2 /\ a \in Nat /\ a < Rank(m[1]) /\ Rank(m[1]) < Rank(m[2])
    BY <1>2, <1>9, <1>10, Ranks
  <2>. QED
    BY <1>9, <1>10, <1>11, <2>1, SecondHeads
<1>. QED
  BY <1>9, <1>12 DEF m

(* The products and the records of the lines of an order or a receipt. *)
LEMMA KeyLists ==
    ASSUME NEW l \in Baskets
    PROVE  /\ Headed([n \in DOMAIN l |-> Product(l[n])], 0)
           /\ [n \in DOMAIN l |-> Item(l[n])] \in Seq(Rows)
<1>1. /\ l \in Seq(Products) /\ Len(l) \in Nat \ {0} /\ DOMAIN l = 1 .. Len(l)
      /\ \A n \in 1 .. Len(l) : l[n] \in Products
  BY BasketLists
<1>2. \A i \in Products : Product(i) \in Rows /\ Item(i) \in Rows
  BY DEF Rows
<1>. DEFINE p == [n \in DOMAIN l |-> Product(l[n])]
            r == [n \in DOMAIN l |-> Item(l[n])]
<1>3. p \in [1 .. Len(l) -> Rows] /\ r \in [1 .. Len(l) -> Rows]
  BY <1>1, <1>2
<1>4. p \in Seq(Rows) /\ r \in Seq(Rows) /\ Len(p) = Len(l)
  BY <1>1, <1>3
<1>5. p[1] = Product(l[1]) /\ Common(p[1]) /\ Rank(p[1]) = 11
  <2>1. p[1] = Product(l[1])
    BY <1>1
  <2>. QED
    BY <2>1, Ranks DEF Common, Product
<1>. HIDE DEF p
<1>6. Headed(p, 0)
  BY <1>1, <1>4, <1>5, FirstHeads
<1>. QED
  BY <1>4, <1>6 DEF p

(* The rows that a sale or its document refers to, the business first. *)
LEMMA DocumentedLists ==
    ASSUME NEW x \in MaybeDrawer, NEW a \in 0 .. 7
    PROVE  Headed(Documented(x), a)
<1>. DEFINE d == IF x = NoDrawer THEN <<>> ELSE <<Register(x), Session(x)>>
<1>1. d \in Seq(Rows) /\ <<Customer, Store>> \in Seq(Rows) /\ Headed(<<Business>>, a)
  BY SomeLists, HeadedLists
<1>2. Documented(x) = (<<Business>> \o d) \o <<Customer, Store>>
  BY DEF Documented
<1>. HIDE DEF d
<1>3. Headed(<<Business>> \o d, a)
  BY <1>1, TailJoined, Zenon
<1>4. Headed((<<Business>> \o d) \o <<Customer, Store>>, a)
  BY <1>1, <1>3, TailJoined, Zenon
<1>. QED
  BY <1>2, <1>4

(* A sale, and its drawer when it has one. *)
LEMMA DrawerLists ==
    ASSUME NEW s \in Sales, NEW x \in MaybeDrawer
    PROVE  /\ Between(<<Sale(s)>> \o (IF x = NoDrawer THEN <<>> ELSE <<Session(x)>>), 0, 3)
           /\ Between(<<Sale(s)>> \o Drawer(x), 0, 4)
<1>1. /\ Between(<<Sale(s)>>, 0, 2)
      /\ Between(IF x = NoDrawer THEN <<>> ELSE <<Session(x)>>, 2, 3)
      /\ Between(Drawer(x), 2, 4)
  BY AscendingLists DEF MaybeDrawer, Drawer
<1>2. 0 \in Nat /\ 2 \in Nat /\ 3 \in Nat /\ 4 \in Nat /\ 0 <= 2 /\ 2 <= 3 /\ 2 <= 4
  OBVIOUS
<1>. QED
  BY <1>1, <1>2, RowsJoined, Zenon

(* Carts and customers. *)
LEMMA CartsGuarded ==
    /\ \A x \in MaybeDrawer : Guarded(CreateSale(x).plan)
    /\ \A s \in Sales, i \in Products : Guarded(EditCart(s, i).plan)
    /\ \A s \in Sales : Guarded(UpdateHeader(s).plan)
    /\ \A s \in Sales, x \in Drawers : Guarded(AttachSession(s, x).plan)
    /\ Guarded(UpdateCustomer.plan)
<1>0. /\ 0 \in Nat /\ 2 \in Nat /\ 2 \in 0 .. 11 /\ 3 \in 0 .. 11 /\ 9 \in 0 .. 11
      /\ 0 \in 0 .. 7 /\ 2 \in 0 .. 7
  OBVIOUS
<1>1. ASSUME NEW x \in MaybeDrawer PROVE Guarded(CreateSale(x).plan)
  <2>1. Between(<<>>, 0, 0) /\ Headed(Documented(x), 0)
    BY <1>0, AscendingLists, DocumentedLists
  <2>2. CreateSale(x) = Service("create_sale", <<>>, Documented(x))
    BY DEF CreateSale, Documented
  <2>. QED
    BY <1>0, <2>1, <2>2, CheckedPlan, Zenon
<1>2. ASSUME NEW s \in Sales, NEW i \in Products PROVE Guarded(EditCart(s, i).plan)
  <2>1. Between(<<Sale(s)>>, 0, 2) /\ Headed(<<Business, Product(i)>>, 2)
    BY <1>0, AscendingLists, HeadedLists
  <2>. QED
    BY <1>0, <2>1, CheckedPlan, Zenon DEF EditCart
<1>3. ASSUME NEW s \in Sales PROVE Guarded(UpdateHeader(s).plan)
  <2>1. Between(<<Sale(s)>>, 0, 2) /\ Between(<<Customer>>, 2, 11)
    BY AscendingLists
  <2>. QED
    BY <1>0, <2>1, AscendingPlan, Zenon DEF UpdateHeader
<1>4. ASSUME NEW s \in Sales, NEW x \in Drawers PROVE Guarded(AttachSession(s, x).plan)
  <2>1. Between(<<Sale(s), Session(x)>>, 0, 3) /\ Between(<<Register(x)>>, 3, 11)
    BY AscendingLists
  <2>. QED
    BY <1>0, <2>1, AscendingPlan, Zenon DEF AttachSession
<1>5. Guarded(UpdateCustomer.plan)
  <2>1. Between(<<Customer>>, 0, 9) /\ Between(<<>>, 9, 11)
    BY AscendingLists
  <2>. QED
    BY <1>0, <2>1, AscendingPlan, Zenon DEF UpdateCustomer
<1>. QED
  BY <1>1, <1>2, <1>3, <1>4, <1>5

(* Completed sales, with stock or without. *)
LEMMA SalesGuarded ==
    ASSUME NEW s \in Sales, NEW x \in MaybeDrawer, NEW l \in Sorted \cup {<<>>}
    PROVE  Guarded(CompleteSale(s, x, l).plan)
<1>. DEFINE head == <<Sale(s)>> \o (IF x = NoDrawer THEN <<>> ELSE <<Session(x)>>)
<1>1. CompleteSale(s, x, l) =
          Service("complete_sale", head \o Moved(l), <<Business, Store>>)
  BY DEF CompleteSale
<1>2. Between(head, 0, 3)
  BY DrawerLists
<1>3. /\ 0 \in Nat /\ 3 \in Nat /\ 0 <= 3 /\ 3 <= 3 /\ 3 \in 0 .. 7 /\ 3 \in 0 .. 4
      /\ <<Business, Store>> \in Seq(Rows)
  BY SomeLists
<1>. HIDE DEF head
<1>4. CASE l \in Baskets
  <2>1. Headed(Moved(l), 3)
    BY <1>3, <1>4, MovedLists
  <2>2. Headed(head \o Moved(l), 0)
    BY <1>2, <1>3, <2>1, HeadJoined, Zenon
  <2>. QED
    BY <1>1, <1>3, <2>2, HeadedPlan, Zenon
<1>5. CASE l = <<>>
  <2>1. Moved(l) = <<>>
    BY <1>5 DEF Moved
  <2>2. Between(Moved(l), 3, 3) /\ Headed(<<Business, Store>>, 3)
    BY <1>3, <2>1, AscendingLists, HeadedLists
  <2>3. Between(head \o Moved(l), 0, 3)
    BY <1>2, <1>3, <2>2, RowsJoined, Zenon
  <2>. QED
    BY <1>1, <1>3, <2>2, <2>3, CheckedPlan, Zenon
<1>. QED
  BY <1>4, <1>5 DEF Sorted

(* Payments, debt and the work with a drawer. *)
LEMMA PaymentsGuarded ==
    /\ \A s \in Sales, x \in MaybeDrawer, debt \in BOOLEAN :
          Guarded(PaySale(s, x, debt).plan)
    /\ \A s \in Sales : Guarded(ChargeOnAccount(s).plan)
    /\ Guarded(UpdateAccount.plan)
    /\ \A x \in Drawers : Guarded(WorkDrawer(x).plan)
<1>0. /\ 0 \in Nat /\ 2 \in Nat /\ 4 \in Nat /\ 0 <= 2 /\ 0 <= 4 /\ 4 <= 4
      /\ 4 \in 0 .. 7 /\ 0 \in 0 .. 4 /\ 2 \in 0 .. 4 /\ 4 \in 0 .. 4
  OBVIOUS
<1>1. ASSUME NEW s \in Sales, NEW x \in MaybeDrawer, NEW debt \in BOOLEAN
      PROVE  Guarded(PaySale(s, x, debt).plan)
  <2>. DEFINE head == <<Sale(s)>> \o Drawer(x)
  <2>1. Between(head, 0, 4) /\ Headed(Account, 4) /\ Headed(<<Business, Store>>, 4)
    BY <1>0, DrawerLists, HeadedLists
  <2>2. PaySale(s, x, debt) =
            Service("pay_sale", head \o (IF debt THEN Account ELSE <<>>), <<Business, Store>>)
    BY DEF PaySale
  <2>. HIDE DEF head
  <2>3. CASE debt
    <3>1. Headed(head \o Account, 0)
      BY <1>0, <2>1, HeadJoined, Zenon
    <3>2. PaySale(s, x, debt) = Service("pay_sale", head \o Account, <<Business, Store>>)
      BY <2>2, <2>3
    <3>. QED
      BY <3>1, <3>2, SomeLists, HeadedPlan, Zenon
  <2>4. CASE ~debt
    <3>1. Between(<<>>, 4, 4)
      BY AscendingLists
    <3>2. Between(head \o <<>>, 0, 4)
      BY <1>0, <2>1, <3>1, RowsJoined, Zenon
    <3>3. PaySale(s, x, debt) = Service("pay_sale", head \o <<>>, <<Business, Store>>)
      BY <2>2, <2>4
    <3>. QED
      BY <1>0, <2>1, <3>2, <3>3, CheckedPlan, Zenon
  <2>. QED
    BY <2>3, <2>4
<1>2. ASSUME NEW s \in Sales PROVE Guarded(ChargeOnAccount(s).plan)
  <2>1. Between(<<Sale(s)>>, 0, 2) /\ Headed(Account, 2) /\ <<Store>> \in Seq(Rows)
    BY <1>0, AscendingLists, HeadedLists, SomeLists
  <2>2. Headed(<<Sale(s)>> \o Account, 0)
    BY <1>0, <2>1, HeadJoined, Zenon
  <2>. QED
    BY <2>1, <2>2, HeadedPlan, Zenon DEF ChargeOnAccount
<1>3. Guarded(UpdateAccount.plan)
  <2>1. Headed(Account, 0) /\ <<>> \in Seq(Rows)
    BY <1>0, HeadedLists, SomeLists
  <2>. QED
    BY <2>1, HeadedPlan, Zenon DEF UpdateAccount
<1>4. ASSUME NEW x \in Drawers PROVE Guarded(WorkDrawer(x).plan)
  <2>1. Between(Drawer(x), 0, 4) /\ Headed(<<Business, Store>>, 4)
    BY <1>0, LocksAssumption, AscendingLists, HeadedLists DEF Drawer
  <2>. QED
    BY <1>0, <2>1, CheckedPlan, Zenon DEF WorkDrawer
<1>. QED
  BY <1>1, <1>2, <1>3, <1>4

(* Documents. *)
LEMMA DocumentsGuarded ==
    ASSUME NEW s \in Sales, NEW x \in MaybeDrawer
    PROVE  Guarded(IssueDocument(s, x).plan) /\ Guarded(IssueRectification(s, x).plan)
<1>0. 7 \in 0 .. 7 /\ 7 \in Nat
  OBVIOUS
<1>1. /\ Between(<<Sale(s), Series>>, 0, 7)
      /\ Between(<<Return(s), Sale(s), Series>>, 0, 7)
      /\ Headed(Documented(x), 7) /\ 7 \in Nat
  BY <1>0, AscendingLists, DocumentedLists
<1>2. Guarded(IssueDocument(s, x).plan)
  BY <1>1, CheckedPlan, Zenon DEF IssueDocument
<1>3. Guarded(IssueRectification(s, x).plan)
  BY <1>1, CheckedPlan, Zenon DEF IssueRectification
<1>. QED
  BY <1>2, <1>3

(* Returns and refunds. *)
LEMMA ReturnsGuarded ==
    ASSUME NEW s \in Sales
    PROVE  /\ Guarded(DraftReturn(s).plan) /\ Guarded(EditReturn(s).plan)
           /\ \A l \in Baskets : Guarded(FinishReturn(s, l).plan)
           /\ \A x \in MaybeDrawer : Guarded(Refund(s, x).plan)
<1>1. Guarded(DraftReturn(s).plan)
  <2>0. 2 \in 0 .. 7 /\ 2 \in Nat
    OBVIOUS
  <2>1. Between(<<Sale(s)>>, 0, 2) /\ Headed(<<Business, Store>>, 2)
    BY <2>0, AscendingLists, HeadedLists
  <2>. QED
    BY <2>0, <2>1, CheckedPlan, Zenon DEF DraftReturn
<1>2. Headed(ReturnRows(s), 0) /\ <<>> \in Seq(Rows)
  BY HeadedLists, SomeLists
<1>3. Guarded(EditReturn(s).plan)
  BY <1>2, HeadedPlan, Zenon DEF EditReturn
<1>4. ASSUME NEW l \in Baskets PROVE Guarded(FinishReturn(s, l).plan)
  <2>1. Moved(l) \in Seq(Rows) /\ Account \in Seq(Rows)
    BY MovedLists, SomeLists
  <2>2. Headed(ReturnRows(s) \o Moved(l), 0)
    BY <1>2, <2>1, TailJoined, Zenon
  <2>3. Headed((ReturnRows(s) \o Moved(l)) \o Account, 0)
    BY <2>1, <2>2, TailJoined, Zenon
  <2>4. FinishReturn(s, l) =
            Service("complete_return", (ReturnRows(s) \o Moved(l)) \o Account, <<>>)
    BY DEF FinishReturn
  <2>. QED
    BY <1>2, <2>3, <2>4, HeadedPlan, Zenon
<1>5. ASSUME NEW x \in MaybeDrawer PROVE Guarded(Refund(s, x).plan)
  <2>1. /\ Headed(<<Return(s), Store, Sale(s)>>, 0)
        /\ Drawer(x) \in Seq(Rows) /\ <<Business>> \in Seq(Rows)
    BY HeadedLists, SomeLists
  <2>2. Headed(<<Return(s), Store, Sale(s)>> \o Drawer(x), 0)
    BY <2>1, TailJoined, Zenon
  <2>. QED
    BY <2>1, <2>2, HeadedPlan, Zenon DEF Refund
<1>. QED
  BY <1>1, <1>3, <1>4, <1>5

(* Registers, stores, stock and purchases. *)
LEMMA StockGuarded ==
    /\ \A x \in Drawers : Guarded(ManageRegister(x).plan)
    /\ Guarded(ManageStore.plan)
    /\ \A i \in Products : Guarded(AdjustStock(i).plan)
    /\ \A l \in Baskets : Guarded(ConfirmAdjustment(l).plan) /\ Guarded(OrderPurchase(l).plan)
    /\ \A l, r \in Baskets : Guarded(ReceivePurchase(l, r).plan)
<1>0. /\ \A x \in Drawers : Headed(<<Business, Store, Register(x)>>, 0)
      /\ Headed(<<Business, Store>>, 0)
      /\ \A i \in Products : Headed(Stock(i), 0)
      /\ <<>> \in Seq(Rows)
  BY HeadedLists, SomeLists
<1>1. \A x \in Drawers : Guarded(ManageRegister(x).plan)
  BY <1>0, HeadedPlan, Zenon DEF ManageRegister
<1>2. Guarded(ManageStore.plan)
  BY <1>0, HeadedPlan, Zenon DEF ManageStore
<1>3. \A i \in Products : Guarded(AdjustStock(i).plan)
  BY <1>0, HeadedPlan, Zenon DEF AdjustStock
<1>4. ASSUME NEW l \in Baskets
      PROVE  Guarded(ConfirmAdjustment(l).plan) /\ Guarded(OrderPurchase(l).plan)
  <2>1. Moved(l) \in Seq(Rows) /\ Headed([n \in DOMAIN l |-> Product(l[n])], 0)
    BY MovedLists, KeyLists
  <2>2. Headed(<<Business, Store>> \o Moved(l), 0)
    BY <1>0, <2>1, TailJoined, Zenon
  <2>3. Guarded(ConfirmAdjustment(l).plan)
    BY <1>0, <2>2, HeadedPlan, Zenon DEF ConfirmAdjustment
  <2>4. Guarded(OrderPurchase(l).plan)
    BY <1>0, <2>1, HeadedPlan, Zenon DEF OrderPurchase
  <2>. QED
    BY <2>3, <2>4
<1>5. ASSUME NEW l \in Baskets, NEW r \in Baskets PROVE Guarded(ReceivePurchase(l, r).plan)
  <2>. DEFINE p == [n \in DOMAIN l |-> Product(l[n])]
              i == [n \in DOMAIN r |-> Item(r[n])]
  <2>1. Headed(p, 0) /\ i \in Seq(Rows) /\ Moved(l) \in Seq(Rows)
    BY MovedLists, KeyLists, Zenon
  <2>2. ReceivePurchase(l, r) = Service("receive_purchase", (p \o i) \o Moved(l), <<>>)
    BY DEF ReceivePurchase
  <2>. HIDE DEF p, i
  <2>3. Headed(p \o i, 0)
    BY <2>1, TailJoined, Zenon
  <2>4. Headed((p \o i) \o Moved(l), 0)
    BY <2>1, <2>3, TailJoined, Zenon
  <2>. QED
    BY <1>0, <2>2, <2>4, HeadedPlan, Zenon
<1>. QED
  BY <1>1, <1>2, <1>3, <1>4, <1>5

(* The plan of every service is guarded. *)
LEMMA ServicesGuarded ==
    ASSUME NEW o \in Services
    PROVE  Guarded(o.plan)
<1>. DEFINE S1 == {CreateSale(x) : x \in MaybeDrawer}
            S2 == {EditCart(s, i) : s \in Sales, i \in Products}
            S3 == {UpdateHeader(s) : s \in Sales}
            S4 == {AttachSession(s, x) : s \in Sales, x \in Drawers}
            S5 == {CompleteSale(s, x, l) :
                      s \in Sales, x \in MaybeDrawer, l \in Sorted \cup {<<>>}}
            S6 == {PaySale(s, x, debt) : s \in Sales, x \in MaybeDrawer, debt \in BOOLEAN}
            S7 == {ChargeOnAccount(s) : s \in Sales}
            S8 == {UpdateAccount, UpdateCustomer}
            S9 == {IssueDocument(s, x) : s \in Sales, x \in MaybeDrawer}
            S10 == {IssueRectification(s, x) : s \in Sales, x \in MaybeDrawer}
            S11 == {WorkDrawer(x) : x \in Drawers}
            S12 == {DraftReturn(s) : s \in Sales}
            S13 == {EditReturn(s) : s \in Sales}
            S14 == {FinishReturn(s, l) : s \in Sales, l \in Baskets}
            S15 == {Refund(s, x) : s \in Sales, x \in MaybeDrawer}
            S16 == {ManageRegister(x) : x \in Drawers}
            S17 == {ManageStore}
            S18 == {AdjustStock(i) : i \in Products}
            S19 == {ConfirmAdjustment(l) : l \in Baskets}
            S20 == {OrderPurchase(l) : l \in Baskets}
            S21 == {ReceivePurchase(p[1], p[2]) : p \in Arranged}
<1>1. Services = S1 \cup S2 \cup S3 \cup S4 \cup S5 \cup S6 \cup S7 \cup S8 \cup S9
                   \cup S10 \cup S11 \cup S12 \cup S13 \cup S14 \cup S15 \cup S16
                   \cup S17 \cup S18 \cup S19 \cup S20 \cup S21
  BY DEF Services
<1>. HIDE DEF S1, S2, S3, S4, S5, S6, S7, S8, S9, S10, S11, S12, S13, S14, S15, S16,
              S17, S18, S19, S20, S21
<1>2. \/ o \in S1 \/ o \in S2 \/ o \in S3 \/ o \in S4 \/ o \in S5 \/ o \in S6
      \/ o \in S7 \/ o \in S8 \/ o \in S9 \/ o \in S10 \/ o \in S11 \/ o \in S12
      \/ o \in S13 \/ o \in S14 \/ o \in S15 \/ o \in S16 \/ o \in S17 \/ o \in S18
      \/ o \in S19 \/ o \in S20 \/ o \in S21
  BY <1>1
<1>3. CASE o \in S1 \/ o \in S3
  BY <1>3, CartsGuarded DEF S1, S3
<1>4. CASE o \in S2
  BY <1>4, CartsGuarded DEF S2
<1>5. CASE o \in S4
  BY <1>5, CartsGuarded DEF S4
<1>6. CASE o \in S5
  BY <1>6, SalesGuarded DEF S5
<1>7. CASE o \in S6
  BY <1>7, PaymentsGuarded DEF S6
<1>8. CASE o \in S7 \/ o \in S11
  BY <1>8, PaymentsGuarded DEF S7, S11
<1>9. CASE o \in S8
  BY <1>9, PaymentsGuarded, CartsGuarded DEF S8
<1>10. CASE o \in S9
  BY <1>10, DocumentsGuarded DEF S9
<1>11. CASE o \in S10
  BY <1>11, DocumentsGuarded DEF S10
<1>12. CASE o \in S12 \/ o \in S13
  BY <1>12, ReturnsGuarded DEF S12, S13
<1>13. CASE o \in S14
  BY <1>13, ReturnsGuarded DEF S14
<1>14. CASE o \in S15
  BY <1>14, ReturnsGuarded DEF S15
<1>15. CASE o \in S16 \/ o \in S17 \/ o \in S18
  BY <1>15, StockGuarded DEF S16, S17, S18
<1>16. CASE o \in S19 \/ o \in S20
  BY <1>16, StockGuarded DEF S19, S20
<1>17. CASE o \in S21
  <2>1. PICK p \in Arranged : o = ReceivePurchase(p[1], p[2])
    BY <1>17 DEF S21
  <2>2. p[1] \in Baskets /\ p[2] \in Baskets
    BY DEF Arranged, Sorted
  <2>. QED
    BY <2>1, <2>2, StockGuarded
<1>. QED
  BY <1>2, <1>3, <1>4, <1>5, <1>6, <1>7, <1>8, <1>9, <1>10, <1>11, <1>12, <1>13, <1>14,
     <1>15, <1>16, <1>17, Zenon

(* No two requests hold locks that conflict. *)
LocksInvariant ==
    /\ work \in [Requests -> Services \cup {NoWork}]
    /\ taken \in [Requests -> Nat]
    /\ \A q \in Requests : ~Running(q) => taken[q] = 0
    /\ \A p, q \in Requests : p # q =>
           \A a \in Held(p), b \in Held(q) : ~Conflict(a, b)

(* A step of a request keeps the locks of the requests apart. *)
LEMMA LocksStep ==
    ASSUME LocksInvariant, [LocksNext]_lockVars
    PROVE  LocksInvariant'
<1>. USE DEF LocksInvariant
<1>0. ASSUME NEW q \in Requests,
             \/ Held(q)' = {}
             \/ \A b \in Held(q)' : \A p \in Requests \ {q} : \A a \in Held(p) :
                    ~Conflict(a, b) /\ ~Conflict(b, a),
             \A p \in Requests \ {q} : Held(p)' = Held(p)
      PROVE  \A p, r \in Requests : p # r =>
                 \A a \in Held(p)', b \in Held(r)' : ~Conflict(a, b)
  BY <1>0
<1>1. ASSUME NEW q \in Requests, NEW o \in Services, Start(q, o)
      PROVE  LocksInvariant'
  <2>1. taken' = taken /\ taken[q] = 0 /\ work' = [work EXCEPT ![q] = o]
    BY <1>1 DEF Start
  <2>2. work' \in [Requests -> Services \cup {NoWork}]
    BY <2>1
  <2>3. Held(q)' = {}
    BY <2>1 DEF Held
  <2>4. \A p \in Requests \ {q} : Held(p)' = Held(p) /\ (Running(p)' <=> Running(p))
    BY <2>1 DEF Held, Running
  <2>5. \A p \in Requests : ~Running(p)' => taken'[p] = 0
    BY <2>1, <2>4
  <2>. QED
    BY <1>0, <2>1, <2>2, <2>3, <2>4, <2>5
<1>2. ASSUME NEW q \in Requests, Lock(q)
      PROVE  LocksInvariant'
  <2>1. /\ work' = work /\ taken' = [taken EXCEPT ![q] = taken[q] + 1]
        /\ Running(q) /\ \A p \in Requests : ~Blocks(p, q)
    BY <1>2 DEF Lock, Waits
  <2>2. Held(q)' = Held(q) \cup {Wanted(q)}
    <3>1. taken'[q] = taken[q] + 1 /\ work'[q] = work[q] /\ Running(q)'
      BY <2>1 DEF Running
    <3>2. \A n : n \in 1 .. taken[q] + 1 <=> n \in 1 .. taken[q] \/ n = taken[q] + 1
      OBVIOUS
    <3>. QED
      BY <2>1, <3>1, <3>2 DEF Held, Wanted
  <2>3. \A p \in Requests \ {q} : /\ Held(p)' = Held(p)
                                  /\ Running(p)' <=> Running(p)
    BY <2>1 DEF Held, Running
  <2>4. ASSUME NEW p \in Requests \ {q}, NEW a \in Held(p)
        PROVE  ~Conflict(a, Wanted(q)) /\ ~Conflict(Wanted(q), a)
    <3>1. ~Conflict(a, Wanted(q))
      BY <1>2, <2>1 DEF Blocks, Lock
    <3>. QED
      BY <3>1 DEF Conflict
  <2>5. \A b \in Held(q)' : \A p \in Requests \ {q} : \A a \in Held(p) :
            ~Conflict(a, b) /\ ~Conflict(b, a)
    BY <2>2, <2>4
  <2>6. taken' \in [Requests -> Nat] /\ \A p \in Requests : ~Running(p)' => taken'[p] = 0
    BY <2>1, <2>3 DEF Running
  <2>. QED
    BY <1>0, <2>1, <2>3, <2>5, <2>6
<1>3. ASSUME NEW q \in Requests, End(q)
      PROVE  LocksInvariant'
  <2>1. work' = [work EXCEPT ![q] = NoWork] /\ taken' = [taken EXCEPT ![q] = 0]
    BY <1>3 DEF End
  <2>2. Held(q)' = {}
    BY <2>1 DEF Held, Running
  <2>3. \A p \in Requests \ {q} : /\ Held(p)' = Held(p)
                                  /\ Running(p)' <=> Running(p)
    BY <2>1 DEF Held, Running
  <2>4. taken' \in [Requests -> Nat] /\ \A p \in Requests : ~Running(p)' => taken'[p] = 0
    BY <2>1, <2>3
  <2>5. work' \in [Requests -> Services \cup {NoWork}]
    BY <2>1
  <2>. QED
    BY <1>0, <2>2, <2>3, <2>4, <2>5
<1>4. CASE UNCHANGED lockVars
  <2>1. work' = work /\ taken' = taken
    BY <1>4 DEF lockVars
  <2>2. \A p \in Requests : Held(p)' = Held(p) /\ (Running(p)' <=> Running(p))
    BY <2>1 DEF Held, Running
  <2>. QED
    BY <2>1, <2>2
<1>. QED
  BY <1>1, <1>2, <1>3, <1>4 DEF LocksNext, Commit, Refuse, Deadlock

(* A row locked for update by a request is locked by no other: the database grants a
   lock only when no other request holds one that conflicts with it. *)
THEOREM LocksExclude == LocksSpec => []LocksInvariant
<1>1. LocksInit => LocksInvariant
  BY DEF LocksInit, LocksInvariant, Running, Held
<1>2. LocksInvariant /\ [LocksNext]_lockVars => LocksInvariant'
  BY LocksStep
<1>. QED
  BY <1>1, <1>2, PTL DEF LocksSpec

(* In a circle where no request is inverted, whoever blocks a request waits for a row
   after the one that is waited for from it. *)
LEMMA CircleAscends ==
    ASSUME LocksInvariant, NEW C \in SUBSET Requests, Circle(C),
           \A q \in C : ~Inverted(q), NEW q \in C
    PROVE  /\ Rank(Wanted(q).row) \in 1 .. 11
           /\ \E p \in C : Rank(Wanted(q).row) < Rank(Wanted(p).row)
<1>1. PICK p \in C : Blocks(p, q)
  BY DEF Circle
<1>2. PICK r \in C : Blocks(r, p)
  BY DEF Circle
<1>3. p \in Requests /\ q \in Requests /\ r \in Requests
  OBVIOUS
<1>4. ASSUME NEW x \in {p, q}
      PROVE  /\ Waits(x) /\ Running(x) /\ taken[x] \in Nat /\ Guarded(work[x].plan)
             /\ taken[x] + 1 \in DOMAIN work[x].plan
             /\ Wanted(x) = work[x].plan[taken[x] + 1]
             /\ Rank(Wanted(x).row) \in 1 .. 11
  <2>1. Waits(x) /\ Running(x)
    BY <1>1, <1>2 DEF Blocks, Waits
  <2>2. work[x] \in Services
    BY <1>3, <2>1 DEF Running, LocksInvariant
  <2>3. Guarded(work[x].plan)
    BY <2>2, ServicesGuarded
  <2>4. taken[x] \in Nat /\ taken[x] < Len(work[x].plan)
    BY <1>3, <2>1 DEF Waits, LocksInvariant
  <2>5. taken[x] + 1 \in DOMAIN work[x].plan
    BY <2>3, <2>4 DEF Guarded
  <2>6. Wanted(x) = work[x].plan[taken[x] + 1]
    BY DEF Wanted
  <2>. QED
    BY <2>1, <2>3, <2>4, <2>5, <2>6 DEF Guarded
<1>5. PICK lock \in Held(p) : Conflict(lock, Wanted(q))
  BY <1>1 DEF Blocks
<1>6. PICK n \in 1 .. taken[p] : lock = work[p].plan[n]
  BY <1>4, <1>5 DEF Held
<1>7. \/ Rank(lock.row) < Rank(Wanted(p).row)
      \/ \E k \in 1 .. taken[p] :
            /\ work[p].plan[k].row = Wanted(p).row
            /\ work[p].plan[k].mode = "update" \/ Wanted(p).mode = "share"
      \/ \E k \in 1 .. taken[p] :
            /\ Common(work[p].plan[k].row)
            /\ Rank(Wanted(p).row) <= Rank(work[p].plan[k].row)
  <2>1. (taken[p] + 1) - 1 = taken[p]
    BY <1>4
  <2>2. n \in 1 .. (taken[p] + 1) - 1
    BY <2>1
  <2>. QED
    BY <1>4, <1>6, <2>1, <2>2 DEF Guarded
<1>8. \A k \in 1 .. taken[p] : work[p].plan[k] \in Held(p)
  BY <1>4 DEF Held
<1>9. ASSUME NEW k \in 1 .. taken[p], work[p].plan[k].row = Wanted(p).row,
             work[p].plan[k].mode = "update" \/ Wanted(p).mode = "share"
      PROVE  FALSE
  <2>1. PICK other \in Held(r) : Conflict(other, Wanted(p))
    BY <1>2 DEF Blocks
  <2>2. Conflict(other, work[p].plan[k])
    BY <1>9, <2>1 DEF Conflict
  <2>3. r # p
    BY <1>2 DEF Blocks
  <2>. QED
    BY <1>3, <1>8, <2>1, <2>2, <2>3 DEF LocksInvariant
<1>10. ~\E k \in 1 .. taken[p] : /\ Common(work[p].plan[k].row)
                                 /\ Rank(Wanted(p).row) <= Rank(work[p].plan[k].row)
  BY <1>4, <1>8 DEF Inverted
<1>11. lock.row = Wanted(q).row
  BY <1>5 DEF Conflict
<1>12. Rank(Wanted(q).row) < Rank(Wanted(p).row)
  BY <1>7, <1>9, <1>10, <1>11
<1>. QED
  BY <1>4, <1>12

(* However many requests, sales, drawers and products there are, and whatever services
   they run, a circle of requests that wait for one another has one that holds the row
   of the business, the store or a product and waits for a row before it.  Without one
   every request of the circle would wait for a row after the one that is waited for
   from it, and the tables are finitely many. *)
THEOREM CirclesInverted == LocksSpec => []CirclesAreInversions
<1>1. LocksInvariant => CirclesAreInversions
  <2>. SUFFICES ASSUME LocksInvariant, NEW C \in SUBSET Requests, Circle(C),
                       \A q \in C : ~Inverted(q)
                PROVE  FALSE
    BY DEF CirclesAreInversions
  <2>. DEFINE below(q) == 11 - Rank(Wanted(q).row)
              S == {below(q) : q \in C}
  <2>1. \A q \in C : /\ Rank(Wanted(q).row) \in 1 .. 11
                     /\ \E p \in C : Rank(Wanted(q).row) < Rank(Wanted(p).row)
    BY CircleAscends
  <2>2. \A q \in C : below(q) \in Nat /\ \E p \in C : below(p) < below(q)
    BY <2>1
  <2>3. C # {}
    BY DEF Circle
  <2>. HIDE DEF below
  <2>4. S \in SUBSET Nat /\ S # {}
    BY <2>2, <2>3
  <2>5. PICK n \in S : \A m \in S : n <= m
    BY <2>4, LeastMember
  <2>. QED
    BY <2>2, <2>5
<1>. QED
  BY <1>1, LocksExclude, PTL
===============================================================================
