----------------------------- MODULE BillingProofs -----------------------------
(***************************************************************************)
(* What the documents of a business keep for any number of sales, returns, *)
(* series, keys and commands.  The invariant adds to the properties of     *)
(* Billing what every issued intent says about the history it was derived  *)
(* from, and that a command under way still has the history of its sale as *)
(* it read it: it holds the lock of the sale.                              *)
(***************************************************************************)
EXTENDS FiscalReports, FiniteSetTheorems, FunctionTheorems, TLAPS

AtMostOne(S) == \A x, y \in S : x = y

(* What an intent says of the history of its sale. *)
IssueSound(i) ==
    /\ i.op = "issue" /\ i.type \in {"F1", "F2"} /\ i.ret = None
    /\ i.companion = None /\ i.f3 = None
SubstitutionSound(i) ==
    /\ i.op = "substitute" /\ i.type = "F3" /\ i.ret = None
    /\ i.target \in Simplified(i.sale)
    /\ i.companion = None /\ i.f3 = None
RectificationSound(i) ==
    /\ i.op = "rectify" /\ i.ret \in Returns /\ retSale[i.ret] = i.sale
    /\ i.target \in Initial(i.sale) /\ i.type = RectificationType(i.target)
    /\ i.companion = None <=> i.f3 = None
    /\ i.f3 # None => i.type = "R5" /\ Substitutions(i.target) = {i.f3}
IntentSound(i) ==
    /\ i.sale \in Sales /\ i.series \in Series
    /\ IssueSound(i) \/ SubstitutionSound(i) \/ RectificationSound(i)

(* The companion that an intent with key k has in the end. *)
CompanionSound(k, i) ==
    IF i.companion = None THEN companion[k] = NoDocument
    ELSE companion[k].intent = CompanionIntent(k, i) /\ companion[k].number > 0

DocumentSound(k) ==
    IF doc[k] = NoDocument THEN companion[k] = NoDocument
    ELSE /\ IntentSound(doc[k].intent)
         /\ CompanionSound(k, doc[k].intent)
         /\ doc[k].intent.op = "rectify" =>
                anchor[doc[k].intent.ret] = doc[k].intent.target

HistoryInvariant ==
    /\ \A s \in Sales : AtMostOne(Initial(s))
    /\ \A k \in Keys : AtMostOne(Substitutions(k))
    /\ \A r \in Returns : AtMostOne(Rectifications(r))
    /\ \A k \in Keys : DocumentSound(k)
    /\ \A r \in Returns : anchor[r] # None =>
           retSale[r] # None /\ anchor[r] \in Initial(retSale[r])

(* What it wants to issue has not been issued since. *)
Unissued(i) ==
    /\ i.op = "issue" => Initial(i.sale) = {}
    /\ i.op = "substitute" => Substitutions(i.target) = {}
    /\ i.op = "rectify" => /\ Rectifications(i.ret) = {}
                           /\ anchor[i.ret] \in {None, i.target}

CommandSound(q) ==
    \/ command[q] = Idle
    \/ /\ command[q].key \in Keys
       /\ IntentSound(command[q].intent) /\ Unissued(command[q].intent)

CommandInvariant ==
    /\ \A q \in Commands : CommandSound(q)
    /\ \A p, q \in Commands :
           p # q => \/ command[p].intent.sale = None
                    \/ command[p].intent.sale # command[q].intent.sale

NumbersOf(x) ==
    {doc[k].number : k \in Own(x)} \cup {companion[k].number : k \in Derived(x)}
NumberInvariant ==
    /\ \A x \in Series :
          /\ IsFiniteSet(Own(x)) /\ IsFiniteSet(Derived(x))
          /\ NumbersOf(x) = 1 .. series[x].number
          /\ Cardinality(Own(x)) + Cardinality(Derived(x)) = series[x].number
    /\ \A k \in Keys : \A d \in {doc[k], companion[k]} \ {NoDocument} :
          /\ d.intent.series \in Series
          /\ series[d.intent.series].type = d.intent.type
          /\ series[d.intent.series].year = d.year
          /\ d.intent.type # "none"

BillingInvariant ==
    BillingTypeOK /\ HistoryInvariant /\ CommandInvariant /\ NumberInvariant
-------------------------------------------------------------------------------
(* The intents of the three services are typed. *)
LEMMA IntentsTyped ==
    /\ NoIntent \in Intent
    /\ NoDocument \in Issued
    /\ Idle \in [key : Keys \cup {None}, intent : Intent, year : 0 .. MaxYear]
    /\ NoSeries \in Row
<1>1. NoIntent \in Intent
  BY DEF NoIntent, Intent
<1>2. 0 \in 0 .. MaxYear
  BY BillingAssumption
<1>. QED
  BY <1>1, <1>2 DEF NoDocument, Issued, Idle, NoSeries, Row

(* A set of at most one element is empty or a singleton, and finite. *)
LEMMA FewElements ==
    ASSUME NEW S, AtMostOne(S)
    PROVE  /\ IsFiniteSet(S)
           /\ Cardinality(S) <= 1
           /\ Cardinality(S) = 1 => \E x : S = {x}
<1>1. CASE S = {}
  BY <1>1, FS_EmptySet
<1>2. CASE S # {}
  <2>1. PICK x : S = {x}
    BY <1>2 DEF AtMostOne
  <2>2. IsFiniteSet({x}) /\ Cardinality({x}) = 1
    BY FS_Singleton
  <2>. QED
    BY <2>1, <2>2
<1>. QED
  BY <1>1, <1>2

(* A chosen element of a set of one is that element. *)
LEMMA OneOfIt ==
    /\ OneOf({}) = None
    /\ \A x : OneOf({x}) = x
  BY DEF OneOf
-------------------------------------------------------------------------------
(* A command begins with an intent that its history allows. *)
LEMMA IssueBegun ==
    ASSUME BillingInvariant, NEW s \in Sales, NEW x \in Series, Initial(s) = {},
           NEW i, i = IssueIntent(s, x)
    PROVE  i \in Intent /\ IntentSound(i) /\ Unissued(i) /\ i.sale = s
<1>1. wanted[s] \in {"F1", "F2"}
  BY DEF BillingInvariant, BillingTypeOK
<1>2. i \in Intent
  BY <1>1 DEF IssueIntent, Intent
<1>3. i.sale = s /\ i.series = x /\ i.op = "issue" /\ IssueSound(i)
  BY <1>1 DEF IssueIntent, IssueSound
<1>4. Unissued(i)
  BY <1>3 DEF Unissued
<1>. QED
  BY <1>2, <1>3, <1>4 DEF IntentSound

LEMMA SubstitutionBegun ==
    ASSUME BillingInvariant, NEW s \in Sales, NEW x \in Series,
           Cardinality(Simplified(s)) = 1, Substitutions(OneOf(Simplified(s))) = {},
           NEW i, i = SubstitutionIntent(s, x)
    PROVE  i \in Intent /\ IntentSound(i) /\ Unissued(i) /\ i.sale = s
<1>1. AtMostOne(Simplified(s))
  BY DEF BillingInvariant, HistoryInvariant, AtMostOne, Simplified
<1>2. PICK k : Simplified(s) = {k}
  BY <1>1, FewElements
<1>3. OneOf(Simplified(s)) = k /\ k \in Keys
  BY <1>2, OneOfIt DEF Simplified, Initial, Of
<1>4. i \in Intent
  BY <1>3 DEF SubstitutionIntent, Intent
<1>5. i.sale = s /\ i.series = x /\ i.op = "substitute" /\ i.target = k
      /\ SubstitutionSound(i)
  BY <1>2, <1>3 DEF SubstitutionIntent, SubstitutionSound
<1>6. Unissued(i)
  BY <1>3, <1>5 DEF Unissued
<1>. QED
  BY <1>4, <1>5, <1>6 DEF IntentSound

(* A substitution of a simplified invoice has a key. *)
LEMMA InitialF3Key ==
    ASSUME BillingInvariant, NEW k \in Keys
    PROVE  \/ InitialF3(k) = {} /\ OneOf(InitialF3(k)) = None
           \/ \E m \in Keys : /\ InitialF3(k) = {m} /\ OneOf(InitialF3(k)) = m
                             /\ m # None /\ Substitutions(k) = {m}
                             /\ RectificationType(k) = "R5"
<1>1. CASE InitialF3(k) = {}
  BY <1>1, OneOfIt
<1>2. CASE InitialF3(k) # {}
  <2>1. InitialF3(k) = Substitutions(k) /\ RectificationType(k) = "R5"
    BY <1>2 DEF InitialF3
  <2>2. AtMostOne(Substitutions(k)) /\ Substitutions(k) \subseteq Keys
    BY DEF BillingInvariant, HistoryInvariant, Substitutions, Of
  <2>3. PICK m \in Keys : Substitutions(k) = {m}
    BY <1>2, <2>1, <2>2 DEF AtMostOne
  <2>4. OneOf(InitialF3(k)) = m /\ m # None
    BY <2>1, <2>3, OneOfIt, BillingAssumption
  <2>. QED
    BY <2>1, <2>3, <2>4
<1>. QED
  BY <1>1, <1>2

LEMMA RectificationBegun ==
    ASSUME BillingInvariant, NEW r \in Returns, NEW x \in Series,
           NEW y \in Series \cup {None}, retSale[r] # None,
           Cardinality(Originals(r)) = 1, CompanionAsNeeded(r, y),
           Rectifications(r) = {}, NEW i, i = RectificationIntent(r, x, y)
    PROVE  i \in Intent /\ IntentSound(i) /\ Unissued(i) /\ i.sale = retSale[r]
<1>1. retSale[r] \in Sales
  BY DEF BillingInvariant, BillingTypeOK
<1>2. AtMostOne(Originals(r))
  BY <1>1 DEF BillingInvariant, HistoryInvariant, AtMostOne, Originals
<1>3. PICK k : Originals(r) = {k}
  BY <1>2, FewElements
<1>4. k \in Initial(retSale[r]) /\ anchor[r] \in {None, k}
  BY <1>3 DEF BillingInvariant, HistoryInvariant, Originals
<1>5. k \in Keys /\ OneOf(Originals(r)) = k
  BY <1>3, <1>4, OneOfIt DEF Initial, Of
<1>6. i = [op |-> "rectify", sale |-> retSale[r], ret |-> r, target |-> k,
           type |-> RectificationType(k), series |-> x, companion |-> y,
           f3 |-> OneOf(InitialF3(k))]
  BY <1>5 DEF RectificationIntent
<1>7. IF InitialF3(k) = {} THEN y = None ELSE y # None
  BY <1>5 DEF CompanionAsNeeded
<1>8. RectificationType(k) \in {"R1", "R5"}
  BY DEF RectificationType
<1>9. OneOf(InitialF3(k)) \in Keys \cup {None}
  BY <1>5, InitialF3Key
<1>10. i \in Intent
  BY <1>1, <1>5, <1>6, <1>8, <1>9 DEF Intent
<1>11. RectificationSound(i)
  <2>1. i.companion = None <=> i.f3 = None
    BY <1>5, <1>6, <1>7, InitialF3Key
  <2>2. i.f3 # None => i.type = "R5" /\ Substitutions(i.target) = {i.f3}
    BY <1>5, <1>6, InitialF3Key
  <2>. QED
    BY <1>4, <1>6, <2>1, <2>2 DEF RectificationSound
<1>12. Unissued(i)
  BY <1>4, <1>6 DEF Unissued
<1>. QED
  BY <1>1, <1>6, <1>10, <1>11, <1>12 DEF IntentSound

(* An intent is as sound and as new as the history it looks at. *)
LEMMA IntentUnwritten ==
    ASSUME UNCHANGED <<retSale, doc, anchor>>, NEW i
    PROVE  /\ IntentSound(i) => IntentSound(i)'
           /\ Unissued(i) => Unissued(i)'
<1>1. retSale' = retSale /\ doc' = doc /\ anchor' = anchor
  OBVIOUS
<1>. QED
  BY <1>1 DEF IntentSound, IssueSound, SubstitutionSound, RectificationSound, Unissued,
     RectificationType, Simplified, Initial, Substitutions, Rectifications, Of

(* What is not written stays sound. *)
LEMMA HistoryUnwritten ==
    ASSUME HistoryInvariant, UNCHANGED <<retSale, doc, companion, anchor>>
    PROVE  HistoryInvariant'
<1>1. retSale' = retSale /\ doc' = doc /\ companion' = companion /\ anchor' = anchor
  OBVIOUS
<1>2. /\ \A s : Initial(s)' = Initial(s) /\ Simplified(s)' = Simplified(s)
      /\ \A k : Substitutions(k)' = Substitutions(k)
      /\ \A r : Rectifications(r)' = Rectifications(r)
      /\ \A k : RectificationType(k)' = RectificationType(k)
  BY <1>1 DEF Initial, Simplified, Substitutions, Rectifications, Of, RectificationType
<1>3. ASSUME NEW k \in Keys PROVE DocumentSound(k)'
  <2>1. DocumentSound(k)
    BY DEF HistoryInvariant
  <2>2. IntentSound(doc[k].intent) => IntentSound(doc[k].intent)'
    BY <1>1, <1>2 DEF IntentSound, IssueSound, SubstitutionSound, RectificationSound
  <2>3. CompanionSound(k, doc[k].intent) => CompanionSound(k, doc[k].intent)'
    BY <1>1 DEF CompanionSound
  <2>. QED
    BY <1>1, <2>1, <2>2, <2>3 DEF DocumentSound
<1>4. ASSUME NEW s \in Sales PROVE AtMostOne(Initial(s))'
  <2>1. AtMostOne(Initial(s))
    BY DEF HistoryInvariant
  <2>. QED
    BY <1>2, <2>1 DEF AtMostOne
<1>5. ASSUME NEW k \in Keys PROVE AtMostOne(Substitutions(k))'
  <2>1. AtMostOne(Substitutions(k))
    BY DEF HistoryInvariant
  <2>. QED
    BY <1>2, <2>1 DEF AtMostOne
<1>6. ASSUME NEW r \in Returns PROVE AtMostOne(Rectifications(r))'
  <2>1. AtMostOne(Rectifications(r))
    BY DEF HistoryInvariant
  <2>. QED
    BY <1>2, <2>1 DEF AtMostOne
<1>7. ASSUME NEW r \in Returns
      PROVE  (anchor[r] # None =>
                retSale[r] # None /\ anchor[r] \in Initial(retSale[r]))'
  BY <1>1, <1>2 DEF HistoryInvariant
<1>. QED
  BY <1>3, <1>4, <1>5, <1>6, <1>7 DEF HistoryInvariant

(* A command that is not touched, on a history that is not touched. *)
LEMMA SameCommandSound ==
    ASSUME UNCHANGED <<retSale, doc, anchor>>, NEW p \in Commands,
           command'[p] = command[p], CommandSound(p)
    PROVE  CommandSound(p)'
<1>1. CASE command[p] = Idle
  BY <1>1 DEF CommandSound, Idle, NoIntent
<1>2. CASE command[p] # Idle
  <2>. DEFINE i == command[p].intent
  <2>1. command[p].key \in Keys /\ IntentSound(i) /\ Unissued(i)
    BY <1>2 DEF CommandSound
  <2>. SUFFICES ASSUME NEW j, j = command[p].intent
                PROVE  CommandSound(p)'
    OBVIOUS
  <2>2. IntentSound(j)' /\ Unissued(j)'
    BY <2>1, IntentUnwritten
  <2>. QED
    BY <2>1, <2>2 DEF CommandSound
<1>. QED
  BY <1>1, <1>2

(* Every command begins with a sound intent, on a sale that no other command has. *)
LEMMA Begun ==
    ASSUME BillingInvariant, NEW q \in Commands, NEW k \in Keys, NEW i, Begin(q, k, i),
           i \in Intent, IntentSound(i), Unissued(i)
    PROVE  BillingInvariant'
<1>1. UNCHANGED <<wanted, saleStatus, retSale, series, doc, companion, anchor, year>>
  BY DEF Begin, salesVars, documentVars
<1>2. command' = [command EXCEPT ![q] = [key |-> k, intent |-> i, year |-> year]]
  BY DEF Begin
<1>3. BillingTypeOK
  BY DEF BillingInvariant
<1>4. year \in 0 .. MaxYear
  BY <1>3, BillingAssumption DEF BillingTypeOK
<1>5. BillingTypeOK'
  <2>1. command' \in [Commands -> [key : Keys \cup {None}, intent : Intent,
                                   year : 0 .. MaxYear]]
    BY <1>2, <1>3, <1>4 DEF BillingTypeOK
  <2>. QED
    BY <1>1, <1>3, <2>1 DEF BillingTypeOK
<1>6. HistoryInvariant' /\ NumberInvariant'
  <2>1. HistoryInvariant /\ NumberInvariant
    BY DEF BillingInvariant
  <2>2. HistoryInvariant'
    BY <1>1, <2>1, HistoryUnwritten
  <2>3. NumberInvariant'
    BY <1>1, <2>1 DEF NumberInvariant, NumbersOf, Own, Derived
  <2>. QED
    BY <2>2, <2>3
<1>7. ASSUME NEW p \in Commands PROVE CommandSound(p)'
  <2>1. p # q => command'[p] = command[p]
    BY <1>2, <1>3 DEF BillingTypeOK
  <2>2. command'[q].key = k /\ command'[q].intent = i
    BY <1>2, <1>3 DEF BillingTypeOK
  <2>3. IntentSound(i)' /\ Unissued(i)'
    BY <1>1, IntentUnwritten
  <2>4. CASE p = q
    BY <2>2, <2>3, <2>4 DEF CommandSound
  <2>5. CASE p # q
    <3>1. CommandSound(p)
      BY DEF BillingInvariant, CommandInvariant
    <3>. QED
      BY <1>1, <2>1, <2>5, <3>1, SameCommandSound
  <2>. QED
    BY <2>4, <2>5
<1>8. ASSUME NEW p \in Commands, NEW o \in Commands, p # o
      PROVE  \/ command'[p].intent.sale = None
             \/ command'[p].intent.sale # command'[o].intent.sale
  <2>1. \A n \in Commands : n # q => command'[n] = command[n]
    BY <1>2, <1>3 DEF BillingTypeOK
  <2>2. command'[q].intent = i
    BY <1>2, <1>3 DEF BillingTypeOK
  <2>3. \A n \in Commands : command[n].intent.sale # i.sale
    BY DEF Begin, Unlocked
  <2>4. \/ command[p].intent.sale = None
        \/ command[p].intent.sale # command[o].intent.sale
    BY <1>8 DEF BillingInvariant, CommandInvariant
  <2>5. CASE p = q
    BY <1>8, <2>1, <2>2, <2>3, <2>5
  <2>6. CASE o = q
    BY <1>8, <2>1, <2>2, <2>3, <2>6
  <2>7. CASE p # q /\ o # q
    BY <2>1, <2>4, <2>7
  <2>. QED
    BY <2>5, <2>6, <2>7
<1>. QED
  BY <1>5, <1>6, <1>7, <1>8 DEF BillingInvariant, CommandInvariant
-------------------------------------------------------------------------------
(* What a new document d with key k and intent i adds to the history of its sale. *)
Grows(k, i, d) ==
    /\ doc'[k] = d /\ d.intent = i /\ \A m \in Keys : m # k => doc'[m] = doc[m]
    /\ \A s : Initial(s)' = IF i.op = "issue" /\ i.sale = s
                            THEN Initial(s) \cup {k} ELSE Initial(s)
    /\ \A s : Simplified(s) \subseteq Simplified(s)'
    /\ \A t : Substitutions(t)' = IF i.op = "substitute" /\ i.target = t
                                  THEN Substitutions(t) \cup {k} ELSE Substitutions(t)
    /\ \A r : Rectifications(r)' = IF i.op = "rectify" /\ i.ret = r
                                   THEN Rectifications(r) \cup {k} ELSE Rectifications(r)

LEMMA Grown ==
    ASSUME BillingTypeOK, NEW k \in Keys, NEW d, NEW i, doc[k] = NoDocument,
           doc' = [doc EXCEPT ![k] = d], d.intent = i
    PROVE  Grows(k, i, d)
<1>1. doc'[k] = d /\ \A m \in Keys : m # k => doc'[m] = doc[m]
  BY DEF BillingTypeOK
<1>2. doc[k].intent.op = "none"
  BY DEF NoDocument, NoIntent
<1>3. ASSUME NEW s PROVE Initial(s)' = IF i.op = "issue" /\ i.sale = s
                                       THEN Initial(s) \cup {k} ELSE Initial(s)
  BY <1>1, <1>2 DEF Initial, Of
<1>4. ASSUME NEW s PROVE Simplified(s) \subseteq Simplified(s)'
  BY <1>1, <1>2 DEF Simplified, Initial, Of
<1>5. ASSUME NEW t PROVE Substitutions(t)' = IF i.op = "substitute" /\ i.target = t
                                THEN Substitutions(t) \cup {k} ELSE Substitutions(t)
  BY <1>1, <1>2 DEF Substitutions, Of
<1>6. ASSUME NEW r PROVE Rectifications(r)' = IF i.op = "rectify" /\ i.ret = r
                                THEN Rectifications(r) \cup {k} ELSE Rectifications(r)
  BY <1>1, <1>2 DEF Rectifications, Of
<1>. QED
  BY <1>1, <1>3, <1>4, <1>5, <1>6 DEF Grows

(* The intents of the other documents and commands stay sound. *)
LEMMA SoundGrown ==
    ASSUME BillingTypeOK, NEW k, NEW d, NEW i, Grows(k, i, d), doc[k] = NoDocument,
           retSale' = retSale, Unissued(i), NEW j, IntentSound(j)
    PROVE  IntentSound(j)'
<1>1. CASE IssueSound(j)
  BY <1>1 DEF IntentSound, IssueSound
<1>2. CASE SubstitutionSound(j)
  <2>1. SubstitutionSound(j)'
    BY <1>2 DEF SubstitutionSound, Grows
  <2>. QED
    BY <2>1 DEF IntentSound
<1>3. CASE RectificationSound(j)
  <2>1. j.target \in Initial(j.sale) /\ j.target \in Keys /\ j.target # k
    BY <1>3 DEF RectificationSound, Initial, Of, NoDocument, NoIntent
  <2>2. j.target \in Initial(j.sale)'
    BY <2>1 DEF Grows
  <2>3. RectificationType(j.target)' = RectificationType(j.target)
    BY <2>1 DEF RectificationType, Grows
  <2>4. j.f3 # None => Substitutions(j.target)' = Substitutions(j.target)
    <3>1. j.f3 # None => Substitutions(j.target) # {}
      BY <1>3 DEF RectificationSound
    <3>2. j.f3 # None => ~(i.op = "substitute" /\ i.target = j.target)
      BY <3>1 DEF Unissued
    <3>. QED
      BY <3>2 DEF Grows
  <2>5. RectificationSound(j)'
    BY <1>3, <2>2, <2>3, <2>4 DEF RectificationSound
  <2>. QED
    BY <2>5 DEF IntentSound
<1>. QED
  BY <1>1, <1>2, <1>3 DEF IntentSound

(* What a command writes when it has its series. *)
LEMMA Finished ==
    ASSUME BillingInvariant, NEW q \in Commands, Finish(q),
           NEW k, k = command[q].key, NEW i, i = command[q].intent, NEW y,
           y = command[q].year
    PROVE  /\ k \in Keys /\ i \in Intent /\ y \in 0 .. MaxYear
           /\ IntentSound(i) /\ Unissued(i)
           /\ doc[k] = NoDocument /\ companion[k] = NoDocument
           /\ doc' = [doc EXCEPT ![k] = Document(i, y)]
           /\ companion' = IF i.companion = None THEN companion
                  ELSE [companion EXCEPT ![k] = Document(CompanionIntent(k, i), y)]
           /\ anchor' = IF i.op = "rectify" THEN [anchor EXCEPT ![i.ret] = i.target]
                                             ELSE anchor
           /\ command' = [command EXCEPT ![q] = Idle]
           /\ series' = [x \in Series |->
                  IF x \in {i.series, i.companion} /\ x # None
                  THEN [series[x] EXCEPT !.number = @ + 1] ELSE series[x]]
           /\ LockedFits(i.series, i.type, y)
           /\ i.companion # None => LockedFits(i.companion, "F3", y)
           /\ retSale' = retSale /\ wanted' = wanted /\ saleStatus' = saleStatus
           /\ year' = year
<1>1. command[q] # Idle
  BY DEF Finish
<1>2. command[q] \in [key : Keys \cup {None}, intent : Intent, year : 0 .. MaxYear]
  BY DEF BillingInvariant, BillingTypeOK
<1>3. CommandSound(q)
  BY DEF BillingInvariant, CommandInvariant
<1>4. k \in Keys /\ i \in Intent /\ y \in 0 .. MaxYear /\ IntentSound(i) /\ Unissued(i)
  BY <1>1, <1>2, <1>3 DEF CommandSound
<1>5. doc[k] = NoDocument /\ companion[k] = NoDocument
  BY DEF Finish, Insertable, KeyFree
<1>6. series' = [x \in Series |->
          IF x \in {i.series, i.companion} /\ x # None
          THEN [series[x] EXCEPT !.number = @ + 1] ELSE series[x]]
  BY DEF Finish
<1>7. retSale' = retSale /\ wanted' = wanted /\ saleStatus' = saleStatus /\ year' = year
  BY DEF Finish, salesVars
<1>8. /\ doc' = [doc EXCEPT ![k] = Document(i, y)]
      /\ companion' = IF i.companion = None THEN companion
             ELSE [companion EXCEPT ![k] = Document(CompanionIntent(k, i), y)]
      /\ anchor' = IF i.op = "rectify" THEN [anchor EXCEPT ![i.ret] = i.target]
                                        ELSE anchor
      /\ command' = [command EXCEPT ![q] = Idle]
      /\ LockedFits(i.series, i.type, y)
      /\ i.companion # None => LockedFits(i.companion, "F3", y)
  BY DEF Finish
<1>. QED
  BY <1>4, <1>5, <1>6, <1>7, <1>8

(* Types after a document. *)
LEMMA FinishTyped ==
    ASSUME BillingInvariant, NEW q \in Commands, Finish(q)
    PROVE  BillingTypeOK'
<1>. SUFFICES ASSUME NEW k, k = command[q].key, NEW i, i = command[q].intent,
                     NEW y, y = command[q].year
              PROVE  BillingTypeOK'
  OBVIOUS
<1>1. BillingTypeOK
  BY DEF BillingInvariant
<1>2. \A x \in Series : series[x].number + 1 \in Nat
  BY <1>1 DEF BillingTypeOK, Row
<1>3. k \in Keys /\ i \in Intent /\ y \in 0 .. MaxYear /\ i.series \in Series
  BY Finished DEF IntentSound
<1>4. Document(i, y) \in Issued
  BY <1>2, <1>3 DEF Document, Issued
<1>5. doc' \in [Keys -> Issued]
  BY <1>1, <1>4, Finished DEF BillingTypeOK
<1>6. companion' \in [Keys -> Issued]
  <2>1. CASE i.companion = None
    BY <1>1, <2>1, Finished DEF BillingTypeOK
  <2>2. CASE i.companion # None
    <3>1. i.companion \in Series
      BY <1>3, <2>2 DEF Intent
    <3>2. CompanionIntent(k, i) \in Intent /\ CompanionIntent(k, i).series = i.companion
      BY <1>3 DEF CompanionIntent, Intent
    <3>3. Document(CompanionIntent(k, i), y) \in Issued
      BY <1>2, <1>3, <3>1, <3>2 DEF Document, Issued
    <3>. QED
      BY <1>1, <2>2, <3>3, Finished DEF BillingTypeOK
  <2>. QED
    BY <2>1, <2>2
<1>7. anchor' \in [Returns -> Keys \cup {None}]
  BY <1>1, <1>3, Finished DEF BillingTypeOK, Intent
<1>8. series' \in [Series -> Row]
  <2>1. ASSUME NEW x \in Series PROVE [series[x] EXCEPT !.number = @ + 1] \in Row
    BY <1>1, <1>2 DEF BillingTypeOK, Row
  <2>. QED
    BY <1>1, <2>1, Finished DEF BillingTypeOK
<1>9. command' \in [Commands -> [key : Keys \cup {None}, intent : Intent,
                                 year : 0 .. MaxYear]]
  BY <1>1, IntentsTyped, Finished DEF BillingTypeOK
<1>. QED
  BY <1>1, <1>5, <1>6, <1>7, <1>8, <1>9, Finished DEF BillingTypeOK

(* The history after a document. *)
LEMMA FinishHistory ==
    ASSUME BillingInvariant, NEW q \in Commands, Finish(q)
    PROVE  HistoryInvariant'
<1>. SUFFICES ASSUME NEW k, k = command[q].key, NEW i, i = command[q].intent,
                     NEW y, y = command[q].year, NEW d, d = Document(i, y)
              PROVE  HistoryInvariant'
  OBVIOUS
<1>1. BillingTypeOK /\ HistoryInvariant
  BY DEF BillingInvariant
<1>2. k \in Keys /\ IntentSound(i) /\ Unissued(i) /\ doc[k] = NoDocument
      /\ doc' = [doc EXCEPT ![k] = d] /\ retSale' = retSale
  BY Finished
<1>3. Grows(k, i, d)
  <2>1. d.intent = i
    BY DEF Document
  <2>. QED
    BY <1>1, <1>2, <2>1, Grown
<1>4. ASSUME NEW s \in Sales PROVE AtMostOne(Initial(s))'
  <2>1. AtMostOne(Initial(s))
    BY <1>1 DEF HistoryInvariant
  <2>2. Initial(s)' = IF i.op = "issue" /\ i.sale = s
                    THEN Initial(s) \cup {k} ELSE Initial(s)
    BY <1>3 DEF Grows
  <2>. QED
    BY <1>2, <2>1, <2>2 DEF AtMostOne, Unissued
<1>5. ASSUME NEW t \in Keys PROVE AtMostOne(Substitutions(t))'
  <2>1. AtMostOne(Substitutions(t))
    BY <1>1 DEF HistoryInvariant
  <2>2. Substitutions(t)' = IF i.op = "substitute" /\ i.target = t
                    THEN Substitutions(t) \cup {k} ELSE Substitutions(t)
    BY <1>3 DEF Grows
  <2>. QED
    BY <1>2, <2>1, <2>2 DEF AtMostOne, Unissued
<1>6. ASSUME NEW r \in Returns PROVE AtMostOne(Rectifications(r))'
  <2>1. AtMostOne(Rectifications(r))
    BY <1>1 DEF HistoryInvariant
  <2>2. Rectifications(r)' = IF i.op = "rectify" /\ i.ret = r
                    THEN Rectifications(r) \cup {k} ELSE Rectifications(r)
    BY <1>3 DEF Grows
  <2>. QED
    BY <1>2, <2>1, <2>2 DEF AtMostOne, Unissued
<1>7. i.op = "rectify" => i.ret \in Returns /\ retSale[i.ret] = i.sale
                         /\ i.target \in Initial(i.sale)
  BY <1>2 DEF IntentSound, IssueSound, SubstitutionSound, RectificationSound
<1>8. ASSUME NEW r \in Returns
      PROVE  anchor'[r] = IF i.op = "rectify" /\ i.ret = r THEN i.target ELSE anchor[r]
  BY <1>1, <1>7, Finished DEF BillingTypeOK
<1>9. ASSUME NEW r \in Returns
      PROVE  (anchor[r] # None =>
                retSale[r] # None /\ anchor[r] \in Initial(retSale[r]))'
  <2>1. \A s : Initial(s) \subseteq Initial(s)'
    BY <1>3 DEF Grows
  <2>2. anchor[r] # None => retSale[r] # None /\ anchor[r] \in Initial(retSale[r])
    BY <1>1 DEF HistoryInvariant
  <2>3. i.sale # None
    BY <1>2, BillingAssumption DEF IntentSound
  <2>. QED
    BY <1>2, <1>7, <1>8, <2>1, <2>2, <2>3
<1>10. ASSUME NEW m \in Keys, m # k PROVE DocumentSound(m)'
  <2>. SUFFICES ASSUME NEW j, j = doc[m].intent
                PROVE  DocumentSound(m)'
    OBVIOUS
  <2>1. DocumentSound(m)
    BY <1>1 DEF HistoryInvariant
  <2>2. doc'[m] = doc[m]
    BY <1>3, <1>10 DEF Grows
  <2>3. companion'[m] = companion[m]
    BY <1>1, <1>10, Finished DEF BillingTypeOK
  <2>4. IntentSound(j) => IntentSound(j)'
    BY <1>1, <1>2, <1>3, SoundGrown
  <2>5. CompanionSound(m, j) => CompanionSound(m, j)'
    BY <2>3 DEF CompanionSound
  <2>6. (doc[m] # NoDocument /\ j.op = "rectify") => anchor'[j.ret] = anchor[j.ret]
    <3>1. SUFFICES ASSUME doc[m] # NoDocument, j.op = "rectify", i.op = "rectify",
                          i.ret = j.ret
                   PROVE  FALSE
      <4>1. (doc[m] # NoDocument /\ j.op = "rectify") => j.ret \in Returns
        BY <2>1 DEF DocumentSound, IntentSound, IssueSound, SubstitutionSound,
           RectificationSound
      <4>. QED
        BY <1>8, <4>1
    <3>2. m \in Rectifications(i.ret)
      BY <3>1 DEF Rectifications, Of
    <3>. QED
      BY <1>2, <3>1, <3>2 DEF Unissued
  <2>. QED
    BY <2>1, <2>2, <2>3, <2>4, <2>5, <2>6 DEF DocumentSound
<1>11. DocumentSound(k)'
  <2>1. IntentSound(i)'
    BY <1>1, <1>2, <1>3, SoundGrown
  <2>2. CompanionSound(k, i)'
    <3>1. CASE i.companion = None
      BY <3>1, Finished DEF CompanionSound
    <3>2. CASE i.companion # None
      <4>1. i.companion \in Series /\ CompanionIntent(k, i).series = i.companion
        <5>1. i \in Intent
          BY Finished
        <5>. QED
          BY <3>2, <5>1 DEF Intent, CompanionIntent
      <4>2. series[i.companion].number \in Nat
        <5>1. series[i.companion] \in Row
          BY <1>1, <4>1 DEF BillingTypeOK
        <5>. QED
          BY <5>1 DEF Row
      <4>3. companion' = [companion EXCEPT ![k] = Document(CompanionIntent(k, i), y)]
        BY <3>2, Finished
      <4>4. companion'[k] = Document(CompanionIntent(k, i), y)
        BY <1>1, <1>2, <4>3 DEF BillingTypeOK
      <4>5. companion'[k].intent = CompanionIntent(k, i) /\ companion'[k].number > 0
        BY <4>1, <4>2, <4>4 DEF Document
      <4>. QED
        BY <3>2, <4>5 DEF CompanionSound, CompanionIntent
    <3>. QED
      BY <3>1, <3>2
  <2>3. i.op = "rectify" => anchor'[i.ret] = i.target
    BY <1>7, <1>8
  <2>4. doc'[k].intent = i /\ doc'[k] # NoDocument
    BY <1>2, <1>3 DEF Grows, NoDocument, NoIntent, IntentSound, IssueSound, SubstitutionSound,
       RectificationSound
  <2>. QED
    BY <2>1, <2>2, <2>3, <2>4 DEF DocumentSound
<1>. QED
  BY <1>4, <1>5, <1>6, <1>9, <1>10, <1>11 DEF HistoryInvariant

(* The commands of other sales after a document. *)
LEMMA FinishCommands ==
    ASSUME BillingInvariant, NEW q \in Commands, Finish(q)
    PROVE  CommandInvariant'
<1>. SUFFICES ASSUME NEW k, k = command[q].key, NEW i, i = command[q].intent,
                     NEW y, y = command[q].year, NEW d, d = Document(i, y)
              PROVE  CommandInvariant'
  OBVIOUS
<1>1. BillingTypeOK /\ HistoryInvariant /\ CommandInvariant
  BY DEF BillingInvariant
<1>2. k \in Keys /\ IntentSound(i) /\ Unissued(i) /\ doc[k] = NoDocument
      /\ doc' = [doc EXCEPT ![k] = d] /\ retSale' = retSale
  BY Finished
<1>3. Grows(k, i, d)
  <2>1. d.intent = i
    BY DEF Document
  <2>. QED
    BY <1>1, <1>2, <2>1, Grown
<1>4. \A p \in Commands : command'[p] = IF p = q THEN Idle ELSE command[p]
  BY <1>1, Finished DEF BillingTypeOK
<1>5. Idle.intent.sale = None
  BY DEF Idle, NoIntent
<1>6. ASSUME NEW p \in Commands, NEW o \in Commands, p # o
      PROVE  \/ command'[p].intent.sale = None
             \/ command'[p].intent.sale # command'[o].intent.sale
  BY <1>1, <1>4, <1>5, <1>6 DEF CommandInvariant
<1>7. ASSUME NEW p \in Commands PROVE CommandSound(p)'
  <2>1. CASE command'[p] = Idle
    BY <2>1, IntentsTyped DEF CommandSound
  <2>2. CASE command'[p] # Idle
    <3>1. p # q /\ command'[p] = command[p] /\ command[p] # Idle
      BY <1>4, <2>2
    <3>. SUFFICES ASSUME NEW j, j = command[p].intent
                  PROVE  CommandSound(p)'
      OBVIOUS
    <3>2. command[p].key \in Keys /\ IntentSound(j) /\ Unissued(j)
      BY <1>1, <3>1 DEF CommandInvariant, CommandSound
    <3>3. j.sale # i.sale
      BY <1>1, <1>2, <3>1, <3>2, BillingAssumption DEF CommandInvariant, IntentSound
    <3>4. IntentSound(j)'
      BY <1>1, <1>2, <1>3, <3>2, SoundGrown
    <3>5. j.op = "issue" => Initial(j.sale)' = {}
      BY <1>3, <3>2, <3>3 DEF Unissued, Grows
    <3>6. j.op = "substitute" => Substitutions(j.target)' = {}
      <4>1. j.op = "substitute" => doc[j.target].intent.sale = j.sale
        BY <3>2 DEF IntentSound, IssueSound, SubstitutionSound, RectificationSound,
           Simplified, Initial
      <4>2. i.op = "substitute" => doc[i.target].intent.sale = i.sale
        BY <1>2 DEF IntentSound, IssueSound, SubstitutionSound, RectificationSound,
           Simplified, Initial
      <4>3. Substitutions(j.target)' = IF i.op = "substitute" /\ i.target = j.target
                    THEN Substitutions(j.target) \cup {k} ELSE Substitutions(j.target)
        BY <1>3 DEF Grows
      <4>. QED
        BY <3>2, <3>3, <4>1, <4>2, <4>3 DEF Unissued
    <3>7. j.op = "rectify" => /\ Rectifications(j.ret)' = {}
                             /\ anchor'[j.ret] \in {None, j.target}
      <4>. SUFFICES ASSUME j.op = "rectify"
                    PROVE  /\ Rectifications(j.ret)' = {}
                           /\ anchor'[j.ret] \in {None, j.target}
        OBVIOUS
      <4>1. j.ret \in Returns /\ retSale[j.ret] = j.sale
        BY <3>2 DEF IntentSound, IssueSound, SubstitutionSound, RectificationSound
      <4>2. i.op = "rectify" => i.ret \in Returns /\ retSale[i.ret] = i.sale
        BY <1>2 DEF IntentSound, IssueSound, SubstitutionSound, RectificationSound
      <4>3. ~(i.op = "rectify" /\ i.ret = j.ret)
        BY <3>3, <4>1, <4>2
      <4>4. anchor'[j.ret] = anchor[j.ret]
        BY <1>1, <4>1, <4>3, Finished DEF BillingTypeOK
      <4>5. Rectifications(j.ret)' = IF i.op = "rectify" /\ i.ret = j.ret
                    THEN Rectifications(j.ret) \cup {k} ELSE Rectifications(j.ret)
        BY <1>3 DEF Grows
      <4>. QED
        BY <3>2, <4>3, <4>4, <4>5 DEF Unissued
    <3>8. Unissued(j)'
      BY <3>5, <3>6, <3>7 DEF Unissued
    <3>. QED
      BY <3>1, <3>2, <3>4, <3>8 DEF CommandSound
  <2>. QED
    BY <2>1, <2>2
<1>. QED
  BY <1>6, <1>7 DEF CommandInvariant

(* The numbers after a document: the next one of its series, and of its companion's. *)
LEMMA FinishNumbers ==
    ASSUME BillingInvariant, NEW q \in Commands, Finish(q)
    PROVE  NumberInvariant'
<1>. SUFFICES ASSUME NEW k, k = command[q].key, NEW i, i = command[q].intent,
                     NEW y, y = command[q].year, NEW d, d = Document(i, y),
                     NEW c, c = Document(CompanionIntent(k, i), y)
              PROVE  NumberInvariant'
  OBVIOUS
<1>1. BillingTypeOK /\ NumberInvariant
  BY DEF BillingInvariant
<1>2. /\ k \in Keys /\ doc[k] = NoDocument /\ companion[k] = NoDocument
      /\ i \in Intent /\ i.series \in Series /\ y \in 0 .. MaxYear
      /\ LockedFits(i.series, i.type, y)
      /\ i.companion # None => i.companion \in Series /\ LockedFits(i.companion, "F3", y)
  BY Finished DEF IntentSound, Intent
<1>3. i.type \in {"F1", "F2", "F3", "R1", "R5"}
  BY Finished DEF IntentSound, IssueSound, SubstitutionSound, RectificationSound,
     RectificationType
<1>4. i.companion # None => i.type # "F3"
  BY Finished DEF IntentSound, IssueSound, SubstitutionSound, RectificationSound,
     RectificationType
<1>5. \A x \in Series : series[x] \in Row
  BY <1>1 DEF BillingTypeOK
<1>6. \A x \in Series : series[x].number \in Nat
  BY <1>5 DEF Row
<1>7. i.companion # None => i.companion # i.series
  BY <1>2, <1>4 DEF LockedFits, Fits
<1>8. /\ d.intent.series = i.series /\ d.intent.type = i.type /\ d.year = y
      /\ d.number = series[i.series].number + 1
      /\ c.intent.series = i.companion /\ c.intent.type = "F3" /\ c.year = y
      /\ c.number = series[i.companion].number + 1
  BY DEF Document, CompanionIntent
<1>9. \A m \in Keys : doc'[m] = IF m = k THEN d ELSE doc[m]
  BY <1>1, Finished DEF BillingTypeOK
<1>10. \A m \in Keys : companion'[m] = IF m = k /\ i.companion # None THEN c
                                                                ELSE companion[m]
  <2>1. CASE i.companion = None
    BY <2>1, Finished
  <2>2. CASE i.companion # None
    <3>1. companion' = [companion EXCEPT ![k] = c]
      BY <2>2, Finished
    <3>. QED
      BY <1>1, <2>2, <3>1 DEF BillingTypeOK
  <2>. QED
    BY <2>1, <2>2
<1>11. \A x \in Series :
          /\ series'[x].type = series[x].type /\ series'[x].year = series[x].year
          /\ series'[x].number = IF x \in {i.series, i.companion}
                                 THEN series[x].number + 1 ELSE series[x].number
  <2>1. ASSUME NEW x \in Series
        PROVE  series'[x] = IF x \in {i.series, i.companion}
                            THEN [series[x] EXCEPT !.number = @ + 1] ELSE series[x]
    BY Finished, BillingAssumption
  <2>. QED
    BY <1>5, <2>1 DEF Row
<1>12. doc[k].intent.series = None /\ companion[k].intent.series = None
  BY <1>2 DEF NoDocument, NoIntent
<1>13. ASSUME NEW m \in Keys, NEW e \in {doc'[m], companion'[m]} \ {NoDocument}
       PROVE  /\ e.intent.series \in Series
              /\ series'[e.intent.series].type = e.intent.type
              /\ series'[e.intent.series].year = e.year
              /\ e.intent.type # "none"
  <2>1. CASE e \in {doc[m], companion[m]} \ {NoDocument}
    BY <1>1, <1>11, <2>1 DEF NumberInvariant
  <2>2. CASE e = d
    BY <1>2, <1>3, <1>8, <1>11, <2>2, SMTT(40) DEF LockedFits, Fits
  <2>3. CASE e = c /\ i.companion # None
    BY <1>2, <1>8, <1>11, <2>3 DEF LockedFits, Fits
  <2>. QED
    BY <1>9, <1>10, <1>13, <2>1, <2>2, <2>3
<1>14. ASSUME NEW x \in Series
       PROVE  /\ Own(x)' = IF x = i.series THEN Own(x) \cup {k} ELSE Own(x)
              /\ Derived(x)' = IF x = i.companion THEN Derived(x) \cup {k} ELSE Derived(x)
              /\ k \notin Own(x) /\ k \notin Derived(x)
  <2>1. x # None
    BY BillingAssumption
  <2>2. Own(x)' = IF x = i.series THEN Own(x) \cup {k} ELSE Own(x)
    BY <1>2, <1>8, <1>9, <1>12, <2>1 DEF Own
  <2>3. Derived(x)' = IF x = i.companion THEN Derived(x) \cup {k} ELSE Derived(x)
    BY <1>2, <1>8, <1>10, <1>12, <2>1 DEF Derived
  <2>. QED
    BY <1>12, <2>1, <2>2, <2>3 DEF Own, Derived
<1>15. ASSUME NEW x \in Series
       PROVE  /\ IsFiniteSet(Own(x))' /\ IsFiniteSet(Derived(x))'
              /\ (Cardinality(Own(x)) + Cardinality(Derived(x)) = series[x].number)'
  <2>1. /\ IsFiniteSet(Own(x)) /\ IsFiniteSet(Derived(x))
        /\ Cardinality(Own(x)) + Cardinality(Derived(x)) = series[x].number
    BY <1>1 DEF NumberInvariant
  <2>2. /\ IsFiniteSet(Own(x) \cup {k}) /\ IsFiniteSet(Derived(x) \cup {k})
        /\ Cardinality(Own(x) \cup {k}) = Cardinality(Own(x)) + 1
        /\ Cardinality(Derived(x) \cup {k}) = Cardinality(Derived(x)) + 1
    BY <1>14, <2>1, FS_AddElement
  <2>3. Cardinality(Own(x)) \in Nat /\ Cardinality(Derived(x)) \in Nat
    BY <2>1, FS_CardinalityType
  <2>4. x = i.series => x # i.companion
    BY <1>2, <1>7, BillingAssumption
  <2>5. CASE x = i.series
    <3>1. /\ Own(x)' = Own(x) \cup {k} /\ Derived(x)' = Derived(x)
          /\ series'[x].number = series[x].number + 1
      BY <1>11, <1>14, <2>4, <2>5
    <3>. QED
      BY <2>1, <2>2, <2>3, <3>1
  <2>6. CASE x = i.companion
    <3>1. /\ Own(x)' = Own(x) /\ Derived(x)' = Derived(x) \cup {k}
          /\ series'[x].number = series[x].number + 1
      BY <1>11, <1>14, <2>4, <2>6
    <3>. QED
      BY <2>1, <2>2, <2>3, <3>1
  <2>7. CASE x \notin {i.series, i.companion}
    BY <1>11, <1>14, <2>1, <2>7
  <2>. QED
    BY <2>5, <2>6, <2>7
<1>16. ASSUME NEW x \in Series PROVE (NumbersOf(x) = 1 .. series[x].number)'
  <2>1. NumbersOf(x) = 1 .. series[x].number
    BY <1>1 DEF NumberInvariant
  <2>2. x = i.series => x # i.companion
    BY <1>2, <1>7, BillingAssumption
  <2>3. /\ \A m \in Own(x) : doc'[m].number = doc[m].number
        /\ \A m \in Derived(x) : companion'[m].number = companion[m].number
    BY <1>9, <1>10, <1>14 DEF Own, Derived
  <2>4. CASE x = i.series
    <3>1. Own(x)' = Own(x) \cup {k} /\ Derived(x)' = Derived(x)
      BY <1>14, <2>2, <2>4
    <3>2. doc'[k].number = series[x].number + 1
      BY <1>2, <1>8, <1>9, <2>4
    <3>3. NumbersOf(x)' = NumbersOf(x) \cup {series[x].number + 1}
      BY <2>3, <3>1, <3>2 DEF NumbersOf
    <3>4. series'[x].number = series[x].number + 1
      BY <1>11, <2>4
    <3>5. (1 .. series[x].number) \cup {series[x].number + 1} = 1 .. series[x].number + 1
      BY <1>6
    <3>. QED
      BY <2>1, <3>3, <3>4, <3>5
  <2>5. CASE x = i.companion
    <3>1. Own(x)' = Own(x) /\ Derived(x)' = Derived(x) \cup {k}
      BY <1>14, <2>2, <2>5
    <3>2. companion'[k].number = series[x].number + 1
      BY <1>2, <1>8, <1>10, <2>5, BillingAssumption
    <3>3. NumbersOf(x)' = NumbersOf(x) \cup {series[x].number + 1}
      BY <2>3, <3>1, <3>2 DEF NumbersOf
    <3>4. series'[x].number = series[x].number + 1
      BY <1>11, <2>5
    <3>5. (1 .. series[x].number) \cup {series[x].number + 1} = 1 .. series[x].number + 1
      BY <1>6
    <3>. QED
      BY <2>1, <3>3, <3>4, <3>5
  <2>6. CASE x \notin {i.series, i.companion}
    <3>1. Own(x)' = Own(x) /\ Derived(x)' = Derived(x)
      BY <1>14, <2>6
    <3>2. NumbersOf(x)' = NumbersOf(x)
      BY <2>3, <3>1 DEF NumbersOf
    <3>3. series'[x].number = series[x].number
      BY <1>11, <2>6
    <3>. QED
      BY <2>1, <3>2, <3>3
  <2>. QED
    BY <2>4, <2>5, <2>6
<1>. QED
  BY <1>13, <1>15, <1>16 DEF NumberInvariant
-------------------------------------------------------------------------------
(* A refusal or a crash only ends its command. *)
LEMMA Failed ==
    ASSUME BillingInvariant, NEW q \in Commands, Fail(q)
    PROVE  BillingInvariant'
<1>1. UNCHANGED <<wanted, saleStatus, retSale, series, doc, companion, anchor, year>>
  BY DEF Fail, salesVars, documentVars
<1>2. BillingTypeOK /\ HistoryInvariant /\ CommandInvariant /\ NumberInvariant
  BY DEF BillingInvariant
<1>3. command' = [command EXCEPT ![q] = Idle]
  BY DEF Fail
<1>4. \A p \in Commands : command'[p] = IF p = q THEN Idle ELSE command[p]
  BY <1>2, <1>3 DEF BillingTypeOK
<1>5. BillingTypeOK'
  <2>1. command' \in [Commands -> [key : Keys \cup {None}, intent : Intent,
                                   year : 0 .. MaxYear]]
    BY <1>2, <1>3, IntentsTyped DEF BillingTypeOK
  <2>. QED
    BY <1>1, <1>2, <2>1 DEF BillingTypeOK
<1>6. HistoryInvariant'
  BY <1>1, <1>2, HistoryUnwritten
<1>7. NumberInvariant'
  BY <1>1, <1>2 DEF NumberInvariant, NumbersOf, Own, Derived
<1>8. ASSUME NEW p \in Commands PROVE CommandSound(p)'
  <2>1. CASE p = q
    BY <1>4, <2>1 DEF CommandSound, Idle
  <2>2. CASE p # q
    BY <1>1, <1>2, <1>4, <2>2, SameCommandSound DEF CommandInvariant
  <2>. QED
    BY <2>1, <2>2
<1>9. ASSUME NEW p \in Commands, NEW o \in Commands, p # o
      PROVE  \/ command'[p].intent.sale = None
             \/ command'[p].intent.sale # command'[o].intent.sale
  <2>1. Idle.intent.sale = None
    BY DEF Idle, NoIntent
  <2>. QED
    BY <1>2, <1>4, <1>9, <2>1 DEF CommandInvariant
<1>. QED
  BY <1>5, <1>6, <1>7, <1>8, <1>9 DEF BillingInvariant, CommandInvariant

(* The pages of a series do not touch the type or the year of one that was used. *)
LEMMA SeriesKept ==
    ASSUME BillingInvariant, NEW x \in Series, SeriesStep(x)
    PROVE  BillingInvariant'
<1>1. BillingTypeOK /\ HistoryInvariant /\ CommandInvariant /\ NumberInvariant
  BY DEF BillingInvariant
<1>2. UNCHANGED <<wanted, saleStatus, retSale, doc, companion, anchor, command, year>>
  BY DEF SeriesStep, CreateSeries, UpdateSeries, SetSeriesActive, salesVars
<1>3. /\ series' \in [Series -> Row]
      /\ \A z \in Series : series'[z].number = series[z].number
      /\ \A z \in Series : Used(z) /\ series[z].type # "none" =>
             series'[z].type = series[z].type /\ series'[z].year = series[z].year
  <2>1. \A z \in Series : series[z] \in Row
    BY <1>1 DEF BillingTypeOK
  <2>2. \A y \in 1 .. MaxYear : y \in 0 .. MaxYear
    BY BillingAssumption
  <2>3. ASSUME NEW type \in Types, NEW y \in 1 .. MaxYear, CreateSeries(x, type, y)
        PROVE  <1>3!1 /\ <1>3!2 /\ <1>3!3
    <3>1. series' = [series EXCEPT ![x] = [type |-> type, year |-> y, active |-> TRUE,
                                           number |-> 0]]
      BY <2>3 DEF CreateSeries
    <3>2. series[x].type = "none" /\ series[x].number = 0
      BY <2>3 DEF CreateSeries, NoSeries
    <3>3. [type |-> type, year |-> y, active |-> TRUE, number |-> 0] \in Row
      BY <2>2, BillingAssumption DEF Row
    <3>. QED
      BY <1>1, <3>1, <3>2, <3>3 DEF BillingTypeOK
  <2>4. ASSUME NEW type \in Types, NEW y \in 1 .. MaxYear, UpdateSeries(x, type, y)
        PROVE  <1>3!1 /\ <1>3!2 /\ <1>3!3
    <3>1. series' = [series EXCEPT ![x] = [series[x] EXCEPT !.type = type, !.year = y]]
      BY <1>1, <2>4 DEF UpdateSeries, BillingTypeOK
    <3>2. ~Used(x)
      BY <2>4 DEF UpdateSeries, Editable
    <3>3. [series[x] EXCEPT !.type = type, !.year = y] \in Row
      BY <2>1, <2>2, BillingAssumption DEF Row
    <3>4. [series[x] EXCEPT !.type = type, !.year = y].number = series[x].number
      BY <2>1 DEF Row
    <3>. QED
      BY <1>1, <3>1, <3>2, <3>3, <3>4 DEF BillingTypeOK
  <2>5. ASSUME NEW b \in BOOLEAN, SetSeriesActive(x, b)
        PROVE  <1>3!1 /\ <1>3!2 /\ <1>3!3
    <3>1. series' = [series EXCEPT ![x] = [series[x] EXCEPT !.active = b]]
      BY <1>1, <2>5 DEF SetSeriesActive, BillingTypeOK
    <3>2. [series[x] EXCEPT !.active = b] \in Row
      BY <2>1 DEF Row
    <3>3. /\ [series[x] EXCEPT !.active = b].number = series[x].number
          /\ [series[x] EXCEPT !.active = b].type = series[x].type
          /\ [series[x] EXCEPT !.active = b].year = series[x].year
      BY <2>1 DEF Row
    <3>. QED
      BY <1>1, <3>1, <3>2, <3>3 DEF BillingTypeOK
  <2>. QED
    BY <2>3, <2>4, <2>5 DEF SeriesStep
<1>4. BillingTypeOK'
  BY <1>1, <1>2, <1>3 DEF BillingTypeOK
<1>5. HistoryInvariant'
  BY <1>1, <1>2, HistoryUnwritten
<1>6. CommandInvariant'
  <2>1. ASSUME NEW p \in Commands PROVE CommandSound(p)'
    BY <1>1, <1>2, SameCommandSound DEF CommandInvariant
  <2>. QED
    BY <1>1, <1>2, <2>1 DEF CommandInvariant
<1>7. ASSUME NEW z \in Series
      PROVE  /\ IsFiniteSet(Own(z))' /\ IsFiniteSet(Derived(z))'
             /\ (NumbersOf(z) = 1 .. series[z].number)'
             /\ (Cardinality(Own(z)) + Cardinality(Derived(z)) = series[z].number)'
  <2>1. /\ Own(z)' = Own(z) /\ Derived(z)' = Derived(z) /\ NumbersOf(z)' = NumbersOf(z)
        /\ series'[z].number = series[z].number
    BY <1>2, <1>3 DEF Own, Derived, NumbersOf
  <2>. QED
    BY <1>1, <2>1 DEF NumberInvariant
<1>8. ASSUME NEW k \in Keys, NEW d \in {doc'[k], companion'[k]} \ {NoDocument}
      PROVE  /\ d.intent.series \in Series
             /\ series'[d.intent.series].type = d.intent.type
             /\ series'[d.intent.series].year = d.year
             /\ d.intent.type # "none"
  <2>1. d \in {doc[k], companion[k]} \ {NoDocument}
    BY <1>2
  <2>2. /\ d.intent.series \in Series
        /\ series[d.intent.series].type = d.intent.type
        /\ series[d.intent.series].year = d.year
        /\ d.intent.type # "none"
    BY <1>1, <2>1 DEF NumberInvariant
  <2>3. Used(d.intent.series)
    BY <2>1 DEF Used
  <2>. QED
    BY <1>3, <2>2, <2>3
<1>9. NumberInvariant'
  BY <1>7, <1>8 DEF NumberInvariant
<1>. QED
  BY <1>4, <1>5, <1>6, <1>9 DEF BillingInvariant

(* A return gets its sale once: what is known of other returns stays. *)
LEMMA ReturnKept ==
    ASSUME BillingInvariant, NEW r \in Returns, NEW s \in Sales, NEW full \in BOOLEAN,
           CompleteReturn(r, s, full)
    PROVE  BillingInvariant'
<1>1. BillingTypeOK /\ HistoryInvariant /\ CommandInvariant /\ NumberInvariant
  BY DEF BillingInvariant
<1>2. /\ wanted' = wanted /\ series' = series /\ doc' = doc /\ companion' = companion
      /\ anchor' = anchor /\ command' = command /\ year' = year
  BY DEF CompleteReturn, documentVars
<1>3. /\ retSale[r] = None /\ retSale' = [retSale EXCEPT ![r] = s]
      /\ saleStatus' = [saleStatus EXCEPT ![s] = IF full THEN "returned" ELSE @]
  BY DEF CompleteReturn
<1>4. BillingTypeOK'
  <2>1. retSale' \in [Returns -> Sales \cup {None}]
    BY <1>1, <1>3 DEF BillingTypeOK
  <2>2. saleStatus' \in [Sales -> {"completed", "returned"}]
    BY <1>1, <1>3 DEF BillingTypeOK
  <2>. QED
    BY <1>1, <1>2, <2>1, <2>2 DEF BillingTypeOK
<1>5. \A t \in Returns : retSale[t] # None => retSale'[t] = retSale[t]
  BY <1>1, <1>3 DEF BillingTypeOK
<1>6. /\ \A z : Initial(z)' = Initial(z) /\ Simplified(z)' = Simplified(z)
      /\ \A k : Substitutions(k)' = Substitutions(k)
      /\ \A t : Rectifications(t)' = Rectifications(t)
      /\ \A k : RectificationType(k)' = RectificationType(k)
  BY <1>2 DEF Initial, Simplified, Substitutions, Rectifications, Of, RectificationType
<1>7. ASSUME NEW j, IntentSound(j) PROVE IntentSound(j)'
  <2>1. j.sale # None
    BY <1>7, BillingAssumption DEF IntentSound
  <2>2. CASE IssueSound(j)
    BY <1>7, <2>2 DEF IntentSound, IssueSound
  <2>3. CASE SubstitutionSound(j)
    BY <1>6, <1>7, <2>3 DEF IntentSound, SubstitutionSound
  <2>4. CASE RectificationSound(j)
    <3>1. RectificationSound(j)'
      BY <1>5, <1>6, <2>1, <2>4 DEF RectificationSound
    <3>. QED
      BY <1>7, <3>1 DEF IntentSound
  <2>. QED
    BY <1>7, <2>2, <2>3, <2>4 DEF IntentSound
<1>8. HistoryInvariant'
  <2>1. ASSUME NEW k \in Keys PROVE DocumentSound(k)'
    <3>. SUFFICES ASSUME NEW d, d = doc[k]
                  PROVE  DocumentSound(k)'
      OBVIOUS
    <3>1. DocumentSound(k)
      BY <1>1 DEF HistoryInvariant
    <3>2. IntentSound(d.intent) => IntentSound(d.intent)'
      BY <1>7
    <3>3. CompanionSound(k, d.intent) => CompanionSound(k, d.intent)'
      BY <1>2 DEF CompanionSound
    <3>. QED
      BY <1>2, <3>1, <3>2, <3>3 DEF DocumentSound
  <2>2. ASSUME NEW z \in Sales PROVE AtMostOne(Initial(z))'
    BY <1>1, <1>6 DEF HistoryInvariant, AtMostOne
  <2>3. ASSUME NEW k \in Keys PROVE AtMostOne(Substitutions(k))'
    BY <1>1, <1>6 DEF HistoryInvariant, AtMostOne
  <2>4. ASSUME NEW t \in Returns PROVE AtMostOne(Rectifications(t))'
    BY <1>1, <1>6 DEF HistoryInvariant, AtMostOne
  <2>5. ASSUME NEW t \in Returns
        PROVE  (anchor[t] # None =>
                  retSale[t] # None /\ anchor[t] \in Initial(retSale[t]))'
    BY <1>1, <1>2, <1>5, <1>6 DEF HistoryInvariant
  <2>. QED
    BY <2>1, <2>2, <2>3, <2>4, <2>5 DEF HistoryInvariant
<1>9. CommandInvariant'
  <2>1. ASSUME NEW p \in Commands PROVE CommandSound(p)'
    <3>. SUFFICES ASSUME NEW j, j = command[p].intent
                  PROVE  CommandSound(p)'
      OBVIOUS
    <3>1. CommandSound(p)
      BY <1>1 DEF CommandInvariant
    <3>2. IntentSound(j) => IntentSound(j)'
      BY <1>7
    <3>3. Unissued(j) => Unissued(j)'
      BY <1>2, <1>6 DEF Unissued
    <3>. QED
      BY <1>2, <3>1, <3>2, <3>3 DEF CommandSound
  <2>. QED
    BY <1>1, <1>2, <2>1 DEF CommandInvariant
<1>10. NumberInvariant'
  BY <1>1, <1>2 DEF NumberInvariant, NumbersOf, Own, Derived
<1>. QED
  BY <1>4, <1>8, <1>9, <1>10 DEF BillingInvariant

(* What depends on no variable that changes, the year included. *)
LEMMA YearKept ==
    ASSUME BillingInvariant, UNCHANGED <<salesVars, documentVars, command>>,
           year' \in 1 .. MaxYear
    PROVE  BillingInvariant'
<1>1. UNCHANGED <<wanted, saleStatus, retSale, series, doc, companion, anchor, command>>
  BY DEF salesVars, documentVars
<1>2. BillingTypeOK /\ HistoryInvariant /\ CommandInvariant /\ NumberInvariant
  BY DEF BillingInvariant
<1>3. BillingTypeOK'
  BY <1>1, <1>2 DEF BillingTypeOK
<1>4. HistoryInvariant'
  BY <1>1, <1>2, HistoryUnwritten
<1>5. CommandInvariant'
  <2>1. ASSUME NEW p \in Commands PROVE CommandSound(p)'
    BY <1>1, <1>2, SameCommandSound DEF CommandInvariant
  <2>. QED
    BY <1>1, <1>2, <2>1 DEF CommandInvariant
<1>6. NumberInvariant'
  BY <1>1, <1>2 DEF NumberInvariant, NumbersOf, Own, Derived
<1>. QED
  BY <1>3, <1>4, <1>5, <1>6 DEF BillingInvariant

(* The initial state has no document, no command and no series. *)
LEMMA BillingInitially ==
    ASSUME BillingInit
    PROVE  BillingInvariant
<1>. USE DEF BillingInit
<1>1. BillingTypeOK
  BY IntentsTyped, BillingAssumption DEF BillingTypeOK
<1>2. /\ \A s : Initial(s) = {}
      /\ \A k : Substitutions(k) = {}
      /\ \A r : Rectifications(r) = {}
      /\ \A x \in Series : Own(x) = {} /\ Derived(x) = {}
  BY BillingAssumption DEF Initial, Substitutions, Rectifications, Of, Own, Derived,
     NoDocument, NoIntent
<1>3. HistoryInvariant
  BY <1>2 DEF HistoryInvariant, AtMostOne, DocumentSound
<1>4. CommandInvariant
  BY DEF CommandInvariant, CommandSound, Idle, NoIntent
<1>5. \A x \in Series : series[x].number = 0
  BY DEF NoSeries
<1>6. Cardinality({}) = 0 /\ IsFiniteSet({})
  BY FS_EmptySet
<1>7. ASSUME NEW x \in Series
      PROVE  /\ IsFiniteSet(Own(x)) /\ IsFiniteSet(Derived(x))
             /\ NumbersOf(x) = 1 .. series[x].number
             /\ Cardinality(Own(x)) + Cardinality(Derived(x)) = series[x].number
  BY <1>2, <1>5, <1>6 DEF NumbersOf
<1>8. \A k \in Keys : {doc[k], companion[k]} \ {NoDocument} = {}
  OBVIOUS
<1>9. NumberInvariant
  BY <1>7, <1>8 DEF NumberInvariant
<1>. QED
  BY <1>1, <1>3, <1>4, <1>9 DEF BillingInvariant

(* Every step keeps the invariant: one case for each action. *)
LEMMA BillingStep ==
    ASSUME BillingInvariant, [BillingNext]_billingVars
    PROVE  BillingInvariant'
<1>1. ASSUME NEW q \in Commands, NEW k \in Keys, NEW s \in Sales, NEW x \in Series,
             BeginIssue(q, k, s, x)
      PROVE  BillingInvariant'
  BY <1>1, IssueBegun, Begun DEF BeginIssue
<1>2. ASSUME NEW q \in Commands, NEW k \in Keys, NEW s \in Sales, NEW x \in Series,
             BeginSubstitution(q, k, s, x)
      PROVE  BillingInvariant'
  BY <1>2, SubstitutionBegun, Begun DEF BeginSubstitution
<1>3. ASSUME NEW q \in Commands, NEW k \in Keys, NEW r \in Returns, NEW x \in Series,
             NEW y \in Series \cup {None}, BeginRectification(q, k, r, x, y)
      PROVE  BillingInvariant'
  BY <1>3, RectificationBegun, Begun DEF BeginRectification
<1>4. ASSUME NEW q \in Commands, Finish(q)
      PROVE  BillingInvariant'
  BY <1>4, FinishTyped, FinishHistory, FinishCommands, FinishNumbers DEF BillingInvariant
<1>5. ASSUME NEW q \in Commands, Fail(q)
      PROVE  BillingInvariant'
  BY <1>5, Failed
<1>6. ASSUME NEW x \in Series, SeriesStep(x)
      PROVE  BillingInvariant'
  BY <1>6, SeriesKept
<1>7. ASSUME NEW r \in Returns, NEW s \in Sales, NEW full \in BOOLEAN,
             CompleteReturn(r, s, full)
      PROVE  BillingInvariant'
  BY <1>7, ReturnKept
<1>8. year \in 1 .. MaxYear
  BY DEF BillingInvariant, BillingTypeOK
<1>9. CASE NewYear
  BY <1>8, <1>9, YearKept, BillingAssumption DEF NewYear
<1>10. CASE UNCHANGED billingVars
  BY <1>8, <1>10, YearKept DEF billingVars
<1>. QED
  BY <1>1, <1>2, <1>3, <1>4, <1>5, <1>6, <1>7, <1>9, <1>10 DEF BillingNext, CommandStep
-------------------------------------------------------------------------------
(* The invariant holds in every behaviour. *)
THEOREM BillingAlways == BillingSpec => []BillingInvariant
<1>1. BillingInit => BillingInvariant
  BY BillingInitially
<1>2. BillingInvariant /\ [BillingNext]_billingVars => BillingInvariant'
  BY BillingStep
<1>. QED
  BY <1>1, <1>2, PTL DEF BillingSpec

(* Series, documents and commands keep their types. *)
THEOREM BillingTyped == BillingSpec => []BillingTypeOK
<1>1. BillingInvariant => BillingTypeOK
  BY DEF BillingInvariant
<1>. QED
  BY <1>1, BillingAlways, PTL

(* The numbers of every series are 1, 2, ... without gaps or repetitions. *)
THEOREM Correlative == BillingSpec => []NumbersCorrelative
<1>1. BillingInvariant => NumbersCorrelative
  BY DEF BillingInvariant, NumberInvariant, NumbersOf, NumbersCorrelative
<1>. QED
  BY <1>1, BillingAlways, PTL

(* One initial document for a sale, one substitution, one rectification. *)
THEOREM OneDocumentEach == BillingSpec => []OneOfEach
<1>1. BillingInvariant => OneOfEach
  BY FewElements DEF BillingInvariant, HistoryInvariant, OneOfEach
<1>. QED
  BY <1>1, BillingAlways, PTL

(* What is known of a rectification and of its companion. *)
LEMMA RectificationKnown ==
    ASSUME BillingInvariant, NEW k \in Of("rectify"), NEW i, i = doc[k].intent
    PROVE  /\ i \in Intent /\ i.op = "rectify" /\ i.ret \in Returns
           /\ RectificationSound(i) /\ CompanionSound(k, i)
           /\ anchor[i.ret] = i.target /\ i.target \in Keys /\ i.target # None
<1>1. k \in Keys /\ i.op = "rectify"
  BY DEF Of
<1>2. doc[k] \in Issued
  BY <1>1 DEF BillingInvariant, BillingTypeOK
<1>3. i \in Intent
  BY <1>2 DEF Issued
<1>4. doc[k] # NoDocument
  BY <1>1 DEF NoDocument, NoIntent
<1>5. DocumentSound(k)
  BY <1>1 DEF BillingInvariant, HistoryInvariant
<1>6. IntentSound(i) /\ CompanionSound(k, i) /\ anchor[i.ret] = i.target
  BY <1>1, <1>4, <1>5 DEF DocumentSound
<1>7. RectificationSound(i)
  BY <1>1, <1>6 DEF IntentSound, IssueSound, SubstitutionSound
<1>8. i.target \in Keys
  BY <1>7 DEF RectificationSound, Initial, Of
<1>. QED
  BY <1>1, <1>3, <1>6, <1>7, <1>8, BillingAssumption DEF RectificationSound

(* A return is rectified against the initial document of its sale, with an F3 of its
   own exactly if that one was substituted. *)
THEOREM OriginalRectified == BillingSpec => []RectifiesTheOriginal
<1>1. ASSUME BillingInvariant, NEW k \in Of("rectify"), NEW i, i = doc[k].intent
      PROVE  /\ anchor[i.ret] = i.target
             /\ i.target \in Initial(retSale[i.ret]) /\ i.sale = retSale[i.ret]
             /\ i.type = "R1" <=> doc[i.target].intent.type = "F1"
             /\ i.f3 # None => Substitutions(i.target) = {i.f3}
             /\ companion[k] = IF i.f3 = None THEN NoDocument
                               ELSE [companion[k] EXCEPT !.intent = CompanionIntent(k, i)]
             /\ i.f3 # None => companion[k].number > 0
  <2>1. RectificationSound(i) /\ CompanionSound(k, i) /\ anchor[i.ret] = i.target
    BY <1>1, RectificationKnown
  <2>2. k \in Keys
    BY <1>1 DEF Of
  <2>3. companion[k] \in Issued
    BY <1>1, <2>2 DEF BillingInvariant, BillingTypeOK
  <2>4. CASE i.f3 = None
    BY <2>1, <2>4 DEF RectificationSound, CompanionSound, RectificationType
  <2>5. CASE i.f3 # None
    <3>1. companion[k].intent = CompanionIntent(k, i) /\ companion[k].number > 0
      BY <2>1, <2>5 DEF RectificationSound, CompanionSound
    <3>2. companion[k] = [companion[k] EXCEPT !.intent = CompanionIntent(k, i)]
      BY <2>3, <3>1 DEF Issued
    <3>. QED
      BY <2>1, <2>5, <3>1, <3>2 DEF RectificationSound, RectificationType
  <2>. QED
    BY <2>4, <2>5
<1>2. BillingInvariant => RectifiesTheOriginal
  BY <1>1 DEF RectifiesTheOriginal
<1>. QED
  BY <1>2, BillingAlways, PTL

(* Only a simplified invoice is replaced. *)
LEMMA SubstitutedIsSimplified ==
    ASSUME BillingInvariant, NEW t, NEW m \in Substitutions(t)
    PROVE  doc[t].intent.type # "F1"
<1>1. m \in Keys /\ doc[m].intent.op = "substitute" /\ doc[m].intent.target = t
  BY DEF Substitutions, Of
<1>2. doc[m] # NoDocument
  BY <1>1 DEF NoDocument, NoIntent
<1>3. DocumentSound(m)
  BY <1>1 DEF BillingInvariant, HistoryInvariant
<1>4. SubstitutionSound(doc[m].intent)
  BY <1>1, <1>2, <1>3 DEF DocumentSound, IntentSound, IssueSound, RectificationSound
<1>. QED
  BY <1>1, <1>4 DEF SubstitutionSound, Simplified

(* A rectification sent again is given the intent it was issued with, unless its F2
   got an F3 only afterwards; and then it never is. *)
THEOREM RetryDerivesTheSame == BillingSpec => []RetryFindsItsDocument
<1>1. ASSUME BillingInvariant, NEW k \in Of("rectify"), NEW i, i = doc[k].intent
      PROVE  DerivesTheSame(i) <=> (i.f3 = None => Substitutions(i.target) = {})
  <2>1. /\ i \in Intent /\ i.op = "rectify" /\ RectificationSound(i)
        /\ anchor[i.ret] = i.target /\ i.target \in Keys /\ i.target # None
    BY <1>1, RectificationKnown
  <2>2. OneOf(Originals(i.ret)) = i.target
    BY <2>1, OneOfIt DEF Originals
  <2>3. i.type = RectificationType(i.target) /\ i.sale = retSale[i.ret]
    BY <2>1 DEF RectificationSound
  <2>4. ASSUME i.f3 = None => Substitutions(i.target) = {}
        PROVE  OneOf(InitialF3(i.target)) = i.f3
    <3>1. CASE i.f3 = None
      BY <2>4, <3>1, OneOfIt DEF InitialF3
    <3>2. CASE i.f3 # None
      <4>1. InitialF3(i.target) = {i.f3}
        BY <2>1, <3>2 DEF RectificationSound, InitialF3
      <4>. QED
        BY <4>1, OneOfIt
    <3>. QED
      BY <3>1, <3>2
  <2>5. i = [op |-> i.op, sale |-> i.sale, ret |-> i.ret, target |-> i.target,
             type |-> i.type, series |-> i.series, companion |-> i.companion,
             f3 |-> i.f3]
    BY <2>1 DEF Intent
  <2>6. ASSUME i.f3 = None => Substitutions(i.target) = {}
        PROVE  DerivesTheSame(i)
    BY <2>1, <2>2, <2>3, <2>4, <2>5, <2>6 DEF RectificationIntent, DerivesTheSame
  <2>7. ASSUME i.f3 = None, NEW m \in Substitutions(i.target)
        PROVE  ~DerivesTheSame(i)
    <3>1. RectificationType(i.target) = "R5"
      BY <1>1, <2>7, SubstitutedIsSimplified DEF RectificationType
    <3>2. InitialF3(i.target) = Substitutions(i.target)
      BY <3>1 DEF InitialF3
    <3>3. OneOf(InitialF3(i.target)) \in Substitutions(i.target)
      BY <2>7, <3>2 DEF OneOf
    <3>4. OneOf(InitialF3(i.target)) # None
      BY <3>3, BillingAssumption DEF Substitutions, Of
    <3>5. RectificationIntent(i.ret, i.series, i.companion).f3
             = OneOf(InitialF3(i.target))
      BY <2>2 DEF RectificationIntent
    <3>. QED
      BY <2>7, <3>4, <3>5 DEF DerivesTheSame
  <2>. QED
    BY <2>6, <2>7
<1>2. BillingInvariant => RetryFindsItsDocument
  BY <1>1 DEF RetryFindsItsDocument
<1>. QED
  BY <1>2, BillingAlways, PTL
-------------------------------------------------------------------------------
(* What the fiscal reports read.  The rows that count are known by their key: *)
Plain(k) == [key |-> k, companion |-> FALSE]
Extra(k) == [key |-> k, companion |-> TRUE]

(* Every issued document is of one of the four kinds. *)
LEMMA PlainKnown ==
    ASSUME BillingInvariant, NEW k \in Keys, doc[k] # NoDocument,
           NEW i, i = doc[k].intent
    PROVE  /\ i.sale \in Sales
           /\ \/ /\ i.op = "issue" /\ i.type \in {"F1", "F2"} /\ i.ret = None
                 /\ k \in Initial(i.sale) /\ companion[k] = NoDocument
              \/ /\ i.op = "substitute" /\ i.type = "F3" /\ i.ret = None
                 /\ i.target \in Simplified(i.sale) /\ k \in Substitutions(i.target)
                 /\ companion[k] = NoDocument
              \/ /\ i.op = "rectify" /\ i.type \in {"R1", "R5"} /\ i.ret \in Returns
                 /\ k \in Rectifications(i.ret)
<1>1. IntentSound(i) /\ CompanionSound(k, i)
  BY DEF BillingInvariant, HistoryInvariant, DocumentSound
<1>2. CASE IssueSound(i)
  BY <1>1, <1>2 DEF IssueSound, IntentSound, CompanionSound, Initial, Of
<1>3. CASE SubstitutionSound(i)
  BY <1>1, <1>3 DEF SubstitutionSound, IntentSound, CompanionSound, Substitutions, Of
<1>4. CASE RectificationSound(i)
  BY <1>1, <1>4 DEF RectificationSound, IntentSound, Rectifications, Of, RectificationType
<1>. QED
  BY <1>1, <1>2, <1>3, <1>4 DEF IntentSound

(* The F3 that came with a rectification. *)
LEMMA ExtraKnown ==
    ASSUME BillingInvariant, NEW k \in Keys, companion[k] # NoDocument
    PROVE  /\ doc[k] # NoDocument /\ doc[k].intent.op = "rectify"
           /\ companion[k].intent.op = "companion" /\ companion[k].intent.type = "F3"
           /\ companion[k].intent.target = k
           /\ companion[k].intent.ret = doc[k].intent.ret
<1>1. DocumentSound(k)
  BY DEF BillingInvariant, HistoryInvariant
<1>2. doc[k] # NoDocument
  BY <1>1 DEF DocumentSound
<1>3. companion[k].intent = CompanionIntent(k, doc[k].intent)
  BY <1>1, <1>2 DEF DocumentSound, CompanionSound
<1>4. doc[k].intent.op = "rectify"
  BY <1>2, PlainKnown
<1>. QED
  BY <1>2, <1>3, <1>4 DEF CompanionIntent

(* Which documents are issued. *)
LEMMA IssuedKnown ==
    /\ \A k \in Keys : /\ Plain(k) \in IssuedDocuments <=> doc[k] # NoDocument
                       /\ Extra(k) \in IssuedDocuments <=> companion[k] # NoDocument
                       /\ IntentOf(Plain(k)) = doc[k].intent
                       /\ IntentOf(Extra(k)) = companion[k].intent
    /\ \A d \in IssuedDocuments : d.key \in Keys /\ d \in {Plain(d.key), Extra(d.key)}
  BY DEF Plain, Extra, IssuedDocuments, IssuedRow, IntentOf

(* The shape of a row that says SUBSTITUTES. *)
LEMMA RowShape ==
    /\ \A d, t : <<d, t>> \in SubstitutesRows <=>
                   /\ d \in IssuedDocuments
                   /\ IntentOf(d).op \in {"substitute", "companion"}
                   /\ t = Plain(IntentOf(d).target)
    /\ \A row \in SubstitutesRows : row = <<row[1], row[2]>>
<1>. DEFINE Sources ==
              {d \in IssuedDocuments : IntentOf(d).op \in {"substitute", "companion"}}
<1>1. SubstitutesRows = {<<d, Plain(IntentOf(d).target)>> : d \in Sources}
  BY DEF SubstitutesRows, Plain
<1>2. ASSUME NEW d, NEW t
      PROVE  <<d, t>> \in SubstitutesRows <=>
                   d \in Sources /\ t = Plain(IntentOf(d).target)
  <2>. HIDE DEF Sources
  <2>. QED
    BY <1>1
<1>3. ASSUME NEW row \in SubstitutesRows PROVE row = <<row[1], row[2]>>
  <2>. HIDE DEF Sources
  <2>. QED
    BY <1>1, <1>3
<1>. QED
  BY <1>2, <1>3

(* What replaces a document: the F3 of its sale, or that of the same return. *)
LEMMA RowsKnown ==
    ASSUME BillingInvariant, NEW d, NEW t
    PROVE  <<d, t>> \in SubstitutesRows <=>
              \E k \in Keys :
                 \/ d = Plain(k) /\ \E m \in Keys : /\ k \in Substitutions(m)
                                                    /\ t = Plain(m)
                 \/ d = Extra(k) /\ t = Plain(k) /\ companion[k] # NoDocument
<1>1. ASSUME NEW k \in Keys, NEW m \in Keys, k \in Substitutions(m)
      PROVE  <<Plain(k), Plain(m)>> \in SubstitutesRows
  <2>1. doc[k].intent.op = "substitute" /\ doc[k].intent.target = m
    BY <1>1 DEF Substitutions, Of
  <2>2. Plain(k) \in IssuedDocuments
    BY <2>1, IssuedKnown DEF NoDocument, NoIntent
  <2>. QED
    BY <2>1, <2>2, IssuedKnown, RowShape
<1>2. ASSUME NEW k \in Keys, companion[k] # NoDocument
      PROVE  <<Extra(k), Plain(k)>> \in SubstitutesRows
  BY <1>2, ExtraKnown, IssuedKnown, RowShape
<1>3. ASSUME <<d, t>> \in SubstitutesRows
      PROVE  \E k \in Keys :
                \/ d = Plain(k) /\ \E m \in Keys : k \in Substitutions(m) /\ t = Plain(m)
                \/ d = Extra(k) /\ t = Plain(k) /\ companion[k] # NoDocument
  <2>1. d \in IssuedDocuments /\ IntentOf(d).op \in {"substitute", "companion"}
        /\ t = Plain(IntentOf(d).target)
    BY <1>3, RowShape
  <2>2. PICK k \in Keys : d = Plain(k) \/ d = Extra(k)
    BY <2>1, IssuedKnown
  <2>3. CASE d = Plain(k)
    <3>1. doc[k] # NoDocument /\ IntentOf(d) = doc[k].intent
      BY <2>1, <2>3, IssuedKnown
    <3>2. doc[k].intent.op = "substitute" /\ k \in Substitutions(doc[k].intent.target)
          /\ doc[k].intent.target \in Keys
      BY <2>1, <3>1, PlainKnown DEF Simplified, Initial, Of
    <3>. QED
      BY <2>1, <2>3, <3>1, <3>2
  <2>4. CASE d = Extra(k)
    BY <2>1, <2>4, ExtraKnown, IssuedKnown
  <2>. QED
    BY <2>2, <2>3, <2>4
<1>. QED
  BY <1>1, <1>2, <1>3

(* A replaced document was issued, and is replaced by one other document. *)
LEMMA SubstitutedKnown ==
    ASSUME BillingInvariant, NEW k \in Keys, NEW m \in Keys, k \in Substitutions(m)
    PROVE  doc[m] # NoDocument /\ companion[m] = NoDocument
<1>1. doc[k] # NoDocument /\ doc[k].intent.op = "substitute" /\ doc[k].intent.target = m
  BY DEF Substitutions, Of, NoDocument, NoIntent
<1>2. m \in Simplified(doc[k].intent.sale)
  BY <1>1, PlainKnown
<1>3. doc[m].intent.op = "issue" /\ doc[m] # NoDocument
  BY <1>2 DEF Simplified, Initial, Of, NoDocument, NoIntent
<1>. QED
  BY <1>3, ExtraKnown

(* What is replaced was issued. *)
LEMMA RowTarget ==
    ASSUME BillingInvariant, NEW d, NEW t, <<d, t>> \in SubstitutesRows
    PROVE  t \in IssuedDocuments
<1>1. PICK k \in Keys :
         \/ d = Plain(k) /\ \E m \in Keys : k \in Substitutions(m) /\ t = Plain(m)
         \/ d = Extra(k) /\ t = Plain(k) /\ companion[k] # NoDocument
  BY RowsKnown
<1>. QED
  BY <1>1, SubstitutedKnown, ExtraKnown, IssuedKnown

(* One document replaces it. *)
LEMMA RowSource ==
    ASSUME BillingInvariant, NEW t, NEW d, <<d, t>> \in SubstitutesRows,
           NEW e, <<e, t>> \in SubstitutesRows
    PROVE  d = e
<1>1. PICK k \in Keys :
         \/ d = Plain(k) /\ \E m \in Keys : k \in Substitutions(m) /\ t = Plain(m)
         \/ d = Extra(k) /\ t = Plain(k) /\ companion[k] # NoDocument
  BY RowsKnown
<1>2. PICK n \in Keys :
         \/ e = Plain(n) /\ \E m \in Keys : n \in Substitutions(m) /\ t = Plain(m)
         \/ e = Extra(n) /\ t = Plain(n) /\ companion[n] # NoDocument
  BY RowsKnown
<1>3. \A x, y \in Keys : Plain(x) = Plain(y) => x = y
  BY DEF Plain
<1>4. \A m \in Keys : AtMostOne(Substitutions(m))
  BY DEF BillingInvariant, HistoryInvariant
<1>. QED
  BY <1>1, <1>2, <1>3, <1>4, SubstitutedKnown DEF AtMostOne

(* A document counts unless an F3 of its sale or of its return replaced it. *)
LEMMA EffectiveKnown ==
    ASSUME BillingInvariant, NEW k \in Keys
    PROVE  /\ Plain(k) \in EffectiveDocuments <=>
                 /\ doc[k] # NoDocument
                 /\ Substitutions(k) = {} /\ companion[k] = NoDocument
           /\ Extra(k) \in EffectiveDocuments <=> companion[k] # NoDocument
<1>1. \A m \in Keys : Plain(k) = Plain(m) => k = m
  BY DEF Plain
<1>2. \A m \in Keys : Extra(k) # Plain(m)
  BY DEF Plain, Extra
<1>3. Substitutions(k) \subseteq Keys
  BY DEF Substitutions, Of
<1>4. ASSUME NEW t
      PROVE  (\E row \in SubstitutesRows : row[2] = t)
                <=> \E d : <<d, t>> \in SubstitutesRows
  <2>1. ASSUME NEW row \in SubstitutesRows, row[2] = t
        PROVE  <<row[1], t>> \in SubstitutesRows
    BY <2>1, RowShape
  <2>2. ASSUME NEW d, <<d, t>> \in SubstitutesRows PROVE <<d, t>>[2] = t
    OBVIOUS
  <2>. QED
    BY <2>1, <2>2
<1>5. (\E d : <<d, Plain(k)>> \in SubstitutesRows)
          <=> Substitutions(k) # {} \/ companion[k] # NoDocument
  BY <1>1, <1>3, RowsKnown
<1>6. ASSUME NEW d PROVE <<d, Extra(k)>> \notin SubstitutesRows
  <2>1. Extra(k).companion /\ \A m : ~Plain(m).companion
    BY DEF Plain, Extra
  <2>. QED
    BY <1>2, <2>1, RowsKnown
<1>7. ASSUME NEW t
      PROVE  t \in EffectiveDocuments <=>
                t \in IssuedDocuments /\ ~\E row \in SubstitutesRows : row[2] = t
  BY DEF EffectiveDocuments
<1>. QED
  BY <1>4, <1>5, <1>6, <1>7, IssuedKnown

(* The documents of one sale and of one return. *)
ChargesOf(s) == Charges(OutputDocuments, s)
CreditsOf(r) == Credits(OutputDocuments \cup RectifiedDocuments, r)

(* A sale that was documented has one document that counts. *)
LEMMA ChargesKnown ==
    ASSUME BillingInvariant, NEW s \in Sales
    PROVE  IF Initial(s) = {} THEN ChargesOf(s) = {} ELSE \E d : ChargesOf(s) = {d}
<1>1. ASSUME NEW d
      PROVE  d \in ChargesOf(s) <=>
                \E k \in Keys : /\ d = Plain(k) /\ Plain(k) \in EffectiveDocuments
                                /\ doc[k].intent.sale = s
                                /\ doc[k].intent.op \in {"issue", "substitute"}
  <2>1. ASSUME d \in ChargesOf(s)
        PROVE  \E k \in Keys : /\ d = Plain(k) /\ Plain(k) \in EffectiveDocuments
                               /\ doc[k].intent.sale = s
                               /\ doc[k].intent.op \in {"issue", "substitute"}
    <3>1. d \in EffectiveDocuments /\ d \in IssuedDocuments
          /\ IntentOf(d).type \in Outputs /\ IntentOf(d).sale = s /\ IntentOf(d).ret = None
      BY <2>1 DEF ChargesOf, Charges, OutputDocuments, OfType, EffectiveDocuments
    <3>2. PICK k \in Keys : d = Plain(k) \/ d = Extra(k)
      BY <3>1, IssuedKnown
    <3>3. CASE d = Plain(k)
      BY <3>1, <3>3, PlainKnown, IssuedKnown DEF Outputs
    <3>4. CASE d = Extra(k)
      BY <3>1, <3>4, PlainKnown, ExtraKnown, IssuedKnown, BillingAssumption
    <3>. QED
      BY <3>2, <3>3, <3>4
  <2>2. ASSUME NEW k \in Keys, d = Plain(k), Plain(k) \in EffectiveDocuments,
               doc[k].intent.sale = s, doc[k].intent.op \in {"issue", "substitute"}
        PROVE  d \in ChargesOf(s)
    BY <2>2, PlainKnown, IssuedKnown, EffectiveKnown
       DEF ChargesOf, Charges, OutputDocuments, OfType, Outputs
  <2>. QED
    BY <2>1, <2>2
<1>2. ASSUME NEW k \in Keys, doc[k] # NoDocument, doc[k].intent.op = "issue",
             doc[k].intent.sale = s
      PROVE  k \in Initial(s)
  BY <1>2 DEF Initial, Of
<1>3. ASSUME NEW k \in Keys, doc[k] # NoDocument, doc[k].intent.op = "substitute",
             doc[k].intent.sale = s
      PROVE  \E m \in Initial(s) : k \in Substitutions(m)
  BY <1>3, PlainKnown DEF Simplified
<1>4. CASE Initial(s) = {}
  <2>1. ASSUME NEW d PROVE d \notin ChargesOf(s)
    BY <1>1, <1>2, <1>3, <1>4, EffectiveKnown
  <2>. QED
    BY <1>4, <2>1
<1>5. CASE Initial(s) # {}
  <2>1. PICK k \in Keys : Initial(s) = {k} /\ doc[k] # NoDocument /\ doc[k].intent.op = "issue"
                          /\ doc[k].intent.sale = s
    <3>1. AtMostOne(Initial(s)) /\ Initial(s) \subseteq Keys
      BY DEF BillingInvariant, HistoryInvariant, Initial, Of
    <3>2. PICK k \in Keys : Initial(s) = {k}
      BY <1>5, <3>1 DEF AtMostOne
    <3>. QED
      BY <3>2 DEF Initial, Of, NoDocument, NoIntent
  <2>2. companion[k] = NoDocument
    BY <2>1, PlainKnown
  <2>3. CASE Substitutions(k) = {}
    <3>1. Plain(k) \in ChargesOf(s)
      BY <1>1, <2>1, <2>2, <2>3, EffectiveKnown
    <3>2. ASSUME NEW d \in ChargesOf(s) PROVE d = Plain(k)
      BY <1>1, <1>2, <1>3, <2>1, <2>3, <3>2, EffectiveKnown
    <3>. QED
      BY <1>5, <3>1, <3>2
  <2>4. CASE Substitutions(k) # {}
    <3>1. AtMostOne(Substitutions(k))
      BY DEF BillingInvariant, HistoryInvariant
    <3>2. PICK m \in Keys : /\ Substitutions(k) = {m} /\ doc[m] # NoDocument
                            /\ doc[m].intent.op = "substitute" /\ doc[m].intent.target = k
      <4>1. PICK m : Substitutions(k) = {m}
        BY <2>4, <3>1 DEF AtMostOne
      <4>. QED
        BY <4>1 DEF Substitutions, Of, NoDocument, NoIntent
    <3>3. doc[m].intent.sale = s /\ companion[m] = NoDocument
      BY <2>1, <3>2, PlainKnown DEF Simplified, Initial
    <3>4. Substitutions(m) = {}
      <4>1. ASSUME NEW n \in Substitutions(m) PROVE FALSE
        <5>1. n \in Keys /\ doc[n] # NoDocument /\ doc[n].intent.op = "substitute"
              /\ doc[n].intent.target = m
          BY DEF Substitutions, Of, NoDocument, NoIntent
        <5>2. m \in Simplified(doc[n].intent.sale)
          BY <5>1, PlainKnown
        <5>. QED
          BY <3>2, <5>2 DEF Simplified, Initial, Of
      <4>. QED
        BY <4>1
    <3>5. Plain(m) \in ChargesOf(s)
      BY <1>1, <3>2, <3>3, <3>4, EffectiveKnown
    <3>6. ASSUME NEW d \in ChargesOf(s) PROVE d = Plain(m)
      <4>1. PICK n \in Keys : /\ d = Plain(n) /\ Plain(n) \in EffectiveDocuments
                              /\ doc[n].intent.sale = s
                              /\ doc[n].intent.op \in {"issue", "substitute"}
        BY <1>1, <3>6
      <4>2. doc[n] # NoDocument /\ Substitutions(n) = {}
        BY <4>1, EffectiveKnown
      <4>3. n # k
        BY <2>4, <4>2
      <4>. QED
        BY <1>2, <1>3, <2>1, <3>2, <4>1, <4>2, <4>3
    <3>. QED
      BY <1>5, <3>5, <3>6
  <2>. QED
    BY <2>3, <2>4
<1>. QED
  BY <1>4, <1>5

(* A return that was rectified has one document that counts. *)
LEMMA CreditsKnown ==
    ASSUME BillingInvariant, NEW r \in Returns
    PROVE  IF Rectifications(r) = {} THEN CreditsOf(r) = {} ELSE \E d : CreditsOf(r) = {d}
<1>1. ASSUME NEW d \in CreditsOf(r)
      PROVE  \E k \in Rectifications(r) :
                \/ d = Plain(k) /\ companion[k] = NoDocument
                \/ d = Extra(k) /\ companion[k] # NoDocument
  <2>1. d \in EffectiveDocuments /\ d \in IssuedDocuments /\ IntentOf(d).ret = r
    BY DEF CreditsOf, Credits, OutputDocuments, RectifiedDocuments, OfType, EffectiveDocuments
  <2>2. PICK k \in Keys : d = Plain(k) \/ d = Extra(k)
    BY <2>1, IssuedKnown
  <2>3. CASE d = Plain(k)
    BY <2>1, <2>3, PlainKnown, IssuedKnown, EffectiveKnown, BillingAssumption
  <2>4. CASE d = Extra(k)
    BY <2>1, <2>4, PlainKnown, ExtraKnown, IssuedKnown, BillingAssumption
  <2>. QED
    BY <2>2, <2>3, <2>4
<1>2. ASSUME NEW k \in Rectifications(r)
      PROVE  IF companion[k] = NoDocument THEN Plain(k) \in CreditsOf(r)
                                          ELSE Extra(k) \in CreditsOf(r)
  <2>1. /\ k \in Keys /\ doc[k] # NoDocument
        /\ doc[k].intent.op = "rectify" /\ doc[k].intent.ret = r
    BY DEF Rectifications, Of, NoDocument, NoIntent
  <2>2. doc[k].intent.type \in {"R1", "R5"}
    BY <2>1, PlainKnown
  <2>3. Substitutions(k) = {}
    <3>1. ASSUME NEW n \in Substitutions(k) PROVE FALSE
      <4>1. n \in Keys /\ doc[n] # NoDocument /\ doc[n].intent.op = "substitute"
            /\ doc[n].intent.target = k
        BY DEF Substitutions, Of, NoDocument, NoIntent
      <4>2. k \in Simplified(doc[n].intent.sale)
        BY <4>1, PlainKnown
      <4>. QED
        BY <2>1, <4>2 DEF Simplified, Initial, Of
    <3>. QED
      BY <3>1
  <2>4. CASE companion[k] = NoDocument
    BY <2>1, <2>2, <2>3, <2>4, EffectiveKnown, IssuedKnown
       DEF CreditsOf, Credits, RectifiedDocuments, OfType, RectificationTypes
  <2>5. CASE companion[k] # NoDocument
    BY <2>1, <2>5, ExtraKnown, EffectiveKnown, IssuedKnown
       DEF CreditsOf, Credits, OutputDocuments, OfType, Outputs
  <2>. QED
    BY <2>4, <2>5
<1>3. AtMostOne(Rectifications(r))
  BY DEF BillingInvariant, HistoryInvariant
<1>4. CASE Rectifications(r) = {}
  BY <1>1, <1>4
<1>5. CASE Rectifications(r) # {}
  <2>1. PICK k : Rectifications(r) = {k}
    BY <1>3, <1>5 DEF AtMostOne
  <2>. QED
    BY <1>1, <1>2, <1>5, <2>1
<1>. QED
  BY <1>4, <1>5

(* Only finitely many documents are issued. *)
IssuedKeys == {k \in Keys : doc[k] # NoDocument}

LEMMA IssuedFinite ==
    ASSUME BillingInvariant, IsFiniteSet(IssuedKeys)
    PROVE  IsFiniteSet(IssuedDocuments)
<1>. DEFINE K == IssuedKeys
            pair == [c \in K \X BOOLEAN |-> [key |-> c[1], companion |-> c[2]]]
            T == {pair[c] : c \in K \X BOOLEAN}
<1>1. IsFiniteSet({TRUE, FALSE})
  <2>1. IsFiniteSet({TRUE})
    BY FS_Singleton
  <2>2. {TRUE, FALSE} = {TRUE} \cup {FALSE}
    OBVIOUS
  <2>. QED
    BY <2>1, <2>2, FS_AddElement
<1>2. IsFiniteSet(BOOLEAN)
  <2>1. BOOLEAN = {TRUE, FALSE}
    OBVIOUS
  <2>. QED
    BY <1>1, <2>1
<1>3. IsFiniteSet(K \X BOOLEAN)
  BY <1>2, FS_Product
<1>4. pair \in Surjection(K \X BOOLEAN, T)
  BY DEF Surjection
<1>5. IsFiniteSet(T)
  BY <1>3, <1>4, FS_Surjection
<1>6. ASSUME NEW d \in IssuedDocuments PROVE d \in T
  <2>1. PICK k \in Keys : d \in {Plain(k), Extra(k)}
    BY IssuedKnown
  <2>2. k \in K
    BY <2>1, IssuedKnown, ExtraKnown DEF IssuedKeys
  <2>3. <<k, TRUE>> \in K \X BOOLEAN /\ <<k, FALSE>> \in K \X BOOLEAN
    BY <2>2
  <2>4. pair[<<k, TRUE>>] = Extra(k) /\ pair[<<k, FALSE>>] = Plain(k)
    BY <2>3 DEF Plain, Extra
  <2>. QED
    BY <2>1, <2>3, <2>4
<1>7. IssuedDocuments \subseteq T
  BY <1>6
<1>. QED
  BY <1>5, <1>7, FS_Subset

(* The counts of the page of documents add up. *)
LEMMA CountsKnown ==
    ASSUME BillingInvariant, IsFiniteSet(IssuedKeys)
    PROVE  /\ DocumentCounts.effective = Cardinality(OutputDocuments)
                                           + Cardinality(RectifiedDocuments)
           /\ DocumentCounts.substituted = Cardinality(SubstitutesRows)
<1>1. IsFiniteSet(IssuedDocuments)
  BY IssuedFinite
<1>2. /\ OutputDocuments \subseteq EffectiveDocuments
      /\ RectifiedDocuments \subseteq EffectiveDocuments
      /\ EffectiveDocuments \subseteq IssuedDocuments
  BY DEF OutputDocuments, RectifiedDocuments, OfType, EffectiveDocuments
<1>3. /\ IsFiniteSet(OutputDocuments) /\ IsFiniteSet(RectifiedDocuments)
      /\ IsFiniteSet(IssuedDocuments \ EffectiveDocuments)
  BY <1>1, <1>2, FS_Subset
<1>4. OutputDocuments \cap RectifiedDocuments = {}
  BY DEF OutputDocuments, RectifiedDocuments, OfType, Outputs, RectificationTypes
<1>5. ASSUME NEW d \in IssuedDocuments
      PROVE  IntentOf(d).type \in Outputs \cup RectificationTypes
  <2>1. PICK k \in Keys : d \in {Plain(k), Extra(k)}
    BY IssuedKnown
  <2>. QED
    BY <2>1, IssuedKnown, PlainKnown, ExtraKnown DEF Outputs, RectificationTypes
<1>6. EffectiveDocuments = OutputDocuments \cup RectifiedDocuments
  BY <1>2, <1>5 DEF OutputDocuments, RectifiedDocuments, OfType
<1>7. Cardinality(EffectiveDocuments) = Cardinality(OutputDocuments)
                                          + Cardinality(RectifiedDocuments)
  <2>1. Cardinality(OutputDocuments) \in Nat /\ Cardinality(RectifiedDocuments) \in Nat
    BY <1>3, FS_CardinalityType
  <2>2. Cardinality({}) = 0
    BY FS_EmptySet
  <2>. QED
    <3>1. Cardinality(EffectiveDocuments)
             = Cardinality(OutputDocuments) + Cardinality(RectifiedDocuments)
                 - Cardinality(OutputDocuments \cap RectifiedDocuments)
      <4>1. Cardinality(OutputDocuments \cup RectifiedDocuments)
               = Cardinality(OutputDocuments) + Cardinality(RectifiedDocuments)
                   - Cardinality(OutputDocuments \cap RectifiedDocuments)
        BY <1>3, FS_Union
      <4>. QED
        BY <1>6, <4>1
    <3>2. Cardinality(OutputDocuments \cap RectifiedDocuments) = 0
      BY <1>4, <2>2, Zenon
    <3>. QED
      BY <2>1, <3>1, <3>2
<1>. DEFINE S == SubstitutesRows
            T == IssuedDocuments \ EffectiveDocuments
            f == [row \in S |-> row[2]]
<1>8. ASSUME NEW row \in S
      PROVE  row = <<row[1], row[2]>> /\ <<row[1], row[2]>> \in SubstitutesRows
  BY RowShape
<1>9. ASSUME NEW row \in S PROVE row[2] \in T
  <2>1. row[2] \in IssuedDocuments
    BY <1>8, RowTarget
  <2>. QED
    BY <2>1 DEF EffectiveDocuments
<1>10. ASSUME NEW d \in T PROVE \E row \in S : row[2] = d
  BY DEF EffectiveDocuments
<1>11. f \in [S -> T]
  BY <1>9
<1>12. f \in Injection(S, T)
  <2>1. ASSUME NEW row \in S, NEW other \in S, row[2] = other[2] PROVE row = other
    <3>1. row[1] = other[1]
      BY <1>8, <2>1, RowSource
    <3>. QED
      BY <1>8, <2>1, <3>1
  <2>. QED
    BY <1>11, <2>1 DEF Injection, IsInjective
<1>13. f \in Surjection(S, T)
  BY <1>10, <1>11 DEF Surjection
<1>14. Cardinality(S) = Cardinality(T)
  BY <1>3, <1>12, <1>13, FS_Injection
<1>. QED
  BY <1>7, <1>14 DEF DocumentCounts

(* The fiscal reports count a sale and a return once, and their counts add up. *)
THEOREM ReportsCountOnce == BillingSpec => []EffectiveOnce
<1>1. BillingInit => IsFiniteSet(IssuedKeys)
  <2>1. BillingInit => IssuedKeys = {}
    BY DEF BillingInit, IssuedKeys
  <2>. QED
    BY <2>1, FS_EmptySet
<1>2. ASSUME BillingInvariant, IsFiniteSet(IssuedKeys), [BillingNext]_billingVars
      PROVE  IsFiniteSet(IssuedKeys)'
  <2>1. \/ doc' = doc
        \/ \E q \in Commands : Finish(q)
    <3>1. ASSUME NEW q, NEW k, NEW i, Begin(q, k, i) PROVE doc' = doc
      BY <3>1 DEF Begin, documentVars
    <3>2. ASSUME NEW q, CommandStep(q) PROVE doc' = doc \/ Finish(q)
      BY <3>1, <3>2 DEF CommandStep, BeginIssue, BeginSubstitution, BeginRectification,
         Fail, documentVars
    <3>3. ASSUME NEW x, SeriesStep(x) PROVE doc' = doc
      BY <3>3 DEF SeriesStep, CreateSeries, UpdateSeries, SetSeriesActive
    <3>4. ASSUME NEW r, NEW s, NEW full, CompleteReturn(r, s, full) PROVE doc' = doc
      BY <3>4 DEF CompleteReturn, documentVars
    <3>5. NewYear \/ UNCHANGED billingVars => doc' = doc
      BY DEF NewYear, billingVars, documentVars
    <3>. QED
      BY <1>2, <3>2, <3>3, <3>4, <3>5 DEF BillingNext
  <2>2. CASE doc' = doc
    BY <1>2, <2>2 DEF IssuedKeys
  <2>3. ASSUME NEW q \in Commands, Finish(q) PROVE IsFiniteSet(IssuedKeys)'
    <3>. DEFINE k == command[q].key
    <3>1. k \in Keys /\ doc' = [doc EXCEPT ![k] = Document(command[q].intent, command[q].year)]
      BY <1>2, <2>3, Finished
    <3>2. doc \in [Keys -> Issued]
      BY <1>2 DEF BillingInvariant, BillingTypeOK
    <3>3. IssuedKeys' \subseteq IssuedKeys \cup {k}
      BY <3>1, <3>2 DEF IssuedKeys
    <3>4. IsFiniteSet(IssuedKeys \cup {k})
      BY <1>2, FS_AddElement
    <3>. QED
      BY <3>3, <3>4, FS_Subset
  <2>. QED
    BY <2>1, <2>2, <2>3
<1>3. ASSUME BillingInvariant, IsFiniteSet(IssuedKeys) PROVE EffectiveOnce
  <2>1. \A d : Cardinality({d}) = 1
    BY FS_Singleton
  <2>2. Cardinality({}) = 0
    BY FS_EmptySet
  <2>3. ASSUME NEW s \in Sales
        PROVE  Cardinality(ChargesOf(s)) = IF Initial(s) = {} THEN 0 ELSE 1
    BY <1>3, <2>1, <2>2, ChargesKnown
  <2>4. ASSUME NEW r \in Returns
        PROVE  Cardinality(CreditsOf(r)) = IF Rectifications(r) = {} THEN 0 ELSE 1
    BY <1>3, <2>1, <2>2, CreditsKnown
  <2>. QED
    BY <1>3, <2>3, <2>4, CountsKnown DEF EffectiveOnce, ChargesOf, CreditsOf
<1>. QED
  BY <1>1, <1>2, <1>3, BillingAlways, PTL DEF BillingSpec
===============================================================================
