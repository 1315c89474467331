------------------------------ MODULE CartProofs ------------------------------
(***************************************************************************)
(* The invariant of Cart and the theorems read off it.  The queue knows    *)
(* versions and keys only; what makes them mean anything is that a version *)
(* never goes back, that an operation on its way to the server is dead or  *)
(* still the one that is queued, and that what was seen with a version is  *)
(* still so if only headers of this tab were saved since then.             *)
(***************************************************************************)
EXTENDS Cart, SumsProofs, SequenceTheorems

LEMMA FunctionIsSequence ==
    ASSUME NEW S, NEW n \in Nat, NEW f \in [1 .. n -> S]
    PROVE  f \in Seq(S) /\ Len(f) = n /\ DOMAIN f = 1 .. n
<1>1. f \in Seq(S)
  BY SeqDef
<1>2. DOMAIN f = 1 .. n /\ Len(f) \in Nat /\ DOMAIN f = 1 .. Len(f)
  BY <1>1, LenProperties
<1>3. Len(f) = n
  <2>1. n > 0 => n \in 1 .. Len(f)
    BY <1>2
  <2>2. Len(f) > 0 => Len(f) \in 1 .. n
    BY <1>2
  <2>. QED
    BY <1>2, <2>1, <2>2
<1>. QED
  BY <1>1, <1>2, <1>3

LEMMA Concatenated ==
    ASSUME NEW S, NEW s \in Seq(S), NEW t \in Seq(S)
    PROVE  /\ s \o t \in Seq(S) /\ DOMAIN (s \o t) = 1 .. (Len(s) + Len(t))
           /\ \A i \in 1 .. Len(s) : (s \o t)[i] = s[i]
           /\ \A i \in 1 .. Len(t) : (s \o t)[Len(s) + i] = t[i]
<1>1. Len(s) \in Nat /\ Len(t) \in Nat
  BY LenProperties
<1>2. /\ s \o t \in Seq(S) /\ Len(s \o t) = Len(s) + Len(t)
      /\ \A i \in 1 .. Len(s) + Len(t) :
            (s \o t)[i] = IF i <= Len(s) THEN s[i] ELSE t[i - Len(s)]
  BY ConcatProperties
<1>3. DOMAIN (s \o t) = 1 .. (Len(s) + Len(t))
  BY <1>2, LenProperties
<1>4. \A i \in 1 .. Len(s) : i \in 1 .. Len(s) + Len(t) /\ i <= Len(s)
  BY <1>1
<1>5. \A i \in 1 .. Len(t) : /\ Len(s) + i \in 1 .. Len(s) + Len(t)
                             /\ ~(Len(s) + i <= Len(s)) /\ (Len(s) + i) - Len(s) = i
  BY <1>1
<1>. QED
  BY <1>2, <1>3, <1>4, <1>5

(* t is s followed by the values of f on the first n numbers. *)
Extends(t, s, n, f) ==
    /\ DOMAIN t = 1 .. (Len(s) + n) /\ DOMAIN s = 1 .. Len(s) /\ Len(s) \in Nat
    /\ \A i \in 1 .. Len(s) : t[i] = s[i]
    /\ \A i \in 1 .. n : t[Len(s) + i] = f[i]

LEMMA Extended ==
    ASSUME NEW S, NEW s \in Seq(S), NEW n \in Nat, NEW f \in [1 .. n -> S]
    PROVE  s \o f \in Seq(S) /\ Extends(s \o f, s, n, f)
<1>1. f \in Seq(S) /\ Len(f) = n
  BY FunctionIsSequence
<1>2. DOMAIN s = 1 .. Len(s) /\ Len(s) \in Nat
  BY LenProperties
<1>3. \A t \in Seq(S) :
         /\ s \o t \in Seq(S) /\ DOMAIN (s \o t) = 1 .. (Len(s) + Len(t))
         /\ \A i \in 1 .. Len(s) : (s \o t)[i] = s[i]
         /\ \A i \in 1 .. Len(t) : (s \o t)[Len(s) + i] = t[i]
  BY Concatenated
<1>. QED
  BY <1>1, <1>2, <1>3, Zenon DEF Extends

(* Positions that follow each other are kept as a subsequence. *)
LEMMA KeepSegment ==
    ASSUME NEW T, NEW seq \in Seq(T), NEW S, NEW a \in Nat, NEW b \in Nat,
           1 <= a, a <= b + 1, b <= Len(seq),
           \A i \in DOMAIN seq : i \in S <=> a <= i /\ i <= b
    PROVE  Keep(seq, S) = SubSeq(seq, a, b)
<1>. DEFINE N == Len(seq)
            Next(s, n) == IF n \in S THEN Append(s, seq[n]) ELSE s
            Step(h) == [n \in 0 .. N |-> IF n = 0 THEN <<>> ELSE Next(h[n - 1], n)]
            g == [n \in 1 .. N |->
                     [s \in Seq(T) |-> Next(s, n)]]
            kept == CHOOSE f : f = Step(f)
<1>1. N \in Nat /\ seq \in [1 .. N -> T]
  OBVIOUS
<1>2. <<>> \in Seq(T)
  OBVIOUS
<1>3. g \in [1 .. N -> [Seq(T) -> Seq(T)]]
  <2>1. ASSUME NEW n \in 1 .. N, NEW s \in Seq(T)
        PROVE  Next(s, n) \in Seq(T)
    BY <1>1
  <2>. QED
    BY <2>1
<1>4. PICK f : Solves(f, Seq(T), <<>>, N, g)
  <2>1. Recursion(Seq(T), <<>>, N, g)
    BY <1>1, <1>2, <1>3 DEF Recursion
  <2>. HIDE DEF N
  <2>. QED
    BY <2>1, RecursionSolved, Zenon
<1>. HIDE DEF N
<1>5. f = Step(f)
  <2>1. \A n \in 1 .. N : n - 1 \in 0 .. N /\ f[n - 1] \in Seq(T)
    BY <1>1, <1>4 DEF Solves
  <2>2. ASSUME NEW n \in 0 .. N PROVE f[n] = Step(f)[n]
    <3>1. CASE n = 0
      BY <1>4, <3>1 DEF Solves
    <3>2. CASE n # 0
      <4>1. n \in 1 .. N
        BY <1>1, <3>2
      <4>2. f[n] = g[n][f[n - 1]] /\ f[n - 1] \in Seq(T)
        BY <1>4, <2>1, <4>1 DEF Solves
      <4>. QED
        BY <3>2, <4>1, <4>2 DEF g
    <3>. QED
      BY <3>1, <3>2
  <2>3. f = [n \in 0 .. N |-> f[n]]
    BY <1>4 DEF Solves
  <2>. QED
    BY <2>2, <2>3
<1>6. kept = Step(kept)
  <2>. HIDE DEF Step
  <2>. QED
    BY <1>5, Zenon
<1>7. Keep(seq, S) = kept[N]
  BY Zenon DEF Keep, N
<1>. HIDE DEF kept
<1>67. kept[0] = <<>> /\ \A n \in 1 .. N : kept[n] = Next(kept[n - 1], n)
  <2>. HIDE DEF Next
  <2>1. 0 \in 0 .. N /\ \A n \in 1 .. N : n \in 0 .. N /\ n # 0
    BY <1>1
  <2>2. \A n \in 0 .. N : kept[n] = IF n = 0 THEN <<>> ELSE Next(kept[n - 1], n)
    BY <1>6
  <2>. QED
    BY <2>1, <2>2
<1>. DEFINE End(n) == IF n < a THEN a - 1 ELSE IF n <= b THEN n ELSE b
            C == {n \in 0 .. N : kept[n] = SubSeq(seq, a, End(n))}
<1>8. 0 \in C
  <2>1. kept[0] = <<>> /\ End(0) = a - 1
    BY <1>67
  <2>2. SubSeq(seq, a, a - 1) = <<>>
    BY SubSeqEmpty
  <2>3. 0 \in 0 .. N
    BY <1>1
  <2>. QED
    BY <2>1, <2>2, <2>3
<1>9. ASSUME NEW n \in 1 .. N, n - 1 \in C PROVE n \in C
  <2>1. kept[n] = Next(kept[n - 1], n)
    BY <1>67
  <2>2. kept[n - 1] = SubSeq(seq, a, End(n - 1))
    BY <1>9
  <2>3. n \in DOMAIN seq
    BY <1>1
  <2>4. CASE n \in S
    <3>1. End(n - 1) = n - 1 /\ End(n) = n
      BY <1>1, <2>3, <2>4
    <3>2. Append(SubSeq(seq, a, n - 1), seq[n]) = SubSeq(seq, a, n)
      <4>1. SubSeq(seq, a, n) = SubSeq(seq, a, n - 1) \o <<seq[n]>>
        BY <2>3, <2>4, SubSeqRecursiveSecond
      <4>2. SubSeq(seq, a, n - 1) \in Seq(T)
        BY <1>1, <2>3, SubSeqProperties
      <4>. QED
        BY <4>1, <4>2, <1>1, AppendIsConcat
    <3>. QED
      <4>1. kept[n] = Append(SubSeq(seq, a, n - 1), seq[n])
        BY <2>1, <2>2, <2>4, <3>1
      <4>2. n \in 0 .. N
        BY <1>1
      <4>. QED
        BY <4>1, <4>2, <3>1, <3>2
  <2>5. CASE n \notin S
    <3>1. End(n - 1) = End(n)
      BY <1>1, <2>3, <2>5
    <3>. QED
      BY <2>1, <2>2, <2>5, <3>1
  <2>. QED
    BY <2>4, <2>5
<1>10. N \in C
  <2>. HIDE DEF C
  <2>1. 0 .. N \subseteq C
    BY <1>1, <1>8, <1>9, InductionUpTo
  <2>. QED
    BY <1>1, <2>1
<1>. QED
  BY <1>1, <1>7, <1>10 DEF N

StartsOf(moves) == {p[1] : p \in moves}
Advances(moves, v, u) ==
    /\ u \in Nat /\ v <= u
    /\ \A x \in v .. (u - 1) : x \in StartsOf(moves)
    /\ u \notin StartsOf(moves)

(* A version is led over moves by one to the first version that none starts from. *)
LEMMA AdvanceBySteps ==
    ASSUME NEW moves, NEW w \in Nat,
           \A p \in moves : p \in Nat \X Nat /\ p[2] = p[1] + 1 /\ p[2] <= w,
           NEW v \in Nat
    PROVE  Advances(moves, v, AdvanceBy(moves, v))
<1>. DEFINE Starts == StartsOf(moves)
            Step(h) == [u \in Nat |->
                IF \E p \in moves : p[1] = u
                THEN h[(CHOOSE p \in moves : p[1] = u)[2]] ELSE u]
            next == CHOOSE h : h = Step(h)
            Above(u) == {x \in Nat : u <= x /\ x \notin Starts}
            First(u, x) == x \in Above(u) /\ \A y \in Above(u) : x <= y
            f == [u \in Nat |-> CHOOSE x : First(u, x)]
<1>1. \A u \in Starts : u \in Nat /\ u < w
  BY DEF StartsOf
<1>2. \A u \in Nat : (\E p \in moves : p[1] = u) <=> u \in Starts
  BY DEF StartsOf
<1>3. \A u \in Starts : (CHOOSE p \in moves : p[1] = u)[2] = u + 1
  <2>. SUFFICES ASSUME NEW u \in Starts
                PROVE  (CHOOSE p \in moves : p[1] = u)[2] = u + 1
    OBVIOUS
  <2>1. \E p \in moves : p[1] = u
    BY DEF StartsOf
  <2>2. /\ (CHOOSE p \in moves : p[1] = u) \in moves
        /\ (CHOOSE p \in moves : p[1] = u)[1] = u
    BY <2>1
  <2>. QED
    BY <2>2
<1>. HIDE DEF Starts
<1>4. \A h : Step(h) = [u \in Nat |-> IF u \in Starts THEN h[u + 1] ELSE u]
  BY <1>2, <1>3
<1>. HIDE DEF Step
<1>5. \A u \in Nat : First(u, f[u])
  <2>. SUFFICES ASSUME NEW u \in Nat PROVE First(u, f[u])
    OBVIOUS
  <2>1. u + w \in Above(u)
    BY <1>1
  <2>2. Above(u) \in SUBSET Nat
    OBVIOUS
  <2>. HIDE DEF Above
  <2>3. \E x : First(u, x)
    BY <2>1, <2>2, LeastMember
  <2>. HIDE DEF First
  <2>4. f[u] = CHOOSE x : First(u, x)
    OBVIOUS
  <2>. QED
    BY <2>3, <2>4, Zenon
<1>. HIDE DEF f
<1>6. \A u \in Nat : u \notin Starts => f[u] = u
  BY <1>5
<1>7. \A u \in Nat : u \in Starts => f[u] = f[u + 1]
  <2>. SUFFICES ASSUME NEW u \in Nat, u \in Starts PROVE f[u] = f[u + 1]
    OBVIOUS
  <2>1. Above(u) = Above(u + 1)
    OBVIOUS
  <2>2. First(u, f[u]) /\ First(u + 1, f[u + 1])
    BY <1>5
  <2>. QED
    BY <2>1, <2>2
<1>8. f = Step(f)
  <2>1. f = [u \in Nat |-> f[u]]
    BY DEF f
  <2>2. \A u \in Nat : f[u] = IF u \in Starts THEN f[u + 1] ELSE u
    BY <1>6, <1>7
  <2>. QED
    BY <1>4, <2>1, <2>2
<1>9. next = Step(next)
  BY <1>8, Zenon
<1>10. AdvanceBy(moves, v) = next[v]
  BY Zenon DEF AdvanceBy, Step
<1>. HIDE DEF next
<1>11. \A u \in Nat : next[u] = IF u \in Starts THEN next[u + 1] ELSE u
  BY <1>4, <1>9
<1>. DEFINE C == {k \in Nat : \A u \in Nat : f[u] = u + k => next[u] = f[u]}
<1>12. 0 \in C
  <2>. SUFFICES ASSUME NEW u \in Nat, f[u] = u PROVE next[u] = f[u]
    OBVIOUS
  <2>1. u \notin Starts
    BY <1>5
  <2>. QED
    BY <1>11, <2>1
<1>13. ASSUME NEW k \in Nat, k \in C PROVE k + 1 \in C
  <2>. SUFFICES ASSUME NEW u \in Nat, f[u] = u + (k + 1) PROVE next[u] = f[u]
    OBVIOUS
  <2>1. u \in Starts
    BY <1>6
  <2>2. f[u + 1] = (u + 1) + k
    BY <1>7, <2>1
  <2>3. next[u + 1] = f[u + 1]
    BY <1>13, <2>2
  <2>. QED
    BY <1>7, <1>11, <2>1, <2>3
<1>14. next[v] = f[v]
  <2>1. Nat \subseteq C
    <3>. HIDE DEF C
    <3>. QED
      BY <1>12, <1>13, SetInduction
  <2>2. f[v] - v \in Nat /\ f[v] = v + (f[v] - v)
    BY <1>5
  <2>. QED
    BY <2>1, <2>2
<1>15. First(v, f[v])
  BY <1>5
<1>. QED
  BY <1>10, <1>14, <1>15 DEF Advances, Starts

WireOp == [key : Keys, kind : {"add", "quantity", "delete"}, line : Lines,
           quantity : 0 .. MaxQuantity, saw : Nat, bound : BOOLEAN]
Message == [attempt : Nat, version : Nat, ops : Seq(WireOp)]
Amounts == [Lines -> 0 .. MaxQuantity]
Doing == [fault : BOOLEAN, version : Nat, lines : Amounts, stored : Seq(Nat)]

(* Each operation leaves a state of the cart and never a smaller version; lines
   change with the version only. *)
LEMMA ApplyOneMeans ==
    ASSUME NEW st \in Doing, NEW op \in WireOp
    PROVE  LET after == ApplyOne(st, op) IN
           /\ after \in Doing
           /\ st.version <= after.version
           /\ after.version = st.version => after.lines = st.lines
           /\ ~after.fault => /\ ~st.fault
                              /\ after.stored = Append(st.stored, after.version)
<1>. USE CartAssumption
<1>. DEFINE q == NewQuantity(op)
            t == Target(op)
            now == st.lines[t]
            v == IF now = q THEN st.version ELSE st.version + 1
            ls == [st.lines EXCEPT ![t] = q]
            st2 == [fault |-> FALSE, version |-> v, stored |-> Append(st.stored, v),
                    lines |-> ls]
<1>1. t \in Lines /\ q \in 0 .. MaxQuantity
  BY DEF Target, NewQuantity, WireOp, Keys, Lines
<1>2. /\ st.fault \in BOOLEAN /\ st.version \in Nat /\ st.lines \in Amounts
      /\ st.stored \in Seq(Nat)
  BY DEF Doing
<1>4. Effect(st, op) = st2
  BY DEF Effect
<1>5. v \in Nat /\ st.version <= v /\ (v = st.version => ls = st.lines)
  BY <1>1, <1>2 DEF Amounts
<1>6. ls \in Amounts
  BY <1>1, <1>2 DEF Amounts
<1>7. st2 \in Doing
  BY <1>2, <1>5, <1>6 DEF Doing
<1>8. LET st1 == [st EXCEPT !.fault = TRUE] IN
      /\ st1 \in Doing /\ st1.fault
      /\ st1.version = st.version /\ st1.lines = st.lines
  BY DEF Doing
<1>9. CASE st.fault \/ (op.kind # "add" /\ st.lines[op.line] = 0)
  <2>1. ApplyOne(st, op) = [st EXCEPT !.fault = TRUE]
    BY <1>9 DEF ApplyOne
  <2>. QED
    BY <1>2, <1>8, <2>1
<1>10. CASE ~(st.fault \/ (op.kind # "add" /\ st.lines[op.line] = 0))
  <2>1. ApplyOne(st, op) = st2
    BY <1>4, <1>10 DEF ApplyOne
  <2>. QED
    BY <1>2, <1>5, <1>7, <1>10, <2>1
<1>. QED
  BY <1>9, <1>10

Executed(seq, done) ==
    /\ done \in Doing
    /\ version <= done.version
    /\ done.version = version => done.lines = lines
    /\ ~done.fault =>
         /\ Len(done.stored) = Len(seq)
         /\ \A i \in 1 .. Len(seq) : /\ version <= done.stored[i]
                                     /\ done.stored[i] <= done.version

LEMMA ExecuteMeans ==
    ASSUME version \in Nat, lines \in Amounts, NEW seq \in Seq(WireOp)
    PROVE  Executed(seq, Execute(seq))
<1>. DEFINE start == [fault |-> FALSE, version |-> version, lines |-> lines,
                      stored |-> <<>>]
            N == Len(seq)
            Step(h) == [n \in 0 .. N |-> IF n = 0 THEN start
                                         ELSE ApplyOne(h[n - 1], seq[n])]
            done == CHOOSE h : h = Step(h)
            g == [n \in 1 .. N |-> [st \in Doing |-> ApplyOne(st, seq[n])]]
            Sound(n, st) ==
               /\ st \in Doing
               /\ version <= st.version
               /\ st.version = version => st.lines = lines
               /\ ~st.fault =>
                    /\ Len(st.stored) = n
                    /\ \A i \in 1 .. n : version <= st.stored[i] /\ st.stored[i] <= st.version
<1>1. N \in Nat /\ \A n \in 1 .. N : seq[n] \in WireOp
  OBVIOUS
<1>2. start \in Doing
  BY DEF Doing
<1>3. g \in [1 .. N -> [Doing -> Doing]]
  <2>1. ASSUME NEW n \in 1 .. N, NEW st \in Doing PROVE ApplyOne(st, seq[n]) \in Doing
    BY <1>1, ApplyOneMeans
  <2>. QED
    BY <2>1
<1>. HIDE DEF g, N
<1>4. PICK f : Solves(f, Doing, start, N, g)
  <2>1. Recursion(Doing, start, N, g)
    BY <1>1, <1>2, <1>3 DEF Recursion
  <2>. HIDE DEF start
  <2>. QED
    BY <2>1, RecursionSolved, Zenon
<1>. HIDE DEF start
<1>5. f = Step(f)
  <2>1. ASSUME NEW n \in 0 .. N PROVE f[n] = Step(f)[n]
    <3>1. CASE n = 0
      BY <1>4, <3>1 DEF Solves
    <3>2. CASE n # 0
      <4>1. n \in 1 .. N /\ n - 1 \in 0 .. N
        BY <1>1, <3>2
      <4>2. f[n] = g[n][f[n - 1]] /\ f[n - 1] \in Doing
        BY <1>4, <4>1 DEF Solves
      <4>. QED
        BY <3>2, <4>1, <4>2 DEF g
    <3>. QED
      BY <3>1, <3>2
  <2>2. f = [n \in 0 .. N |-> f[n]]
    BY <1>4 DEF Solves
  <2>. QED
    BY <2>1, <2>2
<1>6. done = Step(done)
  <2>. HIDE DEF Step
  <2>. QED
    BY <1>5, Zenon
<1>7. Execute(seq) = done[N]
  BY Zenon DEF Execute, N, start
<1>. HIDE DEF done
<1>8. done[0] = start /\ \A n \in 1 .. N : done[n] = ApplyOne(done[n - 1], seq[n])
  <2>1. 0 \in 0 .. N /\ \A n \in 1 .. N : n \in 0 .. N /\ n # 0
    BY <1>1
  <2>2. \A n \in 0 .. N :
            done[n] = IF n = 0 THEN start ELSE ApplyOne(done[n - 1], seq[n])
    BY <1>6
  <2>. QED
    BY <2>1, <2>2
<1>. DEFINE C == {n \in 0 .. N : Sound(n, done[n])}
<1>9. 0 \in C
  <2>1. 0 \in 0 .. N
    BY <1>1
  <2>2. Sound(0, start)
    BY <1>2 DEF start
  <2>. QED
    BY <1>8, <2>1, <2>2
<1>10. ASSUME NEW n \in 1 .. N, n - 1 \in C PROVE n \in C
  <2>. DEFINE st == done[n - 1]
              after == done[n]
  <2>1. Sound(n - 1, st)
    BY <1>10
  <2>2. after = ApplyOne(st, seq[n]) /\ seq[n] \in WireOp /\ n \in 0 .. N
    BY <1>1, <1>8
  <2>. HIDE DEF st, after
  <2>3. /\ after \in Doing
        /\ st.version <= after.version
        /\ after.version = st.version => after.lines = st.lines
        /\ ~after.fault => ~st.fault /\ after.stored = Append(st.stored, after.version)
    BY <2>1, <2>2, ApplyOneMeans
  <2>4. /\ st.version \in Nat /\ after.version \in Nat /\ st.stored \in Seq(Nat)
    BY <2>1, <2>3 DEF Doing
  <2>5. ASSUME ~after.fault
        PROVE  /\ Len(after.stored) = n
               /\ \A i \in 1 .. n :
                     version <= after.stored[i] /\ after.stored[i] <= after.version
    <3>1. Len(st.stored) = n - 1
      BY <2>1, <2>3, <2>5
    <3>2. \A i \in 1 .. n - 1 : version <= st.stored[i] /\ st.stored[i] <= st.version
      BY <2>1, <2>3, <2>5
    <3>3. /\ Len(after.stored) = n
          /\ \A i \in 1 .. n - 1 : after.stored[i] = st.stored[i]
          /\ after.stored[n] = after.version
      <4>1. after.stored = Append(st.stored, after.version)
        BY <2>3, <2>5
      <4>2. (n - 1) + 1 = n
        OBVIOUS
      <4>. QED
        BY <2>4, <3>1, <4>1, <4>2, AppendProperties
    <3>4. \A i \in 1 .. n - 1 : st.stored[i] \in Nat
      BY <2>4, <3>1
    <3>5. version <= after.version
      BY <2>1, <2>3, <2>4
    <3>6. ASSUME NEW i \in 1 .. n
          PROVE  version <= after.stored[i] /\ after.stored[i] <= after.version
      <4>1. CASE i = n
        BY <2>4, <3>3, <3>5, <4>1
      <4>2. CASE i # n
        <5>1. i \in 1 .. n - 1
          BY <4>2
        <5>. QED
          BY <2>3, <2>4, <3>2, <3>3, <3>4, <5>1
      <4>. QED
        BY <4>1, <4>2
    <3>. QED
      BY <3>3, <3>6
  <2>6. version <= after.version /\ (after.version = version => after.lines = lines)
    BY <2>1, <2>3, <2>4
  <2>7. Sound(n, after)
    BY <2>3, <2>5, <2>6
  <2>. QED
    BY <2>2, <2>7 DEF after
<1>11. N \in C
  <2>. HIDE DEF C
  <2>1. 0 .. N \subseteq C
    BY <1>1, <1>9, <1>10, InductionUpTo
  <2>. QED
    BY <1>1, <2>1
<1>. QED
  BY <1>7, <1>11 DEF Executed, N

-------------------------------------------------------------------------------
ReplyShape == [status : {"ok", "version", "refused"}, accepted : Nat, cart : Shot]
ReadShape == [cart : Shot, receipts : SUBSET Keys]
ReceiptShape == [version : Nat, content : [kind : {"add", "quantity", "delete"},
                                           line : Lines, quantity : 0 .. MaxQuantity],
                 saw : Nat, over : Nat]
HeaderShape == [state : {"none", "sent", "orphan", "served"}, previous : Nat,
                current : Nat]

TypeInvariant ==
    /\ CartTypeOK
    /\ receipt \in [Keys -> ReceiptShape \cup {NoReceipt}]
    /\ wire \subseteq Message
    /\ reply \in ReplyShape \cup {NoReply}
    /\ reads \in [{"pump", "page"} -> ReadShape \cup {NoRead}]
    /\ header \in HeaderShape
    /\ headers \in Nat

(* The queue is in the order of creation, with what was sent in front; a batch
   under way is its beginning. *)
Basis(op) == IF Unsent(op) THEN op.base ELSE op.version
QueueInvariant ==
    /\ \A i, j \in DOMAIN ops : i < j =>
         /\ ops[i].key < ops[j].key
         /\ ops[i].saw <= ops[j].saw
         /\ Unsent(ops[i]) => ops[i].base <= ops[j].base
    /\ \A i \in DOMAIN ops :
         /\ ops[i].key <= created /\ gone[ops[i].key] = "no"
         /\ ops[i].saw <= cart.foreign
         /\ Unsent(ops[i]) => ops[i].base <= cart.version
         /\ ~Unsent(ops[i]) => i <= Len(flight) \/ i = 1
    /\ flight # <<>> =>
         /\ 1 < Len(flight) /\ Len(flight) <= Len(ops)
         /\ \A i \in DOMAIN flight :
              /\ flight[i] = ops[i]
              /\ ~Unsent(flight[i]) /\ flight[i].version = flight[1].version

(* The versions that a header form of this tab, as far as it knows, left behind. *)
Starts ==
    StartsOf(own) \cup (IF header.state = "served" /\ header.current > header.previous
                        THEN {header.previous} ELSE {})
MovesInvariant ==
    /\ \A p \in own : p \in Nat \X Nat /\ p[2] = p[1] + 1 /\ p[2] <= version
    /\ header.state = "served" =>
         /\ header.current \in {header.previous, header.previous + 1}
         /\ header.current <= version

(* Between version v and version w only such forms moved the cart. *)
QuietFrom(v, w, starts) == \A x \in v .. (w - 1) : x \in starts

(* Who knows version v and saw f changes of others has seen all of them, if the
   cart, now at version w after g of them, was quiet from v. *)
Tells(v, f, w, g, starts) ==
    /\ v \in Nat /\ v <= w /\ f \in Nat /\ f <= g
    /\ QuietFrom(v, w, starts) => f = g
Shows(s, w, g, l, starts) ==
    /\ Tells(s.version, s.foreign, w, g, starts)
    /\ QuietFrom(s.version, w, starts) => s.lines = l

Read(r) == reads[r] # NoRead
OpsTell ==
    \A i \in DOMAIN ops : Tells(Basis(ops[i]), ops[i].saw, version, foreign, Starts)
WireTells ==
    \A m \in wire : \A i \in DOMAIN m.ops :
        Tells(m.version, m.ops[i].saw, version, foreign, Starts)
ReceiptsTell ==
    \A k \in Confirmed :
        /\ Tells(receipt[k].version, receipt[k].over, version, foreign, Starts)
        /\ receipt[k].over = receipt[k].saw
CartShows == Shows(cart, version, foreign, lines, Starts)
ReadsShow ==
    \A r \in {"pump", "page"} :
        Read(r) => Shows(reads[r].cart, version, foreign, lines, Starts)
ReplyShows == reply # NoReply => Shows(reply.cart, version, foreign, lines, Starts)
SeenInvariant ==
    /\ OpsTell /\ WireTells /\ ReceiptsTell
    /\ CartShows /\ ReadsShow /\ ReplyShows

(* A later version has seen no fewer changes of others. *)
Follows(s, t) == s.version <= t.version => s.foreign <= t.foreign
OrderInvariant ==
    /\ \A r \in {"pump", "page"} : Read(r) =>
         /\ Follows(cart, reads[r].cart)
         /\ \A q \in {"pump", "page"} :
              Read(q) => Follows(reads[r].cart, reads[q].cart)
         /\ reply # NoReply => /\ Follows(reads[r].cart, reply.cart)
                               /\ Follows(reply.cart, reads[r].cart)
    /\ reply # NoReply => Follows(cart, reply.cart)

LogInvariant ==
    /\ \A k \in Confirmed : k <= created /\ gone[k] # "conflict"
    /\ \A k \in 1 .. created : k \in KeysOf(ops) \cup Confirmed \/ gone[k] # "no"
    /\ \A k \in Keys : gone[k] # "no" => k <= created
    /\ \A i \in DOMAIN ops : ops[i].key \in Confirmed =>
         /\ ~Unsent(ops[i])
         /\ receipt[ops[i].key].content = Content(ops[i])
         /\ receipt[ops[i].key].saw = ops[i].saw
    /\ \A i \in DOMAIN ops : \A k \in Confirmed :
         ops[i].key < k => ops[i].key \in Confirmed
    /\ \A i \in DOMAIN applied : applied[i] \in Confirmed
    /\ OnceInOrder

(* A request for an older cart is dead; another one is what is queued, unless the
   queue dropped it. *)
Dead(m) == m.version < version
WireInvariant ==
    \A m \in wire :
      /\ 1 <= m.attempt /\ m.attempt <= sends
      /\ m.ops # <<>>
      /\ \A i, j \in DOMAIN m.ops : i < j => m.ops[i].key < m.ops[j].key
      /\ \A i \in DOMAIN m.ops : m.ops[i].key <= created
      /\ \A i \in DOMAIN m.ops, j \in DOMAIN ops :
           ops[j].key < m.ops[i].key => ops[j].key \in KeysOf(m.ops)
      /\ \A i \in DOMAIN m.ops, j \in DOMAIN ops :
           ops[j].key = m.ops[i].key /\ ~Dead(m) =>
             /\ ops[j].version = m.version
             /\ Content(ops[j]) = Content(m.ops[i])
             /\ ops[j].saw = m.ops[i].saw
      /\ \A i \in DOMAIN m.ops : gone[m.ops[i].key] = "conflict" => Dead(m)
      /\ pc = "sending" /\ m.attempt = sends =>
           /\ Len(m.ops) = Len(Sending) /\ m.version = Sending[1].version
           /\ \A i \in DOMAIN m.ops : m.ops[i].key = Sending[i].key

(* No queued operation has taken effect, and no request with one still can. *)
Stale ==
    \A i \in DOMAIN ops : ops[i].key \notin Confirmed /\ ops[i].version < version
ReplyInvariant ==
    /\ pc = "sending" => ops # <<>> /\ ~Unsent(ops[1])
    /\ Read("pump") => Reading
    /\ reply # NoReply => pc = "sending"
    /\ reply # NoReply /\ reply.status = "ok" =>
         /\ \A i \in DOMAIN Sending : Sending[i].key \in Confirmed
         /\ reply.accepted = receipt[Last(Sending).key].version
    /\ reply # NoReply /\ reply.status = "version" => Stale
    /\ conflict => Stale /\ rejected
    /\ rejected => error

Relations ==
    /\ QueueInvariant /\ MovesInvariant /\ SeenInvariant
    /\ OrderInvariant /\ LogInvariant /\ WireInvariant /\ ReplyInvariant
CartInvariant == TypeInvariant /\ Relations

-------------------------------------------------------------------------------
(* The cart moves on: quietly, by a form of the tab, or with a change. *)
MovesOn(w, g, l, starts, w2, g2, l2, starts2) ==
    \/ w2 = w /\ g2 = g /\ l2 = l /\ starts2 \subseteq starts
    \/ w2 = w + 1 /\ g2 = g /\ l2 = l /\ starts2 \subseteq starts \cup {w}
    \/ w2 > w /\ g2 >= g /\ w \notin starts2

LEMMA StillTells ==
    ASSUME NEW w \in Nat, NEW g \in Nat, NEW l, NEW starts,
           NEW w2 \in Nat, NEW g2 \in Nat, NEW l2, NEW starts2,
           MovesOn(w, g, l, starts, w2, g2, l2, starts2)
    PROVE  /\ \A v, f : Tells(v, f, w, g, starts) => Tells(v, f, w2, g2, starts2)
           /\ \A s : Shows(s, w, g, l, starts) => Shows(s, w2, g2, l2, starts2)
<1>1. ASSUME NEW v \in Nat, v <= w, QuietFrom(v, w2, starts2)
      PROVE  QuietFrom(v, w, starts) /\ g2 = g /\ l2 = l
  <2>1. CASE w2 = w /\ g2 = g /\ l2 = l /\ starts2 \subseteq starts
    BY <1>1, <2>1 DEF QuietFrom
  <2>2. CASE w2 = w + 1 /\ g2 = g /\ l2 = l /\ starts2 \subseteq starts \cup {w}
    BY <1>1, <2>2 DEF QuietFrom
  <2>3. CASE w2 > w /\ g2 >= g /\ w \notin starts2
    BY <1>1, <2>3 DEF QuietFrom
  <2>. QED
    BY <2>1, <2>2, <2>3 DEF MovesOn
<1>2. w <= w2 /\ g <= g2
  BY DEF MovesOn
<1>3. ASSUME NEW v, NEW f, Tells(v, f, w, g, starts)
      PROVE  Tells(v, f, w2, g2, starts2)
  BY <1>1, <1>2, <1>3 DEF Tells
<1>4. ASSUME NEW s, Shows(s, w, g, l, starts)
      PROVE  Shows(s, w2, g2, l2, starts2)
  <2>1. s.version \in Nat /\ s.version <= w
    BY <1>4 DEF Shows, Tells
  <2>. QED
    BY <1>1, <1>3, <1>4, <2>1 DEF Shows
<1>. QED
  BY <1>3, <1>4

(* The cart as it is now. *)
LEMMA NowShows ==
    ASSUME NEW s, s.version \in Nat, s.foreign \in Nat, NEW starts
    PROVE  /\ Tells(s.version, s.foreign, s.version, s.foreign, starts)
           /\ Shows(s, s.version, s.foreign, s.lines, starts)
BY DEF Tells, Shows

LEMMA ShowsNow ==
    ASSUME NEW s, NEW w \in Nat, NEW g \in Nat, NEW l, NEW starts,
           Shows(s, w, g, l, starts), w <= s.version
    PROVE  s.version = w /\ s.foreign = g /\ s.lines = l
BY DEF Shows, Tells, QuietFrom

(* A version advanced by moves whose starts are known tells the same. *)
LEMMA AdvancedTells ==
    ASSUME NEW w \in Nat, NEW g, NEW starts, NEW v, NEW f,
           Tells(v, f, w, g, starts), NEW u \in Nat, v <= u,
           \A x \in v .. (u - 1) : x \in starts,
           \A x \in starts : x < w
    PROVE  Tells(u, f, w, g, starts)
<1>1. u <= w
  <2>1. CASE u = v
    BY <2>1 DEF Tells
  <2>2. CASE u # v
    <3>1. u - 1 \in v .. (u - 1)
      BY <2>2 DEF Tells
    <3>2. u - 1 < w
      BY <3>1
    <3>. QED
      BY <3>2
  <2>. QED
    BY <2>1, <2>2
<1>2. QuietFrom(u, w, starts) => QuietFrom(v, w, starts)
  BY <1>1 DEF QuietFrom, Tells
<1>. QED
  BY <1>1, <1>2 DEF Tells

LEMMA TypeFacts ==
    ASSUME TypeInvariant
    PROVE  /\ version \in Nat /\ foreign \in Nat /\ lines \in Amounts
           /\ ops \in Seq(Op) /\ flight \in Seq(Op)
           /\ cart \in Shot /\ created \in Nat /\ sends \in Nat
           /\ wire \subseteq Message
           /\ \A k \in Confirmed : receipt[k] \in ReceiptShape
           /\ \A r \in {"pump", "page"} : Read(r) => reads[r] \in ReadShape
           /\ reply # NoReply => reply \in ReplyShape
<1>1. \A k \in Confirmed : receipt[k] \in ReceiptShape
  BY DEF TypeInvariant, Confirmed
<1>2. \A r \in {"pump", "page"} : Read(r) => reads[r] \in ReadShape
  BY DEF TypeInvariant, Read
<1>. QED
  BY <1>1, <1>2 DEF TypeInvariant, CartTypeOK, Amounts, CartAssumption

LEMMA QueueFrame ==
    ASSUME QueueInvariant, ops' = ops, flight' = flight, created' = created,
           gone' = gone, cart' = cart
    PROVE  QueueInvariant'
BY DEF QueueInvariant, Unsent

LEMMA MovesFrame ==
    ASSUME TypeInvariant, MovesInvariant, own' = own, header' = header,
           version' \in Nat, version <= version'
    PROVE  MovesInvariant' /\ Starts' = Starts
<1>1. version \in Nat /\ header.current \in Nat
  BY TypeFacts DEF TypeInvariant, HeaderShape
<1>. QED
  BY <1>1 DEF MovesInvariant, Starts, StartsOf

LEMMA OrderFrame ==
    ASSUME OrderInvariant, cart' = cart, reads' = reads, reply' = reply
    PROVE  OrderInvariant'
BY DEF OrderInvariant, Read

LEMMA LogFrame ==
    ASSUME LogInvariant, receipt' = receipt, created' = created, gone' = gone,
           ops' = ops, applied' = applied
    PROVE  LogInvariant'
BY DEF LogInvariant, Confirmed, KeysOf, OnceInOrder, Unsent, Content

(* What is left alone still tells the truth when the cart moves on. *)
LEMMA SeenFrame ==
    ASSUME version \in Nat, foreign \in Nat, version' \in Nat, foreign' \in Nat,
           SeenInvariant,
           MovesOn(version, foreign, lines, Starts, version', foreign', lines', Starts')
    PROVE  /\ ops' = ops => OpsTell'
           /\ wire' \subseteq wire => WireTells'
           /\ receipt' = receipt => ReceiptsTell'
           /\ cart' = cart => CartShows'
           /\ reads' = reads => ReadsShow'
           /\ reply' = reply => ReplyShows'
<1>. DEFINE Still(v, f) == Tells(v, f, version, foreign, Starts)
                              => Tells(v, f, version', foreign', Starts')
            StillShows(s) == Shows(s, version, foreign, lines, Starts)
                                => Shows(s, version', foreign', lines', Starts')
<1>1. (\A v, f : Still(v, f)) /\ (\A s : StillShows(s))
  BY StillTells
<1>2. ops' = ops => OpsTell'
  <2>. SUFFICES ASSUME ops' = ops, NEW i \in DOMAIN ops
                PROVE  Tells(Basis(ops[i]), ops[i].saw, version', foreign', Starts')
    BY DEF OpsTell, Basis, Unsent
  <2>1. Tells(Basis(ops[i]), ops[i].saw, version, foreign, Starts)
    BY DEF SeenInvariant, OpsTell
  <2>. QED
    BY <1>1, <2>1
<1>3. wire' \subseteq wire => WireTells'
  <2>. SUFFICES ASSUME wire' \subseteq wire, NEW m \in wire', NEW i \in DOMAIN m.ops
                PROVE  Tells(m.version, m.ops[i].saw, version', foreign', Starts')
    BY DEF WireTells
  <2>1. Tells(m.version, m.ops[i].saw, version, foreign, Starts)
    BY DEF SeenInvariant, WireTells
  <2>. QED
    BY <1>1, <2>1
<1>4. receipt' = receipt => ReceiptsTell'
  <2>. SUFFICES ASSUME receipt' = receipt, NEW k \in Confirmed
                PROVE  /\ Tells(receipt[k].version, receipt[k].over, version',
                                foreign', Starts')
                       /\ receipt[k].over = receipt[k].saw
    BY DEF ReceiptsTell, Confirmed
  <2>1. /\ Tells(receipt[k].version, receipt[k].over, version, foreign, Starts)
        /\ receipt[k].over = receipt[k].saw
    BY DEF SeenInvariant, ReceiptsTell
  <2>. QED
    BY <1>1, <2>1
<1>5. cart' = cart => CartShows'
  BY <1>1 DEF SeenInvariant, CartShows
<1>6. reads' = reads => ReadsShow'
  <2>. SUFFICES ASSUME reads' = reads, NEW r \in {"pump", "page"}, Read(r)
                PROVE  Shows(reads[r].cart, version', foreign', lines', Starts')
    BY DEF ReadsShow, Read
  <2>1. Shows(reads[r].cart, version, foreign, lines, Starts)
    BY DEF SeenInvariant, ReadsShow
  <2>. QED
    BY <1>1, <2>1
<1>7. reply' = reply => ReplyShows'
  BY <1>1 DEF SeenInvariant, ReplyShows
<1>. QED
  BY <1>2, <1>3, <1>4, <1>5, <1>6, <1>7

LEMMA NothingMoved ==
    ASSUME version' = version, foreign' = foreign, lines' = lines, own' = own,
           header' = header
    PROVE  /\ MovesOn(version, foreign, lines, Starts, version', foreign', lines', Starts')
           /\ Starts' = Starts
BY DEF MovesOn, Starts, StartsOf

(* What the queue, its requests and its answers are about does not change while a
   version grows, or while the pump stops waiting. *)
LEMMA WireFrame ==
    ASSUME TypeInvariant, WireInvariant, wire' \subseteq wire, sends' = sends,
           created' = created, ops' = ops, flight' = flight, gone' = gone,
           version' \in Nat, version <= version', pc' = pc \/ pc' # "sending"
    PROVE  WireInvariant'
<1>1. \A m \in wire : m.version \in Nat
  BY TypeFacts DEF Message
<1>2. version \in Nat
  BY TypeFacts
<1>3. Sending' = Sending
  BY DEF Sending
<1>4. \A m \in wire : Dead(m) => m.version < version'
  BY <1>1, <1>2 DEF Dead
<1>5. \A m : Dead(m)' <=> m.version < version'
  BY DEF Dead
<1>. QED
  BY <1>3, <1>4, <1>5 DEF WireInvariant, KeysOf, Content

LEMMA StaleFrame ==
    ASSUME TypeInvariant, Stale, ops' = ops, receipt' = receipt,
           version' \in Nat, version <= version'
    PROVE  Stale'
<1>1. version \in Nat /\ ops \in Seq(Op)
  BY TypeFacts
<1>2. \A i \in DOMAIN ops : ops[i] \in Op
  BY <1>1
<1>3. \A op \in Op : op.version \in Int
  BY DEF Op, NotSent
<1>. QED
  BY <1>1, <1>2, <1>3 DEF Stale, Confirmed
-------------------------------------------------------------------------------
(* The server. *)
LEMMA CompleteElsewhereKeeps ==
    ASSUME CartInvariant, CompleteElsewhere PROVE Relations'
<1>. USE DEF CompleteElsewhere, storedVars, flagVars, headerVars, netVars
<1>1. QueueInvariant'
  BY QueueFrame DEF CartInvariant, Relations
<1>2. version' = version /\ version \in Nat /\ foreign' = foreign /\ foreign \in Nat
  BY TypeFacts DEF CartInvariant
<1>3. MovesInvariant'
  BY <1>2, MovesFrame DEF CartInvariant, Relations
<1>4. SeenInvariant'
  BY <1>2, SeenFrame, NothingMoved DEF CartInvariant, Relations, SeenInvariant
<1>5. OrderInvariant'
  BY OrderFrame DEF CartInvariant, Relations
<1>6. LogInvariant'
  BY LogFrame DEF CartInvariant, Relations
<1>7. WireInvariant'
  BY <1>2, WireFrame DEF CartInvariant, Relations
<1>8. ReplyInvariant'
  BY <1>2 DEF CartInvariant, Relations, ReplyInvariant, Stale, Sending, Confirmed, Unsent, Read, Reading
<1>. QED
  BY <1>1, <1>3, <1>4, <1>5, <1>6, <1>7, <1>8 DEF Relations

LEMMA SnapshotShows ==
    ASSUME version \in Nat, foreign \in Nat
    PROVE  /\ Snapshot.version = version /\ Snapshot.foreign = foreign
           /\ Shows(Snapshot, version, foreign, lines, Starts)
<1>1. /\ Snapshot.version = version /\ Snapshot.foreign = foreign
      /\ Snapshot.lines = lines
  BY DEF Snapshot
<1>. QED
  BY <1>1, NowShows

(* A snapshot of now follows every other, and is followed by its equals. *)
LEMMA NowFollows ==
    ASSUME NEW w \in Nat, NEW g \in Nat, NEW l, NEW starts,
           NEW now, now.version = w, now.foreign = g,
           NEW s, Shows(s, w, g, l, starts)
    PROVE  Follows(s, now) /\ Follows(now, s)
<1>1. s.foreign <= g
  BY DEF Shows, Tells
<1>2. s.version \in Nat /\ s.foreign \in Nat /\ (w <= s.version => s.foreign = g)
  BY ShowsNow DEF Shows, Tells
<1>. QED
  BY <1>1, <1>2 DEF Follows

LEMMA ServeReadKeeps ==
    ASSUME CartInvariant, NEW r \in {"pump", "page"}, ServeRead(r) PROVE Relations'
<1>. USE DEF CartInvariant, Relations
<1>. USE DEF ServeRead, serverVars, storedVars, flagVars, headerVars
<1>1. QueueInvariant'
  BY QueueFrame
<1>2. version' = version /\ version \in Nat /\ foreign' = foreign /\ foreign \in Nat
  BY TypeFacts
<1>3. MovesInvariant'
  BY <1>2, MovesFrame
<1>. DEFINE now == [cart |-> Snapshot, receipts |-> KeysOf(ops) \cap Confirmed]
<1>4. reads' = [reads EXCEPT ![r] = now] /\ reads \in [{"pump", "page"} -> ReadShape \cup {NoRead}]
  BY DEF TypeInvariant
<1>5. now.cart = Snapshot
  OBVIOUS
<1>. HIDE DEF now
<1>6. \A q \in {"pump", "page"} :
         /\ q # r => reads'[q] = reads[q] /\ (Read(q)' <=> Read(q))
         /\ reads'[r].cart = Snapshot
  BY <1>4, <1>5 DEF Read
<1>7. Starts' = Starts
  BY NothingMoved
<1>8. Shows(Snapshot, version, foreign, lines, Starts)
  BY <1>2, SnapshotShows
<1>9. SeenInvariant'
  <2>1. ReadsShow'
    <3>. SUFFICES ASSUME NEW q \in {"pump", "page"}, Read(q)'
                  PROVE  Shows(reads'[q].cart, version, foreign, lines, Starts)
      BY <1>7 DEF ReadsShow
    <3>. QED
      BY <1>6, <1>8 DEF SeenInvariant, ReadsShow
  <2>. QED
    BY <1>2, <2>1, SeenFrame, NothingMoved DEF SeenInvariant
<1>10. OrderInvariant'
  <2>1. \A s : Shows(s, version, foreign, lines, Starts)
                  => Follows(s, Snapshot) /\ Follows(Snapshot, s)
    BY <1>2, SnapshotShows, NowFollows
  <2>2. Follows(Snapshot, Snapshot)
    BY <1>8, <2>1
  <2>. QED
    BY <1>6, <2>1, <2>2
    DEF OrderInvariant, SeenInvariant, ReadsShow, ReplyShows, CartShows
<1>11. LogInvariant'
  BY LogFrame
<1>12. WireInvariant'
  BY <1>2, WireFrame
<1>13. ReplyInvariant'
  BY <1>2 DEF ReplyInvariant, Stale, Sending, Confirmed, Unsent, Read, Reading
<1>. QED
  BY <1>1, <1>3, <1>9, <1>10, <1>11, <1>12, <1>13

(* An answer shows the cart as the request leaves it. *)
LEMMA AnswerShows ==
    ASSUME CartInvariant, NEW m \in wire, NEW status, NEW accepted,
           Answer(m, status, accepted), version' \in Nat, foreign' \in Nat,
           MovesOn(version, foreign, lines, Starts, version', foreign', lines', Starts')
    PROVE  /\ OpsTell' /\ WireTells' /\ CartShows' /\ ReadsShow' /\ ReplyShows'
           /\ OrderInvariant'
<1>. USE DEF CartInvariant, Relations
<1>. USE DEF Answer, storedVars, flagVars, headerVars
<1>1. version \in Nat /\ foreign \in Nat
  BY TypeFacts
<1>2. OpsTell' /\ WireTells' /\ CartShows' /\ ReadsShow' /\ (reply' = reply => ReplyShows')
  BY <1>1, SeenFrame
<1>3. CASE reply' = reply
  BY <1>2, <1>3, OrderFrame
<1>4. CASE reply' = [status |-> status, accepted |-> accepted, cart |-> Snapshot']
  <2>1. reply'.cart = Snapshot'
    BY <1>4
  <2>2. /\ Snapshot'.version = version' /\ Snapshot'.foreign = foreign'
        /\ Shows(Snapshot', version', foreign', lines', Starts')
    <3>1. /\ Snapshot'.version = version' /\ Snapshot'.foreign = foreign'
          /\ Snapshot'.lines = lines'
      BY DEF Snapshot
    <3>. QED
      BY <3>1, NowShows
  <2>3. \A s : Shows(s, version', foreign', lines', Starts')
                  => Follows(s, Snapshot') /\ Follows(Snapshot', s)
    BY <2>2, NowFollows
  <2>4. reads' = reads /\ cart' = cart
    OBVIOUS
  <2>5. OrderInvariant'
    BY <1>2, <2>1, <2>3, <2>4 DEF OrderInvariant, ReadsShow, CartShows, Read
  <2>. QED
    BY <1>2, <2>1, <2>2, <2>5 DEF ReplyShows
<1>. QED
  BY <1>3, <1>4

(* Without an effect on the cart it is one more answer, if it is a true one. *)
LEMMA AnswerKeeps ==
    ASSUME CartInvariant, NEW m \in wire, NEW status \in {"ok", "version", "refused"},
           NEW accepted, Answer(m, status, accepted), UNCHANGED serverVars,
           pc = "sending" /\ m.attempt = sends =>
             /\ status = "ok" =>
                  /\ \A i \in DOMAIN Sending : Sending[i].key \in Confirmed
                  /\ accepted = receipt[Last(Sending).key].version
             /\ status = "version" => Stale
    PROVE  Relations'
<1>. USE DEF CartInvariant, Relations
<1>. USE DEF Answer, serverVars, storedVars, flagVars, headerVars
<1>1. QueueInvariant'
  BY QueueFrame
<1>2. version' = version /\ version \in Nat /\ foreign' = foreign /\ foreign \in Nat
  BY TypeFacts
<1>3. MovesInvariant'
  BY <1>2, MovesFrame
<1>4. MovesOn(version, foreign, lines, Starts, version', foreign', lines', Starts')
  BY NothingMoved
<1>5. /\ OpsTell' /\ WireTells' /\ CartShows' /\ ReadsShow' /\ ReplyShows'
      /\ OrderInvariant'
  BY <1>2, <1>4, AnswerShows
<1>6. ReceiptsTell'
  BY <1>2, <1>4, SeenFrame
<1>7. LogInvariant'
  BY LogFrame
<1>8. WireInvariant'
  BY <1>2, WireFrame
<1>9. ReplyInvariant'
  <2>1. Stale' = Stale /\ Sending' = Sending /\ Confirmed' = Confirmed
    BY DEF Stale, Sending, Confirmed
  <2>2. CASE reply' = reply
    BY <2>1, <2>2 DEF ReplyInvariant, Unsent, Read, Reading
  <2>3. CASE reply' # reply
    <3>1. reply' = [status |-> status, accepted |-> accepted, cart |-> Snapshot']
      BY <2>3
    <3>2. pc = "sending" /\ m.attempt = sends
      BY <2>3
    <3>3. reply'.status = status /\ reply'.accepted = accepted
      BY <3>1
    <3>. QED
      BY <2>1, <3>2, <3>3 DEF ReplyInvariant, Unsent, Read, Reading
  <2>. QED
    BY <2>2, <2>3
<1>. QED
  BY <1>1, <1>3, <1>5, <1>6, <1>7, <1>8, <1>9 DEF SeenInvariant

LEMMA RefuseKeeps ==
    ASSUME CartInvariant, NEW m \in wire, Refuse(m) PROVE Relations'
BY AnswerKeeps DEF Refuse

(* What is being sent is the beginning of the queue, and all of it that was sent. *)
SendingIs(n) ==
    /\ n \in 1 .. Len(ops)
    /\ Sending \in Seq(Op) /\ Len(Sending) = n
    /\ \A i \in 1 .. n : /\ Sending[i] = ops[i]
                         /\ ops[i].version = Sending[1].version
    /\ \A i \in DOMAIN ops : n < i => Unsent(ops[i])

LEMMA SendingMeans ==
    ASSUME TypeInvariant, QueueInvariant, ops # <<>>
    PROVE  \E n : SendingIs(n)
<1>1. ops \in Seq(Op) /\ flight \in Seq(Op)
  BY TypeFacts
<1>2. Len(ops) \in Nat /\ Len(ops) >= 1 /\ ops[1] \in Op
  BY <1>1
<1>3. CASE flight = <<>>
  <2>1. Sending = <<ops[1]>>
    BY <1>3 DEF Sending
  <2>2. Len(flight) = 0
    BY <1>3
  <2>3. \A i \in DOMAIN ops : 1 < i => Unsent(ops[i])
    BY <1>1, <2>2 DEF QueueInvariant
  <2>. QED
    BY <1>1, <1>2, <2>1, <2>3 DEF SendingIs
<1>4. CASE flight # <<>>
  <2>1. Sending = flight
    BY <1>4 DEF Sending
  <2>2. /\ 1 < Len(flight) /\ Len(flight) <= Len(ops)
        /\ \A i \in DOMAIN flight :
             flight[i] = ops[i] /\ flight[i].version = flight[1].version
    BY <1>4 DEF QueueInvariant
  <2>3. DOMAIN flight = 1 .. Len(flight) /\ Len(flight) \in Nat
    BY <1>1
  <2>4. \A i \in DOMAIN ops : Len(flight) < i => Unsent(ops[i])
    BY <1>1, <2>2, <2>3 DEF QueueInvariant
  <2>. QED
    BY <1>1, <2>1, <2>2, <2>3, <2>4 DEF SendingIs
<1>. QED
  BY <1>3, <1>4

LEMMA WireFacts ==
    ASSUME CartInvariant, NEW m \in wire
    PROVE  /\ m \in Message /\ m.ops \in Seq(WireOp) /\ m.version \in Nat
           /\ Len(m.ops) \in Nat /\ Len(m.ops) >= 1 /\ DOMAIN m.ops = 1 .. Len(m.ops)
           /\ m.version <= version /\ (m.version # version => Dead(m))
           /\ \A i \in DOMAIN m.ops : m.ops[i] \in WireOp
           /\ \A i \in DOMAIN m.ops : m.ops[i].key \in Keys /\ m.ops[i].key \in Nat
<1>. USE DEF CartInvariant, Relations
<1>1. m \in Message /\ m.ops # <<>> /\ version \in Nat
  BY TypeFacts DEF WireInvariant
<1>2. m.ops \in Seq(WireOp) /\ m.version \in Nat
  BY <1>1 DEF Message
<1>3. Len(m.ops) \in Nat /\ Len(m.ops) >= 1 /\ DOMAIN m.ops = 1 .. Len(m.ops)
  BY <1>1, <1>2
<1>4. 1 \in DOMAIN m.ops
  BY <1>3
<1>5. m.version <= version
  BY <1>4 DEF SeenInvariant, WireTells, Tells
<1>6. \A i \in DOMAIN m.ops : m.ops[i] \in WireOp
  BY <1>2
<1>7. \A op \in WireOp : op.key \in Keys /\ op.key \in Nat
  BY DEF WireOp, Keys
<1>. QED
  BY <1>1, <1>2, <1>3, <1>5, <1>6, <1>7 DEF Dead

LEMMA RefuseVersionKeeps ==
    ASSUME CartInvariant, NEW m \in wire, RefuseVersion(m) PROVE Relations'
<1>. USE DEF CartInvariant, Relations
<1>1. ASSUME pc = "sending", m.attempt = sends PROVE Stale
  <2>1. ops # <<>>
    BY <1>1 DEF ReplyInvariant
  <2>2. PICK n : SendingIs(n)
    BY <2>1, SendingMeans
  <2>3. /\ DOMAIN m.ops = 1 .. n /\ m.version = Sending[1].version
        /\ \A i \in 1 .. n : m.ops[i].key = ops[i].key
    BY <1>1, <2>2, WireFacts DEF WireInvariant, SendingIs
  <2>4. m.version < version /\ KeysOf(m.ops) \cap Confirmed = {}
    BY WireFacts DEF RefuseVersion, Fresh, ReceiptsOf, Dead
  <2>5. ASSUME NEW i \in DOMAIN ops
        PROVE  ops[i].key \notin Confirmed /\ ops[i].version < version
    <3>1. CASE i <= n
      <4>1. i \in 1 .. n
        BY <2>2, <3>1, TypeFacts DEF SendingIs
      <4>2. ops[i].key \in KeysOf(m.ops)
        BY <2>3, <4>1 DEF KeysOf
      <4>3. ops[i].version = m.version
        BY <2>2, <2>3, <4>1 DEF SendingIs
      <4>. QED
        BY <2>4, <4>2, <4>3
    <3>2. CASE n < i
      <4>1. Unsent(ops[i])
        BY <2>2, <3>2 DEF SendingIs
      <4>2. ops[i].version = -1 /\ version \in Nat
        BY <4>1, TypeFacts DEF Unsent, NotSent
      <4>. QED
        BY <4>1, <4>2 DEF LogInvariant
    <3>3. i \in Nat /\ n \in Nat
      BY <2>2, TypeFacts DEF SendingIs
    <3>. QED
      BY <3>1, <3>2, <3>3
  <2>. QED
    BY <2>5 DEF Stale
<1>. QED
  BY <1>1, AnswerKeeps DEF RefuseVersion

LEMMA ReplayKeeps ==
    ASSUME CartInvariant, NEW m \in wire, Replay(m) PROVE Relations'
<1>. USE DEF CartInvariant, Relations
<1>1. ASSUME pc = "sending", m.attempt = sends
      PROVE  /\ \A i \in DOMAIN Sending : Sending[i].key \in Confirmed
             /\ receipt[Last(m.ops).key].version = receipt[Last(Sending).key].version
  <2>1. ops # <<>>
    BY <1>1 DEF ReplyInvariant
  <2>2. PICK n : SendingIs(n)
    BY <2>1, SendingMeans
  <2>3. /\ Len(m.ops) = n /\ DOMAIN Sending = 1 .. n /\ DOMAIN m.ops = 1 .. n
        /\ Len(Sending) = n /\ n \in 1 .. n
        /\ \A i \in 1 .. n : m.ops[i].key = Sending[i].key
    <3>1. /\ Sending \in Seq(Op) /\ Len(Sending) = n /\ n \in Nat /\ n >= 1
      BY <2>2, TypeFacts DEF SendingIs
    <3>2. DOMAIN Sending = 1 .. n
      BY <3>1
    <3>3. Len(m.ops) = n /\ DOMAIN m.ops = 1 .. n
      BY <1>1, <3>1, WireFacts DEF WireInvariant
    <3>4. \A i \in DOMAIN m.ops : m.ops[i].key = Sending[i].key
      BY <1>1 DEF WireInvariant
    <3>. QED
      BY <3>1, <3>2, <3>3, <3>4
  <2>4. KeysOf(m.ops) \subseteq Confirmed
    BY DEF Replay, Known, ReceiptsOf
  <2>5. Last(m.ops) = m.ops[n] /\ Last(Sending) = Sending[n]
    BY <2>3 DEF Last
  <2>. QED
    BY <2>3, <2>4, <2>5 DEF KeysOf
<1>. QED
  BY <1>1, AnswerKeeps DEF Replay

LEMMA StartsBelow ==
    ASSUME TypeInvariant, MovesInvariant
    PROVE  \A x \in Starts : x \in Nat /\ x < version
<1>1. version \in Nat /\ header.previous \in Nat /\ header.current \in Nat
  BY TypeFacts DEF TypeInvariant, HeaderShape
<1>2. \A p \in own : p[1] \in Nat /\ p[1] < version
  BY <1>1 DEF MovesInvariant
<1>. QED
  BY <1>1, <1>2 DEF MovesInvariant, Starts, StartsOf

AcceptedAs(m, done) ==
    /\ m.version = version /\ KeysOf(m.ops) \cap Confirmed = {}
    /\ done \in Doing /\ Len(done.stored) = Len(m.ops)
    /\ version' = done.version /\ lines' = done.lines
    /\ version <= version' /\ (version' = version => lines' = lines)
    /\ \A i \in DOMAIN m.ops : version <= done.stored[i] /\ done.stored[i] <= version'
    /\ Confirmed' = Confirmed \cup KeysOf(m.ops)
    /\ \A k \in Confirmed : receipt'[k] = receipt[k]
    /\ \A i \in DOMAIN m.ops :
         receipt'[m.ops[i].key] = [version |-> done.stored[i],
                                   content |-> Content(m.ops[i]),
                                   saw |-> m.ops[i].saw, over |-> foreign]

LEMMA AcceptMeans ==
    ASSUME CartInvariant, NEW m \in wire, Accept(m)
    PROVE  AcceptedAs(m, Execute(m.ops)) /\ Answer(m, "ok", Last(Execute(m.ops).stored))
<1>. USE DEF CartInvariant
<1>. DEFINE done == Execute(m.ops)
<1>1. version \in Nat /\ lines \in Amounts /\ m.ops \in Seq(WireOp)
  BY TypeFacts, WireFacts
<1>2. Executed(m.ops, done)
  BY <1>1, ExecuteMeans
<1>3. ~done.fault /\ m.version = version /\ KeysOf(m.ops) \cap Confirmed = {}
  BY DEF Accept, Acceptable, Fresh, ReceiptsOf
<1>. HIDE DEF done
<1>4. /\ version' = done.version /\ lines' = done.lines
      /\ receipt' = [k \in Keys |->
           IF k \in KeysOf(m.ops)
           THEN LET i == CHOOSE i \in DOMAIN m.ops : m.ops[i].key = k IN
                [version |-> done.stored[i], content |-> Content(m.ops[i]),
                 saw |-> m.ops[i].saw, over |-> foreign]
           ELSE receipt[k]]
      /\ Answer(m, "ok", Last(done.stored))
  BY DEF Accept, done
<1>5. \A i, j \in DOMAIN m.ops : m.ops[i].key = m.ops[j].key => i = j
  <2>. SUFFICES ASSUME NEW i \in DOMAIN m.ops, NEW j \in DOMAIN m.ops, i < j
                PROVE  m.ops[i].key # m.ops[j].key
    BY WireFacts
  <2>1. m.ops[i].key < m.ops[j].key
    BY DEF Relations, WireInvariant
  <2>2. m.ops[i].key \in Nat /\ m.ops[j].key \in Nat
    BY WireFacts
  <2>. QED
    BY <2>1, <2>2
<1>6. \A i \in DOMAIN m.ops : m.ops[i].key \in Keys
  BY WireFacts
<1>7. ASSUME NEW i \in DOMAIN m.ops
      PROVE  receipt'[m.ops[i].key] = [version |-> done.stored[i],
                                       content |-> Content(m.ops[i]),
                                       saw |-> m.ops[i].saw, over |-> foreign]
  <2>. DEFINE k == m.ops[i].key
              j == CHOOSE j \in DOMAIN m.ops : m.ops[j].key = k
  <2>1. j = i
    BY <1>5
  <2>2. k \in KeysOf(m.ops) /\ k \in Keys
    BY <1>6 DEF KeysOf
  <2>. QED
    BY <1>4, <2>1, <2>2
<1>8. \A k \in Confirmed : receipt'[k] = receipt[k] /\ k \notin KeysOf(m.ops) /\ k \in Keys
  BY <1>3, <1>4 DEF Confirmed
<1>9. Confirmed' = Confirmed \cup KeysOf(m.ops)
  <2>1. \A i \in DOMAIN m.ops : receipt'[m.ops[i].key] # NoReceipt
    <3>. SUFFICES ASSUME NEW i \in DOMAIN m.ops PROVE receipt'[m.ops[i].key] # NoReceipt
      OBVIOUS
    <3>1. receipt'[m.ops[i].key] = [version |-> done.stored[i],
                                    content |-> Content(m.ops[i]),
                                    saw |-> m.ops[i].saw, over |-> foreign]
      BY <1>7
    <3>2. receipt'[m.ops[i].key].version = done.stored[i]
      BY <3>1
    <3>3. done.stored[i] # -1
      <4>1. version <= done.stored[i] /\ done.stored \in Seq(Nat)
            /\ Len(done.stored) = Len(m.ops)
        BY <1>1, <1>2, <1>3, WireFacts DEF Executed, Doing
      <4>2. done.stored[i] \in Nat
        BY <4>1, WireFacts
      <4>. QED
        BY <4>2
    <3>. QED
      BY <3>2, <3>3 DEF NoReceipt, NotSent
  <2>2. \A k \in Keys : k \in KeysOf(m.ops) => receipt'[k] # NoReceipt
    BY <2>1 DEF KeysOf
  <2>3. \A k \in Keys : k \notin KeysOf(m.ops) => receipt'[k] = receipt[k]
    BY <1>4
  <2>4. KeysOf(m.ops) \subseteq Keys
    BY <1>6 DEF KeysOf
  <2>. QED
    BY <2>2, <2>3, <2>4 DEF Confirmed
<1>. QED
  BY <1>2, <1>3, <1>4, <1>7, <1>8, <1>9, WireFacts DEF AcceptedAs, Executed, done

(* A queued operation that a request of now carries is the one that was sent. *)
LEMMA LiveMatch ==
    ASSUME CartInvariant, NEW m \in wire, m.version = version,
           NEW i \in DOMAIN m.ops, NEW j \in DOMAIN ops, ops[j].key = m.ops[i].key
    PROVE  /\ ops[j].version = version /\ ~Unsent(ops[j])
           /\ Content(ops[j]) = Content(m.ops[i]) /\ ops[j].saw = m.ops[i].saw
<1>1. version \in Nat /\ ~Dead(m)
  BY TypeFacts DEF CartInvariant, Dead
<1>. QED
  BY <1>1 DEF CartInvariant, Relations, WireInvariant, Unsent, NotSent

LEMMA AcceptKeepsLog ==
    ASSUME CartInvariant, NEW m \in wire, Accept(m) PROVE LogInvariant'
<1>. USE DEF CartInvariant, Relations
<1>. DEFINE done == Execute(m.ops)
<1>1. AcceptedAs(m, done)
  BY AcceptMeans
<1>. HIDE DEF done
<1>2. /\ ops' = ops /\ created' = created /\ gone' = gone
      /\ applied' = applied \o [i \in DOMAIN m.ops |-> m.ops[i].key]
  BY DEF Accept, Answer, storedVars
<1>3. /\ Confirmed' = Confirmed \cup KeysOf(m.ops)
      /\ KeysOf(m.ops) \cap Confirmed = {} /\ m.version = version
  BY <1>1 DEF AcceptedAs
<1>4. \A k \in KeysOf(m.ops) : k <= created /\ gone[k] # "conflict" /\ k \in Keys
  <2>1. \A i \in DOMAIN m.ops : /\ m.ops[i].key <= created
                                /\ gone[m.ops[i].key] = "conflict" => Dead(m)
    BY DEF WireInvariant
  <2>2. ~Dead(m)
    BY <1>3, WireFacts DEF Dead
  <2>. QED
    BY <2>1, <2>2, WireFacts DEF KeysOf
<1>5. \A k \in Confirmed' : k <= created' /\ gone'[k] # "conflict"
  BY <1>2, <1>3, <1>4 DEF LogInvariant
<1>6. \A k \in 1 .. created' : k \in KeysOf(ops') \cup Confirmed' \/ gone'[k] # "no"
  BY <1>2, <1>3 DEF LogInvariant
<1>7. \A k \in Keys : gone'[k] # "no" => k <= created'
  BY <1>2 DEF LogInvariant
<1>8. ASSUME NEW j \in DOMAIN ops, ops[j].key \in Confirmed'
      PROVE  /\ ~Unsent(ops[j])
             /\ receipt'[ops[j].key].content = Content(ops[j])
             /\ receipt'[ops[j].key].saw = ops[j].saw
  <2>1. CASE ops[j].key \in Confirmed
    BY <1>1, <2>1 DEF LogInvariant, AcceptedAs
  <2>2. CASE ops[j].key \in KeysOf(m.ops)
    <3>1. PICK i \in DOMAIN m.ops : ops[j].key = m.ops[i].key
      BY <2>2 DEF KeysOf
    <3>2. receipt'[ops[j].key] = [version |-> done.stored[i],
                                  content |-> Content(m.ops[i]),
                                  saw |-> m.ops[i].saw, over |-> foreign]
      BY <1>1, <3>1 DEF AcceptedAs
    <3>. QED
      BY <1>3, <3>1, <3>2, LiveMatch
  <2>. QED
    BY <1>3, <1>8, <2>1, <2>2
<1>9. ASSUME NEW j \in DOMAIN ops, NEW k \in Confirmed', ops[j].key < k
      PROVE  ops[j].key \in Confirmed'
  <2>1. CASE k \in Confirmed
    BY <1>3, <1>9, <2>1 DEF LogInvariant
  <2>2. CASE k \in KeysOf(m.ops)
    <3>1. PICK i \in DOMAIN m.ops : k = m.ops[i].key
      BY <2>2 DEF KeysOf
    <3>2. ops[j].key \in KeysOf(m.ops)
      BY <1>9, <3>1 DEF WireInvariant
    <3>. QED
      BY <1>3, <3>2
  <2>. QED
    BY <1>3, <2>1, <2>2
<1>. DEFINE new == [i \in DOMAIN m.ops |-> m.ops[i].key]
            old == Len(applied)
<1>10. /\ applied \in Seq(Keys) /\ old \in Nat
       /\ new \in [1 .. Len(m.ops) -> Keys] /\ Len(m.ops) \in Nat
       /\ applied' = applied \o new
  <2>1. applied \in Seq(Keys)
    BY DEF TypeInvariant, CartTypeOK
  <2>. QED
    BY <1>2, <2>1, LenProperties, WireFacts
<1>11. /\ DOMAIN applied' = 1 .. (old + Len(m.ops)) /\ DOMAIN applied = 1 .. old
       /\ \A i \in 1 .. old : applied'[i] = applied[i]
       /\ \A i \in 1 .. Len(m.ops) : applied'[old + i] = new[i]
  <2>. HIDE DEF new
  <2>1. applied \in Seq(Keys) /\ Len(m.ops) \in Nat
    BY <1>10
  <2>2. PICK f \in [1 .. Len(m.ops) -> Keys] : f = new /\ applied' = applied \o f
    BY <1>10
  <2>3. Extends(applied \o f, applied, Len(m.ops), f)
    BY <2>1, Extended, Zenon
  <2>. QED
    BY <2>2, <2>3 DEF Extends
<1>12. ASSUME NEW i \in DOMAIN applied', i > old
       PROVE  \E j \in DOMAIN m.ops : i = old + j /\ applied'[i] = m.ops[j].key
  <2>1. i - old \in 1 .. Len(m.ops) /\ i = old + (i - old)
    BY <1>10, <1>11, <1>12, WireFacts
  <2>2. applied'[i] = new[i - old]
    BY <1>11, <2>1
  <2>3. i - old \in DOMAIN m.ops
    BY <2>1, WireFacts
  <2>. QED
    BY <2>1, <2>2, <2>3
<1>13. \A i \in DOMAIN applied' : i <= old => i \in DOMAIN applied /\ applied'[i] = applied[i]
  BY <1>10, <1>11, WireFacts
<1>14. \A i \in DOMAIN applied' : i \in Nat
  BY <1>10, <1>11, WireFacts
<1>. HIDE DEF new, old
<1>15. ASSUME NEW i \in DOMAIN applied' PROVE applied'[i] \in Confirmed'
  <2>1. CASE i <= old
    BY <1>3, <1>13, <2>1 DEF LogInvariant
  <2>2. CASE i > old
    BY <1>3, <1>12, <2>2 DEF KeysOf
  <2>. QED
    BY <1>10, <1>14, <2>1, <2>2
<1>16. ASSUME NEW i \in DOMAIN applied', NEW j \in DOMAIN applied', i < j
       PROVE  /\ applied'[i] # applied'[j]
              /\ gone'[applied'[j]] = "no" => applied'[i] < applied'[j]
  <2>1. CASE j <= old
    <3>1. i <= old
      BY <1>10, <1>14, <1>16, <2>1
    <3>2. /\ i \in DOMAIN applied /\ applied'[i] = applied[i]
          /\ j \in DOMAIN applied /\ applied'[j] = applied[j]
      BY <1>13, <2>1, <3>1
    <3>. QED
      BY <1>2, <1>16, <3>2 DEF LogInvariant, OnceInOrder
  <2>2. CASE i <= old /\ j > old
    <3>1. PICK q \in DOMAIN m.ops : applied'[j] = m.ops[q].key
      BY <1>12, <2>2
    <3>. DEFINE a == applied'[i]
                n == m.ops[q].key
    <3>2. a \in Confirmed
      BY <1>13, <2>2 DEF LogInvariant
    <3>3. n \in KeysOf(m.ops) /\ n \notin Confirmed /\ n \in Keys /\ n <= created
      BY <1>3, <1>4 DEF KeysOf
    <3>4. a # n
      BY <3>2, <3>3
    <3>5. a \in Nat /\ n \in Nat /\ n >= 1
      BY <3>2, <3>3 DEF Confirmed, Keys
    <3>6. ASSUME gone[n] = "no" PROVE a < n
      <4>1. n \in 1 .. created
        BY <3>3, <3>5, TypeFacts
      <4>2. n \in KeysOf(ops)
        BY <3>3, <3>6, <4>1 DEF LogInvariant
      <4>3. PICK p \in DOMAIN ops : ops[p].key = n
        BY <4>2 DEF KeysOf
      <4>4. ~(n < a)
        BY <3>2, <3>3, <4>3 DEF LogInvariant
      <4>. QED
        BY <3>4, <3>5, <4>4
    <3>. QED
      BY <1>2, <3>1, <3>4, <3>6
  <2>3. CASE i > old
    <3>1. j > old
      BY <1>10, <1>14, <1>16, <2>3
    <3>2. PICK p \in DOMAIN m.ops : i = old + p /\ applied'[i] = m.ops[p].key
      BY <1>12, <2>3
    <3>3. PICK q \in DOMAIN m.ops : j = old + q /\ applied'[j] = m.ops[q].key
      BY <1>12, <3>1
    <3>4. p < q
      BY <1>10, <1>16, <3>2, <3>3, WireFacts
    <3>5. m.ops[p].key < m.ops[q].key
      BY <3>4 DEF WireInvariant
    <3>6. m.ops[p].key \in Nat /\ m.ops[q].key \in Nat
      BY WireFacts
    <3>. QED
      BY <3>2, <3>3, <3>5, <3>6
  <2>. QED
    BY <1>10, <1>14, <2>1, <2>2, <2>3
<1>. QED
  BY <1>2, <1>5, <1>6, <1>7, <1>8, <1>9, <1>15, <1>16
  DEF LogInvariant, OnceInOrder, Unsent, Content

(* What told the truth of the cart still does when it moves on. *)
LEMMA TellsStill ==
    ASSUME version \in Nat, foreign \in Nat, version' \in Nat, foreign' \in Nat,
           MovesOn(version, foreign, lines, Starts, version', foreign', lines', Starts'),
           NEW v, NEW f, Tells(v, f, version, foreign, Starts)
    PROVE  Tells(v, f, version', foreign', Starts')
<1>. DEFINE Still(x, y) == Tells(x, y, version, foreign, Starts)
                              => Tells(x, y, version', foreign', Starts')
            StillShows(s) == Shows(s, version, foreign, lines, Starts)
                                => Shows(s, version', foreign', lines', Starts')
<1>1. (\A x, y : Still(x, y)) /\ (\A s : StillShows(s))
  BY StillTells
<1>. QED
  BY <1>1

LEMMA AcceptKeeps ==
    ASSUME CartInvariant, NEW m \in wire, Accept(m) PROVE Relations'
<1>. USE DEF CartInvariant, Relations
<1>. DEFINE done == Execute(m.ops)
<1>1. AcceptedAs(m, done) /\ Answer(m, "ok", Last(done.stored))
  BY AcceptMeans
<1>. HIDE DEF done
<1>2. /\ ops' = ops /\ flight' = flight /\ created' = created /\ gone' = gone
      /\ cart' = cart /\ own' = own /\ header' = header /\ foreign' = foreign
      /\ wire' \subseteq wire /\ sends' = sends /\ pc' = pc /\ reads' = reads
      /\ error' = error /\ conflict' = conflict /\ rejected' = rejected
  BY DEF Accept, Answer, storedVars, flagVars, headerVars
<1>3. version \in Nat /\ foreign \in Nat /\ version' \in Nat /\ version <= version'
  BY <1>1, TypeFacts DEF AcceptedAs, Doing
<1>4. QueueInvariant'
  BY <1>2, QueueFrame
<1>5. MovesInvariant' /\ Starts' = Starts
  BY <1>2, <1>3, MovesFrame
<1>6. MovesOn(version, foreign, lines, Starts, version', foreign', lines', Starts')
  BY <1>1, <1>2, <1>3, <1>5, StartsBelow DEF MovesOn, AcceptedAs
<1>7. /\ OpsTell' /\ WireTells' /\ CartShows' /\ ReadsShow' /\ ReplyShows'
      /\ OrderInvariant'
  BY <1>1, <1>2, <1>3, <1>6, AnswerShows
<1>8. ReceiptsTell'
  <2>. SUFFICES ASSUME NEW k \in Confirmed'
                PROVE  /\ Tells(receipt'[k].version, receipt'[k].over, version',
                                foreign', Starts')
                       /\ receipt'[k].over = receipt'[k].saw
    BY DEF ReceiptsTell
  <2>1. CASE k \in Confirmed
    <3>1. receipt'[k] = receipt[k]
      BY <1>1, <2>1 DEF AcceptedAs
    <3>2. /\ Tells(receipt[k].version, receipt[k].over, version, foreign, Starts)
          /\ receipt[k].over = receipt[k].saw
      BY <2>1 DEF SeenInvariant, ReceiptsTell
    <3>3. foreign' \in Nat
      BY <1>2, <1>3
    <3>4. Tells(receipt[k].version, receipt[k].over, version', foreign', Starts')
      BY <1>3, <1>6, <3>2, <3>3, TellsStill
    <3>. QED
      BY <3>1, <3>2, <3>4
  <2>2. CASE k \in KeysOf(m.ops)
    <3>1. PICK i \in DOMAIN m.ops : k = m.ops[i].key
      BY <2>2 DEF KeysOf
    <3>2. receipt'[k] = [version |-> done.stored[i], content |-> Content(m.ops[i]),
                         saw |-> m.ops[i].saw, over |-> foreign]
      BY <1>1, <3>1 DEF AcceptedAs
    <3>3. done.stored[i] \in Nat /\ done.stored[i] <= version'
      <4>1. done.stored \in Seq(Nat) /\ Len(done.stored) = Len(m.ops)
        BY <1>1 DEF AcceptedAs, Doing
      <4>2. i \in 1 .. Len(m.ops)
        BY WireFacts
      <4>. QED
        BY <1>1, <4>1, <4>2 DEF AcceptedAs
    <3>4. m.ops[i].saw = foreign
      <4>1. Tells(version, m.ops[i].saw, version, foreign, Starts)
        BY <1>1 DEF SeenInvariant, WireTells, AcceptedAs
      <4>. QED
        BY <1>3, <4>1 DEF Tells, QuietFrom
    <3>. QED
      BY <1>2, <1>3, <3>2, <3>3, <3>4 DEF Tells
  <2>. QED
    BY <1>1, <2>1, <2>2 DEF AcceptedAs
<1>9. LogInvariant'
  BY AcceptKeepsLog
<1>10. WireInvariant'
  BY <1>2, <1>3, WireFrame
<1>11. Stale => Stale'
  <2>. SUFFICES ASSUME Stale, NEW j \in DOMAIN ops
                PROVE  ops[j].key \notin Confirmed' /\ ops[j].version < version'
    BY <1>2 DEF Stale
  <2>1. ops[j].key \notin Confirmed /\ ops[j].version < version
    BY DEF Stale
  <2>2. ops[j].version \in Int
    <3>1. ops[j] \in Op
      BY TypeFacts
    <3>. QED
      BY <3>1 DEF Op, NotSent
  <2>3. \A i \in DOMAIN m.ops : ops[j].key # m.ops[i].key
    BY <1>1, <1>3, <2>1, <2>2, LiveMatch DEF AcceptedAs
  <2>. QED
    BY <1>1, <1>3, <2>1, <2>2, <2>3 DEF AcceptedAs, KeysOf
<1>12. Sending' = Sending
  BY <1>2 DEF Sending
<1>13. /\ pc' = "sending" => ops' # <<>> /\ ~Unsent(ops'[1])
       /\ Read("pump")' => Reading'
       /\ conflict' => Stale' /\ rejected'
       /\ rejected' => error'
  BY <1>2, <1>11 DEF ReplyInvariant, Read, Reading
<1>14. ReplyInvariant'
  <2>1. CASE reply' = reply
    <3>1. ASSUME reply # NoReply, reply.status = "ok"
          PROVE  /\ \A i \in DOMAIN Sending : Sending[i].key \in Confirmed'
                 /\ reply.accepted = receipt'[Last(Sending).key].version
      <4>1. /\ \A i \in DOMAIN Sending : Sending[i].key \in Confirmed
            /\ reply.accepted = receipt[Last(Sending).key].version
        BY <3>1 DEF ReplyInvariant
      <4>2. Last(Sending).key \in Confirmed
        <5>1. ops # <<>>
          BY <3>1 DEF ReplyInvariant
        <5>2. PICK n : SendingIs(n)
          BY <5>1, SendingMeans
        <5>3. Len(Sending) = n /\ n \in 1 .. n /\ n \in DOMAIN Sending
          BY <5>2, TypeFacts DEF SendingIs
        <5>. QED
          BY <4>1, <5>3 DEF Last
      <4>. QED
        BY <1>1, <4>1, <4>2 DEF AcceptedAs
    <3>. QED
      BY <1>2, <1>11, <1>12, <1>13, <2>1, <3>1 DEF ReplyInvariant, Unsent
  <2>2. CASE reply' # reply
    <3>1. /\ pc = "sending" /\ m.attempt = sends
          /\ reply' = [status |-> "ok", accepted |-> Last(done.stored),
                       cart |-> Snapshot']
      BY <1>1, <2>2 DEF Answer
    <3>2. reply'.status = "ok" /\ reply'.accepted = Last(done.stored)
      BY <3>1
    <3>3. PICK n : SendingIs(n)
      BY <3>1, SendingMeans DEF ReplyInvariant
    <3>4. /\ Len(m.ops) = n /\ DOMAIN Sending = 1 .. n /\ DOMAIN m.ops = 1 .. n
          /\ Len(Sending) = n /\ n \in 1 .. n
          /\ \A i \in 1 .. n : m.ops[i].key = Sending[i].key
      <4>1. /\ Sending \in Seq(Op) /\ Len(Sending) = n /\ n \in Nat /\ n >= 1
        BY <3>3, TypeFacts DEF SendingIs
      <4>2. DOMAIN Sending = 1 .. n
        BY <4>1
      <4>3. Len(m.ops) = n /\ DOMAIN m.ops = 1 .. n
        BY <3>1, <4>1, WireFacts DEF WireInvariant
      <4>4. \A i \in DOMAIN m.ops : m.ops[i].key = Sending[i].key
        BY <3>1 DEF WireInvariant
      <4>. QED
        BY <4>1, <4>2, <4>3, <4>4
    <3>5. \A i \in 1 .. n : Sending[i].key \in Confirmed'
      BY <1>1, <3>4 DEF AcceptedAs, KeysOf
    <3>6. Last(done.stored) = done.stored[n] /\ Last(Sending) = Sending[n]
      BY <1>1, <3>4 DEF AcceptedAs, Last
    <3>7. receipt'[Sending[n].key].version = done.stored[n]
      <4>1. receipt'[m.ops[n].key] = [version |-> done.stored[n],
                                      content |-> Content(m.ops[n]),
                                      saw |-> m.ops[n].saw, over |-> foreign]
        BY <1>1, <3>4 DEF AcceptedAs
      <4>2. m.ops[n].key = Sending[n].key
        BY <3>4
      <4>. QED
        BY <4>1, <4>2
    <3>8. /\ \A i \in DOMAIN Sending' : Sending'[i].key \in Confirmed'
          /\ reply'.accepted = receipt'[Last(Sending').key].version
      <4>1. Last(Sending)' = Last(Sending)
        BY <1>12 DEF Last
      <4>. QED
        BY <1>12, <3>2, <3>4, <3>5, <3>6, <3>7, <4>1
    <3>. QED
      BY <1>2, <1>13, <3>1, <3>2, <3>8 DEF ReplyInvariant
  <2>. QED
    BY <2>1, <2>2
<1>. QED
  BY <1>4, <1>5, <1>7, <1>8, <1>9, <1>10, <1>14 DEF SeenInvariant

(* The cart moves while the tab and its requests stay as they are. *)
LEMMA OnlyTheCartMoves ==
    ASSUME CartInvariant, version' \in Nat, version <= version', foreign' \in Nat,
           MovesOn(version, foreign, lines, Starts, version', foreign', lines', Starts'),
           MovesInvariant',
           UNCHANGED <<receipt, applied, storedVars, cart, pc, error, conflict,
                       rejected, created, gone, netVars>>
    PROVE  Relations'
<1>. USE DEF CartInvariant, Relations
<1>1. /\ ops' = ops /\ flight' = flight /\ created' = created /\ gone' = gone
      /\ cart' = cart /\ wire' = wire /\ sends' = sends /\ pc' = pc
      /\ reads' = reads /\ reply' = reply /\ receipt' = receipt /\ applied' = applied
      /\ error' = error /\ conflict' = conflict /\ rejected' = rejected
  BY DEF storedVars, netVars
<1>2. QueueInvariant'
  BY <1>1, QueueFrame
<1>3. version \in Nat /\ foreign \in Nat
  BY TypeFacts
<1>4. SeenInvariant'
  BY <1>1, <1>3, SeenFrame DEF SeenInvariant
<1>5. OrderInvariant'
  BY <1>1, OrderFrame
<1>6. LogInvariant'
  BY <1>1, LogFrame
<1>7. WireInvariant'
  BY <1>1, <1>3, WireFrame
<1>8. Stale => Stale'
  BY <1>1, StaleFrame
<1>9. Sending' = Sending /\ Confirmed' = Confirmed
  BY <1>1 DEF Sending, Confirmed
<1>10. ReplyInvariant'
  BY <1>1, <1>8, <1>9 DEF ReplyInvariant, Unsent, Read, Reading
<1>. QED
  BY <1>2, <1>4, <1>5, <1>6, <1>7, <1>10

LEMMA EditElsewhereKeeps ==
    ASSUME CartInvariant, EditElsewhere PROVE Relations'
<1>1. version \in Nat /\ foreign \in Nat
  BY TypeFacts DEF CartInvariant
<1>2. version' = version + 1 /\ foreign' = foreign + 1 /\ own' = own /\ header' = header
  BY DEF EditElsewhere, headerVars
<1>3. MovesInvariant' /\ Starts' = Starts
  BY <1>1, <1>2, MovesFrame DEF CartInvariant, Relations
<1>4. version \notin Starts
  BY <1>1, StartsBelow DEF CartInvariant, Relations
<1>5. MovesOn(version, foreign, lines, Starts, version', foreign', lines', Starts')
  BY <1>1, <1>2, <1>3, <1>4 DEF MovesOn
<1>6. UNCHANGED <<receipt, applied, storedVars, cart, pc, error, conflict, rejected,
                  created, gone, netVars>>
  BY DEF EditElsewhere, flagVars
<1>7. version' \in Nat /\ version <= version' /\ foreign' \in Nat
  BY <1>1, <1>2
<1>. QED
  BY <1>3, <1>5, <1>6, <1>7, OnlyTheCartMoves

LEMMA ServeHeaderKeeps ==
    ASSUME CartInvariant, ServeHeader PROVE Relations'
<1>. USE DEF CartInvariant, Relations
<1>1. version \in Nat /\ foreign \in Nat
  BY TypeFacts
<1>2. /\ version' \in {version, version + 1} /\ foreign' = foreign /\ lines' = lines
      /\ own' = own /\ header.state \in {"sent", "orphan"}
      /\ header' = IF header.state = "orphan" THEN NoHeader
                   ELSE [state |-> "served", previous |-> version,
                         current |-> version']
  BY DEF ServeHeader
<1>3. Starts = StartsOf(own)
  BY <1>2 DEF Starts
<1>4. StartsOf(own)' = StartsOf(own)
  BY <1>2 DEF StartsOf
<1>5. Starts' = StartsOf(own) \cup
                  (IF header'.state = "served" /\ header'.current > header'.previous
                   THEN {header'.previous} ELSE {})
  BY <1>4 DEF Starts
<1>6. version \notin Starts
  BY <1>1, StartsBelow
<1>7. version' \in Nat /\ version <= version' /\ foreign' \in Nat
  BY <1>1, <1>2
<1>8. \A p \in own' : p \in Nat \X Nat /\ p[2] = p[1] + 1 /\ p[2] <= version'
  BY <1>1, <1>2, <1>7 DEF MovesInvariant
<1>9. /\ MovesOn(version, foreign, lines, Starts, version', foreign', lines', Starts')
      /\ MovesInvariant'
  <2>1. CASE header.state = "orphan"
    <3>1. header'.state = "none"
      BY <1>2, <2>1 DEF NoHeader
    <3>2. Starts' = Starts
      BY <1>3, <1>5, <3>1
    <3>. QED
      BY <1>1, <1>2, <1>6, <1>8, <3>1, <3>2 DEF MovesOn, MovesInvariant
  <2>2. CASE header.state = "sent"
    <3>1. header'.state = "served" /\ header'.previous = version
          /\ header'.current = version'
      BY <1>2, <2>2
    <3>2. CASE version' = version
      <4>1. Starts' = Starts
        BY <1>1, <1>3, <1>5, <3>1, <3>2
      <4>. QED
        BY <1>1, <1>2, <1>8, <3>1, <3>2, <4>1 DEF MovesOn, MovesInvariant
    <3>3. CASE version' = version + 1
      <4>1. Starts' = Starts \cup {version}
        BY <1>1, <1>3, <1>5, <3>1, <3>3
      <4>. QED
        BY <1>1, <1>2, <1>8, <3>1, <3>3, <4>1 DEF MovesOn, MovesInvariant
    <3>. QED
      BY <1>2, <3>2, <3>3
  <2>. QED
    BY <1>2, <2>1, <2>2
<1>10. UNCHANGED <<receipt, applied, storedVars, cart, pc, error, conflict, rejected,
                   created, gone, netVars>>
  BY DEF ServeHeader, flagVars
<1>. QED
  BY <1>7, <1>9, <1>10, OnlyTheCartMoves

-------------------------------------------------------------------------------
(* The queue.  First what changes neither the cart nor what is queued. *)
LEMMA TheQueueStays ==
    ASSUME CartInvariant,
           UNCHANGED <<serverVars, storedVars, cart, created, gone, wire, sends>>,
           MovesInvariant', Starts' = Starts,
           \A r \in {"pump", "page"} : Read(r)' => Read(r) /\ reads'[r] = reads[r],
           reply' # NoReply => reply' = reply,
           pc' = pc \/ pc' # "sending",
           ReplyInvariant'
    PROVE  Relations'
<1>. USE DEF CartInvariant, Relations
<1>1. /\ version' = version /\ foreign' = foreign /\ lines' = lines
      /\ receipt' = receipt /\ applied' = applied
      /\ ops' = ops /\ flight' = flight /\ created' = created /\ gone' = gone
      /\ cart' = cart /\ wire' = wire /\ sends' = sends
  BY DEF storedVars, serverVars
<1>2. QueueInvariant'
  BY <1>1, QueueFrame
<1>3. version \in Nat /\ foreign \in Nat
  BY TypeFacts
<1>4. MovesOn(version, foreign, lines, Starts, version', foreign', lines', Starts')
  BY <1>1 DEF MovesOn
<1>5. OpsTell' /\ WireTells' /\ ReceiptsTell' /\ CartShows'
  BY <1>1, <1>3, <1>4, SeenFrame
<1>6. ReadsShow'
  BY <1>1 DEF SeenInvariant, ReadsShow
<1>7. ReplyShows'
  BY <1>1 DEF SeenInvariant, ReplyShows
<1>8. OrderInvariant'
  BY <1>1 DEF OrderInvariant
<1>9. LogInvariant'
  BY <1>1, LogFrame
<1>10. WireInvariant'
  BY <1>1, <1>3, WireFrame
<1>. QED
  BY <1>2, <1>5, <1>6, <1>7, <1>8, <1>9, <1>10 DEF SeenInvariant

(* A flag falls or rises, or the queue stops waiting. *)
LEMMA FlagsChange ==
    ASSUME CartInvariant,
           UNCHANGED <<serverVars, storedVars, cart, created, gone, wire, sends, own,
                       header>>,
           \A r \in {"pump", "page"} : Read(r)' => Read(r) /\ reads'[r] = reads[r],
           reply' = NoReply \/ (reply' = reply /\ pc' = pc),
           pc' = pc \/ pc' # "sending",
           Read("pump")' => Reading',
           conflict' => Stale /\ rejected', rejected' => error'
    PROVE  Relations'
<1>. USE DEF CartInvariant, Relations
<1>1. /\ version' = version /\ receipt' = receipt /\ ops' = ops /\ flight' = flight
      /\ own' = own /\ header' = header
  BY DEF storedVars, serverVars
<1>2. version \in Nat
  BY TypeFacts
<1>3. MovesInvariant' /\ Starts' = Starts
  BY <1>1, <1>2, MovesFrame
<1>4. Stale' = Stale /\ Sending' = Sending /\ Confirmed' = Confirmed
  BY <1>1 DEF Stale, Sending, Confirmed
<1>5. ReplyInvariant'
  BY <1>1, <1>4 DEF ReplyInvariant, Unsent
<1>. QED
  BY <1>3, <1>5, TheQueueStays

LEMMA PumpConflictKeeps ==
    ASSUME CartInvariant, PumpConflict PROVE Relations'
<1>. USE DEF CartInvariant, Relations
<1>1. Stale
  <2>1. ops # <<>> /\ Unsent(ops[1])
    BY DEF PumpConflict, CanPump, HeadIsStale
  <2>2. flight = <<>>
    <3>. SUFFICES ASSUME flight # <<>> PROVE FALSE
      OBVIOUS
    <3>1. 1 \in DOMAIN flight
      BY TypeFacts DEF QueueInvariant
    <3>. QED
      BY <2>1, <3>1 DEF QueueInvariant
  <2>3. Len(flight) = 0
    BY <2>2
  <2>4. \A i \in DOMAIN ops : Unsent(ops[i])
    <3>1. \A i \in DOMAIN ops : i \in Nat /\ i >= 1
      BY TypeFacts
    <3>. QED
      BY <2>1, <2>3, <3>1 DEF QueueInvariant
  <2>5. version \in Nat
    BY TypeFacts
  <2>. QED
    BY <2>4, <2>5 DEF Stale, LogInvariant, Unsent, NotSent
<1>2. reply' = reply /\ reply = NoReply
  BY DEF PumpConflict, CanPump, Free, netVars, ReplyInvariant
<1>3. UNCHANGED <<serverVars, storedVars, cart, created, gone, wire, sends, own,
                  header>>
  BY DEF PumpConflict, headerVars, netVars
<1>4. \A r \in {"pump", "page"} : Read(r)' => Read(r) /\ reads'[r] = reads[r]
  BY DEF PumpConflict, netVars, Read
<1>5. pc' = "refreshing" /\ conflict' /\ rejected' /\ error'
  BY DEF PumpConflict
<1>6. /\ pc' = pc \/ pc' # "sending"
      /\ reply' = NoReply \/ (reply' = reply /\ pc' = pc)
      /\ Read("pump")' => Reading'
      /\ (conflict' => Stale /\ rejected') /\ (rejected' => error')
  BY <1>1, <1>2, <1>5 DEF Reading
<1>. QED
  BY <1>3, <1>4, <1>6, FlagsChange, Zenon

LEMMA ReceiveRefusalKeeps ==
    ASSUME CartInvariant, ReceiveRefusal PROVE Relations'
<1>1. reply # NoReply
  BY DEF ReceiveRefusal, NoReply
<1>2. reply.status = "version" => Stale
  BY <1>1 DEF CartInvariant, Relations, ReplyInvariant
<1>3. UNCHANGED <<serverVars, storedVars, cart, created, gone, wire, sends, own,
                  header>>
  BY DEF ReceiveRefusal, headerVars
<1>4. \A r \in {"pump", "page"} : Read(r)' => Read(r) /\ reads'[r] = reads[r]
  BY DEF ReceiveRefusal, Read
<1>5. /\ pc' = "refreshing" /\ (conflict' => Stale) /\ rejected' /\ error'
      /\ reply' = NoReply
  BY <1>2 DEF ReceiveRefusal
<1>6. /\ pc' = pc \/ pc' # "sending"
      /\ reply' = NoReply \/ (reply' = reply /\ pc' = pc)
      /\ Read("pump")' => Reading'
      /\ (conflict' => Stale /\ rejected') /\ (rejected' => error')
  BY <1>5 DEF Reading
<1>. QED
  BY <1>3, <1>4, <1>6, FlagsChange, Zenon

LEMMA TimeoutKeeps ==
    ASSUME CartInvariant, Timeout PROVE Relations'
<1>1. ~Read("pump")
  BY DEF CartInvariant, Relations, ReplyInvariant, Timeout, Reading
<1>2. conflict => Stale /\ rejected
  BY DEF CartInvariant, Relations, ReplyInvariant
<1>3. UNCHANGED <<serverVars, storedVars, cart, created, gone, wire, sends, own,
                  header>>
  BY DEF Timeout, headerVars
<1>4. \A r \in {"pump", "page"} : Read(r)' => Read(r) /\ reads'[r] = reads[r]
  BY DEF Timeout, Read
<1>5. /\ pc' = "idle" /\ reply' = NoReply /\ ~Read("pump")' /\ error'
      /\ conflict' => Stale /\ rejected'
  BY <1>1, <1>2 DEF Timeout, Read
<1>6. /\ pc' = pc \/ pc' # "sending"
      /\ reply' = NoReply \/ (reply' = reply /\ pc' = pc)
      /\ Read("pump")' => Reading'
      /\ (conflict' => Stale /\ rejected') /\ (rejected' => error')
  BY <1>5
<1>. QED
  BY <1>3, <1>4, <1>6, FlagsChange, Zenon

LEMMA RetryKeeps ==
    ASSUME CartInvariant, Retry PROVE Relations'
<1>1. /\ Read("pump") => Reading
      /\ conflict => Stale /\ rejected
  BY DEF CartInvariant, Relations, ReplyInvariant
<1>. QED
  BY <1>1, FlagsChange DEF Retry, headerVars, netVars, Read, Reading

LEMMA RefreshFailsKeeps ==
    ASSUME CartInvariant, NEW r \in {"pump", "page"}, RefreshFails(r) PROVE Relations'
<1>. USE DEF CartInvariant, Relations
<1>1. /\ Read("pump") => Reading
      /\ reply # NoReply => pc = "sending"
      /\ conflict => Stale /\ rejected
      /\ rejected => error
  BY DEF ReplyInvariant
<1>2. reads' = [reads EXCEPT ![r] = NoRead] /\ reads \in [{"pump", "page"} -> ReadShape \cup {NoRead}]
  BY DEF RefreshFails, TypeInvariant
<1>3. \A q \in {"pump", "page"} : /\ Read(q)' => Read(q) /\ reads'[q] = reads[q]
                                  /\ ~Read(r)'
  BY <1>2 DEF Read
<1>4. UNCHANGED <<serverVars, storedVars, cart, created, gone, wire, sends, own,
                  header, conflict, rejected, reply>>
  BY DEF RefreshFails, headerVars
<1>5. error => error'
  BY DEF RefreshFails
<1>6. CASE r = "pump"
  <2>1. Reading /\ pc' = AfterRead
    BY <1>6 DEF RefreshFails
  <2>2. pc' # "sending" /\ reply = NoReply
    BY <1>1, <2>1 DEF AfterRead, Reading
  <2>3. reply' = NoReply /\ ~Read("pump")'
    BY <1>3, <1>4, <1>6, <2>2
  <2>4. /\ UNCHANGED <<serverVars, storedVars, cart, created, gone, wire, sends, own,
                       header>>
        /\ \A q \in {"pump", "page"} : Read(q)' => Read(q) /\ reads'[q] = reads[q]
        /\ pc' = pc \/ pc' # "sending"
        /\ reply' = NoReply \/ (reply' = reply /\ pc' = pc)
        /\ Read("pump")' => Reading'
        /\ (conflict' => Stale /\ rejected') /\ (rejected' => error')
    BY <1>1, <1>3, <1>4, <1>5, <2>2, <2>3
  <2>. QED
    BY <2>4, FlagsChange, Zenon
<1>7. CASE r = "page"
  <2>1. pc' = pc
    BY <1>7 DEF RefreshFails
  <2>2. Read("pump")' => Reading'
    BY <1>1, <1>3, <2>1 DEF Reading
  <2>. QED
    BY <1>1, <1>3, <1>4, <1>5, <2>1, <2>2, FlagsChange
<1>. QED
  BY <1>6, <1>7

LEMMA HeaderUncertainKeeps ==
    ASSUME CartInvariant, HeaderUncertain PROVE Relations'
<1>1. /\ Read("pump") => Reading
      /\ conflict => Stale /\ rejected
      /\ rejected => error
  BY DEF CartInvariant, Relations, ReplyInvariant
<1>. QED
  BY <1>1, FlagsChange DEF HeaderUncertain, flagVars, netVars, Read, Reading

LEMMA PostHeaderKeeps ==
    ASSUME CartInvariant, PostHeader PROVE Relations'
<1>. USE DEF CartInvariant, Relations
<1>1. UNCHANGED <<serverVars, storedVars, cart, created, gone, wire, sends, reads,
                  reply, pc, conflict, rejected, error, own>>
  BY DEF PostHeader, flagVars, netVars
<1>2. header.state = "none" /\ header'.state = "sent"
  <2>1. header \in HeaderShape
    BY DEF TypeInvariant
  <2>. QED
    BY <2>1 DEF PostHeader, HeaderShape
<1>3. Starts' = Starts
  BY <1>1, <1>2 DEF Starts, StartsOf
<1>4. MovesInvariant'
  BY <1>1, <1>2 DEF MovesInvariant, serverVars
<1>5. Stale' = Stale /\ Sending' = Sending /\ Confirmed' = Confirmed
  BY <1>1 DEF Stale, Sending, Confirmed, serverVars, storedVars
<1>6. ReplyInvariant'
  BY <1>1, <1>5 DEF ReplyInvariant, Unsent, serverVars, storedVars, Read, Reading
<1>7. \A r \in {"pump", "page"} : Read(r)' => Read(r) /\ reads'[r] = reads[r]
  BY <1>1 DEF Read
<1>. QED
  BY <1>1, <1>3, <1>4, <1>6, <1>7, TheQueueStays

(* The tab shows another snapshot, or forgets the forms it saved. *)
LEMMA OnlyTheViewChanges ==
    ASSUME CartInvariant,
           UNCHANGED <<serverVars, ops, flight, created, gone, wire, sends>>,
           MovesInvariant', Starts' \subseteq Starts,
           \A i \in DOMAIN ops : /\ ops[i].saw <= cart'.foreign
                                 /\ Unsent(ops[i]) => ops[i].base <= cart'.version,
           CartShows', ReadsShow', ReplyShows', OrderInvariant',
           pc' = pc \/ pc' # "sending",
           ReplyInvariant'
    PROVE  Relations'
<1>. USE DEF CartInvariant, Relations
<1>1. /\ version' = version /\ foreign' = foreign /\ lines' = lines
      /\ receipt' = receipt /\ applied' = applied
      /\ ops' = ops /\ flight' = flight /\ created' = created /\ gone' = gone
      /\ wire' = wire /\ sends' = sends
  BY DEF serverVars
<1>2. QueueInvariant'
  BY <1>1 DEF QueueInvariant, Unsent
<1>3. version \in Nat /\ foreign \in Nat
  BY TypeFacts
<1>4. MovesOn(version, foreign, lines, Starts, version', foreign', lines', Starts')
  BY <1>1 DEF MovesOn
<1>5. OpsTell' /\ WireTells' /\ ReceiptsTell'
  BY <1>1, <1>3, <1>4, SeenFrame
<1>6. LogInvariant'
  BY <1>1, LogFrame
<1>7. WireInvariant'
  BY <1>1, <1>3, WireFrame
<1>. QED
  BY <1>2, <1>5, <1>6, <1>7 DEF SeenInvariant

LEMMA RefreshKeeps ==
    ASSUME CartInvariant, NEW r \in {"pump", "page"}, Refresh(r) PROVE Relations'
<1>. USE DEF CartInvariant, Relations
<1>1. /\ Read("pump") => Reading
      /\ reply # NoReply => pc = "sending"
      /\ conflict => Stale /\ rejected
      /\ rejected => error
  BY DEF ReplyInvariant
<1>2. reads' = [reads EXCEPT ![r] = NoRead] /\ reads \in [{"pump", "page"} -> ReadShape \cup {NoRead}]
  BY DEF Refresh, TypeInvariant
<1>3. \A q \in {"pump", "page"} : /\ Read(q)' => Read(q) /\ reads'[q] = reads[q] /\ q # r
                                  /\ ~Read(r)'
  BY <1>2 DEF Read
<1>4. /\ UNCHANGED <<serverVars, ops, flight, created, gone, wire, sends>>
      /\ UNCHANGED <<own, header, conflict, rejected, error, reply>>
      /\ Read(r)
  BY DEF Refresh, headerVars, Read
<1>5. version' = version /\ version \in Nat /\ foreign' = foreign /\ lines' = lines
  BY <1>4, TypeFacts DEF serverVars
<1>6. MovesInvariant' /\ Starts' = Starts
  BY <1>4, <1>5, MovesFrame
<1>7. /\ cart.version \in Nat /\ reads[r].cart.version \in Nat
      /\ cart.foreign \in Nat /\ reads[r].cart.foreign \in Nat
  <2>1. cart \in Shot /\ reads[r].cart \in Shot
    BY <1>4, TypeFacts DEF ReadShape
  <2>. QED
    BY <2>1 DEF Shot
<1>. DEFINE Covered ==
                \A i \in DOMAIN ops : /\ ops[i].saw <= cart'.foreign
                                      /\ Unsent(ops[i]) => ops[i].base <= cart'.version
<1>8. Covered /\ CartShows' /\ OrderInvariant'
  <2>1. CASE reads[r].cart.version >= cart.version
    <3>1. cart' = reads[r].cart
      BY <2>1 DEF Refresh
    <3>2. cart.foreign <= cart'.foreign /\ cart.version <= cart'.version
      BY <1>4, <1>7, <2>1, <3>1 DEF OrderInvariant, Follows
    <3>3. ASSUME NEW i \in DOMAIN ops
          PROVE  /\ ops[i].saw <= cart'.foreign
                 /\ Unsent(ops[i]) => ops[i].base <= cart'.version
      <4>1. ops[i] \in Op
        BY TypeFacts
      <4>2. ops[i].saw \in Nat /\ ops[i].base \in Nat
        BY <4>1 DEF Op
      <4>3. ops[i].saw <= cart.foreign /\ (Unsent(ops[i]) => ops[i].base <= cart.version)
        BY DEF QueueInvariant
      <4>. QED
        BY <1>7, <3>1, <3>2, <4>2, <4>3
    <3>4. CartShows'
      BY <1>4, <1>5, <1>6, <3>1 DEF SeenInvariant, ReadsShow, CartShows
    <3>5. OrderInvariant'
      BY <1>3, <1>4, <3>1 DEF OrderInvariant
    <3>. QED
      BY <3>3, <3>4, <3>5
  <2>2. CASE ~(reads[r].cart.version >= cart.version)
    <3>1. cart' = cart
      BY <2>2 DEF Refresh
    <3>2. Covered
      BY <3>1 DEF QueueInvariant
    <3>3. CartShows'
      BY <1>5, <1>6, <3>1 DEF SeenInvariant, CartShows
    <3>4. OrderInvariant'
      BY <1>3, <1>4, <3>1 DEF OrderInvariant
    <3>. QED
      BY <3>2, <3>3, <3>4
  <2>. QED
    BY <2>1, <2>2
<1>. HIDE DEF Covered
<1>9. ReadsShow' /\ ReplyShows'
  BY <1>3, <1>4, <1>5, <1>6 DEF SeenInvariant, ReadsShow, ReplyShows
<1>10. /\ pc' = pc \/ pc' # "sending"
       /\ Read("pump")' => Reading'
       /\ reply' # NoReply => pc' = "sending" /\ pc' = pc
  <2>1. CASE r = "pump"
    <3>1. pc' = AfterRead /\ pc \in {"refreshing", "discarding"}
      BY <1>1, <1>4, <2>1 DEF Refresh, Reading
    <3>2. pc' # "sending" /\ reply' = NoReply
      BY <1>1, <1>4, <3>1 DEF AfterRead
    <3>. QED
      BY <1>3, <2>1, <3>2
  <2>2. CASE r = "page"
    <3>1. pc' = pc
      BY <2>2 DEF Refresh
    <3>. QED
      BY <1>1, <1>3, <1>4, <3>1 DEF Reading
  <2>. QED
    BY <2>1, <2>2
<1>11. Stale' = Stale /\ Sending' = Sending /\ Confirmed' = Confirmed
  BY <1>4 DEF Stale, Sending, Confirmed, serverVars
<1>12. ReplyInvariant'
  <2>1. pc' = "sending" => ops' # <<>> /\ ~Unsent(ops'[1])
    BY <1>4, <1>10 DEF ReplyInvariant
  <2>2. receipt' = receipt
    BY <1>4 DEF serverVars
  <2>. QED
    BY <1>4, <1>10, <1>11, <2>1, <2>2 DEF ReplyInvariant
<1>. QED
  BY <1>4, <1>6, <1>8, <1>9, <1>10, <1>12, OnlyTheViewChanges DEF Covered

LEMMA ReloadKeeps ==
    ASSUME CartInvariant, Reload PROVE Relations'
<1>. USE DEF CartInvariant, Relations
<1>1. /\ UNCHANGED <<serverVars, ops, flight, created, gone, wire, sends>>
      /\ own' = {} /\ cart' = Snapshot /\ reply' = NoReply /\ pc' = "idle"
      /\ error' = FALSE /\ conflict' = FALSE /\ rejected' = FALSE
      /\ \A r \in {"pump", "page"} : ~Read(r)'
  BY DEF Reload, storedVars, Read
<1>2. /\ version' = version /\ version \in Nat /\ foreign' = foreign /\ lines' = lines
      /\ foreign \in Nat /\ ops' = ops
  BY <1>1, TypeFacts DEF serverVars
<1>3. header'.state # "served"
  <2>1. header \in HeaderShape
    BY DEF TypeInvariant
  <2>2. CASE header.state = "sent"
    BY <2>1, <2>2 DEF Reload, HeaderShape
  <2>3. CASE header.state = "served"
    BY <2>3 DEF Reload, NoHeader
  <2>4. CASE header.state \notin {"sent", "served"}
    BY <2>4 DEF Reload
  <2>. QED
    BY <2>2, <2>3, <2>4
<1>4. Starts' = {}
  BY <1>1, <1>3 DEF Starts, StartsOf
<1>5. MovesInvariant'
  BY <1>1, <1>3 DEF MovesInvariant
<1>6. /\ cart'.version = version /\ cart'.foreign = foreign
      /\ Shows(cart', version, foreign, lines, {})
  <2>1. /\ Snapshot.version = version /\ Snapshot.foreign = foreign
        /\ Snapshot.lines = lines
    BY DEF Snapshot
  <2>2. Shows(Snapshot, version, foreign, lines, {})
    BY <1>2, <2>1, NowShows
  <2>. QED
    BY <1>1, <2>1, <2>2
<1>7. CartShows' /\ ReadsShow' /\ ReplyShows'
  BY <1>1, <1>2, <1>4, <1>6 DEF CartShows, ReadsShow, ReplyShows
<1>8. OrderInvariant'
  BY <1>1 DEF OrderInvariant
<1>9. ASSUME NEW i \in DOMAIN ops
      PROVE  /\ ops[i].saw <= cart'.foreign
             /\ Unsent(ops[i]) => ops[i].base <= cart'.version
  <2>1. Tells(Basis(ops[i]), ops[i].saw, version, foreign, Starts)
    BY DEF SeenInvariant, OpsTell
  <2>. QED
    BY <1>6, <2>1 DEF Tells, Basis
<1>10. ReplyInvariant'
  BY <1>1 DEF ReplyInvariant
<1>. QED
  BY <1>1, <1>4, <1>5, <1>7, <1>8, <1>9, <1>10, OnlyTheViewChanges

(* What can no longer take effect was carried by requests for an older cart. *)
LEMMA StaleIsDead ==
    ASSUME CartInvariant, Stale, NEW m \in wire,
           NEW i \in DOMAIN m.ops, NEW j \in DOMAIN ops, ops[j].key = m.ops[i].key
    PROVE  Dead(m)
<1>1. version \in Nat /\ (m.version # version => Dead(m))
  BY TypeFacts, WireFacts DEF CartInvariant
<1>2. m.version # version
  BY <1>1, LiveMatch DEF Stale
<1>. QED
  BY <1>1, <1>2

LEMMA TypedOps ==
    ASSUME TypeInvariant, NEW i \in DOMAIN ops
    PROVE  /\ ops[i] \in Op /\ i \in Nat /\ i >= 1 /\ i <= Len(ops) /\ Len(ops) \in Nat
           /\ ops[i].key \in Keys /\ ops[i].key \in Nat /\ ops[i].base \in Nat
           /\ ops[i].saw \in Nat /\ ops[i].version \in Int
           /\ Unsent(ops[i]) \/ ops[i].version \in Nat
<1>1. ops \in Seq(Op)
  BY TypeFacts
<1>2. ops[i] \in Op /\ i \in 1 .. Len(ops) /\ Len(ops) \in Nat
  BY <1>1
<1>3. /\ ops[i].key \in Keys /\ ops[i].base \in Nat
      /\ ops[i].saw \in Nat /\ ops[i].version \in Nat \cup {NotSent}
  BY <1>2 DEF Op
<1>. QED
  BY <1>2, <1>3 DEF Keys, NotSent, Unsent

LEMMA AcceptConflictKeeps ==
    ASSUME CartInvariant, AcceptConflict PROVE Relations'
<1>. USE DEF CartInvariant, Relations
<1>1. Stale
  BY DEF AcceptConflict, ReplyInvariant
<1>2. /\ version' = version /\ foreign' = foreign /\ lines' = lines
      /\ receipt' = receipt /\ applied' = applied /\ own' = own /\ header' = header
      /\ created' = created /\ gone' = gone /\ cart' = cart /\ wire' = wire
      /\ sends' = sends /\ reply' = reply /\ reads' = reads /\ pc' = pc
      /\ flight' = <<>> /\ error' = FALSE /\ conflict' = FALSE /\ rejected' = FALSE
      /\ pc # "sending"
  BY DEF AcceptConflict, serverVars, headerVars, netVars, Free
<1>3. version \in Nat /\ foreign \in Nat /\ cart.version \in Nat /\ cart.foreign \in Nat
  BY TypeFacts DEF Shot
<1>4. /\ DOMAIN ops' = DOMAIN ops
      /\ \A i \in DOMAIN ops :
           /\ ops'[i].key = ops[i].key /\ Content(ops'[i]) = Content(ops[i])
           /\ ops'[i].base = cart.version /\ ops'[i].saw = cart.foreign
           /\ ops'[i].version = NotSent /\ Unsent(ops'[i])
  <2>1. ops' = [i \in DOMAIN ops |->
                  [ops[i] EXCEPT !.version = NotSent, !.base = cart.version,
                                 !.saw = cart.foreign]]
    BY DEF AcceptConflict
  <2>2. DOMAIN ops' = DOMAIN ops
    BY <2>1
  <2>3. ASSUME NEW i \in DOMAIN ops
        PROVE  /\ ops'[i].key = ops[i].key /\ Content(ops'[i]) = Content(ops[i])
               /\ ops'[i].base = cart.version /\ ops'[i].saw = cart.foreign
               /\ ops'[i].version = NotSent /\ Unsent(ops'[i])
    <3>1. ops'[i] = [ops[i] EXCEPT !.version = NotSent, !.base = cart.version,
                                   !.saw = cart.foreign]
      BY <2>1
    <3>2. ops[i] \in Op
      BY TypedOps
    <3>. QED
      BY <3>1, <3>2 DEF Op, Content, Unsent
  <2>. QED
    BY <2>2, <2>3
<1>5. KeysOf(ops') = KeysOf(ops)
  BY <1>4 DEF KeysOf
<1>6. QueueInvariant'
  BY <1>2, <1>3, <1>4, TypedOps DEF QueueInvariant
<1>7. MovesInvariant' /\ Starts' = Starts
  BY <1>2, <1>3, MovesFrame
<1>8. OpsTell'
  <2>1. Tells(cart.version, cart.foreign, version, foreign, Starts)
    BY DEF SeenInvariant, CartShows, Shows
  <2>2. \A i \in DOMAIN ops' : Basis(ops'[i]) = cart.version /\ ops'[i].saw = cart.foreign
    BY <1>4 DEF Basis
  <2>. QED
    BY <1>2, <1>7, <2>1, <2>2 DEF OpsTell, Basis
<1>9. MovesOn(version, foreign, lines, Starts, version', foreign', lines', Starts')
  BY <1>2, <1>7 DEF MovesOn
<1>10. WireTells' /\ ReceiptsTell' /\ CartShows' /\ ReadsShow' /\ ReplyShows'
  BY <1>2, <1>3, <1>9, SeenFrame
<1>11. OrderInvariant'
  BY <1>2, OrderFrame
<1>12. Confirmed' = Confirmed
  BY <1>2 DEF Confirmed
<1>13. \A i \in DOMAIN ops' : ops'[i].key \notin Confirmed
  BY <1>1, <1>4 DEF Stale
<1>14. LogInvariant'
  <2>1. \A i \in DOMAIN ops : \A k \in Confirmed :
           ops[i].key < k => ops[i].key \in Confirmed
    BY DEF LogInvariant
  <2>2. \A i \in DOMAIN ops' : \A k \in Confirmed : ~(ops'[i].key < k)
    BY <1>4, <1>13, <2>1
  <2>3. OnceInOrder'
    BY <1>2 DEF LogInvariant, OnceInOrder
  <2>. QED
    BY <1>2, <1>5, <1>12, <1>13, <2>2, <2>3 DEF LogInvariant
<1>15. WireInvariant'
  <2>. SUFFICES ASSUME NEW m \in wire
                PROVE  /\ \A i \in DOMAIN m.ops, j \in DOMAIN ops' :
                            ops'[j].key < m.ops[i].key => ops'[j].key \in KeysOf(m.ops)
                       /\ \A i \in DOMAIN m.ops, j \in DOMAIN ops' :
                            ops'[j].key = m.ops[i].key => Dead(m)
    BY <1>2 DEF WireInvariant, Dead, KeysOf
  <2>1. \A i \in DOMAIN m.ops, j \in DOMAIN ops :
           ops[j].key < m.ops[i].key => ops[j].key \in KeysOf(m.ops)
    BY DEF WireInvariant
  <2>2. \A i \in DOMAIN m.ops, j \in DOMAIN ops : ops[j].key = m.ops[i].key => Dead(m)
    BY <1>1, StaleIsDead
  <2>. QED
    BY <1>4, <2>1, <2>2
<1>16. ReplyInvariant'
  BY <1>2 DEF ReplyInvariant, Read, Reading
<1>. QED
  BY <1>6, <1>7, <1>8, <1>10, <1>11, <1>14, <1>15, <1>16 DEF SeenInvariant

LEMMA DiscardKeeps ==
    ASSUME CartInvariant, Discard PROVE Relations'
<1>. USE DEF CartInvariant, Relations
<1>1. conflict => Stale
  BY DEF ReplyInvariant
<1>2. /\ version' = version /\ foreign' = foreign /\ lines' = lines
      /\ receipt' = receipt /\ applied' = applied /\ own' = own /\ header' = header
      /\ created' = created /\ cart' = cart /\ wire' = wire
      /\ sends' = sends /\ reply' = reply /\ reads' = reads /\ pc' = "discarding"
      /\ ops' = <<>> /\ flight' = <<>>
      /\ error' = FALSE /\ conflict' = FALSE /\ rejected' = FALSE
      /\ pc # "sending"
  BY DEF Discard, serverVars, headerVars, netVars, Free
<1>3. version \in Nat /\ foreign \in Nat
  BY TypeFacts
<1>4. DOMAIN ops' = {} /\ KeysOf(ops') = {}
  BY <1>2 DEF KeysOf
<1>5. \A k \in Keys : gone'[k] = IF k \in KeysOf(ops)
                                 THEN IF conflict THEN "conflict" ELSE "refused"
                                 ELSE gone[k]
  BY DEF Discard
<1>6. QueueInvariant'
  BY <1>2, <1>4 DEF QueueInvariant
<1>7. MovesInvariant' /\ Starts' = Starts
  BY <1>2, <1>3, MovesFrame
<1>8. OpsTell'
  BY <1>4 DEF OpsTell
<1>9. MovesOn(version, foreign, lines, Starts, version', foreign', lines', Starts')
  BY <1>2, <1>7 DEF MovesOn
<1>10. WireTells' /\ ReceiptsTell' /\ CartShows' /\ ReadsShow' /\ ReplyShows'
  BY <1>2, <1>3, <1>9, SeenFrame
<1>11. OrderInvariant'
  BY <1>2, OrderFrame
<1>12. Confirmed' = Confirmed
  BY <1>2 DEF Confirmed
<1>13. LogInvariant'
  <2>1. \A k \in Confirmed' : k <= created' /\ gone'[k] # "conflict"
    <3>. SUFFICES ASSUME NEW k \in Confirmed
                  PROVE  k <= created /\ gone'[k] # "conflict"
      BY <1>2, <1>12
    <3>1. k \in Keys /\ k <= created /\ gone[k] # "conflict"
      BY DEF LogInvariant, Confirmed
    <3>2. k \in KeysOf(ops) => ~conflict
      BY <1>1 DEF Stale, KeysOf
    <3>. QED
      BY <1>5, <3>1, <3>2
  <2>2. \A k \in 1 .. created' : k \in Confirmed' \/ gone'[k] # "no"
    <3>. SUFFICES ASSUME NEW k \in 1 .. created
                  PROVE  k \in Confirmed \/ gone'[k] # "no"
      BY <1>2, <1>12
    <3>1. k \in Keys
      BY CartAssumption DEF Keys, TypeInvariant, CartTypeOK
    <3>2. k \in KeysOf(ops) \cup Confirmed \/ gone[k] # "no"
      BY DEF LogInvariant
    <3>. QED
      BY <1>5, <3>1, <3>2
  <2>3. \A k \in KeysOf(ops) : k <= created
    BY DEF QueueInvariant, KeysOf
  <2>4. \A k \in Keys : gone'[k] # "no" => k <= created'
    BY <1>2, <1>5, <2>3 DEF LogInvariant
  <2>5. OnceInOrder'
    <3>. SUFFICES ASSUME NEW i \in DOMAIN applied, NEW j \in DOMAIN applied, i < j
                  PROVE  /\ applied[i] # applied[j]
                         /\ gone'[applied[j]] = "no" => applied[i] < applied[j]
      BY <1>2 DEF OnceInOrder
    <3>1. applied[j] \in Keys
      BY DEF LogInvariant, Confirmed
    <3>2. gone'[applied[j]] = "no" => gone[applied[j]] = "no"
      BY <1>5, <3>1
    <3>. QED
      BY <3>2 DEF LogInvariant, OnceInOrder
  <2>6. \A i \in DOMAIN applied' : applied'[i] \in Confirmed'
    BY <1>2, <1>12 DEF LogInvariant
  <2>. QED
    BY <1>4, <2>1, <2>2, <2>4, <2>5, <2>6 DEF LogInvariant
<1>14. WireInvariant'
  <2>. SUFFICES ASSUME NEW m \in wire, NEW i \in DOMAIN m.ops,
                       gone'[m.ops[i].key] = "conflict"
                PROVE  Dead(m)
    BY <1>2, <1>4 DEF WireInvariant, Dead, KeysOf
  <2>1. CASE m.ops[i].key \in KeysOf(ops)
    <3>1. Stale
      BY <1>1, <1>5, <2>1, WireFacts
    <3>. QED
      BY <2>1, <3>1, StaleIsDead DEF KeysOf
  <2>2. CASE m.ops[i].key \notin KeysOf(ops)
    <3>1. gone[m.ops[i].key] = "conflict"
      BY <1>5, <2>2, WireFacts
    <3>. QED
      BY <3>1 DEF WireInvariant
  <2>. QED
    BY <2>1, <2>2
<1>15. ReplyInvariant'
  BY <1>2 DEF ReplyInvariant, Read, Reading
<1>. QED
  BY <1>6, <1>7, <1>8, <1>10, <1>11, <1>13, <1>14, <1>15 DEF SeenInvariant

(* Advanced over the same moves, versions keep their order. *)
LEMMA AdvanceKeepsOrder ==
    ASSUME NEW moves, NEW v \in Nat, NEW u, Advances(moves, v, u),
           NEW v2 \in Nat, NEW u2, Advances(moves, v2, u2), v <= v2
    PROVE  u <= u2
<1>1. u \in Nat /\ u2 \in Nat /\ v2 <= u2
  BY DEF Advances
<1>. SUFFICES ASSUME u2 < u PROVE FALSE
  BY <1>1
<1>2. u2 \in v .. (u - 1)
  BY <1>1
<1>. QED
  BY <1>2 DEF Advances

(* What was not sent comes after what was. *)
LEMMA UnsentBehind ==
    ASSUME TypeInvariant, QueueInvariant, NEW i \in DOMAIN ops, NEW j \in DOMAIN ops,
           i < j, Unsent(ops[i])
    PROVE  Unsent(ops[j])
<1>. SUFFICES ASSUME ~Unsent(ops[j]) PROVE FALSE
  OBVIOUS
<1>1. i \in Nat /\ j \in Nat /\ i >= 1
  BY TypedOps
<1>2. j <= Len(flight)
  BY <1>1 DEF QueueInvariant
<1>3. flight \in Seq(Op) /\ Len(flight) \in Nat
  BY TypeFacts
<1>4. flight # <<>> /\ i \in DOMAIN flight
  BY <1>1, <1>2, <1>3
<1>. QED
  BY <1>4 DEF QueueInvariant

(* An operation that was sent is not edited, and no edit changes whose it is. *)
LEMMA EditedInPlace ==
    ASSUME CartInvariant,
           UNCHANGED <<version, receipt, applied, flight, created, gone, wire, sends,
                       reply, reads, pc, error, conflict, rejected>>,
           DOMAIN ops' = DOMAIN ops,
           \A i \in DOMAIN ops : /\ ops'[i].key = ops[i].key
                                 /\ ops'[i].version = ops[i].version
                                 /\ ~Unsent(ops[i]) => ops'[i] = ops[i]
    PROVE  LogInvariant' /\ WireInvariant' /\ ReplyInvariant'
<1>. USE DEF CartInvariant, Relations
<1>1. KeysOf(ops') = KeysOf(ops)
  BY DEF KeysOf
<1>2. Confirmed' = Confirmed
  BY DEF Confirmed
<1>3. \A i \in DOMAIN ops : Unsent(ops'[i]) <=> Unsent(ops[i])
  BY DEF Unsent
<1>4. LogInvariant'
  <2>1. \A i \in DOMAIN ops' : ops'[i].key \in Confirmed' =>
         /\ ~Unsent(ops'[i])
         /\ receipt'[ops'[i].key].content = Content(ops'[i])
         /\ receipt'[ops'[i].key].saw = ops'[i].saw
    BY <1>2, <1>3 DEF LogInvariant
  <2>2. \A i \in DOMAIN ops' : \A k \in Confirmed' :
         ops'[i].key < k => ops'[i].key \in Confirmed'
    BY <1>2 DEF LogInvariant
  <2>3. OnceInOrder'
    BY DEF LogInvariant, OnceInOrder
  <2>. QED
    BY <1>1, <1>2, <2>1, <2>2, <2>3 DEF LogInvariant
<1>5. pc = "sending" => Sending' = Sending /\ ops' # <<>> /\ ~Unsent(ops'[1])
  <2>. SUFFICES ASSUME pc = "sending"
                PROVE  Sending' = Sending /\ ops' # <<>> /\ ~Unsent(ops'[1])
    OBVIOUS
  <2>1. ops # <<>> /\ ~Unsent(ops[1])
    BY DEF ReplyInvariant
  <2>2. 1 \in DOMAIN ops
    BY <2>1, TypeFacts
  <2>3. ops'[1] = ops[1] /\ ops' # <<>>
    BY <2>1, <2>2
  <2>. QED
    BY <2>1, <2>3 DEF Sending
<1>6. WireInvariant'
  <2>. SUFFICES ASSUME NEW m \in wire
                PROVE  /\ \A i \in DOMAIN m.ops, j \in DOMAIN ops' :
                            ops'[j].key < m.ops[i].key => ops'[j].key \in KeysOf(m.ops)
                       /\ \A i \in DOMAIN m.ops, j \in DOMAIN ops' :
                            ops'[j].key = m.ops[i].key /\ ~Dead(m) =>
                              /\ ops'[j].version = m.version
                              /\ Content(ops'[j]) = Content(m.ops[i])
                              /\ ops'[j].saw = m.ops[i].saw
    BY <1>5 DEF WireInvariant, Dead, KeysOf, Content
  <2>1. m.version # NotSent
    BY WireFacts DEF NotSent
  <2>2. ASSUME NEW i \in DOMAIN m.ops, NEW j \in DOMAIN ops,
               ops[j].key = m.ops[i].key, ~Dead(m)
        PROVE  /\ ops'[j] = ops[j]
               /\ ops[j].version = m.version
               /\ Content(ops[j]) = Content(m.ops[i])
               /\ ops[j].saw = m.ops[i].saw
    BY <2>1, <2>2 DEF WireInvariant, Unsent
  <2>3. \A i \in DOMAIN m.ops, j \in DOMAIN ops :
            ops[j].key < m.ops[i].key => ops[j].key \in KeysOf(m.ops)
    BY DEF WireInvariant
  <2>. QED
    BY <2>2, <2>3
<1>7. Stale => Stale'
  BY <1>2 DEF Stale
<1>8. ReplyInvariant'
  <2>1. Read("pump")' => Reading'
    BY DEF ReplyInvariant, Read, Reading
  <2>2. reply' # NoReply => Sending' = Sending
    BY <1>5 DEF ReplyInvariant
  <2>. QED
    BY <1>2, <1>5, <1>7, <2>1, <2>2 DEF ReplyInvariant
<1>. QED
  BY <1>4, <1>6, <1>8

(* The tab learns that it saved a form: versions move by it, wherever they are. *)
LEMMA HeaderSavedKeeps ==
    ASSUME CartInvariant, HeaderSaved PROVE Relations'
<1>. USE DEF CartInvariant, Relations
<1>1. /\ version' = version /\ foreign' = foreign /\ lines' = lines
      /\ receipt' = receipt /\ applied' = applied /\ flight' = flight
      /\ created' = created /\ gone' = gone /\ wire' = wire
      /\ sends' = sends /\ reply' = reply /\ reads' = reads /\ pc' = pc
      /\ error' = error /\ conflict' = conflict /\ rejected' = rejected
      /\ header' = NoHeader /\ header.state = "served"
      /\ own' = own \cup {p \in {<<header.previous, header.current>>} : p[2] > p[1]}
  BY DEF HeaderSaved, serverVars, flagVars, netVars
<1>2. version \in Nat /\ foreign \in Nat /\ cart \in Shot /\ header \in HeaderShape
  BY TypeFacts DEF TypeInvariant
<1>3. /\ cart.version \in Nat /\ cart.foreign \in Nat
      /\ header.previous \in Nat /\ header.current \in Nat
  BY <1>2 DEF Shot, HeaderShape
<1>4. header'.state = "none"
  BY <1>1 DEF NoHeader
<1>5. MovesInvariant'
  <2>1. \A p \in own' : p \in Nat \X Nat /\ p[2] = p[1] + 1 /\ p[2] <= version
    BY <1>1, <1>3 DEF MovesInvariant
  <2>. QED
    BY <1>1, <1>4, <2>1 DEF MovesInvariant
<1>6. Starts' = StartsOf(own') /\ Starts' = Starts
  <2>1. Starts' = StartsOf(own')
    BY <1>4 DEF Starts, StartsOf
  <2>2. StartsOf(own') = StartsOf(own) \cup
           (IF header.current > header.previous THEN {header.previous} ELSE {})
    <3>. DEFINE new == <<header.previous, header.current>>
    <3>1. new[1] = header.previous /\ new[2] = header.current
      OBVIOUS
    <3>2. own' = own \cup {p \in {new} : p[2] > p[1]}
      BY <1>1
    <3>. HIDE DEF new
    <3>3. CASE header.current > header.previous
      <4>1. own' = own \cup {new}
        BY <3>1, <3>2, <3>3
      <4>. QED
        BY <3>1, <3>3, <4>1 DEF StartsOf
    <3>4. CASE ~(header.current > header.previous)
      <4>1. own' = own
        BY <3>1, <3>2, <3>4
      <4>. QED
        BY <3>4, <4>1
    <3>. QED
      BY <3>3, <3>4
  <2>. QED
    BY <1>1, <2>1, <2>2 DEF Starts
<1>7. \A v \in Nat : Advances(own', v, AdvanceBy(own', v))
  BY <1>1, <1>2, <1>5, AdvanceBySteps DEF MovesInvariant
<1>8. \A x \in Starts : x < version
  BY StartsBelow
<1>. DEFINE Adv(v) == AdvanceBy(own', v)
<1>9. /\ DOMAIN ops' = DOMAIN ops
      /\ \A i \in DOMAIN ops :
           /\ ops'[i].key = ops[i].key /\ Content(ops'[i]) = Content(ops[i])
           /\ ops'[i].saw = ops[i].saw /\ ops'[i].version = ops[i].version
           /\ Unsent(ops'[i]) <=> Unsent(ops[i])
           /\ Unsent(ops[i]) => ops'[i].base = Adv(ops[i].base)
           /\ ~Unsent(ops[i]) => ops'[i] = ops[i]
  <2>1. ops' = [i \in DOMAIN ops |->
                  IF Unsent(ops[i]) THEN [ops[i] EXCEPT !.base = AdvanceBy(own', @)]
                                    ELSE ops[i]]
    BY DEF HeaderSaved
  <2>2. DOMAIN ops' = DOMAIN ops
    BY <2>1
  <2>3. ASSUME NEW i \in DOMAIN ops
        PROVE  /\ ops'[i].key = ops[i].key /\ Content(ops'[i]) = Content(ops[i])
               /\ ops'[i].saw = ops[i].saw /\ ops'[i].version = ops[i].version
               /\ Unsent(ops'[i]) <=> Unsent(ops[i])
               /\ Unsent(ops[i]) => ops'[i].base = Adv(ops[i].base)
               /\ ~Unsent(ops[i]) => ops'[i] = ops[i]
    <3>1. ops[i] \in Op
      BY TypedOps
    <3>2. CASE Unsent(ops[i])
      <4>1. ops'[i] = [ops[i] EXCEPT !.base = Adv(ops[i].base)]
        BY <2>1, <3>2
      <4>. HIDE DEF Adv
      <4>. QED
        BY <3>1, <3>2, <4>1 DEF Op, Content, Unsent
    <3>3. CASE ~Unsent(ops[i])
      BY <2>1, <3>3
    <3>. QED
      BY <3>2, <3>3
  <2>. QED
    BY <2>2, <2>3
<1>10. cart'.version = Adv(cart.version) /\ cart'.foreign = cart.foreign /\ cart'.lines = cart.lines
  BY <1>2 DEF HeaderSaved, Shot
<1>. HIDE DEF Adv
<1>11. \A v \in Nat : Advances(own', v, Adv(v))
  BY <1>7 DEF Adv
<1>12. \A v \in Nat : Adv(v) \in Nat /\ v <= Adv(v)
  BY <1>11 DEF Advances
<1>13. \A v \in Nat : \A f : Tells(v, f, version, foreign, Starts)
                                 => Tells(Adv(v), f, version, foreign, Starts)
  <2>. SUFFICES ASSUME NEW v \in Nat, NEW f, Tells(v, f, version, foreign, Starts)
                PROVE  Tells(Adv(v), f, version, foreign, Starts)
    OBVIOUS
  <2>1. \A x \in v .. (Adv(v) - 1) : x \in Starts
    BY <1>6, <1>11 DEF Advances
  <2>. QED
    BY <1>2, <1>8, <1>12, <2>1, AdvancedTells
<1>14. \A v \in Nat : QuietFrom(Adv(v), version, Starts) => QuietFrom(v, version, Starts)
  <2>. SUFFICES ASSUME NEW v \in Nat, QuietFrom(Adv(v), version, Starts),
                       NEW x \in v .. (version - 1)
                PROVE  x \in Starts
    BY DEF QuietFrom
  <2>1. \A y \in v .. (Adv(v) - 1) : y \in Starts
    BY <1>6, <1>11 DEF Advances
  <2>2. x \in v .. (Adv(v) - 1) \/ x \in Adv(v) .. (version - 1)
    BY <1>2, <1>12
  <2>. QED
    BY <2>1, <2>2 DEF QuietFrom
<1>15. \A v, w \in Nat : v <= w => Adv(v) <= Adv(w)
  BY <1>11, AdvanceKeepsOrder
<1>16. QueueInvariant'
  <2>1. ASSUME NEW i \in DOMAIN ops, NEW j \in DOMAIN ops, i < j
        PROVE  /\ ops'[i].key < ops'[j].key
               /\ ops'[i].saw <= ops'[j].saw
               /\ Unsent(ops'[i]) => ops'[i].base <= ops'[j].base
    <3>1. /\ ops[i].key < ops[j].key /\ ops[i].saw <= ops[j].saw
          /\ Unsent(ops[i]) => ops[i].base <= ops[j].base
      BY <2>1 DEF QueueInvariant
    <3>2. Unsent(ops[i]) => Unsent(ops[j])
      BY <2>1, UnsentBehind
    <3>. QED
      BY <1>9, <1>15, <3>1, <3>2, TypedOps
  <2>2. ASSUME NEW i \in DOMAIN ops
        PROVE  /\ ops'[i].key <= created /\ gone[ops'[i].key] = "no"
               /\ ops'[i].saw <= cart'.foreign
               /\ Unsent(ops'[i]) => ops'[i].base <= cart'.version
               /\ ~Unsent(ops'[i]) => i <= Len(flight) \/ i = 1
    <3>1. /\ ops[i].key <= created /\ gone[ops[i].key] = "no"
          /\ ops[i].saw <= cart.foreign
          /\ Unsent(ops[i]) => ops[i].base <= cart.version
          /\ ~Unsent(ops[i]) => i <= Len(flight) \/ i = 1
      BY DEF QueueInvariant
    <3>. QED
      BY <1>3, <1>9, <1>10, <1>15, <3>1, TypedOps
  <2>3. flight # <<>> => \A i \in DOMAIN flight : flight[i] = ops'[i]
    <3>. SUFFICES ASSUME flight # <<>>, NEW i \in DOMAIN flight
                  PROVE  flight[i] = ops'[i]
      OBVIOUS
    <3>1. flight[i] = ops[i] /\ ~Unsent(flight[i])
      BY DEF QueueInvariant
    <3>2. i \in DOMAIN ops
      BY TypeFacts DEF QueueInvariant
    <3>. QED
      BY <1>9, <3>1, <3>2
  <2>4. Len(ops') = Len(ops)
    <3>1. ops \in Seq(Op) /\ DOMAIN ops = 1 .. Len(ops) /\ Len(ops) \in Nat
      BY TypeFacts
    <3>2. ops' = [i \in 1 .. Len(ops) |-> ops'[i]]
      BY <1>9, <3>1 DEF HeaderSaved
    <3>. QED
      BY <3>1, <3>2
  <2>5. flight # <<>> =>
         /\ 1 < Len(flight) /\ Len(flight) <= Len(ops')
         /\ \A i \in DOMAIN flight :
              /\ flight[i] = ops'[i]
              /\ ~Unsent(flight[i]) /\ flight[i].version = flight[1].version
    BY <2>3, <2>4 DEF QueueInvariant
  <2>. QED
    BY <1>1, <1>9, <2>1, <2>2, <2>5 DEF QueueInvariant
<1>17. OpsTell'
  <2>. SUFFICES ASSUME NEW i \in DOMAIN ops
                PROVE  Tells(Basis(ops'[i]), ops'[i].saw, version, foreign, Starts)
    BY <1>1, <1>6, <1>9 DEF OpsTell, Basis, Unsent
  <2>1. Tells(Basis(ops[i]), ops[i].saw, version, foreign, Starts)
    BY DEF SeenInvariant, OpsTell
  <2>2. CASE Unsent(ops[i])
    <3>1. Basis(ops'[i]) = Adv(ops[i].base) /\ Basis(ops[i]) = ops[i].base
      BY <1>9, <2>2 DEF Basis
    <3>. QED
      BY <1>9, <1>13, <2>1, <3>1, TypedOps
  <2>3. CASE ~Unsent(ops[i])
    BY <1>9, <2>1, <2>3
  <2>. QED
    BY <2>2, <2>3
<1>18. MovesOn(version, foreign, lines, Starts, version', foreign', lines', Starts')
  BY <1>1, <1>6 DEF MovesOn
<1>19. WireTells' /\ ReceiptsTell' /\ ReadsShow' /\ ReplyShows'
  BY <1>1, <1>2, <1>18, SeenFrame
<1>20. CartShows'
  <2>1. Shows(cart, version, foreign, lines, Starts)
    BY DEF SeenInvariant, CartShows
  <2>2. /\ Tells(cart'.version, cart'.foreign, version, foreign, Starts)
        /\ QuietFrom(cart'.version, version, Starts) => cart'.lines = lines
    BY <1>3, <1>10, <1>13, <1>14, <2>1 DEF Shows
  <2>. QED
    BY <1>1, <1>6, <2>2 DEF CartShows, Shows
<1>21. OrderInvariant'
  <2>1. \A s : s.version \in Nat /\ Follows(cart, s) => Follows(cart', s)
    BY <1>3, <1>10, <1>12 DEF Follows
  <2>2. reply # NoReply => reply.cart.version \in Nat
    BY TypeFacts DEF ReplyShape, Shot
  <2>3. \A r \in {"pump", "page"} : Read(r) => reads[r].cart.version \in Nat
    BY TypeFacts DEF ReadShape, Shot
  <2>. QED
    BY <1>1, <2>1, <2>2, <2>3 DEF OrderInvariant, Read
<1>22. LogInvariant' /\ WireInvariant' /\ ReplyInvariant'
  BY <1>1, <1>9, EditedInPlace
<1>. QED
  BY <1>5, <1>16, <1>17, <1>19, <1>20, <1>21, <1>22 DEF SeenInvariant

(* The queue changes, and neither the cart nor anything that shows it. *)
LEMMA OnlyTheQueueChanges ==
    ASSUME CartInvariant, UNCHANGED <<serverVars, own, header, cart, wire, reads, reply>>
    PROVE  /\ MovesInvariant' /\ Starts' = Starts
           /\ WireTells' /\ ReceiptsTell' /\ CartShows' /\ ReadsShow' /\ ReplyShows'
           /\ OrderInvariant'
<1>. USE DEF CartInvariant, Relations
<1>1. /\ version' = version /\ foreign' = foreign /\ lines' = lines /\ receipt' = receipt
      /\ own' = own /\ header' = header /\ cart' = cart /\ wire' = wire
      /\ reads' = reads /\ reply' = reply
  BY DEF serverVars
<1>2. version \in Nat /\ foreign \in Nat
  BY TypeFacts
<1>3. MovesInvariant' /\ Starts' = Starts
  BY <1>1, <1>2, MovesFrame
<1>4. MovesOn(version, foreign, lines, Starts, version', foreign', lines', Starts')
  BY <1>1, <1>3 DEF MovesOn
<1>5. WireTells' /\ ReceiptsTell' /\ CartShows' /\ ReadsShow' /\ ReplyShows'
  BY <1>1, <1>2, <1>4, SeenFrame
<1>6. OrderInvariant'
  BY <1>1, OrderFrame
<1>. QED
  BY <1>3, <1>5, <1>6

LEMMA CoalesceKeeps ==
    ASSUME CartInvariant, NEW line, NEW n, Coalesce(line, n) PROVE Relations'
<1>. USE DEF CartInvariant, Relations
<1>1. /\ UNCHANGED <<serverVars, own, header, cart, wire, reads, reply>>
      /\ UNCHANGED <<version, receipt, applied, flight, created, gone, wire, sends,
                     reply, reads, pc, error, conflict, rejected>>
      /\ cart' = cart /\ foreign' = foreign
  BY DEF Coalesce, serverVars, flagVars, headerVars, netVars
<1>2. ops \in Seq(Op) /\ ops # <<>> /\ Unsent(Last(ops))
  BY TypeFacts DEF Coalesce, Coalesces
<1>. DEFINE N == Len(ops)
<1>3. N \in DOMAIN ops /\ Unsent(ops[N]) /\ DOMAIN ops = 1 .. N /\ N \in Nat
  BY <1>2 DEF Last
<1>4. ops' = [ops EXCEPT ![N] = [ops[N] EXCEPT !.quantity = n]]
  BY <1>3 DEF Coalesce
<1>5. DOMAIN ops' = DOMAIN ops /\ Len(ops') = Len(ops)
  BY <1>2, <1>3, <1>4
<1>. HIDE DEF N
<1>6. \A i \in DOMAIN ops : /\ ops'[i].key = ops[i].key
                            /\ ops'[i].version = ops[i].version
                            /\ ops'[i].saw = ops[i].saw /\ ops'[i].base = ops[i].base
                            /\ ~Unsent(ops[i]) => ops'[i] = ops[i]
  <2>. SUFFICES ASSUME NEW i \in DOMAIN ops
                PROVE  /\ ops'[i].key = ops[i].key
                       /\ ops'[i].version = ops[i].version
                       /\ ops'[i].saw = ops[i].saw /\ ops'[i].base = ops[i].base
                       /\ ~Unsent(ops[i]) => ops'[i] = ops[i]
    OBVIOUS
  <2>1. CASE i = N
    <3>1. ops'[i] = [ops[i] EXCEPT !.quantity = n] /\ ops[i] \in Op
      BY <1>2, <1>3, <1>4, <2>1
    <3>. QED
      BY <1>3, <2>1, <3>1 DEF Op
  <2>2. CASE i # N
    BY <1>4, <2>2
  <2>. QED
    BY <2>1, <2>2
<1>7. \A i \in DOMAIN ops : /\ Unsent(ops'[i]) <=> Unsent(ops[i])
                            /\ Basis(ops'[i]) = Basis(ops[i])
  BY <1>6 DEF Basis, Unsent
<1>8. QueueInvariant'
  <2>1. flight # <<>> => \A i \in DOMAIN flight : flight[i] = ops'[i]
    <3>. SUFFICES ASSUME flight # <<>>, NEW i \in DOMAIN flight
                  PROVE  flight[i] = ops'[i]
      OBVIOUS
    <3>1. flight[i] = ops[i] /\ ~Unsent(flight[i])
      BY DEF QueueInvariant
    <3>2. i \in DOMAIN ops
      BY TypeFacts DEF QueueInvariant
    <3>. QED
      BY <1>6, <3>1, <3>2
  <2>2. flight # <<>> =>
         /\ 1 < Len(flight) /\ Len(flight) <= Len(ops')
         /\ \A i \in DOMAIN flight :
              /\ flight[i] = ops'[i]
              /\ ~Unsent(flight[i]) /\ flight[i].version = flight[1].version
    BY <1>5, <2>1 DEF QueueInvariant
  <2>. QED
    BY <1>1, <1>5, <1>6, <1>7, <2>2 DEF QueueInvariant
<1>9. OpsTell'
  <2>1. \A i \in DOMAIN ops : Tells(Basis(ops[i]), ops[i].saw, version, foreign, Starts)
    BY DEF SeenInvariant, OpsTell
  <2>2. Starts' = Starts
    BY <1>1, OnlyTheQueueChanges
  <2>. QED
    BY <1>1, <1>5, <1>6, <1>7, <2>1, <2>2 DEF OpsTell, Basis, Unsent
<1>10. LogInvariant' /\ WireInvariant' /\ ReplyInvariant'
  BY <1>1, <1>5, <1>6, EditedInPlace
<1>11. /\ MovesInvariant' /\ OrderInvariant'
       /\ WireTells' /\ ReceiptsTell' /\ CartShows' /\ ReadsShow' /\ ReplyShows'
  BY <1>1, OnlyTheQueueChanges
<1>. QED
  BY <1>8, <1>9, <1>10, <1>11 DEF SeenInvariant

Intents == [kind : {"add", "quantity", "delete"}, line : Lines,
            quantity : 0 .. MaxQuantity]

LEMMA EnqueueTyped ==
    ASSUME TypeInvariant, NEW intents \in Seq(Intents), Enqueue(intents)
    PROVE  /\ ops' \in Seq(Op) /\ created' = created + Len(intents)
           /\ DOMAIN ops = 1 .. Len(ops) /\ DOMAIN ops' = 1 .. (Len(ops) + Len(intents))
           /\ Len(ops) \in Nat /\ Len(intents) \in Nat
           /\ \A i \in 1 .. Len(ops) : ops'[i] = ops[i]
           /\ \A i \in 1 .. Len(intents) :
                /\ ops'[Len(ops) + i].key = created + i
                /\ ops'[Len(ops) + i].base = cart.version
                /\ ops'[Len(ops) + i].saw = cart.foreign
                /\ Unsent(ops'[Len(ops) + i])
<1>. DEFINE new == [i \in DOMAIN intents |->
           [key |-> created + i, kind |-> intents[i].kind, line |-> intents[i].line,
            quantity |-> intents[i].quantity, base |-> cart.version,
            version |-> NotSent, saw |-> cart.foreign]]
<1>1. /\ ops \in Seq(Op) /\ created \in Nat /\ created + Len(intents) <= MaxOps
      /\ cart.version \in Nat /\ cart.foreign \in Nat /\ Len(intents) \in Nat
      /\ DOMAIN intents = 1 .. Len(intents) /\ MaxOps \in Nat
  BY TypeFacts, CartAssumption DEF Enqueue, Shot
<1>2. \A i \in 1 .. Len(intents) : intents[i] \in Intents
  BY <1>1
<1>3. \A i \in 1 .. Len(intents) :
         /\ intents[i].kind \in {"add", "quantity", "delete"}
         /\ intents[i].line \in Lines /\ intents[i].quantity \in 0 .. MaxQuantity
  BY <1>2 DEF Intents
<1>4. \A i \in 1 .. Len(intents) : created + i \in Keys
  BY <1>1 DEF Keys
<1>5. \A i \in 1 .. Len(intents) : new[i] \in Op
  BY <1>1, <1>3, <1>4 DEF Op
<1>6. /\ ops' = ops \o new /\ created' = created + Len(intents)
  BY DEF Enqueue
<1>7. \A i \in 1 .. Len(intents) : /\ new[i].key = created + i
                                   /\ new[i].base = cart.version
                                   /\ new[i].saw = cart.foreign /\ Unsent(new[i])
  BY <1>1 DEF Unsent
<1>8. new = [i \in 1 .. Len(intents) |-> new[i]]
  BY <1>1
<1>. HIDE DEF new
<1>9. PICK f \in [1 .. Len(intents) -> Op] : f = new
  BY <1>5, <1>8
<1>10. ops \o f \in Seq(Op) /\ Extends(ops \o f, ops, Len(intents), f)
  BY <1>1, Extended, Zenon
<1>11. ops \o f = ops'
  BY <1>6, <1>9
<1>. QED
  BY <1>1, <1>6, <1>7, <1>9, <1>10, <1>11 DEF Extends

LEMMA EnqueueKeeps ==
    ASSUME CartInvariant, NEW intents \in Seq(Intents), Enqueue(intents)
    PROVE  Relations'
<1>. USE DEF CartInvariant, Relations
<1>. DEFINE N == Len(ops)
            n == Len(intents)
<1>1. /\ UNCHANGED <<serverVars, own, header, cart, wire, reads, reply>>
      /\ version' = version /\ foreign' = foreign /\ receipt' = receipt
      /\ applied' = applied /\ flight' = flight /\ gone' = gone /\ wire' = wire
      /\ sends' = sends /\ reply' = reply /\ reads' = reads /\ cart' = cart
      /\ error' = error /\ conflict' = conflict /\ rejected' = rejected
      /\ ~rejected /\ pc' = IF pc = "parked" THEN "idle" ELSE pc
  BY DEF Enqueue, serverVars, flagVars, headerVars, netVars
<1>2. /\ ops' \in Seq(Op) /\ created' = created + n /\ n \in Nat /\ N \in Nat
      /\ DOMAIN ops = 1 .. N /\ DOMAIN ops' = 1 .. (N + n)
      /\ \A i \in 1 .. N : ops'[i] = ops[i]
      /\ \A i \in 1 .. n : /\ ops'[N + i].key = created + i
                           /\ ops'[N + i].base = cart.version
                           /\ ops'[N + i].saw = cart.foreign
                           /\ Unsent(ops'[N + i])
  BY EnqueueTyped
<1>3. /\ created \in Nat /\ cart.version \in Nat /\ cart.foreign \in Nat
      /\ version \in Nat /\ created' \in Nat
  BY <1>2, TypeFacts DEF Shot
<1>. HIDE DEF N, n
<1>4. ASSUME NEW j \in 1 .. (N + n), j > N
      PROVE  /\ ops'[j].key = created + (j - N) /\ j - N \in 1 .. n
             /\ ops'[j].base = cart.version /\ ops'[j].saw = cart.foreign
             /\ Unsent(ops'[j])
  <2>1. j - N \in 1 .. n /\ N + (j - N) = j
    BY <1>2, <1>4
  <2>. QED
    BY <1>2, <2>1
<1>5. \A j \in 1 .. (N + n) : j > N \/ j \in 1 .. N
  BY <1>2
<1>6. \A i \in 1 .. N : /\ ops[i].key <= created /\ gone[ops[i].key] = "no"
                        /\ ops[i].saw <= cart.foreign
                        /\ Unsent(ops[i]) => ops[i].base <= cart.version
                        /\ ~Unsent(ops[i]) => i <= Len(flight) \/ i = 1
  BY <1>2 DEF QueueInvariant
<1>7. \A i \in 1 .. N : /\ ops[i].key \in Nat /\ ops[i].saw \in Nat /\ ops[i].base \in Nat
                        /\ ops[i].key \in Keys
  BY <1>2, TypedOps
<1>8. \A k \in Keys : k > created => gone[k] = "no" /\ k \notin Confirmed
  <2>. SUFFICES ASSUME NEW k \in Keys, k > created
                PROVE  gone[k] = "no" /\ k \notin Confirmed
    OBVIOUS
  <2>1. k \in Nat /\ ~(k <= created)
    BY <1>3 DEF Keys
  <2>. QED
    BY <2>1 DEF LogInvariant
<1>9. \A j \in 1 .. (N + n) : ops'[j].key \in Keys
  <2>. SUFFICES ASSUME NEW j \in 1 .. (N + n) PROVE ops'[j].key \in Keys
    OBVIOUS
  <2>1. ops'[j] \in Op
    BY <1>2
  <2>. QED
    BY <2>1 DEF Op
<1>10. \A j \in 1 .. (N + n) : j > N => /\ ops'[j].key > created /\ ops'[j].key <= created'
                                        /\ gone[ops'[j].key] = "no"
                                        /\ ops'[j].key \notin Confirmed
  BY <1>2, <1>3, <1>4, <1>8, <1>9
<1>11. QueueInvariant'
  <2>1. ASSUME NEW i \in 1 .. (N + n), NEW j \in 1 .. (N + n), i < j
        PROVE  /\ ops'[i].key < ops'[j].key
               /\ ops'[i].saw <= ops'[j].saw
               /\ Unsent(ops'[i]) => ops'[i].base <= ops'[j].base
    <3>1. CASE j \in 1 .. N
      <4>1. i \in 1 .. N
        BY <1>2, <2>1, <3>1
      <4>. QED
        BY <1>2, <2>1, <3>1, <4>1 DEF QueueInvariant
    <3>2. CASE j > N /\ i \in 1 .. N
      BY <1>2, <1>3, <1>4, <1>6, <1>7, <1>10, <3>2
    <3>3. CASE j > N /\ i > N
      <4>1. /\ ops'[i].key = created + (i - N) /\ ops'[j].key = created + (j - N)
            /\ ops'[i].saw = cart.foreign /\ ops'[j].saw = cart.foreign
            /\ ops'[i].base = cart.version /\ ops'[j].base = cart.version
        BY <1>4, <3>3
      <4>2. created + (i - N) < created + (j - N)
        BY <1>2, <1>3, <2>1
      <4>. QED
        BY <1>3, <4>1, <4>2
    <3>. QED
      BY <1>5, <3>1, <3>2, <3>3
  <2>2. ASSUME NEW i \in 1 .. (N + n)
        PROVE  /\ ops'[i].key <= created' /\ gone[ops'[i].key] = "no"
               /\ ops'[i].saw <= cart.foreign
               /\ Unsent(ops'[i]) => ops'[i].base <= cart.version
               /\ ~Unsent(ops'[i]) => i <= Len(flight) \/ i = 1
    <3>1. CASE i \in 1 .. N
      BY <1>2, <1>3, <1>6, <1>7, <3>1
    <3>2. CASE i > N
      BY <1>3, <1>4, <1>10, <3>2
    <3>. QED
      BY <1>5, <3>1, <3>2
  <2>3. flight # <<>> =>
         /\ 1 < Len(flight) /\ Len(flight) <= Len(ops')
         /\ \A i \in DOMAIN flight :
              /\ flight[i] = ops'[i]
              /\ ~Unsent(flight[i]) /\ flight[i].version = flight[1].version
    <3>. SUFFICES ASSUME flight # <<>>
                  PROVE  /\ 1 < Len(flight) /\ Len(flight) <= Len(ops')
                         /\ \A i \in DOMAIN flight :
                              /\ flight[i] = ops'[i]
                              /\ ~Unsent(flight[i])
                              /\ flight[i].version = flight[1].version
      OBVIOUS
    <3>1. /\ 1 < Len(flight) /\ Len(flight) <= N
          /\ \A i \in DOMAIN flight :
              /\ flight[i] = ops[i]
              /\ ~Unsent(flight[i]) /\ flight[i].version = flight[1].version
      BY DEF QueueInvariant, N
    <3>2. DOMAIN flight = 1 .. Len(flight) /\ Len(flight) \in Nat
      BY TypeFacts
    <3>3. Len(ops') = N + n
      BY <1>2
    <3>. QED
      BY <1>2, <3>1, <3>2, <3>3
  <2>. QED
    BY <1>1, <1>2, <2>1, <2>2, <2>3 DEF QueueInvariant
<1>12. /\ MovesInvariant' /\ OrderInvariant' /\ Starts' = Starts
       /\ WireTells' /\ ReceiptsTell' /\ CartShows' /\ ReadsShow' /\ ReplyShows'
  BY <1>1, OnlyTheQueueChanges
<1>13. OpsTell'
  <2>1. ASSUME NEW i \in 1 .. (N + n)
        PROVE  Tells(Basis(ops'[i]), ops'[i].saw, version, foreign, Starts)
    <3>1. CASE i \in 1 .. N
      BY <1>2, <3>1 DEF SeenInvariant, OpsTell
    <3>2. CASE i > N
      <4>1. Basis(ops'[i]) = cart.version /\ ops'[i].saw = cart.foreign
        BY <1>4, <3>2 DEF Basis
      <4>2. Tells(cart.version, cart.foreign, version, foreign, Starts)
        BY DEF SeenInvariant, CartShows, Shows
      <4>. QED
        BY <4>1, <4>2
    <3>. QED
      BY <1>5, <3>1, <3>2
  <2>. QED
    BY <1>1, <1>2, <1>12, <2>1 DEF OpsTell, Basis, Unsent
<1>14. Confirmed' = Confirmed
  BY <1>1 DEF Confirmed
<1>15. LogInvariant'
  <2>1. \A k \in Confirmed' : k <= created' /\ gone'[k] # "conflict"
    <3>1. \A k \in Confirmed : k \in Nat /\ k <= created /\ gone[k] # "conflict"
      BY DEF LogInvariant, Confirmed, Keys
    <3>. QED
      BY <1>1, <1>2, <1>3, <1>14, <3>1
  <2>2. ASSUME NEW k \in 1 .. created'
        PROVE  k \in KeysOf(ops') \cup Confirmed \/ gone[k] # "no"
    <3>1. CASE k <= created
      <4>1. k \in KeysOf(ops) \cup Confirmed \/ gone[k] # "no"
        BY <1>3, <3>1 DEF LogInvariant
      <4>2. KeysOf(ops) \subseteq KeysOf(ops')
        BY <1>2, <1>5 DEF KeysOf
      <4>. QED
        BY <4>1, <4>2
    <3>2. CASE k > created
      <4>1. k \in Nat /\ k <= created + n /\ created \in Nat /\ n \in Nat /\ N \in Nat
        BY <1>2, <1>3
      <4>3. k - created \in 1 .. n /\ created + (k - created) = k
        BY <3>2, <4>1
      <4>4. N + (k - created) \in DOMAIN ops'
        BY <1>2, <4>1, <4>3
      <4>2. ops'[N + (k - created)].key = k
        BY <1>2, <4>3
      <4>. QED
        BY <4>2, <4>4 DEF KeysOf
    <3>. QED
      BY <1>3, <3>1, <3>2
  <2>3. \A k \in Keys : gone'[k] # "no" => k <= created'
    <3>1. \A k \in Keys : k \in Nat
      BY DEF Keys
    <3>. QED
      BY <1>1, <1>2, <1>3, <3>1 DEF LogInvariant
  <2>4. \A i \in DOMAIN ops' : ops'[i].key \in Confirmed' =>
         /\ ~Unsent(ops'[i])
         /\ receipt'[ops'[i].key].content = Content(ops'[i])
         /\ receipt'[ops'[i].key].saw = ops'[i].saw
    <3>. SUFFICES ASSUME NEW i \in 1 .. (N + n), ops'[i].key \in Confirmed
                  PROVE  /\ ~Unsent(ops'[i])
                         /\ receipt[ops'[i].key].content = Content(ops'[i])
                         /\ receipt[ops'[i].key].saw = ops'[i].saw
      BY <1>1, <1>2, <1>14
    <3>1. i \in 1 .. N
      BY <1>5, <1>10
    <3>. QED
      BY <1>2, <3>1 DEF LogInvariant
  <2>5. \A i \in DOMAIN ops' : \A k \in Confirmed' :
         ops'[i].key < k => ops'[i].key \in Confirmed'
    <3>. SUFFICES ASSUME NEW i \in 1 .. (N + n), NEW k \in Confirmed, ops'[i].key < k
                  PROVE  ops'[i].key \in Confirmed
      BY <1>2, <1>14
    <3>1. k \in Nat /\ k <= created
      BY DEF LogInvariant, Confirmed, Keys
    <3>2. i \in 1 .. N
      <4>1. ops'[i].key \in Nat
        BY <1>9 DEF Keys
      <4>. QED
        BY <1>3, <1>5, <1>10, <3>1, <4>1
    <3>. QED
      BY <1>2, <3>2 DEF LogInvariant
  <2>6. OnceInOrder'
    BY <1>1 DEF LogInvariant, OnceInOrder
  <2>. QED
    BY <1>1, <1>14, <2>1, <2>2, <2>3, <2>4, <2>5, <2>6 DEF LogInvariant
<1>16. pc = "sending" => Sending' = Sending /\ ops' # <<>> /\ ~Unsent(ops'[1])
  <2>. SUFFICES ASSUME pc = "sending"
                PROVE  Sending' = Sending /\ ops' # <<>> /\ ~Unsent(ops'[1])
    OBVIOUS
  <2>1. ops # <<>> /\ ~Unsent(ops[1])
    BY DEF ReplyInvariant
  <2>2. 1 \in 1 .. N
    BY <1>2, <2>1, TypeFacts DEF N
  <2>3. ops'[1] = ops[1] /\ ops' # <<>>
    BY <1>2, <2>2
  <2>. QED
    BY <1>1, <2>1, <2>3 DEF Sending
<1>17. pc' = "sending" <=> pc = "sending"
  BY <1>1
<1>18. WireInvariant'
  <2>. SUFFICES ASSUME NEW m \in wire
                PROVE  /\ \A i \in DOMAIN m.ops : m.ops[i].key <= created'
                       /\ \A i \in DOMAIN m.ops, j \in DOMAIN ops' :
                            ops'[j].key < m.ops[i].key => ops'[j].key \in KeysOf(m.ops)
                       /\ \A i \in DOMAIN m.ops, j \in DOMAIN ops' :
                            ops'[j].key = m.ops[i].key /\ ~Dead(m) =>
                              /\ ops'[j].version = m.version
                              /\ Content(ops'[j]) = Content(m.ops[i])
                              /\ ops'[j].saw = m.ops[i].saw
    BY <1>1, <1>16, <1>17 DEF WireInvariant, Dead, KeysOf, Content
  <2>1. \A i \in DOMAIN m.ops : m.ops[i].key <= created /\ m.ops[i].key \in Nat
    BY WireFacts DEF WireInvariant
  <2>2. \A i \in DOMAIN m.ops, j \in DOMAIN ops' :
            ops'[j].key <= m.ops[i].key => j \in DOMAIN ops /\ ops'[j] = ops[j]
    <3>. SUFFICES ASSUME NEW i \in DOMAIN m.ops, NEW j \in 1 .. (N + n),
                         ops'[j].key <= m.ops[i].key
                  PROVE  j \in 1 .. N
      BY <1>2
    <3>1. ops'[j].key \in Nat
      BY <1>9 DEF Keys
    <3>. QED
      BY <1>3, <1>5, <1>10, <2>1, <3>1
  <2>3. \A j \in DOMAIN ops' : ops'[j].key \in Nat
    BY <1>2, <1>9 DEF Keys
  <2>4. \A i \in DOMAIN m.ops : m.ops[i].key <= created'
    BY <1>2, <1>3, <2>1
  <2>5. \A i \in DOMAIN m.ops, j \in DOMAIN ops' :
          ops'[j].key < m.ops[i].key => ops'[j].key \in KeysOf(m.ops)
    BY <2>1, <2>2, <2>3 DEF WireInvariant
  <2>6. \A i \in DOMAIN m.ops, j \in DOMAIN ops' :
          ops'[j].key = m.ops[i].key /\ ~Dead(m) =>
            /\ ops'[j].version = m.version
            /\ Content(ops'[j]) = Content(m.ops[i])
            /\ ops'[j].saw = m.ops[i].saw
    BY <2>1, <2>2, <2>3 DEF WireInvariant
  <2>. QED
    BY <2>4, <2>5, <2>6
<1>19. Stale => Stale'
  <2>. SUFFICES ASSUME Stale, NEW i \in 1 .. (N + n)
                PROVE  ops'[i].key \notin Confirmed /\ ops'[i].version < version
    BY <1>1, <1>2, <1>14 DEF Stale
  <2>1. CASE i \in 1 .. N
    BY <1>2, <2>1 DEF Stale
  <2>2. CASE i > N
    BY <1>3, <1>4, <1>10, <2>2 DEF Unsent, NotSent
  <2>. QED
    BY <1>5, <2>1, <2>2
<1>20. ReplyInvariant'
  <2>1. Read("pump")' => Reading'
    BY <1>1 DEF ReplyInvariant, Read, Reading
  <2>2. reply' # NoReply => Sending' = Sending /\ pc' = "sending"
    BY <1>1, <1>16, <1>17 DEF ReplyInvariant
  <2>3. reply' # NoReply /\ reply'.status = "ok" =>
         /\ \A i \in DOMAIN Sending : Sending[i].key \in Confirmed
         /\ reply'.accepted = receipt[Last(Sending).key].version
    BY <1>1 DEF ReplyInvariant
  <2>4. reply' # NoReply /\ reply'.status = "version" => Stale'
    BY <1>1, <1>19 DEF ReplyInvariant
  <2>5. ~conflict' /\ ~rejected'
    BY <1>1 DEF ReplyInvariant
  <2>. QED
    BY <1>1, <1>14, <1>16, <1>17, <2>1, <2>2, <2>3, <2>4, <2>5 DEF ReplyInvariant
<1>. QED
  BY <1>11, <1>12, <1>13, <1>15, <1>18, <1>20 DEF SeenInvariant

(* What the pump sends: the beginning of the queue, all of it that was sent before,
   each operation as it was sent or stamped with the version it was made for. *)
SentAs(sent, n) ==
    /\ n \in 1 .. Len(ops)
    /\ sent \in Seq(Op) /\ Len(sent) = n /\ DOMAIN sent = 1 .. n
    /\ \A i \in 1 .. n :
         /\ sent[i].key = ops[i].key /\ Content(sent[i]) = Content(ops[i])
         /\ sent[i].saw = ops[i].saw /\ sent[i].base = ops[i].base
         /\ sent[i].version = Basis(ops[i]) /\ sent[i].version = sent[1].version
         /\ ~Unsent(sent[i])
         /\ ~Unsent(ops[i]) => sent[i] = ops[i]
    /\ \A i \in DOMAIN ops : n < i => Unsent(ops[i])

LEMMA NewBatchMeans ==
    ASSUME CartInvariant, ops # <<>>, Unsent(ops[1]), ops[1].base = cart.version,
           flight = <<>>
    PROVE  \E n : SentAs(NewBatch, n)
<1>. USE DEF CartInvariant, Relations
<1>1. ops \in Seq(Op) /\ DOMAIN ops = 1 .. Len(ops) /\ Len(ops) \in Nat /\ 1 \in DOMAIN ops
  BY TypeFacts
<1>2. \A i \in DOMAIN ops : Unsent(ops[i])
  <2>1. \A i \in DOMAIN ops : i # 1 => 1 < i
    BY <1>1
  <2>. QED
    BY <1>1, <2>1, UnsentBehind
<1>3. \A i \in DOMAIN ops : \A j \in DOMAIN ops : i < j => ops[i].base <= ops[j].base
  BY <1>2 DEF QueueInvariant
<1>4. \A i \in DOMAIN ops : ops[i].base \in Nat
  BY TypedOps
<1>5. MaxBatch \in Nat /\ 1 <= MaxBatch
  BY CartAssumption
<1>6. \A i \in DOMAIN ops : i \in Leading <=> i <= MaxBatch /\ ops[i].base = ops[1].base
  BY <1>1, <1>2 DEF Leading
<1>7. \A i \in Leading : i \in DOMAIN ops
  BY DEF Leading
<1>8. \A i \in Leading : \A j \in DOMAIN ops : j < i => j \in Leading
  <2>. SUFFICES ASSUME NEW i \in Leading, NEW j \in DOMAIN ops, j < i
                PROVE  j \in Leading
    OBVIOUS
  <2>1. i \in DOMAIN ops /\ i <= MaxBatch /\ ops[i].base = ops[1].base
    BY <1>6, <1>7
  <2>2. j <= MaxBatch
    BY <1>1, <1>5, <2>1
  <2>3. ops[j].base <= ops[1].base
    BY <1>3, <2>1
  <2>4. ops[1].base <= ops[j].base
    BY <1>1, <1>3, <1>4
  <2>5. ops[j].base = ops[1].base
    BY <1>1, <1>4, <2>3, <2>4
  <2>. QED
    BY <1>6, <2>2, <2>5
<1>9. 1 \in Leading
  BY <1>1, <1>5, <1>6
<1>. HIDE DEF Leading
<1>10. PICK n \in 1 .. Len(ops) : \A i \in DOMAIN ops : i \in Leading <=> 1 <= i /\ i <= n
  <2>. DEFINE Outside == {x \in Nat : x >= 1 /\ x \notin Leading}
  <2>1. Len(ops) + 1 \in Outside /\ Outside \in SUBSET Nat
    BY <1>1, <1>7
  <2>2. \E x : x \in Outside /\ \A y \in Outside : x <= y
    <3>. HIDE DEF Outside
    <3>. QED
      BY <2>1, LeastMember
  <2>3. PICK x : x \in Outside /\ \A y \in Outside : x <= y
    BY <2>2
  <2>4. x - 1 \in 1 .. Len(ops)
    BY <1>1, <1>9, <2>1, <2>3
  <2>5. ASSUME NEW i \in DOMAIN ops PROVE i \in Leading <=> 1 <= i /\ i <= x - 1
    <3>1. CASE i <= x - 1
      BY <1>1, <2>3, <2>4, <3>1
    <3>2. CASE ~(i <= x - 1)
      <4>1. i = x \/ x < i
        BY <1>1, <2>3, <3>2
      <4>2. x \in DOMAIN ops
        BY <1>1, <2>3, <2>4, <4>1
      <4>. QED
        BY <1>8, <2>3, <3>2, <4>1, <4>2
    <3>. QED
      BY <3>1, <3>2
  <2>. QED
    BY <2>4, <2>5
<1>. DEFINE batch == Keep(ops, Leading)
<1>11. batch = SubSeq(ops, 1, n)
  <2>1. 1 \in Nat /\ n \in Nat /\ 1 <= 1 /\ 1 <= n + 1 /\ n <= Len(ops)
    BY <1>1
  <2>. QED
    BY <1>1, <1>10, <2>1, KeepSegment, Zenon
<1>12. /\ DOMAIN batch = 1 .. n /\ \A i \in 1 .. n : batch[i] = ops[i] /\ i \in DOMAIN ops
  BY <1>1, <1>11
<1>13. \A i \in 1 .. n : ops[i] \in Op /\ ops[i].base = cart.version /\ Unsent(ops[i])
  <2>1. \A i \in 1 .. n : i \in Leading /\ i \in DOMAIN ops
    BY <1>1, <1>10
  <2>. QED
    BY <1>1, <1>2, <1>6, <2>1
<1>14. NewBatch = [i \in 1 .. n |-> [ops[i] EXCEPT !.version = cart.version]]
  BY <1>12 DEF NewBatch
<1>15. cart.version \in Nat
  BY TypeFacts DEF Shot
<1>16. \A i \in 1 .. n :
         /\ NewBatch[i] = [ops[i] EXCEPT !.version = cart.version]
         /\ NewBatch[i] \in Op
         /\ NewBatch[i].key = ops[i].key /\ Content(NewBatch[i]) = Content(ops[i])
         /\ NewBatch[i].saw = ops[i].saw /\ NewBatch[i].base = ops[i].base
         /\ NewBatch[i].version = cart.version
  <2>. SUFFICES ASSUME NEW i \in 1 .. n
                PROVE  /\ NewBatch[i] = [ops[i] EXCEPT !.version = cart.version]
                       /\ NewBatch[i] \in Op
                       /\ NewBatch[i].key = ops[i].key
                       /\ Content(NewBatch[i]) = Content(ops[i])
                       /\ NewBatch[i].saw = ops[i].saw /\ NewBatch[i].base = ops[i].base
                       /\ NewBatch[i].version = cart.version
    OBVIOUS
  <2>1. NewBatch[i] = [ops[i] EXCEPT !.version = cart.version]
    BY <1>14
  <2>2. ops[i] \in Op
    BY <1>13
  <2>. HIDE DEF NewBatch
  <2>. QED
    BY <1>15, <2>1, <2>2 DEF Op, Content
<1>. HIDE DEF batch
<1>17. NewBatch \in Seq(Op) /\ Len(NewBatch) = n /\ DOMAIN NewBatch = 1 .. n
  <2>1. NewBatch \in [1 .. n -> Op]
    BY <1>14, <1>16
  <2>2. n \in Nat
    BY <1>1
  <2>. QED
    BY <2>1, <2>2, FunctionIsSequence
<1>18. \A i \in 1 .. n : /\ NewBatch[i].version = Basis(ops[i])
                         /\ NewBatch[i].version = NewBatch[1].version
                         /\ ~Unsent(NewBatch[i])
  <2>1. 1 \in 1 .. n
    BY <1>1
  <2>2. \A i \in 1 .. n : Basis(ops[i]) = cart.version
    BY <1>13 DEF Basis
  <2>3. \A i \in 1 .. n : NewBatch[i].version = cart.version
    BY <1>16
  <2>4. cart.version # NotSent
    BY <1>15 DEF NotSent
  <2>. QED
    BY <2>1, <2>2, <2>3, <2>4 DEF Unsent
<1>19. SentAs(NewBatch, n)
  BY <1>2, <1>13, <1>16, <1>17, <1>18 DEF SentAs
<1>. QED
  BY <1>19

LEMMA ToSendMeans ==
    ASSUME CartInvariant, CanPump, ~HeadIsStale
    PROVE  \E n : SentAs(ToSend, n)
<1>. USE DEF CartInvariant, Relations
<1>1. ops # <<>>
  BY DEF CanPump
<1>2. 1 \in DOMAIN ops /\ ops \in Seq(Op) /\ DOMAIN ops = 1 .. Len(ops) /\ Len(ops) \in Nat
  BY <1>1, TypeFacts
<1>3. CASE flight = <<>> /\ Unsent(ops[1])
  BY <1>1, <1>3, NewBatchMeans DEF ToSend, HeadIsStale
<1>4. CASE ~(flight = <<>> /\ Unsent(ops[1]))
  <2>1. ToSend = Sending
    BY <1>4 DEF ToSend, Sending
  <2>2. PICK n : SendingIs(n)
    BY <1>1, SendingMeans
  <2>3. ~Unsent(ops[1])
    <3>1. CASE flight = <<>>
      BY <1>4, <3>1
    <3>2. CASE flight # <<>>
      <4>1. 1 \in DOMAIN flight
        BY <3>2, TypeFacts
      <4>. QED
        BY <3>2, <4>1 DEF QueueInvariant
    <3>. QED
      BY <3>1, <3>2
  <2>4. \A i \in 1 .. n : /\ Sending[i] = ops[i] /\ ops[i].version = Sending[1].version
                          /\ i \in DOMAIN ops
    BY <1>2, <2>2 DEF SendingIs
  <2>5. 1 \in 1 .. n /\ n \in 1 .. Len(ops)
    BY <1>2, <2>2 DEF SendingIs
  <2>6. \A i \in 1 .. n : ~Unsent(ops[i])
    BY <2>3, <2>4, <2>5 DEF Unsent
  <2>7. Sending \in Seq(Op) /\ Len(Sending) = n /\ DOMAIN Sending = 1 .. n
    BY <2>2 DEF SendingIs
  <2>8. SentAs(Sending, n)
    BY <2>2, <2>4, <2>5, <2>6, <2>7 DEF SentAs, SendingIs, Basis
  <2>. QED
    BY <2>1, <2>8
<1>. QED
  BY <1>3, <1>4

LEMMA KeysDiffer ==
    ASSUME TypeInvariant, QueueInvariant, NEW i \in DOMAIN ops, NEW j \in DOMAIN ops,
           ops[i].key = ops[j].key
    PROVE  i = j
<1>1. i \in Nat /\ j \in Nat /\ ops[i].key \in Nat /\ ops[j].key \in Nat
  BY TypedOps
<1>2. ~(i < j) /\ ~(j < i)
  BY <1>1 DEF QueueInvariant
<1>. QED
  BY <1>1, <1>2

LEMMA StampedMeans ==
    ASSUME TypeInvariant, QueueInvariant, NEW sent, NEW n, SentAs(sent, n)
    PROVE  /\ DOMAIN Stamped(ops, sent) = DOMAIN ops
           /\ Len(Stamped(ops, sent)) = Len(ops)
           /\ \A i \in DOMAIN ops :
                Stamped(ops, sent)[i] = IF i <= n THEN sent[i] ELSE ops[i]
<1>1. ops \in Seq(Op) /\ DOMAIN ops = 1 .. Len(ops) /\ Len(ops) \in Nat
  BY TypeFacts
<1>2. DOMAIN sent = 1 .. n /\ n \in 1 .. Len(ops) /\ \A i \in 1 .. n : sent[i].key = ops[i].key
  BY DEF SentAs
<1>3. ASSUME NEW i \in DOMAIN ops
      PROVE  Stamped(ops, sent)[i] = IF i <= n THEN sent[i] ELSE ops[i]
  <2>1. Stamped(ops, sent)[i] =
           IF ops[i].key \in KeysOf(sent)
           THEN sent[CHOOSE j \in DOMAIN sent : sent[j].key = ops[i].key]
           ELSE ops[i]
    BY DEF Stamped
  <2>2. CASE i <= n
    <3>1. i \in DOMAIN sent /\ sent[i].key = ops[i].key
      BY <1>1, <1>2, <2>2
    <3>2. \A j \in DOMAIN sent : sent[j].key = ops[i].key => j = i
      <4>. SUFFICES ASSUME NEW j \in DOMAIN sent, sent[j].key = ops[i].key
                    PROVE  j = i
        OBVIOUS
      <4>1. j \in DOMAIN ops /\ ops[j].key = ops[i].key
        BY <1>1, <1>2
      <4>. QED
        BY <4>1, KeysDiffer
    <3>3. (CHOOSE j \in DOMAIN sent : sent[j].key = ops[i].key) = i
      BY <3>1, <3>2
    <3>4. ops[i].key \in KeysOf(sent)
      BY <3>1 DEF KeysOf
    <3>. QED
      BY <2>1, <2>2, <3>3, <3>4
  <2>3. CASE ~(i <= n)
    <3>1. ops[i].key \notin KeysOf(sent)
      <4>. SUFFICES ASSUME NEW j \in DOMAIN sent, sent[j].key = ops[i].key PROVE FALSE
        BY DEF KeysOf
      <4>1. j \in DOMAIN ops /\ ops[j].key = ops[i].key /\ j <= n
        BY <1>1, <1>2
      <4>. QED
        BY <2>3, <4>1, KeysDiffer
    <3>. QED
      BY <2>1, <2>3, <3>1
  <2>. QED
    BY <2>2, <2>3
<1>4. DOMAIN Stamped(ops, sent) = DOMAIN ops
  BY DEF Stamped
<1>5. Len(Stamped(ops, sent)) = Len(ops)
  BY <1>1, <1>4 DEF Stamped
<1>. QED
  BY <1>3, <1>4, <1>5

LEMMA PumpSendKeeps ==
    ASSUME CartInvariant, PumpSend PROVE Relations'
<1>. USE DEF CartInvariant, Relations
<1>. DEFINE sent == ToSend
            new == [attempt |-> sends + 1, version |-> sent[1].version,
                    ops |-> OnWire(sent)]
<1>1. PICK n : SentAs(sent, n)
  BY ToSendMeans DEF PumpSend
<1>2. /\ version' = version /\ foreign' = foreign /\ lines' = lines
      /\ receipt' = receipt /\ applied' = applied /\ own' = own /\ header' = header
      /\ created' = created /\ gone' = gone /\ cart' = cart /\ reads' = reads
      /\ error' = error /\ conflict' = conflict /\ rejected' = rejected
      /\ reply' = reply /\ sends' = sends + 1 /\ pc' = "sending"
      /\ wire' = wire \cup {new}
      /\ flight' = IF Len(sent) > 1 THEN sent ELSE <<>>
      /\ ops' = Stamped(ops, sent)
      /\ ~error /\ pc \in {"idle", "parked"}
  BY DEF PumpSend, serverVars, flagVars, headerVars, CanPump, Free
<1>. HIDE DEF sent
<1>3. /\ ops \in Seq(Op) /\ DOMAIN ops = 1 .. Len(ops) /\ Len(ops) \in Nat
      /\ version \in Nat /\ foreign \in Nat /\ sends \in Nat /\ created \in Nat
  BY TypeFacts
<1>4. /\ DOMAIN ops' = DOMAIN ops /\ Len(ops') = Len(ops)
      /\ \A i \in DOMAIN ops : ops'[i] = IF i <= n THEN sent[i] ELSE ops[i]
  BY <1>1, <1>2, StampedMeans
<1>5. /\ n \in 1 .. Len(ops) /\ n \in Nat /\ 1 \in 1 .. n
      /\ sent \in Seq(Op) /\ Len(sent) = n /\ DOMAIN sent = 1 .. n
      /\ \A i \in 1 .. n : i \in DOMAIN ops /\ ops'[i] = sent[i]
      /\ \A i \in DOMAIN ops : n < i => Unsent(ops[i]) /\ ops'[i] = ops[i]
      /\ \A i \in DOMAIN ops : i \in 1 .. n \/ n < i
  BY <1>1, <1>3, <1>4 DEF SentAs
<1>6. \A i \in 1 .. n :
         /\ sent[i].key = ops[i].key /\ Content(sent[i]) = Content(ops[i])
         /\ sent[i].saw = ops[i].saw /\ sent[i].base = ops[i].base
         /\ sent[i].version = Basis(ops[i]) /\ sent[i].version = sent[1].version
         /\ ~Unsent(sent[i])
         /\ ~Unsent(ops[i]) => sent[i] = ops[i]
  BY <1>1 DEF SentAs
<1>7. \A i \in DOMAIN ops :
         /\ ops'[i].key = ops[i].key /\ Content(ops'[i]) = Content(ops[i])
         /\ ops'[i].saw = ops[i].saw /\ ops'[i].base = ops[i].base
         /\ Basis(ops'[i]) = Basis(ops[i])
         /\ ~Unsent(ops[i]) => ops'[i] = ops[i]
         /\ Unsent(ops'[i]) => Unsent(ops[i]) /\ n < i
  BY <1>5, <1>6 DEF Basis
<1>8. QueueInvariant'
  <2>1. \A i, j \in DOMAIN ops' : i < j =>
         /\ ops'[i].key < ops'[j].key
         /\ ops'[i].saw <= ops'[j].saw
         /\ Unsent(ops'[i]) => ops'[i].base <= ops'[j].base
    BY <1>4, <1>7 DEF QueueInvariant
  <2>2. ASSUME NEW i \in DOMAIN ops
        PROVE  /\ ops'[i].key <= created /\ gone[ops'[i].key] = "no"
               /\ ops'[i].saw <= cart.foreign
               /\ Unsent(ops'[i]) => ops'[i].base <= cart.version
               /\ ~Unsent(ops'[i]) => i <= Len(flight') \/ i = 1
    <3>1. ~Unsent(ops'[i]) => i <= Len(flight') \/ i = 1
      <4>1. ~Unsent(ops'[i]) => i \in 1 .. n
        BY <1>5
      <4>2. n = 1 \/ Len(flight') = n
        BY <1>2, <1>5
      <4>. QED
        BY <4>1, <4>2
    <3>. QED
      BY <1>7, <3>1 DEF QueueInvariant
  <2>3. flight' # <<>> =>
         /\ 1 < Len(flight') /\ Len(flight') <= Len(ops')
         /\ \A i \in DOMAIN flight' :
              /\ flight'[i] = ops'[i]
              /\ ~Unsent(flight'[i]) /\ flight'[i].version = flight'[1].version
    <3>. SUFFICES ASSUME Len(sent) > 1, flight' = sent
                  PROVE  /\ 1 < Len(sent) /\ Len(sent) <= Len(ops')
                         /\ \A i \in DOMAIN sent :
                              /\ sent[i] = ops'[i]
                              /\ ~Unsent(sent[i]) /\ sent[i].version = sent[1].version
      BY <1>2
    <3>. QED
      BY <1>3, <1>4, <1>5, <1>6
  <2>. QED
    BY <1>2, <1>4, <2>1, <2>2, <2>3 DEF QueueInvariant
<1>9. MovesInvariant' /\ Starts' = Starts
  BY <1>2, <1>3, MovesFrame
<1>10. MovesOn(version, foreign, lines, Starts, version', foreign', lines', Starts')
  BY <1>2, <1>9 DEF MovesOn
<1>11. ReceiptsTell' /\ CartShows' /\ ReadsShow' /\ ReplyShows'
  BY <1>2, <1>3, <1>10, SeenFrame
<1>12. \A i \in DOMAIN ops : Tells(Basis(ops[i]), ops[i].saw, version, foreign, Starts)
  BY DEF SeenInvariant, OpsTell
<1>13. OpsTell'
  BY <1>2, <1>4, <1>7, <1>9, <1>12 DEF OpsTell, Basis, Unsent
<1>14. /\ new.attempt = sends + 1 /\ new.version = sent[1].version
       /\ DOMAIN new.ops = 1 .. n /\ Len(new.ops) = n /\ new.ops # <<>>
       /\ \A i \in 1 .. n :
            /\ new.ops[i].key = ops[i].key /\ new.ops[i].saw = ops[i].saw
            /\ Content(new.ops[i]) = Content(ops[i])
  <2>1. /\ DOMAIN OnWire(sent) = 1 .. n
        /\ \A i \in 1 .. n :
            /\ OnWire(sent)[i].key = sent[i].key /\ OnWire(sent)[i].saw = sent[i].saw
            /\ Content(OnWire(sent)[i]) = Content(sent[i])
    BY <1>5 DEF OnWire, Content
  <2>2. Len(OnWire(sent)) = n /\ OnWire(sent) # <<>>
    BY <1>5, <2>1 DEF OnWire
  <2>. QED
    BY <1>6, <2>1, <2>2
<1>. HIDE DEF new
<1>15. WireTells'
  <2>1. \A i \in DOMAIN new.ops :
           Tells(new.version, new.ops[i].saw, version, foreign, Starts)
    BY <1>5, <1>6, <1>12, <1>14
  <2>. QED
    BY <1>2, <1>9, <2>1 DEF WireTells, SeenInvariant
<1>16. OrderInvariant'
  BY <1>2, OrderFrame
<1>17. Confirmed' = Confirmed /\ KeysOf(ops') = KeysOf(ops)
  BY <1>2, <1>4, <1>7 DEF Confirmed, KeysOf
<1>18. LogInvariant'
  <2>1. \A i \in DOMAIN ops' : ops'[i].key \in Confirmed' =>
         /\ ~Unsent(ops'[i])
         /\ receipt'[ops'[i].key].content = Content(ops'[i])
         /\ receipt'[ops'[i].key].saw = ops'[i].saw
    BY <1>2, <1>4, <1>7, <1>17 DEF LogInvariant
  <2>2. \A i \in DOMAIN ops' : \A k \in Confirmed' :
         ops'[i].key < k => ops'[i].key \in Confirmed'
    BY <1>4, <1>7, <1>17 DEF LogInvariant
  <2>3. OnceInOrder'
    BY <1>2 DEF LogInvariant, OnceInOrder
  <2>. QED
    BY <1>2, <1>17, <2>1, <2>2, <2>3 DEF LogInvariant
<1>19. /\ DOMAIN Sending' = 1 .. n /\ Len(Sending') = n /\ Sending'[1].version = sent[1].version
       /\ \A i \in 1 .. n : Sending'[i].key = ops[i].key
  <2>1. CASE n > 1
    <3>1. flight' = sent /\ flight' # <<>>
      BY <1>2, <1>5, <2>1
    <3>2. Sending' = sent
      BY <3>1 DEF Sending
    <3>. QED
      BY <1>5, <1>6, <3>2
  <2>2. CASE n = 1
    <3>1. Sending' = <<sent[1]>>
      BY <1>2, <1>5, <2>2 DEF Sending
    <3>. QED
      BY <1>5, <1>6, <2>2, <3>1
  <2>. QED
    BY <1>5, <2>1, <2>2
<1>20. \A i \in DOMAIN ops, j \in DOMAIN ops : ops[j].key < ops[i].key => j < i
  <2>. SUFFICES ASSUME NEW i \in DOMAIN ops, NEW j \in DOMAIN ops,
                       ops[j].key < ops[i].key
                PROVE  j < i
    OBVIOUS
  <2>1. i \in Nat /\ j \in Nat /\ ops[i].key \in Nat /\ ops[j].key \in Nat
    BY TypedOps
  <2>2. ~(i < j) /\ i # j
    BY <2>1 DEF QueueInvariant
  <2>. QED
    BY <2>1, <2>2
<1>21. WireInvariant'
  <2>1. ASSUME NEW m \in wire
        PROVE  /\ 1 <= m.attempt /\ m.attempt <= sends'
               /\ m.attempt # sends'
               /\ m.ops # <<>>
               /\ \A i, j \in DOMAIN m.ops : i < j => m.ops[i].key < m.ops[j].key
               /\ \A i \in DOMAIN m.ops : m.ops[i].key <= created
               /\ \A i \in DOMAIN m.ops, j \in DOMAIN ops' :
                    ops'[j].key < m.ops[i].key => ops'[j].key \in KeysOf(m.ops)
               /\ \A i \in DOMAIN m.ops, j \in DOMAIN ops' :
                    ops'[j].key = m.ops[i].key /\ ~Dead(m) =>
                      /\ ops'[j].version = m.version
                      /\ Content(ops'[j]) = Content(m.ops[i])
                      /\ ops'[j].saw = m.ops[i].saw
               /\ \A i \in DOMAIN m.ops : gone[m.ops[i].key] = "conflict" => Dead(m)
    <3>1. 1 <= m.attempt /\ m.attempt <= sends' /\ m.attempt # sends'
      <4>1. m.attempt \in Nat
        BY WireFacts DEF Message
      <4>2. 1 <= m.attempt /\ m.attempt <= sends
        BY DEF WireInvariant
      <4>. QED
        BY <1>2, <1>3, <4>1, <4>2
    <3>2. m.version # NotSent
      BY WireFacts DEF NotSent
    <3>3. \A i \in DOMAIN m.ops, j \in DOMAIN ops :
            ops[j].key = m.ops[i].key /\ ~Dead(m) =>
              /\ ops'[j] = ops[j]
              /\ ops[j].version = m.version
              /\ Content(ops[j]) = Content(m.ops[i])
              /\ ops[j].saw = m.ops[i].saw
      BY <1>7, <3>2 DEF WireInvariant, Unsent
    <3>4. \A i \in DOMAIN m.ops, j \in DOMAIN ops' :
            ops'[j].key < m.ops[i].key => ops'[j].key \in KeysOf(m.ops)
      BY <1>4, <1>7 DEF WireInvariant
    <3>5. /\ m.ops # <<>>
          /\ \A i, j \in DOMAIN m.ops : i < j => m.ops[i].key < m.ops[j].key
          /\ \A i \in DOMAIN m.ops : m.ops[i].key <= created
          /\ \A i \in DOMAIN m.ops : gone[m.ops[i].key] = "conflict" => Dead(m)
      BY DEF WireInvariant
    <3>. QED
      BY <1>4, <1>7, <3>1, <3>3, <3>4, <3>5
  <2>2. /\ 1 <= new.attempt /\ new.attempt = sends'
        /\ new.ops # <<>>
        /\ \A i, j \in DOMAIN new.ops : i < j => new.ops[i].key < new.ops[j].key
        /\ \A i \in DOMAIN new.ops : new.ops[i].key <= created
        /\ \A i \in DOMAIN new.ops, j \in DOMAIN ops' :
             ops'[j].key < new.ops[i].key => ops'[j].key \in KeysOf(new.ops)
        /\ \A i \in DOMAIN new.ops, j \in DOMAIN ops' :
             ops'[j].key = new.ops[i].key =>
               /\ ops'[j].version = new.version
               /\ Content(ops'[j]) = Content(new.ops[i])
               /\ ops'[j].saw = new.ops[i].saw
        /\ \A i \in DOMAIN new.ops : gone[new.ops[i].key] = "no"
        /\ Len(new.ops) = Len(Sending') /\ new.version = Sending'[1].version
        /\ \A i \in DOMAIN new.ops : new.ops[i].key = Sending'[i].key
    <3>1. 1 <= new.attempt /\ new.attempt = sends' /\ new.ops # <<>>
      BY <1>2, <1>3, <1>14
    <3>2. \A i, j \in DOMAIN new.ops : i < j => new.ops[i].key < new.ops[j].key
      BY <1>5, <1>14 DEF QueueInvariant
    <3>3. \A i \in DOMAIN new.ops : /\ new.ops[i].key <= created
                                    /\ gone[new.ops[i].key] = "no"
      BY <1>5, <1>14 DEF QueueInvariant
    <3>4. ASSUME NEW i \in 1 .. n, NEW j \in DOMAIN ops, ops[j].key < ops[i].key
          PROVE  ops[j].key \in KeysOf(new.ops)
      <4>1. j < i
        BY <1>5, <1>20, <3>4
      <4>2. j \in 1 .. n
        BY <1>3, <1>5, <4>1
      <4>. QED
        BY <1>14, <4>2 DEF KeysOf
    <3>5. ASSUME NEW i \in 1 .. n, NEW j \in DOMAIN ops, ops[j].key = ops[i].key
          PROVE  /\ ops'[j].version = new.version
                 /\ Content(ops'[j]) = Content(new.ops[i])
                 /\ ops'[j].saw = new.ops[i].saw
      <4>1. j = i
        BY <1>5, <3>5, KeysDiffer
      <4>. QED
        BY <1>5, <1>6, <1>7, <1>14, <4>1
    <3>. QED
      BY <1>4, <1>7, <1>14, <1>19, <3>1, <3>2, <3>3, <3>4, <3>5
  <2>. DEFINE Fits(m) ==
         /\ 1 <= m.attempt /\ m.attempt <= sends'
         /\ m.ops # <<>>
         /\ \A i, j \in DOMAIN m.ops : i < j => m.ops[i].key < m.ops[j].key
         /\ \A i \in DOMAIN m.ops : m.ops[i].key <= created'
         /\ \A i \in DOMAIN m.ops, j \in DOMAIN ops' :
              ops'[j].key < m.ops[i].key => ops'[j].key \in KeysOf(m.ops)
         /\ \A i \in DOMAIN m.ops, j \in DOMAIN ops' :
              ops'[j].key = m.ops[i].key /\ ~Dead(m)' =>
                /\ ops'[j].version = m.version
                /\ Content(ops'[j]) = Content(m.ops[i])
                /\ ops'[j].saw = m.ops[i].saw
         /\ \A i \in DOMAIN m.ops : gone'[m.ops[i].key] = "conflict" => Dead(m)'
         /\ pc' = "sending" /\ m.attempt = sends' =>
              /\ Len(m.ops) = Len(Sending') /\ m.version = Sending'[1].version
              /\ \A i \in DOMAIN m.ops : m.ops[i].key = Sending'[i].key
  <2>3. \A m : Dead(m)' <=> Dead(m)
    BY <1>2 DEF Dead
  <2>4. \A m \in wire : Fits(m)
    BY <1>2, <2>1, <2>3
  <2>5. Fits(new)
    <3>1. sends' \in Nat
      BY <1>2, <1>3
    <3>. QED
      BY <1>2, <2>2, <2>3, <3>1
  <2>6. wire' = wire \cup {new}
    BY <1>2
  <2>7. \A m \in wire' : Fits(m)
    <3>. HIDE DEF Fits
    <3>. QED
      BY <2>4, <2>5, <2>6
  <2>. QED
    BY <2>7 DEF WireInvariant, KeysOf, Content
<1>22. ReplyInvariant'
  <2>1. reply' = NoReply /\ ~Read("pump")'
    BY <1>2 DEF ReplyInvariant, Read, Reading
  <2>2. ops' # <<>> /\ ~Unsent(ops'[1])
    BY <1>4, <1>5, <1>6
  <2>3. ~rejected' /\ ~conflict'
    BY <1>2 DEF ReplyInvariant
  <2>. QED
    BY <2>1, <2>2, <2>3 DEF ReplyInvariant
<1>. QED
  BY <1>8, <1>9, <1>11, <1>13, <1>15, <1>16, <1>18, <1>21, <1>22 DEF SeenInvariant

(* What follows the first n elements. *)
LEMMA Following ==
    ASSUME NEW S, NEW s \in Seq(S), NEW n \in 0 .. Len(s), NEW t, t = SubSeq(s, n + 1, Len(s))
    PROVE  /\ t \in Seq(S) /\ DOMAIN t = 1 .. (Len(s) - n)
           /\ \A j \in 1 .. (Len(s) - n) : t[j] = s[n + j]
<1>1. n \in Nat /\ Len(s) \in Nat /\ Len(s) - n \in Nat /\ n + 1 \in Int /\ Len(s) \in Int
  OBVIOUS
<1>2. \A i \in n + 1 .. Len(s) : s[i] \in S
  BY <1>1
<1>3. /\ t \in Seq(S)
      /\ Len(t) = (IF n + 1 <= Len(s) THEN Len(s) - (n + 1) + 1 ELSE 0)
      /\ \A j \in 1 .. (Len(s) - (n + 1) + 1) : t[j] = s[(n + 1) + j - 1]
  <2>. DEFINE m == n + 1 
  <2>1. m \in Int
    BY <1>1
  <2>2. \A i \in m .. Len(s) : s[i] \in S
    BY <1>2
  <2>3. t = SubSeq(s, m, Len(s))
    OBVIOUS
  <2>. HIDE DEF m
  <2>4. /\ t \in Seq(S)
      /\ Len(t) = (IF m <= Len(s) THEN Len(s) - m + 1 ELSE 0)
      /\ \A j \in 1 .. (Len(s) - m + 1) : t[j] = s[m + j - 1]
    BY <1>1, <2>1, <2>2, <2>3, SubSeqProperties
  <2>. QED
    BY <2>4 DEF m
<1>4. Len(t) = Len(s) - n
  <2>1. CASE n + 1 <= Len(s)
    BY <1>1, <1>3, <2>1
  <2>2. CASE ~(n + 1 <= Len(s))
    BY <1>1, <1>3, <2>2
  <2>. QED
    BY <2>1, <2>2
<1>5. \A j \in 1 .. (Len(s) - n) : t[j] = s[n + j]
  <2>. SUFFICES ASSUME NEW j \in 1 .. (Len(s) - n) PROVE t[j] = s[n + j]
    OBVIOUS
  <2>1. j \in 1 .. (Len(s) - (n + 1) + 1) /\ (n + 1) + j - 1 = n + j
    BY <1>1
  <2>. QED
    BY <1>3, <2>1
<1>. QED
  BY <1>1, <1>3, <1>4, <1>5
(* The answer to the first n operations leaves the others, on the basis they had or
   on the cart now shown. *)
Left(n) ==
    /\ ops' \in Seq(Op) /\ DOMAIN ops' = 1 .. (Len(ops) - n)
    /\ \A j \in 1 .. (Len(ops) - n) :
         /\ n + j \in DOMAIN ops /\ n < n + j /\ Unsent(ops[n + j]) /\ Unsent(ops'[j])
         /\ ops'[j].key = ops[n + j].key /\ ops'[j].saw = ops[n + j].saw
    /\ \/ \A j \in 1 .. (Len(ops) - n) : ops'[j].base = ops[n + j].base
       \/ /\ cart'.version = Advance(reply.accepted)
          /\ \A j \in 1 .. (Len(ops) - n) : ops'[j].base = cart'.version

LEMMA ReceivedQueue ==
    ASSUME CartInvariant, Receive, NEW n, SendingIs(n), cart'.version \in Nat
    PROVE  Left(n)
<1>. USE DEF CartInvariant, Relations
<1>1. ops \in Seq(Op) /\ DOMAIN ops = 1 .. Len(ops) /\ Len(ops) \in Nat
  BY TypeFacts
<1>2. /\ n \in 1 .. Len(ops) /\ n \in Nat /\ DOMAIN Sending = 1 .. n
      /\ \A i \in 1 .. n : Sending[i] = ops[i]
      /\ \A i \in DOMAIN ops : n < i => Unsent(ops[i])
  BY <1>1 DEF SendingIs
<1>. DEFINE newer == IF reply.cart.version >= cart.version THEN reply.cart ELSE cart
            shown == Advance(newer.version)
            S == {i \in DOMAIN ops : ops[i].key \notin KeysOf(Sending)}
            rest == Keep(ops, S)
<1>3. \A i \in DOMAIN ops : i \in S <=> n + 1 <= i /\ i <= Len(ops)
  <2>. SUFFICES ASSUME NEW i \in DOMAIN ops
                PROVE  ops[i].key \in KeysOf(Sending) <=> i <= n
    BY <1>1, <1>2
  <2>1. CASE i <= n
    <3>1. i \in DOMAIN Sending /\ Sending[i].key = ops[i].key
      BY <1>1, <1>2, <2>1
    <3>. QED
      BY <2>1, <3>1 DEF KeysOf
  <2>2. CASE ~(i <= n)
    <3>. SUFFICES ASSUME NEW j \in DOMAIN Sending, Sending[j].key = ops[i].key PROVE FALSE
      BY <2>2 DEF KeysOf
    <3>1. j \in DOMAIN ops /\ ops[j].key = ops[i].key /\ j <= n
      BY <1>1, <1>2
    <3>. QED
      BY <2>2, <3>1, KeysDiffer
  <2>. QED
    BY <2>1, <2>2
<1>4. rest = SubSeq(ops, n + 1, Len(ops))
  <2>. HIDE DEF S
  <2>1. n + 1 \in Nat /\ 1 <= n + 1 /\ n + 1 <= Len(ops) + 1 /\ Len(ops) <= Len(ops)
    BY <1>1, <1>2
  <2>. QED
    BY <1>1, <1>3, <2>1, KeepSegment, Zenon
<1>5. /\ rest \in Seq(Op) /\ DOMAIN rest = 1 .. (Len(ops) - n)
      /\ \A j \in 1 .. (Len(ops) - n) :
           rest[j] = ops[n + j] /\ n + j \in DOMAIN ops /\ n < n + j
  <2>1. SubSeq(ops, n + 1, Len(ops)) \in Seq(Op)
        /\ DOMAIN SubSeq(ops, n + 1, Len(ops)) = 1 .. (Len(ops) - n)
        /\ \A j \in 1 .. (Len(ops) - n) :
             SubSeq(ops, n + 1, Len(ops))[j] = ops[n + j]
    BY <1>1, <1>2, Following
  <2>2. \A j \in 1 .. (Len(ops) - n) : n + j \in DOMAIN ops /\ n < n + j
    BY <1>1, <1>2
  <2>. QED
    BY <1>4, <2>1, <2>2
<1>6. /\ ops' = IF ForeignChange(shown) THEN rest ELSE Rebased(rest, shown)
      /\ cart' = [newer EXCEPT !.version = shown]
  BY DEF Receive
<1>7. cart'.version = shown
  <2>1. newer \in Shot
    <3>1. reply # NoReply
      BY DEF Receive, NoReply
    <3>. QED
      BY <3>1, TypeFacts DEF ReplyShape
  <2>. HIDE DEF newer
  <2>. QED
    BY <1>6, <2>1 DEF Shot
<1>. HIDE DEF rest, shown
<1>8. CASE ForeignChange(shown)
  BY <1>2, <1>5, <1>6, <1>8 DEF Left
<1>9. CASE ~ForeignChange(shown)
  <2>1. ops' = [i \in DOMAIN rest |-> IF Unsent(rest[i])
                                      THEN [rest[i] EXCEPT !.base = shown] ELSE rest[i]]
    BY <1>6, <1>9 DEF Rebased
  <2>2. DOMAIN ops' = 1 .. (Len(ops) - n)
    BY <1>5, <2>1
  <2>3. ASSUME NEW j \in 1 .. (Len(ops) - n)
        PROVE  /\ Unsent(ops[n + j]) /\ Unsent(ops'[j]) /\ ops'[j] \in Op
               /\ ops'[j].key = ops[n + j].key /\ ops'[j].saw = ops[n + j].saw
               /\ ops'[j].base = shown
    <3>1. Unsent(ops[n + j]) /\ rest[j] = ops[n + j]
      <4>1. n + j \in DOMAIN ops /\ n < n + j /\ rest[j] = ops[n + j]
        BY <1>5, Zenon
      <4>. QED
        BY <1>2, <4>1, Zenon
    <3>2. rest[j] \in Op
      <4>1. j \in DOMAIN rest /\ rest \in Seq(Op)
        BY <1>5, Zenon
      <4>. QED
        BY <4>1
    <3>3. ops'[j] = [rest[j] EXCEPT !.base = shown]
      <4>1. j \in DOMAIN rest
        BY <1>5, Zenon
      <4>2. Unsent(rest[j])
        BY <3>1, Zenon
      <4>3. ops'[j] = IF Unsent(rest[j]) THEN [rest[j] EXCEPT !.base = shown]
                                          ELSE rest[j]
        BY <2>1, <4>1, Zenon
      <4>. QED
        BY <4>2, <4>3, Zenon
    <3>. QED
      BY <1>7, <3>1, <3>2, <3>3 DEF Op, Unsent
  <2>4. ops' \in Seq(Op)
    <3>1. ops' \in [1 .. (Len(ops) - n) -> Op]
      <4>1. ops' = [i \in 1 .. (Len(ops) - n) |-> ops'[i]]
        BY <1>5, <2>1, <2>2
      <4>. QED
        BY <2>3, <4>1
    <3>2. Len(ops) - n \in Nat
      BY <1>1, <1>2
    <3>. QED
      BY <3>1, <3>2, FunctionIsSequence
  <2>5. cart'.version = Advance(reply.accepted)
    BY <1>7, <1>9 DEF ForeignChange
  <2>. QED
    BY <1>5, <1>7, <2>2, <2>3, <2>4, <2>5 DEF Left
<1>. QED
  BY <1>8, <1>9

LEMMA AdvanceMeans ==
    ASSUME CartInvariant, NEW v \in Nat
    PROVE  /\ Advance(v) \in Nat /\ v <= Advance(v)
           /\ \A x \in v .. (Advance(v) - 1) : x \in Starts
           /\ \A f : Tells(v, f, version, foreign, Starts)
                        => Tells(Advance(v), f, version, foreign, Starts)
<1>. USE DEF CartInvariant, Relations
<1>1. version \in Nat
  BY TypeFacts
<1>2. Advances(own, v, Advance(v))
  BY <1>1, AdvanceBySteps DEF MovesInvariant, Advance
<1>3. StartsOf(own) \subseteq Starts
  BY DEF Starts
<1>4. /\ Advance(v) \in Nat /\ v <= Advance(v)
      /\ \A x \in v .. (Advance(v) - 1) : x \in Starts
  BY <1>2, <1>3 DEF Advances
<1>5. \A x \in Starts : x < version
  BY StartsBelow
<1>6. \A f : Tells(v, f, version, foreign, Starts)
                => Tells(Advance(v), f, version, foreign, Starts)
  BY <1>1, <1>4, <1>5, AdvancedTells
<1>. QED
  BY <1>4, <1>6

LEMMA ReceivedView ==
    ASSUME CartInvariant, Receive
    PROVE  /\ cart' \in Shot
           /\ Shows(cart', version, foreign, lines, Starts)
           /\ cart.version <= cart'.version /\ cart.foreign <= cart'.foreign
           /\ \A r \in {"pump", "page"} : Read(r) => Follows(cart', reads[r].cart)
<1>. USE DEF CartInvariant, Relations
<1>. DEFINE newer == IF reply.cart.version >= cart.version THEN reply.cart ELSE cart
            shown == Advance(newer.version)
<1>1. reply # NoReply
  BY DEF Receive, NoReply
<1>2. reply.cart \in Shot /\ cart \in Shot
  BY <1>1, TypeFacts DEF ReplyShape
<1>3. newer \in Shot
  BY <1>2
<1>4. cart' = [newer EXCEPT !.version = shown]
  BY DEF Receive
<1>5. /\ Shows(reply.cart, version, foreign, lines, Starts)
      /\ Shows(cart, version, foreign, lines, Starts)
      /\ Follows(cart, reply.cart)
      /\ \A r \in {"pump", "page"} : Read(r) => /\ Follows(cart, reads[r].cart)
                                                /\ Follows(reply.cart, reads[r].cart)
  BY <1>1 DEF SeenInvariant, ReplyShows, CartShows, OrderInvariant
<1>6. /\ Shows(newer, version, foreign, lines, Starts)
      /\ \A r \in {"pump", "page"} : Read(r) => Follows(newer, reads[r].cart)
  BY <1>5
<1>7. cart.version <= newer.version /\ cart.foreign <= newer.foreign
  BY <1>2, <1>5 DEF Follows, Shot
<1>. HIDE DEF newer
<1>8. newer.version \in Nat /\ newer.foreign \in Nat /\ cart.version \in Nat
  BY <1>2, <1>3 DEF Shot
<1>9. /\ shown \in Nat /\ newer.version <= shown
      /\ \A x \in newer.version .. (shown - 1) : x \in Starts
      /\ Tells(newer.version, newer.foreign, version, foreign, Starts)
           => Tells(shown, newer.foreign, version, foreign, Starts)
  BY <1>8, AdvanceMeans
<1>. HIDE DEF shown
<1>10. /\ cart' \in Shot /\ cart'.version = shown /\ cart'.foreign = newer.foreign
       /\ cart'.lines = newer.lines
  BY <1>3, <1>4, <1>9 DEF Shot
<1>11. QuietFrom(shown, version, Starts) => QuietFrom(newer.version, version, Starts)
  <2>. SUFFICES ASSUME QuietFrom(shown, version, Starts),
                       NEW x \in newer.version .. (version - 1)
                PROVE  x \in Starts
    BY DEF QuietFrom
  <2>1. x \in newer.version .. (shown - 1) \/ x \in shown .. (version - 1)
    BY <1>8, <1>9, TypeFacts
  <2>. QED
    BY <1>9, <2>1 DEF QuietFrom
<1>12. Shows(cart', version, foreign, lines, Starts)
  BY <1>6, <1>9, <1>10, <1>11 DEF Shows
<1>13. ASSUME NEW r \in {"pump", "page"}, Read(r) PROVE Follows(cart', reads[r].cart)
  <2>1. reads[r].cart.version \in Nat
    BY <1>13, TypeFacts DEF ReadShape, Shot
  <2>2. Follows(newer, reads[r].cart)
    BY <1>6, <1>13
  <2>. QED
    BY <1>8, <1>9, <1>10, <2>1, <2>2 DEF Follows
<1>. QED
  BY <1>7, <1>8, <1>9, <1>10, <1>12, <1>13

LEMMA ReceiveKeeps ==
    ASSUME CartInvariant, Receive PROVE Relations'
<1>. USE DEF CartInvariant, Relations
<1>1. /\ version' = version /\ foreign' = foreign /\ lines' = lines
      /\ receipt' = receipt /\ applied' = applied /\ own' = own /\ header' = header
      /\ created' = created /\ gone' = gone /\ reads' = reads /\ wire' = wire
      /\ sends' = sends /\ flight' = <<>> /\ reply' = NoReply
      /\ pc = "sending" /\ pc' # "sending" /\ reply # NoReply /\ reply.status = "ok"
  BY DEF Receive, serverVars, headerVars, NoReply
<1>2. /\ conflict' = rejected'
      /\ rejected' => error' 
  BY DEF Receive
<1>3. PICK n : SendingIs(n)
  BY <1>1, SendingMeans DEF ReplyInvariant
<1>4. /\ version \in Nat /\ foreign \in Nat /\ created \in Nat
      /\ cart \in Shot /\ cart.version \in Nat /\ cart.foreign \in Nat
  BY TypeFacts DEF Shot
<1>5. /\ cart' \in Shot /\ cart'.version \in Nat /\ cart'.foreign \in Nat
      /\ Shows(cart', version, foreign, lines, Starts)
      /\ cart.version <= cart'.version /\ cart.foreign <= cart'.foreign
      /\ \A r \in {"pump", "page"} : Read(r) => Follows(cart', reads[r].cart)
  BY ReceivedView DEF Shot
<1>6. /\ ops' \in Seq(Op) /\ DOMAIN ops' = 1 .. (Len(ops) - n)
      /\ \A j \in DOMAIN ops' :
           /\ n + j \in DOMAIN ops /\ n < n + j /\ Unsent(ops[n + j]) /\ Unsent(ops'[j])
           /\ ops'[j].key = ops[n + j].key /\ ops'[j].saw = ops[n + j].saw
      /\ \/ \A j \in DOMAIN ops' : ops'[j].base = ops[n + j].base
         \/ /\ cart'.version = Advance(reply.accepted)
            /\ \A j \in DOMAIN ops' : ops'[j].base = cart'.version
  BY <1>3, <1>5, ReceivedQueue DEF Left
<1>7. /\ n \in 1 .. Len(ops) /\ n \in Nat /\ Len(ops) \in Nat /\ n \in DOMAIN ops
      /\ DOMAIN ops = 1 .. Len(ops)
      /\ Len(Sending) = n /\ DOMAIN Sending = 1 .. n
      /\ \A i \in 1 .. n : i \in DOMAIN ops /\ Sending[i] = ops[i]
  BY <1>3, TypeFacts DEF SendingIs
<1>8. /\ Last(Sending) = ops[n]
      /\ \A i \in 1 .. n : ops[i].key \in Confirmed
      /\ reply.accepted = receipt[ops[n].key].version
  BY <1>1, <1>7 DEF ReplyInvariant, Last
<1>9. \A j \in DOMAIN ops' : /\ ops'[j] \in Op /\ ops'[j].key \notin Confirmed
                             /\ ops'[j].version = NotSent
  <2>. SUFFICES ASSUME NEW j \in DOMAIN ops'
                PROVE  /\ ops'[j] \in Op /\ ops'[j].key \notin Confirmed
                       /\ ops'[j].version = NotSent
    OBVIOUS
  <2>1. ops'[j] \in Op
    <3>1. ops' \in Seq(Op)
      BY <1>6
    <3>. QED
      BY <3>1
  <2>2. n + j \in DOMAIN ops /\ Unsent(ops[n + j]) /\ Unsent(ops'[j])
        /\ ops'[j].key = ops[n + j].key
    BY <1>6
  <2>. QED
    BY <2>1, <2>2 DEF LogInvariant, Unsent
<1>10. QueueInvariant'
  <2>1. ASSUME NEW i \in DOMAIN ops', NEW j \in DOMAIN ops', i < j
        PROVE  /\ ops'[i].key < ops'[j].key
               /\ ops'[i].saw <= ops'[j].saw
               /\ Unsent(ops'[i]) => ops'[i].base <= ops'[j].base
    <3>1. n + i \in DOMAIN ops /\ n + j \in DOMAIN ops /\ n + i < n + j /\ Unsent(ops[n + i])
      BY <1>6, <1>7, <2>1
    <3>2. /\ ops[n + i].key < ops[n + j].key /\ ops[n + i].saw <= ops[n + j].saw
          /\ ops[n + i].base <= ops[n + j].base
      BY <3>1 DEF QueueInvariant
    <3>. QED
      BY <1>5, <1>6, <3>2
  <2>2. ASSUME NEW i \in DOMAIN ops'
        PROVE  /\ ops'[i].key <= created /\ gone[ops'[i].key] = "no"
               /\ ops'[i].saw <= cart'.foreign
               /\ ops'[i].base <= cart'.version
               /\ Unsent(ops'[i])
    <3>1. n + i \in DOMAIN ops /\ Unsent(ops[n + i]) /\ Unsent(ops'[i])
          /\ ops'[i].key = ops[n + i].key /\ ops'[i].saw = ops[n + i].saw
      BY <1>6
    <3>2. /\ ops[n + i].key <= created /\ gone[ops[n + i].key] = "no"
          /\ ops[n + i].saw <= cart.foreign /\ ops[n + i].base <= cart.version
      BY <3>1 DEF QueueInvariant
    <3>3. ops[n + i].saw \in Nat /\ ops[n + i].base \in Nat
      BY <3>1, TypedOps
    <3>4. ops'[i].base = ops[n + i].base \/ ops'[i].base = cart'.version
      BY <1>6
    <3>. QED
      BY <1>4, <1>5, <3>1, <3>2, <3>3, <3>4
  <2>. QED
    BY <1>1, <2>1, <2>2 DEF QueueInvariant, Unsent
<1>11. MovesInvariant' /\ Starts' = Starts
  BY <1>1, <1>4, MovesFrame
<1>12. MovesOn(version, foreign, lines, Starts, version', foreign', lines', Starts')
  BY <1>1, <1>11 DEF MovesOn
<1>13. WireTells' /\ ReceiptsTell' /\ ReadsShow'
  BY <1>1, <1>4, <1>12, SeenFrame
<1>14. CartShows' /\ ReplyShows'
  BY <1>1, <1>5, <1>11 DEF CartShows, ReplyShows
<1>15. OpsTell'
  <2>. SUFFICES ASSUME NEW j \in DOMAIN ops'
                PROVE  Tells(ops'[j].base, ops'[j].saw, version, foreign, Starts)
    BY <1>1, <1>6, <1>11 DEF OpsTell, Basis, Unsent
  <2>1. n + j \in DOMAIN ops /\ n < n + j /\ Unsent(ops[n + j])
        /\ ops'[j].saw = ops[n + j].saw
    BY <1>6
  <2>2. Tells(ops[n + j].base, ops[n + j].saw, version, foreign, Starts)
    BY <2>1 DEF SeenInvariant, OpsTell, Basis
  <2>3. CASE ops'[j].base = ops[n + j].base
    BY <2>1, <2>2, <2>3
  <2>4. CASE ops'[j].base = Advance(reply.accepted)
    <3>1. ops[n].key \in Confirmed
      BY <1>7, <1>8
    <3>2. Tells(reply.accepted, ops[n].saw, version, foreign, Starts)
      BY <1>7, <1>8, <3>1 DEF SeenInvariant, ReceiptsTell, LogInvariant
    <3>3. reply.accepted \in Nat
      BY <3>2 DEF Tells
    <3>4. Tells(Advance(reply.accepted), ops[n].saw, version, foreign, Starts)
      BY <3>2, <3>3, AdvanceMeans
    <3>5. ops[n].saw <= ops[n + j].saw
      BY <1>7, <2>1 DEF QueueInvariant
    <3>6. ops[n].saw \in Nat /\ ops[n + j].saw \in Nat
      BY <1>7, <2>1, TypedOps
    <3>7. ops[n + j].saw <= foreign
      BY <2>2 DEF Tells
    <3>. QED
      BY <1>4, <2>1, <2>4, <3>4, <3>5, <3>6, <3>7 DEF Tells
  <2>. QED
    BY <1>6, <2>3, <2>4
<1>16. OrderInvariant'
  <2>1. \A r : Read(r)' <=> Read(r)
    BY <1>1 DEF Read
  <2>. QED
    BY <1>1, <1>5, <2>1 DEF OrderInvariant
<1>17. Confirmed' = Confirmed
  BY <1>1 DEF Confirmed
<1>18. LogInvariant'
  <2>1. ASSUME NEW k \in KeysOf(ops) PROVE k \in KeysOf(ops') \cup Confirmed
    <3>1. PICK i \in DOMAIN ops : k = ops[i].key
      BY <2>1 DEF KeysOf
    <3>2. CASE i <= n
      BY <1>7, <1>8, <3>1, <3>2
    <3>3. CASE n < i
      <4>1. (i - n) \in DOMAIN ops' /\ n + (i - n) = i
        BY <1>6, <1>7, <3>3
      <4>2. ops'[i - n].key = k
        BY <1>6, <3>1, <4>1
      <4>. QED
        BY <4>1, <4>2 DEF KeysOf
    <3>. QED
      BY <1>7, <3>2, <3>3
  <2>2. ASSUME NEW i \in DOMAIN ops', NEW k \in Confirmed, ops'[i].key < k
        PROVE  ops'[i].key \in Confirmed
    BY <1>6, <2>2 DEF LogInvariant
  <2>3. /\ \A k \in Confirmed : k <= created /\ gone[k] # "conflict"
        /\ \A k \in 1 .. created : k \in KeysOf(ops') \cup Confirmed \/ gone[k] # "no"
        /\ \A k \in Keys : gone[k] # "no" => k <= created
        /\ \A i \in DOMAIN applied : applied[i] \in Confirmed
    BY <2>1 DEF LogInvariant
  <2>4. OnceInOrder'
    BY <1>1 DEF LogInvariant, OnceInOrder
  <2>. QED
    BY <1>1, <1>9, <1>17, <2>2, <2>3, <2>4 DEF LogInvariant
<1>19. WireInvariant'
  <2>1. \A m : Dead(m)' <=> Dead(m)
    BY <1>1 DEF Dead
  <2>2. ASSUME NEW m \in wire, NEW i \in DOMAIN m.ops, NEW j \in DOMAIN ops'
        PROVE  /\ ops'[j].key < m.ops[i].key => ops'[j].key \in KeysOf(m.ops)
               /\ ops'[j].key = m.ops[i].key => Dead(m)
    <3>1. n + j \in DOMAIN ops /\ ops'[j].key = ops[n + j].key /\ Unsent(ops[n + j])
      BY <1>6
    <3>2. ops'[j].key < m.ops[i].key => ops'[j].key \in KeysOf(m.ops)
      BY <3>1 DEF WireInvariant
    <3>3. ops'[j].key = m.ops[i].key => Dead(m)
      <4>1. m.version # version => Dead(m)
        BY WireFacts
      <4>. QED
        BY <3>1, <4>1, LiveMatch
    <3>. QED
      BY <3>2, <3>3
  <2>. QED
    BY <1>1, <2>1, <2>2 DEF WireInvariant, KeysOf
<1>20. Stale'
  BY <1>1, <1>4, <1>9, <1>17 DEF Stale, NotSent
<1>21. ReplyInvariant'
  <2>1. ~Read("pump")'
    BY <1>1 DEF ReplyInvariant, Read, Reading
  <2>. QED
    BY <1>1, <1>2, <1>20, <2>1 DEF ReplyInvariant
<1>. QED
  BY <1>10, <1>11, <1>13, <1>14, <1>15, <1>16, <1>18, <1>19, <1>21 DEF SeenInvariant

-------------------------------------------------------------------------------
(* The types, part by part. *)
ServerTyped ==
    /\ version \in Nat /\ lines \in Amounts /\ open \in BOOLEAN
    /\ foreign \in 0 .. MaxForeign /\ applied \in Seq(Keys)
    /\ receipt \in [Keys -> ReceiptShape \cup {NoReceipt}]
QueueTyped ==
    /\ ops \in Seq(Op) /\ flight \in Seq(Op) /\ created \in 0 .. MaxOps
    /\ gone \in [Keys -> {"no", "conflict", "refused"}]
ViewTyped == mapped \subseteq Keys /\ cart \in Shot
PumpTyped ==
    /\ pc \in {"idle", "sending", "refreshing", "discarding", "parked"}
    /\ error \in BOOLEAN /\ conflict \in BOOLEAN /\ rejected \in BOOLEAN
    /\ ready \in BOOLEAN
HeaderTyped ==
    /\ headerPending \in BOOLEAN /\ headerError \in BOOLEAN
    /\ header \in HeaderShape /\ headers \in Nat
NetTyped ==
    /\ wire \subseteq Message /\ sends \in 0 .. MaxSends
    /\ reply \in ReplyShape \cup {NoReply}
    /\ reads \in [{"pump", "page"} -> ReadShape \cup {NoRead}]
Typed ==
    ServerTyped /\ QueueTyped /\ ViewTyped /\ PumpTyped /\ HeaderTyped /\ NetTyped

LEMMA TypedParts ==
    /\ TypeInvariant => Typed
    /\ Typed /\ (pc = "sending" => ops # <<>>) => TypeInvariant
<1>1. TypeInvariant => Typed
  BY DEF TypeInvariant, CartTypeOK, Typed, ServerTyped, QueueTyped, ViewTyped, PumpTyped,
         HeaderTyped, NetTyped, Amounts
<1>2. ASSUME Typed, pc = "sending" => ops # <<>> PROVE TypeInvariant
  <2>1. \A m \in wire : m.version \in Nat
    BY <1>2 DEF Typed, NetTyped, Message
  <2>2. CartTypeOK
    BY <1>2, <2>1 DEF CartTypeOK, Typed, ServerTyped, QueueTyped, ViewTyped, PumpTyped,
         HeaderTyped, NetTyped, Amounts
  <2>. QED
    BY <1>2, <2>2 DEF TypeInvariant, Typed, ServerTyped, HeaderTyped, NetTyped
<1>. QED
  BY <1>1, <1>2

LEMMA TypedFrame ==
    ASSUME TypeInvariant
    PROVE  /\ UNCHANGED serverVars => ServerTyped'
           /\ UNCHANGED <<ops, flight, created, gone>> => QueueTyped'
           /\ UNCHANGED <<mapped, cart>> => ViewTyped'
           /\ UNCHANGED <<pc, flagVars>> => PumpTyped'
           /\ UNCHANGED headerVars => HeaderTyped'
           /\ UNCHANGED netVars => NetTyped'
<1>1. Typed
  BY TypedParts
<1>2. UNCHANGED serverVars => ServerTyped'
  BY <1>1 DEF Typed, ServerTyped, serverVars
<1>3. UNCHANGED <<ops, flight, created, gone>> => QueueTyped'
  BY <1>1 DEF Typed, QueueTyped
<1>4. UNCHANGED <<mapped, cart>> => ViewTyped'
  BY <1>1 DEF Typed, ViewTyped
<1>5. UNCHANGED <<pc, flagVars>> => PumpTyped'
  BY <1>1 DEF Typed, PumpTyped, flagVars
<1>6. UNCHANGED headerVars => HeaderTyped'
  BY <1>1 DEF Typed, HeaderTyped, headerVars
<1>7. UNCHANGED netVars => NetTyped'
  BY <1>1 DEF Typed, NetTyped, netVars
<1>. QED
  BY <1>2, <1>3, <1>4, <1>5, <1>6, <1>7

LEMMA SnapshotTyped ==
    ASSUME ServerTyped PROVE Snapshot \in Shot
BY CartAssumption DEF ServerTyped, Snapshot, Shot, Amounts

LEMMA AnswerTyped ==
    ASSUME CartInvariant, NEW m \in wire, NEW status \in {"ok", "version", "refused"},
           NEW accepted \in Nat, Answer(m, status, accepted), ServerTyped'
    PROVE  Typed'
<1>1. TypeInvariant
  BY DEF CartInvariant
<1>2. UNCHANGED <<sends, reads, storedVars, cart, pc, flagVars, headerVars, created,
                  gone>>
  BY DEF Answer
<1>3. QueueTyped' /\ ViewTyped' /\ PumpTyped' /\ HeaderTyped'
  BY <1>1, <1>2, TypedFrame DEF storedVars
<1>4. Snapshot' \in Shot
  BY SnapshotTyped, CartAssumption DEF ServerTyped, Snapshot, Shot, Amounts
<1>5. reply' \in ReplyShape \cup {NoReply}
  BY <1>1, <1>4 DEF Answer, ReplyShape, TypeInvariant
<1>6. NetTyped'
  BY <1>1, <1>2, <1>5, TypedParts DEF Answer, NetTyped, Typed
<1>. QED
  BY <1>3, <1>6 DEF Typed

LEMMA ServeTyped ==
    ASSUME CartInvariant, NEW m \in wire, Serve(m) PROVE Typed'
<1>. USE DEF CartInvariant
<1>1. CASE Replay(m)
  <2>1. ServerTyped'
    BY <1>1, TypedFrame DEF Replay
  <2>2. receipt[Last(m.ops).key].version \in Nat
    <3>1. Len(m.ops) \in DOMAIN m.ops /\ Known(m)
      BY <1>1, WireFacts DEF Replay
    <3>2. m.ops[Len(m.ops)].key \in KeysOf(m.ops)
      BY <3>1 DEF KeysOf
    <3>3. Last(m.ops).key \in Confirmed
      BY <3>1, <3>2 DEF Last, Known, ReceiptsOf
    <3>. QED
      BY <3>3, TypeFacts DEF ReceiptShape
  <2>. QED
    BY <1>1, <2>1, <2>2, AnswerTyped DEF Replay
<1>2. CASE Accept(m)
  <2>. DEFINE done == Execute(m.ops)
  <2>1. AcceptedAs(m, done) /\ Answer(m, "ok", Last(done.stored))
    BY <1>2, AcceptMeans
  <2>. HIDE DEF done
  <2>2. /\ done.version \in Nat /\ done.lines \in Amounts /\ done.stored \in Seq(Nat)
        /\ Len(done.stored) = Len(m.ops)
    BY <2>1 DEF AcceptedAs, Doing
  <2>3. /\ m.ops \in Seq(WireOp) /\ DOMAIN m.ops = 1 .. Len(m.ops) /\ Len(m.ops) >= 1
        /\ Len(m.ops) \in Nat
        /\ \A i \in DOMAIN m.ops : m.ops[i] \in WireOp /\ m.ops[i].key \in Keys
    BY WireFacts
  <2>4. Last(done.stored) \in Nat
    BY <2>2, <2>3 DEF Last
  <2>5. /\ open' = open /\ foreign' = foreign
        /\ applied' = applied \o [i \in DOMAIN m.ops |-> m.ops[i].key]
        /\ receipt' = [k \in Keys |-> receipt'[k]]
    BY <1>2 DEF Accept
  <2>6. applied' \in Seq(Keys)
    <3>1. [i \in DOMAIN m.ops |-> m.ops[i].key] \in [1 .. Len(m.ops) -> Keys]
      BY <2>3
    <3>2. [i \in DOMAIN m.ops |-> m.ops[i].key] \in Seq(Keys)
      BY <2>3, <3>1, FunctionIsSequence, Zenon
    <3>3. applied \in Seq(Keys)
      BY TypedParts DEF Typed, ServerTyped
    <3>. QED
      BY <2>5, <3>2, <3>3
  <2>7. ASSUME NEW k \in Keys PROVE receipt'[k] \in ReceiptShape \cup {NoReceipt}
    <3>1. CASE k \in KeysOf(m.ops)
      <4>1. PICK i \in DOMAIN m.ops : k = m.ops[i].key
        BY <3>1 DEF KeysOf
      <4>2. receipt'[k] = [version |-> done.stored[i], content |-> Content(m.ops[i]),
                           saw |-> m.ops[i].saw, over |-> foreign]
        BY <2>1, <4>1 DEF AcceptedAs
      <4>3. done.stored[i] \in Nat /\ m.ops[i] \in WireOp
        BY <2>2, <2>3
      <4>4. foreign \in Nat
        BY TypeFacts
      <4>5. Content(m.ops[i]) \in [kind : {"add", "quantity", "delete"}, line : Lines,
                                   quantity : 0 .. MaxQuantity] /\ m.ops[i].saw \in Nat
        BY <4>3 DEF Content, WireOp
      <4>. QED
        BY <4>2, <4>3, <4>4, <4>5 DEF ReceiptShape
    <3>2. CASE k \in Confirmed
      BY <2>1, <3>2, TypeFacts DEF AcceptedAs
    <3>3. CASE k \notin KeysOf(m.ops) /\ k \notin Confirmed
      <4>1. k \notin Confirmed'
        BY <2>1, <3>3 DEF AcceptedAs
      <4>. QED
        BY <4>1 DEF Confirmed
    <3>. QED
      BY <3>1, <3>2, <3>3
  <2>8. version' \in Nat /\ lines' \in Amounts
    BY <2>1, <2>2 DEF AcceptedAs
  <2>9. receipt' \in [Keys -> ReceiptShape \cup {NoReceipt}]
    BY <2>5, <2>7
  <2>10. open' \in BOOLEAN /\ foreign' \in 0 .. MaxForeign
    BY <2>5, TypedParts DEF Typed, ServerTyped
  <2>11. ServerTyped'
    BY <2>6, <2>8, <2>9, <2>10 DEF ServerTyped, Amounts
  <2>. QED
    BY <2>1, <2>4, <2>11, AnswerTyped
<1>3. CASE RefuseVersion(m)
  BY <1>3, TypedFrame, AnswerTyped DEF RefuseVersion
<1>4. CASE Refuse(m)
  BY <1>4, TypedFrame, AnswerTyped DEF Refuse
<1>. QED
  BY <1>1, <1>2, <1>3, <1>4 DEF Serve

LEMMA ServerStepTyped ==
    ASSUME CartInvariant, ServerStep PROVE Typed'
<1>. USE DEF CartInvariant
<1>1. Typed
  BY TypedParts
<1>2. CASE \E m \in wire : Serve(m)
  BY <1>2, ServeTyped
<1>3. ASSUME NEW r \in {"pump", "page"}, ServeRead(r) PROVE Typed'
  <2>1. UNCHANGED <<serverVars, storedVars, cart, pc, flagVars, headerVars, created,
                    gone, wire, sends, reply>>
    BY <1>3 DEF ServeRead
  <2>2. ServerTyped' /\ QueueTyped' /\ ViewTyped' /\ PumpTyped' /\ HeaderTyped'
    BY <2>1, TypedFrame DEF storedVars
  <2>3. [cart |-> Snapshot, receipts |-> KeysOf(ops) \cap Confirmed] \in ReadShape
    <3>1. Confirmed \subseteq Keys
      BY DEF Confirmed
    <3>. QED
      BY <1>1, <3>1, SnapshotTyped DEF ReadShape, Typed
  <2>4. reads' \in [{"pump", "page"} -> ReadShape \cup {NoRead}]
    <3>1. reads' = [reads EXCEPT ![r] = [cart |-> Snapshot,
                                         receipts |-> KeysOf(ops) \cap Confirmed]]
      BY <1>3 DEF ServeRead
    <3>. QED
      BY <1>1, <2>3, <3>1 DEF Typed, NetTyped
  <2>5. NetTyped'
    BY <1>1, <2>1, <2>4 DEF Typed, NetTyped
  <2>. QED
    BY <2>2, <2>5 DEF Typed
<1>4. CASE ServeHeader
  <2>1. UNCHANGED <<lines, open, receipt, foreign, applied, storedVars, cart,
                    pc, flagVars, own, headers, headerPending, headerError, created,
                    gone, netVars>>
    BY <1>4 DEF ServeHeader
  <2>2. QueueTyped' /\ ViewTyped' /\ PumpTyped' /\ NetTyped'
    BY <2>1, TypedFrame DEF storedVars
  <2>3. version \in Nat /\ version' \in Nat
    BY <1>1, <1>4 DEF ServeHeader, Typed, ServerTyped
  <2>4. ServerTyped'
    BY <1>1, <2>1, <2>3 DEF Typed, ServerTyped
  <2>5. header' \in HeaderShape
    BY <1>4, <2>3 DEF ServeHeader, HeaderShape, NoHeader
  <2>6. HeaderTyped'
    BY <1>1, <2>1, <2>5 DEF Typed, HeaderTyped
  <2>. QED
    BY <2>2, <2>4, <2>6 DEF Typed
<1>5. CASE EditElsewhere
  <2>1. UNCHANGED <<open, receipt, applied, storedVars, cart, pc, flagVars,
                    headerVars, created, gone, netVars>>
    BY <1>5 DEF EditElsewhere
  <2>2. QueueTyped' /\ ViewTyped' /\ PumpTyped' /\ NetTyped' /\ HeaderTyped'
    BY <2>1, TypedFrame DEF storedVars
  <2>3. lines' \in Amounts
    <3>1. lines \in Amounts
      BY <1>1 DEF Typed, ServerTyped
    <3>. QED
      BY <1>5, <3>1 DEF EditElsewhere, Amounts
  <2>4. version' \in Nat /\ foreign' \in 0 .. MaxForeign
    BY <1>1, <1>5, CartAssumption DEF EditElsewhere, Typed, ServerTyped
  <2>5. ServerTyped'
    BY <1>1, <2>1, <2>3, <2>4 DEF Typed, ServerTyped, Amounts
  <2>. QED
    BY <2>2, <2>5 DEF Typed
<1>6. CASE CompleteElsewhere
  <2>1. /\ UNCHANGED <<version, lines, receipt, foreign, applied, storedVars,
                       cart, pc, flagVars, headerVars, created, gone, netVars>>
        /\ open' = FALSE
    BY <1>6 DEF CompleteElsewhere
  <2>2. QueueTyped' /\ ViewTyped' /\ PumpTyped' /\ NetTyped' /\ HeaderTyped'
    BY <2>1, TypedFrame DEF storedVars
  <2>3. ServerTyped'
    BY <1>1, <2>1 DEF Typed, ServerTyped, Amounts
  <2>. QED
    BY <2>2, <2>3 DEF Typed
<1>. QED
  BY <1>2, <1>3, <1>4, <1>5, <1>6 DEF ServerStep

(* What the cashier can act on is a line. *)
LEMMA ShownAreLines ==
    ASSUME TypeInvariant PROVE Shown \subseteq Lines
<1>. SUFFICES ASSUME NEW l \in Shown PROVE l \in Lines
  OBVIOUS
<1>1. CASE \E i \in DOMAIN ops : l = ops[i].key
  <2>1. PICK i \in DOMAIN ops : l = ops[i].key
    BY <1>1
  <2>2. l \in Keys
    BY <2>1, TypedOps
  <2>. QED
    BY <2>2 DEF Keys, Lines
<1>. QED
  BY <1>1 DEF Shown

LEMMA EditIsTyped ==
    ASSUME TypeInvariant, Edit
    PROVE  \/ \E intents \in Seq(Intents) : Enqueue(intents)
           \/ \E l \in Lines, n \in 1 .. MaxQuantity : Coalesce(l, n)
<1>1. Shown \subseteq Lines
  BY ShownAreLines
<1>2. MaxQuantity \in Nat /\ 1 <= MaxQuantity /\ 0 \in Lines /\ MaxOps \in Nat
  BY CartAssumption DEF Lines
<1>3. \A x \in Deletions \cup Quantities : x \in Intents
  BY <1>1, <1>2 DEF Deletions, Quantities, Intent, Intents
<1>4. Intent("add", 0, 1) \in Intents
  BY <1>2 DEF Intent, Intents
<1>5. CASE Enqueue(<<Intent("add", 0, 1)>>)
  <2>1. <<Intent("add", 0, 1)>> \in Seq(Intents)
    BY <1>4
  <2>. QED
    BY <1>5, <2>1
<1>6. ASSUME NEW first \in Deletions \cup Quantities, Enqueue(<<first>>)
      PROVE  \E intents \in Seq(Intents) : Enqueue(intents)
  <2>1. <<first>> \in Seq(Intents)
    BY <1>3
  <2>. QED
    BY <1>6, <2>1
<1>7. ASSUME NEW first \in Deletions, NEW second \in Deletions \cup Quantities,
             Enqueue(<<first, second>>)
      PROVE  \E intents \in Seq(Intents) : Enqueue(intents)
  <2>1. <<first, second>> \in Seq(Intents)
    BY <1>3
  <2>. QED
    BY <1>7, <2>1
<1>8. ASSUME NEW l \in Shown, NEW n \in 1 .. MaxQuantity, Coalesce(l, n)
      PROVE  \E k \in Lines, q \in 1 .. MaxQuantity : Coalesce(k, q)
  BY <1>1, <1>8
<1>. QED
  BY <1>5, <1>6, <1>7, <1>8 DEF Edit

LEMMA EditTyped ==
    ASSUME CartInvariant, Edit PROVE Typed'
<1>. USE DEF CartInvariant
<1>1. Typed
  BY TypedParts
<1>2. ASSUME NEW intents \in Seq(Intents), Enqueue(intents) PROVE Typed'
  <2>1. UNCHANGED <<serverVars, flight, mapped, cart, flagVars, headerVars, gone,
                    netVars>>
    BY <1>2 DEF Enqueue
  <2>2. ServerTyped' /\ ViewTyped' /\ HeaderTyped' /\ NetTyped'
    BY <2>1, TypedFrame
  <2>3. ops' \in Seq(Op) /\ created' = created + Len(intents) /\ Len(intents) \in Nat
    BY <1>2, EnqueueTyped
  <2>4. created' \in 0 .. MaxOps
    BY <1>1, <1>2, <2>3, CartAssumption DEF Enqueue, Typed, QueueTyped
  <2>5. QueueTyped'
    BY <1>1, <2>1, <2>3, <2>4 DEF Typed, QueueTyped
  <2>6. PumpTyped'
    BY <1>1, <1>2, <2>1 DEF Enqueue, Typed, PumpTyped, flagVars
  <2>. QED
    BY <2>2, <2>5, <2>6 DEF Typed
<1>3. ASSUME NEW l \in Lines, NEW n \in 1 .. MaxQuantity, Coalesce(l, n) PROVE Typed'
  <2>1. UNCHANGED <<serverVars, flight, mapped, cart, pc, flagVars, headerVars,
                    created, gone, netVars>>
    BY <1>3 DEF Coalesce
  <2>2. ServerTyped' /\ ViewTyped' /\ HeaderTyped' /\ NetTyped' /\ PumpTyped'
    BY <2>1, TypedFrame
  <2>3. ops \in Seq(Op) /\ ops # <<>> /\ ops' = [ops EXCEPT ![Len(ops)].quantity = n]
    BY <1>1, <1>3 DEF Coalesce, Coalesces, Typed, QueueTyped
  <2>4. ops' \in Seq(Op)
    <3>1. Len(ops) \in DOMAIN ops /\ ops[Len(ops)] \in Op
      BY <2>3
    <3>2. n \in 0 .. MaxQuantity
      BY CartAssumption
    <3>3. [ops[Len(ops)] EXCEPT !.quantity = n] \in Op
      BY <3>1, <3>2 DEF Op
    <3>4. ops' = [ops EXCEPT ![Len(ops)] = [ops[Len(ops)] EXCEPT !.quantity = n]]
      BY <2>3, <3>1
    <3>. QED
      BY <2>3, <3>1, <3>3, <3>4
  <2>5. QueueTyped'
    BY <1>1, <2>1, <2>4 DEF Typed, QueueTyped
  <2>. QED
    BY <2>2, <2>5 DEF Typed
<1>. QED
  BY <1>2, <1>3, EditIsTyped

LEMMA PumpTypes ==
    ASSUME CartInvariant, PumpConflict \/ PumpSend PROVE Typed'
<1>. USE DEF CartInvariant
<1>1. Typed
  BY TypedParts
<1>2. CASE PumpConflict
  <2>1. /\ UNCHANGED <<serverVars, storedVars, cart, ready, headerVars, created, gone,
                       netVars>>
        /\ conflict' = TRUE /\ rejected' = TRUE /\ error' = TRUE /\ pc' = "refreshing"
    BY <1>2 DEF PumpConflict
  <2>2. ServerTyped' /\ QueueTyped' /\ ViewTyped' /\ HeaderTyped' /\ NetTyped'
    BY <2>1, TypedFrame DEF storedVars
  <2>3. PumpTyped'
    BY <1>1, <2>1 DEF Typed, PumpTyped
  <2>. QED
    BY <2>2, <2>3 DEF Typed
<1>3. CASE PumpSend
  <2>. DEFINE sent == ToSend
  <2>1. /\ UNCHANGED <<serverVars, mapped, cart, flagVars, headerVars, created, gone,
                       reply, reads>>
        /\ sends < MaxSends /\ sends' = sends + 1 /\ pc' = "sending"
        /\ ops' = Stamped(ops, sent) /\ flight' = IF Len(sent) > 1 THEN sent ELSE <<>>
        /\ wire' = wire \cup {[attempt |-> sends + 1, version |-> sent[1].version,
                               ops |-> OnWire(sent)]}
        /\ CanPump /\ ~HeadIsStale
    BY <1>3 DEF PumpSend
  <2>2. PICK n : SentAs(sent, n)
    BY <2>1, ToSendMeans
  <2>. HIDE DEF sent
  <2>3. ServerTyped' /\ ViewTyped' /\ HeaderTyped'
    BY <2>1, TypedFrame
  <2>4. PumpTyped'
    BY <1>1, <2>1 DEF Typed, PumpTyped, flagVars
  <2>5. /\ n \in 1 .. Len(ops) /\ sent \in Seq(Op) /\ Len(sent) = n /\ DOMAIN sent = 1 .. n
        /\ n \in Nat /\ ops \in Seq(Op) /\ Len(ops) \in Nat /\ DOMAIN ops = 1 .. Len(ops)
        /\ \A i \in 1 .. n : sent[i] \in Op /\ ~Unsent(sent[i])
    BY <2>2, TypeFacts DEF SentAs
  <2>6. ops' \in Seq(Op)
    <3>1. /\ DOMAIN ops' = DOMAIN ops
          /\ \A i \in DOMAIN ops : ops'[i] = IF i <= n THEN sent[i] ELSE ops[i]
      BY <2>1, <2>2, StampedMeans DEF Relations
    <3>2. \A i \in DOMAIN ops : ops'[i] \in Op
      BY <2>5, <3>1
    <3>3. ops' = [i \in DOMAIN ops |-> ops'[i]]
      BY <2>1, <3>1 DEF Stamped
    <3>4. ops' \in [1 .. Len(ops) -> Op]
      BY <2>5, <3>2, <3>3
    <3>. QED
      BY <2>5, <3>4, FunctionIsSequence, Zenon
  <2>7. QueueTyped'
    <3>1. flight' \in Seq(Op)
      BY <2>1, <2>5
    <3>. QED
      BY <1>1, <2>1, <2>6, <3>1 DEF Typed, QueueTyped
  <2>8. OnWire(sent) \in Seq(WireOp)
    <3>1. \A i \in 1 .. n : OnWire(sent)[i] \in WireOp
      <4>. SUFFICES ASSUME NEW i \in 1 .. n PROVE OnWire(sent)[i] \in WireOp
        OBVIOUS
      <4>1. sent[i] \in Op
        BY <2>5
      <4>2. OnWire(sent)[i] =
              [key |-> sent[i].key, kind |-> sent[i].kind, line |-> sent[i].line,
               quantity |-> sent[i].quantity, saw |-> sent[i].saw,
               bound |-> sent[i].kind = "add" \/ sent[i].line \in mapped \cup {0}]
        BY <2>5 DEF OnWire
      <4>3. (sent[i].kind = "add" \/ sent[i].line \in mapped \cup {0}) \in BOOLEAN
        OBVIOUS
      <4>. QED
        BY <4>1, <4>2, <4>3 DEF Op, WireOp
    <3>2. OnWire(sent) = [i \in 1 .. n |-> OnWire(sent)[i]]
      BY <2>5 DEF OnWire
    <3>3. OnWire(sent) \in [1 .. n -> WireOp]
      BY <3>1, <3>2
    <3>. QED
      BY <2>5, <3>3, FunctionIsSequence, Zenon
  <2>9. sent[1].version \in Nat
    <3>1. 1 \in 1 .. n
      BY <2>5
    <3>2. sent[1] \in Op /\ ~Unsent(sent[1])
      BY <2>5, <3>1
    <3>. QED
      BY <3>2 DEF Op, Unsent
  <2>10. sends \in Nat /\ sends' \in 0 .. MaxSends
    BY <1>1, <2>1, CartAssumption DEF Typed, NetTyped
  <2>11. wire' \subseteq Message
    BY <1>1, <2>1, <2>8, <2>9, <2>10 DEF Typed, NetTyped, Message
  <2>12. NetTyped'
    BY <1>1, <2>1, <2>10, <2>11 DEF Typed, NetTyped
  <2>. QED
    BY <2>3, <2>4, <2>7, <2>12 DEF Typed
<1>. QED
  BY <1>2, <1>3

LEMMA ReceiveTyped ==
    ASSUME CartInvariant, Receive PROVE Typed'
<1>. USE DEF CartInvariant
<1>1. Typed
  BY TypedParts
<1>2. /\ UNCHANGED <<serverVars, ready, headerVars, created, gone, wire, sends, reads>>
      /\ pc = "sending" /\ reply' = NoReply /\ flight' = <<>>
      /\ mapped' = mapped \cup Added(Sending)
      /\ conflict' \in BOOLEAN /\ rejected' \in BOOLEAN /\ error' \in BOOLEAN
      /\ pc' \in {"refreshing", "idle"}
  BY DEF Receive
<1>3. PICK n : SendingIs(n)
  BY <1>2, SendingMeans DEF Relations, ReplyInvariant
<1>4. cart' \in Shot
  BY ReceivedView
<1>5. ops' \in Seq(Op)
  <2>1. cart'.version \in Nat
    BY <1>4 DEF Shot
  <2>. QED
    BY <1>3, <2>1, ReceivedQueue DEF Left
<1>6. Added(Sending) \subseteq Keys
  <2>. SUFFICES ASSUME NEW i \in DOMAIN Sending PROVE Sending[i].key \in Keys
    BY DEF Added
  <2>1. Sending[i] \in Op
    BY <1>3 DEF SendingIs
  <2>. QED
    BY <2>1 DEF Op
<1>7. ServerTyped' /\ HeaderTyped'
  BY <1>2, TypedFrame
<1>8. QueueTyped'
  BY <1>1, <1>2, <1>5 DEF Typed, QueueTyped
<1>9. ViewTyped'
  BY <1>1, <1>2, <1>4, <1>6 DEF Typed, ViewTyped
<1>10. PumpTyped'
  BY <1>1, <1>2 DEF Typed, PumpTyped
<1>11. NetTyped'
  BY <1>1, <1>2 DEF Typed, NetTyped
<1>. QED
  BY <1>7, <1>8, <1>9, <1>10, <1>11 DEF Typed

LEMMA AnswersTyped ==
    ASSUME CartInvariant, ReceiveRefusal \/ Timeout \/ Retry PROVE Typed'
<1>. USE DEF CartInvariant
<1>1. Typed
  BY TypedParts
<1>2. CASE ReceiveRefusal
  <2>1. /\ UNCHANGED <<serverVars, storedVars, cart, ready, headerVars, created, gone,
                       wire, sends, reads>>
        /\ reply' = NoReply /\ conflict' \in BOOLEAN /\ rejected' = TRUE /\ error' = TRUE
        /\ pc' = "refreshing"
    BY <1>2 DEF ReceiveRefusal
  <2>2. ServerTyped' /\ QueueTyped' /\ ViewTyped' /\ HeaderTyped'
    BY <2>1, TypedFrame DEF storedVars
  <2>3. PumpTyped' /\ NetTyped'
    BY <1>1, <2>1 DEF Typed, PumpTyped, NetTyped
  <2>. QED
    BY <2>2, <2>3 DEF Typed
<1>3. CASE Timeout
  <2>1. /\ UNCHANGED <<serverVars, storedVars, cart, conflict, rejected, ready,
                       headerVars, created, gone, wire, sends, reads>>
        /\ reply' = NoReply /\ error' = TRUE /\ pc' = "idle"
    BY <1>3 DEF Timeout
  <2>2. ServerTyped' /\ QueueTyped' /\ ViewTyped' /\ HeaderTyped'
    BY <2>1, TypedFrame DEF storedVars
  <2>3. PumpTyped' /\ NetTyped'
    BY <1>1, <2>1 DEF Typed, PumpTyped, NetTyped
  <2>. QED
    BY <2>2, <2>3 DEF Typed
<1>4. CASE Retry
  <2>1. /\ UNCHANGED <<serverVars, storedVars, cart, pc, conflict, rejected, ready,
                       headerVars, created, gone, netVars>>
        /\ error' = FALSE
    BY <1>4 DEF Retry
  <2>2. ServerTyped' /\ QueueTyped' /\ ViewTyped' /\ HeaderTyped' /\ NetTyped'
    BY <2>1, TypedFrame DEF storedVars
  <2>3. PumpTyped'
    BY <1>1, <2>1 DEF Typed, PumpTyped
  <2>. QED
    BY <2>2, <2>3 DEF Typed
<1>. QED
  BY <1>2, <1>3, <1>4

LEMMA ReadingTyped ==
    ASSUME CartInvariant, NEW r \in {"pump", "page"}, Refresh(r) \/ RefreshFails(r)
    PROVE  Typed'
<1>. USE DEF CartInvariant
<1>1. Typed
  BY TypedParts
<1>2. AfterRead \in {"parked", "idle"}
  BY DEF AfterRead
<1>3. reads' = [reads EXCEPT ![r] = NoRead]
  BY DEF Refresh, RefreshFails
<1>4. reads' \in [{"pump", "page"} -> ReadShape \cup {NoRead}]
  BY <1>1, <1>3 DEF Typed, NetTyped
<1>5. CASE Refresh(r)
  <2>1. /\ UNCHANGED <<serverVars, ops, flight, error, conflict, rejected, headerVars,
                       created, gone, wire, sends, reply>>
        /\ ready' = TRUE /\ pc' = IF r = "pump" THEN AfterRead ELSE pc
        /\ reads[r] # NoRead
    BY <1>5 DEF Refresh
  <2>2. ServerTyped' /\ QueueTyped' /\ HeaderTyped'
    BY <2>1, TypedFrame
  <2>3. PumpTyped' /\ NetTyped'
    BY <1>1, <1>2, <1>4, <2>1 DEF Typed, PumpTyped, NetTyped
  <2>4. reads[r].cart \in Shot /\ reads[r].receipts \subseteq Keys
    BY <2>1, TypeFacts DEF Read, ReadShape
  <2>5. ViewTyped'
    <3>1. \/ /\ cart' = reads[r].cart
             /\ mapped' = mapped \cup {k \in reads[r].receipts :
                                          receipt[k].content.kind = "add"}
          \/ cart' = cart /\ mapped' = mapped
      BY <1>5 DEF Refresh
    <3>. QED
      BY <1>1, <2>4, <3>1 DEF Typed, ViewTyped
  <2>. QED
    BY <2>2, <2>3, <2>5 DEF Typed
<1>6. CASE RefreshFails(r)
  <2>1. /\ UNCHANGED <<serverVars, storedVars, cart, conflict, rejected, ready,
                       headerVars, created, gone, wire, sends, reply>>
        /\ pc' = IF r = "pump" THEN AfterRead ELSE pc
        /\ error' \in {error, TRUE}
    BY <1>6 DEF RefreshFails
  <2>2. ServerTyped' /\ QueueTyped' /\ HeaderTyped' /\ ViewTyped'
    BY <2>1, TypedFrame DEF storedVars
  <2>3. PumpTyped' /\ NetTyped'
    BY <1>1, <1>2, <1>4, <2>1 DEF Typed, PumpTyped, NetTyped
  <2>. QED
    BY <2>2, <2>3 DEF Typed
<1>. QED
  BY <1>5, <1>6

LEMMA DecisionTyped ==
    ASSUME CartInvariant, AcceptConflict \/ Discard PROVE Typed'
<1>. USE DEF CartInvariant
<1>1. Typed
  BY TypedParts
<1>2. CASE AcceptConflict
  <2>1. /\ UNCHANGED <<serverVars, mapped, cart, pc, ready, headerVars, created, gone,
                       netVars>>
        /\ flight' = <<>>
        /\ ops' = [i \in DOMAIN ops |->
                      [ops[i] EXCEPT !.version = NotSent, !.base = cart.version,
                                     !.saw = cart.foreign]]
        /\ error' = FALSE /\ conflict' = FALSE /\ rejected' = FALSE
    BY <1>2 DEF AcceptConflict
  <2>2. ServerTyped' /\ ViewTyped' /\ HeaderTyped' /\ NetTyped'
    BY <2>1, TypedFrame
  <2>3. ops' \in Seq(Op)
    <3>1. ops \in Seq(Op) /\ DOMAIN ops = 1 .. Len(ops) /\ Len(ops) \in Nat
          /\ cart.version \in Nat /\ cart.foreign \in Nat
      BY TypeFacts DEF Shot
    <3>2. \A i \in DOMAIN ops : [ops[i] EXCEPT !.version = NotSent,
              !.base = cart.version, !.saw = cart.foreign] \in Op
      <4>. SUFFICES ASSUME NEW i \in DOMAIN ops
                    PROVE  [ops[i] EXCEPT !.version = NotSent, !.base = cart.version,
                                          !.saw = cart.foreign] \in Op
        OBVIOUS
      <4>1. ops[i] \in Op
        BY <3>1
      <4>. QED
        BY <3>1, <4>1 DEF Op
    <3>3. ops' \in [1 .. Len(ops) -> Op]
      BY <2>1, <3>1, <3>2
    <3>. QED
      BY <3>1, <3>3, FunctionIsSequence, Zenon
  <2>4. QueueTyped'
    <3>1. flight' = <<>> /\ created' = created /\ gone' = gone
      BY <2>1
    <3>. QED
      BY <1>1, <2>3, <3>1 DEF Typed, QueueTyped
  <2>5. PumpTyped'
    BY <1>1, <2>1 DEF Typed, PumpTyped
  <2>. QED
    BY <2>2, <2>4, <2>5 DEF Typed
<1>3. CASE Discard
  <2>1. /\ UNCHANGED <<serverVars, mapped, cart, ready, headerVars, created, netVars>>
        /\ ops' = <<>> /\ flight' = <<>>
        /\ gone' = [k \in Keys |->
                       IF k \in KeysOf(ops)
                       THEN IF conflict THEN "conflict" ELSE "refused"
                       ELSE gone[k]]
        /\ error' = FALSE /\ conflict' = FALSE /\ rejected' = FALSE
        /\ pc' = "discarding"
    BY <1>3 DEF Discard
  <2>2. ServerTyped' /\ ViewTyped' /\ HeaderTyped' /\ NetTyped'
    BY <2>1, TypedFrame
  <2>3. gone' \in [Keys -> {"no", "conflict", "refused"}]
    BY <1>1, <2>1 DEF Typed, QueueTyped
  <2>4. QueueTyped'
    BY <1>1, <2>1, <2>3 DEF Typed, QueueTyped
  <2>5. PumpTyped'
    BY <1>1, <2>1 DEF Typed, PumpTyped
  <2>. QED
    BY <2>2, <2>4, <2>5 DEF Typed
<1>. QED
  BY <1>2, <1>3

LEMMA ReloadTyped ==
    ASSUME CartInvariant, Reload PROVE Typed'
<1>. USE DEF CartInvariant
<1>1. Typed
  BY TypedParts
<1>2. /\ UNCHANGED <<serverVars, storedVars, headers, created, gone, wire, sends>>
      /\ cart' = Snapshot /\ pc' = "idle"
      /\ error' = FALSE /\ conflict' = FALSE /\ rejected' = FALSE /\ ready' = FALSE
      /\ headerPending' = FALSE /\ headerError' = FALSE
      /\ reply' = NoReply
      /\ reads' = [r \in {"pump", "page"} |-> NoRead]
  BY DEF Reload
<1>3. header' \in HeaderShape
  <2>1. header \in HeaderShape
    BY <1>1 DEF Typed, HeaderTyped
  <2>2. CASE header.state = "sent"
    <3>1. header' = [header EXCEPT !.state = "orphan"]
      BY <2>2 DEF Reload
    <3>. QED
      BY <2>1, <3>1 DEF HeaderShape
  <2>3. CASE header.state = "served"
    <3>1. header' = NoHeader
      BY <2>3 DEF Reload
    <3>. QED
      BY <3>1 DEF HeaderShape, NoHeader
  <2>4. CASE header.state \notin {"sent", "served"}
    <3>1. header' = header
      BY <2>4 DEF Reload
    <3>. QED
      BY <2>1, <3>1
  <2>. QED
    BY <2>2, <2>3, <2>4
<1>4. ServerTyped' /\ QueueTyped'
  BY <1>2, TypedFrame DEF storedVars
<1>5. ViewTyped'
  BY <1>1, <1>2, SnapshotTyped DEF Typed, ViewTyped, storedVars
<1>6. PumpTyped'
  BY <1>2 DEF PumpTyped
<1>7. HeaderTyped'
  BY <1>1, <1>2, <1>3 DEF Typed, HeaderTyped
<1>8. NetTyped'
  BY <1>1, <1>2 DEF Typed, NetTyped
<1>. QED
  BY <1>4, <1>5, <1>6, <1>7, <1>8 DEF Typed

LEMMA HeaderFormTyped ==
    ASSUME CartInvariant, PostHeader \/ HeaderSaved \/ HeaderUncertain PROVE Typed'
<1>. USE DEF CartInvariant
<1>1. Typed
  BY TypedParts
<1>2. CASE PostHeader
  <2>1. /\ UNCHANGED <<serverVars, storedVars, cart, pc, flagVars, own, headerError,
                       created, gone, netVars>>
        /\ headers' = headers + 1 /\ header' = [header EXCEPT !.state = "sent"]
        /\ headerPending' = TRUE
    BY <1>2 DEF PostHeader
  <2>2. ServerTyped' /\ QueueTyped' /\ ViewTyped' /\ PumpTyped' /\ NetTyped'
    BY <2>1, TypedFrame DEF storedVars
  <2>3. header' \in HeaderShape
    BY <1>1, <2>1 DEF Typed, HeaderTyped, HeaderShape
  <2>4. HeaderTyped'
    BY <1>1, <2>1, <2>3 DEF Typed, HeaderTyped
  <2>. QED
    BY <2>2, <2>4 DEF Typed
<1>3. CASE HeaderUncertain
  <2>1. /\ UNCHANGED <<serverVars, storedVars, cart, pc, flagVars, own, headers, header,
                       created, gone, netVars>>
        /\ headerPending' = FALSE /\ headerError' = TRUE
    BY <1>3 DEF HeaderUncertain
  <2>2. ServerTyped' /\ QueueTyped' /\ ViewTyped' /\ PumpTyped' /\ NetTyped'
    BY <2>1, TypedFrame DEF storedVars
  <2>3. HeaderTyped'
    BY <1>1, <2>1 DEF Typed, HeaderTyped
  <2>. QED
    BY <2>2, <2>3 DEF Typed
<1>4. CASE HeaderSaved
  <2>1. /\ UNCHANGED <<serverVars, flight, mapped, pc, flagVars, headers, created, gone,
                       netVars>>
        /\ header' = NoHeader /\ headerPending' = FALSE /\ headerError' = FALSE
        /\ cart' = [cart EXCEPT !.version = AdvanceBy(own', @)]
        /\ ops' = [i \in DOMAIN ops |->
                      IF Unsent(ops[i]) THEN [ops[i] EXCEPT !.base = AdvanceBy(own', @)]
                                        ELSE ops[i]]
    BY <1>4 DEF HeaderSaved
  <2>2. ServerTyped' /\ PumpTyped' /\ NetTyped'
    BY <2>1, TypedFrame
  <2>3. HeaderTyped'
    BY <1>1, <2>1 DEF Typed, HeaderTyped, HeaderShape, NoHeader
  <2>4. MovesInvariant' /\ version' \in Nat
    BY <1>4, <2>2, HeaderSavedKeeps DEF Relations, ServerTyped
  <2>5. \A v \in Nat : AdvanceBy(own', v) \in Nat
    <3>. SUFFICES ASSUME NEW v \in Nat PROVE AdvanceBy(own', v) \in Nat
      OBVIOUS
    <3>1. \A p \in own' : p \in Nat \X Nat /\ p[2] = p[1] + 1 /\ p[2] <= version'
      BY <2>4 DEF MovesInvariant
    <3>2. Advances(own', v, AdvanceBy(own', v))
      BY <2>4, <3>1, AdvanceBySteps
    <3>. QED
      BY <3>2 DEF Advances
  <2>6. ViewTyped'
    <3>1. cart \in Shot /\ cart.version \in Nat
      BY TypeFacts DEF Shot
    <3>2. AdvanceBy(own', cart.version) \in Nat
      BY <2>5, <3>1
    <3>3. cart' = [cart EXCEPT !.version = AdvanceBy(own', cart.version)]
      BY <2>1, <3>1 DEF Shot
    <3>4. cart' \in Shot
      BY <3>1, <3>2, <3>3 DEF Shot
    <3>. QED
      BY <1>1, <2>1, <3>4 DEF Typed, ViewTyped
  <2>7. ops' \in Seq(Op)
    <3>1. ops \in Seq(Op) /\ DOMAIN ops = 1 .. Len(ops) /\ Len(ops) \in Nat
      BY TypeFacts
    <3>2. \A i \in DOMAIN ops : ops'[i] \in Op
      <4>. SUFFICES ASSUME NEW i \in DOMAIN ops PROVE ops'[i] \in Op
        OBVIOUS
      <4>1. ops[i] \in Op /\ ops[i].base \in Nat
        BY TypedOps
      <4>2. AdvanceBy(own', ops[i].base) \in Nat
        BY <2>5, <4>1
      <4>3. ops'[i] = IF Unsent(ops[i])
                      THEN [ops[i] EXCEPT !.base = AdvanceBy(own', ops[i].base)]
                      ELSE ops[i]
        BY <2>1, <4>1 DEF Op
      <4>. QED
        BY <4>1, <4>2, <4>3 DEF Op
    <3>3. ops' = [i \in DOMAIN ops |-> ops'[i]]
      BY <2>1
    <3>4. ops' \in [1 .. Len(ops) -> Op]
      BY <3>1, <3>2, <3>3
    <3>. QED
      BY <3>1, <3>4, FunctionIsSequence, Zenon
  <2>8. QueueTyped'
    BY <1>1, <2>1, <2>7 DEF Typed, QueueTyped
  <2>. QED
    BY <2>2, <2>3, <2>6, <2>8 DEF Typed
<1>. QED
  BY <1>2, <1>3, <1>4

LEMMA TabEventTyped ==
    ASSUME CartInvariant, TabEvent PROVE Typed'
<1>1. CASE \E r \in {"pump", "page"} : Refresh(r) \/ RefreshFails(r)
  BY <1>1, ReadingTyped
<1>. QED
  BY <1>1, EditTyped, ReceiveTyped, AnswersTyped, DecisionTyped, ReloadTyped,
     HeaderFormTyped DEF TabEvent

LEMMA TabEventKeeps ==
    ASSUME CartInvariant, TabEvent PROVE Relations'
<1>1. CASE Edit
  <2>1. TypeInvariant
    BY DEF CartInvariant
  <2>. QED
    BY <1>1, <2>1, EditIsTyped, EnqueueKeeps, CoalesceKeeps
<1>2. CASE \E r \in {"pump", "page"} : Refresh(r) \/ RefreshFails(r)
  BY <1>2, RefreshKeeps, RefreshFailsKeeps
<1>3. CASE Receive
  BY <1>3, ReceiveKeeps
<1>4. CASE ReceiveRefusal
  BY <1>4, ReceiveRefusalKeeps
<1>5. CASE Timeout
  BY <1>5, TimeoutKeeps
<1>6. CASE Retry
  BY <1>6, RetryKeeps
<1>7. CASE AcceptConflict
  BY <1>7, AcceptConflictKeeps
<1>8. CASE Discard
  BY <1>8, DiscardKeeps
<1>9. CASE Reload
  BY <1>9, ReloadKeeps
<1>10. CASE PostHeader
  BY <1>10, PostHeaderKeeps
<1>11. CASE HeaderSaved
  BY <1>11, HeaderSavedKeeps
<1>12. CASE HeaderUncertain
  BY <1>12, HeaderUncertainKeeps
<1>. QED
  BY <1>1, <1>2, <1>3, <1>4, <1>5, <1>6, <1>7, <1>8, <1>9, <1>10, <1>11, <1>12
     DEF TabEvent

LEMMA ServerStepKeeps ==
    ASSUME CartInvariant, ServerStep PROVE Relations'
<1>1. ASSUME NEW m \in wire, Serve(m) PROVE Relations'
  BY <1>1, ReplayKeeps, AcceptKeeps, RefuseVersionKeeps, RefuseKeeps DEF Serve
<1>2. ASSUME NEW r \in {"pump", "page"}, ServeRead(r) PROVE Relations'
  BY <1>2, ServeReadKeeps
<1>. QED
  BY <1>1, <1>2, ServeHeaderKeeps, EditElsewhereKeeps, CompleteElsewhereKeeps
     DEF ServerStep

LEMMA CartStarts ==
    ASSUME CartInit PROVE CartInvariant
<1>1. /\ version = 0 /\ lines = [l \in Lines |-> IF l = 0 THEN 1 ELSE 0]
      /\ open = TRUE /\ receipt = [k \in Keys |-> NoReceipt]
      /\ foreign = 0 /\ applied = <<>>
      /\ ops = <<>> /\ flight = <<>> /\ mapped = {} /\ cart = Snapshot
      /\ pc = "idle"
      /\ error = FALSE /\ conflict = FALSE /\ rejected = FALSE /\ ready = FALSE
      /\ own = {} /\ headers = 0 /\ header = NoHeader
      /\ headerPending = FALSE /\ headerError = FALSE
      /\ created = 0 /\ gone = [k \in Keys |-> "no"]
      /\ wire = {} /\ sends = 0 /\ reply = NoReply
      /\ reads = [r \in {"pump", "page"} |-> NoRead]
  BY DEF CartInit
<1>2. Typed
  <2>1. ServerTyped
    BY <1>1, CartAssumption DEF ServerTyped, Amounts
  <2>2. QueueTyped
    BY <1>1, CartAssumption DEF QueueTyped
  <2>3. ViewTyped
    BY <1>1, <2>1, SnapshotTyped DEF ViewTyped
  <2>4. PumpTyped
    BY <1>1 DEF PumpTyped
  <2>5. HeaderTyped
    BY <1>1 DEF HeaderTyped, HeaderShape, NoHeader
  <2>6. NetTyped
    BY <1>1, CartAssumption DEF NetTyped
  <2>. QED
    BY <2>1, <2>2, <2>3, <2>4, <2>5, <2>6 DEF Typed
<1>3. TypeInvariant
  BY <1>1, <1>2, TypedParts
<1>4. /\ DOMAIN ops = {} /\ DOMAIN flight = {} /\ DOMAIN applied = {}
      /\ Confirmed = {} /\ \A r \in {"pump", "page"} : ~Read(r)
      /\ header.state = "none"
  BY <1>1 DEF Confirmed, Read, NoHeader
<1>5. QueueInvariant
  BY <1>1, <1>4 DEF QueueInvariant
<1>6. MovesInvariant
  BY <1>1, <1>4 DEF MovesInvariant
<1>7. SeenInvariant
  <2>1. CartShows
    <3>1. /\ cart.version = version /\ cart.foreign = foreign /\ cart.lines = lines
          /\ version \in Nat /\ foreign \in Nat
      BY <1>1 DEF Snapshot
    <3>2. Shows(cart, cart.version, cart.foreign, cart.lines, Starts)
      BY <3>1, NowShows
    <3>. QED
      BY <3>1, <3>2 DEF CartShows
  <2>. QED
    BY <1>1, <1>4, <2>1 DEF SeenInvariant, OpsTell, WireTells, ReceiptsTell, ReadsShow,
                            ReplyShows
<1>8. OrderInvariant
  BY <1>1, <1>4 DEF OrderInvariant
<1>9. LogInvariant
  <2>1. 1 .. created = {}
    BY <1>1
  <2>. QED
    BY <1>1, <1>4, <2>1 DEF LogInvariant, OnceInOrder
<1>10. WireInvariant
  BY <1>1 DEF WireInvariant
<1>11. ReplyInvariant
  BY <1>1, <1>4 DEF ReplyInvariant
<1>. QED
  BY <1>3, <1>5, <1>6, <1>7, <1>8, <1>9, <1>10, <1>11 DEF CartInvariant, Relations

LEMMA CartSteps ==
    ASSUME CartInvariant, [CartNext]_cartVars PROVE CartInvariant'
<1>1. CASE CartNext
  <2>1. Typed' /\ Relations'
    BY <1>1, ServerStepTyped, ServerStepKeeps, PumpTypes, PumpConflictKeeps,
       PumpSendKeeps, TabEventTyped, TabEventKeeps DEF CartNext, QueueStep
  <2>2. (pc = "sending" => ops # <<>>)'
    BY <2>1 DEF Relations, ReplyInvariant
  <2>3. TypeInvariant'
    <3>1. (Typed /\ (pc = "sending" => ops # <<>>) => TypeInvariant)'
      BY TypedParts, PTL
    <3>. QED
      BY <2>1, <2>2, <3>1
  <2>. QED
    BY <2>1, <2>3 DEF CartInvariant
<1>2. CASE UNCHANGED cartVars
  <2>1. /\ UNCHANGED <<serverVars, storedVars, cart, pc, flagVars, headerVars, created,
                       gone, netVars>>
    BY <1>2 DEF cartVars
  <2>2. Typed'
    BY <2>1, TypedFrame DEF CartInvariant, Typed, storedVars
  <2>3. Relations'
    <3>1. /\ Read("pump") => Reading
          /\ conflict => Stale /\ rejected
          /\ rejected => error
      BY DEF CartInvariant, Relations, ReplyInvariant
    <3>. QED
      BY <2>1, <3>1, FlagsChange DEF flagVars, netVars, headerVars, Read, Reading
  <2>4. (pc = "sending" => ops # <<>>)'
    BY <2>3 DEF Relations, ReplyInvariant
  <2>5. (Typed /\ (pc = "sending" => ops # <<>>) => TypeInvariant)'
    BY TypedParts, PTL
  <2>. QED
    BY <2>2, <2>3, <2>4, <2>5 DEF CartInvariant
<1>. QED
  BY <1>1, <1>2

THEOREM CartAlways == CartSpec => []CartInvariant
<1>1. CartInit => CartInvariant
  BY CartStarts
<1>2. CartInvariant /\ [CartNext]_cartVars => CartInvariant'
  BY CartSteps
<1>. QED
  BY <1>1, <1>2, PTL DEF CartSpec

(* Every variable keeps its type, and nothing is awaited for an empty queue. *)
THEOREM CartTyped == CartSpec => []CartTypeOK
<1>1. CartInvariant => CartTypeOK
  BY DEF CartInvariant, TypeInvariant
<1>. QED
  BY <1>1, CartAlways, PTL

(* OnceInOrder for any number of operations, requests, losses and reloads: no
   operation takes effect twice, and those kept take effect in the order made. *)
THEOREM OncePerOperation == CartSpec => []OnceInOrder
<1>1. CartInvariant => OnceInOrder
  BY DEF CartInvariant, Relations, LogInvariant
<1>. QED
  BY <1>1, CartAlways, PTL

(* NothingLost: an operation is queued, confirmed with the content the tab holds, or
   discarded, and what a conflict discarded never takes effect afterwards. *)
THEOREM NothingIsLost == CartSpec => []NothingLost
<1>1. CartInvariant => NothingLost
  BY DEF CartInvariant, Relations, LogInvariant, NothingLost
<1>. QED
  BY <1>1, CartAlways, PTL

(* NoSilentRebase: what takes effect was made over, or applied again over, every
   change of others that the cart had by then. *)
THEOREM NeverRebasedSilently == CartSpec => []NoSilentRebase
<1>1. CartInvariant => NoSilentRebase
  BY DEF CartInvariant, Relations, SeenInvariant, ReceiptsTell, NoSilentRebase
<1>. QED
  BY <1>1, CartAlways, PTL

(* VersionTellsLines: a tab at the version of the server shows its lines. *)
THEOREM VersionsTellLines == CartSpec => []VersionTellsLines
<1>1. CartInvariant => VersionTellsLines
  <2>. SUFFICES ASSUME CartInvariant, cart.version = version
                PROVE  cart.lines = lines /\ cart.foreign = foreign
    BY DEF VersionTellsLines
  <2>1. version \in Nat /\ foreign \in Nat /\ version <= cart.version
    BY TypeFacts DEF CartInvariant
  <2>2. Shows(cart, version, foreign, lines, Starts)
    BY DEF CartInvariant, Relations, SeenInvariant, CartShows
  <2>. QED
    BY <2>1, <2>2, ShowsNow
<1>. QED
  BY <1>1, CartAlways, PTL
===============================================================================
