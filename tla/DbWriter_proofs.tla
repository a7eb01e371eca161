--------------------------- MODULE DbWriter_proofs ---------------------------
(***************************************************************************)
(* Proofs about DbWriter.tla for any number of writers, statements and     *)
(* failures, and batches of any size.                                      *)
(***************************************************************************)
EXTENDS DbWriter, Queues, SequenceTheorems, FiniteSetTheorems, TLAPS

(***************************************************************************)
(* Sequences without duplicates: appending, taking the head, cutting.      *)
(***************************************************************************)
LEMMA InFacts ==
  ASSUME NEW S, NEW s \in Seq(S)
  PROVE  \A x : /\ In(s, x) <=> x \in ToSet(s)
                /\ In(s, x) => x \in S /\ s # <<>>
BY LenProperties, EmptySeq, ElementOfSeq DEF In, ToSet

\* Appending what is not queued keeps the queue duplicate-free.
LEMMA AppendFacts ==
  ASSUME NEW S, NEW s \in Seq(S), NEW x \in S
  PROVE  /\ \A c : In(Append(s, x), c) <=> In(s, c) \/ c = x
         /\ Distinct(s) /\ ~In(s, x) => Distinct(Append(s, x))
<1> DEFINE t == Append(s, x)
<1>1. /\ Len(s) \in Nat /\ Len(t) = Len(s) + 1 /\ t[Len(s) + 1] = x
      /\ \A i \in 1..Len(s) : t[i] = s[i]
  BY AppendProperties, LenProperties
<1>2. \A i \in 1..Len(t) : i \in 1..Len(s) \/ i = Len(s) + 1
  BY <1>1
<1>3. Len(s) + 1 \in 1..Len(t) /\ \A i \in 1..Len(s) : i \in 1..Len(t)
  BY <1>1
<1> HIDE DEF t
<1>4. Distinct(s) /\ ~In(s, x) => Distinct(t)
  BY <1>1, <1>2 DEF Distinct, In
<1>5. \A c : In(t, c) <=> In(s, c) \/ c = x
  BY <1>1, <1>2, <1>3 DEF In
<1> QED
  BY <1>4, <1>5 DEF t

\* A duplicate-free sequence q cut into a front f and a rest r.
Cut(q, f, r) ==
  /\ Len(q) = Len(f) + Len(r)
  /\ \A i \in 1..Len(f) : f[i] = q[i]
  /\ \A i \in 1..Len(r) : r[i] = q[Len(f) + i]
  /\ Distinct(f) /\ Distinct(r)
  /\ \A c : In(q, c) <=> In(f, c) \/ In(r, c)
  /\ \A c : ~(In(f, c) /\ In(r, c))

LEMMA CutFacts ==
  ASSUME NEW S, NEW s \in Seq(S), Distinct(s), NEW n \in 0..Len(s)
  PROVE  /\ SubSeq(s, 1, n) \in Seq(S) /\ Len(SubSeq(s, 1, n)) = n
         /\ SubSeq(s, n + 1, Len(s)) \in Seq(S)
         /\ Cut(s, SubSeq(s, 1, n), SubSeq(s, n + 1, Len(s)))
<1> DEFINE a == SubSeq(s, 1, n)
           b == SubSeq(s, n + 1, Len(s))
<1>0. Len(s) \in Nat /\ n \in Nat /\ n <= Len(s) /\ \A i \in 1..Len(s) : s[i] \in S
  BY LenProperties, ElementOfSeq
<1>1. a \in Seq(S) /\ Len(a) = n /\ \A i \in 1..n : a[i] = s[i]
  <2>1. \A i \in 1..n : s[i] \in S
    BY <1>0
  <2>2. /\ SubSeq(s, 1, n) \in Seq(S)
        /\ Len(SubSeq(s, 1, n)) = IF 1 <= n THEN n - 1 + 1 ELSE 0
        /\ \A i \in 1..(n - 1 + 1) : SubSeq(s, 1, n)[i] = s[1 + i - 1]
    BY <1>0, <2>1, SubSeqProperties
  <2> QED
    BY <1>0, <2>2
<1>2. b \in Seq(S) /\ Len(b) = Len(s) - n /\ \A i \in 1..Len(b) : b[i] = s[n + i]
  <2>1. \A i \in (n + 1)..Len(s) : s[i] \in S
    BY <1>0
  <2> DEFINE m == n + 1
  <2>2. m \in Int /\ Len(s) \in Int
    BY <1>0
  <2>3. /\ SubSeq(s, m, Len(s)) \in Seq(S)
        /\ Len(SubSeq(s, m, Len(s))) = IF m <= Len(s) THEN Len(s) - m + 1 ELSE 0
        /\ \A i \in 1..(Len(s) - m + 1) : SubSeq(s, m, Len(s))[i] = s[m + i - 1]
    <3> HIDE DEF m
    <3>1. \A i \in m..Len(s) : s[i] \in S
      BY <2>1 DEF m
    <3> QED
      BY <2>2, <3>1, SubSeqProperties
  <2> QED
    BY <1>0, <2>3
<1> HIDE DEF a, b
<1>3. /\ \A i \in 1..Len(a) : i \in 1..Len(s)
      /\ \A i \in 1..Len(b) : n + i \in 1..Len(s) /\ n + i \notin 1..Len(a) /\ i \in Nat
      /\ \A i \in 1..Len(s) : i \in 1..Len(a) \/ (i - n \in 1..Len(b) /\ n + (i - n) = i)
  BY <1>0, <1>1, <1>2
<1>4. Distinct(a)
  BY <1>1, <1>3 DEF Distinct
<1>5. Distinct(b)
  <2> SUFFICES ASSUME NEW i \in 1..Len(b), NEW j \in 1..Len(b), b[i] = b[j] PROVE i = j
    BY DEF Distinct
  <2>1. n + i = n + j
    BY <1>2, <1>3 DEF Distinct
  <2> QED
    BY <2>1, <1>0, <1>3
<1>6. \A c : In(s, c) <=> In(a, c) \/ In(b, c)
  <2> TAKE c
  <2>1. In(a, c) => In(s, c)
    BY <1>1, <1>3 DEF In
  <2>2. In(b, c) => In(s, c)
    BY <1>2, <1>3 DEF In
  <2>3. ASSUME In(s, c) PROVE In(a, c) \/ In(b, c)
    <3>1. PICK i \in 1..Len(s) : s[i] = c
      BY <2>3 DEF In
    <3>2. i \in 1..Len(a) \/ (i - n \in 1..Len(b) /\ b[i - n] = s[n + (i - n)] /\ n + (i - n) = i)
      BY <1>2, <1>3
    <3> QED
      BY <3>1, <3>2, <1>1 DEF In
  <2> QED
    BY <2>1, <2>2, <2>3
<1>7. \A c : ~(In(a, c) /\ In(b, c))
  <2> SUFFICES ASSUME NEW i \in 1..Len(a), NEW j \in 1..Len(b), a[i] = b[j] PROVE FALSE
    BY DEF In
  <2>1. s[i] = s[n + j] /\ i \in 1..Len(s) /\ n + j \in 1..Len(s)
    BY <1>1, <1>2, <1>3
  <2> QED
    BY <2>1, <1>3 DEF Distinct
<1>8. Cut(s, a, b)
  BY <1>0, <1>1, <1>2, <1>4, <1>5, <1>6, <1>7 DEF Cut
<1> QED
  BY <1>1, <1>2, <1>8 DEF a, b

\* Taking the head of a duplicate-free sequence removes all of it.
LEMMA TailFacts ==
  ASSUME NEW S, NEW s \in Seq(S), s # <<>>, Distinct(s)
  PROVE  /\ Len(s) \in Nat \ {0} /\ Head(s) \in S /\ Head(s) = s[1] /\ In(s, Head(s))
         /\ Tail(s) \in Seq(S) /\ Len(Tail(s)) = Len(s) - 1
         /\ \A i \in 1..Len(Tail(s)) : Tail(s)[i] = s[i + 1]
         /\ Tail(s) = <<>> <=> Len(s) = 1
         /\ Distinct(Tail(s))
         /\ \A c : In(Tail(s), c) <=> In(s, c) /\ c # Head(s)
<1>1. /\ Len(s) \in Nat \ {0} /\ Head(s) \in S /\ Head(s) = s[1]
      /\ Tail(s) \in Seq(S) /\ Len(Tail(s)) = Len(s) - 1
      /\ \A i \in 1..Len(Tail(s)) : Tail(s)[i] = s[i + 1]
  BY HeadTailProperties, LenProperties, EmptySeq
<1>2. Tail(s) = <<>> <=> Len(s) = 1
  BY <1>1, EmptySeq
<1> DEFINE t == Tail(s)
<1>3. /\ \A i \in 1..Len(t) : i + 1 \in 1..Len(s) /\ i + 1 # 1 /\ i \in Nat
      /\ \A i \in 1..Len(s) : i = 1 \/ (i - 1 \in 1..Len(t) /\ t[i - 1] = s[i])
      /\ 1 \in 1..Len(s)
  BY <1>1
<1>4. /\ Head(s) = s[1] /\ \A i \in 1..Len(t) : t[i] = s[i + 1]
  BY <1>1
<1> HIDE DEF t
<1>5. Distinct(t)
  <2> SUFFICES ASSUME NEW i \in 1..Len(t), NEW j \in 1..Len(t), t[i] = t[j]
               PROVE  i = j
    BY DEF Distinct
  <2>1. i + 1 = j + 1
    BY <1>3, <1>4 DEF Distinct
  <2> QED
    BY <2>1, <1>3
<1>6. \A c : In(t, c) => In(s, c) /\ c # Head(s)
  BY <1>3, <1>4 DEF In, Distinct
<1>7. \A c : In(s, c) /\ c # Head(s) => In(t, c)
  BY <1>3, <1>4 DEF In
<1>8. In(s, Head(s))
  BY <1>3, <1>4 DEF In
<1> QED
  BY <1>1, <1>2, <1>5, <1>6, <1>7, <1>8 DEF t

\* A duplicate-free sequence of statements is no longer than there are any.
LEMMA DistinctIsShort ==
  ASSUME NEW n \in Nat, NEW s \in Seq(1..n), Distinct(s)
  PROVE  Len(s) <= n
<1>1. Len(s) \in Nat /\ s \in [1..Len(s) -> 1..n]
  BY LenProperties
<1>2. s \in Injection(1..Len(s), 1..n)
  BY <1>1 DEF Injection, IsInjective, Distinct
<1>3. IsFiniteSet(1..n) /\ Cardinality(1..n) = n
  <2>1. 1 \in Int /\ n \in Int /\ (IF 1 > n THEN 0 ELSE n - 1 + 1) = n
    OBVIOUS
  <2> QED
    BY <2>1, FS_Interval
<1>4. Cardinality(1..Len(s)) = Len(s)
  <2>1. 1 \in Int /\ Len(s) \in Int /\ (IF 1 > Len(s) THEN 0 ELSE Len(s) - 1 + 1) = Len(s)
    BY <1>1
  <2> QED
    BY <2>1, FS_Interval
<1> QED
  BY <1>2, <1>3, <1>4, FS_Injection
-----------------------------------------------------------------------------
(***************************************************************************)
(* A statement that has been pushed and not been done with is in one place *)
(* only, the queue or the batch of one writer, and there once.             *)
(***************************************************************************)
OnePlace ==
  /\ Distinct(queue_)
  /\ \A w \in Writers :
       /\ Distinct(batch[w])
       /\ \A s \in Pushed : In(batch[w], s) => ~In(queue_, s)
  /\ \A v, w \in Writers : \A s \in Pushed : In(batch[v], s) /\ In(batch[w], s) => v = w

Placed == TypeOK /\ OnePlace

\* The writers other than w keep theirs.
OthersKeep(w) == \A v \in Writers : v # w => batch'[v] = batch[v] /\ pc'[v] = pc[v]

\* What popBatch does to the queue and to the batch of w.
LEMMA PopFacts ==
  ASSUME Placed, NEW w \in Writers, PopBatch(w)
  PROVE  /\ batch[w] = <<>> /\ OthersKeep(w)
         /\ batch'[w] \in Seq(Pushed) /\ batch'[w] # <<>> /\ Len(batch'[w]) <= MaxBatch
         /\ queue_' \in Seq(Pushed) /\ Len(queue_') <= Len(queue_)
         /\ Cut(queue_, batch'[w], queue_')
         /\ batch' \in [Writers -> Seq(Pushed)]
<1> USE DbWriterAssumption DEF Placed, TypeOK, OnePlace
<1> DEFINE size == IF Len(queue_) < MaxBatch THEN Len(queue_) ELSE MaxBatch
<1>1. /\ batch' = [batch EXCEPT ![w] = SubSeq(queue_, 1, size)]
      /\ queue_' = SubSeq(queue_, size + 1, Len(queue_))
      /\ pc' = [pc EXCEPT ![w] = "querying"]
      /\ pc[w] = "popping" /\ queue_ # <<>>
  BY DEF PopBatch
<1>2. size \in 1..Len(queue_) /\ size \in 0..Len(queue_) /\ size <= MaxBatch /\ Len(queue_) \in Nat
  BY <1>1, EmptySeq, LenProperties
<1> HIDE DEF size
<1>3. /\ SubSeq(queue_, 1, size) \in Seq(Pushed) /\ Len(SubSeq(queue_, 1, size)) = size
      /\ SubSeq(queue_, size + 1, Len(queue_)) \in Seq(Pushed)
      /\ Cut(queue_, SubSeq(queue_, 1, size), SubSeq(queue_, size + 1, Len(queue_)))
  BY <1>2, CutFacts
<1>4. batch'[w] = SubSeq(queue_, 1, size) /\ batch' \in [Writers -> Seq(Pushed)]
  BY <1>1, <1>3
<1>5. Len(batch'[w]) = size /\ batch'[w] # <<>>
  <2>1. Len(<<>>) = 0
    BY EmptySeq
  <2>2. Len(batch'[w]) = size /\ size # 0
    BY <1>2, <1>3, <1>4
  <2> QED
    BY <2>1, <2>2
<1>6. batch[w] = <<>> /\ OthersKeep(w)
  BY <1>1 DEF OthersKeep
<1>7. Len(queue_') \in Nat /\ Len(queue_) = Len(batch'[w]) + Len(queue_')
  BY <1>1, <1>3, <1>4, LenProperties DEF Cut
<1>8. Cut(queue_, batch'[w], queue_') /\ queue_' \in Seq(Pushed) /\ batch'[w] \in Seq(Pushed)
  BY <1>1, <1>3, <1>4
<1>9. Len(queue_') <= Len(queue_)
  BY <1>2, <1>5, <1>7
<1> QED
  BY <1>2, <1>4, <1>5, <1>6, <1>8, <1>9

\* What the end of a turn of the for loop does to the batch of w.
LEMMA AdvanceFacts ==
  ASSUME Placed, NEW w \in Writers, pc[w] \in {"querying", "pushing"}, Advance(w)
  PROVE  /\ OthersKeep(w)
         /\ Head(batch[w]) \in Pushed /\ In(batch[w], Head(batch[w]))
         /\ batch' \in [Writers -> Seq(Pushed)] /\ Len(batch'[w]) <= MaxBatch
         /\ pc' \in [Writers -> {"popping", "napping", "querying", "pushing"}]
         /\ batch'[w] = <<>> <=> pc'[w] \in {"popping", "napping"}
         /\ Distinct(batch'[w])
         /\ \A s : In(batch'[w], s) <=> In(batch[w], s) /\ s # Head(batch[w])
         /\ batch[w] \in Seq(Pushed) /\ batch[w] # <<>> /\ Distinct(batch[w])
         /\ batch'[w] = Tail(batch[w])
<1> USE DbWriterAssumption DEF Placed, TypeOK, OnePlace
<1>1. batch[w] \in Seq(Pushed) /\ batch[w] # <<>> /\ Distinct(batch[w]) /\ Len(batch[w]) <= MaxBatch
  OBVIOUS
<1>2. batch' = [batch EXCEPT ![w] = Tail(batch[w])]
  BY DEF Advance
<1>3. pc' = [pc EXCEPT ![w] = IF Len(batch[w]) = 1 THEN "popping" ELSE "querying"]
  BY DEF Advance
<1>4. /\ Len(batch[w]) \in Nat \ {0} /\ Head(batch[w]) \in Pushed /\ In(batch[w], Head(batch[w]))
      /\ Tail(batch[w]) \in Seq(Pushed) /\ Len(Tail(batch[w])) = Len(batch[w]) - 1
      /\ Tail(batch[w]) = <<>> <=> Len(batch[w]) = 1
      /\ Distinct(Tail(batch[w]))
      /\ \A c : In(Tail(batch[w]), c) <=> In(batch[w], c) /\ c # Head(batch[w])
  BY <1>1, TailFacts
<1>5. OthersKeep(w) /\ batch'[w] = Tail(batch[w])
  BY <1>2, <1>3 DEF OthersKeep
<1>6. batch' \in [Writers -> Seq(Pushed)] /\ Len(batch'[w]) <= MaxBatch
  BY <1>1, <1>2, <1>4, <1>5
<1>7. /\ pc' \in [Writers -> {"popping", "napping", "querying", "pushing"}]
      /\ batch'[w] = <<>> <=> pc'[w] \in {"popping", "napping"}
  BY <1>3, <1>4, <1>5
<1> QED
  BY <1>1, <1>4, <1>5, <1>6, <1>7

LEMMA PlacedAlways == Spec => []Placed
<1> USE DbWriterAssumption DEF Placed
<1>1. Init => Placed
  <2> SUFFICES ASSUME Init PROVE Placed
    OBVIOUS
  <2>1. <<>> \in Seq(Pushed) /\ Len(<<>>) = 0 /\ Distinct(<<>>) /\ \A c : ~In(<<>>, c)
    BY EmptySeq DEF Distinct, In
  <2>2. Pushed = {}
    BY DEF Init, Pushed
  <2>3. TypeOK
    BY <2>1 DEF Init, TypeOK
  <2> QED
    BY <2>1, <2>3 DEF Init, OnePlace
<1>2. Placed /\ [Next]_vars => Placed'
  <2> SUFFICES ASSUME Placed, [Next]_vars PROVE Placed'
    OBVIOUS
  <2>1. CASE Push
    <3> DEFINE x == pushes + 1
    <3>1. /\ x \in 1..MaxPushes /\ pushes' = x /\ queue_' = Append(queue_, x)
          /\ UNCHANGED <<pc, batch, fails, applied, history>>
      BY <2>1 DEF Push, TypeOK
    <3>2. Pushed' = Pushed \cup {x} /\ x \notin Pushed /\ Pushed \subseteq Pushed' /\ x \in Pushed'
      BY <3>1 DEF Pushed, TypeOK
    <3>3. /\ queue_ \in Seq(Pushed') /\ applied \in Seq(Pushed')
          /\ \A w \in Writers : batch[w] \in Seq(Pushed')
      BY <3>2, SeqMonotonic DEF TypeOK
    <3>4. ~In(queue_, x) /\ \A w \in Writers : ~In(batch[w], x)
      BY <3>2, InFacts DEF TypeOK
    <3>5. /\ queue_' \in Seq(Pushed') /\ Len(queue_') = Len(queue_) + 1 /\ Distinct(queue_')
          /\ \A c : In(queue_', c) <=> In(queue_, c) \/ c = x
      <4> HIDE DEF x
      <4>1. Distinct(queue_)
        BY DEF OnePlace
      <4> QED
        BY <3>1, <3>2, <3>3, <3>4, <4>1, AppendFacts, AppendProperties
    <3>6. Len(queue_') <= pushes' /\ pushes' \in 0..MaxPushes
      BY <3>1, <3>5, LenProperties DEF TypeOK
    <3>7. TypeOK'
      BY <3>1, <3>2, <3>3, <3>5, <3>6 DEF TypeOK, history
    <3>8. \A w \in Writers : \A c : In(batch[w], c) => c \in Pushed
      BY InFacts DEF TypeOK
    <3>9. OnePlace'
      BY <3>1, <3>4, <3>5, <3>8 DEF OnePlace
    <3> QED
      BY <3>7, <3>9
  <2>2. ASSUME NEW w \in Writers, PopBatch(w) PROVE Placed'
    <3>1. /\ batch[w] = <<>> /\ OthersKeep(w)
          /\ batch'[w] # <<>> /\ Len(batch'[w]) <= MaxBatch
          /\ queue_' \in Seq(Pushed) /\ Len(queue_') <= Len(queue_)
          /\ Cut(queue_, batch'[w], queue_')
          /\ batch' \in [Writers -> Seq(Pushed)]
      BY <2>2, PopFacts
    <3>2. /\ UNCHANGED <<pushes, fails, applied, refused, unanswered>>
          /\ pc' = [pc EXCEPT ![w] = "querying"]
          /\ taker' \in [Statements -> Writers \cup {"nobody"}]
      BY <2>2 DEF PopBatch, TypeOK
    <3>3. Pushed' = Pushed
      BY <3>2 DEF Pushed
    <3>4. Len(queue_') \in Nat /\ Len(queue_) \in Nat /\ Len(queue_') <= pushes'
      BY <3>1, <3>2, LenProperties DEF TypeOK
    <3>5. TypeOK'
      BY <3>1, <3>2, <3>3, <3>4 DEF TypeOK, OthersKeep
    <3>6. \A v \in Writers : v # w => batch'[v] = batch[v]
      BY <3>1 DEF OthersKeep
    <3>7. /\ Distinct(queue_') /\ Distinct(batch'[w])
          /\ \A c : /\ In(queue_, c) <=> In(batch'[w], c) \/ In(queue_', c)
                   /\ ~(In(batch'[w], c) /\ In(queue_', c))
      BY <3>1 DEF Cut
    <3>8. OnePlace'
      BY <3>3, <3>6, <3>7 DEF OnePlace
    <3> QED
      BY <3>5, <3>8
  <2>3. ASSUME NEW w \in Writers, PopNothing(w) \/ Wake(w) PROVE Placed'
    <3>1. /\ UNCHANGED <<queueVars, batch, fails, applied, history>> /\ Pushed' = Pushed
          /\ pc' = [pc EXCEPT ![w] = pc'[w]] /\ batch[w] = <<>>
          /\ pc'[w] \in {"popping", "napping"}
      BY <2>3 DEF PopNothing, Wake, TypeOK, Pushed, queueVars
    <3>2. TypeOK'
      BY <3>1 DEF TypeOK, queueVars, history
    <3>3. OnePlace'
      BY <3>1 DEF OnePlace, queueVars
    <3> QED
      BY <3>2, <3>3
  <2>4. ASSUME NEW w \in Writers, Query(w) \/ PushAgain(w) PROVE Placed'
    <3> DEFINE h == Head(batch[w])
    <3>1. /\ OthersKeep(w) /\ h \in Pushed /\ In(batch[w], h)
          /\ batch' \in [Writers -> Seq(Pushed)] /\ Len(batch'[w]) <= MaxBatch
          /\ pc' \in [Writers -> {"popping", "napping", "querying", "pushing"}]
          /\ batch'[w] = <<>> <=> pc'[w] \in {"popping", "napping"}
          /\ Distinct(batch'[w])
          /\ \A s : In(batch'[w], s) <=> In(batch[w], s) /\ s # h
      BY <2>4, AdvanceFacts DEF Query, PushAgain
    <3>2. /\ UNCHANGED <<pushes, fails, history>> /\ Pushed' = Pushed
          /\ \/ queue_' = queue_ /\ applied' = Append(applied, h)
             \/ queue_' = Append(queue_, h) /\ applied' = applied
      BY <2>4 DEF Query, PushAgain, queueVars, Pushed, history
    <3> HIDE DEF h
    <3>3. applied' \in Seq(Pushed)
      <4>1. applied \in Seq(Pushed) /\ Append(applied, h) \in Seq(Pushed)
        BY <3>1, AppendProperties DEF TypeOK
      <4> QED
        BY <3>2, <4>1
    <3>4. /\ queue_' \in Seq(Pushed) /\ Distinct(queue_')
          /\ \A c : In(queue_', c) => In(queue_, c) \/ c = h
      <4>1. ~In(queue_, h) /\ Distinct(queue_) /\ queue_ \in Seq(Pushed)
        BY <3>1 DEF OnePlace, TypeOK
      <4>2. /\ Append(queue_, h) \in Seq(Pushed) /\ Distinct(Append(queue_, h))
            /\ \A c : In(Append(queue_, h), c) <=> In(queue_, c) \/ c = h
        BY <3>1, <4>1, AppendFacts, AppendProperties
      <4> QED
        BY <3>2, <4>1, <4>2
    <3>5. Len(queue_') <= pushes'
      BY <3>2, <3>4, DistinctIsShort DEF Pushed, TypeOK
    <3>6. TypeOK'
      BY <3>1, <3>2, <3>3, <3>4, <3>5 DEF TypeOK, OthersKeep, history
    <3>7. \A v \in Writers : v # w => batch'[v] = batch[v]
      BY <3>1 DEF OthersKeep
    <3>8. OnePlace'
      BY <3>1, <3>2, <3>4, <3>7 DEF OnePlace
    <3> QED
      BY <3>6, <3>8
  <2>5. ASSUME NEW w \in Writers, QueryFails(w) PROVE Placed'
    <3> DEFINE h == Head(batch[w])
    <3>1. batch[w] \in Seq(Pushed) /\ batch[w] # <<>>
      BY <2>5 DEF QueryFails, TypeOK
    <3>2. h \in Pushed /\ h \in Statements
      <4>1. h \in Pushed
        BY <3>1, HeadTailProperties
      <4> QED
        BY <4>1 DEF Pushed, Statements, TypeOK
    <3>3. /\ UNCHANGED <<queueVars, batch, taker>> /\ Pushed' = Pushed
          /\ fails' = fails + 1 /\ fails < MaxFails
          /\ refused' = refused \cup {h}
          /\ pc' = [pc EXCEPT ![w] = "pushing"]
          /\ \/ UNCHANGED <<applied, unanswered>>
             \/ /\ applied' = Append(applied, h)
                /\ unanswered' = [unanswered EXCEPT ![h] = @ + 1]
      BY <2>5 DEF QueryFails, queueVars, Pushed
    <3> HIDE DEF h
    <3>4. applied' \in Seq(Pushed) /\ unanswered' \in [Statements -> Nat]
      <4>1. applied \in Seq(Pushed) /\ Append(applied, h) \in Seq(Pushed)
        BY <3>2, AppendProperties DEF TypeOK
      <4>2. unanswered \in [Statements -> Nat] /\ unanswered[h] + 1 \in Nat
        BY <3>2 DEF TypeOK
      <4>3. [unanswered EXCEPT ![h] = @ + 1] \in [Statements -> Nat]
        BY <3>2, <4>2
      <4> QED
        BY <3>3, <4>1, <4>2, <4>3
    <3>5. fails' \in 0..MaxFails
      BY <3>3 DEF TypeOK
    <3>6. TypeOK'
      BY <3>1, <3>2, <3>3, <3>4, <3>5 DEF TypeOK, queueVars
    <3>7. OnePlace'
      BY <3>3 DEF OnePlace, queueVars
    <3> QED
      BY <3>6, <3>7
  <2>6. CASE UNCHANGED vars
    <3>1. Pushed' = Pushed
      BY <2>6 DEF vars, queueVars, Pushed
    <3> QED
      BY <2>6, <3>1 DEF vars, queueVars, history, TypeOK, OnePlace
  <2> QED
    BY <2>1, <2>2, <2>3, <2>4, <2>5, <2>6 DEF Next, Step
<1> QED
  BY <1>1, <1>2, PTL DEF Spec

(***************************************************************************)
(* Type correctness: a writer is inside its for loop exactly while its     *)
(* batch has statements left, and the queue never holds more statements    *)
(* than were pushed, however often they fail.                              *)
(***************************************************************************)
THEOREM TypeCorrect == Spec => []TypeOK
<1>1. Placed => TypeOK
  BY DEF Placed
<1> QED
  BY <1>1, PlacedAlways, PTL
-----------------------------------------------------------------------------
(***************************************************************************)
(* How often a statement was applied.                                      *)
(***************************************************************************)
Occurs(q, s) == {i \in DOMAIN q : q[i] = s}

LEMMA OccursFacts ==
  ASSUME NEW S, NEW q \in Seq(S)
  PROVE  \A s : /\ Cardinality(Occurs(q, s)) \in Nat
                /\ ~In(q, s) => Cardinality(Occurs(q, s)) = 0
<1> SUFFICES ASSUME NEW s
             PROVE  /\ Cardinality(Occurs(q, s)) \in Nat
                    /\ ~In(q, s) => Cardinality(Occurs(q, s)) = 0
  OBVIOUS
<1>1. Len(q) \in Nat /\ DOMAIN q = 1..Len(q)
  BY LenProperties
<1>2. IsFiniteSet(1..Len(q))
  <2>1. 1 \in Int /\ Len(q) \in Int
    BY <1>1
  <2> QED
    BY <2>1, FS_Interval
<1>3. IsFiniteSet(Occurs(q, s))
  BY <1>1, <1>2, FS_Subset DEF Occurs
<1>4. ~In(q, s) => Occurs(q, s) = {}
  BY <1>1 DEF Occurs, In
<1> QED
  BY <1>3, <1>4, FS_CardinalityType, FS_EmptySet

LEMMA OccursAppend ==
  ASSUME NEW S, NEW q \in Seq(S), NEW x \in S
  PROVE  \A s : Cardinality(Occurs(Append(q, x), s)) =
                  IF s = x THEN Cardinality(Occurs(q, s)) + 1 ELSE Cardinality(Occurs(q, s))
<1> SUFFICES ASSUME NEW s
             PROVE  Cardinality(Occurs(Append(q, x), s)) =
                      IF s = x THEN Cardinality(Occurs(q, s)) + 1 ELSE Cardinality(Occurs(q, s))
  OBVIOUS
<1> DEFINE n == Len(q) + 1
           t == Append(q, x)
<1>1. /\ Len(q) \in Nat /\ DOMAIN q = 1..Len(q) /\ DOMAIN t = 1..n
      /\ t[n] = x /\ \A i \in 1..Len(q) : t[i] = q[i]
  BY AppendProperties, LenProperties
<1>2. n \notin 1..Len(q) /\ 1..n = 1..Len(q) \cup {n}
  BY <1>1
<1> HIDE DEF n, t
<1>3. Occurs(t, s) = IF s = x THEN Occurs(q, s) \cup {n} ELSE Occurs(q, s)
  BY <1>1, <1>2 DEF Occurs
<1>4. n \notin Occurs(q, s)
  BY <1>1, <1>2 DEF Occurs
<1>5. IsFiniteSet(Occurs(q, s))
  <2>1. 1 \in Int /\ Len(q) \in Int
    BY <1>1
  <2>2. IsFiniteSet(1..Len(q))
    BY <2>1, FS_Interval
  <2> QED
    BY <1>1, <2>2, FS_Subset DEF Occurs
<1>6. Cardinality(Occurs(q, s) \cup {n}) = Cardinality(Occurs(q, s)) + 1
  BY <1>4, <1>5, FS_AddElement
<1> QED
  BY <1>3, <1>6 DEF t

(***************************************************************************)
(* The count of RepeatedOnlyUnanswered, and that a statement to come has   *)
(* no answers to miss.                                                     *)
(***************************************************************************)
Waiting(s) == In(queue_, s) \/ \E w \in Writers : In(batch[w], s)

Counted ==
  /\ \A s \in Pushed :
       Cardinality(Occurs(applied, s)) = unanswered[s] + (IF Waiting(s) THEN 0 ELSE 1)
  /\ \A s \in Statements \ Pushed : unanswered[s] = 0

\* Who has statements waits for nobody else to have them.
LEMMA WaitingIsWaits ==
  ASSUME TypeOK, NEW s
  PROVE  Waiting(s) <=> Waits(s)
BY InFacts DEF Waiting, Waits, TypeOK

LEMMA CountedKept ==
  ASSUME Placed, Placed', Counted, [Next]_vars
  PROVE  Counted'
<1> USE DEF Placed
<1>0. /\ Pushed \subseteq Statements /\ unanswered \in [Statements -> Nat]
      /\ \A s \in Pushed : unanswered[s] \in Nat
  <2>1. pushes \in 0..MaxPushes /\ unanswered \in [Statements -> Nat]
    BY DEF TypeOK
  <2>2. Pushed \subseteq Statements
    BY <2>1, DbWriterAssumption DEF Pushed, Statements
  <2> QED
    BY <2>1, <2>2
<1>1. ASSUME Pushed' = Pushed, UNCHANGED <<applied, unanswered>>,
             \A s \in Pushed : Waiting(s)' <=> Waiting(s)
      PROVE  Counted'
  BY <1>1 DEF Counted
<1>2. CASE Push
  <2>0. PICK x : x = pushes + 1
    OBVIOUS
  <2>1. /\ x \in Statements /\ Pushed' = Pushed \cup {x} /\ x \notin Pushed
        /\ queue_' = Append(queue_, x) /\ UNCHANGED <<batch, applied, unanswered>>
    BY <1>2, <2>0 DEF Push, TypeOK, Pushed, Statements, history
  <2>2. queue_ \in Seq(Pushed') /\ applied \in Seq(Pushed) /\ x \in Pushed'
    BY <2>1, SeqMonotonic DEF TypeOK
  <2>3. \A c : In(queue_', c) <=> In(queue_, c) \/ c = x
    BY <2>1, <2>2, AppendFacts
  <2>4. \A s \in Pushed : Waiting(s)' <=> Waiting(s)
    <3> TAKE s \in Pushed
    <3>1. s # x /\ (In(queue_', s) <=> In(queue_, s)) /\ batch' = batch
      BY <2>1, <2>3
    <3> QED
      BY <3>1 DEF Waiting
  <2>6. Waiting(x)'
    BY <2>3 DEF Waiting
  <2>5. Cardinality(Occurs(applied, x)) = 0
    BY <2>1, <2>2, InFacts, OccursFacts
  <2> QED
    <3>1. unanswered'[x] = 0 /\ unanswered' = unanswered /\ applied' = applied
      BY <2>1 DEF Counted
    <3>2. \A s \in Statements \ Pushed' : unanswered'[s] = 0
      BY <2>1, <3>1 DEF Counted
    <3>3. ASSUME NEW s \in Pushed'
          PROVE  Cardinality(Occurs(applied', s)) = unanswered'[s] + (IF Waiting(s)' THEN 0 ELSE 1)
      <4>1. CASE s = x
        BY <2>5, <2>6, <3>1, <4>1
      <4>2. CASE s \in Pushed
        BY <2>4, <3>1, <4>2 DEF Counted
      <4> QED
        BY <2>1, <4>1, <4>2
    <3> QED
      BY <3>2, <3>3 DEF Counted
<1>3. ASSUME NEW w \in Writers, PopBatch(w) PROVE Counted'
  <2>1. /\ batch[w] = <<>> /\ OthersKeep(w) /\ Cut(queue_, batch'[w], queue_')
    BY <1>3, PopFacts
  <2>2. Pushed' = Pushed /\ UNCHANGED <<applied, unanswered>>
    BY <1>3 DEF PopBatch, Pushed
  <2>3. \A c : ~In(batch[w], c)
    BY <2>1, EmptySeq DEF In
  <2>4. \A s : Waiting(s)' <=> Waiting(s)
    BY <2>1, <2>3 DEF Waiting, Cut, OthersKeep
  <2> QED
    BY <1>1, <2>2, <2>4
<1>4. ASSUME NEW w \in Writers, Query(w) \/ PushAgain(w) PROVE Counted'
  <2>0. PICK h : h = Head(batch[w])
    OBVIOUS
  <2>1. /\ OthersKeep(w) /\ h \in Pushed /\ In(batch[w], h)
        /\ \A s : In(batch'[w], s) <=> In(batch[w], s) /\ s # h
    BY <1>4, <2>0, AdvanceFacts DEF Query, PushAgain
  <2>2. Pushed' = Pushed /\ unanswered' = unanswered
    BY <1>4 DEF Query, PushAgain, queueVars, Pushed, history
  <2>3. \A s : s # h => \A v \in Writers : In(batch'[v], s) <=> In(batch[v], s)
    BY <2>1 DEF OthersKeep
  <2>4. ~In(queue_, h) /\ \A v \in Writers : ~In(batch'[v], h)
    BY <2>1 DEF OnePlace, OthersKeep
  <2>5. queue_ \in Seq(Pushed) /\ applied \in Seq(Pushed)
    BY DEF TypeOK
  <2>6. CASE Query(w)
    <3>1. queue_' = queue_ /\ applied' = Append(applied, h)
      BY <2>0, <2>6 DEF Query, queueVars
    <3>2. \A s : s # h => (Waiting(s)' <=> Waiting(s))
      BY <2>3, <3>1 DEF Waiting
    <3>3. Waiting(h) /\ ~Waiting(h)'
      <4>1. ~In(queue_', h)
        BY <2>4, <3>1
      <4> QED
        BY <2>1, <2>4, <4>1 DEF Waiting
    <3>4. \A s : Cardinality(Occurs(applied', s)) =
                   IF s = h THEN Cardinality(Occurs(applied, s)) + 1 ELSE Cardinality(Occurs(applied, s))
      BY <2>1, <2>5, <3>1, OccursAppend
    <3>5. ASSUME NEW s \in Pushed
          PROVE  Cardinality(Occurs(applied', s)) = unanswered[s] + (IF Waiting(s)' THEN 0 ELSE 1)
      <4>1. Cardinality(Occurs(applied, s)) = unanswered[s] + (IF Waiting(s) THEN 0 ELSE 1)
        BY DEF Counted
      <4>2. unanswered[s] \in Nat
        BY <1>0
      <4>3. CASE s = h
        BY <3>3, <3>4, <4>1, <4>2, <4>3
      <4>4. CASE s # h
        BY <3>2, <3>4, <4>1, <4>4
      <4> QED
        BY <4>3, <4>4
    <3> QED
      BY <2>2, <3>5 DEF Counted
  <2>7. CASE PushAgain(w)
    <3>1. queue_' = Append(queue_, h) /\ applied' = applied
      BY <2>0, <2>7 DEF PushAgain, queueVars
    <3>2. \A c : In(queue_', c) <=> In(queue_, c) \/ c = h
      BY <2>1, <2>5, <3>1, AppendFacts
    <3>3. \A s : Waiting(s)' <=> Waiting(s)
      BY <2>1, <2>3, <3>2 DEF Waiting
    <3> QED
      BY <1>1, <2>2, <3>1, <3>3
  <2> QED
    BY <1>4, <2>6, <2>7
<1>5. ASSUME NEW w \in Writers, QueryFails(w) PROVE Counted'
  <2>0. PICK h : h = Head(batch[w])
    OBVIOUS
  <2>1. batch[w] \in Seq(Pushed) /\ batch[w] # <<>> /\ Distinct(batch[w]) /\ applied \in Seq(Pushed)
    BY <1>5 DEF QueryFails, TypeOK, OnePlace
  <2>2. h \in Pushed /\ In(batch[w], h)
    BY <2>0, <2>1, TailFacts
  <2>3. /\ UNCHANGED <<queue_, batch>> /\ Pushed' = Pushed
        /\ \/ UNCHANGED <<applied, unanswered>>
           \/ /\ applied' = Append(applied, h)
              /\ unanswered' = [unanswered EXCEPT ![h] = @ + 1]
    BY <1>5, <2>0 DEF QueryFails, queueVars, Pushed
  <2>4. \A s : Waiting(s)' <=> Waiting(s)
    BY <2>3 DEF Waiting
  <2>5. CASE /\ applied' = Append(applied, h)
             /\ unanswered' = [unanswered EXCEPT ![h] = @ + 1]
    <3>1. \A s : Cardinality(Occurs(applied', s)) =
                   IF s = h THEN Cardinality(Occurs(applied, s)) + 1 ELSE Cardinality(Occurs(applied, s))
      BY <2>1, <2>2, <2>5, OccursAppend
    <3>2. \A s \in Statements : unanswered'[s] = IF s = h THEN unanswered[s] + 1 ELSE unanswered[s]
      BY <1>0, <2>2, <2>5
    <3>3. ASSUME NEW s \in Pushed
          PROVE  Cardinality(Occurs(applied', s)) = unanswered'[s] + (IF Waiting(s)' THEN 0 ELSE 1)
      <4>1. Cardinality(Occurs(applied, s)) = unanswered[s] + (IF Waiting(s) THEN 0 ELSE 1)
        BY DEF Counted
      <4>2. unanswered[s] \in Nat /\ unanswered'[s] = IF s = h THEN unanswered[s] + 1 ELSE unanswered[s]
        BY <1>0, <3>2
      <4> QED
        BY <2>4, <3>1, <4>1, <4>2
    <3>4. \A s \in Statements \ Pushed : unanswered'[s] = 0
      BY <2>2, <3>2 DEF Counted
    <3> QED
      BY <2>3, <3>3, <3>4 DEF Counted
  <2> QED
    BY <1>1, <2>3, <2>4, <2>5
<1>6. CASE UNCHANGED vars \/ \E w \in Writers : PopNothing(w) \/ Wake(w)
  <2>1. UNCHANGED <<queue_, batch, applied, unanswered>> /\ Pushed' = Pushed
    BY <1>6 DEF vars, PopNothing, Wake, queueVars, history, Pushed
  <2> QED
    BY <1>1, <2>1 DEF Waiting
<1> QED
  BY <1>2, <1>3, <1>4, <1>5, <1>6 DEF Next, Step

(***************************************************************************)
(* No statement is lost between queue and batches, and none is applied     *)
(* twice but for the answers that were lost, whatever fails and however    *)
(* the writers' batches overlap.                                           *)
(***************************************************************************)
THEOREM RepeatsOnlyUnanswered == Spec => []RepeatedOnlyUnanswered
<1>1. Init => Counted
  BY DEF Init, Counted, Pushed
<1>2. Placed /\ Placed' /\ Counted /\ [Next]_vars => Counted'
  BY CountedKept
<1>3. Placed /\ Counted => RepeatedOnlyUnanswered
  BY WaitingIsWaits DEF Placed, Counted, RepeatedOnlyUnanswered, Times, Occurs
<1> QED
  BY <1>1, <1>2, <1>3, PlacedAlways, PTL DEF Spec
-----------------------------------------------------------------------------
(***************************************************************************)
(* Order.  First(q, s, t): q has an s before any t.  Ahead(q, s, t): an s  *)
(* of q is followed by a t.                                                *)
(***************************************************************************)
First(q, s, t) == \E i \in 1..Len(q) : q[i] = s /\ \A j \in 1..i : q[j] # t
Ahead(q, s, t) == \E i, j \in 1..Len(q) : i < j /\ q[i] = s /\ q[j] = t

LEMMA FirstFacts ==
  ASSUME NEW S, NEW q \in Seq(S), NEW x \in S
  PROVE  \A s, t : /\ First(q, s, t) => First(Append(q, x), s, t)
                   /\ In(q, s) /\ ~In(q, t) => First(q, s, t)
                   /\ x = s /\ ~In(q, t) /\ s # t => First(Append(q, x), s, t)
<1> SUFFICES ASSUME NEW s, NEW t
             PROVE  /\ First(q, s, t) => First(Append(q, x), s, t)
                    /\ In(q, s) /\ ~In(q, t) => First(q, s, t)
                    /\ x = s /\ ~In(q, t) /\ s # t => First(Append(q, x), s, t)
  OBVIOUS
<1> DEFINE r == Append(q, x)
<1>1. /\ Len(q) \in Nat /\ Len(r) = Len(q) + 1 /\ r[Len(q) + 1] = x
      /\ \A i \in 1..Len(q) : r[i] = q[i]
  BY AppendProperties, LenProperties
<1> HIDE DEF r
<1>2. First(q, s, t) => First(r, s, t)
  <2> SUFFICES ASSUME NEW i \in 1..Len(q), q[i] = s, \A j \in 1..i : q[j] # t PROVE First(r, s, t)
    BY DEF First
  <2>1. i \in 1..Len(r) /\ \A j \in 1..i : j \in 1..Len(q)
    BY <1>1
  <2> QED
    BY <1>1, <2>1 DEF First
<1>3. In(q, s) /\ ~In(q, t) => First(q, s, t)
  <2> SUFFICES ASSUME NEW i \in 1..Len(q), q[i] = s, ~In(q, t) PROVE First(q, s, t)
    BY DEF In
  <2>1. \A j \in 1..i : j \in 1..Len(q)
    BY <1>1
  <2> QED
    BY <2>1 DEF First, In
<1>4. x = s /\ ~In(q, t) /\ s # t => First(r, s, t)
  <2> SUFFICES ASSUME x = s, ~In(q, t), s # t PROVE First(r, s, t)
    OBVIOUS
  <2>1. Len(r) \in 1..Len(r) /\ r[Len(r)] = s
    BY <1>1
  <2>2. \A j \in 1..Len(r) : j \in 1..Len(q) \/ j = Len(q) + 1
    BY <1>1
  <2>3. \A j \in 1..Len(r) : r[j] # t
    BY <1>1, <2>2 DEF In
  <2> QED
    BY <2>1, <2>3 DEF First
<1> QED
  BY <1>2, <1>3, <1>4 DEF r

LEMMA AheadFacts ==
  ASSUME NEW S, NEW q \in Seq(S), Distinct(q), NEW s, NEW t, Ahead(q, s, t)
  PROVE  /\ q # <<>> /\ In(q, t) /\ s # t /\ t # Head(q)
         /\ s # Head(q) => Ahead(Tail(q), s, t)
<1>1. PICK i \in 1..Len(q), j \in 1..Len(q) : i < j /\ q[i] = s /\ q[j] = t
  BY DEF Ahead
<1>2. q # <<>> /\ Len(q) \in Nat
  BY <1>1, EmptySeq, LenProperties
<1>3. /\ Head(q) = q[1] /\ Len(Tail(q)) = Len(q) - 1
      /\ \A k \in 1..Len(Tail(q)) : Tail(q)[k] = q[k + 1]
  BY <1>2, TailFacts
<1>4. i # j /\ j # 1 /\ 1 \in 1..Len(q)
  BY <1>1, <1>2
<1>5. In(q, t) /\ s # t /\ t # Head(q)
  BY <1>1, <1>3, <1>4 DEF In, Distinct
<1>6. ASSUME s # Head(q) PROVE Ahead(Tail(q), s, t)
  <2>1. i # 1
    BY <1>1, <1>3, <1>6
  <2>2. /\ i - 1 \in 1..Len(Tail(q)) /\ j - 1 \in 1..Len(Tail(q)) /\ i - 1 < j - 1
        /\ (i - 1) + 1 = i /\ (j - 1) + 1 = j
    BY <1>1, <1>2, <1>3, <2>1
  <2>3. Tail(q)[i - 1] = s /\ Tail(q)[j - 1] = t
    BY <1>1, <1>3, <2>2
  <2> QED
    BY <2>2, <2>3 DEF Ahead
<1> QED
  BY <1>2, <1>5, <1>6

(***************************************************************************)
(* Statements are first taken in the order of push (TakenInOrder): what    *)
(* was not taken yet is in the queue, in order, and untouched.  A writer   *)
(* keeps a statement that did not fail until it is applied (Served), and   *)
(* of two that it took, the older is applied first or still waits ahead of *)
(* the other in its batch (Ordered).                                       *)
(***************************************************************************)
Taken(s) == taker[s] # "nobody"

TakenInOrder ==
  /\ \A s \in Statements : Taken(s) => s \in Pushed
  /\ \A s \in Pushed : ~Taken(s) => In(queue_, s) /\ ~In(applied, s) /\ s \notin refused
  /\ \A w \in Writers : \A s \in Pushed : In(batch[w], s) => Taken(s)
  /\ \A s, t \in Pushed : s < t /\ Taken(t) => Taken(s)
  /\ \A i, j \in 1..Len(queue_) :
       i < j /\ ~Taken(queue_[i]) /\ ~Taken(queue_[j]) => queue_[i] < queue_[j]

Served ==
  /\ \A s \in Pushed \ refused : Taken(s) => In(batch[taker[s]], s) \/ In(applied, s)
  /\ \A w \in Writers : pc[w] = "pushing" => Head(batch[w]) \in refused

Ordered ==
  \A s, t \in Pushed :
    s < t /\ s \notin refused /\ Taken(s) /\ taker[s] = taker[t] =>
      \/ First(applied, s, t)
      \/ Ahead(batch[taker[s]], s, t) /\ ~In(applied, t)

OrderInv == TakenInOrder /\ Served /\ Ordered

LEMMA TakerFacts ==
  ASSUME TypeOK
  PROVE  /\ Pushed \subseteq Statements /\ Pushed \subseteq Nat
         /\ \A s \in Pushed : Taken(s) <=> taker[s] \in Writers
<1>1. pushes \in 0..MaxPushes /\ taker \in [Statements -> Writers \cup {"nobody"}]
  BY DEF TypeOK
<1>2. Pushed \subseteq Statements /\ Pushed \subseteq Nat
  BY <1>1, DbWriterAssumption DEF Pushed, Statements
<1> QED
  BY <1>1, <1>2, DbWriterAssumption DEF Taken

LEMMA OrderAtPush ==
  ASSUME Placed, OrderInv, Push
  PROVE  OrderInv'
<1>1. PICK x : x = pushes + 1
  OBVIOUS
<1>2. /\ Pushed' = Pushed \cup {x} /\ x \notin Pushed /\ x \in Statements
      /\ \A s \in Pushed : s < x
      /\ queue_' = Append(queue_, x) /\ UNCHANGED <<pc, batch, applied, refused, taker>>
      /\ x \in Nat
  <2>1. pushes \in Nat /\ pushes < MaxPushes /\ pushes' = x /\ MaxPushes \in Nat
    BY <1>1, DbWriterAssumption DEF Placed, TypeOK, Push
  <2>2. queue_' = Append(queue_, x) /\ UNCHANGED <<pc, batch, applied, refused, taker>>
    BY <1>1 DEF Push, history
  <2>3. x \in Statements
    BY <1>1, <2>1 DEF Statements
  <2>4. Pushed' = Pushed \cup {x} /\ x \notin Pushed /\ \A s \in Pushed : s < x
    BY <1>1, <2>1 DEF Pushed
  <2> QED
    BY <1>1, <2>1, <2>2, <2>3, <2>4
<1>3. queue_ \in Seq(Pushed) /\ queue_ \in Seq(Pushed') /\ x \in Pushed'
  BY <1>2, SeqMonotonic DEF Placed, TypeOK
<1>4. /\ \A c : In(queue_', c) <=> In(queue_, c) \/ c = x
      /\ Len(queue_) \in Nat /\ Len(queue_') = Len(queue_) + 1 /\ queue_'[Len(queue_) + 1] = x
      /\ \A i \in 1..Len(queue_) : queue_'[i] = queue_[i] /\ queue_[i] \in Pushed
  BY <1>2, <1>3, AppendFacts, AppendProperties, LenProperties, ElementOfSeq
<1>5. \A s : Taken(s)' <=> Taken(s)
  BY <1>2 DEF Taken
<1>6. ~Taken(x) /\ ~In(applied, x) /\ x \notin refused /\ \A w \in Writers : ~In(batch[w], x)
  BY <1>2, InFacts DEF OrderInv, TakenInOrder, Placed, TypeOK
<1>7. TakenInOrder'
  <2>1. \A s \in Statements : Taken(s)' => s \in Pushed'
    BY <1>2, <1>5 DEF OrderInv, TakenInOrder
  <2>2. \A s \in Pushed' : ~Taken(s)' => In(queue_', s) /\ ~In(applied', s) /\ s \notin refused'
    BY <1>2, <1>4, <1>5, <1>6 DEF OrderInv, TakenInOrder
  <2>3. \A w \in Writers : \A s \in Pushed' : In(batch'[w], s) => Taken(s)'
    BY <1>2, <1>5, <1>6 DEF OrderInv, TakenInOrder
  <2>4. \A s, t \in Pushed' : s < t /\ Taken(t)' => Taken(s)'
    <3> SUFFICES ASSUME NEW s \in Pushed', NEW t \in Pushed', s < t, Taken(t) PROVE Taken(s)
      BY <1>5
    <3>1. t \in Pushed /\ t < x
      BY <1>2, <1>6
    <3>2. s # x
      BY <1>2, <3>1, TakerFacts DEF Placed
    <3> QED
      BY <1>2, <3>1, <3>2 DEF OrderInv, TakenInOrder
  <2>5. ASSUME NEW i \in 1..Len(queue_'), NEW j \in 1..Len(queue_'), i < j,
               taker'[queue_'[i]] = "nobody", taker'[queue_'[j]] = "nobody"
        PROVE  queue_'[i] < queue_'[j]
    <3>1. i \in 1..Len(queue_)
      BY <1>4, <2>5
    <3>2. CASE j \in 1..Len(queue_)
      BY <1>2, <1>4, <2>5, <3>1, <3>2 DEF OrderInv, TakenInOrder, Taken
    <3>3. CASE j = Len(queue_) + 1
      BY <1>2, <1>4, <3>1, <3>3
    <3> QED
      BY <1>4, <3>2, <3>3
  <2> QED
    BY <2>1, <2>2, <2>3, <2>4, <2>5 DEF TakenInOrder, Taken
<1>8. Served'
  BY <1>2, <1>5, <1>6 DEF OrderInv, Served
<1>9. Ordered'
  <2> SUFFICES ASSUME NEW s \in Pushed', NEW t \in Pushed',
                      s < t, s \notin refused, Taken(s), taker[s] = taker[t]
               PROVE  \/ First(applied, s, t)
                      \/ Ahead(batch[taker[s]], s, t) /\ ~In(applied, t)
    BY <1>2, <1>5 DEF Ordered
  <2>1. Taken(t)
    BY DEF Taken
  <2>2. s \in Pushed /\ t \in Pushed
    BY <1>2, <1>6, <2>1
  <2> QED
    BY <2>2 DEF OrderInv, Ordered
<1> QED
  BY <1>7, <1>8, <1>9 DEF OrderInv

LEMMA OrderAtPop ==
  ASSUME Placed, Placed', OrderInv, NEW w \in Writers, PopBatch(w)
  PROVE  OrderInv'
<1>1. PICK f : f = batch'[w]
  OBVIOUS
<1>2. /\ batch[w] = <<>> /\ f \in Seq(Pushed) /\ queue_ \in Seq(Pushed) /\ queue_' \in Seq(Pushed)
      /\ Cut(queue_, f, queue_') /\ applied \in Seq(Pushed)
      /\ \A v \in Writers : v # w => batch'[v] = batch[v] /\ pc'[v] = pc[v]
  BY <1>1, PopFacts DEF OthersKeep, Placed, TypeOK
<1>3. /\ Len(f) \in Nat /\ Len(queue_') \in Nat /\ Len(queue_) = Len(f) + Len(queue_')
      /\ \A i \in 1..Len(f) : f[i] = queue_[i] /\ f[i] \in Pushed /\ i \in 1..Len(queue_)
      /\ \A i \in 1..Len(queue_') :
           queue_'[i] = queue_[Len(f) + i] /\ queue_'[i] \in Pushed /\ Len(f) + i \in 1..Len(queue_)
      /\ \A c : In(queue_, c) <=> In(f, c) \/ In(queue_', c)
  BY <1>2, LenProperties, ElementOfSeq DEF Cut
<1>4. UNCHANGED <<pushes, applied, refused>> /\ Pushed' = Pushed
  BY DEF PopBatch, Pushed
<1>5. pc'[w] = "querying"
  BY DEF PopBatch, Placed, TypeOK
<1>6. \A s \in Statements : taker'[s] = IF In(f, s) /\ ~Taken(s) THEN w ELSE taker[s]
  <2> DEFINE size == IF Len(queue_) < MaxBatch THEN Len(queue_) ELSE MaxBatch
  <2>1. /\ batch' = [batch EXCEPT ![w] = SubSeq(queue_, 1, size)]
        /\ taker' = [s \in Statements |->
             IF s \in ToSet(SubSeq(queue_, 1, size)) /\ taker[s] = "nobody" THEN w ELSE taker[s]]
    BY DEF PopBatch
  <2> HIDE DEF size
  <2>2. f = SubSeq(queue_, 1, size)
    BY <1>1, <2>1 DEF Placed, TypeOK
  <2>3. \A s : s \in ToSet(f) <=> In(f, s)
    BY <1>2, InFacts
  <2> QED
    BY <2>1, <2>2, <2>3 DEF Taken
<1>7. \A s \in Statements : taker'[s] # "nobody" <=> Taken(s) \/ In(f, s)
  BY <1>6, DbWriterAssumption DEF Taken
<1>8. Pushed \subseteq Statements /\ Pushed \subseteq Nat /\ \A s \in Pushed : Taken(s) <=> taker[s] \in Writers
  BY TakerFacts DEF Placed
<1>9. \A s \in Pushed : ~Taken(s) => In(queue_, s) /\ ~In(applied, s) /\ s \notin refused
  BY DEF OrderInv, TakenInOrder
\* What was taken now was the oldest that had not been taken.
<1>10. ASSUME NEW s \in Pushed, NEW t \in Pushed, s < t, ~Taken(s), ~Taken(t), In(f, t)
       PROVE  Ahead(f, s, t)
  <2>1. PICK j \in 1..Len(f) : f[j] = t
    BY <1>10 DEF In
  <2>2. PICK i \in 1..Len(queue_) : queue_[i] = s
    BY <1>9, <1>10 DEF In
  <2>3. queue_[j] = t /\ j \in 1..Len(queue_)
    BY <1>3, <2>1
  <2>4. ~(j < i)
    <3> SUFFICES ASSUME j < i PROVE FALSE
      OBVIOUS
    <3>1. t < s
      BY <1>10, <2>2, <2>3 DEF OrderInv, TakenInOrder
    <3> QED
      BY <1>8, <1>10, <3>1
  <2>5. i # j
    BY <1>8, <1>10, <2>2, <2>3
  <2>6. i \in 1..Len(f) /\ i < j
    BY <1>3, <2>1, <2>2, <2>4, <2>5
  <2> QED
    BY <1>3, <2>1, <2>2, <2>6 DEF Ahead
<1>11. \A s, t \in Pushed : s < t /\ taker'[t] # "nobody" => taker'[s] # "nobody"
  <2> SUFFICES ASSUME NEW s \in Pushed, NEW t \in Pushed, s < t, taker'[t] # "nobody", ~Taken(s)
               PROVE  In(f, s)
    BY <1>7, <1>8
  <2>1. ~Taken(t)
    BY DEF OrderInv, TakenInOrder
  <2>2. Ahead(f, s, t)
    BY <1>7, <1>8, <1>10, <2>1
  <2> QED
    BY <2>2 DEF Ahead, In
<1>12. TakenInOrder'
  <2>1. \A s \in Statements : Taken(s)' => s \in Pushed'
    BY <1>2, <1>4, <1>7, InFacts DEF OrderInv, TakenInOrder, Taken
  <2>2. \A s \in Pushed' : ~Taken(s)' => In(queue_', s) /\ ~In(applied', s) /\ s \notin refused'
    BY <1>3, <1>4, <1>7, <1>8, <1>9 DEF Taken
  <2>3. \A v \in Writers : \A s \in Pushed' : In(batch'[v], s) => Taken(s)'
    BY <1>1, <1>2, <1>4, <1>7, <1>8 DEF OrderInv, TakenInOrder, Taken
  <2>4. \A s, t \in Pushed' : s < t /\ Taken(t)' => Taken(s)'
    BY <1>4, <1>11 DEF Taken
  <2>5. ASSUME NEW i \in 1..Len(queue_'), NEW j \in 1..Len(queue_'), i < j,
               taker'[queue_'[i]] = "nobody", taker'[queue_'[j]] = "nobody"
        PROVE  queue_'[i] < queue_'[j]
    <3>1. ~Taken(queue_[Len(f) + i]) /\ ~Taken(queue_[Len(f) + j])
      BY <1>3, <1>7, <1>8, <2>5
    <3>2. Len(f) + i < Len(f) + j
      BY <1>3, <2>5
    <3> QED
      BY <1>3, <3>1, <3>2 DEF OrderInv, TakenInOrder
  <2> QED
    BY <2>1, <2>2, <2>3, <2>4, <2>5 DEF TakenInOrder, Taken
<1>13. \A s \in Pushed \ refused : Taken(s) /\ taker[s] = w => In(applied, s)
  <2>1. ~In(batch[w], w) /\ \A c : ~In(batch[w], c)
    BY <1>2, EmptySeq DEF In
  <2> QED
    BY <2>1 DEF OrderInv, Served
<1>14. Served'
  <2>1. ASSUME NEW s \in Pushed, s \notin refused, taker'[s] # "nobody"
        PROVE  In(batch'[taker'[s]], s) \/ In(applied, s)
    <3>1. CASE Taken(s)
      BY <1>2, <1>6, <1>8, <1>13, <2>1, <3>1 DEF OrderInv, Served
    <3>2. CASE ~Taken(s)
      BY <1>1, <1>6, <1>7, <1>8, <2>1, <3>2
    <3> QED
      BY <3>1, <3>2
  <2>2. \A v \in Writers : pc'[v] = "pushing" => Head(batch'[v]) \in refused'
    BY <1>2, <1>4, <1>5 DEF OrderInv, Served
  <2> QED
    BY <1>4, <2>1, <2>2 DEF Served, Taken
<1>15. Ordered'
  <2> SUFFICES ASSUME NEW s \in Pushed, NEW t \in Pushed, s < t, s \notin refused,
                      taker'[s] # "nobody", taker'[s] = taker'[t]
               PROVE  \/ First(applied, s, t)
                      \/ Ahead(batch'[taker'[s]], s, t) /\ ~In(applied, t)
    BY <1>4 DEF Ordered, Taken
  <2>1. CASE Taken(s) /\ Taken(t)
    <3>1. taker'[s] = taker[s] /\ taker'[t] = taker[t] /\ taker[s] \in Writers
      BY <1>6, <1>8, <2>1
    <3>2. First(applied, s, t) \/ (Ahead(batch[taker[s]], s, t) /\ ~In(applied, t))
      BY <2>1, <3>1 DEF OrderInv, Ordered
    <3>3. ~Ahead(batch[w], s, t)
      BY <1>2, EmptySeq DEF Ahead
    <3> QED
      BY <1>2, <3>1, <3>2, <3>3
  <2>2. CASE Taken(s) /\ ~Taken(t)
    <3>1. taker[s] = w
      BY <1>6, <1>7, <1>8, <2>2
    <3>2. In(applied, s) /\ ~In(applied, t)
      BY <1>9, <1>13, <2>2, <3>1
    <3> QED
      BY <1>2, <3>2, FirstFacts
  <2>3. CASE ~Taken(s)
    <3>1. ~Taken(t) /\ In(f, t) /\ taker'[s] = w
      BY <1>6, <1>7, <1>8, <2>3 DEF OrderInv, TakenInOrder
    <3> QED
      BY <1>1, <1>9, <1>10, <2>3, <3>1
  <2> QED
    BY <2>1, <2>2, <2>3
<1> QED
  BY <1>12, <1>14, <1>15 DEF OrderInv

\* The head of a batch that is at work.
LEMMA HeadFacts ==
  ASSUME Placed, OrderInv, NEW w \in Writers, pc[w] \in {"querying", "pushing"}
  PROVE  /\ batch[w] \in Seq(Pushed) /\ batch[w] # <<>> /\ Distinct(batch[w])
         /\ Head(batch[w]) \in Pushed /\ Taken(Head(batch[w])) /\ ~In(queue_, Head(batch[w]))
         /\ \A v \in Writers : In(batch[v], Head(batch[w])) => v = w
         /\ \A v \in Writers : \A s, t \in Pushed : Ahead(batch[v], s, t) => t # Head(batch[w])
<1>1. batch[w] \in Seq(Pushed) /\ batch[w] # <<>> /\ Distinct(batch[w])
  BY DEF Placed, TypeOK, OnePlace
<1>2. Head(batch[w]) \in Pushed /\ In(batch[w], Head(batch[w]))
  BY <1>1, TailFacts
<1>3. Taken(Head(batch[w])) /\ ~In(queue_, Head(batch[w]))
  BY <1>2 DEF OrderInv, TakenInOrder, Placed, OnePlace
<1>4. \A v \in Writers : In(batch[v], Head(batch[w])) => v = w
  BY <1>2 DEF Placed, OnePlace
<1>5. ASSUME NEW v \in Writers, NEW s \in Pushed, NEW t \in Pushed, Ahead(batch[v], s, t)
      PROVE  t # Head(batch[w])
  <2>1. batch[v] \in Seq(Pushed) /\ Distinct(batch[v])
    BY DEF Placed, TypeOK, OnePlace
  <2>2. In(batch[v], t) /\ t # Head(batch[v])
    BY <1>5, <2>1, AheadFacts
  <2> QED
    BY <1>4, <2>2
<1> QED
  BY <1>1, <1>2, <1>3, <1>4, <1>5

LEMMA OrderAtQuery ==
  ASSUME Placed, OrderInv, NEW w \in Writers, Query(w)
  PROVE  OrderInv'
<1>1. PICK h : h = Head(batch[w])
  OBVIOUS
<1>2. /\ batch[w] \in Seq(Pushed) /\ Distinct(batch[w])
      /\ h \in Pushed /\ Taken(h)
      /\ \A v \in Writers : In(batch[v], h) => v = w
      /\ \A v \in Writers : \A s, t \in Pushed : Ahead(batch[v], s, t) => t # h
  BY <1>1, HeadFacts DEF Query
<1>3. /\ \A v \in Writers : v # w => batch'[v] = batch[v] /\ pc'[v] = pc[v]
      /\ \A s : In(batch'[w], s) <=> In(batch[w], s) /\ s # h
      /\ batch'[w] = Tail(batch[w])
  BY <1>1, AdvanceFacts DEF Query, OthersKeep
<1>4. pc'[w] \in {"popping", "querying"}
  BY DEF Query, Advance, Placed, TypeOK
<1>5. /\ UNCHANGED <<queue_, pushes, refused, taker>> /\ applied' = Append(applied, h)
      /\ Pushed' = Pushed
  BY <1>1 DEF Query, queueVars, history, Pushed
<1>6. /\ \A c : In(applied', c) <=> In(applied, c) \/ c = h
      /\ \A s, t : /\ First(applied, s, t) => First(applied', s, t)
                   /\ s = h /\ ~In(applied, t) /\ s # t => First(applied', s, t)
  BY <1>2, <1>5, AppendFacts, FirstFacts DEF Placed, TypeOK
<1>7. \A s : Taken(s)' <=> Taken(s)
  BY <1>5 DEF Taken
<1>8. \A s \in Pushed : Taken(s) <=> taker[s] \in Writers
  BY TakerFacts DEF Placed
<1>9. \A v \in Writers : \A s : In(batch'[v], s) => In(batch[v], s)
  BY <1>3
<1>10. TakenInOrder'
  <2>1. \A s \in Pushed' : ~Taken(s)' => In(queue_', s) /\ ~In(applied', s) /\ s \notin refused'
    BY <1>2, <1>5, <1>6, <1>7 DEF OrderInv, TakenInOrder
  <2>2. \A v \in Writers : \A s \in Pushed' : In(batch'[v], s) => Taken(s)'
    BY <1>5, <1>7, <1>9 DEF OrderInv, TakenInOrder
  <2>3. /\ \A s \in Statements : Taken(s)' => s \in Pushed'
        /\ \A s, t \in Pushed' : s < t /\ Taken(t)' => Taken(s)'
    BY <1>5, <1>7 DEF OrderInv, TakenInOrder
  <2>4. \A i, j \in 1..Len(queue_) :
          i < j /\ taker'[queue_[i]] = "nobody" /\ taker'[queue_[j]] = "nobody" => queue_[i] < queue_[j]
    BY <1>5 DEF OrderInv, TakenInOrder, Taken
  <2> QED
    BY <1>5, <2>1, <2>2, <2>3, <2>4 DEF TakenInOrder, Taken
<1>11. Served'
  <2>1. ASSUME NEW s \in Pushed, s \notin refused, Taken(s)
        PROVE  In(batch'[taker[s]], s) \/ In(applied', s)
    <3>1. taker[s] \in Writers /\ (In(batch[taker[s]], s) \/ In(applied, s))
      BY <1>8, <2>1 DEF OrderInv, Served
    <3> QED
      BY <1>3, <1>6, <3>1
  <2>2. \A v \in Writers : pc'[v] = "pushing" => Head(batch'[v]) \in refused
    BY <1>3, <1>4 DEF OrderInv, Served
  <2> QED
    BY <1>5, <1>7, <2>1, <2>2 DEF Served
<1>12. Ordered'
  <2> SUFFICES ASSUME NEW s \in Pushed, NEW t \in Pushed, s < t, s \notin refused,
                      Taken(s), taker[s] = taker[t]
               PROVE  \/ First(applied', s, t)
                      \/ Ahead(batch'[taker[s]], s, t) /\ ~In(applied', t)
    BY <1>5, <1>7 DEF Ordered
  <2>1. First(applied, s, t) \/ (Ahead(batch[taker[s]], s, t) /\ ~In(applied, t))
    BY DEF OrderInv, Ordered
  <2>2. taker[s] \in Writers
    BY <1>8
  <2>3. CASE Ahead(batch[taker[s]], s, t) /\ ~In(applied, t)
    <3>1. ~In(applied', t)
      BY <1>2, <1>6, <2>2, <2>3
    <3>2. CASE taker[s] # w
      BY <1>3, <2>2, <2>3, <3>1, <3>2
    <3>3. CASE taker[s] = w
      <4>1. s # t /\ (s # h => Ahead(batch'[w], s, t))
        BY <1>1, <1>2, <1>3, <2>3, <3>3, AheadFacts
      <4> QED
        BY <1>6, <2>3, <3>1, <3>3, <4>1
    <3> QED
      BY <3>2, <3>3
  <2> QED
    BY <1>6, <2>1, <2>3
<1> QED
  BY <1>10, <1>11, <1>12 DEF OrderInv

LEMMA OrderAtFail ==
  ASSUME Placed, OrderInv, NEW w \in Writers, QueryFails(w)
  PROVE  OrderInv'
<1>1. PICK h : h = Head(batch[w])
  OBVIOUS
<1>2. /\ h \in Pushed /\ Taken(h)
      /\ \A v \in Writers : \A s, t \in Pushed : Ahead(batch[v], s, t) => t # h
  BY <1>1, HeadFacts DEF QueryFails
<1>3. /\ UNCHANGED <<queue_, pushes, batch, taker>> /\ refused' = refused \cup {h}
      /\ applied' = applied \/ applied' = Append(applied, h)
      /\ Pushed' = Pushed /\ \A v \in Writers : v # w => pc'[v] = pc[v]
  BY <1>1 DEF QueryFails, queueVars, Pushed, Placed, TypeOK
<1>4. /\ \A c : In(applied, c) => In(applied', c)
      /\ \A c : In(applied', c) => In(applied, c) \/ c = h
      /\ \A s, t : First(applied, s, t) => First(applied', s, t)
  <2>1. /\ \A c : In(Append(applied, h), c) <=> In(applied, c) \/ c = h
        /\ \A s, t : First(applied, s, t) => First(Append(applied, h), s, t)
    BY <1>2, AppendFacts, FirstFacts DEF Placed, TypeOK
  <2> QED
    BY <1>3, <2>1
<1>5. \A s : Taken(s)' <=> Taken(s)
  BY <1>3 DEF Taken
<1>6. TakenInOrder'
  <2>1. \A s \in Pushed' : ~Taken(s)' => In(queue_', s) /\ ~In(applied', s) /\ s \notin refused'
    BY <1>2, <1>3, <1>4, <1>5 DEF OrderInv, TakenInOrder
  <2>2. /\ \A v \in Writers : \A s \in Pushed' : In(batch'[v], s) => Taken(s)'
        /\ \A s \in Statements : Taken(s)' => s \in Pushed'
        /\ \A s, t \in Pushed' : s < t /\ Taken(t)' => Taken(s)'
    BY <1>3, <1>5 DEF OrderInv, TakenInOrder
  <2>3. \A i, j \in 1..Len(queue_) :
          i < j /\ taker'[queue_[i]] = "nobody" /\ taker'[queue_[j]] = "nobody" => queue_[i] < queue_[j]
    BY <1>3 DEF OrderInv, TakenInOrder, Taken
  <2> QED
    BY <1>3, <2>1, <2>2, <2>3 DEF TakenInOrder, Taken
<1>7. Served'
  <2>1. \A s \in Pushed \ refused : Taken(s) => In(batch[taker[s]], s) \/ In(applied', s)
    BY <1>4 DEF OrderInv, Served
  <2>2. \A v \in Writers : pc'[v] = "pushing" => Head(batch[v]) \in refused'
    BY <1>1, <1>3 DEF OrderInv, Served
  <2> QED
    BY <1>3, <1>5, <2>1, <2>2 DEF Served
<1>8. Ordered'
  <2> SUFFICES ASSUME NEW s \in Pushed, NEW t \in Pushed, s < t, s \notin refused,
                      Taken(s), taker[s] = taker[t]
               PROVE  \/ First(applied', s, t)
                      \/ Ahead(batch[taker[s]], s, t) /\ ~In(applied', t)
    BY <1>3, <1>5 DEF Ordered
  <2>1. First(applied, s, t) \/ (Ahead(batch[taker[s]], s, t) /\ ~In(applied, t))
    BY DEF OrderInv, Ordered
  <2>2. taker[s] \in Writers
    BY TakerFacts DEF Placed
  <2> QED
    BY <1>2, <1>4, <2>1, <2>2
<1> QED
  BY <1>6, <1>7, <1>8 DEF OrderInv

LEMMA OrderAtPushAgain ==
  ASSUME Placed, OrderInv, NEW w \in Writers, PushAgain(w)
  PROVE  OrderInv'
<1>1. PICK h : h = Head(batch[w])
  OBVIOUS
<1>2. batch[w] \in Seq(Pushed) /\ Distinct(batch[w]) /\ h \in Pushed /\ Taken(h)
  BY <1>1, HeadFacts DEF PushAgain
<1>3. /\ \A v \in Writers : v # w => batch'[v] = batch[v] /\ pc'[v] = pc[v]
      /\ \A s : In(batch'[w], s) <=> In(batch[w], s) /\ s # h
      /\ batch'[w] = Tail(batch[w])
  BY <1>1, AdvanceFacts DEF PushAgain, OthersKeep
<1>4. pc'[w] \in {"popping", "querying"} /\ h \in refused
  BY <1>1 DEF PushAgain, Advance, Placed, TypeOK, OrderInv, Served
<1>5. /\ UNCHANGED <<pushes, applied, refused, taker>> /\ queue_' = Append(queue_, h)
      /\ Pushed' = Pushed
  BY <1>1 DEF PushAgain, queueVars, history, Pushed
<1>6. /\ \A c : In(queue_', c) <=> In(queue_, c) \/ c = h
      /\ Len(queue_) \in Nat /\ Len(queue_') = Len(queue_) + 1 /\ queue_'[Len(queue_) + 1] = h
      /\ \A i \in 1..Len(queue_) : queue_'[i] = queue_[i]
  BY <1>2, <1>5, AppendFacts, AppendProperties, LenProperties DEF Placed, TypeOK
<1>7. \A s : Taken(s)' <=> Taken(s)
  BY <1>5 DEF Taken
<1>8. \A s \in Pushed : Taken(s) <=> taker[s] \in Writers
  BY TakerFacts DEF Placed
<1>9. \A v \in Writers : \A s : In(batch'[v], s) => In(batch[v], s)
  BY <1>3
<1>10. TakenInOrder'
  <2>1. \A s \in Pushed' : ~Taken(s)' => In(queue_', s) /\ ~In(applied', s) /\ s \notin refused'
    BY <1>5, <1>6, <1>7 DEF OrderInv, TakenInOrder
  <2>2. \A v \in Writers : \A s \in Pushed' : In(batch'[v], s) => Taken(s)'
    BY <1>5, <1>7, <1>9 DEF OrderInv, TakenInOrder
  <2>3. /\ \A s \in Statements : Taken(s)' => s \in Pushed'
        /\ \A s, t \in Pushed' : s < t /\ Taken(t)' => Taken(s)'
    BY <1>5, <1>7 DEF OrderInv, TakenInOrder
  <2>4. ASSUME NEW i \in 1..Len(queue_'), NEW j \in 1..Len(queue_'), i < j,
               taker'[queue_'[i]] = "nobody", taker'[queue_'[j]] = "nobody"
        PROVE  queue_'[i] < queue_'[j]
    <3>1. j # Len(queue_) + 1
      BY <1>2, <1>5, <1>6, <2>4 DEF Taken
    <3>2. i \in 1..Len(queue_) /\ j \in 1..Len(queue_)
      BY <1>6, <2>4, <3>1
    <3> QED
      BY <1>5, <1>6, <2>4, <3>2 DEF OrderInv, TakenInOrder, Taken
  <2> QED
    BY <2>1, <2>2, <2>3, <2>4 DEF TakenInOrder, Taken
<1>11. Served'
  <2>1. ASSUME NEW s \in Pushed, s \notin refused, Taken(s)
        PROVE  In(batch'[taker[s]], s) \/ In(applied, s)
    <3>1. taker[s] \in Writers /\ (In(batch[taker[s]], s) \/ In(applied, s))
      BY <1>8, <2>1 DEF OrderInv, Served
    <3> QED
      BY <1>3, <1>4, <2>1, <3>1
  <2>2. \A v \in Writers : pc'[v] = "pushing" => Head(batch'[v]) \in refused
    BY <1>3, <1>4 DEF OrderInv, Served
  <2> QED
    BY <1>5, <1>7, <2>1, <2>2 DEF Served
<1>12. Ordered'
  <2> SUFFICES ASSUME NEW s \in Pushed, NEW t \in Pushed, s < t, s \notin refused,
                      Taken(s), taker[s] = taker[t]
               PROVE  \/ First(applied, s, t)
                      \/ Ahead(batch'[taker[s]], s, t) /\ ~In(applied, t)
    BY <1>5, <1>7 DEF Ordered
  <2>1. First(applied, s, t) \/ (Ahead(batch[taker[s]], s, t) /\ ~In(applied, t))
    BY DEF OrderInv, Ordered
  <2>2. taker[s] \in Writers /\ s # h
    BY <1>4, <1>8
  <2>3. Ahead(batch[w], s, t) => Ahead(batch'[w], s, t)
    BY <1>1, <1>2, <1>3, <2>2, AheadFacts
  <2> QED
    BY <1>3, <2>1, <2>2, <2>3
<1> QED
  BY <1>10, <1>11, <1>12 DEF OrderInv

LEMMA OrderKept ==
  ASSUME Placed, Placed', OrderInv, [Next]_vars
  PROVE  OrderInv'
<1>1. CASE Push
  BY <1>1, OrderAtPush
<1>2. ASSUME NEW w \in Writers, PopBatch(w) PROVE OrderInv'
  BY <1>2, OrderAtPop
<1>3. ASSUME NEW w \in Writers, Query(w) PROVE OrderInv'
  BY <1>3, OrderAtQuery
<1>4. ASSUME NEW w \in Writers, QueryFails(w) PROVE OrderInv'
  BY <1>4, OrderAtFail
<1>5. ASSUME NEW w \in Writers, PushAgain(w) PROVE OrderInv'
  BY <1>5, OrderAtPushAgain
<1>6. CASE /\ UNCHANGED <<queueVars, batch, applied, history>>
           /\ \A v \in Writers : pc'[v] = "pushing" => pc[v] = "pushing"
  BY <1>6 DEF OrderInv, TakenInOrder, Served, Ordered, Taken, Pushed, queueVars, history
<1>7. ASSUME NEW w \in Writers, PopNothing(w) \/ Wake(w) PROVE OrderInv'
  BY <1>6, <1>7 DEF PopNothing, Wake, Placed, TypeOK
<1>8. CASE UNCHANGED vars
  BY <1>6, <1>8 DEF vars
<1> QED
  BY <1>1, <1>2, <1>3, <1>4, <1>5, <1>7, <1>8 DEF Next, Step

(***************************************************************************)
(* A statement overtakes an older one only when that one failed or another *)
(* writer took it: batches keep the order of the queue, and a statement    *)
(* that fails goes behind everything else.                                 *)
(***************************************************************************)
THEOREM OvertakenForAReason == Spec => []InOrderOfOneWriter
<1>1. Init => OrderInv
  <2> SUFFICES ASSUME Init PROVE OrderInv
    OBVIOUS
  <2>1. Pushed = {} /\ queue_ = <<>> /\ Len(queue_) = 0 /\ \A s \in Statements : ~Taken(s)
    BY EmptySeq DEF Init, Pushed, Taken
  <2>2. TakenInOrder
    BY <2>1 DEF TakenInOrder
  <2>3. Served /\ Ordered
    BY <2>1 DEF Init, Served, Ordered
  <2> QED
    BY <2>2, <2>3 DEF OrderInv
<1>2. Placed /\ Placed' /\ OrderInv /\ [Next]_vars => OrderInv'
  BY OrderKept
<1>3. Placed /\ OrderInv => InOrderOfOneWriter
  <2> SUFFICES ASSUME Placed, OrderInv, NEW s \in Pushed, NEW t \in Pushed,
                      s < t, AppliedBefore(t, s), s \notin refused, taker[s] = taker[t]
               PROVE  FALSE
    BY DEF InOrderOfOneWriter
  <2>1. PICK i \in 1..Len(applied) : applied[i] = t /\ \A j \in 1..i : applied[j] # s
    BY LenProperties DEF AppliedBefore, Placed, TypeOK
  <2>2. In(applied, t)
    BY <2>1 DEF In
  <2>3. Taken(t) /\ Taken(s)
    BY <2>2 DEF OrderInv, TakenInOrder, Taken
  <2>4. PICK k \in 1..Len(applied) : applied[k] = s /\ \A j \in 1..k : applied[j] # t
    BY <2>2, <2>3 DEF OrderInv, Ordered, First
  <2>5. i \in 1..k \/ k \in 1..i
    OBVIOUS
  <2> QED
    BY <2>1, <2>4, <2>5
<1> QED
  BY <1>1, <1>2, <1>3, PlacedAlways, PTL DEF Spec
=============================================================================
