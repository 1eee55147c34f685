---------------------------- MODULE TimerProofs ----------------------------
(***************************************************************************)
(* Proofs about the timeout queue for every number of ids, classes and     *)
(* pending timeouts: types, the order of the queue, the uniqueness of ids, *)
(* the time that remains to a timeout across steps of the clock, the       *)
(* separation of a class, and the reuse of ids.                            *)
(* Order and uniqueness are inductive together: removing an entry forgets  *)
(* the pairs of history that mention its id, which is harmless only when   *)
(* no other entry has that id.  Timeouts of a class are apart because the  *)
(* one pass of add_timeout_in_class finds the least delay away from all of *)
(* them, and an id does not come back early because the ids that are free  *)
(* before it and the allocations since make up the window.                 *)
(***************************************************************************)
EXTENDS TimerQueue, SequenceTheorems, FiniteSetTheorems, WellFoundedInduction, TLAPS

-----------------------------------------------------------------------------
(* The timeout queue.                                                      *)

\* InsertAt, as the vector operation of sched.rs: Vec::insert shifts the tail.
LEMMA InsertAtElements ==
  ASSUME NEW S, NEW s \in Seq(S), NEW p \in 1..(Len(s) + 1), NEW e \in S
  PROVE  /\ InsertAt(s, p, e) \in Seq(S)
         /\ Len(InsertAt(s, p, e)) = Len(s) + 1
         /\ \A i \in 1..(Len(s) + 1) :
              InsertAt(s, p, e)[i] = IF i < p THEN s[i]
                                     ELSE IF i = p THEN e ELSE s[i - 1]
<1> DEFINE a == SubSeq(s, 1, p - 1)
           b == SubSeq(s, p, Len(s))
<1>1. /\ Len(s) \in Nat
      /\ \A i \in 1..Len(s) : s[i] \in S
  BY LenProperties, ElementOfSeq
<1>2. /\ a \in Seq(S)
      /\ Len(a) = p - 1
      /\ \A i \in 1..(p - 1) : a[i] = s[i]
  BY <1>1, SubSeqProperties
<1>3. /\ b \in Seq(S)
      /\ Len(b) = Len(s) - p + 1
      /\ \A i \in 1..(Len(s) - p + 1) : b[i] = s[p + i - 1]
  BY <1>1, SubSeqProperties
<1>4. /\ <<e>> \in Seq(S)
      /\ Len(<<e>>) = 1
      /\ <<e>>[1] = e
  OBVIOUS
<1> HIDE DEF a, b
<1> DEFINE c == a \o <<e>>
           d == c \o b
<1>5. /\ c \in Seq(S)
      /\ Len(c) = p
      /\ \A i \in 1..p : c[i] = IF i <= p - 1 THEN a[i] ELSE <<e>>[i - (p - 1)]
  BY <1>1, <1>2, <1>4, ConcatProperties
<1> HIDE DEF c
<1>6. /\ d \in Seq(S)
      /\ Len(d) = Len(c) + Len(b)
      /\ \A i \in 1..(Len(c) + Len(b)) : d[i] = IF i <= Len(c) THEN c[i] ELSE b[i - Len(c)]
  BY <1>3, <1>5, ConcatProperties, Zenon
<1>7. InsertAt(s, p, e) = d
  BY DEF InsertAt, a, b, c
<1> HIDE DEF d
<1>8. Len(c) + Len(b) = Len(s) + 1
  BY <1>1, <1>3, <1>5
<1>9. \A i \in 1..(Len(s) + 1) : d[i] = IF i <= p THEN c[i] ELSE b[i - p]
  BY <1>5, <1>6, <1>8
<1>10. ASSUME NEW i \in 1..(Len(s) + 1)
      PROVE  d[i] = IF i < p THEN s[i] ELSE IF i = p THEN e ELSE s[i - 1]
  <2>1. CASE i < p
    <3>1. i \in 1..(p - 1) /\ i \in 1..p /\ i <= p - 1 /\ i <= p
      BY <2>1, <1>1
    <3>2. d[i] = c[i] /\ c[i] = a[i] /\ a[i] = s[i]
      BY <3>1, <1>2, <1>5, <1>9
    <3> QED BY <2>1, <3>2
  <2>2. CASE i = p
    <3>1. p \in 1..p /\ ~ (p <= p - 1) /\ p - (p - 1) = 1
      BY <1>1
    <3>2. d[p] = c[p] /\ c[p] = e
      BY <3>1, <1>4, <1>5, <1>9
    <3> QED BY <2>2, <3>2
  <2>3. CASE i > p
    <3>1. i - p \in 1..(Len(s) - p + 1) /\ p + (i - p) - 1 = i - 1
      BY <2>3, <1>1
    <3>2. d[i] = b[i - p]
      BY <2>3, <1>1, <1>9
    <3>3. b[i - p] = s[i - 1]
      BY <3>1, <1>3
    <3> QED BY <2>3, <3>2, <3>3
  <2> QED BY <2>1, <2>2, <2>3, <1>1
<1> QED BY <1>6, <1>7, <1>10, <1>8

\* RemoveAt, as Vec::remove: the tail closes up.
LEMMA RemoveAtElements ==
  ASSUME NEW S, NEW s \in Seq(S), NEW p \in 1..Len(s)
  PROVE  /\ RemoveAt(s, p) \in Seq(S)
         /\ Len(RemoveAt(s, p)) = Len(s) - 1
         /\ \A i \in 1..(Len(s) - 1) :
              RemoveAt(s, p)[i] = IF i < p THEN s[i] ELSE s[i + 1]
<1> DEFINE a == SubSeq(s, 1, p - 1)
           b == SubSeq(s, p + 1, Len(s))
<1>1. /\ Len(s) \in Nat
      /\ \A i \in 1..Len(s) : s[i] \in S
  BY LenProperties, ElementOfSeq
<1>2. /\ a \in Seq(S)
      /\ Len(a) = p - 1
      /\ \A i \in 1..(p - 1) : a[i] = s[i]
  BY <1>1, SubSeqProperties
<1>3. /\ b \in Seq(S)
      /\ Len(b) = Len(s) - p
      /\ \A i \in 1..(Len(s) - p) : b[i] = s[p + i]
  BY <1>1, SubSeqProperties
<1> HIDE DEF a, b
<1> DEFINE c == a \o b
<1>4. /\ c \in Seq(S)
      /\ Len(c) = Len(a) + Len(b)
      /\ \A i \in 1..(Len(a) + Len(b)) : c[i] = IF i <= Len(a) THEN a[i] ELSE b[i - Len(a)]
  BY <1>2, <1>3, ConcatProperties, Zenon
<1>5. RemoveAt(s, p) = c
  BY DEF RemoveAt, a, b
<1> HIDE DEF c
<1>6. Len(a) = p - 1 /\ Len(a) + Len(b) = Len(s) - 1
  BY <1>1, <1>2, <1>3
<1>7. \A i \in 1..(Len(s) - 1) : c[i] = IF i <= p - 1 THEN a[i] ELSE b[i - (p - 1)]
  BY <1>4, <1>6
<1>8. ASSUME NEW i \in 1..(Len(s) - 1)
      PROVE  c[i] = IF i < p THEN s[i] ELSE s[i + 1]
  <2>1. CASE i < p
    <3>1. i \in 1..(p - 1)
      BY <2>1, <1>1
    <3>2. c[i] = a[i] /\ a[i] = s[i]
      BY <3>1, <1>2, <1>7
    <3> QED BY <2>1, <3>2
  <2>2. CASE i >= p
    <3>1. i - (p - 1) \in 1..(Len(s) - p) /\ p + (i - (p - 1)) = i + 1
      BY <2>2, <1>1
    <3>2. c[i] = b[i - (p - 1)]
      BY <2>2, <1>1, <1>7
    <3>3. b[i - (p - 1)] = s[i + 1]
      BY <3>1, <1>3
    <3> QED BY <2>2, <3>2, <3>3
  <2> QED BY <2>1, <2>2, <1>1
<1> QED BY <1>4, <1>5, <1>8, <1>6, Zenon

-----------------------------------------------------------------------------

\* The inductive invariant.
IInv == TypeOK /\ QueueOrdered /\ IdsUnique

\* Every entry of a queue of the right type has a time, an id and a class.
LEMMA EntryType ==
  ASSUME TypeOK, NEW i \in 1..Len(queue)
  PROVE  /\ queue[i] \in Entries
         /\ queue[i].ts \in Int
         /\ queue[i].id \in Ids
         /\ queue[i].class \in AllClasses
<1>1. queue[i] \in Entries
  BY ElementOfSeq DEF TypeOK
<1> QED BY <1>1 DEF Entries

\* Adding a timeout (insert_entry, the tail of add_timeout_in_class) keeps
\* the invariant: the new entry goes behind every entry that is not later.
LEMMA InsertInv ==
  ASSUME IInv, NEW ts, NEW c \in AllClasses, Insert(ts, c)
  PROVE  IInv'
<1> USE DEF IInv
<1>1. ts \in Int
  BY ConstantsAssumption DEF Insert, Times
<1>2. PICK n \in Ids, pos \in 1..(Len(queue) + 1) :
        /\ IsNewId(n)
        /\ IsInsertPos(pos, ts)
        /\ queue' = InsertAt(queue, pos, [ts |-> ts, id |-> n, class |-> c])
        /\ Allocate(n)
  BY DEF Insert
<1> DEFINE e == [ts |-> ts, id |-> n, class |-> c]
<1>3. e \in Entries /\ e.ts = ts /\ e.id = n
  BY <1>1 DEF Entries
<1> HIDE DEF e
<1>4. /\ queue' \in Seq(Entries)
      /\ Len(queue') = Len(queue) + 1
      /\ \A i \in 1..(Len(queue) + 1) :
           queue'[i] = IF i < pos THEN queue[i] ELSE IF i = pos THEN e ELSE queue[i - 1]
  BY <1>2, <1>3, InsertAtElements DEF TypeOK, e
<1>5. Len(queue) \in Nat
  BY LenProperties DEF TypeOK
<1>6. n \notin PendingIds /\ \A i \in 1..Len(queue) : queue[i].id # n
  BY <1>2 DEF IsNewId, PendingIds
<1>7. \A i \in 1..Len(queue) : <<queue[i].id, n>> \in older'
  BY <1>2 DEF Allocate
<1>8. older \subseteq older'
  BY <1>2 DEF Allocate
<1>9. TypeOK'
  <2>1. now' \in Int /\ last_class_dispatch' \in [AllClasses -> Int]
    BY DEF Insert, TypeOK
  <2>2. next_tqe_id' \in 0..(IdMod - 1)
    BY <1>2, ConstantsAssumption DEF Allocate, Ids
  <2>3. older' \subseteq Ids \X Ids
    BY <1>2, EntryType DEF Allocate, TypeOK
  <2>4. age' \in [Ids -> Nat]
    BY <1>2 DEF Allocate, TypeOK
  <2> QED BY <1>4, <2>1, <2>2, <2>3, <2>4 DEF TypeOK
<1>10. ASSUME NEW i \in 1..Len(queue'), NEW j \in 1..Len(queue'), i < j
       PROVE  \/ queue'[i].ts < queue'[j].ts
              \/ queue'[i].ts = queue'[j].ts /\ <<queue'[i].id, queue'[j].id>> \in older'
  <2>1. CASE j < pos
    <3>1. i \in 1..Len(queue) /\ j \in 1..Len(queue) /\ queue'[i] = queue[i] /\ queue'[j] = queue[j]
      BY <2>1, <1>10, <1>4, <1>5
    <3> QED BY <3>1, <1>8, <1>10 DEF QueueOrdered
  <2>2. CASE j = pos
    <3>1. i \in 1..(pos - 1) /\ i \in 1..Len(queue) /\ queue'[i] = queue[i] /\ queue'[j] = e
      BY <2>2, <1>10, <1>4, <1>5
    <3>2. queue[i].ts <= ts
      BY <3>1, <1>2 DEF IsInsertPos
    <3> QED BY <3>1, <3>2, <1>1, <1>3, <1>7, EntryType
  <2>3. CASE i = pos
    <3>1. /\ j - 1 \in 1..Len(queue) /\ pos \in 1..Len(queue)
          /\ queue'[i] = e /\ queue'[j] = queue[j - 1] /\ pos <= j - 1
      BY <2>3, <1>10, <1>4, <1>5
    <3>2. queue[pos].ts > ts
      BY <3>1, <1>2 DEF IsInsertPos
    <3>3. queue[pos].ts \in Int /\ queue[j - 1].ts \in Int
      BY <3>1, EntryType
    <3>4. queue[pos].ts <= queue[j - 1].ts
      <4> DEFINE m == j - 1
      <4>1. CASE pos = m
        BY <4>1, <3>3
      <4>2. CASE pos < m
        <5> HIDE DEF m
        <5>1. queue[pos].ts < queue[m].ts \/ queue[pos].ts = queue[m].ts
          BY <4>2, <3>1, Zenon DEF QueueOrdered, m
        <5> QED BY <5>1, <3>3 DEF m
      <4> QED BY <4>1, <4>2, <3>1
    <3> QED BY <3>1, <3>2, <3>3, <3>4, <1>1, <1>3
  <2>4. CASE i < pos /\ pos < j
    <3>1. /\ i \in 1..Len(queue) /\ j - 1 \in 1..Len(queue) /\ i < j - 1
          /\ queue'[i] = queue[i] /\ queue'[j] = queue[j - 1]
      BY <2>4, <1>10, <1>4, <1>5
    <3> QED BY <3>1, <1>8 DEF QueueOrdered
  <2>5. CASE pos < i
    <3>1. /\ i - 1 \in 1..Len(queue) /\ j - 1 \in 1..Len(queue) /\ i - 1 < j - 1
          /\ queue'[i] = queue[i - 1] /\ queue'[j] = queue[j - 1]
      BY <2>5, <1>10, <1>4, <1>5
    <3> QED BY <3>1, <1>8 DEF QueueOrdered
  <2> QED BY <2>1, <2>2, <2>3, <2>4, <2>5, <1>4, <1>5, <1>10
<1>11. ASSUME NEW i \in 1..Len(queue'), NEW j \in 1..Len(queue'), i # j
       PROVE  queue'[i].id # queue'[j].id
  <2> DEFINE old(k) == IF k < pos THEN k ELSE k - 1
  <2>1. \A k \in 1..Len(queue') : k # pos =>
          old(k) \in 1..Len(queue) /\ queue'[k] = queue[old(k)]
    BY <1>4, <1>5
  <2>2. CASE i = pos
    <3>1. queue'[i] = e
      BY <2>2, <1>4
    <3>2. old(j) \in 1..Len(queue) /\ queue'[j] = queue[old(j)]
      BY <2>1, <2>2, <1>11
    <3> QED BY <3>1, <3>2, <1>3, <1>6
  <2>3. CASE j = pos
    <3>1. queue'[j] = e
      BY <2>3, <1>4
    <3>2. old(i) \in 1..Len(queue) /\ queue'[i] = queue[old(i)]
      BY <2>1, <2>3, <1>11
    <3> QED BY <3>1, <3>2, <1>3, <1>6
  <2>4. CASE i # pos /\ j # pos
    <3>1. old(i) # old(j)
      BY <2>4, <1>11, <1>4, <1>5
    <3>2. /\ old(i) \in 1..Len(queue) /\ queue'[i] = queue[old(i)]
          /\ old(j) \in 1..Len(queue) /\ queue'[j] = queue[old(j)]
      BY <2>1, <2>4
    <3> HIDE DEF old
    <3> QED BY <3>1, <3>2 DEF IdsUnique
  <2> QED BY <2>2, <2>3, <2>4
<1> QED BY <1>9, <1>10, <1>11 DEF QueueOrdered, IdsUnique

\* Taking an entry out keeps the order and the uniqueness of what is left:
\* both remove_timeout and dispatch_timeouts do it.
LEMMA ReleaseInv ==
  ASSUME IInv, NEW p \in 1..Len(queue),
         queue' = RemoveAt(queue, p), Release(queue[p].id),
         now' = now, last_class_dispatch' \in [AllClasses -> Int]
  PROVE  IInv'
<1> USE DEF IInv
<1> DEFINE old(k) == IF k < p THEN k ELSE k + 1
<1>1. Len(queue) \in Nat
  BY LenProperties DEF TypeOK
<1>2. /\ queue' \in Seq(Entries)
      /\ Len(queue') = Len(queue) - 1
      /\ \A k \in 1..(Len(queue) - 1) : queue'[k] = IF k < p THEN queue[k] ELSE queue[k + 1]
  BY RemoveAtElements, Zenon DEF TypeOK
<1>3. \A k \in 1..Len(queue') :
        old(k) \in 1..Len(queue) /\ old(k) # p /\ queue'[k] = queue[old(k)]
  BY <1>1, <1>2
<1>4. \A k, m \in 1..Len(queue') : k < m => old(k) < old(m)
  BY <1>1, <1>2
<1>5. \A k, m \in 1..Len(queue') : k # m => old(k) # old(m)
  BY <1>1, <1>2
<1>6. TypeOK'
  BY <1>2 DEF Release, TypeOK
<1> HIDE DEF old
<1>7. ASSUME NEW k \in 1..Len(queue')
      PROVE  queue'[k].id # queue[p].id
  <2>1. old(k) \in 1..Len(queue) /\ old(k) # p /\ queue'[k] = queue[old(k)]
    BY <1>3
  <2>2. queue[old(k)].id # queue[p].id
    BY <2>1, Zenon DEF IdsUnique
  <2> QED BY <2>1, <2>2, Zenon
<1>8. ASSUME NEW i \in 1..Len(queue'), NEW j \in 1..Len(queue'), i < j
      PROVE  \/ queue'[i].ts < queue'[j].ts
             \/ queue'[i].ts = queue'[j].ts /\ <<queue'[i].id, queue'[j].id>> \in older'
  <2>1. \/ queue[old(i)].ts < queue[old(j)].ts
        \/ /\ queue[old(i)].ts = queue[old(j)].ts
           /\ <<queue[old(i)].id, queue[old(j)].id>> \in older
    BY <1>3, <1>4, <1>8 DEF QueueOrdered
  <2>2. ASSUME <<queue'[i].id, queue'[j].id>> \in older
        PROVE  <<queue'[i].id, queue'[j].id>> \in older'
    BY <2>2, <1>7 DEF Release
  <2> QED BY <2>1, <2>2, <1>3, Zenon
<1>9. ASSUME NEW i \in 1..Len(queue'), NEW j \in 1..Len(queue'), i # j
      PROVE  queue'[i].id # queue'[j].id
  <2>1. old(i) \in 1..Len(queue) /\ old(j) \in 1..Len(queue) /\ old(i) # old(j)
    BY <1>3, <1>5, <1>9
  <2>2. queue[old(i)].id # queue[old(j)].id
    BY <2>1 DEF IdsUnique
  <2> QED BY <2>2, <1>3
<1> QED BY <1>6, <1>8, <1>9 DEF QueueOrdered, IdsUnique

\* A step of the clock moves every time alike (handle_slew).
LEMMA HandleStepInv ==
  ASSUME IInv, NEW doffset \in Int, HandleStep(doffset)
  PROVE  IInv'
<1> USE DEF IInv
<1>1. Len(queue) \in Nat
  BY LenProperties DEF TypeOK
<1>2. queue' = [i \in 1..Len(queue) |-> [queue[i] EXCEPT !.ts = @ - doffset]]
  BY DEF HandleStep
<1>3. \A i \in 1..Len(queue) :
        /\ queue'[i] \in Entries
        /\ queue'[i].ts = queue[i].ts - doffset
        /\ queue'[i].id = queue[i].id
  <2> TAKE i \in 1..Len(queue)
  <2>1. queue[i] \in Entries
    BY EntryType
  <2>2. queue'[i] = [queue[i] EXCEPT !.ts = @ - doffset]
    BY <1>2
  <2> QED BY <2>1, <2>2 DEF Entries
<1>4. queue' \in Seq(Entries) /\ Len(queue') = Len(queue)
  BY <1>1, <1>2, <1>3
<1>5. TypeOK'
  BY <1>4 DEF HandleStep, TypeOK
<1>6. QueueOrdered'
  <2> SUFFICES ASSUME NEW i \in 1..Len(queue), NEW j \in 1..Len(queue), i < j
               PROVE  \/ queue'[i].ts < queue'[j].ts
                      \/ /\ queue'[i].ts = queue'[j].ts
                         /\ <<queue'[i].id, queue'[j].id>> \in older'
    BY <1>4 DEF QueueOrdered
  <2>1. older' = older
    BY DEF HandleStep
  <2>2. queue[i].ts \in Int /\ queue[j].ts \in Int
    BY EntryType
  <2>3. \/ queue[i].ts < queue[j].ts
        \/ queue[i].ts = queue[j].ts /\ <<queue[i].id, queue[j].id>> \in older
    BY DEF QueueOrdered
  <2> QED BY <2>1, <2>2, <2>3, <1>3
<1>7. IdsUnique'
  BY <1>3, <1>4 DEF IdsUnique
<1> QED BY <1>5, <1>6, <1>7

\* remove_timeout takes out the one entry of that id, or nothing.
LEMMA RemoveTimeoutInv ==
  ASSUME IInv, NEW n, RemoveTimeout(n)
  PROVE  IInv'
<1>1. CASE UNCHANGED vars
  BY <1>1 DEF vars, IInv, TypeOK, QueueOrdered, IdsUnique
<1>2. ASSUME NEW i \in 1..Len(queue),
             queue[i].id = n, queue' = RemoveAt(queue, i), Release(n),
             UNCHANGED <<now, last_class_dispatch>>
      PROVE  IInv'
  BY <1>2, ReleaseInv DEF IInv, TypeOK
<1> QED BY <1>1, <1>2 DEF RemoveTimeout

\* The tail of a queue is what removing its first entry leaves.
LEMMA TailRemoves ==
  ASSUME NEW S, NEW s \in Seq(S), s # << >>
  PROVE  1 \in 1..Len(s) /\ Head(s) = s[1] /\ Tail(s) = RemoveAt(s, 1)
<1>1. 1 \in 1..Len(s) /\ Head(s) = s[1]
  BY EmptySeq
<1>2. /\ Tail(s) \in Seq(S)
      /\ Len(Tail(s)) = Len(s) - 1
      /\ \A i \in 1..(Len(s) - 1) : Tail(s)[i] = s[i + 1]
  BY HeadTailProperties
<1>3. /\ RemoveAt(s, 1) \in Seq(S)
      /\ Len(RemoveAt(s, 1)) = Len(s) - 1
      /\ \A i \in 1..(Len(s) - 1) : RemoveAt(s, 1)[i] = s[i + 1]
  BY <1>1, RemoveAtElements
<1> QED BY <1>1, <1>2, <1>3, SeqEqual

\* A dispatch takes the head out.
LEMMA DispatchHeadInv ==
  ASSUME IInv, DispatchHead
  PROVE  IInv'
<1>1. queue \in Seq(Entries) /\ queue # << >>
  BY DEF DispatchHead, IInv, TypeOK
<1>2. 1 \in 1..Len(queue) /\ Head(queue) = queue[1] /\ Tail(queue) = RemoveAt(queue, 1)
  BY <1>1, TailRemoves
<1>3. Head(queue).class \in AllClasses
  BY <1>2, EntryType DEF IInv
<1>4. last_class_dispatch' \in [AllClasses -> Int]
  BY <1>3 DEF DispatchHead, IInv, TypeOK
<1> QED BY <1>2, <1>4, ReleaseInv DEF DispatchHead

LEMMA QueueStart ==
  ASSUME Init
  PROVE  IInv
<1>1. queue = << >> /\ Len(queue) = 0
  BY DEF Init
<1>2. TypeOK
  BY <1>1, ConstantsAssumption DEF Init, TypeOK, ReuseWindow
<1> QED BY <1>1, <1>2 DEF IInv, QueueOrdered, IdsUnique

LEMMA QueueStep ==
  ASSUME IInv, [Next]_vars
  PROVE  IInv'
<1>1. ASSUME NEW ts \in 0..MaxTime, AddTimeout(ts) PROVE IInv'
  BY <1>1, InsertInv DEF AddTimeout, AllClasses
<1>2. ASSUME NEW delay \in 0..MaxDelay, AddTimeoutByDelay(delay) PROVE IInv'
  BY <1>2, InsertInv DEF AddTimeoutByDelay, AddTimeout, AllClasses
<1>3. ASSUME NEW delay, NEW r, NEW c \in Classes, AddTimeoutInClass(delay, r, c)
      PROVE  IInv'
  BY <1>3, InsertInv DEF AddTimeoutInClass, AllClasses
<1>4. ASSUME NEW n, RemoveTimeout(n) PROVE IInv'
  BY <1>4, RemoveTimeoutInv
<1>5. CASE DispatchHead
  BY <1>5, DispatchHeadInv
<1>6. ASSUME NEW doffset \in {-1, 1}, HandleStep(doffset) PROVE IInv'
  BY <1>6, HandleStepInv
<1>7. CASE Tick
  BY <1>7 DEF Tick, IInv, TypeOK, QueueOrdered, IdsUnique
<1>8. CASE UNCHANGED vars
  BY <1>8 DEF vars, IInv, TypeOK, QueueOrdered, IdsUnique
<1> QED BY <1>1, <1>2, <1>3, <1>4, <1>5, <1>6, <1>7, <1>8 DEF Next, ClientCall

\* The queue of sched.rs is well typed, ordered and free of duplicate ids
\* initially and after every operation, dispatch and clock step.
THEOREM Inductive == Spec => []IInv
BY QueueStart, QueueStep, PTL DEF Spec

\* Every reachable state of the queue has its type.
THEOREM TypeTheorem == Spec => []TypeOK
BY Inductive, PTL DEF IInv

\* Timeouts fire in order of time, first come first served among equals.
THEOREM OrderedTheorem == Spec => []QueueOrdered
BY Inductive, PTL DEF IInv

\* A timeout id names at most one pending timeout.
THEOREM IdsUniqueTheorem == Spec => []IdsUnique
BY Inductive, PTL DEF IInv
-----------------------------------------------------------------------------
\* What is left of entry i is left of entry j after the step, up to a tick.
Keeps(i, j) ==
  queue[i].id = queue'[j].id
    => queue'[j].ts - now' \in {queue[i].ts - now, queue[i].ts - now - 1}

\* An entry that was there is found again by its id; a new one has a new id.
LEMMA SameEntryKept ==
  ASSUME IInv, now' = now,
         NEW i \in 1..Len(queue), NEW j \in 1..Len(queue'),
         \/ \E k \in 1..Len(queue) : queue'[j] = queue[k]
         \/ queue'[j].id \notin PendingIds
  PROVE  Keeps(i, j)
<1> SUFFICES ASSUME queue[i].id = queue'[j].id
             PROVE  queue'[j].ts - now' = queue[i].ts - now
  BY Zenon DEF Keeps
<1>1. queue[i].id \in PendingIds
  BY Zenon DEF PendingIds
<1>2. PICK k \in 1..Len(queue) : queue'[j] = queue[k]
  BY <1>1
<1>3. k = i
  BY <1>2, Zenon DEF IInv, IdsUnique
<1> QED BY <1>2, <1>3, Zenon

LEMMA InsertKeeps ==
  ASSUME IInv, NEW ts, NEW c \in AllClasses, Insert(ts, c),
         NEW i \in 1..Len(queue), NEW j \in 1..Len(queue')
  PROVE  Keeps(i, j)
<1>1. ts \in Int /\ now' = now
  BY ConstantsAssumption DEF Insert, Times
<1>2. PICK n \in Ids, pos \in 1..(Len(queue) + 1) :
        /\ IsNewId(n)
        /\ queue' = InsertAt(queue, pos, [ts |-> ts, id |-> n, class |-> c])
  BY Zenon DEF Insert
<1> DEFINE e == [ts |-> ts, id |-> n, class |-> c]
<1>3. e \in Entries /\ e.id = n
  BY <1>1 DEF Entries
<1> HIDE DEF e
<1>4. /\ Len(queue') = Len(queue) + 1
      /\ \A m \in 1..(Len(queue) + 1) :
           queue'[m] = IF m < pos THEN queue[m] ELSE IF m = pos THEN e ELSE queue[m - 1]
  BY <1>2, <1>3, InsertAtElements DEF IInv, TypeOK, e
<1>5. Len(queue) \in Nat
  BY LenProperties DEF IInv, TypeOK
<1>6. j \in 1..(Len(queue) + 1)
  BY <1>4
<1>7. CASE j = pos
  <2>1. queue'[j].id = n
    BY <1>3, <1>4, <1>5, <1>6, <1>7
  <2>2. n \notin PendingIds
    BY <1>2 DEF IsNewId
  <2> QED BY <1>1, <2>1, <2>2, SameEntryKept, Zenon
<1>8. CASE j < pos
  <2>1. j \in 1..Len(queue) /\ queue'[j] = queue[j]
    BY <1>4, <1>5, <1>6, <1>8
  <2> QED BY <1>1, <2>1, SameEntryKept, Zenon
<1>9. CASE j > pos
  <2>1. j - 1 \in 1..Len(queue) /\ queue'[j] = queue[j - 1]
    BY <1>4, <1>5, <1>6, <1>9
  <2> QED BY <1>1, <2>1, SameEntryKept, Zenon
<1> QED BY <1>5, <1>6, <1>7, <1>8, <1>9

LEMMA RemoveKeeps ==
  ASSUME IInv, NEW p \in 1..Len(queue), queue' = RemoveAt(queue, p), now' = now,
         NEW i \in 1..Len(queue), NEW j \in 1..Len(queue')
  PROVE  Keeps(i, j)
<1>1. Len(queue) \in Nat
  BY LenProperties DEF IInv, TypeOK
<1>2. /\ Len(queue') = Len(queue) - 1
      /\ \A k \in 1..(Len(queue) - 1) : queue'[k] = IF k < p THEN queue[k] ELSE queue[k + 1]
  BY RemoveAtElements, Zenon DEF IInv, TypeOK
<1>3. /\ j \in 1..Len(queue) /\ j + 1 \in 1..Len(queue)
      /\ queue'[j] = queue[j] \/ queue'[j] = queue[j + 1]
  BY <1>1, <1>2
<1> QED BY <1>3, SameEntryKept, Zenon

LEMMA ShiftKeeps ==
  ASSUME IInv, NEW d \in Int, HandleStep(d),
         NEW i \in 1..Len(queue), NEW j \in 1..Len(queue')
  PROVE  Keeps(i, j)
<1>1. Len(queue) \in Nat
  BY LenProperties DEF IInv, TypeOK
<1> DEFINE q == [k \in 1..Len(queue) |-> [queue[k] EXCEPT !.ts = @ - d]]
<1>2. now' = now - d /\ queue' = q /\ j \in 1..Len(queue)
  BY <1>1 DEF HandleStep
<1>3. queue[j] \in Entries /\ queue[j].ts \in Int /\ now \in Int
  BY <1>2, EntryType DEF IInv, TypeOK
<1>4. queue'[j].id = queue[j].id /\ queue'[j].ts = queue[j].ts - d
  BY <1>2, <1>3 DEF Entries
<1>5. queue[i].id = queue[j].id => i = j
  BY <1>2, Zenon DEF IInv, IdsUnique
<1>6. queue'[j].ts - now' = queue[j].ts - now
  BY <1>2, <1>3, <1>4
<1> QED BY <1>4, <1>5, <1>6, Zenon DEF Keeps

\* What is left of a pending timeout changes only as the clock runs, for every
\* size of the queue, delay and step.
THEOREM RemainingTheorem == Spec => RemainingKept
<1>1. IInv /\ [Next]_vars
        => [\A i \in 1..Len(queue), j \in 1..Len(queue') : Keeps(i, j)]_vars
  <2> SUFFICES ASSUME IInv, Next, NEW i \in 1..Len(queue), NEW j \in 1..Len(queue')
               PROVE  Keeps(i, j)
    BY Zenon
  <2>1. ASSUME NEW ts, AddTimeout(ts) PROVE Keeps(i, j)
    BY <2>1, InsertKeeps DEF AddTimeout, AllClasses
  <2>2. ASSUME NEW delay, NEW r, NEW c \in Classes, AddTimeoutInClass(delay, r, c)
        PROVE  Keeps(i, j)
    BY <2>2, InsertKeeps DEF AddTimeoutInClass, AllClasses
  <2>3. CASE UNCHANGED vars
    BY <2>3, SameEntryKept DEF vars
  <2>4. ASSUME NEW n, RemoveTimeout(n) PROVE Keeps(i, j)
    BY <2>3, <2>4, RemoveKeeps DEF RemoveTimeout
  <2>5. CASE DispatchHead
    <3>1. queue \in Seq(Entries) /\ queue # << >> /\ queue' = Tail(queue) /\ now' = now
      BY <2>5 DEF DispatchHead, IInv, TypeOK
    <3>2. 1 \in 1..Len(queue) /\ queue' = RemoveAt(queue, 1)
      BY <3>1, TailRemoves
    <3> QED BY <3>1, <3>2, RemoveKeeps, Zenon
  <2>6. ASSUME NEW doffset \in {-1, 1}, HandleStep(doffset) PROVE Keeps(i, j)
    BY <2>6, ShiftKeeps
  <2>7. CASE Tick
    <3>1. i \in 1..Len(queue) /\ j \in 1..Len(queue) /\ queue' = queue /\ now' = now + 1
      BY <2>7 DEF Tick
    <3>2. queue[j].ts \in Int /\ now \in Int
      BY <3>1, EntryType DEF IInv, TypeOK
    <3>3. queue[i].id = queue[j].id => i = j
      BY <3>1, Zenon DEF IInv, IdsUnique
    <3>4. queue[j].ts - now' = queue[j].ts - now - 1
      BY <3>1, <3>2
    <3> QED BY <3>1, <3>3, <3>4, Zenon DEF Keeps
  <2> QED BY <2>1, <2>2, <2>4, <2>5, <2>6, <2>7 DEF Next, ClientCall, AddTimeoutByDelay
<1> QED BY Inductive, <1>1, PTL DEF Spec, RemainingKept, Keeps

\* A set of naturals that is not empty has a least element.
LEMMA LeastNat ==
  ASSUME NEW S \in SUBSET Nat, S # {}
  PROVE  \E m \in S : \A k \in S : m <= k
<1>1. \E m \in S : \A k \in S : ~ (<<k, m>> \in OpToRel(<, Nat))
  BY NatLessThanWellFounded, WFMin
<1>2. \A k, m \in Nat : k < m => <<k, m>> \in OpToRel(<, Nat)
  BY Zenon DEF OpToRel
<1>3. \A k, m \in Nat : k < m \/ m <= k
  OBVIOUS
<1> QED BY <1>1, <1>2, <1>3, Zenon

-----------------------------------------------------------------------------
(* The delay of a timeout in a class.                                      *)

\* The turns of the loop of add_timeout_in_class over the first n entries.
Turn(delay, i, separation, class) ==
  IF queue[i].class = class THEN SeparateFrom(delay, queue[i].ts - now, separation) ELSE delay
IsPass(f, n, first, separation, class) ==
  f = [i \in 0..n |-> IF i = 0 THEN first
                      ELSE IF queue[i].class = class THEN SeparateFrom(f[i - 1], queue[i].ts - now, separation)
                      ELSE f[i - 1]]

\* The loop has a result: its turns define a function of the entries passed.
LEMMA PassExists ==
  ASSUME NEW n \in Nat, NEW first, NEW separation, NEW class
  PROVE  \E f : IsPass(f, n, first, separation, class)
<1> DEFINE Ok(m) == \E f : IsPass(f, m, first, separation, class)
           Bad == {m \in Nat : ~ Ok(m)}
<1>1. SUFFICES ASSUME Bad # {} PROVE FALSE
  BY Zenon
<1>2. PICK m \in Bad : \A k \in Bad : m <= k
  <2>1. Bad \in SUBSET Nat
    OBVIOUS
  <2> HIDE DEF Bad
  <2> QED BY <1>1, <2>1, LeastNat
<1>3. m \in Nat /\ ~ Ok(m)
  BY <1>2
<1>4. CASE m = 0
  <2>1. IsPass([i \in 0..0 |-> first], 0, first, separation, class)
    <3>1. \A i \in 0..0 : i = 0
      OBVIOUS
    <3> QED BY <3>1 DEF IsPass
  <2> QED BY <1>3, <1>4, <2>1
<1>5. CASE m # 0
  <2>1. m - 1 \in Nat /\ ~ (m <= m - 1)
    BY <1>3, <1>5
  <2>2. Ok(m - 1)
    BY <1>2, <2>1
  <2>3. PICK f : IsPass(f, m - 1, first, separation, class)
    BY <2>2
  <2> DEFINE g == [i \in 0..m |-> IF i = m THEN Turn(f[m - 1], m, separation, class) ELSE f[i]]
  <2>4. ASSUME NEW i \in 0..m
        PROVE  g[i] = IF i = 0 THEN first
                      ELSE IF queue[i].class = class THEN SeparateFrom(g[i - 1], queue[i].ts - now, separation)
                      ELSE g[i - 1]
    <3>1. CASE i = m
      <4>1. i - 1 \in 0..m /\ i - 1 # m /\ i # 0
        BY <1>3, <1>5, <3>1
      <4>2. g[i - 1] = f[m - 1] /\ g[i] = Turn(f[m - 1], m, separation, class)
        BY <3>1, <4>1
      <4> HIDE DEF g
      <4> QED BY <3>1, <4>1, <4>2, Zenon DEF Turn
    <3>2. CASE i # m
      <4>1. i \in 0..(m - 1) /\ (i # 0 => i - 1 \in 0..(m - 1) /\ i - 1 \in 0..m /\ i - 1 # m)
        BY <1>3, <3>2
      <4>2. g[i] = f[i] /\ (i # 0 => g[i - 1] = f[i - 1])
        BY <3>2, <4>1
      <4>3. f[i] = IF i = 0 THEN first
                   ELSE IF queue[i].class = class THEN SeparateFrom(f[i - 1], queue[i].ts - now, separation)
                   ELSE f[i - 1]
        BY <2>3, <4>1, Zenon DEF IsPass
      <4> HIDE DEF g
      <4> QED BY <4>2, <4>3, Zenon
    <3> QED BY <3>1, <3>2
  <2>5. g = [i \in 0..m |-> g[i]]
    OBVIOUS
  <2> HIDE DEF g
  <2>6. IsPass(g, m, first, separation, class)
    BY <2>4, <2>5, Zenon DEF IsPass
  <2> QED BY <1>3, <2>6
<1> QED BY <1>4, <1>5

\* A delay away from an entry of the class.
Clear(x, i, separation, class) ==
  queue[i].class = class =>
    \/ x - (queue[i].ts - now) >= separation
    \/ (queue[i].ts - now) - x >= separation

\* What the loop has found after n turns: the least delay from first on that is
\* away from the entries passed.
PassLeast(y, n, first, separation, class) ==
  /\ y \in Int /\ y >= first
  /\ \A i \in 1..n : Clear(y, i, separation, class)
  /\ \A x \in first..(y - 1) : \E i \in 1..n : ~ Clear(x, i, separation, class)

\* One turn: the queue is ascending, so a delay pushed beyond an entry is away
\* from all entries before it.
LEMMA TurnLeast ==
  ASSUME TypeOK, QueueOrdered, NEW n \in 1..Len(queue), NEW first \in Int, NEW separation \in Nat,
         NEW class, NEW y, PassLeast(y, n - 1, first, separation, class)
  PROVE  PassLeast(Turn(y, n, separation, class), n, first, separation, class)
<1> DEFINE z == Turn(y, n, separation, class)
<1>0. Len(queue) \in Nat /\ now \in Int
  BY LenProperties DEF TypeOK
<1>1. \A i \in 1..n : queue[i].ts \in Int /\ queue[i].ts <= queue[n].ts
  <2> TAKE i \in 1..n
  <2>1. i \in 1..Len(queue) /\ (i < n \/ i = n)
    BY <1>0
  <2>2. queue[i].ts \in Int /\ queue[n].ts \in Int
    BY <2>1, EntryType
  <2>3. CASE i = n
    BY <2>2, <2>3
  <2>4. CASE i < n
    <3>1. queue[i].ts < queue[n].ts \/ queue[i].ts = queue[n].ts
      BY <2>1, <2>4, Zenon DEF QueueOrdered
    <3> QED BY <3>1, <2>2
  <2> QED BY <2>1, <2>3, <2>4
<1>2. y \in Int /\ y >= first
  BY Zenon DEF PassLeast
<1>3. n \in 1..n /\ \A i \in 1..n : i \in 1..(n - 1) \/ i = n
  BY <1>0
<1>4. \A i \in 1..(n - 1) : i \in 1..n
  BY <1>0
<1>5. CASE queue[n].class = class /\ ~ Clear(y, n, separation, class)
  <2> DEFINE d == queue[n].ts - now
  <2>1. d \in Int
    BY <1>0, <1>1, <1>3
  <2>2. y - d < separation /\ d - y < separation
    BY <1>0, <1>1, <1>2, <1>3, <1>5 DEF Clear
  <2>3. z = d + separation
    <3> HIDE DEF d
    <3>1. SeparateFrom(y, d, separation) = d + separation
      BY <1>2, <2>1, <2>2 DEF SeparateFrom
    <3> QED BY <1>5, <3>1, Zenon DEF Turn, d
  <2> HIDE DEF z
  <2>4. z \in Int /\ z >= first
    <3> HIDE DEF d
    <3> QED BY <1>2, <2>1, <2>2, <2>3
  <2>5. \A i \in 1..n : Clear(z, i, separation, class)
    BY <1>0, <1>1, <1>3, <2>3 DEF Clear
  <2>6. ASSUME NEW x \in first..(z - 1)
        PROVE  \E i \in 1..n : ~ Clear(x, i, separation, class)
    <3>1. CASE x \in first..(y - 1)
      <4>1. \E i \in 1..(n - 1) : ~ Clear(x, i, separation, class)
        BY <3>1, Zenon DEF PassLeast
      <4> QED BY <1>4, <4>1, Zenon
    <3>2. CASE x >= y
      <4>1. x \in Int /\ x - d < separation /\ d - x < separation
        <5> HIDE DEF d
        <5> QED BY <1>2, <2>1, <2>2, <2>3, <2>4, <3>2
      <4>2. ~ Clear(x, n, separation, class)
        BY <1>0, <1>1, <1>3, <1>5, <4>1 DEF Clear
      <4> QED BY <1>3, <4>2, Zenon
    <3> QED BY <1>2, <2>4, <3>1, <3>2
  <2> QED BY <2>4, <2>5, <2>6, Zenon DEF PassLeast, z
<1>6. CASE Clear(y, n, separation, class)
  <2>1. z = y
    <3>1. CASE queue[n].class = class
      <4> DEFINE d == queue[n].ts - now
      <4>1. d \in Int /\ (y - d >= separation \/ d - y >= separation)
        BY <1>0, <1>1, <1>3, <1>6, <3>1 DEF Clear
      <4> HIDE DEF d
      <4>2. SeparateFrom(y, d, separation) = y
        BY <1>2, <4>1 DEF SeparateFrom
      <4> QED BY <3>1, <4>2, Zenon DEF Turn, d
    <3>2. CASE queue[n].class # class
      BY <3>2, Zenon DEF Turn
    <3> QED BY <3>1, <3>2, Zenon
  <2>2. \A i \in 1..n : Clear(y, i, separation, class)
    BY <1>3, <1>6, Zenon DEF PassLeast
  <2>3. \A x \in first..(y - 1) : \E i \in 1..n : ~ Clear(x, i, separation, class)
    BY <1>4, Zenon DEF PassLeast
  <2> HIDE DEF z
  <2>4. PassLeast(z, n, first, separation, class)
    BY <1>2, <2>1, <2>2, <2>3, Zenon DEF PassLeast
  <2> QED BY <2>4 DEF z
<1>7. Clear(y, n, separation, class) \/ queue[n].class = class
  BY Zenon DEF Clear
<1> QED BY <1>5, <1>6, <1>7, Zenon

\* After n turns the loop has found the least delay.
LEMMA PassFinds ==
  ASSUME TypeOK, QueueOrdered, NEW first \in Int, NEW separation \in Nat, NEW class,
         NEW f, IsPass(f, Len(queue), first, separation, class)
  PROVE  PassLeast(f[Len(queue)], Len(queue), first, separation, class)
<1> DEFINE L == Len(queue)
           Ok(n) == PassLeast(f[n], n, first, separation, class)
           Bad == {n \in Nat : n <= L /\ ~ Ok(n)}
<1>0. L \in Nat
  BY LenProperties DEF TypeOK
<1> HIDE DEF L
<1>f. \A i \in 0..L : f[i] = IF i = 0 THEN first
                   ELSE IF queue[i].class = class THEN SeparateFrom(f[i - 1], queue[i].ts - now, separation)
                   ELSE f[i - 1]
  BY Zenon DEF IsPass, L
<1>1. SUFFICES ASSUME Bad # {} PROVE FALSE
  <2>1. L \in Nat /\ L <= L
    BY <1>0
  <2> HIDE DEF Ok
  <2>2. Bad = {} => Ok(L)
    BY <2>1, Zenon
  <2> QED BY <2>2, Zenon DEF Ok, L
<1>2. PICK m \in Bad : \A k \in Bad : m <= k
  <2>1. Bad \in SUBSET Nat
    OBVIOUS
  <2> HIDE DEF Bad
  <2> QED BY <1>1, <2>1, LeastNat
<1> HIDE DEF Ok
<1>3. m \in Nat /\ m <= L /\ ~ Ok(m)
  BY <1>2, Zenon
<1>4. CASE m = 0
  <2>1. f[0] = first
    BY <1>0, <1>f
  <2>2. first >= first /\ ~ \E i \in 1..0 : TRUE
    OBVIOUS
  <2>3. \A x \in first..(first - 1) : FALSE
    OBVIOUS
  <2>4. PassLeast(first, 0, first, separation, class)
    BY <2>2, <2>3, Zenon DEF PassLeast
  <2> QED BY <1>3, <1>4, <2>1, <2>4, Zenon DEF Ok
<1>5. CASE m # 0
  <2>1. m - 1 \in Nat /\ m - 1 <= L /\ ~ (m <= m - 1) /\ m \in 1..L /\ m \in 0..L
    BY <1>0, <1>3, <1>5
  <2>2. Ok(m - 1)
    BY <1>2, <2>1
  <2>3. f[m] = Turn(f[m - 1], m, separation, class)
    BY <1>5, <1>f, <2>1, Zenon DEF Turn
  <2>4. PassLeast(f[m - 1], m - 1, first, separation, class)
    BY <2>2, Zenon DEF Ok
  <2>5. PassLeast(Turn(f[m - 1], m, separation, class), m, first, separation, class)
    BY <2>1, <2>4, TurnLeast, Zenon DEF L
  <2> QED BY <1>3, <2>3, <2>5, Zenon DEF Ok
<1> QED BY <1>4, <1>5

\* add_timeout_in_class settles on the least delay that keeps the separation from
\* the last dispatch of the class and from its pending entries.
LEMMA DelayLeast ==
  ASSUME TypeOK, QueueOrdered, NEW min_delay \in Nat, NEW separation \in Nat, NEW class \in AllClasses
  PROVE  LET delay == ClassDelay(min_delay, separation, class) IN
         /\ delay \in Int
         /\ Separated(delay, min_delay, separation, class)
         /\ \A x \in min_delay..(delay - 1) : ~ Separated(x, min_delay, separation, class)
<1> DEFINE delay == ClassDelay(min_delay, separation, class)
           diff  == now - last_class_dispatch[class]
           first == IF diff < separation /\ diff >= 0 /\ diff + min_delay < separation
                    THEN separation - diff ELSE min_delay
           L == Len(queue)
<1>1. diff \in Int
  BY DEF TypeOK
<1>2. /\ first \in Int /\ first >= min_delay
      /\ diff >= 0 => first + diff >= separation
      /\ \A x \in Int : x < first /\ x >= min_delay => diff >= 0 /\ x + diff < separation
  <2> HIDE DEF diff
  <2> QED BY <1>1
<1>3. L \in Nat
  BY LenProperties DEF TypeOK
<1>4. delay = (CHOOSE f : IsPass(f, L, first, separation, class))[L]
  BY Zenon DEF ClassDelay, IsPass
<1>5. \E f : IsPass(f, L, first, separation, class)
  <2> HIDE DEF first, L
  <2> QED BY <1>3, PassExists, Zenon
<1> DEFINE f == CHOOSE f : IsPass(f, L, first, separation, class)
<1>6. IsPass(f, L, first, separation, class)
  <2> HIDE DEF first, L
  <2> QED BY <1>5, Zenon
<1> HIDE DEF f
<1>7. PassLeast(f[L], L, first, separation, class)
  <2> HIDE DEF first
  <2> QED BY <1>2, <1>6, PassFinds, Zenon
<1>8. PassLeast(delay, L, first, separation, class)
  BY <1>4, <1>7, Zenon DEF f
<1> HIDE DEF delay, first, diff, L
<1>9. delay \in Int /\ delay >= first
  BY <1>8, Zenon DEF PassLeast
<1>10. Separated(delay, min_delay, separation, class)
  <2>1. delay >= min_delay /\ (diff >= 0 => delay + diff >= separation)
    BY <1>1, <1>2, <1>9
  <2>2. \A i \in 1..L : Clear(delay, i, separation, class)
    BY <1>8, Zenon DEF PassLeast
  <2> QED BY <2>1, <2>2, Zenon DEF Separated, Clear, diff, L
<1>11. ASSUME NEW x \in min_delay..(delay - 1)
       PROVE  ~ Separated(x, min_delay, separation, class)
  <2>1. x \in Int /\ x >= min_delay /\ (x < first \/ x \in first..(delay - 1))
    BY <1>2, <1>9
  <2>2. CASE x < first
    <3>1. diff >= 0 /\ ~ (x + diff >= separation)
      BY <1>1, <1>2, <2>1, <2>2
    <3> QED BY <3>1, Zenon DEF Separated, diff
  <2>3. CASE x \in first..(delay - 1)
    <3>1. \E i \in 1..L : ~ Clear(x, i, separation, class)
      BY <1>8, <2>3, Zenon DEF PassLeast
    <3> QED BY <3>1, Zenon DEF Separated, Clear, L
  <2> QED BY <2>1, <2>2, <2>3
<1> QED BY <1>9, <1>10, <1>11, Zenon DEF delay

-----------------------------------------------------------------------------
(* Timeouts of one class stay apart. *)

Apart(a, b) == a.ts - b.ts >= Separation \/ b.ts - a.ts >= Separation

\* Entries of one class are apart, in whichever order they stand.
AllApart(q) ==
  \A i, j \in 1..Len(q) :
    i # j /\ q[i].class = q[j].class /\ q[i].class # Reserved => Apart(q[i], q[j])

\* In a queue that is ascending by time, entries that are apart are so forwards.
LEMMA ApartForwards ==
  ASSUME IInv, AllApart(queue)
  PROVE  ClassSeparated
<1> SUFFICES ASSUME NEW i \in 1..Len(queue), NEW j \in 1..Len(queue), i < j,
                    queue[i].class = queue[j].class, queue[i].class # Reserved
             PROVE  queue[j].ts - queue[i].ts >= Separation
  BY Zenon DEF ClassSeparated
<1>0. Len(queue) \in Nat
  BY LenProperties DEF IInv, TypeOK
<1>1. i # j
  BY <1>0
<1>2. queue[i].ts \in Int /\ queue[j].ts \in Int
  BY EntryType, Zenon DEF IInv
<1>3. queue[i].ts - queue[j].ts >= Separation \/ queue[j].ts - queue[i].ts >= Separation
  BY <1>1, Zenon DEF AllApart, Apart
<1>4. queue[i].ts < queue[j].ts \/ queue[i].ts = queue[j].ts
  BY Zenon DEF IInv, QueueOrdered
<1> QED BY <1>2, <1>3, <1>4, ConstantsAssumption

\* A new entry that is apart from those of its class keeps the entries apart.
LEMMA InsertApart ==
  ASSUME TypeOK, AllApart(queue), NEW pos \in 1..(Len(queue) + 1), NEW e \in Entries,
         e.class # Reserved => \A i \in 1..Len(queue) : queue[i].class = e.class => Apart(e, queue[i])
  PROVE  AllApart(InsertAt(queue, pos, e))
<1> DEFINE q == InsertAt(queue, pos, e)
           old(k) == IF k < pos THEN k ELSE k - 1
<1>0. Len(queue) \in Nat
  BY LenProperties DEF TypeOK
<1>1. /\ Len(q) = Len(queue) + 1
      /\ \A k \in 1..(Len(queue) + 1) :
           q[k] = IF k < pos THEN queue[k] ELSE IF k = pos THEN e ELSE queue[k - 1]
  BY InsertAtElements DEF TypeOK
<1> HIDE DEF q
<1>2. /\ q[pos] = e
      /\ \A k \in 1..Len(q) : k # pos => old(k) \in 1..Len(queue) /\ q[k] = queue[old(k)]
  BY <1>0, <1>1
<1>3. \A k, m \in 1..Len(q) : k # m /\ k # pos /\ m # pos => old(k) # old(m)
  BY <1>0, <1>1
<1> HIDE DEF old
<1>4. \A a, b : Apart(a, b) => Apart(b, a)
  BY Zenon DEF Apart
<1>5. ASSUME NEW i \in 1..Len(q), NEW j \in 1..Len(q), i # j, q[i].class = q[j].class, q[i].class # Reserved
      PROVE  Apart(q[i], q[j])
  <2>1. CASE i = pos
    <3>1. old(j) \in 1..Len(queue) /\ q[j] = queue[old(j)] /\ q[i] = e
      BY <1>2, <1>5, <2>1, Zenon
    <3> QED BY <1>5, <3>1, Zenon
  <2>2. CASE j = pos
    <3>1. old(i) \in 1..Len(queue) /\ q[i] = queue[old(i)] /\ q[j] = e
      BY <1>2, <1>5, <2>2, Zenon
    <3>2. queue[old(i)].class = e.class /\ e.class # Reserved
      BY <1>5, <3>1, Zenon
    <3>3. Apart(e, queue[old(i)])
      BY <3>1, <3>2, Zenon
    <3> QED BY <1>4, <3>1, <3>3, Zenon
  <2>3. CASE i # pos /\ j # pos
    <3>1. /\ old(i) \in 1..Len(queue) /\ q[i] = queue[old(i)]
          /\ old(j) \in 1..Len(queue) /\ q[j] = queue[old(j)] /\ old(i) # old(j)
      BY <1>2, <1>3, <1>5, <2>3, Zenon
    <3> QED BY <1>5, <3>1, Zenon DEF AllApart
  <2> QED BY <2>1, <2>2, <2>3, Zenon
<1>6. AllApart(q)
  BY <1>5, Zenon DEF AllApart
<1> QED BY <1>6 DEF q

\* Taking an entry out keeps the others apart.
LEMMA RemoveApart ==
  ASSUME TypeOK, AllApart(queue), NEW p \in 1..Len(queue)
  PROVE  AllApart(RemoveAt(queue, p))
<1> DEFINE q == RemoveAt(queue, p)
           old(k) == IF k < p THEN k ELSE k + 1
<1>0. Len(queue) \in Nat
  BY LenProperties DEF TypeOK
<1>1. /\ Len(q) = Len(queue) - 1
      /\ \A k \in 1..(Len(queue) - 1) : q[k] = IF k < p THEN queue[k] ELSE queue[k + 1]
  BY RemoveAtElements, Zenon DEF TypeOK
<1> HIDE DEF q
<1>2. \A k \in 1..Len(q) : old(k) \in 1..Len(queue) /\ q[k] = queue[old(k)]
  BY <1>0, <1>1
<1>3. \A k, m \in 1..Len(q) : k # m => old(k) # old(m)
  BY <1>0, <1>1
<1> HIDE DEF old
<1>4. ASSUME NEW i \in 1..Len(q), NEW j \in 1..Len(q), i # j, q[i].class = q[j].class, q[i].class # Reserved
      PROVE  Apart(q[i], q[j])
  <2>1. /\ old(i) \in 1..Len(queue) /\ q[i] = queue[old(i)]
        /\ old(j) \in 1..Len(queue) /\ q[j] = queue[old(j)] /\ old(i) # old(j)
    BY <1>2, <1>3, <1>4, Zenon
  <2> QED BY <1>4, <2>1, Zenon DEF AllApart
<1>5. AllApart(q)
  BY <1>4, Zenon DEF AllApart
<1> QED BY <1>5 DEF q

\* A step of the clock keeps the entries apart and the ids.
LEMMA ShiftApart ==
  ASSUME TypeOK, AllApart(queue), NEW d \in Int, HandleStep(d)
  PROVE  AllApart(queue') /\ PendingIds' = PendingIds /\ Len(queue') = Len(queue)
<1>0. Len(queue) \in Nat
  BY LenProperties DEF TypeOK
<1>1. queue' = [i \in 1..Len(queue) |-> [queue[i] EXCEPT !.ts = @ - d]]
  BY Zenon DEF HandleStep
<1>2. \A i \in 1..Len(queue) :
        /\ queue[i].ts \in Int /\ queue'[i].ts = queue[i].ts - d
        /\ queue'[i].id = queue[i].id /\ queue'[i].class = queue[i].class
  <2> TAKE i \in 1..Len(queue)
  <2>1. queue[i] \in Entries /\ queue[i].ts \in Int
    BY EntryType
  <2>2. queue'[i] = [queue[i] EXCEPT !.ts = @ - d]
    BY <1>1
  <2> QED BY <2>1, <2>2 DEF Entries
<1>3. Len(queue') = Len(queue)
  BY <1>0, <1>1
<1>4. ASSUME NEW i \in 1..Len(queue), NEW j \in 1..Len(queue), i # j,
             queue'[i].class = queue'[j].class, queue'[i].class # Reserved
      PROVE  Apart(queue'[i], queue'[j])
  <2>1. Apart(queue[i], queue[j])
    BY <1>2, <1>4, Zenon DEF AllApart
  <2>2. /\ queue[i].ts \in Int /\ queue'[i].ts = queue[i].ts - d
        /\ queue[j].ts \in Int /\ queue'[j].ts = queue[j].ts - d
    BY <1>2, Zenon
  <2> QED BY <2>1, <2>2, ConstantsAssumption DEF Apart
<1>5. AllApart(queue')
  BY <1>3, <1>4, Zenon DEF AllApart
<1>6. PendingIds' = PendingIds
  BY <1>2, <1>3, Zenon DEF PendingIds
<1> QED BY <1>3, <1>5, <1>6

\* A delay that is separated puts the new timeout apart: the factor r only
\* stretches the separation.
LEMMA DelayApart ==
  ASSUME TypeOK, NEW c \in AllClasses, NEW r \in Nat \ {0}, NEW delay \in Int, NEW min_delay,
         Separated(delay, min_delay, Separation * r, c), NEW n,
         NEW i \in 1..Len(queue), queue[i].class = c
  PROVE  Apart([ts |-> now + delay, id |-> n, class |-> c], queue[i])
<1>1. queue[i].ts \in Int /\ now \in Int
  BY EntryType, Zenon DEF TypeOK
<1>2. delay - (queue[i].ts - now) >= Separation * r \/ (queue[i].ts - now) - delay >= Separation * r
  BY Zenon DEF Separated
<1>3. Separation * r \in Int /\ Separation * r >= Separation /\ Separation \in Int
  <2>1. \A s \in Nat, k \in Nat : s * (k + 1) = s * k + s /\ s * k \in Nat
    OBVIOUS
  <2>2. r - 1 \in Nat /\ (r - 1) + 1 = r
    OBVIOUS
  <2>3. Separation * r = Separation * (r - 1) + Separation /\ Separation * (r - 1) \in Nat
    BY <2>1, <2>2, ConstantsAssumption
  <2> QED BY <2>3, ConstantsAssumption
<1> DEFINE t == queue[i].ts
           s == Separation * r
<1>4. /\ t \in Int /\ now \in Int /\ s \in Int /\ s >= Separation /\ Separation \in Int
      /\ delay - (t - now) >= s \/ (t - now) - delay >= s
  BY <1>1, <1>2, <1>3, Zenon
<1> HIDE DEF t, s
<1>5. (now + delay) - t >= Separation \/ t - (now + delay) >= Separation
  BY <1>4
<1> QED BY <1>5, Zenon DEF Apart, t

-----------------------------------------------------------------------------
(* An id does not come back early. *)

\* The remainder by cases, for a number below two turns of the counter.
LEMMA ModTurn ==
  ASSUME NEW m \in Nat \ {0}, NEW x \in Nat, x < 2 * m
  PROVE  x % m = IF x < m THEN x ELSE x - m
<1>1. \E q \in Int, r \in 0..(m - 1) : x = m * q + r /\ x % m = r
  <2>1. x % m \in 0..(m - 1) /\ x \div m \in Int /\ x = m * (x \div m) + (x % m)
    OBVIOUS
  <2> QED BY <2>1, Zenon
<1>2. PICK q \in Int, r \in 0..(m - 1) : x = m * q + r /\ x % m = r
  BY <1>1
<1>3. q \in 0..1
  <2>1. CASE q < 0
    <3>1. m * q <= -m
      BY <2>1
    <3> QED BY <1>2, <3>1
  <2>2. CASE q > 1
    <3>1. m * q >= 2 * m
      BY <2>2
    <3> QED BY <1>2, <3>1
  <2> QED BY <2>1, <2>2
<1>4. CASE q = 0
  BY <1>2, <1>4
<1>5. CASE q = 1
  BY <1>2, <1>5
<1> QED BY <1>3, <1>4, <1>5

\* How far the counter is from x when the last id is next, and the ids it would
\* give out before m when those of P are pending.
Ahead(next, x) == IF x > next THEN x - next ELSE x - next + IdMod
Before(P, next, m) == {x \in Ids \ P : Ahead(next, x) < Ahead(next, m)}

\* Why an id does not come back early: the ids that are free before it and the
\* allocations since it was given out make up the window.
IdInv ==
  /\ Len(queue) <= MaxQueue
  /\ \A m \in Ids : /\ age[m] <= ReuseWindow
                    /\ Cardinality(Before(PendingIds, next_tqe_id, m)) + age[m] >= ReuseWindow

\* There are finitely many ids.
LEMMA IdsFinite ==
  /\ IsFiniteSet(Ids) /\ Cardinality(Ids) = IdMod - 1
  /\ \A P, next, m : /\ IsFiniteSet(Before(P, next, m))
                     /\ Cardinality(Before(P, next, m)) \in Nat
<1>1. IsFiniteSet(Ids) /\ Cardinality(Ids) = IdMod - 1
  <2>1. 1 \in Int /\ IdMod - 1 \in Int /\ ~ (1 > IdMod - 1) /\ (IdMod - 1) - 1 + 1 = IdMod - 1
    BY ConstantsAssumption
  <2> QED BY <2>1, FS_Interval, Zenon DEF Ids
<1>2. ASSUME NEW P, NEW next, NEW m
      PROVE  IsFiniteSet(Before(P, next, m)) /\ Cardinality(Before(P, next, m)) \in Nat
  <2>1. Before(P, next, m) \in SUBSET Ids
    BY Zenon DEF Before
  <2>2. IsFiniteSet(Before(P, next, m))
    BY <1>1, <2>1, FS_Subset, Zenon
  <2> QED BY <2>2, FS_CardinalityType, Zenon
<1> QED BY <1>1, <1>2, Zenon

\* get_new_tqe_id takes the first id that is not pending.
LEMMA NewIdFirst ==
  ASSUME next_tqe_id \in 0..(IdMod - 1), NEW n \in Ids, IsNewId(n), NEW x \in Ids \ PendingIds, x # n
  PROVE  Ahead(next_tqe_id, n) < Ahead(next_tqe_id, x)
<1> DEFINE l == next_tqe_id
           a == Ahead(l, x)
<1>1. IdMod \in Nat \ {0} /\ l \in Int /\ l >= 0 /\ l < IdMod /\ x \in Int /\ x >= 1 /\ x < IdMod
      /\ n \in Int /\ n >= 1 /\ n < IdMod
  BY ConstantsAssumption DEF Ids
<1>2. PICK k \in 1..IdMod : /\ n = (l + k) % IdMod
                            /\ \A j \in 1..(k - 1) : (l + j) % IdMod \in PendingIds \cup {0}
  BY Zenon DEF IsNewId
<1> HIDE DEF l
<1>3. a \in 1..IdMod /\ (l + a = x \/ l + a = x + IdMod)
  BY <1>1 DEF Ahead
<1> HIDE DEF a
<1>4. (l + a) % IdMod = x
  <2> DEFINE y == l + a
  <2>1. y \in Nat /\ y < 2 * IdMod
    BY <1>1, <1>3
  <2> HIDE DEF y
  <2>2. y % IdMod = IF y < IdMod THEN y ELSE y - IdMod
    BY <1>1, <2>1, ModTurn, Zenon
  <2> QED BY <1>1, <1>3, <2>2 DEF y
<1>5. /\ l + k < IdMod => n = l + k
      /\ l + k >= IdMod => n = l + k - IdMod
  <2> DEFINE y == l + k
  <2>1. y \in Nat /\ y < 2 * IdMod
    BY <1>1
  <2>2. n = y % IdMod
    BY <1>2
  <2> HIDE DEF y
  <2>3. y % IdMod = IF y < IdMod THEN y ELSE y - IdMod
    BY <1>1, <2>1, ModTurn, Zenon
  <2> QED BY <1>1, <2>1, <2>2, <2>3 DEF y
<1>6. Ahead(l, n) = k
  BY <1>1, <1>2, <1>5 DEF Ahead
<1>7. a # k
  BY <1>2, <1>4
<1>8. ~ (a < k)
  <2> SUFFICES ASSUME a < k PROVE FALSE
    OBVIOUS
  <2>1. a \in 1..(k - 1)
    BY <1>3
  <2>2. x \in PendingIds \cup {0}
    BY <1>2, <1>4, <2>1, Zenon
  <2> QED BY <1>1, <2>2
<1>9. k < a
  BY <1>3, <1>7, <1>8
<1> QED BY <1>6, <1>9, Zenon DEF a, l

\* An allocation takes at most the id it gives out from those before another.
LEMMA BeforeOther ==
  ASSUME next_tqe_id \in 0..(IdMod - 1), NEW n \in Ids, IsNewId(n), NEW m \in Ids, m # n
  PROVE  Cardinality(Before(PendingIds \cup {n}, n, m)) + 1 >= Cardinality(Before(PendingIds, next_tqe_id, m))
<1> DEFINE l == next_tqe_id
           A == Before(PendingIds, l, m)
           B == Before(PendingIds \cup {n}, n, m)
<1>1. ASSUME NEW x \in A \ {n} PROVE x \in B
  <2>1. x \in Ids \ PendingIds /\ x # n /\ Ahead(l, x) < Ahead(l, m) /\ x \in Ids \ (PendingIds \cup {n})
    BY <1>1, Zenon DEF Before
  <2>2. Ahead(l, n) < Ahead(l, x)
    BY <2>1, NewIdFirst, Zenon
  <2>3. /\ IdMod \in Nat /\ l \in 0..(IdMod - 1)
        /\ x \in 1..(IdMod - 1) /\ m \in 1..(IdMod - 1) /\ n \in 1..(IdMod - 1)
    BY <2>1, ConstantsAssumption DEF Ids
  <2> HIDE DEF l
  <2>4. Ahead(n, x) < Ahead(n, m)
    BY <2>1, <2>2, <2>3 DEF Ahead
  <2> QED BY <2>1, <2>4, Zenon DEF Before
<1>2. IsFiniteSet(A) /\ Cardinality(A) \in Nat /\ IsFiniteSet(B) /\ Cardinality(B) \in Nat
  BY IdsFinite, Zenon
<1> HIDE DEF A, B
<1>3. Cardinality(A \ {n}) = IF n \in A THEN Cardinality(A) - 1 ELSE Cardinality(A)
  BY <1>2, FS_RemoveElement, Zenon
<1>4. A \ {n} \in SUBSET B
  BY <1>1, Zenon
<1>5. Cardinality(A \ {n}) <= Cardinality(B)
  BY <1>2, <1>4, FS_Subset, Zenon
<1>6. Cardinality(B) + 1 >= Cardinality(A)
  BY <1>2, <1>3, <1>5
<1> QED BY <1>6 DEF A, B, l

\* All ids that are free come before the one just given out.
LEMMA BeforeItself ==
  ASSUME NEW n \in Ids, NEW P, IsFiniteSet(P), Cardinality(P) <= MaxQueue, n \in P
  PROVE  Cardinality(Before(P, n, n)) >= ReuseWindow
<1>1. ASSUME NEW x \in Ids \ P PROVE Ahead(n, x) < Ahead(n, n)
  <2>1. x # n
    OBVIOUS
  <2>2. IdMod \in Nat /\ x \in 1..(IdMod - 1) /\ n \in 1..(IdMod - 1)
    BY ConstantsAssumption DEF Ids
  <2> QED BY <2>1, <2>2 DEF Ahead
<1>2. Before(P, n, n) = Ids \ P
  BY <1>1, Zenon DEF Before
<1>3. IsFiniteSet(Ids) /\ Cardinality(Ids) = IdMod - 1
  BY IdsFinite, Zenon
<1>4. Cardinality(Ids \ P) = Cardinality(Ids) - Cardinality(Ids \cap P)
  BY <1>3, FS_Difference, Zenon
<1>5. Ids \cap P \in SUBSET P
  OBVIOUS
<1>6. Cardinality(Ids \cap P) <= Cardinality(P) /\ IsFiniteSet(Ids \cap P)
  BY <1>5, FS_Subset, Zenon
<1>7. Cardinality(P) \in Nat /\ Cardinality(Ids \cap P) \in Nat
  BY <1>6, FS_CardinalityType, Zenon
<1>8. Cardinality(Ids \ P) >= IdMod - 1 - MaxQueue
  BY <1>3, <1>4, <1>6, <1>7, ConstantsAssumption
<1> QED BY <1>2, <1>8, Zenon DEF ReuseWindow

\* Ids that are given up are free before any other.
LEMMA BeforeGrows ==
  ASSUME NEW P, NEW Q, Q \subseteq P, NEW next, NEW m
  PROVE  Cardinality(Before(P, next, m)) <= Cardinality(Before(Q, next, m))
<1>1. Before(P, next, m) \in SUBSET Before(Q, next, m)
  BY Zenon DEF Before
<1>2. IsFiniteSet(Before(Q, next, m))
  BY IdsFinite, Zenon
<1> QED BY <1>1, <1>2, FS_Subset, Zenon

\* A queue has no more ids than entries.
LEMMA IdsCounted ==
  ASSUME NEW q \in Seq(Entries), NEW P, P = {q[i].id : i \in 1..Len(q)}
  PROVE  IsFiniteSet(P) /\ Cardinality(P) <= Len(q)
<1>1. Len(q) \in Nat
  BY LenProperties
<1> DEFINE S == 1..Len(q)
           f == [i \in S |-> q[i].id]
<1>2. IsFiniteSet(S) /\ Cardinality(S) = Len(q)
  <2>1. 1 \in Int /\ Len(q) \in Int /\ (1 > Len(q) => Len(q) = 0) /\ Len(q) - 1 + 1 = Len(q)
    BY <1>1
  <2> QED BY <2>1, FS_Interval
<1>3. f \in Surjection(S, P)
  <2>1. \A i \in S : q[i].id \in P
    BY Zenon
  <2>2. f \in [S -> P]
    BY <2>1, Zenon
  <2>3. \A t \in P : \E s \in S : f[s] = t
    BY Zenon
  <2> HIDE DEF f, S
  <2> QED BY <2>2, <2>3, Zenon DEF Surjection
<1> HIDE DEF f, S
<1>4. IsFiniteSet(P) /\ Cardinality(P) <= Cardinality(S)
  BY <1>2, <1>3, FS_Surjection, Zenon
<1> QED BY <1>2, <1>4, Zenon

\* The queue after Vec::insert.
LEMMA InsertedQueue ==
  ASSUME TypeOK, NEW pos \in 1..(Len(queue) + 1), NEW e \in Entries
  PROVE  /\ InsertAt(queue, pos, e) \in Seq(Entries)
         /\ Len(InsertAt(queue, pos, e)) = Len(queue) + 1
         /\ \A m \in 1..(Len(queue) + 1) :
              InsertAt(queue, pos, e)[m] = IF m < pos THEN queue[m] ELSE IF m = pos THEN e ELSE queue[m - 1]
<1>1. queue \in Seq(Entries)
  BY Zenon DEF TypeOK
<1> HIDE DEF Entries
<1> QED BY <1>1, InsertAtElements, SMTT(30)

\* What adding a timeout does to the entries of a class and to the ids.
LEMMA InsertTimeout ==
  ASSUME IInv, AllApart(queue), IdInv, NEW ts, NEW c \in AllClasses, Insert(ts, c),
         c # Reserved =>
           \A n \in Ids, i \in 1..Len(queue) : queue[i].class = c =>
             Apart([ts |-> ts, id |-> n, class |-> c], queue[i])
  PROVE  AllApart(queue') /\ IdInv' /\ \A n \in PendingIds' \ PendingIds : age[n] = ReuseWindow
<1>0. TypeOK /\ Len(queue) \in Nat
  BY LenProperties DEF IInv, TypeOK
<1>1. ts \in Int /\ Len(queue) < MaxQueue
  BY ConstantsAssumption DEF Insert, Times
<1>2. PICK n \in Ids, pos \in 1..(Len(queue) + 1) :
        /\ IsNewId(n)
        /\ queue' = InsertAt(queue, pos, [ts |-> ts, id |-> n, class |-> c])
        /\ Allocate(n)
  BY Zenon DEF Insert
<1> DEFINE e == [ts |-> ts, id |-> n, class |-> c]
<1>3. e \in Entries /\ e.id = n /\ e.class = c /\ e.ts = ts
  BY <1>1, Zenon DEF Entries
<1>4. /\ queue' \in Seq(Entries) /\ Len(queue') = Len(queue) + 1
      /\ \A m \in 1..(Len(queue) + 1) :
           queue'[m] = IF m < pos THEN queue[m] ELSE IF m = pos THEN e ELSE queue[m - 1]
  <2>1. queue' = InsertAt(queue, pos, e) /\ queue \in Seq(Entries)
    BY <1>0, <1>2, Zenon DEF TypeOK
  <2> HIDE DEF e
  <2>2. /\ InsertAt(queue, pos, e) \in Seq(Entries)
        /\ Len(InsertAt(queue, pos, e)) = Len(queue) + 1
        /\ \A m \in 1..(Len(queue) + 1) :
             InsertAt(queue, pos, e)[m] = IF m < pos THEN queue[m] ELSE IF m = pos THEN e ELSE queue[m - 1]
    BY <1>0, <1>3, InsertedQueue, Zenon
  <2> QED BY <2>1, <2>2, Zenon
<1>5. AllApart(queue')
  <2>1. c # Reserved => \A i \in 1..Len(queue) : queue[i].class = c => Apart(e, queue[i])
    BY Zenon
  <2> HIDE DEF e
  <2>2. AllApart(InsertAt(queue, pos, e))
    BY <1>0, <1>3, <2>1, InsertApart, Zenon
  <2> QED BY <1>2, <2>2, Zenon DEF e
<1> HIDE DEF e
<1>6. PendingIds' = PendingIds \cup {n}
  <2>1. ASSUME NEW i \in 1..Len(queue') PROVE queue'[i].id \in PendingIds \cup {n}
    <3>1. i \in 1..(Len(queue) + 1) /\ (i = pos \/ i < pos \/ i > pos)
      BY <1>0, <1>4
    <3>2. CASE i = pos
      BY <1>3, <1>4, <3>1, <3>2
    <3>3. CASE i < pos
      <4>1. i \in 1..Len(queue) /\ queue'[i] = queue[i]
        BY <1>0, <1>4, <3>1, <3>3
      <4> QED BY <4>1, Zenon DEF PendingIds
    <3>4. CASE i > pos
      <4>1. i - 1 \in 1..Len(queue) /\ queue'[i] = queue[i - 1]
        BY <1>0, <1>4, <3>1, <3>4
      <4> QED BY <4>1, Zenon DEF PendingIds
    <3> QED BY <3>1, <3>2, <3>3, <3>4
  <2>2. n \in PendingIds'
    <3>1. pos \in 1..Len(queue') /\ queue'[pos] = e
      BY <1>0, <1>4
    <3> QED BY <1>3, <3>1, Zenon DEF PendingIds
  <2>3. ASSUME NEW i \in 1..Len(queue) PROVE queue[i].id \in PendingIds'
    <3> DEFINE j == IF i < pos THEN i ELSE i + 1
    <3>1. j \in 1..Len(queue') /\ queue'[j] = queue[i]
      BY <1>0, <1>4
    <3> HIDE DEF j
    <3> QED BY <3>1, Zenon DEF PendingIds
  <2> QED BY <2>1, <2>2, <2>3, Zenon DEF PendingIds
<1>7. next_tqe_id \in 0..(IdMod - 1) /\ age \in [Ids -> Nat] /\ n \notin PendingIds
  BY <1>0, <1>2, Zenon DEF TypeOK, IsNewId
<1>8. /\ next_tqe_id' = n
      /\ age' = [m \in Ids |-> IF m = n THEN 0 ELSE IF age[m] < ReuseWindow THEN age[m] + 1 ELSE age[m]]
  BY <1>2, Zenon DEF Allocate
<1>9. \A m \in Ids : /\ age[m] \in Nat /\ age[m] <= ReuseWindow /\ ReuseWindow \in Nat
                     /\ Cardinality(Before(PendingIds, next_tqe_id, m)) \in Nat
                     /\ Cardinality(Before(PendingIds, next_tqe_id, m)) + age[m] >= ReuseWindow
  <2>1. ReuseWindow \in Nat
    BY ConstantsAssumption DEF ReuseWindow
  <2> QED BY <1>7, <2>1, IdsFinite, Zenon DEF IdInv
<1>10. age[n] = ReuseWindow
  <2>1. ASSUME NEW x \in Before(PendingIds, next_tqe_id, n) PROVE FALSE
    <3>1. x \in Ids \ PendingIds /\ Ahead(next_tqe_id, x) < Ahead(next_tqe_id, n)
      BY Zenon DEF Before
    <3>2. Ahead(next_tqe_id, x) \in Int /\ Ahead(next_tqe_id, n) \in Int
      BY <1>7, <3>1, ConstantsAssumption DEF Ahead, Ids
    <3>3. x # n
      BY <3>1, <3>2
    <3>4. Ahead(next_tqe_id, n) < Ahead(next_tqe_id, x)
      BY <1>2, <1>7, <3>1, <3>3, NewIdFirst, Zenon
    <3> QED BY <3>1, <3>2, <3>4
  <2>2. Cardinality(Before(PendingIds, next_tqe_id, n)) = 0
    <3>1. Before(PendingIds, next_tqe_id, n) = {}
      BY <2>1, Zenon
    <3> QED BY <3>1, FS_EmptySet, Zenon
  <2> QED BY <1>9, <2>2
<1>11. ASSUME NEW m \in Ids
       PROVE  /\ age'[m] <= ReuseWindow
              /\ Cardinality(Before(PendingIds', next_tqe_id', m)) + age'[m] >= ReuseWindow
  <2>0. Cardinality(Before(PendingIds', next_tqe_id', m)) \in Nat
    BY IdsFinite, Zenon
  <2>1. CASE m = n
    <3>1. age'[m] = 0
      BY <1>8, <2>1, Zenon
    <3>2. PendingIds' = {queue'[i].id : i \in 1..Len(queue')}
      BY Zenon DEF PendingIds
    <3>3. IsFiniteSet(PendingIds') /\ Cardinality(PendingIds') <= Len(queue')
      BY <1>4, <3>2, IdsCounted, Zenon
    <3>4. Cardinality(PendingIds') \in Nat
      BY <3>3, FS_CardinalityType, Zenon
    <3>5. Cardinality(PendingIds') <= MaxQueue /\ n \in PendingIds'
      BY <1>0, <1>1, <1>4, <1>6, <3>3, <3>4, ConstantsAssumption
    <3>6. Cardinality(Before(PendingIds', n, n)) >= ReuseWindow
      BY <3>3, <3>5, BeforeItself, Zenon
    <3> QED BY <1>8, <1>9, <2>0, <2>1, <3>1, <3>6
  <2>2. CASE m # n
    <3>1. age'[m] = IF age[m] < ReuseWindow THEN age[m] + 1 ELSE age[m]
      BY <1>8, <2>2, Zenon
    <3>2. Cardinality(Before(PendingIds', next_tqe_id', m)) + 1 >= Cardinality(Before(PendingIds, next_tqe_id, m))
      BY <1>2, <1>6, <1>7, <1>8, <2>2, BeforeOther, Zenon
    <3> QED BY <1>9, <2>0, <3>1, <3>2
  <2> QED BY <2>1, <2>2
<1>12. Len(queue') <= MaxQueue
  BY <1>0, <1>1, <1>4, ConstantsAssumption
<1>13. IdInv'
  BY <1>11, <1>12, Zenon DEF IdInv
<1> QED BY <1>5, <1>6, <1>10, <1>13, Zenon

\* Giving up an id keeps the window of the others.
LEMMA IdsReleased ==
  ASSUME IdInv, PendingIds' \subseteq PendingIds, next_tqe_id' = next_tqe_id, age' = age, TypeOK,
         Len(queue') <= Len(queue), Len(queue') \in Nat
  PROVE  IdInv' /\ \A n \in PendingIds' \ PendingIds : age[n] = ReuseWindow
<1>0. Len(queue) \in Nat /\ age \in [Ids -> Nat] /\ MaxQueue \in Nat /\ ReuseWindow \in Nat
  BY LenProperties, ConstantsAssumption DEF TypeOK, ReuseWindow
<1>1. Len(queue') <= MaxQueue
  BY <1>0 DEF IdInv
<1>2. ASSUME NEW m \in Ids
      PROVE  /\ age'[m] <= ReuseWindow
             /\ Cardinality(Before(PendingIds', next_tqe_id', m)) + age'[m] >= ReuseWindow
  <2>1. /\ age[m] \in Nat /\ age[m] <= ReuseWindow
        /\ Cardinality(Before(PendingIds, next_tqe_id, m)) + age[m] >= ReuseWindow
    BY <1>0, Zenon DEF IdInv
  <2>2. Cardinality(Before(PendingIds, next_tqe_id, m)) <= Cardinality(Before(PendingIds', next_tqe_id, m))
    BY BeforeGrows, Zenon
  <2>3. /\ Cardinality(Before(PendingIds, next_tqe_id, m)) \in Nat
        /\ Cardinality(Before(PendingIds', next_tqe_id, m)) \in Nat
    BY IdsFinite, Zenon
  <2> QED BY <1>0, <2>1, <2>2, <2>3
<1>3. IdInv'
  BY <1>1, <1>2, Zenon DEF IdInv
<1> QED BY <1>3, Zenon

\* Both remove_timeout and dispatch_timeouts take one entry out.
LEMMA RemoveTimeoutKeeps ==
  ASSUME IInv, AllApart(queue), IdInv, NEW p \in 1..Len(queue), queue' = RemoveAt(queue, p),
         next_tqe_id' = next_tqe_id, age' = age
  PROVE  AllApart(queue') /\ IdInv' /\ \A n \in PendingIds' \ PendingIds : age[n] = ReuseWindow
<1>0. TypeOK /\ Len(queue) \in Nat
  BY LenProperties DEF IInv, TypeOK
<1>1. /\ Len(queue') = Len(queue) - 1
      /\ \A k \in 1..(Len(queue) - 1) : queue'[k] = IF k < p THEN queue[k] ELSE queue[k + 1]
  BY <1>0, RemoveAtElements, Zenon DEF TypeOK
<1>2. ASSUME NEW k \in 1..Len(queue') PROVE queue'[k].id \in PendingIds
  <2>1. /\ k \in 1..Len(queue) /\ k + 1 \in 1..Len(queue)
        /\ queue'[k] = queue[k] \/ queue'[k] = queue[k + 1]
    BY <1>0, <1>1
  <2> QED BY <2>1, Zenon DEF PendingIds
<1>3. PendingIds' \subseteq PendingIds
  BY <1>2, Zenon DEF PendingIds
<1>4. AllApart(queue')
  BY <1>0, RemoveApart, Zenon
<1>5. Len(queue') <= Len(queue) /\ Len(queue') \in Nat
  BY <1>0, <1>1
<1>6. IdInv' /\ \A n \in PendingIds' \ PendingIds : age[n] = ReuseWindow
  BY <1>0, <1>3, <1>5, IdsReleased, Zenon
<1> QED BY <1>4, <1>6, Zenon

\* The inductive invariant of TimeoutsSound.
TInv == IInv /\ AllApart(queue) /\ IdInv

\* A timeout of a class is added apart from the others of the class.
LEMMA ClassTimeoutKeeps ==
  ASSUME TInv, NEW delay \in 0..MaxDelay, NEW r \in 1..MaxScale, NEW c \in Classes, AddTimeoutInClass(delay, r, c)
  PROVE  AllApart(queue') /\ IdInv' /\ \A n \in PendingIds' \ PendingIds : age[n] = ReuseWindow
<1>0. TypeOK /\ QueueOrdered /\ c \in AllClasses
  BY Zenon DEF TInv, IInv, AllClasses
<1>1. delay * r \in Nat /\ Separation * r \in Nat /\ r \in Nat \ {0}
  <2>1. delay \in Nat /\ r \in Nat /\ r # 0 /\ Separation \in Nat
    BY ConstantsAssumption
  <2>2. \A a, b \in Nat : a * b \in Nat
    OBVIOUS
  <2> QED BY <2>1, <2>2, Zenon
<1> DEFINE d == ClassDelay(delay * r, Separation * r, c)
<1>2. d \in Int /\ Separated(d, delay * r, Separation * r, c)
  BY <1>0, <1>1, DelayLeast, Zenon
<1>3. Insert(now + d, c)
  BY Zenon DEF AddTimeoutInClass
<1> HIDE DEF d
<1>4. \A n \in Ids, i \in 1..Len(queue) : queue[i].class = c =>
        Apart([ts |-> now + d, id |-> n, class |-> c], queue[i])
  BY <1>0, <1>1, <1>2, DelayApart, Zenon
<1> QED BY <1>0, <1>3, <1>4, InsertTimeout, Zenon DEF TInv

\* Every step keeps the invariant, and gives out only ids whose window is over.
LEMMA TimeoutsStep ==
  ASSUME TInv, [Next]_vars
  PROVE  TInv' /\ [\A n \in PendingIds' \ PendingIds : age[n] = ReuseWindow]_vars
<1> DEFINE Fresh == \A n \in PendingIds' \ PendingIds : age[n] = ReuseWindow
<1>0. IInv' /\ TypeOK /\ Reserved \in AllClasses
  BY QueueStep, Zenon DEF TInv, IInv, AllClasses
<1> SUFFICES AllApart(queue') /\ IdInv' /\ Fresh
  BY <1>0, Zenon DEF TInv
<1>1. ASSUME queue' = queue, next_tqe_id' = next_tqe_id, age' = age
      PROVE  AllApart(queue') /\ IdInv' /\ Fresh
  <2>1. PendingIds' = PendingIds
    BY <1>1, Zenon DEF PendingIds
  <2>2. AllApart(queue')
    BY <1>1, Zenon DEF TInv
  <2>3. IdInv'
    BY <1>1, <2>1, Zenon DEF TInv, IdInv
  <2> QED BY <2>1, <2>2, <2>3, Zenon
<1>2. ASSUME NEW ts, AddTimeout(ts) PROVE AllApart(queue') /\ IdInv' /\ Fresh
  BY <1>0, <1>2, InsertTimeout, Zenon DEF AddTimeout, TInv
<1>3. CASE \E ts \in 0..MaxTime : AddTimeout(ts)
  BY <1>2, <1>3, Zenon
<1>4. CASE \E delay \in 0..MaxDelay : AddTimeoutByDelay(delay)
  BY <1>2, <1>4, Zenon DEF AddTimeoutByDelay
<1>5. CASE \E delay \in 0..MaxDelay, r \in 1..MaxScale, c \in Classes : AddTimeoutInClass(delay, r, c)
  BY <1>5, ClassTimeoutKeeps, Zenon
<1>6. CASE \E n \in 0..(IdMod - 1) : RemoveTimeout(n)
  <2>1. PICK n : RemoveTimeout(n)
    BY <1>6, Zenon
  <2>2. CASE UNCHANGED vars
    BY <1>1, <2>2, Zenon DEF vars
  <2>3. ASSUME NEW i \in 1..Len(queue), queue' = RemoveAt(queue, i), Release(n)
        PROVE  AllApart(queue') /\ IdInv' /\ Fresh
    BY <2>3, RemoveTimeoutKeeps, Zenon DEF Release, TInv
  <2> QED BY <2>1, <2>2, <2>3, Zenon DEF RemoveTimeout
<1>7. CASE DispatchHead
  <2>1. queue \in Seq(Entries) /\ queue # << >>
    BY <1>0, <1>7, Zenon DEF DispatchHead, TypeOK
  <2>2. 1 \in 1..Len(queue) /\ Tail(queue) = RemoveAt(queue, 1)
    BY <2>1, TailRemoves, Zenon
  <2>3. queue' = Tail(queue) /\ next_tqe_id' = next_tqe_id /\ age' = age
    BY <1>7, Zenon DEF DispatchHead, Release
  <2> QED BY <2>2, <2>3, RemoveTimeoutKeeps, Zenon DEF TInv
<1>8. CASE \E doffset \in {-1, 1} : HandleStep(doffset)
  <2>1. PICK doffset \in {-1, 1} : HandleStep(doffset)
    BY <1>8, Zenon
  <2>2. doffset \in Int
    OBVIOUS
  <2>3. AllApart(queue') /\ PendingIds' = PendingIds /\ Len(queue') = Len(queue)
    BY <1>0, <2>1, <2>2, ShiftApart, Zenon DEF TInv
  <2>4. next_tqe_id' = next_tqe_id /\ age' = age
    BY <2>1, Zenon DEF HandleStep
  <2>5. IdInv'
    BY <2>3, <2>4, Zenon DEF TInv, IdInv
  <2> QED BY <2>3, <2>5, Zenon
<1>9. CASE Tick
  BY <1>1, <1>9, Zenon DEF Tick
<1>10. CASE UNCHANGED vars
  BY <1>1, <1>10, Zenon DEF vars
<1> QED BY <1>3, <1>4, <1>5, <1>6, <1>7, <1>8, <1>9, <1>10, Zenon DEF Next, ClientCall

\* The invariant holds of a new scheduler.
LEMMA TimeoutsStart ==
  ASSUME Init
  PROVE  TInv
<1>1. IInv
  BY QueueStart, Zenon
<1>2. Len(queue) = 0
  BY DEF Init
<1>3. AllApart(queue)
  BY <1>2 DEF AllApart
<1>4. IdInv
  <2>1. ReuseWindow \in Nat /\ 0 <= MaxQueue
    BY ConstantsAssumption DEF ReuseWindow
  <2>2. \A m \in Ids : age[m] = ReuseWindow
    BY Zenon DEF Init
  <2>3. \A m \in Ids : Cardinality(Before(PendingIds, next_tqe_id, m)) \in Nat
    BY IdsFinite, Zenon
  <2>4. \A m \in Ids : /\ age[m] <= ReuseWindow
                       /\ Cardinality(Before(PendingIds, next_tqe_id, m)) + age[m] >= ReuseWindow
    BY <2>1, <2>2, <2>3
  <2> QED BY <1>2, <2>1, <2>4 DEF IdInv
<1> QED BY <1>1, <1>3, <1>4, Zenon DEF TInv

\* The delay of add_timeout_in_class is the least that is separated.
LEMMA LeastAlways ==
  ASSUME TInv
  PROVE  ClassDelayLeast
<1> SUFFICES ASSUME NEW d \in 0..MaxDelay, NEW r \in 1..MaxScale, NEW c \in Classes
             PROVE  LET delay == ClassDelay(d * r, Separation * r, c) IN
                    /\ Separated(delay, d * r, Separation * r, c)
                    /\ \A x \in (d * r)..(delay - 1) : ~ Separated(x, d * r, Separation * r, c)
  BY Zenon DEF ClassDelayLeast
<1>0. TypeOK /\ QueueOrdered /\ c \in AllClasses
  BY Zenon DEF TInv, IInv, AllClasses
<1>1. d * r \in Nat /\ Separation * r \in Nat
  <2>1. d \in Nat /\ r \in Nat /\ Separation \in Nat
    BY ConstantsAssumption
  <2>2. \A a, b \in Nat : a * b \in Nat
    OBVIOUS
  <2> QED BY <2>1, <2>2, Zenon
<1> QED BY <1>0, <1>1, DelayLeast, Zenon

\* What TimeoutsSound states, for every width of the ids, number of classes, length of the queue,
\* separation and delay: the single pass of add_timeout_in_class finds the least delay that keeps
\* the class apart, and an id comes back only after IdMod - 1 - MaxQueue others.
THEOREM TimeoutsTheorem == Spec => TimeoutsSound
<1> DEFINE Fresh == \A n \in PendingIds' \ PendingIds : age[n] = ReuseWindow
<1>1. Init => TInv
  BY TimeoutsStart
<1>2. TInv /\ [Next]_vars => TInv' /\ [Fresh]_vars
  BY TimeoutsStep
<1>3. TInv => TypeOK /\ IdsUnique /\ ClassSeparated /\ ClassDelayLeast
  BY ApartForwards, LeastAlways, Zenon DEF TInv, IInv
<1> QED BY <1>1, <1>2, <1>3, PTL DEF Spec, TimeoutsSound, IdNotReusedEarly

=============================================================================
