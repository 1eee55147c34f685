-------------------------- MODULE SelectionProofs --------------------------
(***************************************************************************)
(* Proofs about the registry of sources for every number of sources, every *)
(* table of options and every measurement: after any sequence of           *)
(* operations the statuses, the selected index, the distance penalties and *)
(* the reachability registers agree with one another, and the prefer and   *)
(* require options are respected.                                          *)
(* The argument follows select_source. A pass (PassSound) classifies the   *)
(* sources, marks those that are rejected, and either ends without a       *)
(* selected source (UnselectedSound) or elects one (ElectSound) and        *)
(* combines (ReferSound); what it returns is described by OutcomeSound,    *)
(* PreferOf and RequireOf. The operations then either hand a table to a    *)
(* pass (SelectKeeps) or change fields of sources without touching a       *)
(* status or a penalty (ModestKeeps).                                      *)
(***************************************************************************)
EXTENDS SourceRegistry, SequenceTheorems, WellFoundedInduction, TLAPS


-----------------------------------------------------------------------------
(* Sources in the middle of a pass, and the best of the candidates.        *)

\* A source in the middle of a pass: its score may be negative.
Mid == [ref_id : Nat \ {0}, type : {"ntp", "refclock"}, auth : BOOLEAN,
        conf : SUBSET AllOptions, options : SUBSET AllOptions,
        active : BOOLEAN, reach : 0..(2^ReachBits - 1), size : 0..ReachBits,
        updates : 0..MaxUpdates, distant : 0..DistantPenalty, bad : 0..MaxBad,
        status : Statuses \ {"Ok"}, score : Int,
        stratum : Nat, leap : AllLeaps, vote : BOOLEAN, latest : BOOLEAN]

Same(r, s) == /\ r.ref_id = s.ref_id /\ r.options = s.options /\ r.reach = s.reach
              /\ r.size = s.size /\ r.updates = s.updates /\ r.type = s.type

LEMMA SourceMid == ASSUME NEW s \in Source PROVE s \in Mid
<1>1. \A x \in Nat : x \in Int
  OBVIOUS
<1> QED BY <1>1, Zenon DEF Source, Mid

Votable(s, v, c, p) == s \in Mid /\ v \in BOOLEAN /\ c \in Int /\ p \in 0..DistantPenalty
Voted(r, s, c, p) == r \in Mid /\ (c \in Nat => r \in Source) /\ r.score = c /\ r.distant = p /\ Same(r, s)

LEMMA MidVote ==
  ASSUME NEW s, NEW v, NEW c, NEW p, Votable(s, v, c, p)
  PROVE  Voted([s EXCEPT !.vote = v, !.score = c, !.distant = p], s, c, p)
<1> DEFINE r == [s EXCEPT !.vote = v, !.score = c, !.distant = p]
<1>1. r \in Mid
  BY Zenon DEF Mid, Votable
<1>2. c \in Nat => r \in Source
  BY Zenon DEF Mid, Source, Votable
<1>3. r.score = c /\ r.distant = p /\ Same(r, s)
  BY Zenon DEF Mid, Same, Votable
<1> HIDE DEF r
<1>4. Voted(r, s, c, p)
  BY <1>1, <1>2, <1>3, Zenon DEF Voted
<1> QED BY <1>4, Zenon DEF r

LEMMA MidScore ==
  ASSUME NEW s \in Mid, NEW r, r = [s EXCEPT !.score = 0]
  PROVE  r \in Source /\ Same(r, s) /\ r.distant = s.distant
<1>1. 0 \in Nat
  OBVIOUS
<1> QED BY <1>1, Zenon DEF Mid, Source, Same

LEMMA MidRenewed ==
  ASSUME NEW s \in Mid, NEW r, r = [s EXCEPT !.score = 0, !.distant = 0]
  PROVE  r \in Source /\ Same(r, s) /\ r.distant = 0
<1>1. 0 \in Nat /\ 0 \in 0..DistantPenalty
  BY RegistryAssumption
<1> QED BY <1>1, Zenon DEF Mid, Source, Same

\* The fields that no pass changes.
Alike(r, s) == r.ref_id = s.ref_id /\ r.options = s.options /\ r.reach = s.reach /\ r.size = s.size /\ r.type = s.type

LEMMA SourceUsed ==
  ASSUME NEW s \in Source, NEW p \in 0..DistantPenalty
  PROVE  LET r == [[s EXCEPT !.updates = 0] EXCEPT !.distant = p]
         IN  r \in Source /\ r.distant = p /\ Alike(r, s)
<1> DEFINE q == [s EXCEPT !.updates = 0]
           r == [q EXCEPT !.distant = p]
<1>1. 0 \in 0..MaxUpdates
  BY RegistryAssumption
<1>2. q \in Source /\ Alike(q, s)
  BY <1>1, Zenon DEF Source, Alike
<1> HIDE DEF q
<1>3. r \in Source /\ r.distant = p /\ Alike(r, q)
  BY <1>2, Zenon DEF Source, Alike
<1> QED BY <1>2, <1>3, Zenon DEF q, Alike

LEMMA LeastNat ==
  ASSUME NEW S \in SUBSET Nat, S # {}
  PROVE  \E m \in S : \A k \in S : m <= k
<1>1. \E m \in S : \A k \in S : ~ (<<k, m>> \in OpToRel(<, Nat))
  BY NatLessThanWellFounded, WFMin
<1>2. \A k, m \in Nat : k < m => <<k, m>> \in OpToRel(<, Nat)
  BY Zenon DEF OpToRel
<1>3. \A k, m \in Nat : k < m \/ m <= k
  OBVIOUS
<1> QED BY <1>1, <1>2, <1>3, Zenon

LEMMA GreatestOne ==
  ASSUME NEW x \in Int
  PROVE  Greatest({x}) = IF x >= 0 THEN x ELSE 0
<1> DEFINE S == {x} \cup {0}
           g == IF x >= 0 THEN x ELSE 0
<1>1. g \in S /\ \A y \in S : y <= g
  OBVIOUS
<1>2. \A z \in S : (\A y \in S : y <= z) => z = g
  BY <1>1
<1> QED BY <1>1, <1>2, Zenon DEF Greatest

LEMMA MinPair ==
  ASSUME NEW a \in Int, NEW b \in Int
  PROVE  Min({a, b}) = IF a <= b THEN a ELSE b
<1>1. \A x \in {a, b} : (\A y \in {a, b} : x <= y) => x = IF a <= b THEN a ELSE b
  OBVIOUS
<1>2. \E x \in {a, b} : \A y \in {a, b} : x <= y
  OBVIOUS
<1> QED BY <1>1, <1>2 DEF Min

BestOf(i, S, score) == \A j \in S : score[j] < score[i] \/ (score[j] = score[i] /\ i <= j)
Upto(cands, k) == {i \in cands : i <= k}
Bestless(cands, score) ==
  {k \in Nat : Upto(cands, k) # {} /\ ~ \E i \in Upto(cands, k) : BestOf(i, Upto(cands, k), score)}

\* MaxScoreIndex finds a source: of the indices up to k that are candidates one
\* has the greatest score first, for every k.
LEMMA BestCandidate ==
  ASSUME NEW n \in Nat, NEW cands \in SUBSET (1..n), cands # {}, NEW score \in [1..n -> Int]
  PROVE  MaxScoreIndex(cands, score) \in cands
<1> DEFINE Bad == Bestless(cands, score)
<1> HIDE DEF Bad
<1>1. \A i \in cands : i \in Int /\ i >= 1 /\ i <= n /\ score[i] \in Int
  OBVIOUS
<1>0. \A k \in Nat : k \in Bad <=> Upto(cands, k) # {} /\ ~ \E i \in Upto(cands, k) : BestOf(i, Upto(cands, k), score)
  BY Zenon DEF Bad, Bestless
<1>2. Bad = {}
  <2>0. Bad \subseteq Nat
    BY DEF Bad, Bestless
  <2> SUFFICES ASSUME Bad # {} PROVE FALSE
    OBVIOUS
  <2>1. PICK m \in Bad : \A k \in Bad : m <= k
    BY <2>0, LeastNat
  <2>2. m \in Nat /\ m # 0 /\ Upto(cands, m) # {} /\ ~ \E i \in Upto(cands, m) : BestOf(i, Upto(cands, m), score)
    <3>1. m \in Nat
      BY <2>0, <2>1
    <3>2. Upto(cands, m) # {} /\ ~ \E i \in Upto(cands, m) : BestOf(i, Upto(cands, m), score)
      BY <1>0, <2>1, <3>1, Zenon
    <3>3. Upto(cands, 0) = {}
      <4>1. \A i \in cands : ~ (i <= 0)
        BY <1>1
      <4> QED BY <4>1, Zenon DEF Upto
    <3> QED BY <3>1, <3>2, <3>3, Zenon
  <2>3. m - 1 \in Nat /\ m - 1 \notin Bad
    <3>1. m - 1 \in Nat /\ ~ (m <= m - 1)
      BY <2>2
    <3> QED BY <2>1, <3>1
  <2>4. Upto(cands, m) = Upto(cands, m - 1) \cup (cands \cap {m})
    <3>1. \A i \in cands : i <= m <=> i <= m - 1 \/ i = m
      BY <1>1, <2>2
    <3> QED BY <3>1, Zenon DEF Upto
  <2>5. CASE Upto(cands, m - 1) = {}
    <3>1. Upto(cands, m) = {m} /\ m \in cands
      BY <2>2, <2>4, <2>5
    <3>2. score[m] = score[m] /\ m <= m
      BY <2>2
    <3>3. BestOf(m, {m}, score)
      BY <3>2 DEF BestOf
    <3>4. BestOf(m, Upto(cands, m), score) /\ m \in Upto(cands, m)
      BY <3>1, <3>3, Zenon
    <3> QED BY <2>2, <3>4, Zenon
  <2>6. CASE Upto(cands, m - 1) # {}
    <3>1. PICK i \in Upto(cands, m - 1) : BestOf(i, Upto(cands, m - 1), score)
      BY <1>0, <2>3, <2>6, Zenon
    <3>2. i \in cands /\ i <= m - 1 /\ i \in Upto(cands, m)
      BY <2>4, Zenon DEF Upto
    <3>3. CASE m \notin cands
      BY <2>2, <2>4, <3>1, <3>3, Zenon
    <3>4. CASE m \in cands /\ score[m] <= score[i]
      <4>1. score[m] < score[i] \/ (score[m] = score[i] /\ i <= m)
        BY <1>1, <2>2, <3>2, <3>4
      <4>2. BestOf(i, Upto(cands, m), score)
        BY <2>4, <3>1, <4>1, Zenon DEF BestOf
      <4> QED BY <2>2, <3>2, <4>2
    <3>5. CASE m \in cands /\ score[i] < score[m]
      <4>0. \A j \in Upto(cands, m - 1) : j \in cands /\ (score[j] < score[i] \/ score[j] = score[i])
        BY <3>1, Zenon DEF BestOf, Upto
      <4>1. \A j \in Upto(cands, m - 1) : score[j] < score[m]
        BY <1>1, <3>2, <3>5, <4>0
      <4>2. score[m] = score[m] /\ m <= m
        BY <1>1, <2>2
      <4>3. BestOf(m, Upto(cands, m), score) /\ m \in Upto(cands, m)
        BY <2>4, <3>5, <4>1, <4>2, Zenon DEF BestOf
      <4> QED BY <2>2, <4>3
    <3>6. m \in cands => score[m] <= score[i] \/ score[i] < score[m]
      BY <1>1, <3>2
    <3> QED BY <3>3, <3>4, <3>5, <3>6, Zenon
  <2> QED BY <2>5, <2>6
<1>3. Upto(cands, n) = cands
  BY <1>1, Zenon DEF Upto
<1>4. n \notin Bad
  BY <1>2
<1>5. \E i \in cands : BestOf(i, cands, score)
  BY <1>0, <1>3, <1>4, Zenon
<1> QED BY <1>5, Zenon DEF MaxScoreIndex, BestOf

-----------------------------------------------------------------------------
(* A selection pass. *)

\* The statuses that say that a source does not take part.
Settled == Statuses \ {"Ok", "Selected", "Unselected", "Distant"}
Combinable == {"Selected", "Unselected", "Distant"}

\* What a pass over srcs leaves.
OutcomeSound(o, n, srcs) ==
  /\ o.srcs \in [1..n -> Source] /\ o.st \in [1..n -> Statuses \ {"Ok"}]
  /\ o.sel \in 0..n /\ o.level \in Nat
  /\ o.ref \in {"none", "unsync", "set"} /\ o.leap \in AllLeaps
  /\ o.ref = "set" => o.sel # 0
  /\ \A i \in 1..n : /\ Alike(o.srcs[i], srcs[i])
                     /\ o.st[i] = "Selected" => i = o.sel
                     /\ o.st[i] = "Unselected" => o.srcs[i].distant = 0
                     /\ o.st[i] = "Distant" => o.srcs[i].distant > 0
  /\ o.sel # 0 => o.st[o.sel] = "Selected" /\ o.srcs[o.sel].distant = 0

\* A pass that ends without a selected source.
LEMMA UnselectedSound ==
  ASSUME NEW n \in Nat, NEW srcs0, NEW srcs \in [1..n -> Source], NEW st \in [1..n -> Settled],
         NEW ref \in {"none", "unsync"}, \A i \in 1..n : Alike(srcs[i], srcs0[i]),
         NEW o, o = Unselected(srcs, st, ref)
  PROVE  OutcomeSound(o, n, srcs0) /\ o.sel = 0 /\ o.ref # "set"
<1>1. o.srcs = srcs /\ o.st = st /\ o.sel = 0 /\ o.level = 0 /\ o.ref = ref /\ o.leap = "normal"
  BY Zenon DEF Unselected
<1>2. st \in [1..n -> Statuses \ {"Ok"}] /\ \A i \in 1..n : st[i] \notin Combinable
  BY DEF Settled, Combinable
<1>3. 0 \in 0..n /\ 0 \in Nat /\ ref # "set" /\ ref \in {"none", "unsync", "set"} /\ "normal" \in AllLeaps
  BY DEF AllLeaps
<1> QED BY <1>1, <1>2, <1>3, Zenon DEF OutcomeSound, Combinable

LEMMA CombinedDistantRange ==
  ASSUME NEW n \in Nat, NEW srcs \in [1..n -> Source], NEW cands, NEW sel \in 1..n,
         NEW d, srcs[sel].distant = 0
  PROVE  LET dist == CombinedDistant(srcs, cands, sel, d)
         IN  dist \in [1..n -> 0..DistantPenalty] /\ dist[sel] = 0
<1> DEFINE far(i) == i # sel /\ (d[i].far \/ d[i].level - d[sel].level >= CombineLimit)
           val(i) == IF i \notin cands \/ cands = {sel} THEN srcs[i].distant
                     ELSE IF far(i) THEN (IF srcs[i].size >= ReachBits THEN DistantPenalty ELSE 1)
                     ELSE Greatest({srcs[i].distant - 1})
           dist == CombinedDistant(srcs, cands, sel, d)
<1>1. dist = [i \in 1..n |-> val(i)]
  BY DEF CombinedDistant
<1>2. \A i \in 1..n : srcs[i].distant \in 0..DistantPenalty
  BY DEF Source
<1>3. DistantPenalty \in Nat /\ DistantPenalty \in 0..DistantPenalty /\ 1 \in 0..DistantPenalty
  BY RegistryAssumption
<1>4. \A i \in 1..n : /\ Greatest({srcs[i].distant - 1}) \in 0..DistantPenalty
                      /\ srcs[i].distant = 0 => Greatest({srcs[i].distant - 1}) = 0
  <2> SUFFICES ASSUME NEW i \in 1..n
               PROVE  /\ Greatest({srcs[i].distant - 1}) \in 0..DistantPenalty
                      /\ srcs[i].distant = 0 => Greatest({srcs[i].distant - 1}) = 0
    OBVIOUS
  <2>1. srcs[i].distant \in Int /\ srcs[i].distant - 1 \in Int
    BY <1>2
  <2>2. Greatest({srcs[i].distant - 1}) = IF srcs[i].distant - 1 >= 0 THEN srcs[i].distant - 1 ELSE 0
    BY <2>1, GreatestOne
  <2> QED BY <1>2, <1>3, <2>1, <2>2
<1> HIDE DEF dist, far
<1>5. \A i \in 1..n : val(i) \in 0..DistantPenalty
  BY <1>2, <1>3, <1>4, Zenon
<1>6. ~ far(sel)
  BY DEF far
<1>7. val(sel) = 0
  BY <1>4, <1>6, Zenon
<1> HIDE DEF val
<1> QED BY <1>1, <1>5, <1>7 DEF dist

\* The marks of Refer.
MarkedBy(srcs, st, cands, sel, dist) ==
  [i \in DOMAIN st |->
     IF i \notin cands THEN st[i]
     ELSE IF i = sel /\ (srcs[sel].updates = 0 \/ dist[i] = 0 \/ cands = {sel}) THEN "Selected"
     ELSE IF dist[i] # 0 THEN "Distant" ELSE "Unselected"]

\* What Refer is called with, and what it returns.
Referable(n, srcs, st, cands, sel, d) ==
  /\ n \in Nat /\ srcs \in [1..n -> Source] /\ st \in [1..n -> Statuses]
  /\ cands \in SUBSET (1..n) /\ sel \in cands /\ d \in [1..n -> Data]
  /\ srcs[sel].distant = 0 /\ \A i \in (1..n) \ cands : st[i] \in Settled

Referred(o, n, srcs, st, cands, sel) ==
  /\ OutcomeSound(o, n, srcs) /\ o.sel = sel
  /\ \A i \in cands : o.st[i] \in Combinable
  /\ \A i \in (1..n) \ cands : o.st[i] = st[i]

LEMMA ReferSound ==
  ASSUME NEW n, NEW srcs, NEW st, NEW cands, NEW sel, NEW d, Referable(n, srcs, st, cands, sel, d)
  PROVE  Referred(Refer(srcs, st, cands, sel, d), n, srcs, st, cands, sel)
<1>0. /\ n \in Nat /\ srcs \in [1..n -> Source] /\ st \in [1..n -> Statuses]
      /\ cands \in SUBSET (1..n) /\ sel \in cands /\ d \in [1..n -> Data]
      /\ srcs[sel].distant = 0 /\ \A i \in (1..n) \ cands : st[i] \in Settled
  BY Zenon DEF Referable
<1> SUFFICES ASSUME NEW o, o = Refer(srcs, st, cands, sel, d)
             PROVE  Referred(o, n, srcs, st, cands, sel)
  OBVIOUS
<1> USE <1>0
<1> DEFINE marked(dist) == MarkedBy(srcs, st, cands, sel, dist)
<1>1. d[sel].level \in Nat
  BY RegistryAssumption
<1>2. sel \in 1..n /\ sel \in 0..n /\ sel # 0
  OBVIOUS
<1>3. ASSUME NEW dist \in [1..n -> 0..DistantPenalty], dist[sel] = 0
      PROVE  /\ marked(dist) \in [1..n -> Statuses \ {"Ok"}] /\ marked(dist)[sel] = "Selected"
             /\ \A i \in 1..n : /\ marked(dist)[i] = "Selected" => i = sel
                                /\ marked(dist)[i] = "Unselected" => dist[i] = 0
                                /\ marked(dist)[i] = "Distant" => dist[i] # 0
             /\ \A i \in cands : marked(dist)[i] \in Combinable
             /\ \A i \in (1..n) \ cands : marked(dist)[i] = st[i]
  <2> DEFINE m == marked(dist)
  <2>1. \A i \in 1..n : m[i] = IF i \notin cands THEN st[i]
                               ELSE IF i = sel THEN "Selected"
                               ELSE IF dist[i] # 0 THEN "Distant" ELSE "Unselected"
    BY <1>3, Zenon DEF MarkedBy
  <2>2. m = [i \in 1..n |-> m[i]]
    BY Zenon DEF MarkedBy
  <2> HIDE DEF m
  <2>3. \A i \in 1..n : i \notin cands => st[i] \in Statuses \ {"Ok"} /\ st[i] \notin Combinable
    BY DEF Settled, Combinable
  <2>4. Combinable \subseteq Statuses \ {"Ok"}
    BY DEF Combinable, Statuses
  <2>5. \A i \in 1..n : m[i] \in Statuses \ {"Ok"}
    BY <2>1, <2>3, <2>4 DEF Combinable
  <2>6. m \in [1..n -> Statuses \ {"Ok"}]
    BY <2>2, <2>5, Zenon
  <2> QED BY <1>2, <2>1, <2>3, <2>6 DEF m, Combinable
<1>4. CASE srcs[sel].updates = 0
  <2> DEFINE dist == [i \in 1..n |-> srcs[i].distant]
  <2>1. dist \in [1..n -> 0..DistantPenalty] /\ dist[sel] = 0 /\ \A i \in 1..n : dist[i] = srcs[i].distant
    BY <1>2 DEF Source
  <2>2. /\ o.srcs = srcs /\ o.st = marked(dist) /\ o.sel = sel /\ o.level = d[sel].level
        /\ o.ref = "none" /\ o.leap = "normal"
    BY <1>4, Zenon DEF Refer, Outcome, MarkedBy
  <2> HIDE DEF dist, marked
  <2>3. \A i \in 1..n : Alike(srcs[i], srcs[i]) /\ (srcs[i].distant # 0 => srcs[i].distant > 0)
    <3>1. \A i \in 1..n : srcs[i].distant \in 0..DistantPenalty
      BY DEF Source
    <3>2. \A i \in 1..n : srcs[i].distant # 0 => srcs[i].distant > 0
      BY <3>1
    <3> QED BY <3>2, Zenon DEF Alike
  <2>4. "normal" \in AllLeaps /\ "none" \in {"none", "unsync", "set"} /\ "none" # "set"
    BY DEF AllLeaps
  <2>5. /\ o.st \in [1..n -> Statuses \ {"Ok"}] /\ o.st[sel] = "Selected"
        /\ \A i \in 1..n : /\ o.st[i] = "Selected" => i = sel
                           /\ o.st[i] = "Unselected" => dist[i] = 0
                           /\ o.st[i] = "Distant" => dist[i] # 0
        /\ \A i \in cands : o.st[i] \in Combinable
        /\ \A i \in (1..n) \ cands : o.st[i] = st[i]
    <3>1. /\ marked(dist) \in [1..n -> Statuses \ {"Ok"}] /\ marked(dist)[sel] = "Selected"
          /\ \A i \in 1..n : /\ marked(dist)[i] = "Selected" => i = sel
                             /\ marked(dist)[i] = "Unselected" => dist[i] = 0
                             /\ marked(dist)[i] = "Distant" => dist[i] # 0
          /\ \A i \in cands : marked(dist)[i] \in Combinable
          /\ \A i \in (1..n) \ cands : marked(dist)[i] = st[i]
      BY <1>3, <2>1, Zenon
    <3> QED BY <2>2, <3>1
  <2>6. OutcomeSound(o, n, srcs)
    BY <1>1, <1>2, <2>1, <2>2, <2>3, <2>4, <2>5, ZenonT(60) DEF OutcomeSound
  <2> QED BY <2>2, <2>5, <2>6, Zenon DEF Referred
<1>5. CASE srcs[sel].updates # 0
  <2> DEFINE dist == CombinedDistant(srcs, cands, sel, d)
             used == [i \in DOMAIN srcs |-> [srcs[i] EXCEPT !.updates = 0]]
             new == [i \in DOMAIN srcs |-> [used[i] EXCEPT !.distant = dist[i]]]
  <2>1. dist \in [1..n -> 0..DistantPenalty] /\ dist[sel] = 0
    BY <1>2, CombinedDistantRange
  <2>2. /\ o.srcs = new /\ o.st = marked(dist) /\ o.sel = sel /\ o.level = d[sel].level
        /\ o.ref = "set" /\ o.leap = LeapStatus(srcs)
    BY <1>5, Zenon DEF Refer, Outcome, MarkedBy
  <2> HIDE DEF dist, marked
  <2>3. \A i \in 1..n : new[i] = [[srcs[i] EXCEPT !.updates = 0] EXCEPT !.distant = dist[i]]
    BY Zenon
  <2>4. \A i \in 1..n : new[i] \in Source /\ new[i].distant = dist[i] /\ Alike(new[i], srcs[i])
    <3> SUFFICES ASSUME NEW i \in 1..n
                 PROVE  new[i] \in Source /\ new[i].distant = dist[i] /\ Alike(new[i], srcs[i])
      BY Zenon
    <3>1. srcs[i] \in Source /\ dist[i] \in 0..DistantPenalty
      BY <2>1, SMTT(30)
    <3> HIDE DEF new
    <3> DEFINE r == [[srcs[i] EXCEPT !.updates = 0] EXCEPT !.distant = dist[i]]
    <3>2. r \in Source /\ r.distant = dist[i] /\ Alike(r, srcs[i])
      BY <3>1, SourceUsed, Zenon
    <3>3. new[i] = r
      BY <2>3, Zenon
    <3> QED BY <3>2, <3>3, ZenonT(60)
  <2>5. new \in [1..n -> Source]
    BY <2>4, Zenon
  <2> HIDE DEF new
  <2>6. LeapStatus(srcs) \in AllLeaps /\ \A i \in 1..n : dist[i] # 0 => dist[i] > 0
    BY <2>1 DEF LeapStatus, AllLeaps
  <2>7. /\ o.st \in [1..n -> Statuses \ {"Ok"}] /\ o.st[sel] = "Selected"
        /\ \A i \in 1..n : /\ o.st[i] = "Selected" => i = sel
                           /\ o.st[i] = "Unselected" => dist[i] = 0
                           /\ o.st[i] = "Distant" => dist[i] # 0
        /\ \A i \in cands : o.st[i] \in Combinable
        /\ \A i \in (1..n) \ cands : o.st[i] = st[i]
    BY <1>3, <2>1, <2>2, ZenonT(60)
  <2>8. OutcomeSound(o, n, srcs)
    BY <1>1, <1>2, <2>1, <2>2, <2>4, <2>5, <2>6, <2>7, Zenon DEF OutcomeSound
  <2> QED BY <2>2, <2>7, <2>8, Zenon DEF Referred
<1> QED BY <1>4, <1>5

\* The options a pass that selects respects.
PreferOf(o, n) ==
  o.sel # 0 => \A i \in 1..n :
    "prefer" \in o.srcs[i].options /\ o.st[i] \in {"Unselected", "Distant"}
      => "prefer" \in o.srcs[o.sel].options

LEMMA ScoreRange ==
  ASSUME NEW n \in Nat, NEW srcs \in [1..n -> Source], NEW cands, NEW sel, NEW level \in Nat, NEW upd,
         NEW d \in [1..n -> Data]
  PROVE  LET score == Rescore(srcs, cands, sel, level, upd, d)
         IN  score \in [1..n -> Int] /\ (sel # 0 => score \in [1..n -> Nat])
<1> DEFINE val(i) == IF i \notin cands THEN 0
                     ELSE IF sel = 0 THEN - d[i].level
                     ELSE IF upd \in {i, sel} THEN Greatest({srcs[i].score + level - d[i].level})
                     ELSE srcs[i].score
<1>1. \A i \in 1..n : srcs[i].score \in Nat
  BY DEF Source
<1>2. \A i \in 1..n : d[i].level \in Nat
  BY RegistryAssumption
<1>3. \A i \in 1..n : Greatest({srcs[i].score + level - d[i].level}) \in Nat
  <2> SUFFICES ASSUME NEW i \in 1..n
               PROVE  Greatest({srcs[i].score + level - d[i].level}) \in Nat
    OBVIOUS
  <2> DEFINE x == srcs[i].score + level - d[i].level
  <2>1. x \in Int
    BY <1>1, <1>2
  <2> HIDE DEF x
  <2>2. Greatest({x}) \in Nat
    BY <2>1, GreatestOne
  <2> QED BY <2>2 DEF x
<1>4. \A i \in 1..n : val(i) \in Int /\ (sel # 0 => val(i) \in Nat)
  BY <1>1, <1>2, <1>3
<1>5. Rescore(srcs, cands, sel, level, upd, d) = [i \in 1..n |-> val(i)]
  BY DEF Rescore
<1> HIDE DEF val
<1> QED BY <1>4, <1>5

\* Of an outcome for the table mid, with the selected source among the
\* candidates: it is one for srcs, too, and respects the prefer option.
Electable(n, srcs, mid, adm, cands, st1) ==
  /\ \A i \in 1..n : Same(mid[i], srcs[i])
  /\ adm \in SUBSET (1..n) /\ cands \in SUBSET adm
  /\ \/ \A i \in cands : "prefer" \in srcs[i].options
     \/ \A i \in cands : "prefer" \notin srcs[i].options
  /\ \A i \in (1..n) \ cands : st1[i] \in Settled
  /\ \A i \in adm \ cands : st1[i] = "Nonpreferred"

Elected(o, n, srcs, adm) ==
  /\ OutcomeSound(o, n, srcs) /\ PreferOf(o, n)
  /\ o.ref = "set" => \A i \in adm : o.st[i] \in Combinable \cup {"Nonpreferred"}

LEMMA ElectEnds ==
  ASSUME NEW n, NEW srcs, NEW mid, NEW o, NEW adm, NEW cands, NEW sel, NEW st1, n \in Nat, sel \in cands,
         Electable(n, srcs, mid, adm, cands, st1), Referred(o, n, mid, st1, cands, sel)
  PROVE  Elected(o, n, srcs, adm)
<1>0. /\ OutcomeSound(o, n, mid) /\ o.sel \in cands /\ \A i \in 1..n : Same(mid[i], srcs[i])
      /\ adm \in SUBSET (1..n) /\ cands \in SUBSET adm
      /\ \/ \A i \in cands : "prefer" \in srcs[i].options
         \/ \A i \in cands : "prefer" \notin srcs[i].options
      /\ \A i \in (1..n) \ cands : st1[i] \in Settled
      /\ \A i \in adm \ cands : st1[i] = "Nonpreferred"
      /\ \A i \in cands : o.st[i] \in Combinable
      /\ \A i \in (1..n) \ cands : o.st[i] = st1[i]
  BY Zenon DEF Electable, Referred
<1> USE <1>0
<1>1. \A i \in 1..n : Alike(o.srcs[i], mid[i])
  BY Zenon DEF OutcomeSound
<1>2. \A i \in 1..n : Alike(o.srcs[i], srcs[i])
  BY <1>1, ZenonT(60) DEF Alike, Same
<1>3. OutcomeSound(o, n, srcs)
  BY <1>2, Zenon DEF OutcomeSound
<1>4. \A i \in 1..n : o.srcs[i].options = srcs[i].options
  BY <1>2, Zenon DEF Alike
<1>5. \A i \in 1..n : o.st[i] \in {"Unselected", "Distant"} => i \in cands
  BY DEF Settled
<1>6. PreferOf(o, n)
  BY <1>4, <1>5, Zenon DEF PreferOf
<1> QED BY <1>3, <1>6, Zenon DEF Elected

LEMMA ElectSound ==
  ASSUME NEW n \in Nat, NEW srcs \in [1..n -> Source], NEW st \in [1..n -> Settled \cup {"Ok"}],
         NEW adm \in SUBSET (1..n), adm # {}, NEW trusting, NEW sel \in 0..n, NEW level \in Nat,
         NEW upd, NEW d \in [1..n -> Data], sel # 0 => srcs[sel].distant = 0,
         \A i \in 1..n : st[i] = "Ok" => i \in adm,
         NEW o, o = Elect(srcs, st, adm, trusting, sel, level, upd, d)
  PROVE  Elected(o, n, srcs, adm)
<1> DEFINE cands == Preferred(srcs, adm)
           score == Rescore(srcs, cands, sel, level, upd, d)
           best == MaxScoreIndex(cands, score)
           change == sel = 0 \/ sel \notin cands \/ (best # sel /\ score[best] >= ScoreLimit)
           st1 == WithStatus(adm \ cands, "Nonpreferred", st)
           voting == [i \in DOMAIN srcs |->
                    [srcs[i] EXCEPT !.vote = i \in adm /\ (trusting => "trust" \in srcs[i].options),
                                    !.score = score[i],
                                    !.distant = IF i \in cands THEN @ ELSE DistantPenalty]]
           idle == [i \in DOMAIN srcs |-> [voting[i] EXCEPT !.score = 0]]
<1>1. o = IF ~ change THEN Refer(voting, st1, cands, sel, d)
          ELSE IF srcs[best].updates = 0
          THEN Unselected(idle, WithStatus(cands, "WaitsUpdate", st1), "none")
          ELSE Refer(Renewed(voting), st1, cands, best, d)
  BY Zenon DEF Elect
<1>2. /\ cands \subseteq adm /\ cands # {} /\ cands \subseteq 1..n
      /\ \/ \A i \in cands : "prefer" \in srcs[i].options
         \/ \A i \in cands : "prefer" \notin srcs[i].options
  BY Zenon DEF Preferred
<1>3. score \in [1..n -> Int] /\ (sel # 0 => score \in [1..n -> Nat])
  BY ScoreRange, Zenon
<1>4. best \in cands
  BY <1>2, <1>3, BestCandidate
<1>5. /\ st1 \in [1..n -> Settled \cup {"Ok"}]
      /\ \A i \in 1..n : st1[i] = IF i \in adm \ cands THEN "Nonpreferred" ELSE st[i]
  <2>1. "Nonpreferred" \in Settled \cup {"Ok"}
    BY DEF Settled, Statuses
  <2> QED BY <2>1, Zenon DEF WithStatus
<1>6. /\ \A i \in (1..n) \ cands : st1[i] \in Settled
      /\ \A i \in adm \ cands : st1[i] = "Nonpreferred"
      /\ st1 \in [1..n -> Statuses]
  BY <1>2, <1>5, Zenon DEF Settled, Statuses
<1> DEFINE p(i) == IF i \in cands THEN srcs[i].distant ELSE DistantPenalty
           v(i) == i \in adm /\ (trusting => "trust" \in srcs[i].options)
<1>7. \A i \in 1..n : /\ srcs[i] \in Mid /\ p(i) \in 0..DistantPenalty /\ score[i] \in Int /\ v(i) \in BOOLEAN
                      /\ voting[i] = [srcs[i] EXCEPT !.vote = v(i), !.score = score[i], !.distant = p(i)]
  <2>1. \A i \in 1..n : srcs[i].distant \in 0..DistantPenalty
    BY DEF Source
  <2>2. DistantPenalty \in 0..DistantPenalty
    BY RegistryAssumption
  <2>3. \A i \in 1..n : voting[i] = [srcs[i] EXCEPT !.vote = v(i), !.score = score[i], !.distant = p(i)]
    BY Zenon
  <2> HIDE DEF voting, cands, score
  <2> QED BY <1>3, <2>1, <2>2, <2>3, SourceMid, Zenon
<1>8. voting = [i \in 1..n |-> voting[i]]
  BY Zenon
<1> HIDE DEF cands, score, best, st1, voting, p, v
<1>9. ASSUME NEW i \in 1..n
      PROVE  /\ voting[i] \in Mid /\ (sel # 0 => voting[i] \in Source) /\ Same(voting[i], srcs[i])
             /\ i \in cands => voting[i].distant = srcs[i].distant
  <2> DEFINE r == [srcs[i] EXCEPT !.vote = v(i), !.score = score[i], !.distant = p(i)]
  <2>1. r \in Mid /\ (score[i] \in Nat => r \in Source) /\ r.score = score[i] /\ r.distant = p(i) /\ Same(r, srcs[i])
    <3>1. Votable(srcs[i], v(i), score[i], p(i))
      BY <1>7, Zenon DEF Votable
    <3>2. Voted(r, srcs[i], score[i], p(i))
      BY <3>1, MidVote, Zenon
    <3> QED BY <3>2, Zenon DEF Voted
  <2>2. voting[i] = r
    BY <1>7, Zenon
  <2> HIDE DEF r
  <2> QED BY <1>3, <2>1, <2>2 DEF p
<1>10. CASE ~ change
  <2>1. sel \in cands /\ sel # 0 /\ sel \in 1..n
    BY <1>10, <1>2
  <2>2. voting \in [1..n -> Source] /\ voting[sel].distant = 0
    BY <1>8, <1>9, <2>1, Zenon
  <2>3. o = Refer(voting, st1, cands, sel, d) /\ Referable(n, voting, st1, cands, sel, d)
    BY <1>1, <1>2, <1>6, <1>10, <2>1, <2>2 DEF Referable
  <2>4. Referred(o, n, voting, st1, cands, sel)
    BY <2>3, ReferSound, Zenon
  <2>5. Electable(n, srcs, voting, adm, cands, st1)
    BY <1>2, <1>6, <1>9, Zenon DEF Electable
  <2> QED BY <2>1, <2>4, <2>5, ElectEnds, Zenon
<1>11. CASE change /\ srcs[best].updates = 0
  <2> DEFINE st2 == WithStatus(cands, "WaitsUpdate", st1)
  <2>1. st2 \in [1..n -> Settled \cup {"Ok"}] /\ \A i \in 1..n : st2[i] = IF i \in cands THEN "WaitsUpdate" ELSE st1[i]
    <3>1. "WaitsUpdate" \in Settled \cup {"Ok"}
      BY DEF Settled, Statuses
    <3> QED BY <1>5, <3>1, Zenon DEF WithStatus
  <2>2. st2 \in [1..n -> Settled]
    <3>1. "WaitsUpdate" \in Settled
      BY DEF Settled, Statuses
    <3>2. \A i \in 1..n : st2[i] \in Settled
      BY <1>6, <2>1, <3>1, Zenon
    <3> QED BY <2>1, <3>2
  <2>3. \A i \in 1..n : idle[i] \in Source /\ Alike(idle[i], srcs[i])
    <3> SUFFICES ASSUME NEW i \in 1..n PROVE idle[i] \in Source /\ Alike(idle[i], srcs[i])
      BY Zenon
    <3>1. idle[i] = [voting[i] EXCEPT !.score = 0]
      BY Zenon
    <3> HIDE DEF idle
    <3>2. idle[i] \in Source /\ Same(idle[i], voting[i])
      BY <1>9, <3>1, MidScore
    <3> QED BY <1>9, <3>2, Zenon DEF Same, Alike
  <2>4. idle \in [1..n -> Source]
    BY <2>3, Zenon
  <2> HIDE DEF idle, st2
  <2>5. o = Unselected(idle, st2, "none")
    BY <1>1, <1>11 DEF st2
  <2>6. OutcomeSound(o, n, srcs) /\ o.sel = 0 /\ o.ref # "set"
    BY <2>2, <2>3, <2>4, <2>5, UnselectedSound, ZenonT(60)
  <2> QED BY <2>6, Zenon DEF PreferOf, Elected
<1>12. CASE change /\ srcs[best].updates # 0
  <2> DEFINE new == Renewed(voting)
  <2>1. \A i \in 1..n : new[i] \in Source /\ new[i].distant = 0 /\ Same(new[i], srcs[i])
    <3> SUFFICES ASSUME NEW i \in 1..n PROVE new[i] \in Source /\ new[i].distant = 0 /\ Same(new[i], srcs[i])
      OBVIOUS
    <3>2. new[i] = [voting[i] EXCEPT !.score = 0, !.distant = 0]
      BY <1>8, Zenon DEF Renewed
    <3> HIDE DEF new
    <3>3. new[i] \in Source /\ new[i].distant = 0 /\ Same(new[i], voting[i])
      BY <1>9, <3>2, MidRenewed, Zenon
    <3> QED BY <1>9, <3>3, Zenon DEF Same
  <2>2. new \in [1..n -> Source]
    <3>1. new = [i \in 1..n |-> new[i]]
      BY <1>8, Zenon DEF Renewed
    <3> HIDE DEF new
    <3> QED BY <2>1, <3>1, Zenon
  <2> HIDE DEF new
  <2>3. best \in 1..n /\ new[best].distant = 0 /\ o = Refer(new, st1, cands, best, d)
    BY <1>1, <1>2, <1>4, <1>12, <2>1 DEF new
  <2>4. Referable(n, new, st1, cands, best, d)
    BY <1>2, <1>4, <1>6, <2>2, <2>3 DEF Referable
  <2>5. Referred(o, n, new, st1, cands, best)
    BY <2>3, <2>4, ReferSound, Zenon
  <2>6. Electable(n, srcs, new, adm, cands, st1)
    BY <1>2, <1>6, <2>1, Zenon DEF Electable
  <2> QED BY <1>4, <2>5, <2>6, ElectEnds, Zenon
<1> QED BY <1>10, <1>11, <1>12

\* What select_source calls its pass with, and what the pass returns.
Passable(n, srcs, sel, level, d) ==
  /\ n \in Nat /\ srcs \in [1..n -> Source] /\ sel \in 0..n /\ level \in Nat /\ d \in [1..n -> Data]
  /\ sel # 0 => srcs[sel].distant = 0

RequireOf(o, n) ==
  o.ref = "set" /\ (\E i \in 1..n : "require" \in o.srcs[i].options)
    => \E i \in 1..n : "require" \in o.srcs[i].options /\ o.st[i] \in Combinable \cup {"Nonpreferred"}

Passed(o, n, srcs) == OutcomeSound(o, n, srcs) /\ PreferOf(o, n) /\ RequireOf(o, n)

\* A table of statuses before the marks.
Early(n) == [1..n -> Settled \cup {"Ok"}]

LEMMA WithStatusEarly ==
  ASSUME NEW n, NEW S, NEW x \in Settled, NEW f \in Early(n)
  PROVE  /\ WithStatus(S, x, f) \in Early(n)
         /\ \A i \in 1..n : WithStatus(S, x, f)[i] = IF i \in S THEN x ELSE f[i]
BY Zenon DEF WithStatus, Early

\* The marks of the sources that are not admitted.
Rejectable(n, x, y, st) == x \in Settled /\ y \in Settled /\ st \in Early(n)
Rejected(f, n, S, T, st) ==
  f \in Early(n) /\ \A i \in 1..n : f[i] = "Ok" => i \notin S /\ i \notin T /\ st[i] = "Ok"

LEMMA RejectedEarly ==
  ASSUME NEW n, NEW S, NEW T, NEW x, NEW y, NEW st, Rejectable(n, x, y, st)
  PROVE  Rejected(WithStatus(S, x, WithStatus(T, y, st)), n, S, T, st)
<1>1. x # "Ok" /\ y # "Ok" /\ x \in Settled /\ y \in Settled /\ st \in Early(n)
  BY DEF Settled, Rejectable
<1>2. PICK u : u = WithStatus(T, y, st)
  OBVIOUS
<1>3. u \in Early(n) /\ \A i \in 1..n : u[i] = IF i \in T THEN y ELSE st[i]
  BY <1>1, <1>2, Zenon DEF WithStatus, Early
<1>4. PICK f : f = WithStatus(S, x, u)
  OBVIOUS
<1>5. f \in Early(n) /\ \A i \in 1..n : f[i] = IF i \in S THEN x ELSE u[i]
  BY <1>1, <1>3, <1>4, Zenon DEF WithStatus, Early
<1>6. \A i \in 1..n : f[i] = "Ok" => i \notin S /\ i \notin T /\ st[i] = "Ok"
  BY <1>1, <1>3, <1>5
<1>7. Rejected(f, n, S, T, st)
  BY <1>5, <1>6, Zenon DEF Rejected
<1> QED BY <1>2, <1>4, <1>7, Zenon

LEMMA StaleOrOrphanEarly ==
  ASSUME NEW n, NEW srcs, NEW d, NEW st \in Early(n)
  PROVE  StaleOrOrphan(srcs, d, st) \in Early(n)
<1>1. "Stale" \in Settled /\ "Orphan" \in Settled
  BY DEF Settled, Statuses
<1>2. \A S, T : WithStatus(T, "Stale", WithStatus(S, "Orphan", st)) \in Early(n)
  BY <1>1, WithStatusEarly, Zenon
<1> QED BY <1>2, Zenon DEF StaleOrOrphan

\* A pass without a selected source, over a table that differs in its votes.
LEMMA UnselectedPassed ==
  ASSUME NEW n, NEW srcs0, NEW srcs, NEW st, NEW ref, n \in Nat, srcs \in [1..n -> Source],
         st \in Early(n), \A i \in 1..n : st[i] # "Ok", ref \in {"none", "unsync"},
         \A i \in 1..n : Alike(srcs[i], srcs0[i])
  PROVE  Passed(Unselected(srcs, st, ref), n, srcs0)
<1>1. st \in [1..n -> Settled]
  BY DEF Early
<1> SUFFICES ASSUME NEW o, o = Unselected(srcs, st, ref) PROVE Passed(o, n, srcs0)
  OBVIOUS
<1>2. OutcomeSound(o, n, srcs0) /\ o.sel = 0 /\ o.ref # "set"
  BY <1>1, UnselectedSound
<1> QED BY <1>2, Zenon DEF Passed, PreferOf, RequireOf

LEMMA PassSound ==
  ASSUME NEW n, NEW srcs0, NEW sel, NEW level0, NEW upd, NEW d, Passable(n, srcs0, sel, level0, d)
  PROVE  Passed(Pass(srcs0, sel, level0, upd, d), n, srcs0)
<1>0. /\ n \in Nat /\ srcs0 \in [1..n -> Source] /\ sel \in 0..n /\ level0 \in Nat /\ d \in [1..n -> Data]
      /\ sel # 0 => srcs0[sel].distant = 0
  BY Zenon DEF Passable
<1> DEFINE st0 == [i \in DOMAIN srcs0 |-> Classify(srcs0[i], d[i])]
           srcs == [i \in DOMAIN srcs0 |-> [srcs0[i] EXCEPT !.vote = FALSE]]
           level == IF sel = 0 \/ st0[sel] \in {"Unselectable", "Unsynchronised"} THEN level0 ELSE d[sel].level
           st == StaleOrOrphan(srcs, d, st0)
           ok == {i \in DOMAIN st : st[i] = "Ok"}
           cand == [i \in ok |-> [lo |-> d[i].lo, hi |-> d[i].hi, trusted |-> "trust" \in srcs[i].options]]
           b == Sweep(cand)
           agr == Agreeing(cand, b)
           adm == Admissible(cand, b)
           st1 == WithStatus(ok \ agr, "Falseticker", WithStatus(agr \ adm, "Untrusted", st))
           o == Pass(srcs0, sel, level0, upd, d)
<1>1. o = IF ok = {} THEN Unselected(srcs, st, "none")
          ELSE IF WaitsForStats(srcs, st, sel) THEN Unselected(srcs, WithStatus(ok, "WaitsStats", st), "none")
          ELSE IF ~ HasMajority(cand, b)
          THEN Unselected(srcs, WithStatus(ok, "Falseticker", st), IF sel = 0 THEN "none" ELSE "unsync")
          ELSE IF adm = {} \/ MissingRequired(srcs, adm) \/ Cardinality(adm) < MinSources
          THEN Unselected(srcs, WithStatus(adm, "WaitsSources", st1), "none")
          ELSE Elect(srcs, st1, adm, b.best_trust_depth # 0, sel, level, upd, d)
  BY DEF Pass
<1>2. agr \subseteq ok /\ adm \subseteq agr
  BY Zenon DEF Agreeing, Admissible
<1>3. /\ srcs \in [1..n -> Source]
      /\ \A i \in 1..n : Alike(srcs[i], srcs0[i]) /\ srcs[i].distant = srcs0[i].distant
  <2>1. \A i \in 1..n : srcs[i] = [srcs0[i] EXCEPT !.vote = FALSE]
    BY <1>0, Zenon
  <2>2. \A s \in Source : /\ [s EXCEPT !.vote = FALSE] \in Source
                          /\ Alike([s EXCEPT !.vote = FALSE], s)
                          /\ [s EXCEPT !.vote = FALSE].distant = s.distant
    BY Zenon DEF Source, Alike
  <2>3. \A i \in 1..n : srcs0[i] \in Source
    BY <1>0
  <2>4. srcs = [i \in 1..n |-> srcs[i]]
    BY <1>0, Zenon
  <2> HIDE DEF srcs
  <2>5. \A i \in 1..n : srcs[i] \in Source /\ Alike(srcs[i], srcs0[i]) /\ srcs[i].distant = srcs0[i].distant
    BY <2>1, <2>2, <2>3, Zenon
  <2> QED BY <2>4, <2>5, Zenon
<1>4. st0 \in Early(n) /\ level \in Nat
  <2>1. \A i \in 1..n : d[i].verdict \in Verdicts /\ d[i].level \in Nat
    <3>1. \A x \in Data : x.verdict \in Verdicts /\ x.level \in Nat
      BY RegistryAssumption
    <3> QED BY <1>0, <3>1, Zenon
  <2>2. {"Unselectable", "Unsynchronised"} \cup Verdicts \subseteq Settled \cup {"Ok"}
    BY DEF Verdicts, Settled, Statuses
  <2>3. \A i \in 1..n : Classify(srcs0[i], d[i]) \in Settled \cup {"Ok"}
    BY <2>1, <2>2, Zenon DEF Classify
  <2>4. st0 \in Early(n)
    BY <1>0, <2>3, Zenon DEF Early
  <2>5. sel # 0 => sel \in 1..n
    BY <1>0
  <2> HIDE DEF st0
  <2> QED BY <1>0, <2>1, <2>4, <2>5, Zenon
<1> HIDE DEF st0, srcs, level
<1>5. st \in Early(n)
  BY <1>4, StaleOrOrphanEarly
<1>6. ok \subseteq 1..n /\ \A i \in 1..n : i \in ok <=> st[i] = "Ok"
  <2> HIDE DEF st
  <2> QED BY <1>5, Zenon DEF Early
<1> HIDE DEF st, ok, cand, b, agr, adm, o
<1>7. {"Falseticker", "Untrusted", "WaitsStats", "WaitsSources"} \subseteq Settled
  BY DEF Settled, Statuses
<1>8. st1 \in Early(n) /\ \A i \in 1..n : st1[i] = "Ok" => i \in adm
  <2>1. st1 \in Early(n) /\ \A i \in 1..n : st1[i] = "Ok" => i \notin ok \ agr /\ i \notin agr \ adm /\ st[i] = "Ok"
    <3>1. Rejectable(n, "Falseticker", "Untrusted", st)
      BY <1>5, <1>7 DEF Rejectable
    <3>2. Rejected(st1, n, ok \ agr, agr \ adm, st)
      BY <3>1, RejectedEarly, Zenon
    <3> HIDE DEF st1
    <3> QED BY <3>2, Zenon DEF Rejected
  <2> HIDE DEF st1
  <2> QED BY <1>6, <2>1
<1> HIDE DEF st1
<1>9. ASSUME NEW S, NEW x \in Settled, NEW f \in Early(n), \A i \in 1..n : f[i] = "Ok" => i \in S,
             NEW ref \in {"none", "unsync"}
      PROVE  Passed(Unselected(srcs, WithStatus(S, x, f), ref), n, srcs0)
  <2> DEFINE g == WithStatus(S, x, f)
  <2>1. g \in Early(n) /\ \A i \in 1..n : g[i] = IF i \in S THEN x ELSE f[i]
    BY <1>9, WithStatusEarly
  <2> HIDE DEF g
  <2>2. \A i \in 1..n : g[i] # "Ok"
    BY <1>9, <2>1 DEF Settled
  <2>3. Passed(Unselected(srcs, g, ref), n, srcs0)
    BY <1>0, <1>3, <1>9, <2>1, <2>2, UnselectedPassed, Zenon
  <2> QED BY <2>3 DEF g
<1>10. CASE ok = {}
  <2>1. \A i \in 1..n : st[i] # "Ok"
    BY <1>6, <1>10, Zenon
  <2>2. "none" \in {"none", "unsync"}
    OBVIOUS
  <2> QED BY <1>0, <1>1, <1>3, <1>5, <1>10, <2>1, <2>2, UnselectedPassed, Zenon DEF o
<1>11. CASE ok # {} /\ WaitsForStats(srcs, st, sel)
  <2>1. Passed(Unselected(srcs, WithStatus(ok, "WaitsStats", st), "none"), n, srcs0)
    BY <1>5, <1>6, <1>7, <1>9
  <2> QED BY <1>1, <1>11, <2>1, Zenon DEF o
<1>12. CASE ok # {} /\ ~ WaitsForStats(srcs, st, sel) /\ ~ HasMajority(cand, b)
  <2> DEFINE r == IF sel = 0 THEN "none" ELSE "unsync"
  <2>0. r \in {"none", "unsync"}
    OBVIOUS
  <2> HIDE DEF r
  <2>1. Passed(Unselected(srcs, WithStatus(ok, "Falseticker", st), r), n, srcs0)
    BY <1>5, <1>6, <1>7, <1>9, <2>0
  <2> QED BY <1>1, <1>12, <2>1, Zenon DEF o, r
<1>13. CASE /\ ok # {} /\ ~ WaitsForStats(srcs, st, sel) /\ HasMajority(cand, b)
            /\ adm = {} \/ MissingRequired(srcs, adm) \/ Cardinality(adm) < MinSources
  <2>1. Passed(Unselected(srcs, WithStatus(adm, "WaitsSources", st1), "none"), n, srcs0)
    BY <1>7, <1>8, <1>9
  <2> QED BY <1>1, <1>13, <2>1, Zenon DEF o
<1>14. CASE /\ ok # {} /\ ~ WaitsForStats(srcs, st, sel) /\ HasMajority(cand, b)
            /\ ~ (adm = {} \/ MissingRequired(srcs, adm) \/ Cardinality(adm) < MinSources)
  <2>1. o = Elect(srcs, st1, adm, b.best_trust_depth # 0, sel, level, upd, d)
    BY <1>1, <1>14, Zenon
  <2>2. adm \in SUBSET (1..n) /\ adm # {} /\ (sel # 0 => srcs[sel].distant = 0)
    BY <1>0, <1>2, <1>3, <1>6, <1>14
  <2>3. Elected(o, n, srcs, adm)
    BY <1>0, <1>3, <1>4, <1>8, <2>1, <2>2, ElectSound DEF Early
  <2>4. \A i \in 1..n : Alike(o.srcs[i], srcs[i])
    BY <2>3, Zenon DEF Elected, OutcomeSound
  <2>5. \A i \in 1..n : Alike(o.srcs[i], srcs0[i]) /\ o.srcs[i].options = srcs[i].options
    BY <1>3, <2>4, ZenonT(60) DEF Alike
  <2>6. OutcomeSound(o, n, srcs0)
    BY <2>3, <2>5, Zenon DEF Elected, OutcomeSound
  <2>7. RequireOf(o, n)
    <3>1. (\A i \in 1..n : "require" \notin srcs[i].options) \/ \E i \in adm : "require" \in srcs[i].options
      BY <1>3, <1>14, Zenon DEF MissingRequired
    <3> QED BY <2>2, <2>3, <2>5, <3>1, Zenon DEF Elected, RequireOf
  <2> QED BY <2>3, <2>6, <2>7, Zenon DEF Elected, Passed, o
<1> QED BY <1>10, <1>11, <1>12, <1>13, <1>14, Zenon
-----------------------------------------------------------------------------
(* The operations: those that end in a pass, and those that change fields of *)
(* sources.                                                                   *)

\* What the operations hand to select_source.
Selectable(n, srcs, sel, last, forced) ==
  /\ n \in Nat /\ n <= MaxSources /\ srcs \in [1..n -> Source] /\ sel \in 0..n
  /\ \A i \in 1..n : srcs[i].reach < 2^srcs[i].size
  /\ sel # 0 => srcs[sel].distant = 0
  /\ last \in 0..MaxSources /\ forced \in BOOLEAN /\ sel_level \in Nat /\ since \in BOOLEAN

\* The options that the table respects after a pass.
OptionsRespected ==
  /\ selected' # 0 => \A i \in DOMAIN sources' :
       "prefer" \in sources'[i].options /\ sources'[i].status \in {"Unselected", "Distant"}
         => "prefer" \in sources'[selected'].options
  /\ calls'.ref = "set" /\ (\E i \in DOMAIN sources' : "require" \in sources'[i].options)
       => \E i \in DOMAIN sources' :
            /\ "require" \in sources'[i].options
            /\ sources'[i].status \in {"Selected", "Unselected", "Distant", "Nonpreferred"}

MarkedFrom(r, s, st) ==
  r \in Source /\ Alike(r, s) /\ r.status = st /\ r.distant = s.distant

LEMMA MarkedSource ==
  ASSUME NEW s \in Source, NEW st \in Statuses \ {"Ok"}, NEW b \in 0..MaxBad
  PROVE  MarkedFrom([s EXCEPT !.status = st, !.bad = b], s, st)
BY Zenon DEF Source, Alike, MarkedFrom

LEMMA MarkedTable ==
  ASSUME NEW o, NEW n \in Nat, NEW last, o.srcs \in [1..n -> Source], o.st \in [1..n -> Statuses \ {"Ok"}]
  PROVE  /\ Marked(o, last) \in [1..n -> Source]
         /\ \A i \in 1..n : MarkedFrom(Marked(o, last)[i], o.srcs[i], o.st[i])
<1> DEFINE bad(i) == IF i # last THEN o.srcs[i].bad
                     ELSE IF o.srcs[i].bad < MaxBad /\ o.st[i] \in BadStatuses THEN o.srcs[i].bad + 1 ELSE 0
           new(i) == [o.srcs[i] EXCEPT !.status = o.st[i], !.bad = bad(i)]
<1>1. Marked(o, last) = [i \in 1..n |-> new(i)]
  BY Zenon DEF Marked
<1>2. \A i \in 1..n : bad(i) \in 0..MaxBad
  <2>1. \A i \in 1..n : o.srcs[i].bad \in 0..MaxBad
    BY DEF Source
  <2>2. MaxBad \in Nat
    BY RegistryAssumption
  <2> QED BY <2>1, <2>2
<1> HIDE DEF bad
<1>3. \A i \in 1..n : MarkedFrom(new(i), o.srcs[i], o.st[i])
  <2> SUFFICES ASSUME NEW i \in 1..n PROVE MarkedFrom(new(i), o.srcs[i], o.st[i])
    BY Zenon
  <2>1. o.srcs[i] \in Source /\ o.st[i] \in Statuses \ {"Ok"} /\ bad(i) \in 0..MaxBad
    BY <1>2, Zenon
  <2> QED BY <2>1, MarkedSource, ZenonT(60)
<1> HIDE DEF new
<1>4. \A i \in 1..n : new(i) \in Source
  BY <1>3, Zenon DEF MarkedFrom
<1> QED BY <1>1, <1>3, <1>4, Zenon

\* A table and a selected index that are sound.
TableSound(n, srcs, sel) ==
  /\ n \in Nat /\ n <= MaxSources /\ srcs \in [1..n -> Source] /\ sel \in 0..n
  /\ \A i \in 1..n : /\ srcs[i].status = "Selected" => i = sel
                     /\ srcs[i].status = "Unselected" => srcs[i].distant = 0
                     /\ srcs[i].status = "Distant" => srcs[i].distant > 0
                     /\ srcs[i].reach < 2^srcs[i].size
  /\ sel # 0 => srcs[sel].status \in {"Selected", "BadStats"} /\ srcs[sel].distant = 0

LEMMA FunctionSeq ==
  ASSUME NEW n \in Nat, NEW f \in [1..n -> Source]
  PROVE  f \in Seq(Source) /\ Len(f) = n /\ DOMAIN f = 1..n
OBVIOUS

\* The invariant of the registry, over a function of indices.
LEMMA SoundTable ==
  ASSUME RegistrySound
  PROVE  /\ sources \in Seq(Source) /\ TableSound(Len(sources), sources, selected)
         /\ last_updated \in 0..MaxSources /\ calls \in Calls /\ sel_level \in Nat /\ since \in BOOLEAN
<1>1. sources \in Seq(Source) => Len(sources) \in Nat /\ sources \in [1..Len(sources) -> Source]
  OBVIOUS
<1> QED BY <1>1, Zenon DEF RegistrySound, TypeOK, SelectedMatches, DistantConsistent, ReachSound, TableSound, Indices

LEMMA TableSoundNext ==
  ASSUME sources' \in Seq(Source), TableSound(Len(sources'), sources', selected'),
         last_updated' \in 0..MaxSources, calls' \in Calls, sel_level' \in Nat, since' \in BOOLEAN
  PROVE  RegistrySound'
BY Zenon DEF RegistrySound, TypeOK, SelectedMatches, DistantConsistent, ReachSound, TableSound, Indices

LEMMA SelectKeeps ==
  ASSUME NEW n, NEW srcs, NEW sel, NEW upd, NEW last, NEW forced,
         Selectable(n, srcs, sel, last, forced), Select(srcs, sel, upd, last, forced)
  PROVE  RegistrySound' /\ OptionsRespected
<1>0. /\ n \in Nat /\ n <= MaxSources /\ srcs \in [1..n -> Source] /\ sel \in 0..n
      /\ \A i \in 1..n : srcs[i].reach < 2^srcs[i].size
      /\ sel # 0 => srcs[sel].distant = 0
      /\ last \in 0..MaxSources /\ forced \in BOOLEAN /\ sel_level \in Nat /\ since \in BOOLEAN
  BY Zenon DEF Selectable
<1>1. DOMAIN srcs = 1..n
  BY <1>0
<1>20. PICK o \in {Pass(srcs, sel, sel_level, upd, d) : d \in [DOMAIN srcs -> Data]} : \E m \in {Marked(o, last)} :
        LET tired == {i \in DOMAIN m \cap {last} : m[i].bad >= BadThreshold /\ m[i].type = "ntp"}
        IN /\ sources' = m
           /\ selected' = o.sel
           /\ sel_level' = o.level
           /\ last_updated' = last
           /\ calls' = [NoCalls EXCEPT !.ref = o.ref, !.leap = o.leap, !.forced = forced,
                                       !.by = IF o.ref = "set" THEN m[o.sel].ref_id ELSE 0,
                                       !.replace = {m[i].ref_id : i \in tired}]
           /\ since' = IF RefIdAt(m, o.sel) # RefIdAt(sources, selected) THEN FALSE ELSE since \/ upd # 0
  BY Zenon DEF Select
<1>2. PICK m \in {Marked(o, last)} :
        LET tired == {i \in DOMAIN m \cap {last} : m[i].bad >= BadThreshold /\ m[i].type = "ntp"}
        IN /\ sources' = m
           /\ selected' = o.sel
           /\ sel_level' = o.level
           /\ last_updated' = last
           /\ calls' = [NoCalls EXCEPT !.ref = o.ref, !.leap = o.leap, !.forced = forced,
                                       !.by = IF o.ref = "set" THEN m[o.sel].ref_id ELSE 0,
                                       !.replace = {m[i].ref_id : i \in tired}]
           /\ since' = IF RefIdAt(m, o.sel) # RefIdAt(sources, selected) THEN FALSE ELSE since \/ upd # 0
  BY <1>20, Zenon
<1> DEFINE by == IF o.ref = "set" THEN m[o.sel].ref_id ELSE 0
           rep == {m[i].ref_id : i \in {j \in DOMAIN m \cap {last} : m[j].bad >= BadThreshold /\ m[j].type = "ntp"}}
<1>3. Passed(o, n, srcs)
  <2>1. PICK d \in [DOMAIN srcs -> Data] : o = Pass(srcs, sel, sel_level, upd, d)
    BY <1>2, Zenon
  <2>2. Passable(n, srcs, sel, sel_level, d)
    BY <1>0, <1>1, <2>1, Zenon DEF Passable
  <2> QED BY <2>1, <2>2, PassSound, Zenon
<1>4. m = Marked(o, last)
  BY <1>2, Zenon
<1>5. /\ sources' = m /\ selected' = o.sel /\ sel_level' = o.level /\ last_updated' = last
      /\ calls' = [NoCalls EXCEPT !.ref = o.ref, !.leap = o.leap, !.forced = forced, !.by = by, !.replace = rep]
      /\ since' \in BOOLEAN
  BY <1>0, <1>2, Zenon
<1>6. OutcomeSound(o, n, srcs) /\ PreferOf(o, n) /\ RequireOf(o, n)
  BY <1>3, Zenon DEF Passed
<1>7. /\ o.srcs \in [1..n -> Source] /\ o.st \in [1..n -> Statuses \ {"Ok"}]
      /\ o.sel \in 0..n /\ o.level \in Nat
      /\ o.ref \in {"none", "unsync", "set"} /\ o.leap \in AllLeaps
      /\ o.ref = "set" => o.sel # 0
      /\ \A i \in 1..n : /\ Alike(o.srcs[i], srcs[i])
                         /\ o.st[i] = "Selected" => i = o.sel
                         /\ o.st[i] = "Unselected" => o.srcs[i].distant = 0
                         /\ o.st[i] = "Distant" => o.srcs[i].distant > 0
      /\ o.sel # 0 => o.st[o.sel] = "Selected" /\ o.srcs[o.sel].distant = 0
  BY <1>6, Zenon DEF OutcomeSound
<1>8. m \in [1..n -> Source] /\ \A i \in 1..n : MarkedFrom(m[i], o.srcs[i], o.st[i])
  BY <1>0, <1>4, <1>7, MarkedTable, Zenon
<1>9. \A i \in 1..n : /\ m[i].status = o.st[i] /\ m[i].distant = o.srcs[i].distant
                      /\ m[i].reach = srcs[i].reach /\ m[i].size = srcs[i].size
                      /\ m[i].options = o.srcs[i].options
  <2> SUFFICES ASSUME NEW i \in 1..n
               PROVE  /\ m[i].status = o.st[i] /\ m[i].distant = o.srcs[i].distant
                      /\ m[i].reach = srcs[i].reach /\ m[i].size = srcs[i].size
                      /\ m[i].options = o.srcs[i].options
    OBVIOUS
  <2>1. MarkedFrom(m[i], o.srcs[i], o.st[i]) /\ Alike(o.srcs[i], srcs[i])
    BY <1>7, <1>8, Zenon
  <2> QED BY <2>1, ZenonT(60) DEF MarkedFrom, Alike
<1>10. m \in Seq(Source) /\ Len(m) = n /\ DOMAIN m = 1..n
  BY <1>0, <1>8, FunctionSeq, ZenonT(60)
<1>11. o.sel # 0 => o.sel \in 1..n
  BY <1>0, <1>7
<1>12. TableSound(n, m, o.sel)
  <2>1. \A i \in 1..n : /\ m[i].status = "Selected" => i = o.sel
                        /\ m[i].status = "Unselected" => m[i].distant = 0
                        /\ m[i].status = "Distant" => m[i].distant > 0
    BY <1>7, <1>9, ZenonT(60)
  <2>2. \A i \in 1..n : m[i].reach < 2^m[i].size
    BY <1>0, <1>9, Zenon
  <2>3. o.sel # 0 => m[o.sel].status \in {"Selected", "BadStats"} /\ m[o.sel].distant = 0
    BY <1>7, <1>9, <1>11, Zenon
  <2> QED BY <1>0, <1>7, <1>8, <2>1, <2>2, <2>3, Zenon DEF TableSound
<1>13. calls' \in Calls /\ calls'.ref = o.ref
  <2>1. \A i \in 1..n : m[i].ref_id \in Nat
    <3>1. \A r \in Source : r.ref_id \in Nat
      BY DEF Source
    <3> QED BY <1>8, <3>1, Zenon
  <2>2. by \in Nat /\ rep \in SUBSET Nat
    <3>1. 0 \in Nat
      OBVIOUS
    <3> QED BY <1>7, <1>10, <1>11, <2>1, <3>1, ZenonT(60)
  <2> HIDE DEF by, rep
  <2>3. NoCalls \in Calls
    BY DEF NoCalls, Calls, AllLeaps
  <2>4. o.ref \in {"none", "unsync", "set", "leap"}
    BY <1>7
  <2> QED BY <1>0, <1>5, <1>7, <2>2, <2>3, <2>4, ZenonT(60) DEF Calls
<1>14. RegistrySound'
  <2>1. sources' \in Seq(Source) /\ TableSound(Len(sources'), sources', selected')
    BY <1>5, <1>10, <1>12, Zenon
  <2>2. last_updated' \in 0..MaxSources /\ sel_level' \in Nat
    BY <1>0, <1>5, <1>7, Zenon
  <2> QED BY <1>5, <1>13, <2>1, <2>2, TableSoundNext, Zenon
<1>15. OptionsRespected
  <2>1. o.sel # 0 => \A i \in 1..n : "prefer" \in m[i].options /\ m[i].status \in {"Unselected", "Distant"}
                                       => "prefer" \in m[o.sel].options
    BY <1>6, <1>9, <1>11, Zenon DEF PreferOf
  <2>2. o.ref = "set" /\ (\E i \in 1..n : "require" \in m[i].options)
          => \E i \in 1..n : /\ "require" \in m[i].options
                             /\ m[i].status \in {"Selected", "Unselected", "Distant", "Nonpreferred"}
    <3>1. Combinable \cup {"Nonpreferred"} = {"Selected", "Unselected", "Distant", "Nonpreferred"}
      BY DEF Combinable
    <3> QED BY <1>6, <1>9, <3>1, Zenon DEF RequireOf
  <2> QED BY <1>5, <1>10, <1>13, <2>1, <2>2, Zenon DEF OptionsRespected
<1> QED BY <1>14, <1>15

\* What an operation without a pass may do to a source: the status and the
\* penalty stay or start afresh.
Modest(r, s) ==
  /\ r \in Source /\ r.ref_id = s.ref_id /\ r.reach < 2^r.size
  /\ \/ r.status = s.status /\ r.distant = s.distant
     \/ r.status = "BadStats" /\ r.distant = 0

Quiet == RefIdAt(sources', selected') = RefIdAt(sources, selected) /\ calls'.ref # "set"

StepSound == RegistrySound' /\ (OptionsRespected \/ Quiet)

ModestStep(new) ==
  /\ sources' = new /\ selected' = selected /\ last_updated' = last_updated /\ since' = since
  /\ sel_level' \in Nat /\ calls' \in Calls /\ calls'.ref # "set"
  /\ DOMAIN new = 1..Len(sources) /\ new = [i \in 1..Len(sources) |-> new[i]]
  /\ \A i \in 1..Len(sources) : Modest(new[i], sources[i])

LEMMA ModestKeeps ==
  ASSUME RegistrySound, NEW new, ModestStep(new)
  PROVE  StepSound
<1> DEFINE n == Len(sources)
<1>1. /\ sources \in Seq(Source) /\ TableSound(n, sources, selected)
      /\ last_updated \in 0..MaxSources /\ since \in BOOLEAN
  BY SoundTable
<1>2. /\ sources' = new /\ selected' = selected /\ last_updated' = last_updated /\ since' = since
      /\ sel_level' \in Nat /\ calls' \in Calls /\ calls'.ref # "set"
      /\ new = [i \in 1..n |-> new[i]] /\ \A i \in 1..n : Modest(new[i], sources[i])
  BY Zenon DEF ModestStep
<1>3. n \in Nat
  BY <1>1
<1> HIDE DEF n
<1>4. new \in [1..n -> Source]
  BY <1>2, Zenon DEF Modest
<1>5. new \in Seq(Source) /\ Len(new) = n
  BY <1>3, <1>4, FunctionSeq, Zenon
<1>6. selected # 0 => selected \in 1..n
  BY <1>1, <1>3 DEF TableSound
<1>7. TableSound(n, new, selected)
  <2>1. \A i \in 1..n : /\ new[i].status = "Selected" => i = selected
                        /\ new[i].status = "Unselected" => new[i].distant = 0
                        /\ new[i].status = "Distant" => new[i].distant > 0
                        /\ new[i].reach < 2^new[i].size
    <3> SUFFICES ASSUME NEW i \in 1..n
                 PROVE  /\ new[i].status = "Selected" => i = selected
                        /\ new[i].status = "Unselected" => new[i].distant = 0
                        /\ new[i].status = "Distant" => new[i].distant > 0
                        /\ new[i].reach < 2^new[i].size
      OBVIOUS
    <3>1. Modest(new[i], sources[i])
      BY <1>2, Zenon
    <3>2. /\ sources[i].status = "Selected" => i = selected
          /\ sources[i].status = "Unselected" => sources[i].distant = 0
          /\ sources[i].status = "Distant" => sources[i].distant > 0
      BY <1>1, Zenon DEF TableSound
    <3>3. CASE new[i].status = sources[i].status /\ new[i].distant = sources[i].distant
      BY <3>1, <3>2, <3>3, Zenon DEF Modest
    <3>4. CASE new[i].status = "BadStats" /\ new[i].distant = 0
      BY <3>1, <3>4 DEF Modest
    <3> QED BY <3>1, <3>3, <3>4, Zenon DEF Modest
  <2>2. selected # 0 => new[selected].status \in {"Selected", "BadStats"} /\ new[selected].distant = 0
    <3>1. selected # 0 => /\ Modest(new[selected], sources[selected])
                          /\ sources[selected].status \in {"Selected", "BadStats"} /\ sources[selected].distant = 0
      BY <1>1, <1>2, <1>6, Zenon DEF TableSound
    <3> QED BY <3>1, Zenon DEF Modest
  <2> QED BY <1>1, <1>4, <2>1, <2>2, Zenon DEF TableSound
<1>8. RegistrySound'
  <2>1. sources' \in Seq(Source) /\ TableSound(Len(sources'), sources', selected')
    BY <1>2, <1>5, <1>7, Zenon
  <2>2. last_updated' \in 0..MaxSources /\ since' \in BOOLEAN
    BY <1>1, <1>2, Zenon
  <2> QED BY <1>2, <2>1, <2>2, TableSoundNext, Zenon
<1>9. Quiet
  <2>1. selected # 0 => new[selected].ref_id = sources[selected].ref_id
    BY <1>2, <1>6, Zenon DEF Modest
  <2> QED BY <1>2, <2>1, Zenon DEF Quiet, RefIdAt
<1> QED BY <1>8, <1>9, Zenon DEF StepSound

LEMMA NoCallsTyped ==
  /\ NoCalls \in Calls /\ NoCalls.ref = "none"
  /\ \A b \in BOOLEAN : [NoCalls EXCEPT !.select = b] \in Calls /\ [NoCalls EXCEPT !.select = b].ref = "none"
BY Zenon DEF NoCalls, Calls, AllLeaps

LEMMA FreshModest ==
  ASSUME NEW s \in Source
  PROVE  Modest(Fresh(s), s)
<1>1. /\ 0 \in 0..MaxUpdates /\ 0 \in 0..(2^ReachBits - 1) /\ 0 \in 0..ReachBits /\ 0 \in 0..DistantPenalty
      /\ 0 \in 0..MaxBad /\ 0 \in Nat /\ 2^0 = 1 /\ 0 < 1
  BY RegistryAssumption
<1>2. "BadStats" \in Statuses \ {"Ok"} /\ "unsynchronised" \in AllLeaps
  BY DEF Statuses, AllLeaps
<1>3. Fresh(s) \in Source
  BY <1>1, <1>2, Zenon DEF Fresh, Source
<1>4. /\ Fresh(s).ref_id = s.ref_id /\ Fresh(s).reach = 0 /\ Fresh(s).size = 0
      /\ Fresh(s).status = "BadStats" /\ Fresh(s).distant = 0
  BY Zenon DEF Fresh, Source
<1> QED BY <1>1, <1>3, <1>4, Zenon DEF Modest

\* A source of the table that an operation leaves alone.
LEMMA SameModest ==
  ASSUME RegistrySound
  PROVE  /\ Len(sources) \in Nat /\ sources \in [1..Len(sources) -> Source] /\ sel_level \in Nat
         /\ DOMAIN sources = 1..Len(sources)
         /\ \A i \in 1..Len(sources) : sources[i] \in Source /\ Modest(sources[i], sources[i])
<1>1. sources \in Seq(Source) /\ TableSound(Len(sources), sources, selected) /\ sel_level \in Nat
  BY SoundTable
<1>2. sources \in [1..Len(sources) -> Source] /\ DOMAIN sources = 1..Len(sources) /\ Len(sources) \in Nat
  BY <1>1
<1> QED BY <1>1, <1>2, Zenon DEF TableSound, Modest

OneStep(i, x) ==
  /\ i \in Indices /\ Modest(x, sources[i]) /\ sources' = [sources EXCEPT ![i] = x]
  /\ selected' = selected /\ last_updated' = last_updated /\ since' = since
  /\ sel_level' \in Nat /\ calls' \in Calls /\ calls'.ref # "set"

LEMMA OneKeeps ==
  ASSUME RegistrySound, NEW i, NEW x, OneStep(i, x)
  PROVE  StepSound
<1>1. /\ DOMAIN sources = 1..Len(sources) /\ sources \in [1..Len(sources) -> Source]
      /\ \A j \in 1..Len(sources) : Modest(sources[j], sources[j])
  BY SameModest
<1>2. i \in 1..Len(sources) /\ Modest(x, sources[i])
  BY Zenon DEF OneStep, Indices
<1>3. PICK new : new = [sources EXCEPT ![i] = x]
  BY Zenon
<1>4. /\ DOMAIN new = 1..Len(sources) /\ new = [j \in 1..Len(sources) |-> new[j]]
      /\ \A j \in 1..Len(sources) : new[j] = IF j = i THEN x ELSE sources[j]
  BY <1>1, <1>2, <1>3, Zenon
<1>5. \A j \in 1..Len(sources) : Modest(new[j], sources[j])
  BY <1>1, <1>2, <1>4, Zenon
<1>6. ModestStep(new)
  BY <1>3, <1>4, <1>5, Zenon DEF ModestStep, OneStep
<1> QED BY <1>6, ModestKeeps, Zenon

LEMMA ResetInstanceKeeps ==
  ASSUME RegistrySound, NEW i \in Indices, ResetInstance(i)
  PROVE  StepSound
<1>1. sources[i] \in Source /\ sel_level \in Nat /\ 0 \in Nat /\ i \in DOMAIN sources
  BY SameModest, Zenon DEF Indices
<1>2. Modest(Fresh(sources[i]), sources[i])
  BY <1>1, FreshModest
<1>3. calls' \in Calls /\ calls'.ref = "none" /\ sel_level' \in Nat
  <2>1. PICK b \in BOOLEAN : b = (selected = i)
    BY Zenon
  <2> QED BY <1>1, <2>1, NoCallsTyped, Zenon DEF ResetInstance
<1>4. sources' = [sources EXCEPT ![i] = Fresh(sources[i])]
  BY Zenon DEF ResetInstance
<1>5. calls'.ref # "set"
  BY <1>3
<1>6. OneStep(i, Fresh(sources[i]))
  BY <1>2, <1>3, <1>4, <1>5, Zenon DEF OneStep, ResetInstance
<1> QED BY <1>6, OneKeeps, Zenon

LEMMA ResetSourcesKeeps ==
  ASSUME RegistrySound, ResetSources
  PROVE  StepSound
<1>1. \A i \in Indices : Modest(Fresh(sources[i]), sources[i])
  BY SameModest, FreshModest, Zenon DEF Indices
<1>2. PICK new : new = [i \in Indices |-> Fresh(sources[i])]
  BY Zenon
<1>3. /\ DOMAIN new = 1..Len(sources) /\ new = [i \in 1..Len(sources) |-> new[i]]
      /\ \A i \in 1..Len(sources) : Modest(new[i], sources[i])
  BY <1>1, <1>2, Zenon DEF Indices
<1>4. calls' \in Calls /\ calls'.ref # "set"
  <2>1. PICK b \in BOOLEAN : b = (selected # 0)
    BY Zenon
  <2>2. calls' \in Calls /\ calls'.ref = "none"
    BY <2>1, NoCallsTyped, Zenon DEF ResetSources
  <2> QED BY <2>2
<1>5. sel_level' \in Nat
  BY DEF ResetSources
<1>6. ModestStep(new)
  BY <1>2, <1>3, <1>4, <1>5, Zenon DEF ModestStep, ResetSources
<1> QED BY <1>6, ModestKeeps, Zenon

LEMMA SetActiveKeeps ==
  ASSUME RegistrySound, NEW i \in Indices, NEW on \in Actives, SetActive(i, on)
  PROVE  StepSound
<1>1. sources[i] \in Source /\ Modest(sources[i], sources[i]) /\ sel_level \in Nat /\ i \in DOMAIN sources
  BY SameModest, Zenon DEF Indices
<1>2. on \in BOOLEAN
  BY RegistryAssumption
<1>3. PICK x : x = [sources[i] EXCEPT !.active = on]
  BY Zenon
<1>4. Modest(x, sources[i])
  BY <1>1, <1>2, <1>3, Zenon DEF Modest, Source
<1>5. NoCalls \in Calls /\ NoCalls.ref # "set"
  BY NoCallsTyped
<1>6. OneStep(i, x)
  BY <1>1, <1>3, <1>4, <1>5, Zenon DEF OneStep, SetActive
<1> QED BY <1>6, OneKeeps, Zenon

LEMMA LeapStatusTyped == \A srcs : LeapStatus(srcs) \in AllLeaps
<1>1. {"insert", "delete", "normal"} \subseteq AllLeaps
  BY DEF AllLeaps
<1> QED BY <1>1, Zenon DEF LeapStatus

LEMMA UpdateStatusKeeps ==
  ASSUME RegistrySound, NEW i \in Indices, NEW stratum \in Strata, NEW leap \in Leaps, NEW close \in LeapCloses,
         UpdateStatus(i, stratum, leap, close)
  PROVE  StepSound
<1>1. sources[i] \in Source /\ Modest(sources[i], sources[i]) /\ sel_level \in Nat /\ i \in DOMAIN sources
  BY SameModest, Zenon DEF Indices
<1>2. stratum \in Nat /\ leap \in AllLeaps
  BY RegistryAssumption
<1>3. PICK x : x = [sources[i] EXCEPT !.stratum = stratum, !.leap = IF close THEN @ ELSE leap]
  OBVIOUS
<1>4. Modest(x, sources[i])
  <2>1. sources[i].leap \in AllLeaps
    BY <1>1, Zenon DEF Source
  <2>2. x = [sources[i] EXCEPT !.stratum = stratum, !.leap = IF close THEN sources[i].leap ELSE leap]
    BY <1>1, <1>3, Zenon DEF Source
  <2>3. (IF close THEN sources[i].leap ELSE leap) \in AllLeaps
    BY <1>2, <2>1, Zenon
  <2>4. x \in Source
    BY <1>1, <1>2, <2>2, <2>3, Zenon DEF Source
  <2>5. /\ x.ref_id = sources[i].ref_id /\ x.reach = sources[i].reach /\ x.size = sources[i].size
        /\ x.status = sources[i].status /\ x.distant = sources[i].distant
    BY <1>1, <2>2, Zenon DEF Source
  <2> QED BY <1>1, <2>4, <2>5, Zenon DEF Modest
<1>5. sources' = [sources EXCEPT ![i] = x]
  <2>1. sources' = [sources EXCEPT ![i].stratum = stratum, ![i].leap = IF close THEN @ ELSE leap]
    BY Zenon DEF UpdateStatus
  <2> QED BY <1>1, <1>3, <2>1, Zenon
<1>6. calls' \in Calls /\ calls'.ref # "set"
  <2>1. PICK l \in AllLeaps : calls' \in {NoCalls, [NoCalls EXCEPT !.ref = "leap", !.leap = l]}
    BY LeapStatusTyped, Zenon DEF UpdateStatus
  <2>2. [NoCalls EXCEPT !.ref = "leap", !.leap = l] \in Calls /\ [NoCalls EXCEPT !.ref = "leap", !.leap = l].ref = "leap"
    BY <2>1, Zenon DEF NoCalls, Calls, AllLeaps
  <2> QED BY <2>1, <2>2, NoCallsTyped, Zenon
<1>7. OneStep(i, x)
  BY <1>1, <1>4, <1>5, <1>6, Zenon DEF OneStep, UpdateStatus
<1> QED BY <1>7, OneKeeps, Zenon

LEMMA ModBounds ==
  ASSUME NEW x \in Nat, NEW m \in Nat, m > 0
  PROVE  x % m \in 0..(m - 1) /\ x % m <= x
<1>1. x % m \in 0..(m - 1)
  OBVIOUS
<1>2. x % m <= x
  OBVIOUS
<1> QED BY <1>1, <1>2

\* The values of a register that its size counts.
Registered(r, z) == r \in 0..(2^ReachBits - 1) /\ z \in 0..ReachBits /\ r < 2^z

LEMMA RegisterShifts ==
  ASSUME NEW r, NEW z, Registered(r, z), NEW b \in {0, 1}
  PROVE  Registered((2 * r + b) % 2^ReachBits, Min({z + 1, ReachBits}))
<1>1. ReachBits \in Nat \ {0} /\ \A n \in 0..ReachBits : 2^n \in Nat \ {0} /\ 2^(n + 1) = 2 * 2^n
  BY RegistryAssumption
<1>2. r \in 0..(2^ReachBits - 1) /\ z \in 0..ReachBits /\ r < 2^z
  BY DEF Registered
<1>3. PICK p : p = 2^ReachBits
  OBVIOUS
<1>4. PICK q : q = 2^z
  OBVIOUS
<1>5. p \in Nat /\ p > 0 /\ q \in Nat /\ q > 0 /\ r \in Nat /\ r < q /\ z \in Nat
  BY <1>1, <1>2, <1>3, <1>4
<1>6. PICK x \in Nat : x = 2 * r + b
  BY <1>5
<1>7. x % p \in 0..(p - 1) /\ x % p <= x
  BY <1>5, ModBounds
<1>8. Min({z + 1, ReachBits}) = IF z + 1 <= ReachBits THEN z + 1 ELSE ReachBits
  BY <1>1, <1>5, MinPair
<1>9. CASE z < ReachBits
  <2>1. Min({z + 1, ReachBits}) = z + 1 /\ z + 1 \in 0..ReachBits
    BY <1>1, <1>5, <1>8, <1>9
  <2>2. 2^(z + 1) = 2 * q
    BY <1>1, <1>2, <1>4
  <2>3. x % p < 2 * q
    <3>1. x % p \in Int /\ x <= 2 * r + 1 /\ r <= q - 1
      BY <1>5, <1>6, <1>7
    <3> QED BY <1>5, <1>6, <1>7, <3>1
  <2> QED BY <1>3, <1>6, <1>7, <2>1, <2>2, <2>3, Zenon DEF Registered
<1>10. CASE z = ReachBits
  <2>1. Min({z + 1, ReachBits}) = ReachBits /\ ReachBits \in 0..ReachBits
    BY <1>1, <1>5, <1>8, <1>10
  <2>2. x % p < p
    BY <1>5, <1>7
  <2> QED BY <1>3, <1>6, <1>7, <2>1, <2>2, Zenon DEF Registered
<1> QED BY <1>1, <1>2, <1>9, <1>10

LEMMA ShiftedModest ==
  ASSUME NEW s, NEW t, NEW reachable, Modest(s, t)
  PROVE  Modest(Shifted(s, reachable), t) /\ Shifted(s, reachable).ref_id \in Nat
<1>1. s \in Source /\ s.reach < 2^s.size
  BY Zenon DEF Modest
<1>2. Registered(s.reach, s.size)
  BY <1>1, Zenon DEF Source, Registered
<1>3. PICK b \in {0, 1} : b = IF reachable THEN 1 ELSE 0
  OBVIOUS
<1>4. PICK r, z : r = (2 * s.reach + b) % 2^ReachBits /\ z = Min({s.size + 1, ReachBits})
  OBVIOUS
<1>5. Registered(r, z)
  BY <1>2, <1>4, RegisterShifts, Zenon
<1>6. Shifted(s, reachable) = [s EXCEPT !.reach = r, !.size = z]
  BY <1>1, <1>3, <1>4, Zenon DEF Shifted, Source
<1>7. Shifted(s, reachable) \in Source
  BY <1>1, <1>5, <1>6, ZenonT(60) DEF Source, Registered
<1>8. /\ Shifted(s, reachable).reach = r /\ Shifted(s, reachable).size = z
      /\ Shifted(s, reachable).ref_id = s.ref_id
      /\ Shifted(s, reachable).status = s.status /\ Shifted(s, reachable).distant = s.distant
  BY <1>1, <1>6, Zenon DEF Source
<1>9. s.ref_id \in Nat
  BY <1>1 DEF Source
<1> QED BY <1>5, <1>7, <1>8, <1>9, Zenon DEF Modest, Registered

\* update_reachability, on the table as it is or with the register of the
\* source cleared.
Polled(srcs, i) ==
  /\ i \in Indices /\ Modest(srcs[i], sources[i]) /\ i \in DOMAIN srcs
  /\ \E x : srcs = [sources EXCEPT ![i] = x]

LEMMA ReachabilityKeeps ==
  ASSUME RegistrySound, NEW srcs, NEW i, NEW reachable, Polled(srcs, i), Reachability(srcs, i, reachable)
  PROVE  StepSound
<1>1. i \in 1..Len(sources) /\ i \in Indices /\ i \in DOMAIN srcs /\ Modest(srcs[i], sources[i])
  BY Zenon DEF Polled, Indices
<1>2. PICK x : x = Shifted(srcs[i], reachable)
  OBVIOUS
<1>3. Modest(x, sources[i]) /\ x.ref_id \in Nat
  BY <1>1, <1>2, ShiftedModest, Zenon
<1>4. PICK new : new = [srcs EXCEPT ![i] = x]
  BY Zenon
<1>5. new[i] = x /\ new = [sources EXCEPT ![i] = x]
  BY <1>1, <1>4, SameModest, Zenon DEF Polled
<1>6. PICK ref \in {"unsync", "none"}, rep \in {{}, {x.ref_id}}, sel \in BOOLEAN :
         /\ sources' = new /\ UNCHANGED <<selected, last_updated, sel_level, since>>
         /\ calls' = [NoCalls EXCEPT !.select = sel, !.ref = ref, !.replace = rep]
  <2>1. PICK normal \in NormalModes, samples \in [Indices -> SampleCounts] :
          /\ sources' = new /\ UNCHANGED <<selected, last_updated, sel_level, since>>
          /\ calls' = [NoCalls EXCEPT !.select = ~ reachable /\ i = selected,
                         !.ref = IF ~ normal /\ SpecialModeEnd(new, samples) THEN "unsync" ELSE "none",
                         !.replace = IF new[i].reach = 0 /\ new[i].size = ReachBits /\ new[i].type = "ntp"
                                     THEN {new[i].ref_id} ELSE {}]
    BY <1>2, <1>4, Zenon DEF Reachability
  <2>2. PICK ref \in {"unsync", "none"} : ref = IF ~ normal /\ SpecialModeEnd(new, samples) THEN "unsync" ELSE "none"
    OBVIOUS
  <2>3. PICK rep \in {{}, {x.ref_id}} : rep = IF new[i].reach = 0 /\ new[i].size = ReachBits /\ new[i].type = "ntp"
                                     THEN {new[i].ref_id} ELSE {}
    BY <1>5
  <2>4. PICK sel \in BOOLEAN : sel = (~ reachable /\ i = selected)
    BY Zenon
  <2> QED BY <2>1, <2>2, <2>3, <2>4, Zenon
<1>7. calls' \in Calls /\ calls'.ref # "set"
  <2>1. rep \in SUBSET Nat /\ ref \in {"none", "unsync", "set", "leap"} /\ ref # "set"
    BY <1>3, <1>6
  <2> QED BY <1>6, <2>1, NoCallsTyped, Zenon DEF Calls
<1>8. OneStep(i, x)
  BY <1>1, <1>3, <1>5, <1>6, <1>7, SameModest, Zenon DEF OneStep
<1> QED BY <1>8, OneKeeps, Zenon

LEMMA UpdateReachabilityKeeps ==
  ASSUME RegistrySound, NEW i \in Indices, NEW reachable, UpdateReachability(i, reachable)
  PROVE  StepSound
<1>1. i \in DOMAIN sources /\ Modest(sources[i], sources[i]) /\ sources = [sources EXCEPT ![i] = sources[i]]
  BY SameModest DEF Indices
<1>2. Polled(sources, i)
  BY <1>1, Zenon DEF Polled
<1> QED BY <1>2, ReachabilityKeeps, Zenon DEF UpdateReachability

LEMMA ResetReachabilityKeeps ==
  ASSUME RegistrySound, NEW i \in Indices, ResetReachability(i)
  PROVE  StepSound
<1>1. i \in DOMAIN sources /\ Modest(sources[i], sources[i]) /\ sources[i] \in Source
  BY SameModest, Zenon DEF Indices
<1>2. PICK x : x = [sources[i] EXCEPT !.reach = 0, !.size = 0]
  OBVIOUS
<1>3. PICK srcs : srcs = [sources EXCEPT ![i].reach = 0, ![i].size = 0]
  BY Zenon
<1>4. srcs = [sources EXCEPT ![i] = x] /\ i \in DOMAIN srcs /\ srcs[i] = x
  BY <1>1, <1>2, <1>3, Zenon
<1>5. 0 \in 0..(2^ReachBits - 1) /\ 0 \in 0..ReachBits /\ 2^0 = 1 /\ 0 < 1
  BY RegistryAssumption
<1>6. Modest(x, sources[i])
  <2>1. x \in Source
    BY <1>1, <1>2, <1>5, Zenon DEF Source
  <2>2. /\ x.ref_id = sources[i].ref_id /\ x.reach = 0 /\ x.size = 0
        /\ x.status = sources[i].status /\ x.distant = sources[i].distant
    BY <1>1, <1>2, Zenon DEF Source
  <2> QED BY <1>5, <2>1, <2>2, Zenon DEF Modest
<1>7. Polled(srcs, i)
  BY <1>4, <1>6, Zenon DEF Polled
<1>8. Reachability(srcs, i, FALSE)
  BY <1>3, Zenon DEF ResetReachability
<1> QED BY <1>7, <1>8, ReachabilityKeeps, Zenon

LEMMA OptionsModest ==
  ASSUME NEW s, NEW t, NEW new \in SUBSET AllOptions, Modest(s, t)
  PROVE  Modest([s EXCEPT !.options = new], t) /\ Modest([s EXCEPT !.conf = new], t)
<1>1. s \in Source
  BY Zenon DEF Modest
<1>2. [s EXCEPT !.options = new] \in Source /\ [s EXCEPT !.conf = new] \in Source
  BY <1>1, Zenon DEF Source
<1>3. Modest([s EXCEPT !.options = new], t)
  BY <1>1, <1>2, Zenon DEF Modest, Source
<1>4. Modest([s EXCEPT !.conf = new], t)
  BY <1>1, <1>2, Zenon DEF Modest, Source
<1> QED BY <1>3, <1>4

\* update_sel_options, on a table whose sources are those of the registry.
ModestTable(srcs) ==
  DOMAIN srcs = 1..Len(sources) /\ \A i \in 1..Len(sources) : Modest(srcs[i], sources[i])

LEMMA WithSelOptionsKeeps ==
  ASSUME RegistrySound, NEW srcs, ModestTable(srcs), sources' = WithSelOptions(srcs),
         calls' = NoCalls, UNCHANGED <<selected, last_updated, sel_level, since>>
  PROVE  StepSound
<1>1. DOMAIN srcs = 1..Len(sources) /\ \A i \in 1..Len(sources) : Modest(srcs[i], sources[i])
  BY Zenon DEF ModestTable
<1>2. {"require", "trust"} \in SUBSET AllOptions /\ {"noselect"} \in SUBSET AllOptions /\ {} \in SUBSET AllOptions
  BY DEF AllOptions
<1> DEFINE ntp(a) == {i \in DOMAIN srcs : /\ "noselect" \notin srcs[i].conf
                                          /\ srcs[i].type = "ntp" /\ srcs[i].auth = a}
           added(s) ==
             CASE "noselect" \in s.conf -> {}
               [] Mode = "mix" /\ ntp(TRUE) # {} /\ ntp(FALSE) # {} /\ (s.type = "refclock" \/ s.auth)
                    -> {"require", "trust"}
               [] Mode \in {"prefer", "require"} /\ ntp(TRUE) # {} /\ s.type = "ntp" /\ ~ s.auth
                    -> {"noselect"}
               [] OTHER -> {}
           new(i) == [srcs[i] EXCEPT !.options = srcs[i].conf \cup added(srcs[i])]
<1>3. WithSelOptions(srcs) = [i \in DOMAIN srcs |-> new(i)]
  BY DEF WithSelOptions
<1> HIDE DEF ntp
<1>4. \A s : added(s) \in SUBSET AllOptions
  BY <1>2, Zenon
<1> HIDE DEF added
<1>5. \A i \in 1..Len(sources) : Modest(new(i), sources[i])
  <2> SUFFICES ASSUME NEW i \in 1..Len(sources) PROVE Modest(new(i), sources[i])
    OBVIOUS
  <2>1. Modest(srcs[i], sources[i])
    BY <1>1, Zenon
  <2>2. srcs[i].conf \in SUBSET AllOptions
    BY <2>1, Zenon DEF Modest, Source
  <2>3. srcs[i].conf \cup added(srcs[i]) \in SUBSET AllOptions
    BY <1>4, <2>2, Zenon
  <2> QED BY <2>1, <2>3, OptionsModest, Zenon
<1> HIDE DEF new
<1>6. PICK table : table = WithSelOptions(srcs)
  OBVIOUS
<1>7. /\ DOMAIN table = 1..Len(sources) /\ table = [i \in 1..Len(sources) |-> table[i]]
      /\ \A i \in 1..Len(sources) : Modest(table[i], sources[i])
  BY <1>1, <1>3, <1>5, <1>6, Zenon
<1>8. calls' \in Calls /\ calls'.ref # "set"
  BY NoCallsTyped
<1>9. ModestStep(table)
  BY <1>6, <1>7, <1>8, SameModest, Zenon DEF ModestStep
<1> QED BY <1>9, ModestKeeps, Zenon

LEMMA UpdateSelOptionsKeeps ==
  ASSUME RegistrySound, UpdateSelOptions
  PROVE  StepSound
<1>1. ModestTable(sources)
  BY SameModest, Zenon DEF ModestTable
<1> QED BY <1>1, WithSelOptionsKeeps, Zenon DEF UpdateSelOptions

LEMMA ModifySelectOptionsKeeps ==
  ASSUME RegistrySound, NEW i \in Indices, NEW options \in Options, ModifySelectOptions(i, options)
  PROVE  StepSound
<1>1. /\ i \in DOMAIN sources /\ DOMAIN sources = 1..Len(sources)
      /\ \A j \in 1..Len(sources) : Modest(sources[j], sources[j])
  BY SameModest, Zenon DEF Indices
<1>2. options \in SUBSET AllOptions
  BY RegistryAssumption
<1>3. PICK x : x = [sources[i] EXCEPT !.conf = options]
  BY Zenon
<1>4. Modest(x, sources[i])
  BY <1>1, <1>2, <1>3, OptionsModest, Zenon DEF Indices
<1>5. PICK srcs : srcs = [sources EXCEPT ![i] = x]
  BY Zenon
<1>6. srcs = [sources EXCEPT ![i].conf = options]
  BY <1>1, <1>3, <1>5
<1>7. ModestTable(srcs)
  BY <1>1, <1>4, <1>5, Zenon DEF ModestTable
<1> QED BY <1>6, <1>7, WithSelOptionsKeeps, Zenon DEF ModifySelectOptions

LEMMA CreateInstanceKeeps ==
  ASSUME RegistrySound, NEW k \in Kinds, CreateInstance(k)
  PROVE  StepSound
<1> DEFINE n == Len(sources)
           blank == [ref_id |-> k.ref_id, type |-> k.type, auth |-> k.auth, conf |-> k.conf, options |-> k.conf,
                     active |-> FALSE, reach |-> 0, size |-> 0, updates |-> 0, distant |-> 0, bad |-> 0,
                     status |-> "BadStats", score |-> 0, stratum |-> 0,
                     leap |-> "unsynchronised", vote |-> FALSE, latest |-> FALSE]
           s == Fresh(blank)
<1>1. /\ sources \in Seq(Source) /\ TableSound(n, sources, selected)
      /\ last_updated \in 0..MaxSources /\ sel_level \in Nat /\ since \in BOOLEAN
  BY SoundTable
<1>2. k \in [ref_id : Nat \ {0}, type : {"ntp", "refclock"}, auth : BOOLEAN, conf : SUBSET AllOptions]
  BY RegistryAssumption
<1>3. blank \in Source
  <2>1. /\ 0 \in 0..MaxUpdates /\ 0 \in 0..(2^ReachBits - 1) /\ 0 \in 0..ReachBits /\ 0 \in 0..DistantPenalty
        /\ 0 \in 0..MaxBad /\ 0 \in Nat
    BY RegistryAssumption
  <2>2. "BadStats" \in Statuses \ {"Ok"} /\ "unsynchronised" \in AllLeaps
    BY DEF Statuses, AllLeaps
  <2> QED BY <1>2, <2>1, <2>2, Zenon DEF Source
<1>4. Modest(s, blank)
  BY <1>3, FreshModest
<1>5. s.status = "BadStats" /\ s.distant = 0 /\ s \in Source /\ s.reach < 2^s.size
  BY <1>3, <1>4, Zenon DEF Modest
<1>6. /\ sources' = Append(sources, s) /\ n < MaxSources /\ calls' = NoCalls
      /\ selected' = selected /\ last_updated' = last_updated /\ sel_level' = sel_level /\ since' = since
  BY Zenon DEF CreateInstance
<1> HIDE DEF s
<1>7. PICK new : new = Append(sources, s)
  BY Zenon
<1>8. /\ n \in Nat /\ n + 1 \in Nat /\ n + 1 <= MaxSources /\ new \in Seq(Source) /\ Len(new) = n + 1
      /\ new \in [1..(n + 1) -> Source] /\ new[n + 1] = s /\ \A i \in 1..n : new[i] = sources[i]
  <2>1. MaxSources \in Nat
    BY RegistryAssumption
  <2>2. n \in Nat /\ n + 1 \in Nat /\ n + 1 <= MaxSources
    BY <1>1, <1>6, <2>1
  <2>3. /\ new \in Seq(Source) /\ Len(new) = n + 1 /\ new[n + 1] = s
        /\ \A i \in 1..n : new[i] = sources[i]
    BY <1>1, <1>5, <1>7, AppendProperties
  <2>4. new \in [1..(n + 1) -> Source]
    BY <2>3
  <2> QED BY <2>2, <2>3, <2>4, Zenon
<1> HIDE DEF n
<1>9. \A i \in 1..(n + 1) : i \in 1..n \/ i = n + 1
  BY <1>8
<1>10. selected \in 0..(n + 1) /\ (selected # 0 => selected \in 1..n)
  BY <1>1, <1>8 DEF TableSound
<1>11. TableSound(n + 1, new, selected)
  <2>1. \A i \in 1..(n + 1) :
           /\ new[i].status = "Selected" => i = selected
           /\ new[i].status = "Unselected" => new[i].distant = 0
           /\ new[i].status = "Distant" => new[i].distant > 0
           /\ new[i].reach < 2^new[i].size
    <3> SUFFICES ASSUME NEW i \in 1..(n + 1)
                 PROVE  /\ new[i].status = "Selected" => i = selected
                        /\ new[i].status = "Unselected" => new[i].distant = 0
                        /\ new[i].status = "Distant" => new[i].distant > 0
                        /\ new[i].reach < 2^new[i].size
      OBVIOUS
    <3>1. CASE i \in 1..n
      BY <1>1, <1>8, <3>1, Zenon DEF TableSound
    <3>2. CASE i = n + 1
      BY <1>5, <1>8, <3>2
    <3> QED BY <1>9, <3>1, <3>2
  <2>2. selected # 0 => new[selected].status \in {"Selected", "BadStats"} /\ new[selected].distant = 0
    BY <1>1, <1>8, <1>10, Zenon DEF TableSound
  <2> QED BY <1>8, <1>10, <2>1, <2>2, ZenonT(60) DEF TableSound
<1>12. RegistrySound'
  <2>1. sources' \in Seq(Source) /\ TableSound(Len(sources'), sources', selected')
    BY <1>6, <1>7, <1>8, <1>11, Zenon
  <2>2. last_updated' \in 0..MaxSources /\ sel_level' \in Nat /\ since' \in BOOLEAN /\ calls' \in Calls
    BY <1>1, <1>6, NoCallsTyped, Zenon
  <2> QED BY <2>1, <2>2, TableSoundNext, Zenon
<1>13. Quiet
  <2>1. selected # 0 => new[selected].ref_id = sources[selected].ref_id
    BY <1>8, <1>10, Zenon
  <2>2. calls'.ref # "set"
    BY <1>6, NoCallsTyped
  <2> QED BY <1>6, <1>7, <2>1, <2>2, Zenon DEF Quiet, RefIdAt
<1> QED BY <1>12, <1>13, Zenon DEF StepSound

-----------------------------------------------------------------------------
(* The operations that end in a pass. *)

LEMMA SelectStepSound ==
  ASSUME NEW n, NEW srcs, NEW sel, NEW upd, NEW last, NEW forced,
         Selectable(n, srcs, sel, last, forced), Select(srcs, sel, upd, last, forced)
  PROVE  StepSound
BY SelectKeeps, Zenon DEF StepSound

\* A source that is counted one more update: everything else but the history
\* variable is kept.
LEMMA UpdatedSource ==
  ASSUME NEW s \in Source, NEW u \in 0..MaxUpdates, NEW l \in BOOLEAN
  PROVE  LET r == [s EXCEPT !.updates = u, !.latest = l]
         IN  r \in Source /\ r.reach = s.reach /\ r.size = s.size /\ r.distant = s.distant
BY Zenon DEF Source

LEMMA OneMoreUpdate ==
  ASSUME NEW u \in 0..MaxUpdates
  PROVE  Min({u + 1, MaxUpdates}) \in 0..MaxUpdates
<1>1. MaxUpdates \in Nat
  BY RegistryAssumption
<1>2. Min({u + 1, MaxUpdates}) = IF u + 1 <= MaxUpdates THEN u + 1 ELSE MaxUpdates
  BY <1>1, MinPair
<1> QED BY <1>1, <1>2

\* What a pass needs of the state the registry is in.
LEMMA PassReady ==
  ASSUME RegistrySound
  PROVE  /\ Len(sources) \in Nat /\ Len(sources) <= MaxSources /\ sources \in [1..Len(sources) -> Source]
         /\ sources \in Seq(Source)
         /\ selected \in 0..Len(sources) /\ (selected # 0 => sources[selected].distant = 0)
         /\ \A i \in 1..Len(sources) : sources[i].reach < 2^sources[i].size
         /\ last_updated \in 0..MaxSources /\ sel_level \in Nat /\ since \in BOOLEAN
BY SoundTable, Zenon DEF TableSound

LEMMA SelectSourceKeeps ==
  ASSUME RegistrySound, NEW u \in 0..Len(sources), SelectSource(u)
  PROVE  StepSound
<1> DEFINE n == Len(sources)
           upd(i) == IF i = u THEN Min({sources[i].updates + 1, MaxUpdates}) ELSE sources[i].updates
           late(i) == IF u = 0 THEN sources[i].latest ELSE i = u
           new(i) == [sources[i] EXCEPT !.updates = upd(i), !.latest = late(i)]
           last == IF u = 0 THEN last_updated ELSE u
<1>1. /\ n \in Nat /\ n <= MaxSources /\ sources \in [1..n -> Source]
      /\ selected \in 0..n /\ (selected # 0 => sources[selected].distant = 0)
      /\ \A i \in 1..n : sources[i].reach < 2^sources[i].size
      /\ last_updated \in 0..MaxSources /\ sel_level \in Nat /\ since \in BOOLEAN
  BY PassReady, SMTT(30)
<1>2. PICK srcs : srcs = [i \in 1..n |-> new(i)]
  BY Zenon
<1>3. Select(srcs, selected, u, last, FALSE)
  <2>1. \A i \in 1..n : new(i) = [sources[i] EXCEPT !.updates = IF i = u THEN Min({@ + 1, MaxUpdates}) ELSE @,
                                                    !.latest = IF u = 0 THEN @ ELSE i = u]
    BY <1>1, Zenon DEF Source
  <2>2. srcs = [i \in Indices |-> [sources[i] EXCEPT !.updates = IF i = u THEN Min({@ + 1, MaxUpdates}) ELSE @,
                                                     !.latest = IF u = 0 THEN @ ELSE i = u]]
    <3> HIDE DEF new
    <3> QED BY <1>2, <2>1, Zenon DEF Indices
  <2> QED BY <2>2, Zenon DEF SelectSource
<1>4. \A i \in 1..n : /\ new(i) \in Source /\ new(i).reach = sources[i].reach /\ new(i).size = sources[i].size
                      /\ new(i).distant = sources[i].distant
  <2> SUFFICES ASSUME NEW i \in 1..n
               PROVE  /\ new(i) \in Source /\ new(i).reach = sources[i].reach /\ new(i).size = sources[i].size
                      /\ new(i).distant = sources[i].distant
    BY Zenon
  <2>1. sources[i] \in Source
    BY <1>1, Zenon
  <2>2. sources[i].updates \in 0..MaxUpdates /\ sources[i].latest \in BOOLEAN
    BY <2>1, Zenon DEF Source
  <2>3. upd(i) \in 0..MaxUpdates
    BY <2>2, OneMoreUpdate, Zenon
  <2>4. late(i) \in BOOLEAN
    BY <2>2, Zenon
  <2> HIDE DEF upd, late
  <2> QED BY <2>1, <2>3, <2>4, UpdatedSource, ZenonT(60)
<1> HIDE DEF new
<1>5. srcs \in [1..n -> Source] /\ \A i \in 1..n : srcs[i] = new(i)
  BY <1>2, <1>4, Zenon
<1>6. \A i \in 1..n : srcs[i].reach < 2^srcs[i].size
  BY <1>1, <1>4, <1>5, Zenon
<1>7. selected # 0 => srcs[selected].distant = 0
  <2>1. selected # 0 => selected \in 1..n
    BY <1>1
  <2> QED BY <1>1, <1>4, <1>5, <2>1, Zenon
<1>8. last \in 0..MaxSources
  <2>1. MaxSources \in Nat
    BY RegistryAssumption
  <2> QED BY <1>1, <2>1
<1>9. Selectable(n, srcs, selected, last, FALSE)
  <2> HIDE DEF last, n
  <2> QED BY <1>1, <1>5, <1>6, <1>7, <1>8, Zenon DEF Selectable
<1> QED BY <1>3, <1>9, SelectStepSound, Zenon

LEMMA ReselectSourceKeeps ==
  ASSUME RegistrySound, ReselectSource
  PROVE  StepSound
<1>1. 0 \in 0..Len(sources)
  BY PassReady
<1>2. Selectable(Len(sources), sources, 0, last_updated, TRUE)
  BY <1>1, PassReady, Zenon DEF Selectable
<1> QED BY <1>2, SelectStepSound, Zenon DEF ReselectSource

LEMMA RemoveAtSources ==
  ASSUME NEW s \in Seq(Source), NEW i \in 1..Len(s)
  PROVE  /\ Len(RemoveAt(s, i)) = Len(s) - 1 /\ RemoveAt(s, i) \in [1..(Len(s) - 1) -> Source]
         /\ \A j \in 1..(Len(s) - 1) : RemoveAt(s, i)[j] = IF j < i THEN s[j] ELSE s[j + 1]
<1> DEFINE a == SubSeq(s, 1, i - 1)
           b == SubSeq(s, i + 1, Len(s))
           n == Len(s)
<1>1. n \in Nat /\ i \in Int /\ 1 <= i /\ i <= n
  OBVIOUS
<1>2. a \in Seq(Source) /\ Len(a) = i - 1 /\ \A j \in 1..(i - 1) : a[j] = s[j]
  BY <1>1
<1>3. b \in Seq(Source) /\ Len(b) = n - i /\ \A j \in 1..(n - i) : b[j] = s[i + j]
  BY <1>1
<1> HIDE DEF a, b, n
<1>4. a \o b \in Seq(Source) /\ Len(a \o b) = n - 1
  <2>1. a \o b \in Seq(Source) /\ Len(a \o b) = Len(a) + Len(b)
    BY <1>2, <1>3, ConcatProperties, Zenon
  <2>2. i - 1 + (n - i) = n - 1
    BY <1>1
  <2> QED BY <1>2, <1>3, <2>1, <2>2, Zenon
<1>5. \A j \in 1..(n - 1) : (a \o b)[j] = IF j < i THEN s[j] ELSE s[j + 1]
  <2> SUFFICES ASSUME NEW j \in 1..(n - 1) PROVE (a \o b)[j] = IF j < i THEN s[j] ELSE s[j + 1]
    BY Zenon
  <2>1. CASE j < i
    BY <1>1, <1>2, <1>3, <2>1
  <2>2. CASE ~ (j < i)
    <3>1. j - (i - 1) \in 1..(n - i) /\ i + (j - (i - 1)) = j + 1
      BY <1>1, <2>2
    <3>2. (a \o b)[j] = b[j - (i - 1)]
      BY <1>1, <1>2, <1>3, <2>2
    <3> QED BY <1>3, <2>2, <3>1, <3>2
  <2> QED BY <2>1, <2>2, Zenon
<1>6. a \o b \in [1..(n - 1) -> Source]
  <2>1. \A q \in Seq(Source) : q \in [1..Len(q) -> Source]
    OBVIOUS
  <2>2. a \o b \in [1..Len(a \o b) -> Source]
    BY <1>4, <2>1, Zenon
  <2> QED BY <1>4, <2>2, Zenon
<1> QED BY <1>4, <1>5, <1>6, Zenon DEF RemoveAt, a, b, n

LEMMA DestroyInstanceKeeps ==
  ASSUME RegistrySound, NEW i \in Indices, DestroyInstance(i)
  PROVE  StepSound
<1> DEFINE n == Len(sources) - 1
           sel == IF selected > i THEN selected - 1 ELSE IF selected = i THEN 0 ELSE selected
           last == IF last_updated = i THEN 0 ELSE last_updated
<1>1. /\ Len(sources) \in Nat /\ Len(sources) <= MaxSources /\ sources \in Seq(Source)
      /\ selected \in 0..Len(sources) /\ (selected # 0 => sources[selected].distant = 0)
      /\ \A j \in 1..Len(sources) : sources[j].reach < 2^sources[j].size
      /\ last_updated \in 0..MaxSources /\ sel_level \in Nat /\ since \in BOOLEAN
      /\ MaxSources \in Nat
  BY PassReady, RegistryAssumption
<1>2. i \in 1..Len(sources)
  BY DEF Indices
<1>3. PICK srcs : srcs = RemoveAt(sources, i)
  OBVIOUS
<1>4. srcs \in [1..n -> Source] /\ \A j \in 1..n : srcs[j] = IF j < i THEN sources[j] ELSE sources[j + 1]
  BY <1>1, <1>2, <1>3, RemoveAtSources, Zenon
<1>5. n \in Nat /\ n <= MaxSources /\ sel \in 0..n /\ last \in 0..MaxSources
  BY <1>1, <1>2
<1>6. \A j \in 1..n : srcs[j].reach < 2^srcs[j].size
  <2>1. \A j \in 1..n : j \in 1..Len(sources) /\ j + 1 \in 1..Len(sources)
    BY <1>1, <1>2
  <2> HIDE DEF n
  <2> QED BY <1>1, <1>4, <2>1, Zenon
<1>7. sel # 0 => srcs[sel].distant = 0
  <2>1. sel # 0 => sel \in 1..n /\ selected # 0 /\ selected = IF sel < i THEN sel ELSE sel + 1
    BY <1>1, <1>2
  <2> HIDE DEF sel, n
  <2> QED BY <1>1, <1>4, <2>1, Zenon
<1>8. Select(srcs, sel, 0, last, FALSE)
  BY <1>3, Zenon DEF DestroyInstance
<1>9. Selectable(n, srcs, sel, last, FALSE)
  <2> HIDE DEF sel, n, last
  <2> QED BY <1>1, <1>4, <1>5, <1>6, <1>7, Zenon DEF Selectable
<1> QED BY <1>8, <1>9, SelectStepSound, Zenon

\* The register of a dump, cut to the bits that are kept.
LEMMA LoadedSource ==
  ASSUME NEW s \in Source, NEW dump \in Dumps, s.reach < 2^s.size
  PROVE  LET r == Loaded(s, dump)
         IN  r \in Source /\ r.distant = s.distant /\ r.reach < 2^r.size
<1>1. CASE s.type = "ntp" \/ (s.auth /\ ~ dump.auth) \/ dump.leap = "unsynchronised"
  BY <1>1, Zenon DEF Loaded
<1>2. CASE ~ (s.type = "ntp" \/ (s.auth /\ ~ dump.auth) \/ dump.leap = "unsynchronised")
  <2>1. PICK x, z : x = dump.reach % 2^ReachBits /\ z = Min({dump.size, ReachBits})
    OBVIOUS
  <2>2. dump.stratum \in Nat /\ dump.leap \in AllLeaps /\ dump.reach \in Nat /\ dump.size \in Nat
    BY RegistryAssumption
  <2>3. Registered(x, z)
    <3>1. /\ ReachBits \in Nat /\ \A n \in 0..ReachBits : 2^n \in Nat \ {0}
          /\ dump.size < ReachBits => dump.reach < 2^dump.size
      BY RegistryAssumption
    <3>2. PICK p : p = 2^ReachBits
      OBVIOUS
    <3>3. p \in Nat /\ p > 0
      BY <3>1, <3>2
    <3>4. dump.reach % p \in 0..(p - 1) /\ dump.reach % p <= dump.reach
      BY <2>2, <3>3, ModBounds
    <3>5. Min({dump.size, ReachBits}) = IF dump.size <= ReachBits THEN dump.size ELSE ReachBits
      BY <2>2, <3>1, MinPair
    <3>6. x \in 0..(p - 1) /\ x \in Int /\ x <= dump.reach /\ z \in 0..ReachBits
      BY <2>1, <2>2, <3>1, <3>2, <3>3, <3>4, <3>5
    <3>7. x < 2^z
      <4>1. CASE dump.size < ReachBits
        <5>1. z = dump.size /\ dump.reach < 2^dump.size
          BY <2>1, <2>2, <3>1, <3>5, <4>1
        <5>2. 2^z \in Nat
          BY <3>1, <3>6
        <5> QED BY <2>2, <3>6, <5>1, <5>2
      <4>2. CASE ~ (dump.size < ReachBits)
        <5>1. z = ReachBits
          BY <2>1, <2>2, <3>1, <3>5, <4>2
        <5> QED BY <3>2, <3>3, <3>6, <5>1
      <4> QED BY <4>1, <4>2
    <3> QED BY <3>2, <3>6, <3>7, Zenon DEF Registered
  <2>4. Loaded(s, dump) = [s EXCEPT !.reach = x, !.size = z, !.stratum = dump.stratum, !.leap = dump.leap]
    BY <1>2, <2>1, Zenon DEF Loaded
  <2>5. Loaded(s, dump) \in Source
    BY <2>2, <2>3, <2>4, ZenonT(60) DEF Source, Registered
  <2>6. Loaded(s, dump).distant = s.distant /\ Loaded(s, dump).reach = x /\ Loaded(s, dump).size = z
    BY <2>4, Zenon DEF Source
  <2> QED BY <2>3, <2>5, <2>6, Zenon DEF Registered
<1> QED BY <1>1, <1>2, Zenon

LEMMA ReloadSourcesKeeps ==
  ASSUME RegistrySound, ReloadSources
  PROVE  StepSound
<1> DEFINE n == Len(sources)
<1>1. /\ n \in Nat /\ n <= MaxSources /\ sources \in [1..n -> Source]
      /\ selected \in 0..n /\ (selected # 0 => sources[selected].distant = 0)
      /\ \A i \in 1..n : sources[i].reach < 2^sources[i].size
      /\ last_updated \in 0..MaxSources /\ sel_level \in Nat /\ since \in BOOLEAN
  BY PassReady
<1>2. PICK S \in SUBSET Indices, f \in [Indices -> Dumps] :
        Select([i \in Indices |-> [(IF i \in S THEN Loaded(sources[i], f[i]) ELSE sources[i])
                                      EXCEPT !.updates = Min({@ + 1, MaxUpdates})]],
               selected, 0, last_updated, FALSE)
  BY Zenon DEF ReloadSources
<1> DEFINE old(i) == IF i \in S THEN Loaded(sources[i], f[i]) ELSE sources[i]
           new(i) == [old(i) EXCEPT !.updates = Min({@ + 1, MaxUpdates})]
<1>3. PICK srcs : srcs = [i \in 1..n |-> new(i)]
  BY Zenon
<1>4. Select(srcs, selected, 0, last_updated, FALSE)
  BY <1>2, <1>3, Zenon DEF Indices
<1>5. \A i \in 1..n : old(i) \in Source /\ old(i).distant = sources[i].distant /\ old(i).reach < 2^old(i).size
  <2> SUFFICES ASSUME NEW i \in 1..n
               PROVE  old(i) \in Source /\ old(i).distant = sources[i].distant /\ old(i).reach < 2^old(i).size
    OBVIOUS
  <2>1. f[i] \in Dumps /\ sources[i] \in Source /\ sources[i].reach < 2^sources[i].size
    BY <1>1, <1>2, Zenon DEF Indices
  <2>2. CASE i \in S
    BY <2>1, <2>2, LoadedSource, Zenon
  <2>3. CASE i \notin S
    BY <2>1, <2>3, Zenon
  <2> QED BY <2>2, <2>3, Zenon
<1> HIDE DEF old
<1>6. \A i \in 1..n : new(i) \in Source /\ new(i).distant = sources[i].distant /\ new(i).reach < 2^new(i).size
  <2> SUFFICES ASSUME NEW i \in 1..n
               PROVE  new(i) \in Source /\ new(i).distant = sources[i].distant /\ new(i).reach < 2^new(i).size
    BY Zenon
  <2>1. old(i) \in Source /\ old(i).updates \in 0..MaxUpdates
    BY <1>5, Zenon DEF Source
  <2>2. PICK u \in 0..MaxUpdates : u = Min({old(i).updates + 1, MaxUpdates})
    BY <2>1, OneMoreUpdate, Zenon
  <2>3. new(i) = [old(i) EXCEPT !.updates = u]
    BY <2>1, <2>2, Zenon DEF Source
  <2>4. /\ new(i) \in Source /\ new(i).distant = old(i).distant
        /\ new(i).reach = old(i).reach /\ new(i).size = old(i).size
    BY <2>1, <2>3, Zenon DEF Source
  <2> HIDE DEF new
  <2> QED BY <1>5, <2>4, Zenon
<1> HIDE DEF new
<1>7. srcs \in [1..n -> Source] /\ \A i \in 1..n : srcs[i] = new(i)
  BY <1>3, <1>6, Zenon
<1>8. \A i \in 1..n : srcs[i].reach < 2^srcs[i].size
  BY <1>6, <1>7, Zenon
<1>9. selected # 0 => srcs[selected].distant = 0
  <2>1. selected # 0 => selected \in 1..n
    BY <1>1
  <2> QED BY <1>1, <1>6, <1>7, <2>1, Zenon
<1>10. Selectable(n, srcs, selected, last_updated, FALSE)
  <2> HIDE DEF n
  <2> QED BY <1>1, <1>7, <1>8, <1>9, Zenon DEF Selectable
<1> QED BY <1>4, <1>10, SelectStepSound, Zenon

-----------------------------------------------------------------------------
(* The theorems. *)

LEMMA RegistryStart == Init => RegistrySound
<1> SUFFICES ASSUME Init PROVE RegistrySound
  OBVIOUS
<1>1. /\ sources = << >> /\ Len(sources) = 0 /\ selected = 0 /\ last_updated = 0
      /\ calls = NoCalls /\ sel_level = 0 /\ since = FALSE
  BY DEF Init
<1>2. MaxSources \in Nat /\ sources \in Seq(Source) /\ selected \in 0..Len(sources) /\ Len(sources) <= MaxSources
      /\ last_updated \in 0..MaxSources /\ sel_level \in Nat
  BY <1>1, RegistryAssumption
<1>3. TypeOK
  BY <1>1, <1>2, NoCallsTyped, Zenon DEF TypeOK
<1>4. Indices = {}
  BY <1>1 DEF Indices
<1> QED BY <1>1, <1>3, <1>4, Zenon DEF RegistrySound, SelectedMatches, DistantConsistent, ReachSound

LEMMA RegistryStep == RegistrySound /\ [Next]_vars => StepSound \/ (RegistrySound' /\ vars' = vars)
<1> SUFFICES ASSUME RegistrySound, [Next]_vars PROVE StepSound \/ (RegistrySound' /\ vars' = vars)
  OBVIOUS
<1>1. ASSUME NEW k \in Kinds, CreateInstance(k) PROVE StepSound
  BY <1>1, CreateInstanceKeeps
<1>2. ASSUME NEW i \in Indices, DestroyInstance(i) PROVE StepSound
  BY <1>2, DestroyInstanceKeeps
<1>3. ASSUME NEW i \in Indices, ResetInstance(i) PROVE StepSound
  BY <1>3, ResetInstanceKeeps
<1>4. ASSUME NEW i \in Indices, ResetReachability(i) PROVE StepSound
  BY <1>4, ResetReachabilityKeeps
<1>5. ASSUME NEW i \in Indices, NEW on \in Actives, SetActive(i, on) PROVE StepSound
  BY <1>5, SetActiveKeeps
<1>6. ASSUME NEW i \in Indices, NEW reachable \in Polls, UpdateReachability(i, reachable) PROVE StepSound
  BY <1>6, UpdateReachabilityKeeps
<1>7. ASSUME NEW i \in Indices, NEW stratum \in Strata, NEW leap \in Leaps, NEW close \in LeapCloses,
             UpdateStatus(i, stratum, leap, close)
      PROVE  StepSound
  BY <1>7, UpdateStatusKeeps
<1>8. ASSUME NEW i \in Indices, NEW options \in Options, ModifySelectOptions(i, options) PROVE StepSound
  BY <1>8, ModifySelectOptionsKeeps
<1>9. ASSUME NEW u \in 0..Len(sources), SelectSource(u) PROVE StepSound
  BY <1>9, SelectSourceKeeps
<1>10. CASE ReselectSource
  BY <1>10, ReselectSourceKeeps
<1>11. CASE ResetSources
  BY <1>11, ResetSourcesKeeps, SMTT(30)
<1>12. CASE UpdateSelOptions
  BY <1>12, UpdateSelOptionsKeeps
<1>13. CASE ReloadSources
  BY <1>13, ReloadSourcesKeeps
<1>14. CASE UNCHANGED vars
  <2>1. RegistrySound' <=> RegistrySound
    BY <1>14, Zenon DEF vars, RegistrySound, TypeOK, SelectedMatches, DistantConsistent, ReachSound, Indices
  <2> QED BY <1>14, <2>1
<1> QED BY <1>1, <1>2, <1>3, <1>4, <1>5, <1>6, <1>7, <1>8, <1>9, <1>10, <1>11, <1>12, <1>13, <1>14, ZenonT(60) DEF Next

\* Whatever is created, destroyed, reset, reloaded, selected or reselected in
\* whatever order, the table and the selection agree: the status Selected is at
\* selected_source_index and nowhere else, the selected source has no penalty
\* to sit out, sources are combined or held back as their penalties say, and
\* the register of a source holds no poll that its size does not count.
THEOREM RegistryTheorem == Spec => []RegistrySound
<1>1. RegistrySound /\ [Next]_vars => RegistrySound'
  BY RegistryStep, Zenon DEF StepSound
<1> QED BY <1>1, RegistryStart, PTL DEF Spec

\* A step of the registry that selects another source leaves no preferred
\* source behind an unpreferred one (the prefer reduction of select_source).
THEOREM PreferTheorem == Spec => PreferRespected
<1>1. RegistrySound /\ [Next]_vars =>
      [ (selected' # 0 /\ RefIdAt(sources, selected) # RefIdAt(sources', selected'))
        => \A i \in DOMAIN sources' :
             ("prefer" \in sources'[i].options /\ sources'[i].status \in {"Unselected", "Distant"})
               => "prefer" \in sources'[selected'].options ]_vars
  BY RegistryStep, Zenon DEF StepSound, OptionsRespected, Quiet
<1> QED BY <1>1, RegistryTheorem, PTL DEF Spec, PreferRespected

\* The reference is never set while every required source is left out
\* (sel_req_source in select_source).
THEOREM RequireTheorem == Spec => RequireRespected
<1>1. RegistrySound /\ [Next]_vars =>
      [ (calls'.ref = "set" /\ \E i \in DOMAIN sources' : "require" \in sources'[i].options)
        => \E i \in DOMAIN sources' :
             /\ "require" \in sources'[i].options
             /\ sources'[i].status \in {"Selected", "Unselected", "Distant", "Nonpreferred"} ]_vars
  BY RegistryStep, Zenon DEF StepSound, OptionsRespected, Quiet
<1> QED BY <1>1, RegistryTheorem, PTL DEF Spec, RequireRespected
=============================================================================
