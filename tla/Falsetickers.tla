---------------------------- MODULE Falsetickers ----------------------------
(***************************************************************************)
(* The falseticker search of source selection, as operators: the sweep     *)
(* over the interval endpoints in select_source (sources/registry.rs) with *)
(* its majority test and admissible sources, and the simpler sweep of      *)
(* select (sources/selection.rs).  A candidate is a record with the limits *)
(* lo and hi of its interval, on a grid of integers, and its trust option; *)
(* cand is a function from the indices of the candidates to their records. *)
(***************************************************************************)
EXTENDS Integers, Sequences, FiniteSets

Low == -1
High == 1

\* compare_sort_elements, and the order of the list among equals (the sort
\* is stable).
Before(a, b) ==
  \/ a.offset < b.offset
  \/ a.offset = b.offset /\ a.tag < b.tag
  \/ a.offset = b.offset /\ a.tag = b.tag /\ a.index < b.index

\* The endpoint list, sorted.
SortList(cand) ==
  LET ends == {[index |-> i, offset |-> cand[i].lo, tag |-> Low] : i \in DOMAIN cand}
                \cup {[index |-> i, offset |-> cand[i].hi, tag |-> High] : i \in DOMAIN cand}
  IN [k \in 1..Cardinality(ends) |->
        CHOOSE e \in ends : Cardinality({f \in ends : Before(f, e)}) = k - 1]

\* A loop over the list that starts from b.
Through(list, step(_, _), b) ==
  LET after[k \in 0..Len(list)] == IF k = 0 THEN b ELSE step(after[k - 1], list[k])
  IN after[Len(list)]

\* A LOW endpoint: a deeper place, first by trusted sources, then by all.
LowStep(b, e, trusted) ==
  LET depth == b.depth + 1
      trust == b.trust_depth + (IF trusted THEN 1 ELSE 0)
      more  == trust > b.best_trust_depth
      best  == more \/ (trust = b.best_trust_depth /\ depth > b.best_depth)
  IN [b EXCEPT !.depth = depth, !.trust_depth = trust,
               !.best_trust_depth = IF more THEN trust ELSE @,
               !.best_trust_lo = IF more THEN e.offset ELSE @,
               !.best_depth = IF best THEN depth ELSE @,
               !.best_lo = IF best THEN e.offset ELSE @]

\* A HIGH endpoint: the end of a deepest place so far.
HighStep(b, e, trusted) ==
  LET deepest == b.trust_depth = b.best_trust_depth
  IN [b EXCEPT !.depth = @ - 1, !.trust_depth = @ - (IF trusted THEN 1 ELSE 0),
               !.best_hi = IF deepest /\ b.depth = b.best_depth THEN e.offset ELSE @,
               !.best_trust_hi = IF deepest THEN e.offset ELSE @]

\* The depth and trust-depth search.
Sweep(cand) ==
  LET start == [depth |-> 0, trust_depth |-> 0, best_depth |-> 0, best_trust_depth |-> 0,
                best_lo |-> 0, best_hi |-> 0, best_trust_lo |-> 0, best_trust_hi |-> 0]
      step(b, e) == IF e.tag = Low THEN LowStep(b, e, cand[e.index].trusted)
                                   ELSE HighStep(b, e, cand[e.index].trusted)
  IN Through(SortList(cand), step, start)

Trusted(cand) == {i \in DOMAIN cand : cand[i].trusted}

\* The majority test: the code's n / 2 is an integer division.
HasMajority(cand, b) ==
  IF b.best_trust_depth = 0
  THEN b.best_depth > Cardinality(DOMAIN cand) \div 2
  ELSE b.best_trust_depth > Cardinality(Trusted(cand)) \div 2

\* In the best interval, or around it; the others are falsetickers.
Agreeing(cand, b) ==
  {i \in DOMAIN cand : \/ cand[i].lo <= b.best_lo /\ cand[i].hi >= b.best_hi
                       \/ cand[i].lo >= b.best_lo /\ cand[i].hi <= b.best_hi}

\* Of the agreeing sources, those that are trusted or in the trusted interval.
Admissible(cand, b) ==
  {i \in Agreeing(cand, b) :
     \/ b.best_trust_depth = 0
     \/ cand[i].trusted
     \/ cand[i].lo >= b.best_trust_lo /\ cand[i].hi <= b.best_trust_hi}

-----------------------------------------------------------------------------
(* sources/selection.rs *)

Covers(cand, p) == {i \in DOMAIN cand : cand[i].lo <= p /\ p <= cand[i].hi}

\* max_overlap_point: the first endpoint at which the overlap is greatest.
MaxOverlapPoint(cand) ==
  LET step(b, e) == LET cur == b.cur - e.tag IN
                    [cur |-> cur, best |-> IF cur > b.best THEN cur ELSE b.best,
                     point |-> IF cur > b.best THEN e.offset ELSE b.point]
  IN Through(SortList(cand), step, [cur |-> 0, best |-> -1, point |-> 0]).point

\* select: the clique around that point, if it is a strict majority.
Truechimers(cand) ==
  LET clique == Covers(cand, MaxOverlapPoint(cand))
  IN IF 2 * Cardinality(clique) > Cardinality(DOMAIN cand) THEN clique ELSE {}

-----------------------------------------------------------------------------
(* Properties, of candidates cand with limits on the grid. *)

\* The sweep finds the greatest number of trusted sources that share a place
\* and, among such places, the greatest number of sources: the depth counters
\* of select_source against the definition by counting.
DeepestFound(cand, grid) ==
  LET best == Sweep(cand)
      trust(p) == Cardinality(Covers(cand, p) \cap Trusted(cand))
      depth(p) == Cardinality(Covers(cand, p))
      deep == {p \in grid : \A q \in grid : trust(q) <= trust(p)}
  IN /\ \A p \in deep : best.best_trust_depth = trust(p)
     /\ best.best_depth \in {depth(p) : p \in deep}
     /\ \A p \in deep : depth(p) <= best.best_depth
     /\ {best.best_lo, best.best_hi} \subseteq deep

\* Once there is a majority, some source is admissible, and every admissible
\* source that counts (any, or a trusted one when there are trusted ones)
\* shares a place with more than half of those that count, even if two places
\* of the best depth lie apart and best_lo belongs to one, best_hi to the
\* other.  An untrusted source may lie between two such places on its own.
AdmissibleAgree(cand) ==
  LET best == Sweep(cand)
      shares(i, j) == cand[i].lo <= cand[j].hi /\ cand[j].lo <= cand[i].hi
      voters == IF best.best_trust_depth = 0 THEN DOMAIN cand ELSE Trusted(cand)
  IN HasMajority(cand, best) =>
       /\ Admissible(cand, best) \cap voters # {}
       /\ \A i \in Admissible(cand, best) \cap voters :
            2 * Cardinality({j \in voters : shares(i, j)}) > Cardinality(voters)

\* Without trusted sources the two selectors of the repository agree: on
\* whether there is a majority, and, if so, on at least one good source.
SelectorsAgree(cand) ==
  LET best == Sweep(cand)
  IN Trusted(cand) = {} =>
       /\ HasMajority(cand, best) <=> Truechimers(cand) # {}
       /\ HasMajority(cand, best) => Admissible(cand, best) \cap Truechimers(cand) # {}
=============================================================================
