----------------------------- MODULE NtsProofs ------------------------------
(***************************************************************************)
(* Theorem about NtsClient, for every value of the constants: the ring of  *)
(* cookies and what it promises hold whatever messages are lost, copied or *)
(* reordered.  The invariant says which cookies are where: a response to   *)
(* the latest request, not yet answered, offers cookies that neither the   *)
(* pool nor a request holds, and while a session is there the pool is      *)
(* empty and no message is current.                                        *)
(***************************************************************************)
EXTENDS NtsClient, FiniteSetTheorems, TLAPS

\* The slot of the k-th live cookie when the oldest is in slot i.
SlotOf(i, k) == (i + k - 1) % NtsMaxCookies
Slot(x, k) == SlotOf(x.index, k)

NtsRequests == [cur : BOOLEAN, cookie : Cookies, n : Nat \ {0}]
NtsResponses == [cur : BOOLEAN, nak : BOOLEAN, cookies : Seq(Cookies)]

Rings == [RingSlots -> Cookies \cup {Blank}]
Clients == [num : 0..NtsMaxCookies, index : RingSlots, ring : Rings, nak : BOOLEAN, ok : BOOLEAN,
            attempts : Nat, wait : Nat, has_nke : BOOLEAN, expired : BOOLEAN]

\* A pool of n cookies from slot i on: the live slots hold distinct cookies, the
\* others are blank.
Pool(n, i, ring) ==
  /\ \A k \in 1..n : ring[SlotOf(i, k)] \in Cookies
  /\ \A s \in RingSlots : (\A k \in 1..n : s # SlotOf(i, k)) => ring[s] = Blank
  /\ \A j, k \in 1..n : ring[SlotOf(i, j)].id = ring[SlotOf(i, k)].id => j = k

PoolOf(x) == Pool(x.num, x.index, x.ring)
HoldsIn(n, i, ring, id) == \E k \in 1..n : ring[SlotOf(i, k)].id = id
Holds(x, id) == HoldsIn(x.num, x.index, x.ring, id)

NtsInv ==
  /\ nts \in Clients /\ PoolOf(nts)
  /\ nke \in {"idle", "active", "ok", "fail"} /\ (nts.has_nke <=> nke # "idle")
  /\ reqs \subseteq NtsRequests /\ resps \subseteq NtsResponses
  /\ waited \in 0..2^MaxRetry2
  /\ nts.wait <= 2^MaxRetry2 \/ nts.wait <= RetryStart
  /\ nts.attempts > 0 => waited + nts.wait >= RetryStart
  /\ nts.has_nke => nts.num = 0 /\ nts.attempts > 0 /\ (\A r \in reqs : ~r.cur) /\ (\A r \in resps : ~r.cur)
  /\ \A r \in reqs : ~ Holds(nts, r.cookie.id)
  /\ ~nts.ok => \A r \in resps : r.cur =>
        /\ \A k \in 1..Len(r.cookies) : /\ ~ Holds(nts, r.cookies[k].id)
                                        /\ \A q \in reqs : q.cookie.id # r.cookies[k].id
        /\ \A j, k \in 1..Len(r.cookies) : r.cookies[j].id = r.cookies[k].id => j = k

\* The remainder by cases, for a number below three turns of the ring.
LEMMA ModNear ==
  ASSUME NEW m \in Nat \ {0}, NEW x \in Nat, x < 3 * m
  PROVE  x % m = IF x < m THEN x ELSE IF x < 2 * m THEN x - m ELSE x - 2 * m
<1>1. \E q \in Int, r \in 0..(m - 1) : x = m * q + r /\ x % m = r
  <2>1. x % m \in 0..(m - 1) /\ x \div m \in Int /\ x = m * (x \div m) + (x % m)
    OBVIOUS
  <2> QED BY <2>1, Zenon
<1>2. PICK q \in Int, r \in 0..(m - 1) : x = m * q + r /\ x % m = r
  BY <1>1
<1>3. q \in 0..2
  <2>1. CASE q < 0
    <3>1. m * q <= -m
      BY <2>1
    <3> QED BY <1>2, <3>1
  <2>2. CASE q > 2
    <3>1. m * q >= 3 * m
      BY <2>2
    <3> QED BY <1>2, <3>1
  <2> QED BY <2>1, <2>2
<1>4. CASE q = 0
  BY <1>2, <1>4
<1>5. CASE q = 1
  BY <1>2, <1>5
<1>6. CASE q = 2
  BY <1>2, <1>6
<1> QED BY <1>3, <1>4, <1>5, <1>6

\* The slot of the k-th cookie, by cases.
LEMMA SlotIs ==
  ASSUME NEW i \in RingSlots, NEW k \in 1..(2 * NtsMaxCookies)
  PROVE  /\ SlotOf(i, k) = IF i + k - 1 < NtsMaxCookies THEN i + k - 1
                           ELSE IF i + k - 1 < 2 * NtsMaxCookies THEN i + k - 1 - NtsMaxCookies
                           ELSE i + k - 1 - 2 * NtsMaxCookies
         /\ SlotOf(i, k) \in RingSlots
<1> DEFINE x == i + k - 1
<1>1. NtsMaxCookies \in Nat \ {0} /\ x \in Nat /\ x < 3 * NtsMaxCookies
  BY NtsAssumption DEF RingSlots
<1>2. SlotOf(i, k) = x % NtsMaxCookies
  BY DEF SlotOf
<1> HIDE DEF x
<1>3. x % NtsMaxCookies = IF x < NtsMaxCookies THEN x ELSE IF x < 2 * NtsMaxCookies THEN x - NtsMaxCookies ELSE x - 2 * NtsMaxCookies
  BY <1>1, ModNear, Zenon
<1> QED BY <1>1, <1>2, <1>3 DEF x, RingSlots

\* The same by cases, for the slots of one turn of the ring.
LEMMA SlotCases ==
  ASSUME NEW i \in RingSlots, NEW k \in 1..NtsMaxCookies
  PROVE  /\ SlotOf(i, k) \in RingSlots /\ SlotOf(i, k) \in Int
         /\ i + k - 1 < NtsMaxCookies => SlotOf(i, k) = i + k - 1
         /\ i + k - 1 >= NtsMaxCookies => SlotOf(i, k) = i + k - 1 - NtsMaxCookies
<1>1. k \in 1..(2 * NtsMaxCookies) /\ i + k - 1 < 2 * NtsMaxCookies /\ NtsMaxCookies \in Nat /\ i \in Nat
  BY NtsAssumption DEF RingSlots
<1> QED BY <1>1, SlotIs DEF RingSlots

\* The cookies of one turn are in slots of their own.
LEMMA SlotInjective ==
  ASSUME NEW i \in RingSlots, NEW j \in 1..NtsMaxCookies, NEW k \in 1..NtsMaxCookies, SlotOf(i, j) = SlotOf(i, k)
  PROVE  j = k
<1> DEFINE a == SlotOf(i, j)
           b == SlotOf(i, k)
<1>1. /\ a \in Int /\ b \in Int /\ a = b
      /\ i + j - 1 < NtsMaxCookies => a = i + j - 1
      /\ i + j - 1 >= NtsMaxCookies => a = i + j - 1 - NtsMaxCookies
      /\ i + k - 1 < NtsMaxCookies => b = i + k - 1
      /\ i + k - 1 >= NtsMaxCookies => b = i + k - 1 - NtsMaxCookies
  BY SlotCases, Zenon
<1>2. i \in 0..(NtsMaxCookies - 1) /\ NtsMaxCookies \in Nat
  BY NtsAssumption DEF RingSlots
<1> HIDE DEF a, b
<1> QED BY <1>1, <1>2

\* Every slot is one of the NtsMaxCookies that follow any slot.
LEMMA SlotCovers ==
  ASSUME NEW i \in RingSlots, NEW s \in RingSlots
  PROVE  \E k \in 1..NtsMaxCookies : SlotOf(i, k) = s
<1>0. s \in 0..(NtsMaxCookies - 1) /\ NtsMaxCookies \in Nat /\ i \in 0..(NtsMaxCookies - 1)
  BY NtsAssumption DEF RingSlots
<1>1. CASE s >= i
  <2> DEFINE k == s - i + 1
  <2>1. k \in 1..NtsMaxCookies /\ i + k - 1 = s /\ s < NtsMaxCookies
    BY <1>0, <1>1
  <2> HIDE DEF k
  <2>2. SlotOf(i, k) = i + k - 1
    BY <2>1, SlotCases
  <2> QED BY <2>1, <2>2
<1>2. CASE s < i
  <2> DEFINE k == s - i + 1 + NtsMaxCookies
  <2>1. k \in 1..NtsMaxCookies /\ i + k - 1 >= NtsMaxCookies /\ i + k - 1 - NtsMaxCookies = s
    BY <1>0, <1>2
  <2> HIDE DEF k
  <2>2. SlotOf(i, k) = i + k - 1 - NtsMaxCookies
    BY <2>1, SlotCases
  <2> QED BY <2>1, <2>2
<1> QED BY <1>0, <1>1, <1>2

\* What follows the slot after slot i.
LEMMA SlotShifts ==
  ASSUME NEW i \in RingSlots
  PROVE  /\ SlotOf(i, 1) = i
         /\ SlotOf(i, 2) = (i + 1) % NtsMaxCookies
         /\ SlotOf(i, 2) \in RingSlots
         /\ \A k \in 1..(NtsMaxCookies - 1) : SlotOf(SlotOf(i, 2), k) = SlotOf(i, k + 1)
<1>1. 1 \in 1..(2 * NtsMaxCookies) /\ 2 \in 1..(2 * NtsMaxCookies)
  BY NtsAssumption
<1>2. SlotOf(i, 1) = i
  BY <1>1, SlotIs, NtsAssumption DEF RingSlots
<1>3. SlotOf(i, 2) = (i + 1) % NtsMaxCookies
  BY NtsAssumption DEF SlotOf, RingSlots
<1>4. SlotOf(i, 2) \in RingSlots /\ SlotOf(i, 2) = IF i + 1 < NtsMaxCookies THEN i + 1 ELSE i + 1 - NtsMaxCookies
  BY <1>1, SlotIs, NtsAssumption DEF RingSlots
<1>5. ASSUME NEW k \in 1..(NtsMaxCookies - 1) PROVE SlotOf(SlotOf(i, 2), k) = SlotOf(i, k + 1)
  <2>1. k \in 1..(2 * NtsMaxCookies) /\ k + 1 \in 1..(2 * NtsMaxCookies)
    BY NtsAssumption
  <2> DEFINE h == SlotOf(i, 2)
  <2>2. h \in RingSlots /\ h = IF i + 1 < NtsMaxCookies THEN i + 1 ELSE i + 1 - NtsMaxCookies
    BY <1>4
  <2> HIDE DEF h
  <2>3. SlotOf(h, k) = SlotOf(i, k + 1)
    BY <2>1, <2>2, SlotIs, NtsAssumption DEF RingSlots
  <2> QED BY <2>3 DEF h
<1> QED BY <1>2, <1>3, <1>4, <1>5

\* Counting goes on from any slot.
LEMMA SlotBeyond ==
  ASSUME NEW i \in RingSlots, NEW n \in 0..NtsMaxCookies, NEW j \in 1..NtsMaxCookies
  PROVE  SlotOf(i, n + 1) \in RingSlots /\ SlotOf(SlotOf(i, n + 1), j) = SlotOf(i, n + j)
<1>1. /\ i \in 0..(NtsMaxCookies - 1) /\ NtsMaxCookies \in Nat \ {0}
      /\ n + 1 \in 1..(2 * NtsMaxCookies) /\ n + j \in 1..(2 * NtsMaxCookies)
  BY NtsAssumption DEF RingSlots
<1> DEFINE h == SlotOf(i, n + 1)
<1>2. h \in RingSlots
  BY <1>1, SlotIs
<1>3. /\ i + n < NtsMaxCookies => h = i + n
      /\ i + n >= NtsMaxCookies => h = i + n - NtsMaxCookies
  <2>1. i + (n + 1) - 1 = i + n /\ i + n < 2 * NtsMaxCookies
    BY <1>1
  <2> QED BY <1>1, <2>1, SlotIs
<1> HIDE DEF h
<1>4. h \in 0..(NtsMaxCookies - 1)
  BY <1>2 DEF RingSlots
<1> DEFINE a == SlotOf(h, j)
           b == SlotOf(i, n + j)
<1>5. /\ h + j - 1 < NtsMaxCookies => a = h + j - 1
      /\ h + j - 1 >= NtsMaxCookies => a = h + j - 1 - NtsMaxCookies
  BY <1>2, SlotCases
<1>6. /\ i + (n + j) - 1 < NtsMaxCookies => b = i + (n + j) - 1
      /\ i + (n + j) - 1 >= NtsMaxCookies /\ i + (n + j) - 1 < 2 * NtsMaxCookies => b = i + (n + j) - 1 - NtsMaxCookies
      /\ i + (n + j) - 1 >= 2 * NtsMaxCookies => b = i + (n + j) - 1 - 2 * NtsMaxCookies
  <2> DEFINE m == n + j
  <2>1. m \in 1..(2 * NtsMaxCookies)
    BY <1>1
  <2> HIDE DEF m
  <2>2. /\ i + m - 1 < NtsMaxCookies => SlotOf(i, m) = i + m - 1
        /\ i + m - 1 >= NtsMaxCookies /\ i + m - 1 < 2 * NtsMaxCookies => SlotOf(i, m) = i + m - 1 - NtsMaxCookies
        /\ i + m - 1 >= 2 * NtsMaxCookies => SlotOf(i, m) = i + m - 1 - 2 * NtsMaxCookies
    BY <1>1, <2>1, SlotIs
  <2> QED BY <2>2 DEF m
<1> HIDE DEF a, b
<1>7. a = b
  BY <1>1, <1>3, <1>4, <1>5, <1>6
<1> QED BY <1>2, <1>7 DEF a, b, h

\* The slots of a full turn from slot n + 1 on: each of them once.
LEMMA TurnUnique ==
  ASSUME NEW i \in RingSlots, NEW n \in 0..NtsMaxCookies,
         NEW j \in 1..NtsMaxCookies, NEW k \in 1..NtsMaxCookies, SlotOf(i, n + j) = SlotOf(i, n + k)
  PROVE  j = k
<1>1. SlotOf(i, n + 1) \in RingSlots /\ SlotOf(SlotOf(i, n + 1), j) = SlotOf(SlotOf(i, n + 1), k)
  BY SlotBeyond, Zenon
<1> QED BY <1>1, SlotInjective, Zenon

\* Every slot is in the turn from slot n + 1 on.
LEMMA TurnCovers ==
  ASSUME NEW i \in RingSlots, NEW n \in 0..NtsMaxCookies, NEW s \in RingSlots
  PROVE  \E j \in 1..NtsMaxCookies : SlotOf(i, n + j) = s
<1>1. SlotOf(i, n + 1) \in RingSlots
  BY SlotBeyond, NtsAssumption
<1>2. PICK j \in 1..NtsMaxCookies : SlotOf(SlotOf(i, n + 1), j) = s
  BY <1>1, SlotCovers, Zenon
<1> QED BY <1>2, SlotBeyond, Zenon

\* One turn later is the same slot.
LEMMA TurnAround ==
  ASSUME NEW i \in RingSlots, NEW k \in 1..NtsMaxCookies
  PROVE  SlotOf(i, k + NtsMaxCookies) = SlotOf(i, k)
<1>1. /\ i \in 0..(NtsMaxCookies - 1) /\ NtsMaxCookies \in Nat \ {0}
      /\ k + NtsMaxCookies \in 1..(2 * NtsMaxCookies)
  BY NtsAssumption DEF RingSlots
<1> DEFINE m == k + NtsMaxCookies
           a == SlotOf(i, m)
           b == SlotOf(i, k)
<1>2. m \in 1..(2 * NtsMaxCookies) /\ i + m - 1 >= NtsMaxCookies /\ m = k + NtsMaxCookies
  BY <1>1
<1> HIDE DEF m
<1>3. /\ i + m - 1 < 2 * NtsMaxCookies => a = i + m - 1 - NtsMaxCookies
      /\ i + m - 1 >= 2 * NtsMaxCookies => a = i + m - 1 - 2 * NtsMaxCookies
  BY <1>1, <1>2, SlotIs
<1>4. /\ i + k - 1 < NtsMaxCookies => b = i + k - 1
      /\ i + k - 1 >= NtsMaxCookies => b = i + k - 1 - NtsMaxCookies
  BY SlotCases
<1> HIDE DEF a, b
<1>5. a = b
  BY <1>1, <1>2, <1>3, <1>4
<1> QED BY <1>5 DEF a, b, m

-----------------------------------------------------------------------------
(* The pool *)

\* The oldest cookie goes: what stays was held, and is not the cookie that went.
LEMMA PoolSpent ==
  ASSUME NEW n \in 1..NtsMaxCookies, NEW i \in RingSlots, NEW ring \in Rings, Pool(n, i, ring)
  PROVE  LET next == SlotOf(i, 2)
             left == [ring EXCEPT ![i] = Blank]
         IN /\ left \in Rings /\ next \in RingSlots
            /\ Pool(n - 1, next, left)
            /\ ring[i] \in Cookies
            /\ \A id : HoldsIn(n - 1, next, left, id) => HoldsIn(n, i, ring, id) /\ id # ring[i].id
<1> DEFINE next == SlotOf(i, 2)
           left == [ring EXCEPT ![i] = Blank]
<1>0. n \in Nat /\ n >= 1 /\ n <= NtsMaxCookies /\ NtsMaxCookies \in Nat
  BY NtsAssumption
<1>1. next \in RingSlots /\ SlotOf(i, 1) = i
  BY SlotShifts
<1>2. \A k \in 1..(n - 1) : k + 1 \in 1..n /\ k + 1 # 1 /\ SlotOf(next, k) = SlotOf(i, k + 1)
  <2> TAKE k \in 1..(n - 1)
  <2>1. k \in 1..(NtsMaxCookies - 1) /\ k + 1 \in 1..n /\ k + 1 # 1
    BY <1>0
  <2> QED BY <2>1, SlotShifts
<1>3. \A k \in 1..n : SlotOf(i, k) \in RingSlots /\ (k # 1 => SlotOf(i, k) # i)
  <2> TAKE k \in 1..n
  <2>1. k \in 1..NtsMaxCookies /\ 1 \in 1..NtsMaxCookies
    BY <1>0
  <2>2. SlotOf(i, k) \in RingSlots
    BY <2>1, SlotCases, Zenon
  <2>3. SlotOf(i, k) = SlotOf(i, 1) => k = 1
    BY <2>1, SlotInjective, Zenon
  <2> QED BY <1>1, <2>2, <2>3, Zenon
<1>4. 1 \in 1..n
  BY <1>0
<1> HIDE DEF next
<1>5. left \in Rings /\ left[i] = Blank /\ \A s \in RingSlots : s # i => left[s] = ring[s]
  BY DEF Rings
<1> HIDE DEF left
<1>6. \A k \in 1..(n - 1) : left[SlotOf(next, k)] = ring[SlotOf(i, k + 1)]
  BY <1>2, <1>3, <1>5, Zenon
<1>7. ring[i] \in Cookies
  BY <1>1, <1>4, Zenon DEF Pool
<1>8. Pool(n - 1, next, left)
  <2>1. \A k \in 1..(n - 1) : left[SlotOf(next, k)] \in Cookies
    BY <1>2, <1>6, Zenon DEF Pool
  <2>2. ASSUME NEW s \in RingSlots, \A k \in 1..(n - 1) : s # SlotOf(next, k) PROVE left[s] = Blank
    <3>1. CASE s = i
      BY <1>5, <3>1
    <3>2. CASE s # i
      <4>1. ASSUME NEW k \in 1..n PROVE s # SlotOf(i, k)
        <5>1. CASE k = 1
          BY <1>1, <3>2, <5>1
        <5>2. CASE k # 1
          <6>1. k - 1 \in 1..(n - 1) /\ (k - 1) + 1 = k
            BY <1>0, <5>2
          <6> QED BY <1>2, <2>2, <6>1
        <5> QED BY <5>1, <5>2
      <4> QED BY <1>5, <3>2, <4>1, Zenon DEF Pool
    <3> QED BY <3>1, <3>2
  <2>3. ASSUME NEW j \in 1..(n - 1), NEW k \in 1..(n - 1), left[SlotOf(next, j)].id = left[SlotOf(next, k)].id PROVE j = k
    <3> DEFINE a == j + 1
               b == k + 1
    <3>1. a \in 1..n /\ b \in 1..n /\ ring[SlotOf(i, a)].id = ring[SlotOf(i, b)].id
      BY <1>2, <1>6, <2>3, Zenon
    <3>2. a = b => j = k
      OBVIOUS
    <3> HIDE DEF a, b
    <3> QED BY <3>1, <3>2, Zenon DEF Pool
  <2> QED BY <2>1, <2>2, <2>3, Zenon DEF Pool
<1>9. ASSUME NEW id, HoldsIn(n - 1, next, left, id) PROVE HoldsIn(n, i, ring, id) /\ id # ring[i].id
  <2>1. PICK k \in 1..(n - 1) : left[SlotOf(next, k)].id = id
    BY <1>9, Zenon DEF HoldsIn
  <2>2. ring[SlotOf(i, k + 1)].id = id /\ k + 1 \in 1..n /\ k + 1 # 1
    BY <1>2, <1>6, <2>1, Zenon
  <2>3. id # ring[i].id
    BY <1>1, <1>4, <2>2, Zenon DEF Pool
  <2> QED BY <2>2, <2>3, Zenon DEF HoldsIn
<1> QED BY <1>1, <1>5, <1>7, <1>8, <1>9, Zenon DEF next, left

\* A pool laid out from slot 0 on.
LEMMA PoolLaidOut ==
  ASSUME NEW n \in 0..NtsMaxCookies, NEW f \in [1..n -> Cookies],
         \A j, k \in 1..n : f[j].id = f[k].id => j = k
  PROVE  LET ring == [i \in RingSlots |-> IF i < n THEN f[i + 1] ELSE Blank]
         IN /\ ring \in Rings /\ 0 \in RingSlots
            /\ Pool(n, 0, ring)
            /\ \A k \in 1..n : ring[SlotOf(0, k)] = f[k]
<1> DEFINE ring == [i \in RingSlots |-> IF i < n THEN f[i + 1] ELSE Blank]
<1>0. n \in Nat /\ n <= NtsMaxCookies /\ NtsMaxCookies \in Nat \ {0} /\ 0 \in RingSlots
  BY NtsAssumption DEF RingSlots
<1>1. \A i \in RingSlots : i < n => i + 1 \in 1..n
  BY <1>0 DEF RingSlots
<1>2. ring \in Rings
  BY <1>1 DEF Rings
<1>3. \A k \in 1..n : k \in 1..NtsMaxCookies /\ SlotOf(0, k) = k - 1 /\ k - 1 \in RingSlots /\ k - 1 < n /\ (k - 1) + 1 = k
  <2> TAKE k \in 1..n
  <2>1. k \in 1..NtsMaxCookies /\ 0 + k - 1 < NtsMaxCookies /\ 0 + k - 1 = k - 1 /\ k - 1 < n /\ (k - 1) + 1 = k
    BY <1>0
  <2>2. SlotOf(0, k) = k - 1 /\ SlotOf(0, k) \in RingSlots
    BY <1>0, <2>1, SlotCases, Zenon
  <2> QED BY <2>1, <2>2
<1>4. \A k \in 1..n : ring[SlotOf(0, k)] = f[k]
  BY <1>3
<1>5. ASSUME NEW s \in RingSlots, \A k \in 1..n : s # SlotOf(0, k) PROVE ring[s] = Blank
  <2>1. ~ (s < n)
    <3> SUFFICES ASSUME s < n PROVE FALSE
      OBVIOUS
    <3>1. s + 1 \in 1..n /\ (s + 1) - 1 = s
      BY <1>1 DEF RingSlots
    <3> QED BY <1>3, <1>5, <3>1
  <2> QED BY <2>1
<1> HIDE DEF ring
<1>6. Pool(n, 0, ring)
  BY <1>4, <1>5, Zenon DEF Pool
<1> QED BY <1>0, <1>2, <1>4, <1>6 DEF ring

\* The ring with the first m of the cookies f after the n it holds from slot i on.
RingWith(n, i, ring, m, f) ==
  [s \in RingSlots |-> LET k == CHOOSE j \in 1..NtsMaxCookies : (i + n + j - 1) % NtsMaxCookies = s
                       IN IF k <= m THEN f[k] ELSE ring[s]]

\* The first m of the cookies f are distinct and not in the ring.
FreshFor(n, i, ring, m, f) ==
  /\ \A k \in 1..m : f[k] \in Cookies
  /\ \A j, k \in 1..m : f[j].id = f[k].id => j = k
  /\ \A k \in 1..m : ~ HoldsIn(n, i, ring, f[k].id)

\* It is a pool again, of what it held and of those.
Grown(n, i, ring, m, f) ==
  LET more == RingWith(n, i, ring, m, f)
  IN /\ more \in Rings /\ n + m \in 0..NtsMaxCookies
     /\ Pool(n + m, i, more)
     /\ \A id : HoldsIn(n + m, i, more, id) => HoldsIn(n, i, ring, id) \/ \E k \in 1..m : id = f[k].id

\* Cookies of a response go after the ones held, as many as there is room for.
LEMMA PoolExtended ==
  ASSUME NEW n \in 0..NtsMaxCookies, NEW i \in RingSlots, NEW ring \in Rings, Pool(n, i, ring),
         NEW m \in 0..(NtsMaxCookies - n), NEW f, FreshFor(n, i, ring, m, f)
  PROVE  Grown(n, i, ring, m, f)
<1> DEFINE At(s) == CHOOSE j \in 1..NtsMaxCookies : (i + n + j - 1) % NtsMaxCookies = s
           more == [s \in RingSlots |-> IF At(s) <= m THEN f[At(s)] ELSE ring[s]]
<1>f. /\ \A k \in 1..m : f[k] \in Cookies
      /\ \A j, k \in 1..m : f[j].id = f[k].id => j = k
      /\ \A k \in 1..m : ~ HoldsIn(n, i, ring, f[k].id)
  BY Zenon DEF FreshFor
<1>0. n \in Nat /\ m \in Nat /\ n + m \in 0..NtsMaxCookies /\ NtsMaxCookies \in Nat \ {0} /\ n + m \in Nat
      /\ i \in Nat
  BY NtsAssumption DEF RingSlots
<1>1. \A j \in 1..NtsMaxCookies : (i + n + j - 1) % NtsMaxCookies = SlotOf(i, n + j)
  <2> TAKE j \in 1..NtsMaxCookies
  <2>1. i + n + j - 1 = i + (n + j) - 1
    BY <1>0
  <2> QED BY <2>1 DEF SlotOf
<1>2. \A s \in RingSlots : At(s) \in 1..NtsMaxCookies /\ SlotOf(i, n + At(s)) = s
  <2> TAKE s \in RingSlots
  <2>1. \E j \in 1..NtsMaxCookies : SlotOf(i, n + j) = s
    BY TurnCovers
  <2>2. \E j \in 1..NtsMaxCookies : (i + n + j - 1) % NtsMaxCookies = s
    BY <1>1, <2>1, Zenon
  <2>3. At(s) \in 1..NtsMaxCookies /\ (i + n + At(s) - 1) % NtsMaxCookies = s
    BY <2>2, Zenon
  <2> HIDE DEF At
  <2> QED BY <1>1, <2>3, Zenon
<1> HIDE DEF At
<1>3. ASSUME NEW j \in 1..NtsMaxCookies, NEW s \in RingSlots, SlotOf(i, n + j) = s PROVE At(s) = j
  BY <1>2, <1>3, TurnUnique, Zenon
<1>4. ASSUME NEW k \in 1..n PROVE SlotOf(i, k) \in RingSlots /\ more[SlotOf(i, k)] = ring[SlotOf(i, k)]
  <2> DEFINE j == k + NtsMaxCookies - n
  <2>1. j \in 1..NtsMaxCookies /\ n + j = k + NtsMaxCookies /\ k \in 1..NtsMaxCookies /\ ~ (j <= m)
    BY <1>0
  <2> HIDE DEF j
  <2>2. SlotOf(i, k) \in RingSlots /\ SlotOf(i, n + j) = SlotOf(i, k)
    BY <2>1, TurnAround, SlotCases
  <2>3. At(SlotOf(i, k)) = j
    BY <1>3, <2>1, <2>2, Zenon
  <2> QED BY <2>1, <2>2, <2>3
<1>5. ASSUME NEW k \in 1..m PROVE SlotOf(i, n + k) \in RingSlots /\ more[SlotOf(i, n + k)] = f[k]
  <2>1. k \in 1..NtsMaxCookies /\ n + k \in 1..NtsMaxCookies /\ k <= m
    BY <1>0
  <2>2. SlotOf(i, n + k) \in RingSlots
    BY <2>1, SlotCases
  <2>3. At(SlotOf(i, n + k)) = k
    BY <1>3, <2>1, <2>2, Zenon
  <2> QED BY <2>1, <2>2, <2>3
<1>6. ASSUME NEW s \in RingSlots, \A k \in 1..(n + m) : s # SlotOf(i, k) PROVE more[s] = Blank
  <2>1. At(s) \in 1..NtsMaxCookies /\ SlotOf(i, n + At(s)) = s
    BY <1>2, Zenon
  <2> DEFINE a == At(s)
  <2>2. ~ (a <= m)
    <3> SUFFICES ASSUME a <= m PROVE FALSE
      OBVIOUS
    <3>1. a \in 1..NtsMaxCookies
      BY <2>1
    <3> HIDE DEF a
    <3>2. n + a \in 1..(n + m)
      BY <1>0, <3>1
    <3> QED BY <1>6, <2>1, <3>2, Zenon DEF a
  <2>3. more[s] = ring[s]
    BY <2>2
  <2>4. \A k \in 1..n : k \in 1..(n + m)
    BY <1>0
  <2> QED BY <1>6, <2>3, <2>4, Zenon DEF Pool
<1>7. more \in Rings
  <2>1. ASSUME NEW s \in RingSlots PROVE (IF At(s) <= m THEN f[At(s)] ELSE ring[s]) \in Cookies \cup {Blank}
    <3>1. At(s) \in 1..NtsMaxCookies
      BY <1>2, Zenon
    <3>2. At(s) <= m => At(s) \in 1..m
      BY <1>0, <3>1
    <3>3. ring[s] \in Cookies \cup {Blank}
      BY DEF Rings
    <3> QED BY <1>f, <3>2, <3>3, Zenon
  <2> QED BY <2>1, Zenon DEF Rings
<1> HIDE DEF more
\* The cookie of the k-th live slot.
<1>8. ASSUME NEW k \in 1..(n + m)
      PROVE  \/ k \in 1..n /\ more[SlotOf(i, k)] = ring[SlotOf(i, k)]
             \/ \E j \in 1..m : k = n + j /\ more[SlotOf(i, k)] = f[j]
  <2>1. CASE k <= n
    <3>1. k \in 1..n
      BY <1>0, <2>1
    <3> QED BY <1>4, <3>1, Zenon
  <2>2. CASE ~ (k <= n)
    <3> DEFINE j == k - n
    <3>1. j \in 1..m /\ k = n + j
      BY <1>0, <2>2
    <3> HIDE DEF j
    <3> QED BY <1>5, <3>1, Zenon
  <2> QED BY <2>1, <2>2
<1>9. Pool(n + m, i, more)
  <2>1. \A k \in 1..(n + m) : more[SlotOf(i, k)] \in Cookies
    BY <1>8, <1>f, Zenon DEF Pool
  <2>2. ASSUME NEW j \in 1..(n + m), NEW k \in 1..(n + m), more[SlotOf(i, j)].id = more[SlotOf(i, k)].id
        PROVE  j = k
    <3> DEFINE Old(a) == a \in 1..n /\ more[SlotOf(i, a)] = ring[SlotOf(i, a)]
               New(a, b) == b \in 1..m /\ a = n + b /\ more[SlotOf(i, a)] = f[b]
    <3>1. (Old(j) \/ \E b \in 1..m : New(j, b)) /\ (Old(k) \/ \E b \in 1..m : New(k, b))
      BY <1>8, Zenon
    <3>2. CASE Old(j) /\ Old(k)
      BY <2>2, <3>2, Zenon DEF Pool
    <3>3. ASSUME Old(j), NEW b \in 1..m, New(k, b) PROVE FALSE
      BY <1>f, <2>2, <3>3, Zenon DEF HoldsIn
    <3>4. ASSUME Old(k), NEW b \in 1..m, New(j, b) PROVE FALSE
      BY <1>f, <2>2, <3>4, Zenon DEF HoldsIn
    <3>5. ASSUME NEW a \in 1..m, NEW b \in 1..m, New(j, a), New(k, b) PROVE j = k
      BY <1>f, <2>2, <3>5, Zenon
    <3> HIDE DEF Old, New
    <3> QED BY <3>1, <3>2, <3>3, <3>4, <3>5, Zenon
  <2> QED BY <1>6, <2>1, <2>2, Zenon DEF Pool
<1>10. \A id : HoldsIn(n + m, i, more, id) => HoldsIn(n, i, ring, id) \/ \E k \in 1..m : id = f[k].id
  BY <1>8, Zenon DEF HoldsIn
<1>11. more = RingWith(n, i, ring, m, f)
  BY Zenon DEF more, At, RingWith
<1> QED BY <1>0, <1>7, <1>9, <1>10, <1>11, Zenon DEF Grown

\* The server loses its key: the cookies keep their names.
LEMMA NoKeyCookie ==
  ASSUME NEW x \in Cookies \cup {Blank}
  PROVE  /\ NoKey(x) \in Cookies \cup {Blank} /\ NoKey(x).id = x.id
         /\ x \in Cookies => NoKey(x) \in Cookies
         /\ x = Blank => NoKey(x) = Blank
BY Zenon DEF NoKey, Cookies, Blank

\* The pool of a client whose server lost its key.
LEMMA PoolNoKey ==
  ASSUME NEW n \in 0..NtsMaxCookies, NEW i \in RingSlots, NEW ring \in Rings, Pool(n, i, ring)
  PROVE  LET old == [s \in RingSlots |-> NoKey(ring[s])]
         IN /\ old \in Rings /\ Pool(n, i, old)
            /\ \A id : HoldsIn(n, i, old, id) <=> HoldsIn(n, i, ring, id)
<1> DEFINE old == [s \in RingSlots |-> NoKey(ring[s])]
<1>1. \A s \in RingSlots : ring[s] \in Cookies \cup {Blank} /\ old[s] = NoKey(ring[s])
  BY DEF Rings
<1>2. old \in Rings
  BY <1>1, NoKeyCookie, Zenon DEF Rings
<1> HIDE DEF old
<1>3. \A k \in 1..n : SlotOf(i, k) \in RingSlots
  <2> TAKE k \in 1..n
  <2>1. k \in 1..NtsMaxCookies
    BY NtsAssumption
  <2> QED BY <2>1, SlotCases
<1>4. \A k \in 1..n : old[SlotOf(i, k)].id = ring[SlotOf(i, k)].id
  BY <1>1, <1>3, NoKeyCookie, Zenon
<1>5. Pool(n, i, old)
  <2>1. \A k \in 1..n : old[SlotOf(i, k)] \in Cookies
    <3> TAKE k \in 1..n
    <3>1. ring[SlotOf(i, k)] \in Cookies
      BY Zenon DEF Pool
    <3>2. SlotOf(i, k) \in RingSlots
      BY <1>3, Zenon
    <3>3. old[SlotOf(i, k)] = NoKey(ring[SlotOf(i, k)])
      BY <1>1, <3>2, Zenon
    <3> QED BY <3>1, <3>3, NoKeyCookie, Zenon
  <2>2. \A s \in RingSlots : (\A k \in 1..n : s # SlotOf(i, k)) => old[s] = Blank
    BY <1>1, NoKeyCookie, Zenon DEF Pool
  <2> QED BY <1>4, <2>1, <2>2, Zenon DEF Pool
<1>6. \A id : HoldsIn(n, i, old, id) <=> HoldsIn(n, i, ring, id)
  BY <1>4, Zenon DEF HoldsIn
<1> QED BY <1>2, <1>5, <1>6 DEF old

\* With names left, the cookies the server makes are distinct and nobody's.
LEMMA NewCookiesFresh ==
  ASSUME NEW n \in Nat, NamesLeft(n)
  PROVE  /\ NewCookies(n) \in [1..n -> Cookies] /\ NewCookies(n) \in Seq(Cookies) /\ Len(NewCookies(n)) = n
         /\ \A j, k \in 1..n : NewCookies(n)[j].id = NewCookies(n)[k].id => j = k
         /\ \A k \in 1..n : NewCookies(n)[k].id \in FreeIds
<1> DEFINE One(f) == \A j, k \in 1..n : f[j] = f[k] => j = k
           names == CHOOSE f \in [1..n -> FreeIds] : One(f)
           N == Cardinality(FreeIds)
<1>1. IsFiniteSet(FreeIds)
  BY NtsAssumption, FS_Difference, Zenon DEF FreeIds
<1>2. N \in Nat /\ ExistsBijection(1..N, FreeIds)
  BY <1>1, FS_CardinalityType
<1>3. PICK g \in [1..N -> FreeIds] : \A a, b \in 1..N : g[a] = g[b] => a = b
  BY <1>2, Zenon DEF ExistsBijection, Bijection, Injection, IsInjective
<1>4. n <= N
  BY DEF NamesLeft
<1> DEFINE h == [k \in 1..n |-> g[k]]
<1>5. \A k \in 1..n : k \in 1..N
  BY <1>2, <1>4
<1>6. h \in [1..n -> FreeIds] /\ One(h)
  BY <1>3, <1>5, Zenon
<1> HIDE DEF One, h
<1>7. names \in [1..n -> FreeIds] /\ One(names)
  BY <1>6, Zenon
<1>8. NewCookies(n) = [k \in 1..n |-> [id |-> names[k], ok |-> TRUE]]
  BY Zenon DEF NewCookies, One
<1> HIDE DEF names
<1>9. \A k \in 1..n : names[k] \in FreeIds /\ names[k] \in CookieIds
  BY <1>7, Zenon DEF FreeIds
<1>10. \A k \in 1..n : NewCookies(n)[k] \in Cookies /\ NewCookies(n)[k].id = names[k]
  BY <1>8, <1>9 DEF Cookies
<1>11. NewCookies(n) \in [1..n -> Cookies]
  BY <1>8, <1>9 DEF Cookies
<1>12. NewCookies(n) \in Seq(Cookies) /\ Len(NewCookies(n)) = n
  <2> DEFINE s == NewCookies(n)
  <2> HIDE DEF s
  <2>1. s \in [1..n -> Cookies]
    BY <1>11 DEF s
  <2>2. s \in Seq(Cookies) /\ Len(s) = n
    BY <2>1
  <2> QED BY <2>2 DEF s
<1> QED BY <1>7, <1>9, <1>10, <1>11, <1>12, Zenon DEF One

-----------------------------------------------------------------------------
(* The client *)

\* check_cookies: the pool stays or goes, and it goes after a NAK without a valid response.
LEMMA CheckedPool ==
  ASSUME NEW x \in Clients, PoolOf(x)
  PROVE  LET y == CheckCookies(x)
         IN /\ y \in Clients /\ PoolOf(y)
            /\ \A id : Holds(y, id) => Holds(x, id)
            /\ y.has_nke = x.has_nke /\ y.attempts = x.attempts /\ y.wait = x.wait /\ y.ok = x.ok
            /\ x.num = 0 => y.num = 0
            /\ y.num > 0 => ~ (x.nak /\ ~x.ok)
<1> DEFINE y == CheckCookies(x)
           blank == [s \in RingSlots |-> Blank]
<1>1. CASE x.num > 0 /\ ((x.nak /\ ~x.ok) \/ x.expired)
  <2>1. y = [x EXCEPT !.num = 0, !.ring = blank]
    BY <1>1, Zenon DEF CheckCookies
  <2>2. blank \in Rings /\ 0 \in 0..NtsMaxCookies /\ \A s \in RingSlots : blank[s] = Blank
    BY NtsAssumption DEF Rings
  <2> HIDE DEF blank
  <2>3. /\ y \in Clients /\ y.num = 0 /\ y.ring = blank /\ y.index = x.index
        /\ y.has_nke = x.has_nke /\ y.attempts = x.attempts /\ y.wait = x.wait /\ y.ok = x.ok
    BY <2>1, <2>2, Zenon DEF Clients
  <2>4. 1..0 = {}
    OBVIOUS
  <2>5. PoolOf(y) /\ \A id : ~ Holds(y, id)
    BY <2>2, <2>3, <2>4, Zenon DEF PoolOf, Pool, Holds, HoldsIn
  <2> HIDE DEF y
  <2> QED BY <2>3, <2>5 DEF y
<1>2. CASE ~ (x.num > 0 /\ ((x.nak /\ ~x.ok) \/ x.expired))
  <2>1. y = x
    BY <1>2, Zenon DEF CheckCookies
  <2> HIDE DEF y
  <2> QED BY <1>2, <2>1, Zenon DEF y
<1> QED BY <1>1, <1>2

\* update_next_nke_attempt: the next session is RETRY_INTERVAL_KE_START or more away.
LEMMA NextAttemptWaits ==
  ASSUME NEW x \in Clients, NEW failed \in BOOLEAN, x.attempts > 0
  PROVE  LET y == NextAttempt(x, failed)
         IN /\ y \in Clients /\ y.num = x.num /\ y.index = x.index /\ y.ring = x.ring
            /\ y.has_nke = x.has_nke /\ y.attempts = x.attempts /\ y.ok = x.ok /\ y.nak = x.nak
            /\ y.wait >= RetryStart /\ (y.wait <= 2^MaxRetry2 \/ y.wait <= RetryStart)
<1> DEFINE e == IF RetryFactor + x.attempts - 1 < MaxRetry2 THEN RetryFactor + x.attempts - 1 ELSE MaxRetry2
           w == IF failed THEN RetryStart ELSE 2^e
<1>1. e \in RetryFactor..MaxRetry2
  <2>1. x.attempts \in Nat
    BY DEF Clients
  <2> QED BY <2>1, NtsAssumption
<1>2. NextAttempt(x, failed) = [x EXCEPT !.wait = w]
  BY DEF NextAttempt
<1> HIDE DEF e
<1>3. 2^e \in Nat /\ RetryStart <= 2^e /\ 2^e <= 2^MaxRetry2 /\ RetryStart \in Nat
  BY <1>1, NtsAssumption
<1>4. w \in Nat /\ w >= RetryStart /\ (w <= 2^MaxRetry2 \/ w <= RetryStart)
  BY <1>3
<1> HIDE DEF w
<1> DEFINE y == NextAttempt(x, failed)
<1>5. /\ y \in Clients /\ y.num = x.num /\ y.index = x.index /\ y.ring = x.ring
      /\ y.has_nke = x.has_nke /\ y.attempts = x.attempts /\ y.ok = x.ok /\ y.nak = x.nak /\ y.wait = w
  BY <1>2, <1>4 DEF Clients
<1> QED BY <1>4, <1>5

\* A new session's cookies fill the ring.
LEMMA AdoptedPool ==
  ASSUME NEW x \in Clients, NamesLeft(NtsMaxCookies)
  PROVE  LET y == Adopt(x, NewCookies(NtsMaxCookies))
         IN /\ y \in Clients /\ PoolOf(y) /\ y.num = NtsMaxCookies /\ y.has_nke = FALSE
            /\ y.attempts = x.attempts /\ y.wait = x.wait
            /\ \A id : Holds(y, id) => id \in FreeIds
<1> DEFINE n == NtsMaxCookies
           f == NewCookies(n)
           ring == [i \in RingSlots |-> IF i < n THEN f[i + 1] ELSE Blank]
           y == Adopt(x, f)
<1>0. n \in Nat /\ n \in 0..NtsMaxCookies
  BY NtsAssumption
<1>1. /\ f \in [1..n -> Cookies] /\ Len(f) = n
      /\ \A j, k \in 1..n : f[j].id = f[k].id => j = k
      /\ \A k \in 1..n : f[k].id \in FreeIds
  BY <1>0, NewCookiesFresh
<1> HIDE DEF f
<1>2. /\ ring \in Rings /\ 0 \in RingSlots /\ Pool(n, 0, ring) /\ \A k \in 1..n : ring[SlotOf(0, k)] = f[k]
  BY <1>0, <1>1, PoolLaidOut, Zenon
<1>3. y = [x EXCEPT !.has_nke = FALSE, !.num = n, !.index = 0, !.expired = FALSE, !.ring = ring]
  BY <1>1 DEF Adopt
<1> HIDE DEF ring
<1>4. /\ y \in Clients /\ y.num = n /\ y.index = 0 /\ y.ring = ring /\ y.has_nke = FALSE
      /\ y.attempts = x.attempts /\ y.wait = x.wait
  BY <1>0, <1>2, <1>3, Zenon DEF Clients
<1> HIDE DEF y, n
<1>5. PoolOf(y)
  BY <1>2, <1>4, Zenon DEF PoolOf
<1>6. ASSUME NEW id, Holds(y, id) PROVE id \in FreeIds
  <2>1. PICK k \in 1..n : ring[SlotOf(0, k)].id = id
    BY <1>4, <1>6, Zenon DEF Holds, HoldsIn
  <2> QED BY <1>1, <1>2, <2>1, Zenon
<1> QED BY <1>4, <1>5, <1>6 DEF y, f, n

\* generate_request_auth: the oldest cookie leaves the pool.
LEMMA SpentPool ==
  ASSUME NEW x \in Clients, PoolOf(x), x.num > 0
  PROVE  LET y == Spend([x EXCEPT !.nak = FALSE])
         IN /\ y \in Clients /\ PoolOf(y) /\ x.ring[x.index] \in Cookies
            /\ y.has_nke = x.has_nke /\ y.attempts = x.attempts /\ y.wait = x.wait /\ y.ok = FALSE
            /\ \A id : Holds(y, id) => Holds(x, id) /\ id # x.ring[x.index].id
            /\ Holds(x, x.ring[x.index].id)
<1> DEFINE y == Spend([x EXCEPT !.nak = FALSE])
           next == SlotOf(x.index, 2)
           left == [x.ring EXCEPT ![x.index] = Blank]
           n == x.num - 1
<1>0. x.num \in 1..NtsMaxCookies /\ x.index \in RingSlots /\ x.ring \in Rings /\ n \in 0..NtsMaxCookies /\ 1 \in 1..x.num
  BY NtsAssumption DEF Clients
<1>1. /\ left \in Rings /\ next \in RingSlots /\ Pool(n, next, left)
      /\ x.ring[x.index] \in Cookies
      /\ \A id : HoldsIn(n, next, left, id) => HoldsIn(x.num, x.index, x.ring, id) /\ id # x.ring[x.index].id
  BY <1>0, PoolSpent DEF PoolOf
<1>2. next = (x.index + 1) % NtsMaxCookies /\ SlotOf(x.index, 1) = x.index
  BY <1>0, SlotShifts
<1> DEFINE z == [x EXCEPT !.nak = FALSE]
<1>3. z \in Clients /\ z.num = x.num /\ z.index = x.index /\ z.ring = x.ring
      /\ z.has_nke = x.has_nke /\ z.attempts = x.attempts /\ z.wait = x.wait
  BY Zenon DEF Clients
<1> HIDE DEF z
<1>4. y = [z EXCEPT !.num = n, !.index = next, !.ok = FALSE, !.ring = left]
  BY <1>2, <1>3, Zenon DEF Spend, z
<1> HIDE DEF next, left, n
<1>5. /\ y \in Clients /\ y.num = n /\ y.index = next /\ y.ring = left
      /\ y.has_nke = x.has_nke /\ y.attempts = x.attempts /\ y.wait = x.wait /\ y.ok = FALSE
  BY <1>0, <1>1, <1>3, <1>4, Zenon DEF Clients
<1> HIDE DEF y
<1>6. PoolOf(y) /\ (\A id : Holds(y, id) => Holds(x, id) /\ id # x.ring[x.index].id)
  BY <1>1, <1>5, Zenon DEF PoolOf, Holds
<1>7. Holds(x, x.ring[x.index].id)
  BY <1>0, <1>2, Zenon DEF Holds, HoldsIn
<1> QED BY <1>1, <1>5, <1>6, <1>7, Zenon DEF y

\* extract_cookies.
LEMMA ExtractedPool ==
  ASSUME NEW x \in Clients, PoolOf(x), NEW s \in Seq(Cookies),
         \A k \in 1..Len(s) : ~ Holds(x, s[k].id),
         \A j, k \in 1..Len(s) : s[j].id = s[k].id => j = k
  PROVE  LET y == [Extract(x, s) EXCEPT !.ok = TRUE, !.attempts = 0, !.wait = 0]
         IN /\ y \in Clients /\ PoolOf(y)
            /\ y.has_nke = x.has_nke /\ y.ok = TRUE /\ y.attempts = 0 /\ y.wait = 0
            /\ \A id : Holds(y, id) => Holds(x, id) \/ \E k \in 1..Len(s) : id = s[k].id
<1> DEFINE y == [Extract(x, s) EXCEPT !.ok = TRUE, !.attempts = 0, !.wait = 0]
           room == NtsMaxCookies - x.num
           m == IF Len(s) < room THEN Len(s) ELSE room
           more == RingWith(x.num, x.index, x.ring, m, s)
           total == x.num + m
<1>0. x.num \in 0..NtsMaxCookies /\ x.index \in RingSlots /\ x.ring \in Rings
  BY DEF Clients
<1>1. m \in 0..(NtsMaxCookies - x.num) /\ m <= Len(s)
  <2>1. Len(s) \in Nat
    OBVIOUS
  <2> QED BY <1>0, <2>1, NtsAssumption
<1>2. Extract(x, s) = [x EXCEPT !.num = total, !.ring = more]
  BY Zenon DEF Extract, RingWith
<1> HIDE DEF m
<1>3. \A k \in 1..m : k \in 1..Len(s) /\ s[k] \in Cookies
  <2> TAKE k \in 1..m
  <2>1. Len(s) \in Nat /\ m \in Nat
    BY <1>1, <1>0, NtsAssumption
  <2>2. k \in 1..Len(s)
    BY <1>1, <2>1
  <2> QED BY <2>2
<1>4. /\ more \in Rings /\ total \in 0..NtsMaxCookies
      /\ Pool(total, x.index, more)
      /\ \A id : HoldsIn(total, x.index, more, id) => HoldsIn(x.num, x.index, x.ring, id) \/ \E k \in 1..m : id = s[k].id
  <2>1. \A k \in 1..m : s[k] \in Cookies
    BY <1>3, Zenon
  <2>2. \A j, k \in 1..m : s[j].id = s[k].id => j = k
    BY <1>3, Zenon
  <2>3. \A k \in 1..m : ~ HoldsIn(x.num, x.index, x.ring, s[k].id)
    BY <1>3, Zenon DEF Holds
  <2>4. Pool(x.num, x.index, x.ring)
    BY Zenon DEF PoolOf
  <2>5. FreshFor(x.num, x.index, x.ring, m, s)
    BY <2>1, <2>2, <2>3, Zenon DEF FreshFor
  <2>6. Grown(x.num, x.index, x.ring, m, s)
    BY <1>0, <1>1, <2>4, <2>5, PoolExtended
  <2> QED BY <2>6, Zenon DEF Grown
<1> HIDE DEF more, total
<1>5. /\ y \in Clients /\ y.num = total /\ y.index = x.index /\ y.ring = more
      /\ y.has_nke = x.has_nke /\ y.ok = TRUE /\ y.attempts = 0 /\ y.wait = 0
  <2> DEFINE z == Extract(x, s)
  <2>1. z \in Clients /\ z.num = total /\ z.index = x.index /\ z.ring = more /\ z.has_nke = x.has_nke
    BY <1>2, <1>4, Zenon DEF Clients
  <2> HIDE DEF z
  <2>2. y = [z EXCEPT !.ok = TRUE, !.attempts = 0, !.wait = 0]
    BY DEF z
  <2> HIDE DEF y
  <2> QED BY <2>1, <2>2, Zenon DEF Clients
<1> HIDE DEF y
<1>6. PoolOf(y)
  BY <1>4, <1>5, Zenon DEF PoolOf
<1>7. ASSUME NEW id, Holds(y, id) PROVE Holds(x, id) \/ \E k \in 1..Len(s) : id = s[k].id
  <2>1. HoldsIn(total, x.index, more, id)
    BY <1>5, <1>7, Zenon DEF Holds
  <2> QED BY <1>3, <1>4, <2>1, Zenon DEF Holds
<1> QED BY <1>5, <1>6, <1>7 DEF y

-----------------------------------------------------------------------------
(* The steps *)

\* Requests of before the latest one keep their cookies.
LEMMA StaleRequests ==
  ASSUME NEW R, R \subseteq NtsRequests
  PROVE  Stale(R) \subseteq NtsRequests /\ \A m \in Stale(R) : ~m.cur /\ \E q \in R : q.cookie = m.cookie
<1>1. ASSUME NEW q \in R
      PROVE  LET m == [q EXCEPT !.cur = FALSE] IN m \in NtsRequests /\ ~m.cur /\ m.cookie = q.cookie
  BY Zenon DEF NtsRequests
<1> QED BY <1>1, Zenon DEF Stale

\* Responses of before the latest request are not current.
LEMMA StaleResponses ==
  ASSUME NEW R, R \subseteq NtsResponses
  PROVE  Stale(R) \subseteq NtsResponses /\ \A m \in Stale(R) : ~m.cur
<1>1. ASSUME NEW q \in R
      PROVE  LET m == [q EXCEPT !.cur = FALSE] IN m \in NtsResponses /\ ~m.cur
  BY Zenon DEF NtsResponses
<1> QED BY <1>1, Zenon DEF Stale

\* What holds after a request went out with a cookie of the pool x.
LEMMA SendsKeeps ==
  ASSUME NtsInv, NEW x \in Clients, PoolOf(x), x.num > 0, \A r \in reqs : ~ Holds(x, r.cookie.id),
         PollSends(x)
  PROVE  /\ nts' \in Clients /\ PoolOf(nts') /\ nts'.has_nke = x.has_nke /\ nts'.attempts = x.attempts /\ nts'.wait = x.wait
         /\ reqs' \subseteq NtsRequests /\ resps' \subseteq NtsResponses /\ \A r \in resps' : ~r.cur
         /\ \A r \in reqs' : ~ Holds(nts', r.cookie.id)
         /\ \A r \in reqs' : Holds(x, r.cookie.id) \/ \E q \in reqs : q.cookie = r.cookie
<1> DEFINE y == Spend([x EXCEPT !.nak = FALSE])
           n == NtsMaxCookies - x.num + 1
           k == x.ring[x.index]
           r0 == [cur |-> TRUE, cookie |-> k, n |-> n]
<1>1. /\ y \in Clients /\ PoolOf(y) /\ k \in Cookies
      /\ y.has_nke = x.has_nke /\ y.attempts = x.attempts /\ y.wait = x.wait
      /\ \A id : Holds(y, id) => Holds(x, id) /\ id # k.id
      /\ Holds(x, k.id)
  BY SpentPool, Zenon
<1>2. n \in Nat \ {0}
  BY NtsAssumption DEF Clients
<1>3. nts' = y /\ reqs' = Into(Stale(reqs), r0) /\ resps' = Stale(resps)
  BY DEF PollSends
<1> HIDE DEF y, n, k
<1>4. r0 \in NtsRequests /\ r0.cookie = k
  BY <1>1, <1>2 DEF NtsRequests
<1> HIDE DEF r0
<1>5. reqs \subseteq NtsRequests /\ resps \subseteq NtsResponses
  BY Zenon DEF NtsInv
<1>6. \A r \in reqs' : r = r0 \/ r \in Stale(reqs)
  BY <1>3, Zenon DEF Into
<1>7. reqs' \subseteq NtsRequests /\ resps' \subseteq NtsResponses /\ \A r \in resps' : ~r.cur
  BY <1>3, <1>4, <1>5, <1>6, StaleRequests, StaleResponses, Zenon
<1>8. ASSUME NEW r \in reqs' PROVE Holds(x, r.cookie.id) \/ \E q \in reqs : q.cookie = r.cookie
  BY <1>1, <1>4, <1>5, <1>6, StaleRequests, Zenon
<1>9. ASSUME NEW r \in reqs' PROVE ~ Holds(nts', r.cookie.id)
  <2>1. CASE r = r0
    BY <1>1, <1>3, <1>4, <2>1, Zenon
  <2>2. CASE r # r0
    <3>1. PICK q \in reqs : q.cookie = r.cookie
      BY <1>5, <1>6, <2>2, StaleRequests, Zenon
    <3> QED BY <1>1, <1>3, <3>1, Zenon
  <2> QED BY <2>1, <2>2
<1> QED BY <1>1, <1>3, <1>7, <1>8, <1>9, Zenon

\* Nothing the invariant says of the network can go wrong while no message of it
\* is current.
LEMMA Assembled ==
  ASSUME nts' \in Clients, PoolOf(nts'), nke' \in {"idle", "active", "ok", "fail"}, nts'.has_nke <=> nke' # "idle",
         reqs' \subseteq NtsRequests, resps' \subseteq NtsResponses, \A r \in resps' : ~r.cur,
         waited' \in 0..2^MaxRetry2, nts'.wait <= 2^MaxRetry2 \/ nts'.wait <= RetryStart,
         nts'.attempts > 0 => waited' + nts'.wait >= RetryStart,
         nts'.has_nke => nts'.num = 0 /\ nts'.attempts > 0 /\ \A r \in reqs' : ~r.cur,
         \A r \in reqs' : ~ Holds(nts', r.cookie.id)
  PROVE  NtsInv'
BY Zenon DEF NtsInv

\* Every message becomes an old one, and the pool only shrinks.
LEMMA StaleKeeps ==
  ASSUME NtsInv, NEW x \in Clients, PoolOf(x), \A id : Holds(x, id) => Holds(nts, id),
         NEW s \in {"idle", "active", "ok", "fail"}, x.has_nke <=> s # "idle",
         nts' = x, nke' = s, reqs' = Stale(reqs), resps' = Stale(resps),
         waited' \in 0..2^MaxRetry2, x.wait <= 2^MaxRetry2 \/ x.wait <= RetryStart,
         x.attempts > 0 => waited' + x.wait >= RetryStart,
         x.has_nke => x.num = 0 /\ x.attempts > 0
  PROVE  NtsInv' /\ \A r \in reqs' : \E q \in reqs : q.cookie = r.cookie
<1>1. nts' = x /\ nke' = s /\ reqs' = Stale(reqs) /\ resps' = Stale(resps)
  OBVIOUS
<1>2. reqs \subseteq NtsRequests /\ resps \subseteq NtsResponses /\ \A r \in reqs : ~ Holds(nts, r.cookie.id)
  BY Zenon DEF NtsInv
<1>3. /\ reqs' \subseteq NtsRequests /\ resps' \subseteq NtsResponses
      /\ \A r \in resps' : ~r.cur
      /\ \A r \in reqs' : ~r.cur /\ \E q \in reqs : q.cookie = r.cookie
  BY <1>1, <1>2, StaleRequests, StaleResponses, Zenon
<1>4. \A r \in reqs' : ~ Holds(nts', r.cookie.id)
  BY <1>1, <1>2, <1>3, Zenon
<1>5. NtsInv'
  BY <1>1, <1>3, <1>4, Assembled, Zenon
<1> QED BY <1>3, <1>5, Zenon

\* poll_source without cookies.
LEMMA FailsKeeps ==
  ASSUME NtsInv, NEW x \in Clients, PoolOf(x), \A id : Holds(x, id) => Holds(nts, id),
         NEW s \in {"idle", "active", "ok", "fail"}, x.has_nke <=> s # "idle", NEW sp, PollFails(x, s, sp),
         waited' \in 0..2^MaxRetry2, x.wait <= 2^MaxRetry2 \/ x.wait <= RetryStart,
         x.attempts > 0 => waited' + x.wait >= RetryStart,
         x.has_nke => x.num = 0 /\ x.attempts > 0
  PROVE  NtsInv' /\ \A r \in reqs' : \E q \in reqs : q.cookie = r.cookie
<1>1. nts' = x /\ nke' = s /\ reqs' = Stale(reqs) /\ resps' = Stale(resps)
  BY Zenon DEF PollFails
<1> QED BY <1>1, StaleKeeps, Zenon

\* The names of the pool, as the properties write them.
LEMMA HeldAre ==
  ASSUME NtsInv
  PROVE  /\ \A k \in 1..nts.num : k \in DOMAIN Live(nts) /\ Live(nts)[k] = SlotOf(nts.index, k)
         /\ \A id : id \in HeldIds <=> Holds(nts, id)
<1>1. nts \in Clients
  BY Zenon DEF NtsInv
<1>2. Live(nts) = [k \in 1..nts.num |-> SlotOf(nts.index, k)]
  BY Zenon DEF Live, SlotOf
<1>3. \A k \in 1..nts.num : k \in DOMAIN Live(nts) /\ Live(nts)[k] = SlotOf(nts.index, k)
  BY <1>2, Zenon
<1>4. ASSUME NEW id PROVE id \in HeldIds <=> Holds(nts, id)
  BY <1>3, Zenon DEF HeldIds, Holds, HoldsIn
<1> QED BY <1>3, <1>4, Zenon

\* A free name is neither in the pool nor in a request.
LEMMA FreeAre ==
  ASSUME NtsInv, NEW id \in FreeIds
  PROVE  ~ Holds(nts, id) /\ \A q \in reqs : q.cookie.id # id
BY HeldAre, Zenon DEF FreeIds, SentIds

\* What a step may put into the network: cookies of requests that were there,
\* cookies of a new session, or, without a NAK, cookies of the pool.
NakKept == \A r \in reqs' : \/ \E q \in reqs : q.cookie.id = r.cookie.id
                            \/ r.cookie.id \in FreeIds
                            \/ ~ (nts.nak /\ ~nts.ok)

Patient == waited' < waited /\ nts.attempts > 0 => waited >= RetryStart

\* A poll with cookies in the pool.
LEMMA PollCookiesKeeps ==
  ASSUME NtsInv, PollCookies
  PROVE  NtsInv' /\ NakKept /\ Patient
<1> DEFINE x == CheckCookies(nts)
<1>1. /\ nts \in Clients /\ PoolOf(nts) /\ waited \in 0..2^MaxRetry2
      /\ \A r \in reqs : ~ Holds(nts, r.cookie.id)
  BY Zenon DEF NtsInv
<1>2. /\ x \in Clients /\ PoolOf(x)
      /\ \A id : Holds(x, id) => Holds(nts, id)
      /\ x.has_nke = nts.has_nke /\ x.attempts = nts.attempts /\ x.wait = nts.wait
      /\ nts.num = 0 => x.num = 0
      /\ x.num > 0 => ~ (nts.nak /\ ~nts.ok)
  BY <1>1, CheckedPool
<1>3. x.num > 0 /\ PollSends(x) /\ nke' = nke /\ waited' = waited
  BY Zenon DEF PollCookies
<1> HIDE DEF x
<1>4. \A r \in reqs : ~ Holds(x, r.cookie.id)
  BY <1>1, <1>2, Zenon
<1>5. /\ nts' \in Clients /\ PoolOf(nts') /\ nts'.has_nke = x.has_nke /\ nts'.attempts = x.attempts /\ nts'.wait = x.wait
      /\ reqs' \subseteq NtsRequests /\ resps' \subseteq NtsResponses /\ \A r \in resps' : ~r.cur
      /\ \A r \in reqs' : ~ Holds(nts', r.cookie.id)
  BY <1>2, <1>3, <1>4, SendsKeeps, Zenon
<1>6. ~ nts.has_nke
  <2>1. nts.has_nke => nts.num = 0
    BY Zenon DEF NtsInv
  <2>2. x.num # 0
    BY <1>2, <1>3 DEF Clients
  <2> QED BY <1>2, <2>1, <2>2, Zenon
<1>7. NtsInv'
  <2>1. /\ nke \in {"idle", "active", "ok", "fail"} /\ (nts.has_nke <=> nke # "idle")
        /\ nts.wait <= 2^MaxRetry2 \/ nts.wait <= RetryStart
        /\ nts.attempts > 0 => waited + nts.wait >= RetryStart
    BY Zenon DEF NtsInv
  <2> QED BY <1>1, <1>2, <1>3, <1>5, <1>6, <2>1, Assembled, Zenon
<1>8. NakKept
  BY <1>2, <1>3, Zenon DEF NakKept
<1>9. Patient
  BY <1>1, <1>3 DEF Patient
<1> QED BY <1>7, <1>8, <1>9

\* A poll without cookies before the next session may start.
LEMMA PollWaitsKeeps ==
  ASSUME NtsInv, PollWaits
  PROVE  NtsInv' /\ NakKept /\ Patient
<1> DEFINE x == CheckCookies(nts)
<1>1. /\ nts \in Clients /\ PoolOf(nts) /\ waited \in 0..2^MaxRetry2
      /\ nke \in {"idle", "active", "ok", "fail"} /\ (nts.has_nke <=> nke # "idle")
      /\ nts.wait <= 2^MaxRetry2 \/ nts.wait <= RetryStart
      /\ nts.attempts > 0 => waited + nts.wait >= RetryStart
  BY Zenon DEF NtsInv
<1>2. /\ x \in Clients /\ PoolOf(x)
      /\ \A id : Holds(x, id) => Holds(nts, id)
      /\ x.has_nke = nts.has_nke /\ x.attempts = nts.attempts /\ x.wait = nts.wait
  BY <1>1, CheckedPool
<1>3. ~x.has_nke /\ PollFails(x, nke, spent) /\ waited' = waited
  BY Zenon DEF PollWaits
<1> HIDE DEF x
<1>4. NtsInv' /\ \A r \in reqs' : \E q \in reqs : q.cookie = r.cookie
  BY <1>1, <1>2, <1>3, FailsKeeps, Zenon
<1>5. NakKept
  BY <1>4, Zenon DEF NakKept
<1>6. Patient
  BY <1>1, <1>3 DEF Patient
<1> QED BY <1>4, <1>5, <1>6

\* A session's cookies replace the pool x, and one of them is sent.
LEMMA SessionSends ==
  ASSUME NtsInv, NEW x \in Clients, x.attempts > 0, NamesLeft(NtsMaxCookies),
         PollSends(Adopt(x, NewCookies(NtsMaxCookies))), nke' = "idle", waited' \in 0..2^MaxRetry2,
         x.wait >= RetryStart, x.wait <= 2^MaxRetry2 \/ x.wait <= RetryStart
  PROVE  NtsInv' /\ NakKept
<1> DEFINE y == Adopt(x, NewCookies(NtsMaxCookies))
<1>1. /\ y \in Clients /\ PoolOf(y) /\ y.num = NtsMaxCookies /\ y.has_nke = FALSE
      /\ y.attempts = x.attempts /\ y.wait = x.wait
      /\ \A id : Holds(y, id) => id \in FreeIds
  BY AdoptedPool, Zenon
<1>2. PollSends(y)
  OBVIOUS
<1> HIDE DEF y
<1>3. y.num > 0
  BY <1>1, NtsAssumption
<1>4. \A r \in reqs : ~ Holds(y, r.cookie.id)
  BY <1>1, FreeAre, Zenon
<1>5. /\ nts' \in Clients /\ PoolOf(nts') /\ nts'.has_nke = y.has_nke /\ nts'.attempts = y.attempts /\ nts'.wait = y.wait
      /\ reqs' \subseteq NtsRequests /\ resps' \subseteq NtsResponses /\ \A r \in resps' : ~r.cur
      /\ \A r \in reqs' : ~ Holds(nts', r.cookie.id)
      /\ \A r \in reqs' : Holds(y, r.cookie.id) \/ \E q \in reqs : q.cookie = r.cookie
  BY <1>1, <1>2, <1>3, <1>4, SendsKeeps, Zenon
<1>6. waited' + nts'.wait >= RetryStart
  BY <1>1, <1>5, NtsAssumption DEF Clients
<1>7. NtsInv'
  BY <1>1, <1>5, <1>6, Assembled, Zenon
<1>8. NakKept
  BY <1>1, <1>5, Zenon DEF NakKept
<1> QED BY <1>7, <1>8

\* A poll that starts a session.
LEMMA PollStartsKeeps ==
  ASSUME NtsInv, NEW out \in {"ok", "active", "nostart"}, PollStarts(out)
  PROVE  NtsInv' /\ NakKept /\ Patient
<1> DEFINE x == CheckCookies(nts)
           more == IF x.attempts < MaxAttempts THEN x.attempts + 1 ELSE x.attempts
           y == [x EXCEPT !.has_nke = TRUE, !.attempts = IF @ < MaxAttempts THEN @ + 1 ELSE @]
<1>1. /\ nts \in Clients /\ PoolOf(nts) /\ waited \in 0..2^MaxRetry2
      /\ nts.attempts > 0 => waited + nts.wait >= RetryStart
  BY Zenon DEF NtsInv
<1>2. /\ x \in Clients /\ PoolOf(x)
      /\ \A id : Holds(x, id) => Holds(nts, id)
      /\ x.has_nke = nts.has_nke /\ x.attempts = nts.attempts /\ x.wait = nts.wait
  BY <1>1, CheckedPool
<1>3. /\ x.num = 0 /\ ~x.has_nke /\ x.wait = 0 /\ waited' = 0
      /\ out = "ok" => /\ NamesLeft(NtsMaxCookies)
                       /\ PollSends(Adopt(NextAttempt(y, FALSE), NewCookies(NtsMaxCookies)))
                       /\ nke' = "idle"
      /\ out = "active" => PollFails(NextAttempt(y, FALSE), "active", spent)
      /\ out = "nostart" => PollFails([NextAttempt(y, TRUE) EXCEPT !.has_nke = FALSE], "idle", real)
  BY Zenon DEF PollStarts
<1>4. y = [[x EXCEPT !.has_nke = TRUE] EXCEPT !.attempts = more]
  BY <1>2 DEF Clients
<1> HIDE DEF x, y
<1>5. more \in Nat /\ more > 0
  BY <1>2, NtsAssumption DEF Clients
<1> HIDE DEF more
<1>6. /\ y \in Clients /\ y.attempts > 0 /\ y.num = x.num /\ y.index = x.index /\ y.ring = x.ring
      /\ y.has_nke = TRUE
  BY <1>2, <1>4, <1>5, Zenon DEF Clients
<1>7. /\ \A id : Holds(y, id) => Holds(nts, id)
      /\ PoolOf(y)
  BY <1>2, <1>6, Zenon DEF Holds, PoolOf
<1>8. Patient
  BY <1>1, <1>2, <1>3 DEF Patient, Clients
<1>9. waited' \in 0..2^MaxRetry2
  BY <1>3, NtsAssumption
<1>10. ASSUME NEW failed \in BOOLEAN
       PROVE  LET z == NextAttempt(y, failed)
              IN /\ z \in Clients /\ PoolOf(z) /\ z.num = 0 /\ z.has_nke = TRUE /\ z.attempts > 0
                 /\ \A id : Holds(z, id) => Holds(nts, id)
                 /\ z.wait >= RetryStart /\ (z.wait <= 2^MaxRetry2 \/ z.wait <= RetryStart)
  <2> DEFINE z == NextAttempt(y, failed)
  <2>1. /\ z \in Clients /\ z.num = y.num /\ z.index = y.index /\ z.ring = y.ring
        /\ z.has_nke = y.has_nke /\ z.attempts = y.attempts
        /\ z.wait >= RetryStart /\ (z.wait <= 2^MaxRetry2 \/ z.wait <= RetryStart)
    BY <1>6, NextAttemptWaits
  <2> HIDE DEF z
  <2>2. PoolOf(z) /\ \A id : Holds(z, id) => Holds(nts, id)
    BY <1>7, <2>1, Zenon DEF Holds, PoolOf
  <2> QED BY <1>3, <1>6, <2>1, <2>2, Zenon DEF z
<1>11. CASE out = "ok"
  <2> DEFINE z == NextAttempt(y, FALSE)
  <2>1. /\ z \in Clients /\ z.attempts > 0 /\ z.wait >= RetryStart
        /\ z.wait <= 2^MaxRetry2 \/ z.wait <= RetryStart
    BY <1>10, Zenon
  <2>2. NamesLeft(NtsMaxCookies) /\ PollSends(Adopt(z, NewCookies(NtsMaxCookies))) /\ nke' = "idle"
    BY <1>3, <1>11, Zenon
  <2> HIDE DEF z
  <2> QED BY <1>8, <1>9, <2>1, <2>2, SessionSends, Zenon
<1>12. CASE out = "active"
  <2> DEFINE z == NextAttempt(y, FALSE)
  <2>1. /\ z \in Clients /\ PoolOf(z) /\ z.num = 0 /\ z.has_nke = TRUE /\ z.attempts > 0
        /\ \A id : Holds(z, id) => Holds(nts, id)
        /\ z.wait >= RetryStart /\ (z.wait <= 2^MaxRetry2 \/ z.wait <= RetryStart)
    BY <1>10, Zenon
  <2>2. PollFails(z, "active", spent)
    BY <1>3, <1>12, Zenon
  <2> HIDE DEF z
  <2>3. waited' + z.wait >= RetryStart
    BY <1>3, <2>1 DEF Clients
  <2>4. NtsInv' /\ \A r \in reqs' : \E q \in reqs : q.cookie = r.cookie
    BY <1>9, <2>1, <2>2, <2>3, FailsKeeps, Zenon
  <2> QED BY <1>8, <2>4, Zenon DEF NakKept
<1>13. CASE out = "nostart"
  <2> DEFINE u == NextAttempt(y, TRUE)
             z == [u EXCEPT !.has_nke = FALSE]
  <2>1. /\ u \in Clients /\ PoolOf(u) /\ u.num = 0 /\ u.attempts > 0
        /\ \A id : Holds(u, id) => Holds(nts, id)
        /\ u.wait >= RetryStart /\ (u.wait <= 2^MaxRetry2 \/ u.wait <= RetryStart)
    BY <1>10, Zenon
  <2>2. PollFails(z, "idle", real)
    BY <1>3, <1>13, Zenon
  <2> HIDE DEF u
  <2>3. /\ z \in Clients /\ z.num = u.num /\ z.index = u.index /\ z.ring = u.ring /\ z.attempts = u.attempts
        /\ z.wait = u.wait /\ z.has_nke = FALSE
    BY <2>1, Zenon DEF Clients
  <2> HIDE DEF z
  <2>4. PoolOf(z) /\ \A id : Holds(z, id) => Holds(nts, id)
    BY <2>1, <2>3, Zenon DEF Holds, PoolOf
  <2>5. waited' + z.wait >= RetryStart
    BY <1>3, <2>1, <2>3 DEF Clients
  <2>6. NtsInv' /\ \A r \in reqs' : \E q \in reqs : q.cookie = r.cookie
    BY <1>9, <2>1, <2>2, <2>3, <2>4, <2>5, FailsKeeps, Zenon
  <2> QED BY <1>8, <2>6, Zenon DEF NakKept
<1> QED BY <1>11, <1>12, <1>13

\* A poll that looks at a session of an earlier one.
LEMMA PollChecksKeeps ==
  ASSUME NtsInv, PollChecks
  PROVE  NtsInv' /\ NakKept /\ Patient
<1> DEFINE x == CheckCookies(nts)
           y == NextAttempt(x, FALSE)
<1>1. /\ nts \in Clients /\ PoolOf(nts) /\ waited \in 0..2^MaxRetry2
      /\ nke \in {"idle", "active", "ok", "fail"} /\ (nts.has_nke <=> nke # "idle")
      /\ nts.has_nke => nts.attempts > 0
  BY Zenon DEF NtsInv
<1>2. /\ x \in Clients /\ PoolOf(x)
      /\ \A id : Holds(x, id) => Holds(nts, id)
      /\ x.has_nke = nts.has_nke /\ x.attempts = nts.attempts
  BY <1>1, CheckedPool
<1>3. /\ x.num = 0 /\ x.has_nke /\ waited' = waited
      /\ nke = "active" => PollFails(y, nke, spent)
      /\ nke = "ok" => /\ NamesLeft(NtsMaxCookies) /\ PollSends(Adopt(y, NewCookies(NtsMaxCookies)))
                       /\ nke' = "idle"
      /\ nke = "fail" => PollFails([y EXCEPT !.has_nke = FALSE], "idle", spent)
  BY Zenon DEF PollChecks
<1> HIDE DEF x
<1>4. x.attempts > 0
  BY <1>1, <1>2, <1>3, Zenon
<1>5. /\ y \in Clients /\ y.num = x.num /\ y.index = x.index /\ y.ring = x.ring
      /\ y.has_nke = x.has_nke /\ y.attempts = x.attempts
      /\ y.wait >= RetryStart /\ (y.wait <= 2^MaxRetry2 \/ y.wait <= RetryStart)
  BY <1>2, <1>4, NextAttemptWaits, Zenon
<1> HIDE DEF y
<1>6. PoolOf(y) /\ \A id : Holds(y, id) => Holds(nts, id)
  BY <1>2, <1>5, Zenon DEF Holds, PoolOf
<1>7. Patient
  BY <1>1, <1>3 DEF Patient
<1>8. waited' \in 0..2^MaxRetry2
  BY <1>1, <1>3, Zenon
<1>9. waited' + y.wait >= RetryStart
  BY <1>5, <1>8, NtsAssumption DEF Clients
<1>10. CASE nke = "active"
  <2>1. NtsInv' /\ \A r \in reqs' : \E q \in reqs : q.cookie = r.cookie
    BY <1>1, <1>2, <1>3, <1>4, <1>5, <1>6, <1>8, <1>9, <1>10, FailsKeeps, Zenon
  <2> QED BY <1>7, <2>1, Zenon DEF NakKept
<1>11. CASE nke = "ok"
  BY <1>3, <1>4, <1>5, <1>7, <1>8, <1>11, SessionSends, Zenon
<1>12. CASE nke = "fail"
  <2> DEFINE z == [y EXCEPT !.has_nke = FALSE]
  <2>1. PollFails(z, "idle", spent)
    BY <1>3, <1>12, Zenon
  <2>2. /\ z \in Clients /\ z.num = y.num /\ z.index = y.index /\ z.ring = y.ring /\ z.attempts = y.attempts
        /\ z.wait = y.wait /\ z.has_nke = FALSE
    BY <1>5, Zenon DEF Clients
  <2> HIDE DEF z
  <2>3. PoolOf(z) /\ \A id : Holds(z, id) => Holds(nts, id)
    BY <1>6, <2>2, Zenon DEF Holds, PoolOf
  <2>4. NtsInv' /\ \A r \in reqs' : \E q \in reqs : q.cookie = r.cookie
    BY <1>5, <1>8, <1>9, <2>1, <2>2, <2>3, FailsKeeps, Zenon
  <2> QED BY <1>7, <2>4, Zenon DEF NakKept
<1> QED BY <1>1, <1>2, <1>3, <1>10, <1>11, <1>12, Zenon

\* The steps that leave the pool and the requests alone.
LEMMA QuietKeeps ==
  ASSUME NtsInv, NEW r \in {"ok", "fail"}, KeEnds(r) \/ NtsLose
  PROVE  NtsInv' /\ NakKept /\ Patient
<1>1. /\ nts' = nts /\ waited' = waited /\ reqs' \subseteq reqs /\ resps' \subseteq resps
      /\ nke' = nke \/ (nke = "active" /\ nke' = r)
  BY Zenon DEF KeEnds, NtsLose
<1>2. nke' \in {"idle", "active", "ok", "fail"} /\ (nts.has_nke <=> nke' # "idle")
  BY <1>1, Zenon DEF NtsInv
<1>3. NtsInv'
  BY <1>1, <1>2, Zenon DEF NtsInv
<1>4. waited \in 0..2^MaxRetry2
  BY Zenon DEF NtsInv
<1> QED BY <1>1, <1>3, <1>4 DEF NakKept, Patient

\* The steps that change nothing of the pool but a time or a flag.
LEMMA TimesKeep ==
  ASSUME NtsInv, nts' \in Clients, nts'.num = nts.num, nts'.index = nts.index, nts'.ring = nts.ring, nts'.ok = nts.ok,
         nts'.attempts = nts.attempts, nts'.has_nke = nts.has_nke, nke' = nke, reqs' = reqs, resps' = resps,
         waited' \in 0..2^MaxRetry2, nts'.wait <= 2^MaxRetry2 \/ nts'.wait <= RetryStart,
         nts'.attempts > 0 => waited' + nts'.wait >= RetryStart
  PROVE  NtsInv' /\ NakKept
<1>1. PoolOf(nts') /\ \A id : Holds(nts', id) <=> Holds(nts, id)
  BY Zenon DEF NtsInv, PoolOf, Holds
<1> QED BY <1>1, Zenon DEF NtsInv, NakKept

\* A second passes.
LEMMA SecondKeeps ==
  ASSUME NtsInv, Second
  PROVE  NtsInv' /\ NakKept /\ Patient
<1>1. /\ nts \in Clients /\ waited \in 0..2^MaxRetry2 /\ (nts.wait <= 2^MaxRetry2 \/ nts.wait <= RetryStart)
      /\ nts.attempts > 0 => waited + nts.wait >= RetryStart
  BY Zenon DEF NtsInv
<1>2. 2^MaxRetry2 \in Nat /\ RetryStart \in Nat /\ RetryStart <= 2^MaxRetry2
  BY NtsAssumption
<1>3. /\ nts' = IF nts.wait > 0 THEN [nts EXCEPT !.wait = nts.wait - 1] ELSE nts
      /\ waited' = IF waited < 2^MaxRetry2 THEN waited + 1 ELSE waited
      /\ nke' = nke /\ reqs' = reqs /\ resps' = resps
  BY Zenon DEF Second
<1>4. /\ nts' \in Clients /\ nts'.num = nts.num /\ nts'.index = nts.index /\ nts'.ring = nts.ring /\ nts'.ok = nts.ok
      /\ nts'.attempts = nts.attempts /\ nts'.has_nke = nts.has_nke
      /\ nts.wait > 0 => nts'.wait = nts.wait - 1
      /\ ~ (nts.wait > 0) => nts'.wait = nts.wait
  BY <1>1, <1>3 DEF Clients
<1>5. nts.wait \in Nat /\ nts'.wait \in Nat
  BY <1>1, <1>4 DEF Clients
<1>6. /\ waited' \in 0..2^MaxRetry2
      /\ nts'.wait <= 2^MaxRetry2 \/ nts'.wait <= RetryStart
      /\ nts.attempts > 0 => waited' + nts'.wait >= RetryStart
      /\ waited' >= waited
  BY <1>1, <1>2, <1>3, <1>4, <1>5
<1>7. NtsInv' /\ NakKept
  BY <1>3, <1>4, <1>6, TimesKeep, Zenon
<1>8. Patient
  BY <1>1, <1>6 DEF Patient
<1> QED BY <1>7, <1>8

\* The keys reach their age limit.
LEMMA ExpireKeeps ==
  ASSUME NtsInv, Expire
  PROVE  NtsInv' /\ NakKept /\ Patient
<1>1. /\ nts \in Clients /\ waited \in 0..2^MaxRetry2 /\ (nts.wait <= 2^MaxRetry2 \/ nts.wait <= RetryStart)
      /\ nts.attempts > 0 => waited + nts.wait >= RetryStart
  BY Zenon DEF NtsInv
<1>2. nts' = [nts EXCEPT !.expired = TRUE] /\ nke' = nke /\ reqs' = reqs /\ resps' = resps /\ waited' = waited
  BY Zenon DEF Expire
<1>3. /\ nts' \in Clients /\ nts'.num = nts.num /\ nts'.index = nts.index /\ nts'.ring = nts.ring /\ nts'.ok = nts.ok
      /\ nts'.attempts = nts.attempts /\ nts'.has_nke = nts.has_nke /\ nts'.wait = nts.wait
  BY <1>1, <1>2, Zenon DEF Clients
<1>4. NtsInv' /\ NakKept
  BY <1>1, <1>2, <1>3, TimesKeep, Zenon
<1>5. Patient
  BY <1>1, <1>2 DEF Patient
<1> QED BY <1>4, <1>5

\* reset_instance leaves an empty pool.
LEMMA ResetFacts ==
  /\ NtsReset \in Clients /\ PoolOf(NtsReset) /\ NtsReset.num = 0 /\ NtsReset.attempts = 0 /\ NtsReset.wait = 0
  /\ NtsReset.has_nke = FALSE
  /\ \A id : ~ Holds(NtsReset, id)
<1> DEFINE blank == [s \in RingSlots |-> Blank]
<1>1. 0 \in RingSlots /\ 0 \in 0..NtsMaxCookies
  BY NtsAssumption DEF RingSlots
<1>2. blank \in Rings /\ \A s \in RingSlots : blank[s] = Blank
  BY DEF Rings
<1>3. NtsReset = [num |-> 0, index |-> 0, ring |-> blank, nak |-> FALSE, ok |-> TRUE,
                  attempts |-> 0, wait |-> 0, has_nke |-> FALSE, expired |-> FALSE]
  BY Zenon DEF NtsReset
<1> HIDE DEF blank
<1>4. /\ NtsReset \in Clients /\ NtsReset.num = 0 /\ NtsReset.index = 0 /\ NtsReset.ring = blank
      /\ NtsReset.attempts = 0 /\ NtsReset.wait = 0 /\ NtsReset.has_nke = FALSE
  BY <1>1, <1>2, <1>3 DEF Clients
<1>5. Pool(0, 0, blank) /\ \A id : ~ HoldsIn(0, 0, blank, id)
  BY <1>2 DEF Pool, HoldsIn
<1> QED BY <1>4, <1>5, Zenon DEF PoolOf, Holds

\* change_address.
LEMMA ChangeAddressKeeps ==
  ASSUME NtsInv, ChangeAddress
  PROVE  NtsInv' /\ NakKept /\ Patient
<1>1. /\ nts' = NtsReset /\ nke' = "idle" /\ reqs' = Stale(reqs) /\ resps' = Stale(resps)
      /\ waited' = waited
  BY Zenon DEF ChangeAddress
<1>2. waited \in 0..2^MaxRetry2
  BY Zenon DEF NtsInv
<1>3. NtsReset.wait <= RetryStart /\ ~ (NtsReset.attempts > 0)
  BY ResetFacts, NtsAssumption
<1>4. NtsInv' /\ \A r \in reqs' : \E q \in reqs : q.cookie = r.cookie
  BY <1>1, <1>2, <1>3, ResetFacts, StaleKeeps, Zenon
<1>5. NakKept
  BY <1>4, Zenon DEF NakKept
<1>6. Patient
  BY <1>1, <1>2 DEF Patient
<1> QED BY <1>4, <1>5, <1>6

\* save_cookies and a new instance that loads the dump: the same cookies, laid out from slot 0.
LEMMA DumpAndLoadKeeps ==
  ASSUME NtsInv, NEW old \in BOOLEAN, DumpAndLoad(old)
  PROVE  NtsInv' /\ NakKept /\ Patient
<1> DEFINE n == nts.num
           f == [k \in 1..n |-> nts.ring[SlotOf(nts.index, k)]]
           ring == [i \in RingSlots |-> IF i < n THEN f[i + 1] ELSE Blank]
           ring2 == [i \in RingSlots |-> IF i < nts.num THEN nts.ring[Live(nts)[i + 1]] ELSE Blank]
           x == [NtsReset EXCEPT !.num = nts.num, !.expired = old, !.ring = ring2]
<1>1. /\ nts \in Clients /\ PoolOf(nts) /\ waited \in 0..2^MaxRetry2
  BY Zenon DEF NtsInv
<1>2. /\ nts' = x /\ nke' = "idle" /\ reqs' = Stale(reqs) /\ resps' = Stale(resps)
      /\ waited' = waited
  BY Zenon DEF DumpAndLoad
<1>3. n \in 0..NtsMaxCookies
  BY <1>1 DEF Clients
<1>4. f \in [1..n -> Cookies] /\ \A j, k \in 1..n : f[j].id = f[k].id => j = k
  BY <1>1, Zenon DEF PoolOf, Pool
<1>5. /\ ring \in Rings /\ 0 \in RingSlots /\ Pool(n, 0, ring)
      /\ \A k \in 1..n : ring[SlotOf(0, k)] = f[k]
  BY <1>3, <1>4, PoolLaidOut, Zenon
<1>6. ring2 = ring
  <2>1. ASSUME NEW i \in RingSlots, i < n PROVE nts.ring[Live(nts)[i + 1]] = f[i + 1]
    <3>1. i + 1 \in 1..n
      BY <1>3, <2>1, NtsAssumption DEF RingSlots
    <3> QED BY <3>1, HeldAre, Zenon
  <2> QED BY <2>1, Zenon
<1>7. \A k \in 1..n : f[k] = nts.ring[SlotOf(nts.index, k)]
  BY Zenon
<1>8. x = [[[NtsReset EXCEPT !.num = n] EXCEPT !.expired = old] EXCEPT !.ring = ring]
  BY <1>6, Zenon
<1> HIDE DEF x, ring, ring2, f
<1>9. /\ x \in Clients /\ x.num = n /\ x.index = 0 /\ x.ring = ring /\ x.attempts = 0 /\ x.wait = 0
      /\ x.has_nke = FALSE
  <2>1. NtsReset \in Clients /\ NtsReset.index = 0 /\ NtsReset.attempts = 0 /\ NtsReset.wait = 0 /\ NtsReset.has_nke = FALSE
    BY ResetFacts DEF NtsReset
  <2> HIDE DEF n
  <2> QED BY <1>3, <1>5, <1>8, <2>1, Zenon DEF Clients
<1>10. PoolOf(x) /\ \A id : Holds(x, id) => Holds(nts, id)
  <2>1. PoolOf(x)
    BY <1>5, <1>9, Zenon DEF PoolOf
  <2>2. ASSUME NEW id, Holds(x, id) PROVE Holds(nts, id)
    BY <1>5, <1>7, <1>9, <2>2, Zenon DEF Holds, HoldsIn
  <2> QED BY <2>1, <2>2, Zenon
<1>11. x.wait <= RetryStart /\ ~ (x.attempts > 0)
  BY <1>9, NtsAssumption
<1>12. NtsInv' /\ \A r \in reqs' : \E q \in reqs : q.cookie = r.cookie
  BY <1>1, <1>2, <1>9, <1>10, <1>11, StaleKeeps, Zenon
<1>13. NakKept
  BY <1>12, Zenon DEF NakKept
<1>14. Patient
  BY <1>1, <1>2 DEF Patient
<1> QED BY <1>12, <1>13, <1>14

\* A response whose cookies are new to the pool and to the requests.
Offer(x, R, r) ==
  /\ \A k \in 1..Len(r.cookies) : /\ ~ Holds(x, r.cookies[k].id)
                                  /\ \A q \in R : q.cookie.id # r.cookies[k].id
  /\ \A j, k \in 1..Len(r.cookies) : r.cookies[j].id = r.cookies[k].id => j = k

\* What the invariant says of a response to the latest request.
LEMMA OfferMeans ==
  ASSUME NtsInv, ~nts.ok, NEW r \in resps, r.cur
  PROVE  Offer(nts, reqs, r)
BY Zenon DEF NtsInv, Offer

\* Steps of the network and of the server: the session and the times stay.
LEMMA NetworkKeeps ==
  ASSUME NtsInv, nts' \in Clients, PoolOf(nts'), \A id : Holds(nts', id) <=> Holds(nts, id),
         nts'.num = nts.num, nts'.ok = nts.ok, nts'.attempts = nts.attempts, nts'.wait = nts.wait, nts'.has_nke = nts.has_nke,
         nke' = nke, waited' = waited,
         reqs' \subseteq NtsRequests, \A m \in reqs' : \E q \in reqs : m.cur = q.cur /\ m.cookie.id = q.cookie.id,
         resps' \subseteq NtsResponses, nts.has_nke => \A m \in resps' : ~m.cur,
         ~nts.ok => \A m \in resps' : m.cur => Offer(nts', reqs', m)
  PROVE  NtsInv' /\ NakKept /\ Patient
<1>1. waited \in 0..2^MaxRetry2
  BY Zenon DEF NtsInv
<1>2. \A r \in reqs' : ~ Holds(nts', r.cookie.id)
  <2>1. \A r \in reqs : ~ Holds(nts, r.cookie.id)
    BY Zenon DEF NtsInv
  <2> QED BY <2>1, Zenon
<1>3. nts'.has_nke => nts'.num = 0 /\ nts'.attempts > 0 /\ \A r \in reqs' : ~r.cur
  <2>1. nts.has_nke => nts.num = 0 /\ nts.attempts > 0 /\ \A r \in reqs : ~r.cur
    BY Zenon DEF NtsInv
  <2> QED BY <2>1, Zenon
<1>4. /\ nke' \in {"idle", "active", "ok", "fail"} /\ (nts'.has_nke <=> nke' # "idle")
      /\ nts'.wait <= 2^MaxRetry2 \/ nts'.wait <= RetryStart
      /\ nts'.attempts > 0 => waited' + nts'.wait >= RetryStart
  BY Zenon DEF NtsInv
<1>5. NtsInv'
  BY <1>1, <1>2, <1>3, <1>4, Zenon DEF NtsInv, Offer
<1>6. NakKept
  BY Zenon DEF NakKept
<1>7. Patient
  BY <1>1 DEF Patient
<1> QED BY <1>5, <1>6, <1>7

\* The server starts again with a new key.
LEMMA ServerRestartKeeps ==
  ASSUME NtsInv, ServerRestart
  PROVE  NtsInv' /\ NakKept /\ Patient
<1> DEFINE old == [s \in RingSlots |-> NoKey(nts.ring[s])]
<1>1. /\ nts \in Clients /\ PoolOf(nts) /\ reqs \subseteq NtsRequests /\ resps \subseteq NtsResponses
      /\ nts.has_nke => \A r \in resps : ~r.cur
  BY Zenon DEF NtsInv
<1>2. /\ nts' = [nts EXCEPT !.ring = old] /\ nke' = nke /\ waited' = waited
      /\ reqs' = {[r EXCEPT !.cookie = NoKey(r.cookie)] : r \in reqs}
      /\ resps' = {[r EXCEPT !.cookies = [k \in DOMAIN r.cookies |-> NoKey(r.cookies[k])]] : r \in resps}
  BY Zenon DEF ServerRestart
<1>3. /\ nts.num \in 0..NtsMaxCookies /\ nts.index \in RingSlots /\ nts.ring \in Rings /\ Pool(nts.num, nts.index, nts.ring)
  BY <1>1 DEF Clients, PoolOf
<1>4. /\ old \in Rings /\ Pool(nts.num, nts.index, old)
      /\ \A id : HoldsIn(nts.num, nts.index, old, id) <=> HoldsIn(nts.num, nts.index, nts.ring, id)
  BY <1>3, PoolNoKey, Zenon
<1> HIDE DEF old
<1>5. /\ nts' \in Clients /\ nts'.num = nts.num /\ nts'.index = nts.index /\ nts'.ring = old /\ nts'.ok = nts.ok
      /\ nts'.attempts = nts.attempts /\ nts'.has_nke = nts.has_nke /\ nts'.wait = nts.wait
  BY <1>1, <1>2, <1>4 DEF Clients
<1>6. PoolOf(nts') /\ \A id : Holds(nts', id) <=> Holds(nts, id)
  BY <1>4, <1>5, Zenon DEF PoolOf, Holds
<1>7. ASSUME NEW m \in reqs'
      PROVE  m \in NtsRequests /\ \E q \in reqs : m.cur = q.cur /\ m.cookie.id = q.cookie.id
  <2>1. PICK q \in reqs : m = [q EXCEPT !.cookie = NoKey(q.cookie)]
    BY <1>2, Zenon
  <2>2. q \in NtsRequests /\ q.cookie \in Cookies
    BY <1>1 DEF NtsRequests
  <2>3. NoKey(q.cookie) \in Cookies /\ NoKey(q.cookie).id = q.cookie.id
    BY <2>2, NoKeyCookie, Zenon
  <2>4. m \in NtsRequests /\ m.cur = q.cur /\ m.cookie = NoKey(q.cookie)
    BY <2>1, <2>2, <2>3 DEF NtsRequests
  <2> QED BY <2>3, <2>4, Zenon
<1>8. ASSUME NEW m \in resps'
      PROVE  /\ m \in NtsResponses
             /\ \E q \in resps : /\ m.cur = q.cur /\ Len(m.cookies) = Len(q.cookies)
                                 /\ \A k \in 1..Len(q.cookies) : m.cookies[k].id = q.cookies[k].id
  <2>1. PICK q \in resps : m = [q EXCEPT !.cookies = [k \in DOMAIN q.cookies |-> NoKey(q.cookies[k])]]
    BY <1>2, Zenon
  <2> DEFINE s == [k \in DOMAIN q.cookies |-> NoKey(q.cookies[k])]
  <2>2. q \in NtsResponses /\ q.cookies \in Seq(Cookies) /\ DOMAIN q.cookies = 1..Len(q.cookies) /\ Len(q.cookies) \in Nat
    BY <1>1 DEF NtsResponses
  <2>3. ASSUME NEW k \in 1..Len(q.cookies)
        PROVE  s[k] \in Cookies /\ s[k].id = q.cookies[k].id
    <3>1. q.cookies[k] \in Cookies
      BY <2>2
    <3> QED BY <2>2, <3>1, NoKeyCookie, Zenon
  <2>4. s \in [1..Len(q.cookies) -> Cookies]
    BY <2>2, <2>3, Zenon
  <2>5. m = [q EXCEPT !.cookies = s]
    BY <2>1
  <2> HIDE DEF s
  <2>6. s \in Seq(Cookies) /\ Len(s) = Len(q.cookies)
    BY <2>2, <2>4
  <2>7. m \in NtsResponses /\ m.cur = q.cur /\ m.cookies = s
    BY <2>2, <2>5, <2>6 DEF NtsResponses
  <2> QED BY <2>3, <2>6, <2>7, Zenon
<1>9. nts.has_nke => \A m \in resps' : ~m.cur
  BY <1>1, <1>8, Zenon
<1>10. ASSUME ~nts.ok, NEW m \in resps', m.cur PROVE Offer(nts', reqs', m)
  <2>1. PICK q \in resps : /\ m.cur = q.cur /\ Len(m.cookies) = Len(q.cookies)
                           /\ \A k \in 1..Len(q.cookies) : m.cookies[k].id = q.cookies[k].id
    BY <1>8, Zenon
  <2>2. Offer(nts, reqs, q)
    BY <1>10, <2>1, OfferMeans, Zenon
  <2>3. \A k \in 1..Len(m.cookies) : ~ Holds(nts', m.cookies[k].id)
    BY <1>6, <2>1, <2>2, Zenon DEF Offer
  <2>4. ASSUME NEW k \in 1..Len(m.cookies), NEW r \in reqs' PROVE r.cookie.id # m.cookies[k].id
    <3>1. PICK q0 \in reqs : r.cookie.id = q0.cookie.id
      BY <1>7, Zenon
    <3>2. q0.cookie.id # q.cookies[k].id
      BY <2>1, <2>2, Zenon DEF Offer
    <3> QED BY <2>1, <3>1, <3>2, Zenon
  <2>5. \A j, k \in 1..Len(m.cookies) : m.cookies[j].id = m.cookies[k].id => j = k
    BY <2>1, <2>2, Zenon DEF Offer
  <2> QED BY <2>3, <2>4, <2>5, Zenon DEF Offer
<1>11. reqs' \subseteq NtsRequests /\ resps' \subseteq NtsResponses
  BY <1>7, <1>8, Zenon
<1> QED BY <1>2, <1>5, <1>6, <1>7, <1>9, <1>10, <1>11, NetworkKeeps, Zenon

\* The server answers: its cookies are new to everyone.
LEMMA ServeKeeps ==
  ASSUME NtsInv, NEW r \in reqs, NEW extra \in 0..1, Serve(r, extra)
  PROVE  NtsInv' /\ NakKept /\ Patient
<1> DEFINE n == r.n + extra
           s == IF r.cookie.ok THEN NewCookies(n) ELSE <<>>
           a == NtsAnswer(r, s)
<1>1. /\ nts \in Clients /\ PoolOf(nts) /\ reqs \subseteq NtsRequests /\ resps \subseteq NtsResponses
      /\ nts.has_nke => (\A q \in reqs : ~q.cur) /\ \A q \in resps : ~q.cur
  BY Zenon DEF NtsInv
<1>2. /\ NamesLeft(n) /\ reqs' = reqs \ {r} /\ resps' = Into(resps, a)
      /\ nts' = nts /\ nke' = nke /\ waited' = waited
  BY Zenon DEF Serve
<1>3. n \in Nat /\ r.cur \in BOOLEAN
  BY <1>1 DEF NtsRequests
<1> HIDE DEF n
<1>4. /\ NewCookies(n) \in Seq(Cookies) /\ Len(NewCookies(n)) = n
      /\ \A j, k \in 1..n : NewCookies(n)[j].id = NewCookies(n)[k].id => j = k
      /\ \A k \in 1..n : NewCookies(n)[k].id \in FreeIds
  BY <1>2, <1>3, NewCookiesFresh, Zenon
<1>5. /\ s \in Seq(Cookies)
      /\ \A j, k \in 1..Len(s) : s[j].id = s[k].id => j = k
      /\ \A k \in 1..Len(s) : s[k].id \in FreeIds
  <2>1. CASE r.cookie.ok
    BY <1>4, <2>1, Zenon
  <2>2. CASE ~ r.cookie.ok
    BY <2>2
  <2> QED BY <2>1, <2>2
<1>6. a.cur = r.cur /\ a.cookies = s
  BY Zenon DEF NtsAnswer
<1>7. a \in NtsResponses
  <2>1. (s = <<>>) \in BOOLEAN
    OBVIOUS
  <2> HIDE DEF s
  <2> QED BY <1>3, <1>5, <2>1, Zenon DEF NtsAnswer, NtsResponses
<1> HIDE DEF s, a
<1>8. \A m \in resps' : m = a \/ m \in resps
  BY <1>2, Zenon DEF Into
<1>9. ASSUME ~nts.ok, NEW m \in resps', m.cur PROVE Offer(nts', reqs', m)
  <2>1. CASE m = a
    <3>1. \A k \in 1..Len(s) : ~ Holds(nts, s[k].id) /\ \A q \in reqs' : q.cookie.id # s[k].id
      BY <1>2, <1>5, FreeAre, Zenon
    <3> QED BY <1>2, <1>5, <1>6, <2>1, <3>1, Zenon DEF Offer
  <2>2. CASE m \in resps
    BY <1>2, <1>9, <2>2, OfferMeans, Zenon DEF Offer
  <2> QED BY <1>8, <2>1, <2>2, Zenon
<1>10. nts.has_nke => \A m \in resps' : ~m.cur
  BY <1>1, <1>6, <1>8, Zenon
<1>11. reqs' \subseteq NtsRequests /\ resps' \subseteq NtsResponses
  BY <1>1, <1>2, <1>7, <1>8, Zenon
<1>12. \A m \in reqs' : \E q \in reqs : m.cur = q.cur /\ m.cookie.id = q.cookie.id
  BY <1>2, Zenon
<1> QED BY <1>1, <1>2, <1>9, <1>10, <1>11, <1>12, NetworkKeeps, Zenon

\* check_response_auth: the first valid response to the latest request fills the pool.
LEMMA RespondKeeps ==
  ASSUME NtsInv, NEW r \in resps, NEW copy \in BOOLEAN, Respond(r, copy)
  PROVE  NtsInv' /\ NakKept /\ Patient
<1>1. /\ nts \in Clients /\ PoolOf(nts) /\ reqs \subseteq NtsRequests /\ resps \subseteq NtsResponses
      /\ nke \in {"idle", "active", "ok", "fail"} /\ (nts.has_nke <=> nke # "idle")
      /\ waited \in 0..2^MaxRetry2
      /\ nts.wait <= 2^MaxRetry2 \/ nts.wait <= RetryStart
      /\ nts.attempts > 0 => waited + nts.wait >= RetryStart
      /\ nts.has_nke => (\A q \in reqs : ~q.cur) /\ \A q \in resps : ~q.cur
      /\ \A q \in reqs : ~ Holds(nts, q.cookie.id)
  BY Zenon DEF NtsInv
<1>2. /\ nts' = Checked(nts, r) /\ resps' \subseteq resps
      /\ nke' = nke /\ reqs' = reqs /\ waited' = waited
  BY Zenon DEF Respond
<1>3. \A m \in reqs' : \E q \in reqs : m.cur = q.cur /\ m.cookie.id = q.cookie.id
  BY <1>2, Zenon
<1>4. reqs' \subseteq NtsRequests /\ resps' \subseteq NtsResponses
  BY <1>1, <1>2, Zenon
<1>5. ASSUME ~nts.ok, nts' \in Clients, \A id : Holds(nts', id) <=> Holds(nts, id), NEW m \in resps', m.cur
      PROVE  Offer(nts', reqs', m)
  BY <1>2, <1>5, OfferMeans, Zenon DEF Offer
<1>6. CASE nts.ok \/ ~r.cur
  <2>1. nts' = nts
    BY <1>2, <1>6, Zenon DEF Checked
  <2>2. ~nts.ok => \A m \in resps' : m.cur => Offer(nts', reqs', m)
    BY <1>1, <1>5, <2>1, Zenon
  <2>3. nts.has_nke => \A m \in resps' : ~m.cur
    BY <1>1, <1>2, Zenon
  <2> QED BY <1>1, <1>2, <1>3, <1>4, <2>1, <2>2, <2>3, NetworkKeeps, Zenon
<1>7. CASE ~nts.ok /\ r.cur /\ r.nak
  <2>1. nts' = [nts EXCEPT !.nak = TRUE]
    BY <1>2, <1>7, Zenon DEF Checked
  <2>2. /\ nts' \in Clients /\ nts'.num = nts.num /\ nts'.index = nts.index /\ nts'.ring = nts.ring /\ nts'.ok = nts.ok
        /\ nts'.attempts = nts.attempts /\ nts'.has_nke = nts.has_nke /\ nts'.wait = nts.wait
    BY <1>1, <2>1, Zenon DEF Clients
  <2>3. PoolOf(nts') /\ \A id : Holds(nts', id) <=> Holds(nts, id)
    BY <1>1, <2>2, Zenon DEF PoolOf, Holds
  <2>4. ~nts.ok => \A m \in resps' : m.cur => Offer(nts', reqs', m)
    BY <1>5, <2>2, <2>3, Zenon
  <2>5. nts.has_nke => \A m \in resps' : ~m.cur
    BY <1>1, <1>2, Zenon
  <2> QED BY <1>1, <1>2, <1>3, <1>4, <2>2, <2>3, <2>4, <2>5, NetworkKeeps, Zenon
<1>8. CASE ~nts.ok /\ r.cur /\ ~r.nak
  <2> DEFINE s == r.cookies
             y == [Extract(nts, s) EXCEPT !.ok = TRUE, !.attempts = 0, !.wait = 0]
  <2>1. nts' = y
    BY <1>2, <1>8, Zenon DEF Checked
  <2>2. Offer(nts, reqs, r)
    BY <1>8, OfferMeans, Zenon
  <2>3. s \in Seq(Cookies)
    BY <1>1 DEF NtsResponses
  <2>4. /\ \A k \in 1..Len(s) : ~ Holds(nts, s[k].id) /\ \A q \in reqs : q.cookie.id # s[k].id
        /\ \A j, k \in 1..Len(s) : s[j].id = s[k].id => j = k
    <3>1. \A k \in 1..Len(s) : ~ Holds(nts, s[k].id) /\ \A q \in reqs : q.cookie.id # s[k].id
      BY <2>2, Zenon DEF Offer
    <3>2. \A j, k \in 1..Len(s) : s[j].id = s[k].id => j = k
      BY <2>2, Zenon DEF Offer
    <3> QED BY <3>1, <3>2, Zenon
  <2>5. /\ y \in Clients /\ PoolOf(y)
        /\ y.has_nke = nts.has_nke /\ y.ok = TRUE /\ y.attempts = 0 /\ y.wait = 0
        /\ \A id : Holds(y, id) => Holds(nts, id) \/ \E k \in 1..Len(s) : id = s[k].id
    BY <1>1, <2>3, <2>4, ExtractedPool, Zenon
  <2> HIDE DEF y
  <2>6. ~ nts.has_nke
    BY <1>1, <1>8, Zenon
  <2>7. ASSUME NEW q \in reqs' PROVE ~ Holds(nts', q.cookie.id)
    <3>1. q \in reqs /\ ~ Holds(nts, q.cookie.id)
      BY <1>1, <1>2, Zenon
    <3>2. \A k \in 1..Len(s) : q.cookie.id # s[k].id
      BY <2>4, <3>1, Zenon
    <3>3. ~ Holds(y, q.cookie.id)
      BY <2>5, <3>1, <3>2, Zenon
    <3> QED BY <2>1, <3>3, Zenon
  <2>8. nts'.wait <= RetryStart /\ ~ (nts'.attempts > 0)
    BY <2>1, <2>5, NtsAssumption
  <2>9. NtsInv'
    BY <1>1, <1>2, <1>4, <2>1, <2>5, <2>6, <2>7, <2>8, Zenon DEF NtsInv
  <2>10. Patient
    BY <1>1, <1>2 DEF Patient
  <2> QED BY <1>3, <2>9, <2>10, Zenon DEF NakKept
<1> QED BY <1>6, <1>7, <1>8

\* The invariant holds of a new client.
LEMMA NtsStart == NtsInit => NtsInv
<1> SUFFICES ASSUME NtsInit PROVE NtsInv
  OBVIOUS
<1>1. nts = NtsReset /\ nke = "idle" /\ reqs = {} /\ resps = {} /\ waited = 0
  BY Zenon DEF NtsInit
<1>2. waited \in 0..2^MaxRetry2 /\ nts.wait <= RetryStart /\ ~ (nts.attempts > 0)
  BY <1>1, ResetFacts, NtsAssumption
<1> QED BY <1>1, <1>2, ResetFacts, Zenon DEF NtsInv

\* Every step keeps the invariant.
LEMMA NtsStepKeeps ==
  ASSUME NtsInv, NtsNext
  PROVE  NtsInv' /\ NakKept /\ Patient
<1> USE Zenon
<1>1. NtsStep
  BY DEF NtsNext
<1>2. CASE PollCookies BY <1>2, PollCookiesKeeps
<1>3. CASE PollWaits BY <1>3, PollWaitsKeeps
<1>4. CASE PollChecks BY <1>4, PollChecksKeeps
<1>5. CASE \E o \in {"ok", "active", "nostart"} : PollStarts(o) BY <1>5, PollStartsKeeps
<1>6. CASE (\E r \in {"ok", "fail"} : KeEnds(r)) \/ NtsLose BY <1>6, QuietKeeps
<1>7. CASE \E r \in reqs, extra \in 0..1 : Serve(r, extra) BY <1>7, ServeKeeps
<1>8. CASE \E r \in resps, copy \in BOOLEAN : Respond(r, copy) BY <1>8, RespondKeeps
<1>9. CASE Second BY <1>9, SecondKeeps
<1>10. CASE Expire BY <1>10, ExpireKeeps
<1>11. CASE ChangeAddress BY <1>11, ChangeAddressKeeps
<1>12. CASE \E old \in BOOLEAN : DumpAndLoad(old) BY <1>12, DumpAndLoadKeeps
<1>13. CASE ServerRestart BY <1>13, ServerRestartKeeps
<1> QED BY <1>1, <1>2, <1>3, <1>4, <1>5, <1>6, <1>7, <1>8, <1>9, <1>10, <1>11, <1>12, <1>13 DEF NtsStep, Poll

\* What the invariant says, in the words of the properties.
LEMMA NtsInvImplies ==
  ASSUME NtsInv
  PROVE  NtsTypeOK /\ NtsCookieOnce
<1>1. /\ nts \in Clients /\ PoolOf(nts) /\ reqs \subseteq NtsRequests /\ resps \subseteq NtsResponses
      /\ nts.wait <= 2^MaxRetry2 \/ nts.wait <= RetryStart
      /\ nts.has_nke <=> nke # "idle"
      /\ \A r \in reqs : ~ Holds(nts, r.cookie.id)
  BY Zenon DEF NtsInv
<1>2. nts.num \in 0..NtsMaxCookies /\ nts.index \in RingSlots /\ nts.wait \in Nat
  BY <1>1 DEF Clients
<1>3. \A k \in 1..nts.num : Live(nts)[k] = SlotOf(nts.index, k)
  BY HeldAre, Zenon
<1>4. ASSUME NEW s \in RingSlots
      PROVE  nts.ring[s] \in IF s \in {Live(nts)[k] : k \in 1..nts.num} THEN Cookies ELSE {Blank}
  <2>1. CASE s \in {Live(nts)[k] : k \in 1..nts.num}
    <3>1. PICK k \in 1..nts.num : s = SlotOf(nts.index, k)
      BY <1>3, <2>1, Zenon
    <3>2. nts.ring[s] \in Cookies
      BY <1>1, <3>1, Zenon DEF PoolOf, Pool
    <3> QED BY <2>1, <3>2, Zenon
  <2>2. CASE s \notin {Live(nts)[k] : k \in 1..nts.num}
    <3>1. \A k \in 1..nts.num : s # SlotOf(nts.index, k)
      BY <1>3, <2>2, Zenon
    <3>2. nts.ring[s] = Blank
      BY <1>1, <3>1, Zenon DEF PoolOf, Pool
    <3> QED BY <2>2, <3>2, Zenon
  <2> QED BY <2>1, <2>2, Zenon
<1>5. nts.wait \in 0..2^MaxRetry2 \/ nts.wait <= RetryStart
  BY <1>1, <1>2, NtsAssumption
<1>6. NtsTypeOK
  BY <1>1, <1>2, <1>4, <1>5, Zenon DEF NtsTypeOK
<1>7. \A j, k \in 1..nts.num : nts.ring[Live(nts)[j]].id = nts.ring[Live(nts)[k]].id => j = k
  <2> TAKE j, k \in 1..nts.num
  <2>1. Live(nts)[j] = SlotOf(nts.index, j) /\ Live(nts)[k] = SlotOf(nts.index, k)
    BY <1>3, Zenon
  <2>2. nts.ring[SlotOf(nts.index, j)].id = nts.ring[SlotOf(nts.index, k)].id => j = k
    BY <1>1, Zenon DEF PoolOf, Pool
  <2> QED BY <2>1, <2>2, Zenon
<1>8. HeldIds \cap SentIds = {}
  BY <1>1, HeldAre, Zenon DEF SentIds
<1>9. ASSUME ~nts.ok, NEW r \in resps, r.cur, NEW k \in DOMAIN r.cookies PROVE r.cookies[k].id \notin HeldIds
  <2>1. k \in 1..Len(r.cookies)
    BY <1>1 DEF NtsResponses
  <2> QED BY <1>9, <2>1, OfferMeans, HeldAre, Zenon DEF Offer
<1>10. NtsCookieOnce
  BY <1>7, <1>8, <1>9, Zenon DEF NtsCookieOnce
<1> QED BY <1>6, <1>10

\* Once the server has said NAK, no cookie of the pool goes out.
LEMMA NtsNakStep ==
  ASSUME NtsInv, NakKept
  PROVE  nts.nak /\ ~nts.ok => \A r \in reqs' : r.cookie.id \notin HeldIds
<1> SUFFICES ASSUME nts.nak, ~nts.ok, NEW r \in reqs' PROVE ~ Holds(nts, r.cookie.id)
  BY HeldAre, Zenon
<1>1. \A q \in reqs : ~ Holds(nts, q.cookie.id)
  BY Zenon DEF NtsInv
<1>2. (\E q \in reqs : q.cookie.id = r.cookie.id) \/ r.cookie.id \in FreeIds
  BY Zenon DEF NakKept
<1> QED BY <1>1, <1>2, FreeAre, Zenon

\* An NTS association keeps what NtsSound states, for every size of the ring, every finite set of
\* names, every back-off that starts at RETRY_INTERVAL_KE_START or more, and any loss, copying and
\* reordering of messages.
THEOREM NtsTheorem == NtsSpec => NtsSound
<1> DEFINE NakStep == nts.nak /\ ~nts.ok => \A r \in reqs' : r.cookie.id \notin HeldIds
           Backs == waited' < waited /\ nts.attempts > 0 => waited >= RetryStart
<1>1. NtsInv /\ NtsNext => NtsInv' /\ NakStep /\ Backs
  BY NtsStepKeeps, NtsNakStep, Zenon DEF Patient
<1>2. NtsInv /\ UNCHANGED ntsvars => NtsInv'
  <2> SUFFICES ASSUME NtsInv, UNCHANGED ntsvars PROVE NtsInv'
    OBVIOUS
  <2>1. nts' = nts /\ nke' = nke /\ reqs' = reqs /\ resps' = resps /\ waited' = waited
    BY Zenon DEF ntsvars
  <2>2. /\ nts' \in Clients /\ PoolOf(nts')
        /\ nke' \in {"idle", "active", "ok", "fail"} /\ (nts'.has_nke <=> nke' # "idle")
        /\ reqs' \subseteq NtsRequests /\ resps' \subseteq NtsResponses
    BY <2>1, Zenon DEF NtsInv
  <2>3. /\ waited' \in 0..2^MaxRetry2
        /\ nts'.wait <= 2^MaxRetry2 \/ nts'.wait <= RetryStart
        /\ nts'.attempts > 0 => waited' + nts'.wait >= RetryStart
    BY <2>1, Zenon DEF NtsInv
  <2>4. nts'.has_nke => nts'.num = 0 /\ nts'.attempts > 0 /\ (\A r \in reqs' : ~r.cur) /\ (\A r \in resps' : ~r.cur)
    BY <2>1, Zenon DEF NtsInv
  <2>5. \A r \in reqs' : ~ Holds(nts', r.cookie.id)
    BY <2>1, Zenon DEF NtsInv
  <2>6. ~nts'.ok => \A r \in resps' : r.cur => Offer(nts', reqs', r)
    BY <2>1, OfferMeans, Zenon
  <2> QED BY <2>2, <2>3, <2>4, <2>5, <2>6, Zenon DEF NtsInv, Offer
<1>3. NtsInv => NtsTypeOK /\ NtsCookieOnce
  BY NtsInvImplies
<1> HIDE DEF NakStep, Backs
<1>4. NtsSpec => []NtsInv
  BY <1>1, <1>2, NtsStart, PTL DEF NtsSpec
<1>5. NtsSpec => [](NtsTypeOK /\ NtsCookieOnce)
  BY <1>3, <1>4, PTL
<1>6. NtsSpec => [][NakStep]_ntsvars /\ [][Backs]_ntsvars
  BY <1>1, <1>4, PTL DEF NtsSpec
<1> QED BY <1>5, <1>6, PTL DEF NtsSound, NtsNakDropsPool, NtsBackoff, NakStep, Backs

=============================================================================
