---------------------------- MODULE SocketProofs ----------------------------
(***************************************************************************)
(* Proofs about the sockets, for any number of descriptors, paths, callers *)
(* and inherited sockets: whichever call fails half-way nothing is left    *)
(* open and no node is left behind (io/socket.rs), and an NTP socket is    *)
(* open exactly while somebody uses it (io/ntp_io.rs). A call under way    *)
(* has a list of steps still to do. The invariant of the first part says   *)
(* that the open descriptors are those held, those inherited and those of  *)
(* the call, and that every flag is set or its step is still in the list.  *)
(* The invariant of the second part says which sockets belong to the       *)
(* module and which to a caller: they are apart, and a server socket is no *)
(* client socket unless it is permanent.                                   *)
(***************************************************************************)
EXTENDS Sockets, FiniteSetTheorems, SequenceTheorems, WellFoundedInduction, TLAPS

\* A set of natural numbers that is not empty has a least one.
LEMMA LeastNat ==
  ASSUME NEW S \in SUBSET Nat, S # {}
  PROVE  \E m \in S : \A k \in S : m <= k
<1>1. \E m \in S : \A k \in S : ~ (<<k, m>> \in OpToRel(<, Nat))
  BY NatLessThanWellFounded, WFMin
<1>2. \A k, m \in Nat : k < m => <<k, m>> \in OpToRel(<, Nat)
  BY Zenon DEF OpToRel
<1>3. \A k, m \in Nat : k < m \/ m <= k
  OBVIOUS
<1> QED BY <1>1, <1>2, <1>3, Zenon

-----------------------------------------------------------------------------
(* Descriptors and Unix nodes (io/socket.rs).                              *)

\* Fewer open descriptors than numbers: there is a lowest one that is free.
LEMMA LeastFree ==
  ASSUME NEW D, IsFiniteSet(D), NEW a \in Nat, NEW b \in Nat, Cardinality(D) < b - a + 1
  PROVE  \E m \in (a..b) \ D : \A k \in (a..b) \ D : m <= k
<1>1. Cardinality(D) \in Nat
  BY FS_CardinalityType
<1>2. IsFiniteSet(a..b) /\ Cardinality(a..b) = b - a + 1
  <2>1. a \in Int /\ b \in Int
    OBVIOUS
  <2>2. IsFiniteSet(a..b) /\ Cardinality(a..b) = IF a > b THEN 0 ELSE b - a + 1
    BY <2>1, FS_Interval, Zenon
  <2> QED BY <2>2, <1>1
<1>3. ASSUME (a..b) \ D = {} PROVE FALSE
  <2>1. (a..b) \in SUBSET D
    BY <1>3, Zenon
  <2>2. Cardinality(a..b) <= Cardinality(D)
    BY <2>1, FS_Subset, Zenon
  <2> QED BY <2>2, <1>1, <1>2
<1>4. ((a..b) \ D) \in SUBSET Nat
  OBVIOUS
<1> QED BY <1>3, <1>4, LeastNat, Zenon

\* What Free chooses exists, so the descriptors of a call are new ones.
LEMMA FreeNew ==
  ASSUME IsFiniteSet(DOMAIN fds), NEW k \in {1, 2}, Room(k)
  PROVE  /\ Free(k) \in [1..k -> 3..(SckMaxFd + 2)]
         /\ \A i \in 1..k : Free(k)[i] \notin DOMAIN fds
<1> USE SckAssumption
<1> DEFINE D == DOMAIN fds
           M == SckMaxFd + 2
           Lowest(s) == /\ \A i \in 1..k : s[i] \notin D
                        /\ \A i, j \in 1..k : i < j => s[i] < s[j]
                        /\ \A n \in 3..s[k] : n \in D \/ \E i \in 1..k : s[i] = n
<1>1. Cardinality(D) \in Nat /\ Cardinality(D) + k < SckMaxFd /\ M \in Nat
  BY FS_CardinalityType DEF Room
<1>2. PICK x \in (3..M) \ D : \A n \in (3..M) \ D : x <= n
  <2>1. Cardinality(D) < M - 3 + 1
    BY <1>1
  <2> HIDE DEF M
  <2> QED BY <2>1, <1>1, LeastFree, Zenon
<1>3. CASE k = 1
  <2> DEFINE s == [i \in 1..1 |-> x]
  <2>1. s \in [1..k -> 3..M]
    BY <1>3, <1>2
  <2>2. Lowest(s)
    BY <1>3, <1>2, <1>1
  <2>3. \E t \in [1..k -> 3..M] : Lowest(t)
    BY <2>1, <2>2, Zenon
  <2> QED BY <2>3, Zenon DEF Free
<1>4. CASE k = 2
  <2> DEFINE E == D \cup {x}
  <2>1. IsFiniteSet(E) /\ Cardinality(E) < M - 3 + 1
    <3>1. /\ IsFiniteSet(D \cup {x})
          /\ Cardinality(D \cup {x}) = IF x \in D THEN Cardinality(D) ELSE Cardinality(D) + 1
      BY FS_AddElement, Zenon
    <3> QED BY <3>1, <1>1, <1>4
  <2>2. PICK y \in (3..M) \ E : \A n \in (3..M) \ E : y <= n
    <3>1. 3 \in Nat
      OBVIOUS
    <3> HIDE DEF M, E
    <3> QED BY <2>1, <3>1, <1>1, LeastFree, Zenon
  <2>3. x < y
    BY <1>2, <2>2
  <2> DEFINE s == [i \in 1..2 |-> IF i = 1 THEN x ELSE y]
  <2>4. s \in [1..k -> 3..M]
    BY <1>4, <1>2, <2>2
  <2>5. Lowest(s)
    <3>1. s[1] = x /\ s[2] = y /\ 1..k = {1, 2}
      BY <1>4
    <3>2. \A n \in 3..s[k] : n \in D \/ \E i \in 1..k : s[i] = n
      <4> SUFFICES ASSUME NEW n \in 3..s[k], n \notin D PROVE n = x \/ n = y
        BY <3>1, Zenon
      <4> QED BY <3>1, <1>4, <1>1, <2>2
    <3>3. \A i, j \in 1..k : i < j => s[i] < s[j]
      BY <3>1, <2>3
    <3>4. \A i \in 1..k : s[i] \notin D
      BY <3>1, <1>2, <2>2
    <3> QED BY <3>2, <3>3, <3>4, Zenon
  <2>6. \E t \in [1..k -> 3..M] : Lowest(t)
    BY <2>4, <2>5, Zenon
  <2> QED BY <2>6, Zenon DEF Free
<1> QED BY <1>3, <1>4

\* A step is still to be done.
Asks(s, x) == \E n \in 1..Len(s) : s[n] = x

StepNames == {"cloexec", "nonblock", "v6only", "device", "bind", "connect", "bind_unix", "chmod"}

\* What every step of every call keeps: the open descriptors are the inherited, the
\* held and those of the call in progress, which are apart from the others, and a flag
\* that a descriptor of the call lacks is still among the steps of the call.
SckInv ==
  /\ IsFiniteSet(DOMAIN fds)
  /\ fds \in [DOMAIN fds -> [cloexec : BOOLEAN, nonblock : BOOLEAN, path : Paths \cup {NoPath}]]
  /\ DOMAIN fds = owned \cup Inherited \cup ClosedOnFailure
  /\ ClosedOnFailure \cap (owned \cup Inherited) = {}
  /\ \A fd \in owned : fds[fd].cloexec
  /\ call = [kind |-> call.kind, block |-> call.block, path |-> call.path, got |-> call.got, todo |-> call.todo]
  /\ call.block \in BOOLEAN /\ call.path \in Paths \cup {NoPath}
  /\ call.todo \in Seq(StepNames \X {1, 2})
  /\ call.kind = "idle" => DOMAIN call.got = {} /\ call.todo = <<>>
  /\ call.kind # "idle" => 1 \in DOMAIN call.got
  /\ \A n \in 1..Len(call.todo) : call.todo[n][2] \in DOMAIN call.got
  /\ \A i \in DOMAIN call.got :
       /\ fds[call.got[i]].cloexec \/ Asks(call.todo, <<"cloexec", i>>)
       /\ call.block => ~fds[call.got[i]].nonblock /\ ~Asks(call.todo, <<"nonblock", i>>)
       /\ ~call.block => fds[call.got[i]].nonblock \/ Asks(call.todo, <<"nonblock", i>>)

LEMMA SckInvSound == SckInv => SckNoLeak /\ SckFlagsSet
<1> SUFFICES ASSUME SckInv PROVE SckNoLeak /\ SckFlagsSet
  OBVIOUS
<1>1. SckNoLeak
  <2>1. call.kind = "idle" => ClosedOnFailure = {}
    BY Zenon DEF SckInv, ClosedOnFailure
  <2> QED BY <2>1, Zenon DEF SckInv, SckNoLeak
<1>2. call.todo = <<>> => \A x : ~Asks(call.todo, x)
  BY DEF Asks
<1>3. ASSUME call.todo = <<>>, NEW i \in DOMAIN call.got
      PROVE  fds[call.got[i]].nonblock = ~call.block
  <2>1. call.got[i] \in DOMAIN fds
    BY Zenon DEF SckInv, ClosedOnFailure
  <2>2. fds[call.got[i]].nonblock \in BOOLEAN /\ call.block \in BOOLEAN
    BY <2>1 DEF SckInv
  <2>3. (call.block => ~fds[call.got[i]].nonblock) /\ (~call.block => fds[call.got[i]].nonblock)
    BY <1>3, <1>2, Zenon DEF SckInv
  <2> QED BY <2>2, <2>3, Zenon
<1> QED BY <1>1, <1>3, Zenon DEF SckInv, SckFlagsSet

LEMMA SckStart == SckInit => SckInv
<1> SUFFICES ASSUME SckInit PROVE SckInv
  OBVIOUS
<1> USE SckAssumption
<1>1. DOMAIN fds = Inherited /\ owned = {} /\ call = Idle
  BY DEF SckInit
<1>2. DOMAIN call.got = {} /\ call.todo = <<>> /\ call.kind = "idle" /\ ClosedOnFailure = {}
  BY <1>1 DEF Idle, ClosedOnFailure
<1>3. fds \in [DOMAIN fds -> [cloexec : BOOLEAN, nonblock : BOOLEAN, path : Paths \cup {NoPath}]]
  BY DEF SckInit
<1>4. call.todo \in Seq(StepNames \X {1, 2}) /\ \A n \in 1..Len(call.todo) : FALSE
  BY <1>2
<1>5. call = [kind |-> call.kind, block |-> call.block, path |-> call.path, got |-> call.got, todo |-> call.todo]
      /\ call.block \in BOOLEAN /\ call.path \in Paths \cup {NoPath}
  BY <1>1 DEF Idle
<1>6. /\ IsFiniteSet(DOMAIN fds)
      /\ DOMAIN fds = owned \cup Inherited \cup ClosedOnFailure
      /\ ClosedOnFailure \cap (owned \cup Inherited) = {}
      /\ \A fd \in owned : fds[fd].cloexec
  BY <1>1, <1>2
<1> QED BY <1>2, <1>3, <1>4, <1>5, <1>6, Zenon DEF SckInv

LEMMA OneOrTwo == \A k \in {1, 2} : 1 \in 1..k /\ (1..k = {1} \/ 1..k = {1, 2})
OBVIOUS

\* The descriptors of a call that begins are new, and its steps set the flags that
\* socket(2) did not.
LEMMA BeginKeeps ==
  ASSUME SckInv, NEW kind, kind # "idle", NEW k \in {1, 2}, NEW block \in BOOLEAN,
         NEW path \in Paths \cup {NoPath}, NEW flags, NEW rest \in Seq(StepNames \X {1, 2}),
         flags \in [cloexec : BOOLEAN, nonblock : BOOLEAN, path : Paths \cup {NoPath}],
         \A n \in 1..Len(rest) : rest[n][2] \in 1..k,
         \A i \in 1..k : /\ flags.cloexec \/ Asks(rest, <<"cloexec", i>>)
                         /\ block => ~flags.nonblock /\ ~Asks(rest, <<"nonblock", i>>)
                         /\ ~block => flags.nonblock \/ Asks(rest, <<"nonblock", i>>),
         Begin(kind, k, block, path, flags, rest)
  PROVE  SckInv'
<1> DEFINE new == Free(k)
           New == {new[i] : i \in 1..k}
<1>1. new \in [1..k -> 3..(SckMaxFd + 2)] /\ \A i \in 1..k : new[i] \notin DOMAIN fds
  BY FreeNew, Zenon DEF SckInv, Begin
<1>2. /\ call.kind = "idle" /\ UNCHANGED owned
      /\ fds' = Opened(new, flags)
      /\ call' = [kind |-> kind, block |-> block, path |-> path, got |-> new, todo |-> rest]
  BY Zenon DEF Begin
<1> HIDE DEF new
<1>3. /\ call'.kind = kind /\ call'.block = block /\ call'.path = path /\ call'.got = new
      /\ call'.todo = rest
  BY <1>2, Zenon
<1>4. DOMAIN new = 1..k
  BY <1>1, Zenon
<1>5. DOMAIN fds' = DOMAIN fds \cup New
  BY <1>2, <1>4, Zenon DEF Opened
<1>6. /\ \A fd \in DOMAIN fds : fds'[fd] = fds[fd]
      /\ \A i \in 1..k : fds'[new[i]] = flags
  BY <1>2, <1>1, <1>4 DEF Opened
<1>7. ClosedOnFailure' = New /\ ClosedOnFailure = {}
  <2>1. ClosedOnFailure' = {new[i] : i \in DOMAIN new}
    BY <1>3, Zenon DEF ClosedOnFailure
  <2>2. ClosedOnFailure = {}
    BY <1>2, Zenon DEF SckInv, ClosedOnFailure
  <2> QED BY <2>1, <2>2, <1>4, Zenon
<1>8. New \cap DOMAIN fds = {}
  BY <1>1, Zenon
<1>9. IsFiniteSet(DOMAIN fds')
  <2>1. New = {new[1]} \/ New = {new[1]} \cup {new[2]}
    <3>1. 1..k = {1} \/ 1..k = {1, 2}
      BY OneOrTwo, Zenon
    <3> QED BY <3>1
  <2>2. IsFiniteSet(DOMAIN fds \cup {new[1]})
    BY FS_AddElement, Zenon DEF SckInv
  <2>3. IsFiniteSet((DOMAIN fds \cup {new[1]}) \cup {new[2]})
    BY <2>2, FS_AddElement, Zenon
  <2>4. DOMAIN fds' = DOMAIN fds \cup {new[1]} \/ DOMAIN fds' = (DOMAIN fds \cup {new[1]}) \cup {new[2]}
    BY <2>1, <1>5, Zenon
  <2> QED BY <2>2, <2>3, <2>4, Zenon
<1>10. fds' \in [DOMAIN fds' -> [cloexec : BOOLEAN, nonblock : BOOLEAN, path : Paths \cup {NoPath}]]
  <2>1. fds' = [fd \in DOMAIN fds \cup New |-> IF fd \in DOMAIN fds THEN fds[fd] ELSE flags]
    BY <1>2, <1>4, Zenon DEF Opened
  <2>2. \A fd \in DOMAIN fds : fds[fd] \in [cloexec : BOOLEAN, nonblock : BOOLEAN, path : Paths \cup {NoPath}]
    BY DEF SckInv
  <2> HIDE DEF New
  <2> QED BY <2>1, <2>2, <1>5
<1>11. /\ DOMAIN fds' = owned' \cup Inherited \cup ClosedOnFailure'
       /\ ClosedOnFailure' \cap (owned' \cup Inherited) = {}
  BY <1>2, <1>5, <1>7, <1>8, Zenon DEF SckInv
<1>12. \A fd \in owned' : fds'[fd].cloexec
  BY <1>2, <1>6, Zenon DEF SckInv
<1>13. call' = [kind |-> call'.kind, block |-> call'.block, path |-> call'.path, got |-> call'.got, todo |-> call'.todo]
  BY <1>2, <1>3, Zenon
<1>14. 1 \in 1..k
  BY OneOrTwo, Zenon
<1>15. \A i \in DOMAIN call'.got :
         /\ fds'[call'.got[i]].cloexec \/ Asks(call'.todo, <<"cloexec", i>>)
         /\ call'.block => ~fds'[call'.got[i]].nonblock /\ ~Asks(call'.todo, <<"nonblock", i>>)
         /\ ~call'.block => fds'[call'.got[i]].nonblock \/ Asks(call'.todo, <<"nonblock", i>>)
  BY <1>3, <1>4, <1>6, Zenon
<1>16. /\ call'.kind # "idle" /\ 1 \in DOMAIN call'.got
       /\ \A n \in 1..Len(call'.todo) : call'.todo[n][2] \in DOMAIN call'.got
       /\ call'.todo \in Seq(StepNames \X {1, 2})
       /\ call'.block \in BOOLEAN /\ call'.path \in Paths \cup {NoPath}
  BY <1>3, <1>4, <1>14, Zenon
<1> QED BY <1>9, <1>10, <1>11, <1>12, <1>13, <1>15, <1>16, Zenon DEF SckInv, Asks

LEMMA AsksConcat ==
  ASSUME NEW S, NEW s \in Seq(S), NEW t \in Seq(S)
  PROVE  /\ s \o t \in Seq(S)
         /\ \A x : Asks(s \o t, x) <=> Asks(s, x) \/ Asks(t, x)
<1>1. s \o t \in Seq(S) /\ Len(s \o t) = Len(s) + Len(t)
  OBVIOUS
<1>2. \A n \in 1..Len(s) : (s \o t)[n] = s[n]
  OBVIOUS
<1>3. \A n \in 1..Len(t) : (s \o t)[Len(s) + n] = t[n] /\ Len(s) + n \in 1..Len(s \o t)
  OBVIOUS
<1>4. \A n \in 1..Len(s \o t) : n \in 1..Len(s) \/ (n - Len(s) \in 1..Len(t) /\ (s \o t)[n] = t[n - Len(s)])
  OBVIOUS
<1>5. \A n \in 1..Len(s) : n \in 1..Len(s \o t)
  BY <1>1
<1> QED BY <1>1, <1>2, <1>3, <1>4, <1>5, Zenon DEF Asks

\* The steps of a sequence are those it asks for.
LEMMA AsksAll ==
  ASSUME NEW s, NEW D, \A x : Asks(s, x) => x[2] \in D
  PROVE  \A n \in 1..Len(s) : s[n][2] \in D
BY Zenon DEF Asks

\* What set_socket_flags asks for.
LEMMA FlagStepsAsk ==
  ASSUME NEW k \in {1, 2}, NEW block \in BOOLEAN
  PROVE  /\ FlagSteps(k, block) \in Seq(StepNames \X {1, 2})
         /\ \A x : Asks(FlagSteps(k, block), x) <=>
              \/ x = <<"cloexec", k>> /\ "cloexec" \notin supported
              \/ x = <<"nonblock", k>> /\ ~block /\ "nonblock" \notin supported
<1> DEFINE S == StepNames \X {1, 2}
           a == IF "cloexec" \notin supported THEN <<<<"cloexec", k>>>> ELSE <<>>
           b == IF ~block /\ "nonblock" \notin supported THEN <<<<"nonblock", k>>>> ELSE <<>>
<1>1. \A x \in S : <<x>> \in Seq(S) /\ \A y : Asks(<<x>>, y) <=> y = x
  BY DEF Asks
<1>2. <<>> \in Seq(S) /\ \A y : ~Asks(<<>>, y)
  BY DEF Asks
<1>3. <<"cloexec", k>> \in S /\ <<"nonblock", k>> \in S
  BY DEF StepNames
<1> HIDE DEF S
<1>4. a \in Seq(S) /\ \A x : Asks(a, x) <=> x = <<"cloexec", k>> /\ "cloexec" \notin supported
  BY <1>1, <1>2, <1>3, Zenon
<1>5. b \in Seq(S) /\ \A x : Asks(b, x) <=> x = <<"nonblock", k>> /\ ~block /\ "nonblock" \notin supported
  BY <1>1, <1>2, <1>3, Zenon
<1>6. FlagSteps(k, block) = a \o b
  BY Zenon DEF FlagSteps
<1> HIDE DEF a, b
<1>7. a \o b \in Seq(S) /\ \A x : Asks(a \o b, x) <=> Asks(a, x) \/ Asks(b, x)
  BY <1>4, <1>5, AsksConcat, Zenon
<1> QED BY <1>4, <1>5, <1>6, <1>7, Zenon DEF S

\* The other steps of a call set no flags.
Others == (StepNames \ {"cloexec", "nonblock"}) \X {1}

LEMMA OthersAsk ==
  ASSUME NEW a \in BOOLEAN, NEW b \in BOOLEAN, NEW c \in BOOLEAN, NEW d \in BOOLEAN
  PROVE  IpSteps(a, b, c, d) \in Seq(Others) /\ UnixSteps(a, b, c) \in Seq(Others)
<1>1. /\ <<>> \in Seq(Others) /\ <<<<"v6only", 1>>>> \in Seq(Others) /\ <<<<"device", 1>>>> \in Seq(Others)
      /\ <<<<"bind", 1>>>> \in Seq(Others) /\ <<<<"connect", 1>>>> \in Seq(Others)
      /\ <<<<"bind_unix", 1>>>> \in Seq(Others) /\ <<<<"chmod", 1>>>> \in Seq(Others)
  BY DEF Others, StepNames
<1>2. \A s, t \in Seq(Others) : s \o t \in Seq(Others)
  OBVIOUS
<1> QED BY <1>1, <1>2, Zenon DEF IpSteps, UnixSteps

LEMMA OthersSteps ==
  ASSUME NEW s \in Seq(Others)
  PROVE  /\ s \in Seq(StepNames \X {1, 2})
         /\ \A x : Asks(s, x) => x[2] = 1 /\ x[1] # "cloexec" /\ x[1] # "nonblock"
<1>1. \A x \in Others : /\ x \in StepNames \X {1, 2}
                        /\ x[2] = 1 /\ x[1] # "cloexec" /\ x[1] # "nonblock"
  BY DEF Others
<1>2. \A n \in 1..Len(s) : s[n] \in Others
  BY Zenon, ElementOfSeq
<1>3. s \in Seq(StepNames \X {1, 2})
  BY <1>1
<1> QED BY <1>1, <1>2, <1>3, Zenon DEF Asks

\* AsksConcat for the steps of a call, and what get_open_flags returns.
LEMMA StepsConcat ==
  ASSUME NEW s \in Seq(StepNames \X {1, 2}), NEW t \in Seq(StepNames \X {1, 2})
  PROVE  /\ s \o t \in Seq(StepNames \X {1, 2})
         /\ \A x : Asks(s \o t, x) <=> Asks(s, x) \/ Asks(t, x)
<1> DEFINE S == StepNames \X {1, 2}
<1> HIDE DEF S
<1>1. ASSUME s \in Seq(S), t \in Seq(S)
      PROVE  s \o t \in Seq(S) /\ \A x : Asks(s \o t, x) <=> Asks(s, x) \/ Asks(t, x)
  BY <1>1, AsksConcat, Zenon
<1> QED BY <1>1, Zenon DEF S

LEMMA OpenFlagsSet ==
  ASSUME NEW block \in BOOLEAN
  PROVE  /\ OpenFlags(block).cloexec <=> "cloexec" \in supported
         /\ OpenFlags(block).nonblock <=> "nonblock" \in supported /\ ~block
         /\ OpenFlags(block) \in [cloexec : BOOLEAN, nonblock : BOOLEAN, path : Paths \cup {NoPath}]
<1> DEFINE p == "cloexec" \in supported
           q == "nonblock" \in supported /\ ~block
<1>1. p \in BOOLEAN /\ q \in BOOLEAN
  BY SMT
<1>2. OpenFlags(block) = [cloexec |-> p, nonblock |-> q, path |-> NoPath]
  BY Zenon DEF OpenFlags
<1> HIDE DEF p, q
<1>3. /\ OpenFlags(block).cloexec = p /\ OpenFlags(block).nonblock = q
      /\ OpenFlags(block) \in [cloexec : BOOLEAN, nonblock : BOOLEAN, path : Paths \cup {NoPath}]
  BY <1>1, <1>2
<1> QED BY <1>3, Zenon DEF p, q

\* The steps of a call with one descriptor: the flags, then what the family asks for.
LEMMA OneSteps ==
  ASSUME NEW block \in BOOLEAN, NEW s \in Seq(Others)
  PROVE  LET t == FlagSteps(1, block) \o s
             f == OpenFlags(block)
         IN /\ t \in Seq(StepNames \X {1, 2})
            /\ f \in [cloexec : BOOLEAN, nonblock : BOOLEAN, path : Paths \cup {NoPath}]
            /\ \A n \in 1..Len(t) : t[n][2] \in 1..1
            /\ \A i \in 1..1 : /\ f.cloexec \/ Asks(t, <<"cloexec", i>>)
                               /\ block => ~f.nonblock /\ ~Asks(t, <<"nonblock", i>>)
                               /\ ~block => f.nonblock \/ Asks(t, <<"nonblock", i>>)
<1> DEFINE a == FlagSteps(1, block)
           t == a \o s
           f == OpenFlags(block)
<1>1. a \in Seq(StepNames \X {1, 2}) /\ \A x : Asks(a, x) <=>
              \/ x = <<"cloexec", 1>> /\ "cloexec" \notin supported
              \/ x = <<"nonblock", 1>> /\ ~block /\ "nonblock" \notin supported
  BY FlagStepsAsk, Zenon
<1>2. /\ s \in Seq(StepNames \X {1, 2})
      /\ \A x : Asks(s, x) => x[2] = 1 /\ x[1] # "cloexec" /\ x[1] # "nonblock"
  BY OthersSteps, Zenon
<1> HIDE DEF a
<1>3. t \in Seq(StepNames \X {1, 2}) /\ \A x : Asks(t, x) <=> Asks(a, x) \/ Asks(s, x)
  BY <1>1, <1>2, StepsConcat, Zenon
<1> HIDE DEF t
<1>4. /\ f.cloexec <=> "cloexec" \in supported
      /\ f.nonblock <=> "nonblock" \in supported /\ ~block
      /\ f \in [cloexec : BOOLEAN, nonblock : BOOLEAN, path : Paths \cup {NoPath}]
  BY OpenFlagsSet, Zenon
<1>5. <<"cloexec", 1>>[2] = 1 /\ <<"nonblock", 1>>[2] = 1 /\ <<"nonblock", 1>>[1] = "nonblock" /\ 1..1 = {1}
  OBVIOUS
<1>6. \A x : Asks(t, x) => x[2] \in 1..1
  BY <1>1, <1>2, <1>3, <1>5, Zenon
<1>7. \A n \in 1..Len(t) : t[n][2] \in 1..1
  BY <1>6, AsksAll, Zenon
<1>8. ~Asks(s, <<"nonblock", 1>>) /\ <<"nonblock", 1>> # <<"cloexec", 1>>
  BY <1>2, <1>5
<1> HIDE DEF f
<1>9. /\ f.cloexec \/ Asks(t, <<"cloexec", 1>>)
      /\ block => ~f.nonblock /\ ~Asks(t, <<"nonblock", 1>>)
      /\ ~block => f.nonblock \/ Asks(t, <<"nonblock", 1>>)
  BY <1>1, <1>3, <1>4, <1>8, Zenon
<1>10. \A i \in 1..1 : /\ f.cloexec \/ Asks(t, <<"cloexec", i>>)
                       /\ block => ~f.nonblock /\ ~Asks(t, <<"nonblock", i>>)
                       /\ ~block => f.nonblock \/ Asks(t, <<"nonblock", i>>)
  BY <1>9, <1>5, Zenon
<1> QED BY <1>3, <1>4, <1>7, <1>10, Zenon DEF t, f, a

LEMMA OpenIpKeeps ==
  ASSUME SckInv, OpenIpSocket
  PROVE  SckInv'
<1>1. PICK block, v6, device, local, remote \in BOOLEAN :
        Begin("ip", 1, block, NoPath, OpenFlags(block), FlagSteps(1, block) \o IpSteps(v6, device, local, remote))
  BY Zenon DEF OpenIpSocket
<1> DEFINE s == IpSteps(v6, device, local, remote)
<1>2. s \in Seq(Others)
  BY OthersAsk, Zenon
<1> HIDE DEF s
<1> DEFINE t == FlagSteps(1, block) \o s
           f == OpenFlags(block)
<1>3. /\ t \in Seq(StepNames \X {1, 2})
      /\ f \in [cloexec : BOOLEAN, nonblock : BOOLEAN, path : Paths \cup {NoPath}]
      /\ \A n \in 1..Len(t) : t[n][2] \in 1..1
      /\ \A i \in 1..1 : /\ f.cloexec \/ Asks(t, <<"cloexec", i>>)
                         /\ block => ~f.nonblock /\ ~Asks(t, <<"nonblock", i>>)
                         /\ ~block => f.nonblock \/ Asks(t, <<"nonblock", i>>)
  BY <1>2, OneSteps, Zenon
<1>4. Begin("ip", 1, block, NoPath, f, t)
  BY <1>1, Zenon DEF s
<1>5. "ip" # "idle" /\ 1 \in {1, 2} /\ NoPath \in Paths \cup {NoPath}
  OBVIOUS
<1> HIDE DEF t, f
<1> QED BY <1>3, <1>4, <1>5, BeginKeeps, Zenon

LEMMA OpenUnixKeeps ==
  ASSUME SckInv, OpenUnixSocket
  PROVE  SckInv'
<1>1. PICK block, local, permissions, remote \in BOOLEAN, path \in Paths :
        Begin("unix", 1, block, path, OpenFlags(block), FlagSteps(1, block) \o UnixSteps(local, permissions, remote))
  BY Zenon DEF OpenUnixSocket
<1> DEFINE s == UnixSteps(local, permissions, remote)
<1>2. s \in Seq(Others)
  BY OthersAsk, Zenon
<1> HIDE DEF s
<1> DEFINE t == FlagSteps(1, block) \o s
           f == OpenFlags(block)
<1>3. /\ t \in Seq(StepNames \X {1, 2})
      /\ f \in [cloexec : BOOLEAN, nonblock : BOOLEAN, path : Paths \cup {NoPath}]
      /\ \A n \in 1..Len(t) : t[n][2] \in 1..1
      /\ \A i \in 1..1 : /\ f.cloexec \/ Asks(t, <<"cloexec", i>>)
                         /\ block => ~f.nonblock /\ ~Asks(t, <<"nonblock", i>>)
                         /\ ~block => f.nonblock \/ Asks(t, <<"nonblock", i>>)
  BY <1>2, OneSteps, Zenon
<1>4. Begin("unix", 1, block, path, f, t)
  BY <1>1, Zenon DEF s
<1>5. "unix" # "idle" /\ 1 \in {1, 2} /\ path \in Paths \cup {NoPath}
  OBVIOUS
<1> HIDE DEF t, f
<1> QED BY <1>3, <1>4, <1>5, BeginKeeps, Zenon

LEMMA OpenPairKeeps ==
  ASSUME SckInv, OpenUnixSocketPair
  PROVE  SckInv'
<1>1. PICK block \in BOOLEAN :
        Begin("pair", 2, block, NoPath, OpenFlags(block), FlagSteps(1, block) \o FlagSteps(2, block))
  BY Zenon DEF OpenUnixSocketPair
<1> DEFINE a == FlagSteps(1, block)
           b == FlagSteps(2, block)
           t == a \o b
           f == OpenFlags(block)
<1>2. a \in Seq(StepNames \X {1, 2}) /\ \A x : Asks(a, x) <=>
              \/ x = <<"cloexec", 1>> /\ "cloexec" \notin supported
              \/ x = <<"nonblock", 1>> /\ ~block /\ "nonblock" \notin supported
  BY FlagStepsAsk, Zenon
<1>3. b \in Seq(StepNames \X {1, 2}) /\ \A x : Asks(b, x) <=>
              \/ x = <<"cloexec", 2>> /\ "cloexec" \notin supported
              \/ x = <<"nonblock", 2>> /\ ~block /\ "nonblock" \notin supported
  BY FlagStepsAsk, Zenon
<1>4. Begin("pair", 2, block, NoPath, f, t)
  BY <1>1, Zenon
<1> HIDE DEF a, b
<1>5. t \in Seq(StepNames \X {1, 2}) /\ \A x : Asks(t, x) <=> Asks(a, x) \/ Asks(b, x)
  BY <1>2, <1>3, StepsConcat, Zenon
<1> HIDE DEF t
<1>6. /\ f.cloexec <=> "cloexec" \in supported
      /\ f.nonblock <=> "nonblock" \in supported /\ ~block
      /\ f \in [cloexec : BOOLEAN, nonblock : BOOLEAN, path : Paths \cup {NoPath}]
  BY OpenFlagsSet, Zenon
<1>7. /\ <<"cloexec", 1>>[2] = 1 /\ <<"nonblock", 1>>[2] = 1 /\ <<"cloexec", 2>>[2] = 2 /\ <<"nonblock", 2>>[2] = 2
      /\ 1..2 = {1, 2} /\ \A i, j : <<"nonblock", i>> # <<"cloexec", j>>
  OBVIOUS
<1>8. \A x : Asks(t, x) => x[2] \in 1..2
  BY <1>2, <1>3, <1>5, <1>7, Zenon
<1>9. \A n \in 1..Len(t) : t[n][2] \in 1..2
  BY <1>8, AsksAll, Zenon
<1> HIDE DEF f
<1>10. \A i \in 1..2 : /\ f.cloexec \/ Asks(t, <<"cloexec", i>>)
                       /\ block => ~f.nonblock /\ ~Asks(t, <<"nonblock", i>>)
                       /\ ~block => f.nonblock \/ Asks(t, <<"nonblock", i>>)
  <2>1. \A i \in {1, 2} : f.cloexec \/ Asks(t, <<"cloexec", i>>)
    BY <1>2, <1>3, <1>5, <1>6, Zenon
  <2>2. \A i \in {1, 2} : block => ~f.nonblock /\ ~Asks(t, <<"nonblock", i>>)
    BY <1>2, <1>3, <1>5, <1>6, <1>7, Zenon
  <2>3. \A i \in {1, 2} : ~block => f.nonblock \/ Asks(t, <<"nonblock", i>>)
    BY <1>2, <1>3, <1>5, <1>6, Zenon
  <2> QED BY <2>1, <2>2, <2>3, <1>7, Zenon
<1>11. "pair" # "idle" /\ 2 \in {1, 2} /\ NoPath \in Paths \cup {NoPath}
  OBVIOUS
<1> QED BY <1>4, <1>5, <1>6, <1>9, <1>10, <1>11, BeginKeeps, Zenon

LEMMA AcceptKeeps ==
  ASSUME SckInv, AcceptConnection
  PROVE  SckInv'
<1> DEFINE f == [cloexec |-> FALSE, nonblock |-> FALSE, path |-> NoPath]
           t == <<<<"cloexec", 1>>, <<"nonblock", 1>>>>
<1>1. Begin("accept", 1, FALSE, NoPath, f, t)
  BY Zenon DEF AcceptConnection
<1>2. /\ t \in Seq(StepNames \X {1, 2})
      /\ f \in [cloexec : BOOLEAN, nonblock : BOOLEAN, path : Paths \cup {NoPath}]
  BY DEF StepNames
<1>3. /\ Len(t) = 2 /\ t[1] = <<"cloexec", 1>> /\ t[2] = <<"nonblock", 1>> /\ 1..1 = {1} /\ 1..2 = {1, 2}
      /\ <<"cloexec", 1>>[2] = 1 /\ <<"nonblock", 1>>[2] = 1
  OBVIOUS
<1> HIDE DEF t
<1>4. /\ \A n \in 1..Len(t) : t[n][2] \in 1..1
      /\ \A i \in 1..1 : Asks(t, <<"cloexec", i>>) /\ Asks(t, <<"nonblock", i>>)
  BY <1>3 DEF Asks
<1>5. "accept" # "idle" /\ 1 \in {1, 2} /\ NoPath \in Paths \cup {NoPath} /\ FALSE \in BOOLEAN
  OBVIOUS
<1> HIDE DEF f
<1> QED BY <1>1, <1>2, <1>4, <1>5, BeginKeeps, Zenon

LEMMA AsksTail ==
  ASSUME NEW S, NEW s \in Seq(S), s # <<>>
  PROVE  /\ Tail(s) \in Seq(S) /\ Head(s) \in S /\ Asks(s, Head(s))
         /\ \A x : Asks(s, x) => x = Head(s) \/ Asks(Tail(s), x)
         /\ \A x : Asks(Tail(s), x) => Asks(s, x)
<1>1. Tail(s) \in Seq(S) /\ Len(Tail(s)) = Len(s) - 1 /\ Head(s) = s[1] /\ 1 \in 1..Len(s)
  OBVIOUS
<1>2. \A n \in 1..Len(Tail(s)) : Tail(s)[n] = s[n + 1] /\ n + 1 \in 1..Len(s)
  BY <1>1
<1>3. \A n \in 1..Len(s) : n = 1 \/ (n - 1 \in 1..Len(Tail(s)) /\ Tail(s)[n - 1] = s[n])
  BY <1>1
<1>4. s[1] \in S
  BY <1>1, ElementOfSeq, Zenon
<1>5. Asks(s, Head(s))
  BY <1>1, Zenon DEF Asks
<1>6. ASSUME NEW x, Asks(s, x) PROVE x = Head(s) \/ Asks(Tail(s), x)
  <2>1. PICK n \in 1..Len(s) : s[n] = x
    BY <1>6, Zenon DEF Asks
  <2> QED BY <2>1, <1>1, <1>3, Zenon DEF Asks
<1>7. ASSUME NEW x, Asks(Tail(s), x) PROVE Asks(s, x)
  <2>1. PICK n \in 1..Len(Tail(s)) : Tail(s)[n] = x
    BY <1>7, Zenon DEF Asks
  <2> QED BY <2>1, <1>2, Zenon DEF Asks
<1> QED BY <1>1, <1>4, <1>5, <1>6, <1>7, Zenon

\* A step of a call that succeeds sets its flag and leaves the rest.
LEMMA StepDoneKeeps ==
  ASSUME SckInv, StepDone
  PROVE  SckInv'
<1> DEFINE S == StepNames \X {1, 2}
           FdState == [cloexec : BOOLEAN, nonblock : BOOLEAN, path : Paths \cup {NoPath}]
           step == Head(call.todo)
           fd == call.got[step[2]]
           new == CASE step[1] = "cloexec" -> [fds[fd] EXCEPT !.cloexec = TRUE]
                    [] step[1] = "nonblock" -> [fds[fd] EXCEPT !.nonblock = TRUE]
                    [] step[1] = "bind_unix" -> [fds[fd] EXCEPT !.path = call.path]
                    [] OTHER -> fds[fd]
<1>1. call.todo \in Seq(S) /\ call.todo # <<>>
  BY Zenon DEF SckInv, StepDone
<1> HIDE DEF S
<1>2. /\ Tail(call.todo) \in Seq(S) /\ step \in S /\ Asks(call.todo, step)
      /\ \A x : Asks(call.todo, x) => x = step \/ Asks(Tail(call.todo), x)
      /\ \A x : Asks(Tail(call.todo), x) => Asks(call.todo, x)
  BY <1>1, AsksTail, Zenon
<1>3. fds' = [fds EXCEPT ![fd] = new]
  BY Zenon DEF StepDone
<1>4. call' = [call EXCEPT !.todo = Tail(call.todo)] /\ owned' = owned
  BY Zenon DEF StepDone
<1>5. /\ call'.kind = call.kind /\ call'.block = call.block /\ call'.path = call.path
      /\ call'.got = call.got /\ call'.todo = Tail(call.todo)
      /\ call' = [kind |-> call'.kind, block |-> call'.block, path |-> call'.path, got |-> call'.got, todo |-> call'.todo]
  BY <1>4, Zenon DEF SckInv
<1>6. call.kind # "idle"
  BY <1>1, Zenon DEF SckInv
<1>7. step[2] \in DOMAIN call.got
  <2>1. \A n \in 1..Len(call.todo) : call.todo[n][2] \in DOMAIN call.got
    BY Zenon DEF SckInv
  <2>2. \A x : Asks(call.todo, x) => x[2] \in DOMAIN call.got
    BY <2>1, Zenon DEF Asks
  <2> QED BY <2>2, <1>2, Zenon
<1>8. fd \in ClosedOnFailure /\ fd \in DOMAIN fds /\ fds[fd] \in FdState
  <2>1. fd \in ClosedOnFailure
    BY <1>7, Zenon DEF ClosedOnFailure
  <2>2. fd \in DOMAIN fds
    BY <2>1, Zenon DEF SckInv
  <2> QED BY <2>1, <2>2, Zenon DEF SckInv
<1>9. ClosedOnFailure' = ClosedOnFailure
  BY <1>5, Zenon DEF ClosedOnFailure
<1>10. /\ new \in FdState
       /\ new.cloexec = (fds[fd].cloexec \/ step[1] = "cloexec")
       /\ new.nonblock = (fds[fd].nonblock \/ step[1] = "nonblock")
  <2> HIDE DEF step, fd
  <2>1. call.path \in Paths \cup {NoPath}
    BY Zenon DEF SckInv
  <2>2. CASE step[1] = "cloexec"
    <3>1. new = [fds[fd] EXCEPT !.cloexec = TRUE]
      BY <2>2
    <3> HIDE DEF new
    <3> QED BY <3>1, <2>2, <1>8, Zenon
  <2>3. CASE step[1] = "nonblock"
    <3>1. new = [fds[fd] EXCEPT !.nonblock = TRUE]
      BY <2>3
    <3> HIDE DEF new
    <3> QED BY <3>1, <2>3, <1>8, Zenon
  <2>4. CASE step[1] = "bind_unix"
    <3>1. new = [fds[fd] EXCEPT !.path = call.path]
      BY <2>4
    <3> HIDE DEF new
    <3> QED BY <3>1, <2>4, <1>8, <2>1
  <2>5. CASE step[1] # "cloexec" /\ step[1] # "nonblock" /\ step[1] # "bind_unix"
    <3>1. new = fds[fd]
      BY <2>5
    <3> HIDE DEF new
    <3> QED BY <3>1, <2>5, <1>8
  <2> QED BY <2>2, <2>3, <2>4, <2>5, Zenon
<1> HIDE DEF new
<1>11. /\ DOMAIN fds' = DOMAIN fds /\ fds'[fd] = new
       /\ \A x \in DOMAIN fds : x # fd => fds'[x] = fds[x]
  BY <1>3, <1>8 DEF SckInv
<1>12. fds' \in [DOMAIN fds' -> FdState]
  <2> HIDE DEF fd, FdState
  <2>1. fds \in [DOMAIN fds -> FdState]
    BY Zenon DEF SckInv, FdState
  <2> QED BY <2>1, <1>3, <1>10, <1>11, Zenon
<1>13. \A x \in owned' : fds'[x].cloexec
  BY <1>4, <1>8, <1>11, Zenon DEF SckInv
<1>14. ASSUME NEW i \in DOMAIN call.got
       PROVE  /\ fds'[call.got[i]].cloexec \/ Asks(call'.todo, <<"cloexec", i>>)
              /\ call.block => ~fds'[call.got[i]].nonblock /\ ~Asks(call'.todo, <<"nonblock", i>>)
              /\ ~call.block => fds'[call.got[i]].nonblock \/ Asks(call'.todo, <<"nonblock", i>>)
  <2> DEFINE x == call.got[i]
  <2>1. x \in DOMAIN fds
    BY <1>14, Zenon DEF SckInv, ClosedOnFailure
  <2>2. /\ fds[x].cloexec \/ Asks(call.todo, <<"cloexec", i>>)
        /\ call.block => ~fds[x].nonblock /\ ~Asks(call.todo, <<"nonblock", i>>)
        /\ ~call.block => fds[x].nonblock \/ Asks(call.todo, <<"nonblock", i>>)
    BY <1>14, Zenon DEF SckInv
  <2>3. /\ fds[x].cloexec => fds'[x].cloexec
        /\ fds[x].nonblock => fds'[x].nonblock
        /\ fds'[x].nonblock => fds[x].nonblock \/ (x = fd /\ step[1] = "nonblock")
    BY <2>1, <1>10, <1>11, Zenon
  <2>4. step = <<step[1], step[2]>>
    BY <1>2 DEF S
  <2>5. <<"cloexec", i>>[1] = "cloexec" /\ <<"cloexec", i>>[2] = i
        /\ <<"nonblock", i>>[1] = "nonblock" /\ <<"nonblock", i>>[2] = i
    OBVIOUS
  <2>6. /\ step = <<"cloexec", i>> => fds'[x].cloexec
        /\ step = <<"nonblock", i>> => fds'[x].nonblock
    BY <2>5, <1>10, <1>11, Zenon
  <2>7. ASSUME call.block PROVE step[1] # "nonblock"
    <3>1. Asks(call.todo, <<step[1], step[2]>>) /\ ~Asks(call.todo, <<"nonblock", step[2]>>)
      BY <2>4, <2>7, <1>2, <1>7, Zenon DEF SckInv
    <3> QED BY <3>1, Zenon
  <2> QED BY <2>2, <2>3, <2>6, <2>7, <1>2, <1>5, Zenon
<1>15. \A n \in 1..Len(call'.todo) : call'.todo[n][2] \in DOMAIN call'.got
  <2>1. \A x : Asks(call.todo, x) => x[2] \in DOMAIN call.got
    BY Zenon DEF SckInv, Asks
  <2>2. \A x : Asks(call'.todo, x) => x[2] \in DOMAIN call'.got
    BY <2>1, <1>2, <1>5, Zenon
  <2> QED BY <2>2, AsksAll, Zenon
<1>16. /\ call'.block \in BOOLEAN /\ call'.path \in Paths \cup {NoPath}
       /\ call'.kind # "idle" /\ 1 \in DOMAIN call'.got
       /\ call'.todo \in Seq(StepNames \X {1, 2})
  BY <1>2, <1>5, <1>6, Zenon DEF SckInv, S
<1>17. /\ IsFiniteSet(DOMAIN fds')
       /\ DOMAIN fds' = owned' \cup Inherited \cup ClosedOnFailure'
       /\ ClosedOnFailure' \cap (owned' \cup Inherited) = {}
  BY <1>4, <1>9, <1>11, Zenon DEF SckInv
<1>18. \A i \in DOMAIN call'.got :
         /\ fds'[call'.got[i]].cloexec \/ Asks(call'.todo, <<"cloexec", i>>)
         /\ call'.block => ~fds'[call'.got[i]].nonblock /\ ~Asks(call'.todo, <<"nonblock", i>>)
         /\ ~call'.block => fds'[call'.got[i]].nonblock \/ Asks(call'.todo, <<"nonblock", i>>)
  BY <1>14, <1>5, Zenon
<1> QED BY <1>5, <1>12, <1>13, <1>15, <1>16, <1>17, <1>18, Zenon DEF SckInv, Asks

\* No call is in progress afterwards, and the descriptors fit: what is left to show.
LEMMA IdleKeeps ==
  ASSUME SckInv, NEW F \in SUBSET DOMAIN fds, fds' = [x \in F |-> fds[x]] \/ (fds' = fds /\ F = DOMAIN fds),
         call' = Idle, F = owned' \cup Inherited,
         \A x \in owned' : fds[x].cloexec
  PROVE  SckInv'
<1> DEFINE FdState == [cloexec : BOOLEAN, nonblock : BOOLEAN, path : Paths \cup {NoPath}]
<1>1. fds \in [DOMAIN fds -> FdState]
  BY Zenon DEF SckInv
<1> HIDE DEF FdState
<1>2. /\ DOMAIN fds' = F /\ fds' \in [F -> FdState]
      /\ \A x \in F : fds'[x] = fds[x]
  BY <1>1
<1>3. IsFiniteSet(F)
  BY FS_Subset, Zenon DEF SckInv
<1>4. DOMAIN call'.got = {} /\ call'.todo = <<>> /\ call'.kind = "idle"
  BY DEF Idle
<1>5. ClosedOnFailure' = {}
  BY <1>4, Zenon DEF ClosedOnFailure
<1>6. call'.todo \in Seq(StepNames \X {1, 2}) /\ \A n \in 1..Len(call'.todo) : FALSE
  BY <1>4
<1>7. call' = [kind |-> call'.kind, block |-> call'.block, path |-> call'.path, got |-> call'.got, todo |-> call'.todo]
      /\ call'.block \in BOOLEAN /\ call'.path \in Paths \cup {NoPath}
  BY DEF Idle
<1>8. \A x \in owned' : fds'[x].cloexec
  BY <1>2, Zenon
<1> QED BY <1>2, <1>3, <1>4, <1>5, <1>6, <1>7, <1>8, Zenon DEF SckInv, FdState

LEMMA SckStep ==
  ASSUME SckInv, [SckNext]_sckvars
  PROVE  SckInv'
<1>1. CASE UNCHANGED sckvars
  <2>1. fds' = fds /\ owned' = owned /\ call' = call
    BY <1>1, Zenon DEF sckvars
  <2>2. ClosedOnFailure' = ClosedOnFailure /\ \A x : Asks(call'.todo, x) <=> Asks(call.todo, x)
    BY <2>1, Zenon DEF ClosedOnFailure
  <2> QED BY <2>1, <2>2, Zenon DEF SckInv, Asks
<1>2. CASE StepFailed
  <2> DEFINE F == DOMAIN fds \ ClosedOnFailure
  <2>1. fds' = [x \in F |-> fds[x]] /\ call' = Idle /\ owned' = owned
    BY <1>2, Zenon DEF StepFailed
  <2>2. F = owned' \cup Inherited /\ \A x \in owned' : fds[x].cloexec
    BY <2>1, Zenon DEF SckInv
  <2>3. F \in SUBSET DOMAIN fds
    BY Zenon
  <2> HIDE DEF F
  <2> QED BY <2>1, <2>2, <2>3, IdleKeeps, Zenon
<1>3. CASE Return
  <2>1. fds' = fds /\ call' = Idle /\ owned' = owned \cup ClosedOnFailure /\ call.todo = <<>>
    BY <1>3, Zenon DEF Return, ClosedOnFailure
  <2>2. DOMAIN fds = owned' \cup Inherited
    BY <2>1, Zenon DEF SckInv
  <2>3. \A x : ~Asks(call.todo, x)
    BY <2>1 DEF Asks
  <2>4. \A x \in owned' : fds[x].cloexec
    BY <2>1, <2>3, Zenon DEF SckInv, ClosedOnFailure
  <2>5. DOMAIN fds \in SUBSET DOMAIN fds
    BY Zenon
  <2> QED BY <2>1, <2>2, <2>4, <2>5, IdleKeeps, Zenon
<1>4. ASSUME NEW fd \in owned \cup Inherited, CloseSocket(fd) PROVE SckInv'
  <2> DEFINE F == IF IsReusable(fd) THEN DOMAIN fds ELSE DOMAIN fds \ {fd}
  <2>1. fds' = IF IsReusable(fd) THEN fds ELSE [f \in DOMAIN fds \ {fd} |-> fds[f]]
    BY <1>4, Zenon DEF CloseSocket
  <2>2. owned' = owned \ {fd} /\ call' = call /\ call.kind = "idle"
    BY <1>4, Zenon DEF CloseSocket
  <2>3. ClosedOnFailure = {} /\ ClosedOnFailure' = {}
    BY <2>2, Zenon DEF SckInv, ClosedOnFailure
  <2>4. F = owned' \cup Inherited /\ F \in SUBSET DOMAIN fds
    BY <2>2, <2>3, Zenon DEF SckInv, IsReusable
  <2>5. DOMAIN fds' = F /\ \A x \in F : fds'[x] = fds[x]
    BY <2>1
  <2>6. fds' \in [F -> [cloexec : BOOLEAN, nonblock : BOOLEAN, path : Paths \cup {NoPath}]]
    <3> DEFINE FdState == [cloexec : BOOLEAN, nonblock : BOOLEAN, path : Paths \cup {NoPath}]
    <3>1. fds \in [DOMAIN fds -> FdState]
      BY Zenon DEF SckInv
    <3> HIDE DEF FdState
    <3>2. fds' \in [F -> FdState]
      BY <2>1, <3>1
    <3> QED BY <3>2, Zenon DEF FdState
  <2>7. IsFiniteSet(F)
    BY <2>4, FS_Subset, Zenon DEF SckInv
  <2> HIDE DEF F
  <2>8. \A x \in owned' : fds'[x].cloexec
    BY <2>2, <2>4, <2>5, Zenon DEF SckInv
  <2>9. \A i \in DOMAIN call'.got : FALSE
    BY <2>2, Zenon DEF SckInv
  <2> QED BY <2>2, <2>3, <2>4, <2>5, <2>6, <2>7, <2>8, <2>9, Zenon DEF SckInv, Asks
<1> QED BY <1>1, <1>2, <1>3, <1>4, OpenIpKeeps, OpenUnixKeeps, OpenPairKeeps, AcceptKeeps, StepDoneKeeps, Zenon DEF SckNext

\* A failed open_unix_socket leaves no node (the action property).
LEMMA SckNodes ==
  ASSUME SckInv, [SckNext]_sckvars, call.kind = "unix", call'.kind = "idle", owned' = owned
  PROVE  nodes' \ nodes = {} /\ (fds[call.got[1]].path = call.path => call.path \notin nodes')
<1>1. CASE StepFailed
  <2>1. RemovedOnFailure = {fds[call.got[1]].path}
    BY Zenon DEF RemovedOnFailure
  <2> QED BY <1>1, <2>1, Zenon DEF StepFailed
<1>2. CASE Return
  <2>1. call.got[1] \in ClosedOnFailure
    BY Zenon DEF SckInv, ClosedOnFailure
  <2>2. call.got[1] \in owned
    BY <1>2, <2>1, Zenon DEF Return, ClosedOnFailure
  <2> QED BY <2>1, <2>2, Zenon DEF SckInv
<1>3. CASE StepDone
  <2>1. call'.kind = call.kind
    BY <1>3, Zenon DEF StepDone, SckInv
  <2> QED BY <2>1, Zenon
<1>4. CASE UNCHANGED sckvars
  BY <1>4, Zenon DEF sckvars
<1>5. CASE OpenIpSocket \/ OpenUnixSocket \/ OpenUnixSocketPair \/ AcceptConnection
  BY <1>5, Zenon DEF OpenIpSocket, OpenUnixSocket, OpenUnixSocketPair, AcceptConnection, Begin
<1>6. ASSUME NEW fd, CloseSocket(fd) PROVE FALSE
  BY <1>6 DEF CloseSocket
<1> QED BY <1>1, <1>2, <1>3, <1>4, <1>5, <1>6, Zenon DEF SckNext

-----------------------------------------------------------------------------
(* The NTP sockets (io/ntp_io.rs).                                         *)

\* What every operation on the NTP sockets keeps: the sockets that are open are those
\* of the module and those of separate clients, which are apart and connected; a server
\* socket has one family, and is no client socket unless it is permanent.
IoInv ==
  /\ ioconf \in Confs /\ up \in BOOLEAN
  /\ server \in [Families -> Nat] /\ client \in [Families -> Nat]
  /\ in_use = [server |-> in_use.server, separate |-> in_use.separate]
  /\ in_use.server \in [Families -> Nat]
  /\ IsFiniteSet(DOMAIN socks) /\ DOMAIN socks \subseteq Nat \ {0}
  /\ socks = [fd \in DOMAIN socks |-> fd \in in_use.separate]
  /\ IoSocketsHeld
  /\ up => refs = in_use.server
  /\ in_use.separate \cap NtpSocks = {}
  /\ \A f, g \in Families : server[f] = server[g] /\ server[f] # NoFd => f = g
  /\ ~ioconf.permanent => \A f, g \in Families : server[f] = client[g] => server[f] = NoFd
  /\ ioconf.permanent => \A f \in Families : in_use.server[f] = 0
  /\ up /\ ~ioconf.permanent => \A f \in Families : (server[f] # NoFd) <=> in_use.server[f] > 0
  /\ ioconf.separate => \A f \in Families : client[f] = NoFd
  /\ ~ioconf.separate => in_use.separate = {}

\* With separate client sockets there is no server socket at the start.
LEMMA ConfsSeparate ==
  ASSUME NEW c \in Confs, c.separate, c.permanent
  PROVE  c.zero
<1>1. \/ c = [separate |-> FALSE, shared |-> TRUE, permanent |-> TRUE, zero |-> FALSE]
      \/ c = [separate |-> FALSE, shared |-> FALSE, permanent |-> FALSE, zero |-> FALSE]
      \/ c = [separate |-> FALSE, shared |-> FALSE, permanent |-> TRUE, zero |-> TRUE]
      \/ c = [separate |-> TRUE, shared |-> FALSE, permanent |-> FALSE, zero |-> FALSE]
      \/ c = [separate |-> TRUE, shared |-> FALSE, permanent |-> TRUE, zero |-> TRUE]
  BY Zenon DEF Confs
<1> QED BY <1>1, SMT

LEMMA IoInvSound == IoInv => IoSocketsHeld /\ IoServerCounted /\ IoReceiverNamed
<1> SUFFICES ASSUME IoInv PROVE IoSocketsHeld /\ IoServerCounted /\ IoReceiverNamed
  OBVIOUS
<1>1. IoServerCounted
  <2>1. \A f \in Families : (server[f] # NoFd) \in BOOLEAN /\ (in_use.server[f] > 0) \in BOOLEAN
    BY DEF IoInv
  <2> QED BY <2>1, Zenon DEF IoInv, IoServerCounted
<1>2. ASSUME NEW fd \in DOMAIN socks PROVE NamesRemote(fd) = ~socks[fd]
  <2>1. socks[fd] = (fd \in in_use.separate) /\ fd # NoFd
    BY <1>2 DEF IoInv, NoFd
  <2>2. fd \in in_use.separate \/ fd \in NtpSocks
    BY <1>2, Zenon DEF IoInv, IoSocketsHeld
  <2>3. fd \in NtpSocks => fd \notin in_use.separate
    BY Zenon DEF IoInv
  <2>4. CASE ioconf.separate
    <3>1. fd \in NtpSocks <=> IsServerSocket(fd)
      <4>1. \A f \in Families : client[f] = NoFd
        BY <2>4, Zenon DEF IoInv
      <4> QED BY <2>1, <4>1, Zenon DEF NtpSocks, IsServerSocket
    <3>2. NamesRemote(fd) <=> IsServerSocket(fd)
      BY <2>4, Zenon DEF NamesRemote
    <3>3. NamesRemote(fd) \in BOOLEAN /\ (~socks[fd]) \in BOOLEAN
      BY Zenon DEF NamesRemote
    <3> QED BY <2>1, <2>2, <2>3, <3>1, <3>2, <3>3, Zenon
  <2>5. CASE ~ioconf.separate
    BY <2>1, <2>5, Zenon DEF NamesRemote, IoInv
  <2> QED BY <2>4, <2>5, Zenon
<1> QED BY <1>1, <1>2, Zenon DEF IoInv, IoReceiverNamed

\* The sockets opened by initialise are numbered from one, a family each.
LEMMA IoNumbers ==
  ASSUME NEW ok \in SUBSET Families
  PROVE  LET Rank(f) == Cardinality({g \in ok : g <= f})
         IN /\ Cardinality(ok) \in Nat
            /\ \A f \in ok : Rank(f) \in 1..Cardinality(ok)
            /\ \A n \in 1..Cardinality(ok) : \E f \in ok : Rank(f) = n
            /\ \A f, g \in ok : Rank(f) = Rank(g) => f = g
<1> USE IoAssumption
<1> DEFINE Rank(f) == Cardinality({g \in ok : g <= f})
<1>1. ok = {} \/ ok = {4} \/ ok = {6} \/ ok = {4, 6}
  BY Zenon
<1>2. Cardinality({}) = 0 /\ Cardinality({4}) = 1 /\ Cardinality({6}) = 1
  BY FS_EmptySet, FS_Singleton, Zenon
<1>3. Cardinality({4, 6}) = 2
  <2>1. IsFiniteSet({4}) /\ {4, 6} = {4} \cup {6}
    BY FS_Singleton, Zenon
  <2>2. Cardinality({4} \cup {6}) = IF 6 \in {4} THEN Cardinality({4}) ELSE Cardinality({4}) + 1
    <3> DEFINE S == {4}
               x == 6
    <3> HIDE DEF S, x
    <3>1. IsFiniteSet(S) => Cardinality(S \cup {x}) = IF x \in S THEN Cardinality(S) ELSE Cardinality(S) + 1
      BY FS_AddElement, Zenon
    <3> QED BY <2>1, <3>1 DEF S, x
  <2> QED BY <2>1, <2>2, <1>2
<1>4. CASE ok = {}
  BY <1>4, <1>2
<1>5. CASE ok = {4}
  <2>1. {g \in ok : g <= 4} = {4}
    BY <1>5
  <2>2. Rank(4) = 1 /\ Cardinality(ok) = 1
    BY <2>1, <1>5, <1>2, Zenon
  <2> HIDE DEF Rank
  <2>3. /\ Cardinality(ok) \in Nat
        /\ \A f \in ok : Rank(f) \in 1..Cardinality(ok)
        /\ \A n \in 1..Cardinality(ok) : \E f \in ok : Rank(f) = n
        /\ \A f, g \in ok : Rank(f) = Rank(g) => f = g
    BY <2>2, <1>5
  <2> QED BY <2>3, Zenon DEF Rank
<1>6. CASE ok = {6}
  <2>1. {g \in ok : g <= 6} = {6}
    BY <1>6
  <2>2. Rank(6) = 1 /\ Cardinality(ok) = 1
    BY <2>1, <1>6, <1>2, Zenon
  <2> HIDE DEF Rank
  <2>3. /\ Cardinality(ok) \in Nat
        /\ \A f \in ok : Rank(f) \in 1..Cardinality(ok)
        /\ \A n \in 1..Cardinality(ok) : \E f \in ok : Rank(f) = n
        /\ \A f, g \in ok : Rank(f) = Rank(g) => f = g
    BY <2>2, <1>6
  <2> QED BY <2>3, Zenon DEF Rank
<1>7. CASE ok = {4, 6}
  <2>1. {g \in ok : g <= 4} = {4} /\ {g \in ok : g <= 6} = {4, 6}
    BY <1>7
  <2>2. Rank(4) = 1 /\ Rank(6) = 2 /\ Cardinality(ok) = 2
    BY <2>1, <1>7, <1>2, <1>3, Zenon
  <2> HIDE DEF Rank
  <2>3. /\ Cardinality(ok) \in Nat
        /\ \A f \in ok : Rank(f) \in 1..Cardinality(ok)
        /\ \A n \in 1..Cardinality(ok) : \E f \in ok : Rank(f) = n
        /\ \A f, g \in ok : Rank(f) = Rank(g) => f = g
    BY <2>2, <1>7
  <2> QED BY <2>3, Zenon DEF Rank
<1> QED BY <1>1, <1>4, <1>5, <1>6, <1>7, Zenon

LEMMA IoStart == Initialise => IoInv
<1> SUFFICES ASSUME Initialise PROVE IoInv
  OBVIOUS
<1> DEFINE none == [f \in Families |-> NoFd]
<1>1. PICK ok \in SUBSET Families :
        LET Rank(f) == Cardinality({g \in ok : g <= f})
            fd == [f \in Families |-> IF f \in ok THEN Rank(f) ELSE NoFd]
        IN /\ server = IF ioconf.permanent /\ ~ioconf.zero THEN fd ELSE none
           /\ client = IF ioconf.separate THEN none ELSE fd
           /\ socks = IF ioconf.separate THEN <<>> ELSE [n \in 1..Cardinality(ok) |-> FALSE]
  BY Zenon DEF Initialise
<1> DEFINE Rank(f) == Cardinality({g \in ok : g <= f})
           N == Cardinality(ok)
           fd == [f \in Families |-> IF f \in ok THEN Rank(f) ELSE NoFd]
<1>2. /\ N \in Nat
      /\ \A f \in ok : Rank(f) \in 1..N
      /\ \A n \in 1..N : \E f \in ok : Rank(f) = n
      /\ \A f, g \in ok : Rank(f) = Rank(g) => f = g
  BY IoNumbers, Zenon
<1>3. /\ server = IF ioconf.permanent /\ ~ioconf.zero THEN fd ELSE none
      /\ client = IF ioconf.separate THEN none ELSE fd
      /\ socks = IF ioconf.separate THEN <<>> ELSE [n \in 1..N |-> FALSE]
  BY <1>1, Zenon
<1> HIDE DEF N, Rank
<1>4. /\ fd \in [Families -> Nat] /\ none \in [Families -> Nat]
      /\ \A f \in Families : none[f] = NoFd
      /\ \A f \in Families : fd[f] # NoFd => f \in ok /\ fd[f] \in 1..N
      /\ \A n \in 1..N : n # NoFd /\ \E f \in Families : fd[f] = n
      /\ \A f, g \in Families : fd[f] = fd[g] /\ fd[f] # NoFd => f = g
  <2>1. \A f \in ok : fd[f] = Rank(f)
    BY Zenon
  <2>2. \A f \in Families : f \in ok \/ fd[f] = NoFd
    BY Zenon
  <2>3. \A n \in 1..N : n # NoFd /\ n \in Nat
    BY <1>2 DEF NoFd
  <2>4. \A f \in Families : fd[f] \in Nat
    BY <2>1, <2>2, <2>3, <1>2 DEF NoFd
  <2>5. fd \in [Families -> Nat] /\ none \in [Families -> Nat] /\ \A f \in Families : none[f] = NoFd
    BY <2>4 DEF NoFd
  <2> HIDE DEF fd, none
  <2>6. ASSUME NEW f \in Families, fd[f] # NoFd PROVE f \in ok /\ fd[f] \in 1..N
    <3>1. f \in ok
      BY <2>2, <2>6, Zenon
    <3>2. Rank(f) \in 1..N
      BY <3>1, <1>2, Zenon
    <3> QED BY <3>1, <3>2, <2>1, Zenon
  <2>7. \A n \in 1..N : \E f \in Families : fd[f] = n
    <3> SUFFICES ASSUME NEW n \in 1..N PROVE \E f \in Families : fd[f] = n
      OBVIOUS
    <3>1. PICK f \in ok : Rank(f) = n
      BY <1>2, Zenon
    <3> QED BY <3>1, <2>1, Zenon
  <2>8. \A f, g \in Families : fd[f] = fd[g] /\ fd[f] # NoFd => f = g
    <3> SUFFICES ASSUME NEW f \in Families, NEW g \in Families, fd[f] = fd[g], fd[f] # NoFd PROVE f = g
      OBVIOUS
    <3>1. f \in ok /\ g \in ok
      BY <2>6, Zenon
    <3>2. Rank(f) = Rank(g)
      BY <3>1, <2>1, Zenon
    <3>3. \A x, y \in ok : Rank(x) = Rank(y) => x = y
      BY <1>2, Zenon
    <3> QED BY <3>1, <3>2, <3>3, Zenon
  <2> QED BY <2>3, <2>5, <2>6, <2>7, <2>8, Zenon
<1> HIDE DEF fd, none
<1>5. /\ ioconf \in Confs /\ handlers = DOMAIN socks /\ refs = [f \in Families |-> 0]
      /\ in_use = [server |-> [f \in Families |-> 0], separate |-> {}] /\ up = TRUE
  BY Zenon DEF Initialise
<1>6. /\ in_use.server = [f \in Families |-> 0] /\ in_use.separate = {}
      /\ in_use = [server |-> in_use.server, separate |-> in_use.separate]
      /\ in_use.server \in [Families -> Nat] /\ refs = in_use.server
      /\ \A f \in Families : in_use.server[f] = 0 /\ ~(in_use.server[f] > 0)
  BY <1>5
<1>7. CASE ioconf.separate
  <2>1. client = none /\ server = none
    BY <1>7, <1>3, <1>5, ConfsSeparate, Zenon
  <2>2. DOMAIN socks = {} /\ socks = [x \in DOMAIN socks |-> x \in in_use.separate]
    BY <1>7, <1>3
  <2>3. NtpSocks = {}
    <3>1. \A f \in Families : server[f] = NoFd /\ client[f] = NoFd
      BY <2>1, <1>4, Zenon
    <3> QED BY <3>1, Zenon DEF NtpSocks
  <2>4. IsFiniteSet(DOMAIN socks) /\ DOMAIN socks \subseteq Nat \ {0}
    BY <2>2, FS_EmptySet, Zenon
  <2> QED BY <1>4, <1>5, <1>6, <1>7, <2>1, <2>2, <2>3, <2>4, Zenon DEF IoInv, IoSocketsHeld
<1>8. CASE ~ioconf.separate
  <2>1. client = fd /\ ((server = fd /\ ioconf.permanent) \/ server = none)
    BY <1>8, <1>3, Zenon
  <2>2. DOMAIN socks = 1..N /\ \A x \in 1..N : socks[x] = FALSE
    BY <1>8, <1>3, Zenon
  <2>3. socks = [x \in DOMAIN socks |-> x \in in_use.separate]
    <3>1. socks = [n \in 1..N |-> FALSE]
      BY <1>8, <1>3, Zenon
    <3>2. \A x : (x \in {}) = FALSE
      OBVIOUS
    <3>3. socks = [n \in 1..N |-> n \in {}]
      BY <3>1, <3>2, Zenon
    <3> QED BY <3>3, <2>2, <1>6, Zenon
  <2>4. NtpSocks = 1..N
    <3>1. \A x \in NtpSocks : x \in 1..N
      <4> SUFFICES ASSUME NEW x \in NtpSocks PROVE x \in 1..N
        OBVIOUS
      <4>1. x # NoFd /\ \E f \in Families : x = server[f] \/ x = client[f]
        BY Zenon DEF NtpSocks
      <4>2. PICK f \in Families : x = fd[f] \/ x = none[f]
        BY <4>1, <2>1, Zenon
      <4>3. x = fd[f]
        BY <4>1, <4>2, <1>4, Zenon
      <4> QED BY <4>1, <4>3, <1>4, Zenon
    <3>2. \A x \in 1..N : x \in NtpSocks
      BY <2>1, <1>4, Zenon DEF NtpSocks
    <3> QED BY <3>1, <3>2, Zenon
  <2>5. IsFiniteSet(DOMAIN socks) /\ DOMAIN socks \subseteq Nat \ {0}
    <3>1. 1 \in Int /\ N \in Int /\ 1..N \subseteq Nat \ {0}
      BY <1>2
    <3>2. IsFiniteSet(1..N)
      BY <3>1, FS_Interval, Zenon
    <3> QED BY <2>2, <3>1, <3>2, Zenon
  <2>6. /\ server \in [Families -> Nat] /\ client \in [Families -> Nat]
        /\ \A f, g \in Families : server[f] = server[g] /\ server[f] # NoFd => f = g
        /\ ~ioconf.permanent => \A f \in Families : server[f] = NoFd
    BY <2>1, <1>4, <1>3, Zenon
  <2>7. IoSocketsHeld
    BY <1>5, <1>6, <2>2, <2>4, Zenon DEF IoSocketsHeld
  <2> QED BY <1>5, <1>6, <1>8, <2>3, <2>4, <2>5, <2>6, <2>7, Zenon DEF IoInv
<1> QED BY <1>7, <1>8, Zenon

\* The lowest free descriptor is a new one.
LEMMA FreeFdNew ==
  ASSUME IoInv, Fits(socks)
  PROVE  FreeFd(socks) \in Nat \ {0} /\ FreeFd(socks) \notin DOMAIN socks
<1> DEFINE D == DOMAIN socks
           S == (1..IoMaxFd) \ D
<1>1. IsFiniteSet(D) /\ Cardinality(D) < IoMaxFd - 1 + 1 /\ 1 \in Nat /\ IoMaxFd \in Nat
  BY IoAssumption DEF IoInv, Fits
<1> HIDE DEF D
<1>2. \E m \in S : \A k \in S : m <= k
  BY <1>1, LeastFree, Zenon
<1>3. FreeFd(socks) = CHOOSE m \in S : \A k \in S : m <= k
  BY Zenon DEF FreeFd, Min, D
<1>4. FreeFd(socks) \in S
  BY <1>2, <1>3, Zenon
<1> QED BY <1>4, <1>1 DEF D

\* The sockets of the module, one by one.
LEMMA NtpSocksAre ==
  \A x : x \in NtpSocks <=> x # NoFd /\ \E f \in Families : x = server[f] \/ x = client[f]
BY Zenon DEF NtpSocks

LEMMA NtpSocksWillBe ==
  \A x : x \in NtpSocks' <=> x # NoFd /\ \E f \in Families : x = server'[f] \/ x = client'[f]
BY Zenon DEF NtpSocks

\* open_server_socket: the first of the family opens it, the others count.
LEMMA OpenServerKeeps ==
  ASSUME IoInv, NEW f \in Families, OpenServerSocket(f)
  PROVE  IoInv'
<1> DEFINE h == in_use.server
           fd == FreeFd(socks)
<1>1. /\ up /\ ~ioconf.permanent /\ up' = up /\ ioconf' = ioconf /\ client' = client
      /\ refs' = [refs EXCEPT ![f] = @ + 1] /\ in_use' = [in_use EXCEPT !.server[f] = @ + 1]
  BY Zenon DEF OpenServerSocket
<1>2. /\ in_use'.server = [h EXCEPT ![f] = @ + 1] /\ in_use'.separate = in_use.separate
      /\ in_use' = [server |-> in_use'.server, separate |-> in_use'.separate]
  <2>1. in_use = [server |-> in_use.server, separate |-> in_use.separate]
    BY Zenon DEF IoInv
  <2> QED BY <1>1, <2>1
<1>3. h \in [Families -> Nat] /\ refs = h
  BY <1>1, Zenon DEF IoInv
<1> HIDE DEF h
<1>4. /\ in_use'.server \in [Families -> Nat] /\ refs' = in_use'.server /\ in_use'.server[f] > 0
      /\ \A g \in Families : g # f => in_use'.server[g] = h[g]
  <2>1. h[f] + 1 \in Nat /\ h[f] + 1 > 0
    BY <1>3
  <2> QED BY <1>1, <1>2, <1>3, <2>1, Zenon
<1>5. CASE server[f] # NoFd /\ server' = server /\ socks' = socks /\ handlers' = handlers
  <2>1. NtpSocks' = NtpSocks
    BY <1>1, <1>5, Zenon DEF NtpSocks
  <2>2. server[f] \in DOMAIN socks
    BY <1>5, NtpSocksAre, Zenon DEF IoInv, IoSocketsHeld
  <2>3. IoSocketsHeld'
    <3>1. \A g \in Families : in_use'.server[g] > 0 => server'[g] \in DOMAIN socks'
      BY <1>4, <1>5, <2>2, Zenon DEF IoInv, IoSocketsHeld, h
    <3> QED BY <3>1, <2>1, <1>2, <1>5, Zenon DEF IoInv, IoSocketsHeld
  <2>4. \A g \in Families : (server'[g] # NoFd) <=> in_use'.server[g] > 0
    BY <1>1, <1>4, <1>5, Zenon DEF IoInv, h
  <2>5. /\ ioconf' \in Confs /\ up' \in BOOLEAN
        /\ server' \in [Families -> Nat] /\ client' \in [Families -> Nat]
        /\ IsFiniteSet(DOMAIN socks') /\ DOMAIN socks' \subseteq Nat \ {0}
        /\ in_use'.separate \cap NtpSocks' = {}
        /\ socks' = [x \in DOMAIN socks' |-> x \in in_use'.separate]
    <3>1. socks = [x \in DOMAIN socks |-> x \in in_use.separate]
      BY Zenon DEF IoInv
    <3>2. socks' = [x \in DOMAIN socks' |-> x \in in_use'.separate]
      BY <3>1, <1>2, <1>5, Zenon
    <3>3. /\ ioconf \in Confs /\ up \in BOOLEAN
          /\ server \in [Families -> Nat] /\ client \in [Families -> Nat]
          /\ IsFiniteSet(DOMAIN socks) /\ DOMAIN socks \subseteq Nat \ {0}
          /\ in_use.separate \cap NtpSocks = {}
      BY Zenon DEF IoInv
    <3> QED BY <1>1, <1>2, <1>5, <2>1, <3>2, <3>3, Zenon
  <2>6. /\ \A i, j \in Families : server'[i] = server'[j] /\ server'[i] # NoFd => i = j
        /\ \A i, j \in Families : server'[i] = client'[j] => server'[i] = NoFd
        /\ ioconf'.separate => \A i \in Families : client'[i] = NoFd
        /\ ~ioconf'.separate => in_use'.separate = {}
    <3>1. /\ \A i, j \in Families : server[i] = server[j] /\ server[i] # NoFd => i = j
          /\ \A i, j \in Families : server[i] = client[j] => server[i] = NoFd
          /\ ioconf.separate => \A i \in Families : client[i] = NoFd
          /\ ~ioconf.separate => in_use.separate = {}
      BY <1>1, Zenon DEF IoInv
    <3> QED BY <3>1, <1>1, <1>2, <1>5
  <2> QED BY <1>1, <1>2, <1>4, <2>3, <2>4, <2>5, <2>6, Zenon DEF IoInv
<1>6. CASE /\ server[f] = NoFd /\ Fits(socks) /\ server' = [server EXCEPT ![f] = fd]
           /\ socks' = Open(socks, FALSE) /\ handlers' = handlers \cup {fd}
  <2>1. fd \in Nat \ {0} /\ fd \notin DOMAIN socks
    BY <1>6, FreeFdNew, Zenon
  <2>2. fd # NoFd /\ fd \in Nat
    BY <2>1 DEF NoFd
  <2>3. socks' = [x \in DOMAIN socks \cup {fd} |-> IF x \in DOMAIN socks THEN socks[x] ELSE FALSE]
    BY <1>6, Zenon DEF Open
  <2> HIDE DEF fd
  <2>4. DOMAIN socks' = DOMAIN socks \cup {fd}
    BY <2>3, Zenon
  <2>5. server \in [Families -> Nat]
    BY Zenon DEF IoInv
  <2>6. server' \in [Families -> Nat] /\ server'[f] = fd /\ \A g \in Families : g # f => server'[g] = server[g]
    BY <1>6, <2>2, <2>5, Zenon
  <2>7. \A x : x \in NtpSocks' <=> x \in NtpSocks \/ x = fd
    <3>1. \A x \in NtpSocks' : x \in NtpSocks \/ x = fd
      <4> SUFFICES ASSUME NEW x \in NtpSocks', x # fd PROVE x \in NtpSocks
        OBVIOUS
      <4>1. x # NoFd /\ \E g \in Families : x = server'[g] \/ x = client'[g]
        BY NtpSocksWillBe, Zenon
      <4>2. PICK g \in Families : x = server'[g] \/ x = client'[g]
        BY <4>1, Zenon
      <4>3. x = server[g] \/ x = client[g]
        BY <4>2, <2>6, <1>1, Zenon
      <4> QED BY <4>1, <4>3, NtpSocksAre, Zenon
    <3>2. \A x \in NtpSocks : x \in NtpSocks'
      <4> SUFFICES ASSUME NEW x \in NtpSocks PROVE x \in NtpSocks'
        OBVIOUS
      <4>1. x # NoFd /\ \E g \in Families : x = server[g] \/ x = client[g]
        BY NtpSocksAre, Zenon
      <4>2. PICK g \in Families : x = server[g] \/ x = client[g]
        BY <4>1, Zenon
      <4>3. CASE x = client[g]
        BY <4>1, <4>3, <1>1, NtpSocksWillBe, Zenon
      <4>4. CASE x = server[g]
        <5>1. g # f
          BY <4>1, <4>4, <1>6, Zenon
        <5> QED BY <4>1, <4>4, <5>1, <2>6, NtpSocksWillBe, Zenon
      <4> QED BY <4>2, <4>3, <4>4, Zenon
    <3>3. fd \in NtpSocks'
      BY <2>2, <2>6, NtpSocksWillBe, Zenon
    <3> QED BY <3>1, <3>2, <3>3, Zenon
  <2>8. fd \notin in_use.separate /\ fd \notin NtpSocks
    BY <2>1, Zenon DEF IoInv, IoSocketsHeld
  <2>9. socks' = [x \in DOMAIN socks' |-> x \in in_use'.separate]
    <3>1. \A x \in DOMAIN socks : socks[x] = (x \in in_use.separate)
      BY Zenon DEF IoInv
    <3>2. (fd \in in_use.separate) = FALSE
      BY <2>8, SMT
    <3>3. \A x \in DOMAIN socks \cup {fd} :
            (IF x \in DOMAIN socks THEN socks[x] ELSE FALSE) = (x \in in_use.separate)
      BY <3>1, <3>2, Zenon
    <3>4. socks' = [x \in DOMAIN socks \cup {fd} |-> x \in in_use.separate]
      BY <2>3, <3>3, Zenon
    <3> QED BY <3>4, <2>4, <1>2, Zenon
  <2>10. IoSocketsHeld'
    <3>1. handlers' = DOMAIN socks'
      BY <1>6, <2>4, Zenon DEF IoInv, IoSocketsHeld
    <3>2. \A g \in Families : in_use'.server[g] > 0 => server'[g] \in DOMAIN socks'
      BY <1>4, <2>4, <2>6, Zenon DEF IoInv, IoSocketsHeld, h
    <3>3. in_use'.separate \subseteq DOMAIN socks' /\ DOMAIN socks' = in_use'.separate \cup NtpSocks'
      <4>1. DOMAIN socks = in_use.separate \cup NtpSocks
        BY Zenon DEF IoInv, IoSocketsHeld
      <4> QED BY <4>1, <2>4, <2>7, <1>2, Zenon
    <3> QED BY <3>1, <3>2, <3>3, Zenon DEF IoSocketsHeld
  <2>11. IsFiniteSet(DOMAIN socks') /\ DOMAIN socks' \subseteq Nat \ {0}
    <3>1. IsFiniteSet(DOMAIN socks \cup {fd})
      BY FS_AddElement, Zenon DEF IoInv
    <3> QED BY <3>1, <2>1, <2>4, Zenon DEF IoInv
  <2>12. in_use'.separate \cap NtpSocks' = {}
    BY <1>2, <2>7, <2>8, Zenon DEF IoInv
  <2>13. \A g \in Families : server[g] # fd /\ client[g] # fd
    <3>1. ASSUME NEW g \in Families, server[g] = fd \/ client[g] = fd PROVE fd \in NtpSocks
      BY <3>1, <2>2, NtpSocksAre, Zenon
    <3> QED BY <3>1, <2>8, Zenon
  <2>14. \A i, j \in Families : server'[i] = server'[j] /\ server'[i] # NoFd => i = j
    <3>1. \A i, j \in Families : server[i] = server[j] /\ server[i] # NoFd => i = j
      BY Zenon DEF IoInv
    <3> QED BY <3>1, <2>6, <2>13
  <2>15. \A i, j \in Families : server'[i] = client'[j] => server'[i] = NoFd
    <3>1. \A i, j \in Families : server[i] = client[j] => server[i] = NoFd
      BY <1>1, Zenon DEF IoInv
    <3> QED BY <3>1, <1>1, <2>6, <2>13
  <2>16. \A g \in Families : (server'[g] # NoFd) <=> in_use'.server[g] > 0
    BY <1>1, <1>4, <2>2, <2>6, Zenon DEF IoInv, h
  <2>17. /\ ioconf' \in Confs /\ up' \in BOOLEAN /\ client' \in [Families -> Nat]
         /\ ioconf'.separate => \A i \in Families : client'[i] = NoFd
         /\ ~ioconf'.separate => in_use'.separate = {}
    BY <1>1, <1>2, Zenon DEF IoInv
  <2> QED BY <1>1, <1>2, <1>4, <2>6, <2>9, <2>10, <2>11, <2>12, <2>14, <2>15, <2>16, <2>17, Zenon DEF IoInv
<1> QED BY <1>5, <1>6, Zenon DEF OpenServerSocket

\* close_server_socket: the last of the family closes it, the others count down.
LEMMA CloseServerKeeps ==
  ASSUME IoInv, NEW f \in Families, CloseServerSocket(f)
  PROVE  IoInv'
<1> DEFINE h == in_use.server
           fd == server[f]
<1>1. /\ up /\ h[f] > 0 /\ ioconf' = ioconf /\ client' = client
      /\ refs' = [refs EXCEPT ![f] = @ - 1] /\ in_use' = [in_use EXCEPT !.server[f] = @ - 1]
  BY Zenon DEF CloseServerSocket
<1>2. /\ in_use'.server = [h EXCEPT ![f] = @ - 1] /\ in_use'.separate = in_use.separate
      /\ in_use' = [server |-> in_use'.server, separate |-> in_use'.separate]
  <2>1. in_use = [server |-> in_use.server, separate |-> in_use.separate]
    BY Zenon DEF IoInv
  <2> QED BY <1>1, <2>1
<1>3. h \in [Families -> Nat] /\ refs = h
  BY <1>1, Zenon DEF IoInv
<1>4. ~ioconf.permanent
  <2>1. h[f] # 0
    BY <1>1, <1>3
  <2> QED BY <2>1, Zenon DEF IoInv
<1>5. fd # NoFd /\ fd \in DOMAIN socks /\ fd \in handlers
  BY <1>1, <1>4, Zenon DEF IoInv, IoSocketsHeld
<1> HIDE DEF h
<1>6. /\ in_use'.server \in [Families -> Nat] /\ refs' = in_use'.server /\ in_use'.server[f] = h[f] - 1
      /\ \A g \in Families : g # f => in_use'.server[g] = h[g]
  <2>1. h[f] - 1 \in Nat
    BY <1>1, <1>3
  <2> QED BY <1>1, <1>2, <1>3, <2>1, Zenon
<1>7. /\ ioconf' \in Confs /\ client' \in [Families -> Nat]
      /\ ioconf'.separate => \A i \in Families : client'[i] = NoFd
      /\ ~ioconf'.separate => in_use'.separate = {}
  BY <1>1, <1>2, Zenon DEF IoInv
<1>8. CASE ~(refs[f] <= 1)
  <2>1. up' = up /\ handlers' = handlers /\ socks' = socks /\ server' = server
    BY <1>8, Zenon DEF CloseServerSocket
  <2>2. in_use'.server[f] > 0
    BY <1>8, <1>3, <1>6
  <2>3. NtpSocks' = NtpSocks
    BY <1>1, <2>1, Zenon DEF NtpSocks
  <2>4. IoSocketsHeld'
    <3>1. \A g \in Families : in_use'.server[g] > 0 => server'[g] \in DOMAIN socks'
      BY <1>5, <1>6, <2>1, Zenon DEF IoInv, IoSocketsHeld, h
    <3> QED BY <3>1, <2>1, <2>3, <1>2, Zenon DEF IoInv, IoSocketsHeld
  <2>5. \A g \in Families : (server'[g] # NoFd) <=> in_use'.server[g] > 0
    BY <1>1, <1>4, <1>5, <1>6, <2>1, <2>2, Zenon DEF IoInv, h
  <2>6. /\ up' \in BOOLEAN /\ server' \in [Families -> Nat]
        /\ IsFiniteSet(DOMAIN socks') /\ DOMAIN socks' \subseteq Nat \ {0}
        /\ in_use'.separate \cap NtpSocks' = {}
    BY <1>2, <2>1, <2>3, Zenon DEF IoInv
  <2>7. socks' = [x \in DOMAIN socks' |-> x \in in_use'.separate]
    <3>1. socks = [x \in DOMAIN socks |-> x \in in_use.separate]
      BY Zenon DEF IoInv
    <3> QED BY <3>1, <2>1, <1>2, Zenon
  <2>8. /\ \A i, j \in Families : server'[i] = server'[j] /\ server'[i] # NoFd => i = j
        /\ \A i, j \in Families : server'[i] = client'[j] => server'[i] = NoFd
    BY <1>1, <1>4, <2>1, Zenon DEF IoInv
  <2> QED BY <1>1, <1>2, <1>4, <1>6, <1>7, <2>4, <2>5, <2>6, <2>7, <2>8, Zenon DEF IoInv
<1>9. CASE refs[f] <= 1
  <2>1. /\ up' = (fd = NoFd \/ fd \in handlers) /\ handlers' = handlers \ {fd}
        /\ socks' = [n \in DOMAIN socks \ {fd} |-> socks[n]] /\ server' = [server EXCEPT ![f] = NoFd]
    BY <1>9, Zenon DEF CloseServerSocket, IoCloseSocket, Closed
  <2>2. up' = TRUE
    BY <2>1, <1>5, Zenon
  <2>3. ~(in_use'.server[f] > 0)
    BY <1>9, <1>3, <1>6
  <2>4. DOMAIN socks' = DOMAIN socks \ {fd}
    BY <2>1, Zenon
  <2>5. server' \in [Families -> Nat] /\ server'[f] = NoFd /\ \A g \in Families : g # f => server'[g] = server[g]
    <3>1. server \in [Families -> Nat] /\ NoFd \in Nat
      BY DEF IoInv, NoFd
    <3> QED BY <3>1, <2>1, Zenon
  <2>6. /\ \A g \in Families : g # f => server[g] # fd
        /\ \A g \in Families : client[g] # fd
        /\ fd \in NtpSocks /\ fd \notin in_use.separate
    <3>1. fd \in NtpSocks
      BY <1>5, NtpSocksAre, Zenon
    <3>2. \A i, j \in Families : server[i] = server[j] /\ server[i] # NoFd => i = j
      BY Zenon DEF IoInv
    <3>3. \A i, j \in Families : server[i] = client[j] => server[i] = NoFd
      BY <1>4, Zenon DEF IoInv
    <3>4. fd \notin in_use.separate
      BY <3>1, Zenon DEF IoInv
    <3> QED BY <3>1, <3>2, <3>3, <3>4, <1>5, Zenon
  <2>7. \A x : x \in NtpSocks' <=> x \in NtpSocks /\ x # fd
    <3>1. \A x \in NtpSocks' : x \in NtpSocks /\ x # fd
      <4> SUFFICES ASSUME NEW x \in NtpSocks' PROVE x \in NtpSocks /\ x # fd
        OBVIOUS
      <4>1. x # NoFd /\ \E g \in Families : x = server'[g] \/ x = client'[g]
        BY NtpSocksWillBe, Zenon
      <4>2. PICK g \in Families : x = server'[g] \/ x = client'[g]
        BY <4>1, Zenon
      <4>3. CASE x = client'[g]
        BY <4>1, <4>3, <1>1, <2>6, NtpSocksAre, Zenon
      <4>4. CASE x = server'[g]
        <5>1. g # f /\ x = server[g]
          BY <4>1, <4>4, <2>5, Zenon
        <5> QED BY <4>1, <5>1, <2>6, NtpSocksAre, Zenon
      <4> QED BY <4>2, <4>3, <4>4, Zenon
    <3>2. \A x \in NtpSocks : x # fd => x \in NtpSocks'
      <4> SUFFICES ASSUME NEW x \in NtpSocks, x # fd PROVE x \in NtpSocks'
        OBVIOUS
      <4>1. x # NoFd /\ \E g \in Families : x = server[g] \/ x = client[g]
        BY NtpSocksAre, Zenon
      <4>2. PICK g \in Families : x = server[g] \/ x = client[g]
        BY <4>1, Zenon
      <4>3. x = server'[g] \/ x = client'[g]
        BY <4>2, <2>5, <1>1, Zenon
      <4> QED BY <4>1, <4>3, NtpSocksWillBe, Zenon
    <3> QED BY <3>1, <3>2, Zenon
  <2>8. socks' = [x \in DOMAIN socks' |-> x \in in_use'.separate]
    <3>1. \A x \in DOMAIN socks : socks[x] = (x \in in_use.separate)
      BY Zenon DEF IoInv
    <3>2. socks' = [x \in DOMAIN socks \ {fd} |-> x \in in_use.separate]
      BY <3>1, <2>1, Zenon
    <3> QED BY <3>2, <2>4, <1>2, Zenon
  <2>9. IoSocketsHeld'
    <3>1. handlers' = DOMAIN socks'
      BY <2>1, <2>4, Zenon DEF IoInv, IoSocketsHeld
    <3>2. \A g \in Families : in_use'.server[g] > 0 => server'[g] \in DOMAIN socks'
      <4> SUFFICES ASSUME NEW g \in Families, in_use'.server[g] > 0 PROVE server'[g] \in DOMAIN socks'
        OBVIOUS
      <4>1. g # f /\ h[g] > 0
        BY <1>6, <2>3, Zenon
      <4>2. server[g] \in DOMAIN socks
        BY <4>1, Zenon DEF IoInv, IoSocketsHeld, h
      <4>3. server'[g] = server[g] /\ server[g] # fd
        BY <4>1, <2>5, <2>6, Zenon
      <4> QED BY <4>2, <4>3, <2>4, Zenon
    <3>3. in_use'.separate \subseteq DOMAIN socks' /\ DOMAIN socks' = in_use'.separate \cup NtpSocks'
      <4>1. DOMAIN socks = in_use.separate \cup NtpSocks
        BY Zenon DEF IoInv, IoSocketsHeld
      <4> HIDE DEF fd
      <4> QED BY <4>1, <2>4, <2>6, <2>7, <1>2, Zenon
    <3> QED BY <3>1, <3>2, <3>3, Zenon DEF IoSocketsHeld
  <2>10. IsFiniteSet(DOMAIN socks') /\ DOMAIN socks' \subseteq Nat \ {0}
    <3>1. IsFiniteSet(DOMAIN socks \ {fd})
      BY FS_RemoveElement, Zenon DEF IoInv
    <3> QED BY <3>1, <2>4, Zenon DEF IoInv
  <2>11. in_use'.separate \cap NtpSocks' = {}
    BY <1>2, <2>7, Zenon DEF IoInv
  <2>12. \A i, j \in Families : server'[i] = server'[j] /\ server'[i] # NoFd => i = j
    <3>1. \A i, j \in Families : server[i] = server[j] /\ server[i] # NoFd => i = j
      BY Zenon DEF IoInv
    <3> QED BY <3>1, <2>5
  <2>13. \A i, j \in Families : server'[i] = client'[j] => server'[i] = NoFd
    <3>1. \A i, j \in Families : server[i] = client[j] => server[i] = NoFd
      BY <1>4, Zenon DEF IoInv
    <3> QED BY <3>1, <1>1, <2>5, Zenon
  <2>14. \A g \in Families : (server'[g] # NoFd) <=> in_use'.server[g] > 0
    <3>1. \A g \in Families : (server[g] # NoFd) <=> h[g] > 0
      BY <1>1, <1>4, Zenon DEF IoInv, h
    <3> QED BY <3>1, <1>6, <2>3, <2>5, Zenon
  <2> QED BY <1>1, <1>2, <1>4, <1>6, <1>7, <2>2, <2>5, <2>8, <2>9, <2>10, <2>11, <2>12, <2>13, <2>14, Zenon DEF IoInv
<1> QED BY <1>8, <1>9, Zenon

\* What changes only the separate sockets of the callers.
LEMMA SeparateKeeps ==
  ASSUME IoInv, up' \in BOOLEAN, up' => up, UNCHANGED <<ioconf, server, refs, client>>,
         NEW S, in_use' = [in_use EXCEPT !.separate = S], handlers' = DOMAIN socks',
         IsFiniteSet(DOMAIN socks'), DOMAIN socks' \subseteq Nat \ {0},
         DOMAIN socks' = S \cup NtpSocks, S \cap NtpSocks = {},
         socks' = [x \in DOMAIN socks' |-> x \in S],
         ~ioconf.separate => S = {}
  PROVE  IoInv'
<1>1. /\ in_use'.server = in_use.server /\ in_use'.separate = S
      /\ in_use' = [server |-> in_use'.server, separate |-> in_use'.separate]
  <2>1. in_use = [server |-> in_use.server, separate |-> in_use.separate]
    BY Zenon DEF IoInv
  <2> QED BY <2>1
<1>2. NtpSocks' = NtpSocks
  BY Zenon DEF NtpSocks
<1>3. IoSocketsHeld'
  <2>1. \A f \in Families : in_use'.server[f] > 0 => server'[f] \in DOMAIN socks'
    <3> SUFFICES ASSUME NEW f \in Families, in_use.server[f] > 0 PROVE server[f] \in NtpSocks
      BY <1>1, Zenon
    <3>1. server[f] \in DOMAIN socks
      BY Zenon DEF IoInv, IoSocketsHeld
    <3>2. server[f] # NoFd
      BY <3>1 DEF IoInv, NoFd
    <3> QED BY <3>2, NtpSocksAre, Zenon
  <2> QED BY <2>1, <1>1, <1>2, Zenon DEF IoSocketsHeld
<1>4. /\ ioconf' = ioconf /\ server' = server /\ refs' = refs /\ client' = client
  BY Zenon
<1>5. /\ ioconf' \in Confs /\ server' \in [Families -> Nat] /\ client' \in [Families -> Nat]
      /\ in_use'.server \in [Families -> Nat] /\ up' => refs' = in_use'.server
  BY <1>1, <1>4, Zenon DEF IoInv
<1>6. /\ \A f, g \in Families : server'[f] = server'[g] /\ server'[f] # NoFd => f = g
      /\ ~ioconf'.permanent => \A f, g \in Families : server'[f] = client'[g] => server'[f] = NoFd
      /\ ioconf'.permanent => \A f \in Families : in_use'.server[f] = 0
      /\ ioconf'.separate => \A f \in Families : client'[f] = NoFd
  <2>1. /\ \A f, g \in Families : server[f] = server[g] /\ server[f] # NoFd => f = g
        /\ ~ioconf.permanent => \A f, g \in Families : server[f] = client[g] => server[f] = NoFd
        /\ ioconf.permanent => \A f \in Families : in_use.server[f] = 0
        /\ ioconf.separate => \A f \in Families : client[f] = NoFd
    BY Zenon DEF IoInv
  <2> QED BY <2>1, <1>1, <1>4
<1>7. up' /\ ~ioconf'.permanent => \A f \in Families : (server'[f] # NoFd) <=> in_use'.server[f] > 0
  <2>1. up /\ ~ioconf.permanent => \A f \in Families : (server[f] # NoFd) <=> in_use.server[f] > 0
    BY Zenon DEF IoInv
  <2> QED BY <2>1, <1>1, <1>4
<1>8. /\ socks' = [x \in DOMAIN socks' |-> x \in in_use'.separate]
      /\ in_use'.separate \cap NtpSocks' = {} /\ (~ioconf'.separate => in_use'.separate = {})
  BY <1>1, <1>2, <1>4, Zenon
<1> QED BY <1>1, <1>3, <1>5, <1>6, <1>7, <1>8, Zenon DEF IoInv

LEMMA OpenClientKeeps ==
  ASSUME IoInv, OpenClientSocket
  PROVE  IoInv'
<1> DEFINE fd == FreeFd(socks)
           S == in_use.separate \cup {fd}
<1>1. /\ up' = up /\ ioconf.separate /\ UNCHANGED <<ioconf, server, refs, client>>
      /\ in_use' = [in_use EXCEPT !.separate = S] /\ handlers' = handlers \cup {fd}
      /\ socks' = [x \in DOMAIN socks \cup {fd} |-> IF x \in DOMAIN socks THEN socks[x] ELSE TRUE]
  BY Zenon DEF OpenClientSocket, Open
<1>2. fd \in Nat \ {0} /\ fd \notin DOMAIN socks
  BY FreeFdNew, Zenon DEF OpenClientSocket
<1> HIDE DEF fd
<1>3. DOMAIN socks' = DOMAIN socks \cup {fd}
  BY <1>1, Zenon
<1>4. /\ DOMAIN socks = in_use.separate \cup NtpSocks /\ handlers = DOMAIN socks
      /\ in_use.separate \cap NtpSocks = {} /\ \A x \in DOMAIN socks : socks[x] = (x \in in_use.separate)
      /\ DOMAIN socks \subseteq Nat \ {0} /\ up \in BOOLEAN
  BY Zenon DEF IoInv, IoSocketsHeld
<1>5. IsFiniteSet(DOMAIN socks \cup {fd})
  BY FS_AddElement, Zenon DEF IoInv
<1>6. socks' = [x \in DOMAIN socks' |-> x \in S]
  <2>1. (fd \in S) = TRUE /\ \A x \in DOMAIN socks : (x \in S) = (x \in in_use.separate)
    BY <1>2
  <2>2. \A x \in DOMAIN socks \cup {fd} : (IF x \in DOMAIN socks THEN socks[x] ELSE TRUE) = (x \in S)
    BY <2>1, <1>4, Zenon
  <2>3. socks' = [x \in DOMAIN socks \cup {fd} |-> x \in S]
    BY <2>2, <1>1, Zenon
  <2> QED BY <2>3, <1>3, Zenon
<1>7. /\ DOMAIN socks' = S \cup NtpSocks /\ S \cap NtpSocks = {} /\ handlers' = DOMAIN socks'
      /\ IsFiniteSet(DOMAIN socks') /\ DOMAIN socks' \subseteq Nat \ {0}
  BY <1>1, <1>2, <1>3, <1>4, <1>5, Zenon
<1> HIDE DEF S
<1> QED BY <1>1, <1>4, <1>6, <1>7, SeparateKeeps, Zenon

LEMMA CloseClientKeeps ==
  ASSUME IoInv, NEW fd \in in_use.separate \cup ({client[f] : f \in Families} \ {NoFd}), CloseClientSocket(fd)
  PROVE  IoInv'
<1> DEFINE S == in_use.separate \ {fd}
<1>1. UNCHANGED <<ioconf, server, refs, client>> /\ in_use' = [in_use EXCEPT !.separate = S] /\ up
  BY Zenon DEF CloseClientSocket
<1>2. /\ DOMAIN socks = in_use.separate \cup NtpSocks /\ handlers = DOMAIN socks
      /\ in_use.separate \cap NtpSocks = {} /\ \A x \in DOMAIN socks : socks[x] = (x \in in_use.separate)
      /\ DOMAIN socks \subseteq Nat \ {0} /\ up \in BOOLEAN /\ IsFiniteSet(DOMAIN socks)
      /\ socks = [x \in DOMAIN socks |-> x \in in_use.separate]
  BY Zenon DEF IoInv, IoSocketsHeld
<1>3. CASE ioconf.separate
  <2>1. fd \in in_use.separate
    BY <1>3, Zenon DEF IoInv
  <2>2. /\ up' = (fd = NoFd \/ fd \in handlers) /\ handlers' = handlers \ {fd}
        /\ socks' = [n \in DOMAIN socks \ {fd} |-> socks[n]]
    BY <1>3, Zenon DEF CloseClientSocket, IoCloseSocket, Closed
  <2>3. DOMAIN socks' = DOMAIN socks \ {fd} /\ up' \in BOOLEAN
    BY <2>2, Zenon
  <2>4. IsFiniteSet(DOMAIN socks \ {fd})
    BY FS_RemoveElement, <1>2, Zenon
  <2>5. socks' = [x \in DOMAIN socks' |-> x \in S]
    <3>1. \A x \in DOMAIN socks \ {fd} : socks[x] = (x \in S)
      <4>1. \A x \in DOMAIN socks \ {fd} : (x \in in_use.separate) = (x \in S)
        OBVIOUS
      <4> QED BY <4>1, <1>2, Zenon
    <3>2. socks' = [x \in DOMAIN socks \ {fd} |-> x \in S]
      BY <3>1, <2>2, Zenon
    <3> QED BY <3>2, <2>3, Zenon
  <2>6. /\ DOMAIN socks' = S \cup NtpSocks /\ S \cap NtpSocks = {} /\ handlers' = DOMAIN socks'
        /\ IsFiniteSet(DOMAIN socks') /\ DOMAIN socks' \subseteq Nat \ {0}
    BY <1>2, <2>1, <2>2, <2>3, <2>4, Zenon
  <2> HIDE DEF S
  <2> QED BY <1>1, <1>3, <2>3, <2>5, <2>6, SeparateKeeps, Zenon
<1>4. CASE ~ioconf.separate
  <2>1. up' = up /\ handlers' = handlers /\ socks' = socks
    BY <1>4, Zenon DEF CloseClientSocket
  <2>2. in_use.separate = {}
    BY <1>4, Zenon DEF IoInv
  <2>3. S = {} /\ S = in_use.separate
    BY <2>2, Zenon
  <2> HIDE DEF S
  <2>4. socks' = [x \in DOMAIN socks' |-> x \in S]
    BY <1>2, <2>1, <2>3, Zenon
  <2>5. /\ DOMAIN socks' = S \cup NtpSocks /\ S \cap NtpSocks = {} /\ handlers' = DOMAIN socks'
        /\ IsFiniteSet(DOMAIN socks') /\ DOMAIN socks' \subseteq Nat \ {0} /\ up' \in BOOLEAN
    BY <1>2, <2>1, <2>3, Zenon
  <2> QED BY <1>1, <2>1, <2>3, <2>4, <2>5, SeparateKeeps, Zenon
<1> QED BY <1>3, <1>4, Zenon

LEMMA ConnectableKeeps ==
  ASSUME IoInv, IsServerConnectable
  PROVE  UNCHANGED iovars
<1> DEFINE fd == FreeFd(socks)
           s == [x \in DOMAIN socks \cup {fd} |-> IF x \in DOMAIN socks THEN socks[x] ELSE TRUE]
<1>1. /\ socks' = [n \in DOMAIN s \ {fd} |-> s[n]]
      /\ UNCHANGED <<ioconf, server, refs, client, handlers, in_use, up>>
  BY Zenon DEF IsServerConnectable, Open, Closed
<1>2. fd \notin DOMAIN socks
  BY FreeFdNew, Zenon DEF IsServerConnectable
<1> HIDE DEF fd
<1>3. DOMAIN s \ {fd} = DOMAIN socks
  BY <1>2, Zenon
<1>4. \A n \in DOMAIN socks : s[n] = socks[n]
  BY Zenon
<1>5. socks = [n \in DOMAIN socks |-> socks[n]]
  BY Zenon DEF IoInv
<1> HIDE DEF s
<1>6. socks' = socks
  BY <1>1, <1>3, <1>4, <1>5, Zenon
<1> QED BY <1>1, <1>6, Zenon DEF iovars

LEMMA FinaliseKeeps ==
  ASSUME IoInv, Finalise
  PROVE  IoInv'
<1> DEFINE none == [f \in Families |-> NoFd]
<1>1. /\ in_use.separate = {} /\ socks' = [n \in DOMAIN socks \ NtpSocks |-> socks[n]]
      /\ handlers' = handlers \ NtpSocks /\ server' = none /\ client' = none
      /\ in_use' = [in_use EXCEPT !.server = [f \in Families |-> 0]] /\ up' = FALSE /\ ioconf' = ioconf
  BY Zenon DEF Finalise
<1>2. /\ in_use'.server = [f \in Families |-> 0] /\ in_use'.separate = {}
      /\ in_use' = [server |-> in_use'.server, separate |-> in_use'.separate]
  <2>1. in_use = [server |-> in_use.server, separate |-> in_use.separate]
    BY Zenon DEF IoInv
  <2> QED BY <1>1, <2>1
<1>3. /\ in_use'.server \in [Families -> Nat] /\ none \in [Families -> Nat]
      /\ \A f \in Families : in_use'.server[f] = 0 /\ ~(in_use'.server[f] > 0) /\ none[f] = NoFd
  BY <1>2 DEF NoFd
<1>4. DOMAIN socks = NtpSocks /\ handlers = DOMAIN socks
  BY <1>1, Zenon DEF IoInv, IoSocketsHeld
<1>5. DOMAIN socks' = {} /\ handlers' = {}
  BY <1>1, <1>4, Zenon
<1>6. socks' = [x \in DOMAIN socks' |-> x \in in_use'.separate]
  <2>1. socks' = [n \in {} |-> socks[n]]
    BY <1>1, <1>4, Zenon
  <2> QED BY <2>1, <1>5
<1>7. NtpSocks' = {}
  <2>1. \A f \in Families : server'[f] = NoFd /\ client'[f] = NoFd
    BY <1>1, <1>3, Zenon
  <2> QED BY <2>1, NtpSocksWillBe, Zenon
<1>8. IsFiniteSet(DOMAIN socks') /\ DOMAIN socks' \subseteq Nat \ {0}
  BY <1>5, FS_EmptySet, Zenon
<1>9. ioconf' \in Confs
  BY <1>1, Zenon DEF IoInv
<1> HIDE DEF none
<1>10. IoSocketsHeld'
  BY <1>2, <1>3, <1>5, <1>7, Zenon DEF IoSocketsHeld
<1>11. /\ server' \in [Families -> Nat] /\ client' \in [Families -> Nat]
       /\ \A f \in Families : server'[f] = NoFd /\ client'[f] = NoFd
  BY <1>1, <1>3, Zenon
<1> QED BY <1>1, <1>2, <1>3, <1>6, <1>7, <1>8, <1>9, <1>10, <1>11, Zenon DEF IoInv

LEMMA IoStep ==
  ASSUME IoInv, [IoNext]_iovars
  PROVE  IoInv'
<1>1. CASE UNCHANGED iovars
  <2>1. /\ ioconf' = ioconf /\ server' = server /\ refs' = refs /\ client' = client
        /\ socks' = socks /\ handlers' = handlers /\ in_use' = in_use /\ up' = up
    BY <1>1, Zenon DEF iovars
  <2>2. NtpSocks' = NtpSocks
    BY <2>1, Zenon DEF NtpSocks
  <2>3. IoSocketsHeld'
    BY <2>1, <2>2, Zenon DEF IoInv, IoSocketsHeld
  <2> QED BY <2>1, <2>2, <2>3, Zenon DEF IoInv
<1> QED BY <1>1, OpenServerKeeps, CloseServerKeeps, OpenClientKeeps, CloseClientKeeps, ConnectableKeeps, FinaliseKeeps, Zenon
         DEF IoNext

\* SocketsSound, for any number of descriptors, paths, holders and inherited sockets:
\* whichever call of the socket layer fails nothing is left behind, and the NTP sockets
\* are open exactly while they are used (open_ip_socket, open_unix_socket,
\* open_socket_pair, close_socket, open_server_socket, close_server_socket).
THEOREM SocketsTheorem == SckSpec /\ IoSpec => SocketsSound
<1>1. SckInv /\ [SckNext]_sckvars =>
        [call.kind = "unix" /\ call'.kind = "idle" /\ owned' = owned =>
           (nodes' \ nodes = {}) /\ (fds[call.got[1]].path = call.path => call.path \notin nodes')]_sckvars
  BY SckNodes, Zenon
<1>2. SckSpec => [](SckNoLeak /\ SckFlagsSet) /\ SckNodesOwned
  BY <1>1, SckStart, SckStep, SckInvSound, PTL DEF SckSpec, SckNodesOwned
<1>3. IoSpec => [](IoSocketsHeld /\ IoServerCounted /\ IoReceiverNamed)
  BY IoStart, IoStep, IoInvSound, PTL DEF IoSpec
<1> QED BY <1>2, <1>3 DEF SocketsSound
=============================================================================
