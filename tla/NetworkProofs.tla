--------------------------- MODULE NetworkProofs ---------------------------
(***************************************************************************)
(* Proofs about what the daemon learns from the network, for every number  *)
(* of servers, sources, samples and packets: nodes that check the          *)
(* reference id of what they follow never follow one another and the poll  *)
(* interval, connectivity, transmit timestamp and monotonic correction of  *)
(* an association stay what they are to be (NtpInstance), the samples of a *)
(* hardware clock stay readings of it through steps of the local clock     *)
(* (HwClock), a response is measured only against a request it can belong  *)
(* to (NtpManager), and the error of what it measures is within half of    *)
(* the delay (NtpSample).                                                  *)
(***************************************************************************)
EXTENDS HwClock, NtpManager, NtpInstance, NtpSample, SequenceTheorems, TLAPS

-----------------------------------------------------------------------------
(* Servers that follow one another (check_sync_loop).                      *)

Refs == [synced : BOOLEAN, stratum : Nat, id : Nodes \cup {Clock, UnsyncId}, time : Nat]

\* Why nodes do not follow one another: a node that follows a node has stratum
\* two or more, so that check_sync_loop looks at the id, and no reference that is
\* announced has the time zero, so that it recognises its own.
SyncInv ==
    /\ ref \in [Nodes -> Refs]
    /\ local_time \in [Nodes -> Nat]
    /\ clock \in Nat /\ clock > LocalUpdate
    /\ \A n \in Nodes : ref[n].synced => ref[n].stratum >= 1 /\ ref[n].time # NoTime
    /\ \A n \in Nodes : ref[n].synced /\ ref[n].id \in Nodes => ref[n].stratum >= 2
    /\ \A n \in Nodes : ref[n].synced => ref[n].id # n
    /\ SyncNoLoop

LEMMA SyncInitInv == SyncInit => SyncInv
BY SyncAssumption DEF SyncInit, SyncInv, SyncNoLoop, Refs, NoTime

LEMMA LocalTimePositive ==
  ASSUME SyncInv, NEW n \in Nodes
  PROVE  LocalTime(n) \in Nat /\ LocalTime(n) # NoTime
<1>1. clock \in Nat /\ clock > LocalUpdate /\ local_time[n] \in Nat /\ LocalUpdate \in Nat
  BY SyncAssumption DEF SyncInv
<1>2. LocalUpdate >= 1
  BY SyncAssumption
<1> QED BY <1>1, <1>2 DEF LocalTime, NoTime

LEMMA FollowKeeps ==
  ASSUME SyncInv, NEW n \in Nodes, NEW id \in Nodes \cup {Clock}, NEW stratum \in Nat,
         id \in Nodes => stratum >= 1 /\ id # n /\ ~ (ref[id].synced /\ ref[id].id = n),
         Follow(n, id, stratum), local_time' \in [Nodes -> Nat], clock' = clock
  PROVE  SyncInv'
<1> USE SyncAssumption
<1> DEFINE r == [synced |-> TRUE, stratum |-> stratum + 1, id |-> id, time |-> clock]
<1>1. r \in Refs /\ clock # NoTime
  BY DEF SyncInv, Refs, NoTime
<1>2. ref' = [ref EXCEPT ![n] = r]
  BY DEF Follow
<1>3. ref' \in [Nodes -> Refs] /\ ref'[n] = r /\ \A m \in Nodes : m # n => ref'[m] = ref[m]
  BY <1>1, <1>2 DEF SyncInv
<1>4. id \in Nodes => id # n
  OBVIOUS
<1>5. \A m \in Nodes : ref'[m].synced => ref'[m].stratum >= 1 /\ ref'[m].time # NoTime
  BY <1>1, <1>3 DEF SyncInv
<1>6. \A m \in Nodes : ref'[m].synced /\ ref'[m].id \in Nodes => ref'[m].stratum >= 2
  BY <1>3 DEF SyncInv
<1>7. \A m \in Nodes : ref'[m].synced => ref'[m].id # m
  BY <1>3, <1>4 DEF SyncInv
<1>8. SyncNoLoop'
  BY <1>3, <1>4, <1>7 DEF SyncInv, SyncNoLoop
<1> QED BY <1>3, <1>5, <1>6, <1>7, <1>8 DEF SyncInv

LEMMA ExchangeKeeps ==
  ASSUME SyncInv, NEW n \in Nodes, NEW server \in Nodes, Exchange(n, server)
  PROVE  SyncInv'
<1> USE SyncAssumption
<1> DEFINE msg == ReferenceParams(server)
<1>1. local_time' \in [Nodes -> Nat]
  BY LocalTimePositive DEF Exchange, SyncInv
<1>2. CheckSyncLoop(n, msg) /\ msg.leap # "unsync" /\ Follow(n, server, msg.stratum) /\ clock' = clock
  BY DEF Exchange
<1>3. ref[server] \in Refs
  BY DEF SyncInv
<1>4. msg.stratum \in Nat /\ msg.stratum >= 1 /\ msg.time # NoTime
  BY <1>2, <1>3, LocalTimePositive DEF ReferenceParams, SyncInv, Refs
<1>5. server # n
  BY <1>2, <1>4 DEF CheckSyncLoop
<1>6. ~ (ref[server].synced /\ ref[server].id = n)
  <2> SUFFICES ASSUME ref[server].synced, ref[server].id = n PROVE FALSE
    OBVIOUS
  <2>1. msg.stratum = ref[server].stratum /\ msg.id = n
    BY DEF ReferenceParams
  <2>2. ref[server].stratum >= 2
    BY DEF SyncInv
  <2> QED BY <1>2, <1>3, <2>1, <2>2 DEF CheckSyncLoop, Refs
<1> QED BY <1>1, <1>2, <1>4, <1>5, <1>6, FollowKeeps

LEMMA SyncNextInv == SyncInv /\ [SyncNext]_syncvars => SyncInv'
<1> SUFFICES ASSUME SyncInv, [SyncNext]_syncvars PROVE SyncInv'
  OBVIOUS
<1> USE SyncAssumption
<1>1. ASSUME NEW n \in Nodes, HearClock(n) PROVE SyncInv'
  BY <1>1, FollowKeeps DEF HearClock, SyncInv
<1>2. ASSUME NEW n \in Nodes, SetUnsynchronised(n) PROVE SyncInv'
  <2>1. ref' = [ref EXCEPT ![n] = [ref[n] EXCEPT !.synced = FALSE, !.stratum = 0]]
    BY <1>2, Zenon DEF SetUnsynchronised, SyncInv
  <2>2. ref' \in [Nodes -> Refs] /\ ~ ref'[n].synced /\ \A m \in Nodes : m # n => ref'[m] = ref[m]
    BY <2>1, ZenonT(60) DEF SyncInv, Refs
  <2>3. local_time' = local_time /\ clock' = clock
    BY <1>2 DEF SetUnsynchronised
  <2> QED BY <2>2, <2>3 DEF SyncInv, SyncNoLoop
<1>3. ASSUME NEW n \in Nodes, NEW server \in Nodes, Exchange(n, server) PROVE SyncInv'
  BY <1>3, ExchangeKeeps
<1>4. ASSUME SyncTick PROVE SyncInv'
  BY <1>4 DEF SyncTick, SyncInv, SyncNoLoop
<1>5. ASSUME UNCHANGED syncvars PROVE SyncInv'
  BY <1>5 DEF syncvars, SyncInv, SyncNoLoop
<1> QED BY <1>1, <1>2, <1>3, <1>4, <1>5 DEF SyncNext

\* No two nodes follow each other, however many there are, and none follows itself.
THEOREM SyncNoLoopTheorem == SyncSpec => []SyncNoLoop
<1>1. SyncInv => SyncNoLoop
  BY DEF SyncInv
<1> QED BY SyncInitInv, SyncNextInv, <1>1, PTL DEF SyncSpec

-----------------------------------------------------------------------------
(* The hardware clock (hwclock.rs).                                        *)

LEMMA MinPair ==
  ASSUME NEW a \in Int, NEW b \in Int
  PROVE  Min({a, b}) = IF a <= b THEN a ELSE b
<1>1. \A x \in {a, b} : (\A y \in {a, b} : x <= y) => x = IF a <= b THEN a ELSE b
  OBVIOUS
<1>2. \E x \in {a, b} : \A y \in {a, b} : x <= y
  OBVIOUS
<1> QED BY <1>1, <1>2 DEF Min

LEMMA MaxPair ==
  ASSUME NEW a \in Int, NEW b \in Int
  PROVE  Max({a, b}) = IF a >= b THEN a ELSE b
<1>1. \A x \in {a, b} : (\A y \in {a, b} : x >= y) => x = IF a >= b THEN a ELSE b
  OBVIOUS
<1>2. \E x \in {a, b} : \A y \in {a, b} : x >= y
  OBVIOUS
<1> QED BY <1>1, <1>2 DEF Max

Zero == [x |-> 0, y |-> 0]

\* The newest sample is the reference itself: its slot is the last one and is
\* never written.
HwInv ==
  /\ hw_ref \in Int /\ local_ref \in Int /\ n_samples \in 0..MaxSamples /\ valid_coefs \in BOOLEAN
  /\ data \in [Slots -> [x : Int, y : Int]] /\ data[MaxSamples - 1] = Zero
  /\ taken \in Seq(Int \X Int) /\ Len(taken) = n_samples
  /\ \A k \in 1..n_samples :
        taken[k] = <<hw_ref + data[MaxSamples - n_samples + k - 1].y,
                     local_ref + data[MaxSamples - n_samples + k - 1].x>>
  /\ \A k \in 2..n_samples : taken[k - 1][1] < taken[k][1]
  /\ valid_coefs => n_samples >= 2

LEMMA HwStart ==
  ASSUME HwInit
  PROVE  HwInv
<1> USE HwAssumption
<1>1. taken \in Seq(Int \X Int) /\ Len(taken) = 0
  BY DEF HwInit
<1>2. data \in [Slots -> [x : Int, y : Int]] /\ data[MaxSamples - 1] = Zero
  BY DEF HwInit, Slots, Zero
<1>3. /\ hw_ref = 0 /\ local_ref = 0 /\ n_samples = 0 /\ valid_coefs = FALSE
      /\ n_samples \in 0..MaxSamples /\ 1..n_samples = {} /\ 2..n_samples = {} /\ hw_ref \in Int /\ local_ref \in Int
  BY DEF HwInit
<1> QED BY <1>1, <1>2, <1>3, Zenon DEF HwInv

\* What the regression leaves is no more than it was given, and a valid line
\* keeps two samples.
LEMMA FittedBounds ==
  ASSUME NEW n \in Nat \ {0}, NEW fit \in Fits(n), NEW bad \in BOOLEAN
  PROVE  /\ Fitted(n, fit, bad)[1] \in 0..n /\ Fitted(n, fit, bad)[2] \in BOOLEAN
         /\ Fitted(n, fit, bad)[2] => Fitted(n, fit, bad)[1] >= 2
         /\ n = 1 => Fitted(n, fit, bad)[1] = 1
<1> USE HwAssumption
<1>1. fit \in Int /\ (fit # NoLine => n >= 2 /\ fit >= 0 /\ n - fit >= 2)
  BY DEF Fits, NoLine
<1>2. CASE fit = NoLine
  BY <1>2 DEF Fitted
<1>3. CASE fit # NoLine /\ bad
  BY <1>1, <1>3 DEF Fitted
<1>4. CASE fit # NoLine /\ ~ bad
  <2>1. Min({fit, n - MinSamples}) = IF fit <= n - MinSamples THEN fit ELSE n - MinSamples
    BY <1>1, MinPair
  <2>2. Fitted(n, fit, bad) = <<IF n > MinSamples THEN n - Min({fit, n - MinSamples}) ELSE n, TRUE>>
    BY <1>4, Zenon DEF Fitted
  <2> QED BY <1>1, <1>4, <2>1, <2>2
<1> QED BY <1>2, <1>3, <1>4

LEMMA AccumulateKeeps ==
  ASSUME HwInv, NEW hw \in HwTimes, NEW local \in LocalTimes, AccumulateSample(hw, local)
  PROVE  HwInv'
<1> USE HwAssumption
<1> DEFINE kept == Kept(hw, local)
           n == kept + 1
           all == Append(IF kept = 0 THEN <<>> ELSE taken, <<hw, local>>)
<1>1. /\ hw \in Int /\ local \in Int /\ hw_ref \in Int /\ local_ref \in Int /\ n_samples \in 0..MaxSamples
      /\ taken \in Seq(Int \X Int) /\ Len(taken) = n_samples
      /\ data \in [Slots -> [x : Int, y : Int]] /\ data[MaxSamples - 1] = Zero
  BY DEF HwInv
<1>2. kept \in 0..(MaxSamples - 1) /\ kept <= n_samples /\ (kept # 0 => hw > hw_ref)
  BY <1>1 DEF Kept
<1>3. PICK fit \in Fits(n), bad \in BOOLEAN :
        /\ data' = ShiftedData(kept, hw - hw_ref, local - local_ref)
        /\ n_samples' = Fitted(n, fit, bad)[1]
        /\ valid_coefs' = Fitted(n, fit, bad)[2]
        /\ hw_ref' = hw /\ local_ref' = local
        /\ taken' = SubSeq(all, Max({1, Len(all) - n_samples' + 1}), Len(all))
  BY DEF AccumulateSample
<1> HIDE DEF kept
<1>4. /\ n_samples' \in 0..n /\ valid_coefs' \in BOOLEAN /\ (valid_coefs' => n_samples' >= 2)
      /\ n = 1 => n_samples' = 1
  BY <1>2, <1>3, FittedBounds, SMTT(30)
<1>5. /\ all \in Seq(Int \X Int) /\ Len(all) \in Nat /\ Len(all) >= n /\ all[Len(all)] = <<hw, local>>
      /\ kept # 0 => Len(all) = n_samples + 1 /\ \A k \in 1..n_samples : all[k] = taken[k]
  <2>1. CASE kept = 0
    BY <1>1, <2>1
  <2>2. CASE kept # 0
    <3>1. all = Append(taken, <<hw, local>>) /\ <<hw, local>> \in Int \X Int
      BY <1>1, <2>2
    <3> HIDE DEF all
    <3>2. all \in Seq(Int \X Int) /\ Len(all) = n_samples + 1 /\ all[n_samples + 1] = <<hw, local>>
          /\ \A k \in 1..n_samples : all[k] = taken[k]
      BY <1>1, <3>1, AppendProperties
    <3> QED BY <1>1, <1>2, <3>2
  <2> QED BY <2>1, <2>2, Zenon
<1> DEFINE m == n_samples'
           L == Len(all)
<1>0. /\ m \in Int /\ 0 <= m /\ m <= kept + 1 /\ (kept = 0 => m = 1) /\ (kept # 0 => L = n_samples + 1)
      /\ L \in Int /\ L >= kept + 1 /\ kept \in Int /\ 0 <= kept /\ kept < MaxSamples /\ kept <= n_samples
      /\ n_samples \in Int /\ n_samples <= MaxSamples
  BY <1>1, <1>2, <1>4, <1>5
<1> HIDE DEF all, m, L
<1>6. taken' = SubSeq(all, L - m + 1, L)
  <2>1. L - m + 1 >= 1
    BY <1>0
  <2>2. Max({1, L - m + 1}) = L - m + 1
    BY <1>0, <2>1, MaxPair
  <2> QED BY <1>3, <2>2, Zenon DEF m, L
<1>7. /\ taken' \in Seq(Int \X Int) /\ Len(taken') = m
      /\ \A k \in 1..m : taken'[k] = all[L - m + k]
  <2>1. L - m + 1 \in 1..L+1
    BY <1>0
  <2>2. L \in 0..Len(all)
    BY <1>5 DEF L
  <2>3. /\ taken' \in Seq(Int \X Int)
        /\ Len(taken') = IF L - m + 1 <= L THEN L - (L - m + 1) + 1 ELSE 0
        /\ \A i \in 1..(L - (L - m + 1) + 1) : taken'[i] = all[(L - m + 1) + i - 1]
    <3>1. \A i \in (L - m + 1)..L : i \in 1..Len(all)
      BY <1>0, <2>1, <2>2
    <3>2. \A i \in (L - m + 1)..L : all[i] \in Int \X Int
      BY <1>5, <3>1, ElementOfSeq
    <3>3. L - m + 1 \in Int /\ L \in Int
      BY <1>0
    <3> QED BY <1>6, <3>2, <3>3, SubSeqProperties
  <2>4. L - (L - m + 1) + 1 = m /\ \A i \in Int : (L - m + 1) + i - 1 = L - m + i
    BY <1>0
  <2> QED BY <1>0, <2>3, <2>4
<1>8. data' \in [Slots -> [x : Int, y : Int]] /\ data'[MaxSamples - 1] = Zero
  <2>1. \A i \in Slots : i + 1 \in (MaxSamples - kept)..(MaxSamples - 1) => i + 1 \in Slots
    BY <1>2 DEF Slots
  <2>2. MaxSamples - 1 \in Slots
    BY DEF Slots
  <2>3. MaxSamples - 1 + 1 \notin (MaxSamples - kept)..(MaxSamples - 1)
    BY <1>0
  <2>4. data'[MaxSamples - 1] = Zero
    BY <1>1, <1>3, <2>2, <2>3, Zenon DEF ShiftedData
  <2>5. \A i, j \in Slots : /\ data[i].x - (local - local_ref) \in Int /\ data[i].y - (hw - hw_ref) \in Int
                          /\ data[i] \in [x : Int, y : Int]
    BY <1>1
  <2>6. data' \in [Slots -> [x : Int, y : Int]]
    BY <1>3, <2>1, <2>5 DEF ShiftedData
  <2> QED BY <2>4, <2>6
<1>9. ASSUME NEW k \in 1..m, k # m
      PROVE  /\ kept # 0 /\ L - m + k \in 1..n_samples
             /\ taken'[k] = taken[L - m + k]
             /\ data'[MaxSamples - m + k - 1] =
                  [x |-> data[MaxSamples - m + k].x - (local - local_ref),
                   y |-> data[MaxSamples - m + k].y - (hw - hw_ref)]
  <2>1. kept # 0
    BY <1>0, <1>9
  <2>2. L = n_samples + 1 /\ L - m + k \in 1..n_samples
    BY <1>0, <1>9, <2>1
  <2>3. taken'[k] = taken[L - m + k]
    BY <1>5, <1>7, <2>1, <2>2, Zenon
  <2>4. MaxSamples - m + k - 1 \in Slots /\ (MaxSamples - m + k - 1) + 1 \in (MaxSamples - kept)..(MaxSamples - 1)
        /\ (MaxSamples - m + k - 1) + 1 = MaxSamples - m + k
    BY <1>0, <1>9, <2>1 DEF Slots
  <2>5. data'[MaxSamples - m + k - 1] =
                  [x |-> data[(MaxSamples - m + k - 1) + 1].x - (local - local_ref),
                   y |-> data[(MaxSamples - m + k - 1) + 1].y - (hw - hw_ref)]
    BY <1>3, <2>4, Zenon DEF ShiftedData
  <2> QED BY <2>1, <2>2, <2>3, <2>4, <2>5
<1>10. m # 0 => taken'[m] = <<hw, local>>
  <2>1. L - m + m = L /\ (m # 0 => m \in 1..m)
    BY <1>0
  <2> QED BY <1>5, <1>7, <2>1 DEF L
<1>11. ASSUME NEW k \in 1..m
       PROVE  taken'[k] = <<hw + data'[MaxSamples - m + k - 1].y, local + data'[MaxSamples - m + k - 1].x>>
  <2>1. CASE k = m
    <3>1. MaxSamples - m + k - 1 = MaxSamples - 1
      BY <1>0, <2>1
    <3>2. data'[MaxSamples - m + k - 1].y = 0 /\ data'[MaxSamples - m + k - 1].x = 0
      BY <1>8, <3>1 DEF Zero
    <3> QED BY <1>1, <1>10, <2>1, <3>2
  <2>2. CASE k # m
    <3>1. MaxSamples - n_samples + (L - m + k) - 1 = MaxSamples - m + k
      BY <1>0, <1>9, <2>2
    <3>2. taken[L - m + k] = <<hw_ref + data[MaxSamples - m + k].y, local_ref + data[MaxSamples - m + k].x>>
      BY <1>9, <2>2, <3>1, Zenon DEF HwInv
    <3>3. MaxSamples - m + k \in Slots
      BY <1>0, <1>9, <2>2 DEF Slots
    <3>4. data[MaxSamples - m + k].x \in Int /\ data[MaxSamples - m + k].y \in Int
      BY <1>1, <3>3
    <3>5. /\ data'[MaxSamples - m + k - 1].x = data[MaxSamples - m + k].x - (local - local_ref)
          /\ data'[MaxSamples - m + k - 1].y = data[MaxSamples - m + k].y - (hw - hw_ref)
      <4>1. data'[MaxSamples - m + k - 1] =
                  [x |-> data[MaxSamples - m + k].x - (local - local_ref),
                   y |-> data[MaxSamples - m + k].y - (hw - hw_ref)]
        BY <1>9, <2>2, Zenon
      <4> QED BY <4>1
    <3>6. /\ hw + data'[MaxSamples - m + k - 1].y = hw_ref + data[MaxSamples - m + k].y
          /\ local + data'[MaxSamples - m + k - 1].x = local_ref + data[MaxSamples - m + k].x
      BY <1>1, <3>4, <3>5, SMTT(30)
    <3> QED BY <1>9, <2>2, <3>2, <3>6, Zenon
  <2> QED BY <2>1, <2>2
<1>12. ASSUME NEW k \in 2..m
       PROVE  taken'[k - 1][1] < taken'[k][1]
  <2>1. k - 1 \in 1..m /\ k - 1 # m
    BY <1>0
  <2>2. kept # 0 /\ L - m + (k - 1) \in 1..n_samples /\ taken'[k - 1] = taken[L - m + (k - 1)] /\ L = n_samples + 1
    BY <1>0, <1>9, <2>1, Zenon
  <2>3. CASE k = m
    <3>1. L - m + (k - 1) = n_samples
      BY <1>0, <2>2, <2>3
    <3>2. taken[n_samples] = <<hw_ref + data[MaxSamples - n_samples + n_samples - 1].y,
                     local_ref + data[MaxSamples - n_samples + n_samples - 1].x>>
      BY <2>2, <3>1, Zenon DEF HwInv
    <3>3. data[MaxSamples - n_samples + n_samples - 1] = Zero
      <4>1. MaxSamples - n_samples + n_samples - 1 = MaxSamples - 1
        BY <1>1
      <4> QED BY <1>1, <4>1
    <3>4. taken[n_samples][1] = hw_ref
      BY <1>1, <3>2, <3>3 DEF Zero
    <3> QED BY <1>2, <1>10, <2>2, <2>3, <3>1, <3>4
  <2>4. CASE k # m
    <3>1. k \in 1..m /\ taken'[k] = taken[L - m + k] /\ L - m + k \in 2..n_samples
      <4>1. k \in 1..m /\ L - m + k \in 2..n_samples
        BY <1>0, <2>2, <2>4
      <4> QED BY <1>9, <2>4, <4>1, Zenon
    <3>2. L - m + (k - 1) = (L - m + k) - 1
      BY <1>0, <2>2
    <3> QED BY <2>2, <3>1, <3>2 DEF HwInv
  <2> QED BY <2>3, <2>4
<1>13. m \in 0..MaxSamples
  BY <1>0
<1>14. hw_ref' = hw /\ local_ref' = local
  BY <1>3
<1> QED BY <1>1, <1>4, <1>7, <1>8, <1>11, <1>12, <1>13, <1>14, Zenon DEF HwInv, m

LEMMA HandleSlewKeeps ==
  ASSUME HwInv, NEW s \in Steps, HandleSlew(s)
  PROVE  HwInv'
<1> USE HwAssumption
<1>1. /\ s \in Int /\ hw_ref \in Int /\ local_ref \in Int /\ n_samples \in 0..MaxSamples
      /\ taken \in Seq(Int \X Int) /\ Len(taken) = n_samples
      /\ data \in [Slots -> [x : Int, y : Int]]
  BY DEF HwInv
<1>2. UNCHANGED <<hw_ref, data, n_samples, valid_coefs>>
  BY DEF HandleSlew
<1>3. \A k \in 1..n_samples : taken[k] \in Int \X Int
  BY <1>1, ElementOfSeq
<1>4. taken' = [i \in 1..n_samples |-> <<taken[i][1], taken[i][2] - s>>]
  BY <1>1 DEF HandleSlew
<1>5. \A k \in 1..n_samples : <<taken[k][1], taken[k][2] - s>> \in Int \X Int
  BY <1>1, <1>3
<1>6. taken' \in Seq(Int \X Int) /\ Len(taken') = n_samples
  <2>1. taken' \in [1..n_samples -> Int \X Int]
    BY <1>4, <1>5
  <2> QED BY <1>1, <2>1, LenProperties, IsASeq
<1>7. local_ref' \in Int /\ (n_samples # 0 => local_ref' = local_ref - s)
  BY <1>1 DEF HandleSlew, Rebased
<1>8. ASSUME NEW k \in 1..n_samples
      PROVE  /\ taken'[k] = <<hw_ref + data[MaxSamples - n_samples + k - 1].y,
                              local_ref' + data[MaxSamples - n_samples + k - 1].x>>
             /\ taken'[k][1] = taken[k][1]
  <2> DEFINE d == data[MaxSamples - n_samples + k - 1]
  <2>1. MaxSamples - n_samples + k - 1 \in Slots
    BY <1>1 DEF Slots
  <2>2. d.x \in Int /\ d.y \in Int
    BY <1>1, <2>1
  <2>3. taken[k] = <<hw_ref + d.y, local_ref + d.x>>
    BY Zenon DEF HwInv
  <2>4. taken'[k] = <<taken[k][1], taken[k][2] - s>>
    BY <1>4
  <2> HIDE DEF d
  <2>5. (local_ref + d.x) - s = (local_ref - s) + d.x
    BY <1>1, <2>2
  <2>6. n_samples # 0
    BY <1>1
  <2> QED BY <1>7, <2>3, <2>4, <2>5, <2>6 DEF d
<1>9. \A k \in 2..n_samples : taken'[k - 1][1] < taken'[k][1]
  <2> SUFFICES ASSUME NEW k \in 2..n_samples PROVE taken'[k - 1][1] < taken'[k][1]
    OBVIOUS
  <2>1. k \in 1..n_samples /\ k - 1 \in 1..n_samples
    BY <1>1
  <2> QED BY <1>8, <2>1 DEF HwInv
<1> QED BY <1>1, <1>2, <1>6, <1>7, <1>8, <1>9, Zenon DEF HwInv

\* The register of a hardware clock holds the samples it was given since it was
\* last emptied, in today's local time, and a line is used only while two
\* samples or more of ascending hardware time stand behind it.
THEOREM HwTheorem == HwSpec => []HwSound
<1>1. HwInv => HwSound
  <2> SUFFICES ASSUME HwInv PROVE HwSamplesExact /\ HwLineBacked
    BY DEF HwSound
  <2>1. HwSamplesExact
    BY DEF HwInv, HwSamplesExact
  <2>2. ASSUME valid_coefs PROVE taken[n_samples] = <<hw_ref, local_ref>>
    <3>1. n_samples \in 1..n_samples /\ MaxSamples - n_samples + n_samples - 1 = MaxSamples - 1
      BY <2>2, HwAssumption DEF HwInv
    <3> QED BY <3>1 DEF HwInv, Zero
  <2>3. HwLineBacked
    BY <2>2 DEF HwInv, HwLineBacked
  <2> QED BY <2>1, <2>3
<1>2. HwInit => HwInv
  BY HwStart
<1>3. HwInv /\ [HwNext]_hwvars => HwInv'
  <2>1. ASSUME HwInv, UNCHANGED hwvars PROVE HwInv'
    <3>1. UNCHANGED <<hw_ref, local_ref, data, n_samples, valid_coefs, taken>>
      BY <2>1 DEF hwvars
    <3> QED BY <2>1, <3>1, Zenon DEF HwInv
  <2>2. HwInv /\ HwNext => HwInv'
    BY AccumulateKeeps, HandleSlewKeeps DEF HwNext
  <2> QED BY <2>1, <2>2
<1> QED BY <1>1, <1>2, <1>3, PTL DEF HwSpec

-----------------------------------------------------------------------------
(* The exchange with the sources (NtpSourceManager).                       *)

\* The calls and the samples NtpMeasuredSound allows.
SoundCalls == {c \in Calls : c.src \notin Denied /\ c.t1 <= c.t4 /\ (c.first => c.origin \in {None, c.t1})}
SoundSamples == {s \in Samples : s.src \notin Denied}

Requests == [to : Srcs, t1 : 1..MaxTime]

\* A source whose packets are refused is never heard, and no request is sent
\* while a drain uses its receive time.
NtpInv ==
  /\ now \in 1..MaxTime /\ drain \in 0..now
  /\ mode \in [Srcs -> {"client", "active"}] /\ Denied \subseteq Srcs
  /\ entry \in [Srcs -> Entries]
  /\ \A i \in Srcs : entry[i].t1 <= now /\ entry[i].polled <= now
  /\ drain # None => \A i \in Srcs : entry[i].t1 <= drain
  /\ \A i \in Denied : ~ entry[i].got /\ entry[i].reach = 0
  /\ requests \subseteq Requests /\ net \subseteq Packets
  /\ handed \in Seq(SoundCalls) /\ results \in Seq(SoundSamples)

LEMMA NtpStart ==
  ASSUME NtpInit
  PROVE  NtpInv
<1> USE NtpAssumption
<1> DEFINE e0 == [t1 |-> None, polled |-> None, saved_rx |-> FALSE,
                  got |-> FALSE, reach |-> 0, reach_size |-> 0, stratum |-> 16]
<1>1. e0 \in Entries
  BY DEF Entries, None
<1>2. \A i \in Srcs : entry[i] = e0
  BY DEF NtpInit
<1>3. entry \in [Srcs -> Entries]
  BY <1>1 DEF NtpInit
<1>4. handed \in Seq(SoundCalls) /\ results \in Seq(SoundSamples)
  BY DEF NtpInit
<1> QED BY <1>2, <1>3, <1>4 DEF NtpInit, NtpInv, None

\* The register stays in its bits, and stays empty while nothing is heard.
LEMMA ShiftedEntry ==
  ASSUME NEW e \in Entries
  PROVE  /\ Shifted(e) \in Entries
         /\ Shifted(e).got = FALSE /\ Shifted(e).t1 = e.t1 /\ Shifted(e).polled = e.polled
         /\ ~ e.got /\ e.reach = 0 => Shifted(e).reach = 0
<1> USE NtpAssumption
<1> DEFINE M == 2^ReachBits
           b == IF e.got THEN 1 ELSE 0
           r == (2 * e.reach + b) % M
<1>1. M \in Nat \ {0} /\ b \in 0..1 /\ e.reach \in Nat
  BY DEF Entries
<1> HIDE DEF M, b
<1>2. r \in 0..(M - 1) /\ (e.reach = 0 /\ b = 0 => r = 0)
  BY <1>1
<1>3. Shifted(e) = [e EXCEPT !.got = FALSE, !.reach = r,
                             !.reach_size = IF e.reach_size < ReachBits THEN e.reach_size + 1 ELSE e.reach_size]
  BY DEF Shifted, M, b
<1> DEFINE z == IF e.reach_size < ReachBits THEN e.reach_size + 1 ELSE e.reach_size
<1>4. z \in 0..ReachBits
  BY DEF Entries
<1>5. Shifted(e) = [e EXCEPT !.got = FALSE, !.reach = r, !.reach_size = z]
  BY <1>3
<1> HIDE DEF r, z
<1>6. r \in 0..(2^ReachBits - 1)
  BY <1>2 DEF M
<1>7. Shifted(e) \in Entries
  BY <1>4, <1>5, <1>6, Zenon DEF Entries
<1>8. Shifted(e).got = FALSE /\ Shifted(e).t1 = e.t1 /\ Shifted(e).polled = e.polled /\ Shifted(e).reach = r
  BY <1>5 DEF Entries
<1>9. ~ e.got => b = 0
  BY DEF b
<1> QED BY <1>2, <1>7, <1>8, <1>9

LEMMA PollKeeps ==
  ASSUME NtpInv, NEW i \in Srcs, NEW sent \in BOOLEAN, PollSource(i, sent)
  PROVE  NtpInv'
<1> USE NtpAssumption
<1> DEFINE e == [Polled(entry[i], sent) EXCEPT !.polled = now]
<1>1. entry[i] \in Entries
  BY DEF NtpInv
<1>2. /\ e \in Entries /\ e.t1 <= now /\ e.polled <= now /\ e.got = FALSE
      /\ ~ entry[i].got /\ entry[i].reach = 0 => e.reach = 0
  <2> DEFINE s == Shifted(entry[i])
  <2>1. /\ s \in Entries /\ s.got = FALSE /\ s.t1 = entry[i].t1
        /\ ~ entry[i].got /\ entry[i].reach = 0 => s.reach = 0
    BY <1>1, ShiftedEntry, Zenon
  <2>2. e = [(IF sent THEN [s EXCEPT !.t1 = now] ELSE s) EXCEPT !.polled = now]
    BY DEF Polled
  <2> HIDE DEF s, e
  <2>3. now \in 1..MaxTime /\ entry[i].t1 <= now
    BY DEF NtpInv
  <2>4. CASE sent
    <3>1. e = [s EXCEPT !.t1 = now, !.polled = now]
      BY <2>1, <2>2, <2>4 DEF Entries
    <3>2. now \in 0..MaxTime /\ now <= now
      BY <2>3
    <3>3. e \in Entries
      BY <2>1, <3>1, <3>2, Zenon DEF Entries
    <3>4. e.t1 = now /\ e.polled = now /\ e.got = s.got /\ e.reach = s.reach
      BY <2>1, <3>1 DEF Entries
    <3> QED BY <2>1, <3>2, <3>3, <3>4
  <2>5. CASE ~ sent
    BY <2>1, <2>2, <2>3, <2>5 DEF Entries
  <2> QED BY <2>4, <2>5, Zenon
<1>3. entry' = [entry EXCEPT ![i] = e]
  BY DEF PollSource
<1> HIDE DEF e
<1>4. entry' \in [Srcs -> Entries] /\ entry'[i] = e /\ \A j \in Srcs : j # i => entry'[j] = entry[j]
  BY <1>2, <1>3 DEF NtpInv
<1>5. requests' \subseteq Requests
  BY DEF PollSource, NtpInv, Requests
<1>6. drain = None /\ UNCHANGED <<mode, Denied, now, net, drain, handed, results>>
  BY DEF PollSource, confvars
<1>7. SoundCalls' = SoundCalls /\ SoundSamples' = SoundSamples
  BY <1>6 DEF SoundCalls, SoundSamples
<1> QED BY <1>2, <1>4, <1>5, <1>6, <1>7, Zenon DEF NtpInv

\* One packet of the drain.
LEMMA ProcessKeeps ==
  ASSUME NtpInv, drain # None, NEW p \in Packets, Process(p), UNCHANGED <<now, drain>>
  PROVE  /\ entry' \in [Srcs -> Entries]
         /\ \A j \in Srcs : entry'[j].t1 = entry[j].t1 /\ entry'[j].polled = entry[j].polled
         /\ \A j \in Denied : entry'[j] = entry[j]
         /\ handed' \in Seq(SoundCalls) /\ results' \in Seq(SoundSamples)
<1> USE NtpAssumption
<1> DEFINE i == p.from
           e == entry[i]
           h == Heard(e, p)
           c == Call(i, e, p)
<1>1. i \in Srcs /\ e \in Entries /\ p.origin \in 0..MaxTime /\ p.good \in BOOLEAN
  BY DEF Packets, NtpInv
<1>2. h \in Entries /\ h.t1 = e.t1 /\ h.polled = e.polled
  BY <1>1, Zenon DEF Heard, Entries
<1>3. [h EXCEPT !.saved_rx = TRUE] \in Entries
  BY <1>2, ZenonT(60) DEF Entries
<1>4. drain \in 1..MaxTime /\ e.t1 <= drain
  BY <1>1 DEF NtpInv, None
<1>5. c \in Calls /\ c.src = i /\ c.t1 = e.t1 /\ c.t4 = drain /\ (c.first => ~ e.saved_rx) /\ c.origin = p.origin
  BY <1>1, <1>4, Zenon DEF Call, Calls, Entries
<1>6. /\ handed \in Seq(SoundCalls) /\ results \in Seq(SoundSamples)
      /\ entry \in [Srcs -> Entries]
  BY DEF NtpInv
<1>7. CASE UNCHANGED <<entry, handed, results>>
  BY <1>6, <1>7
<1>8. CASE /\ i \notin Denied /\ UNCHANGED <<entry, handed>>
           /\ results' = Append(results, [src |-> i, t1 |-> None, t4 |-> drain, broadcast |-> TRUE])
  <2>1. [src |-> i, t1 |-> None, t4 |-> drain, broadcast |-> TRUE] \in SoundSamples
    BY <1>1, <1>4, <1>8 DEF SoundSamples, Samples, None
  <2> QED BY <1>6, <1>8, <2>1, AppendProperties
<1>9. CASE i \notin Denied /\ entry' = [entry EXCEPT ![i] = h] /\ UNCHANGED <<handed, results>>
  <2> HIDE DEF h
  <2> QED BY <1>1, <1>2, <1>6, <1>9
<1>10. CASE /\ i \notin Denied /\ OriginAccepted(e, p)
            /\ entry' = [entry EXCEPT ![i] = [h EXCEPT !.saved_rx = TRUE]]
            /\ handed' = Append(handed, c) /\ results' = results \o HandleResponse(c)
  <2>1. c \in SoundCalls
    BY <1>1, <1>4, <1>5, <1>10, SMTT(30) DEF SoundCalls, OriginAccepted
  <2>2. HandleResponse(c) \in Seq(SoundSamples)
    <3>1. [src |-> c.src, t1 |-> c.t1, t4 |-> c.t4, broadcast |-> FALSE] \in SoundSamples
      BY <2>1 DEF SoundCalls, Calls, SoundSamples, Samples
    <3> HIDE DEF c
    <3> QED BY <3>1, SMTT(30) DEF HandleResponse
  <2> DEFINE h2 == [h EXCEPT !.saved_rx = TRUE]
  <2>3. h2 \in Entries /\ h2.t1 = e.t1 /\ h2.polled = e.polled
    BY <1>2, <1>3 DEF Entries
  <2>4. handed' \in Seq(SoundCalls) /\ results' \in Seq(SoundSamples)
    BY <1>6, <1>10, <2>1, <2>2, AppendProperties, ConcatProperties
  <2>5. entry' = [entry EXCEPT ![i] = h2]
    BY <1>10
  <2> HIDE DEF h2, h, c
  <2>6. entry' \in [Srcs -> Entries]
    BY <1>6, <2>3, <2>5, Zenon
  <2>7. \A j \in Srcs : entry'[j] = IF j = i THEN h2 ELSE entry[j]
    BY <1>6, <2>5, Zenon
  <2>8. \A j \in Denied : j # i /\ j \in Srcs
    BY <1>10 DEF NtpInv
  <2> QED BY <2>3, <2>4, <2>6, <2>7, <2>8
<1> HIDE DEF h, c
<1> QED BY <1>7, <1>8, <1>9, <1>10 DEF Process, h, c

LEMMA NtpStep ==
  ASSUME NtpInv, [NtpNext]_ntpvars
  PROVE  NtpInv'
<1> USE NtpAssumption
<1>1. UNCHANGED <<mode, Denied>>
  <2>1. CASE UNCHANGED ntpvars
    BY <2>1 DEF ntpvars
  <2>2. CASE NtpNext
    BY <2>2, Zenon DEF NtpNext, PollSource, Tick, SourceAnswers, PeerPolls, Broadcasts, Lose, ReceiveAll, Receive, DrainEnds, confvars
  <2> QED BY <2>1, <2>2
<1>2. SoundCalls' = SoundCalls /\ SoundSamples' = SoundSamples
  BY <1>1 DEF SoundCalls, SoundSamples
<1>3. CASE UNCHANGED ntpvars
  BY <1>2, <1>3 DEF ntpvars, NtpInv
<1>4. ASSUME NEW i \in Srcs, NEW sent \in BOOLEAN, PollSource(i, sent)
      PROVE  NtpInv'
  BY <1>4, PollKeeps
<1>5. CASE Tick
  <2>1. now \in Int /\ drain \in 0..now /\ now' \in 1..MaxTime /\ now <= now' /\ UNCHANGED <<entry, requests, net, drain, handed, results>>
    BY <1>5 DEF Tick, NtpInv
  <2>2. \A i \in Srcs : entry[i].t1 \in Int /\ entry[i].polled \in Int /\ entry[i].t1 <= now /\ entry[i].polled <= now
    BY DEF NtpInv, Entries
  <2>3. \A i \in Srcs : entry'[i].t1 <= now' /\ entry'[i].polled <= now'
    BY <2>1, <2>2
  <2>4. drain' \in 0..now'
    BY <2>1
  <2> QED BY <1>1, <1>2, <2>1, <2>3, <2>4, Zenon DEF NtpInv
<1>6. ASSUME NEW p \in Packets, Emit(p), requests' \subseteq requests,
             UNCHANGED <<now, entry, drain, handed, results>>
      PROVE  NtpInv'
  BY <1>1, <1>2, <1>6, SMTT(30) DEF Emit, NtpInv
<1>7. ASSUME NEW r \in requests, NEW good \in BOOLEAN, SourceAnswers(r, good)
      PROVE  NtpInv'
  <2>1. PICK m \in {"passive", "server"} :
          Emit([from |-> r.to, mode |-> m, origin |-> r.t1, good |-> good])
    BY <1>7 DEF SourceAnswers
  <2>2. [from |-> r.to, mode |-> m, origin |-> r.t1, good |-> good] \in Packets
    BY DEF NtpInv, Requests, Packets
  <2> QED BY <1>6, <1>7, <2>1, <2>2, SMTT(30) DEF SourceAnswers
<1>8. ASSUME NEW i \in Srcs, PeerPolls(i) \/ Broadcasts(i)
      PROVE  NtpInv'
  <2>1. /\ [from |-> i, mode |-> "active", origin |-> None, good |-> TRUE] \in Packets
        /\ [from |-> i, mode |-> "broadcast", origin |-> None, good |-> TRUE] \in Packets
    BY DEF Packets, None
  <2> QED BY <1>6, <1>8, <2>1 DEF PeerPolls, Broadcasts
<1>9. CASE Lose
  BY <1>1, <1>2, <1>9 DEF Lose, NtpInv
<1>10. CASE ReceiveAll
  <2>1. handed' \in Seq(SoundCalls) /\ results' \in Seq(SoundSamples)
    BY <1>10 DEF ReceiveAll
  <2> QED BY <1>1, <1>2, <1>10, <2>1 DEF ReceiveAll, NtpInv
<1>11. ASSUME NEW p \in net, NEW copy \in BOOLEAN, Receive(p, copy)
       PROVE  NtpInv'
  <2>1. p \in Packets /\ net' \subseteq Packets /\ drain # None /\ Process(p) /\ UNCHANGED <<now, drain, requests>>
    BY <1>11, Zenon DEF Receive, NtpInv
  <2>2. /\ entry' \in [Srcs -> Entries]
        /\ \A j \in Srcs : entry'[j].t1 = entry[j].t1 /\ entry'[j].polled = entry[j].polled
        /\ \A j \in Denied : entry'[j] = entry[j]
        /\ handed' \in Seq(SoundCalls) /\ results' \in Seq(SoundSamples)
    BY <2>1, ProcessKeeps
  <2> QED BY <1>1, <1>2, <2>1, <2>2, Zenon DEF NtpInv
<1>12. CASE DrainEnds
  <2>1. handed' \in Seq(SoundCalls) /\ results' \in Seq(SoundSamples)
    BY <1>12 DEF DrainEnds
  <2> QED BY <1>1, <1>2, <1>12, <2>1 DEF DrainEnds, NtpInv, None
<1> QED BY <1>3, <1>4, <1>5, <1>7, <1>8, <1>9, <1>10, <1>11, <1>12 DEF NtpNext

\* Whatever the network loses, delays, reorders or copies, receive_all hands
\* handle_response no response of a refused source and none that is older than
\* the request it is measured against, and the first response of a source
\* answers the latest request.
THEOREM NtpMeasuredTheorem == NtpSpec => [](NtpTypeOK /\ NtpMeasuredSound)
<1>1. NtpInv => NtpTypeOK /\ NtpMeasuredSound
  <2> SUFFICES ASSUME NtpInv PROVE NtpTypeOK /\ NtpMeasuredSound
    OBVIOUS
  <2>1. \A k \in DOMAIN handed : handed[k] \in SoundCalls
    BY ElementOfSeq DEF NtpInv
  <2>2. \A k \in DOMAIN results : results[k] \in SoundSamples
    BY ElementOfSeq, SMTT(30) DEF NtpInv
  <2>3. NtpTypeOK
    BY <2>1, <2>2 DEF NtpInv, NtpTypeOK, SoundCalls, SoundSamples
  <2>4. NtpMeasuredSound
    BY <2>1, <2>2 DEF NtpInv, NtpMeasuredSound, SoundCalls, SoundSamples
  <2> QED BY <2>3, <2>4
<1>2. NtpInit => NtpInv
  BY NtpStart
<1>3. NtpInv /\ [NtpNext]_ntpvars => NtpInv'
  BY NtpStep
<1> QED BY <1>1, <1>2, <1>3, PTL DEF NtpSpec

-----------------------------------------------------------------------------
(* An association: limits of the poll interval, connectivity, timestamps   *)
(* (NtpInstance).                                                          *)

\* The limits as modify_minpoll and modify_maxpoll leave them.
Params == [minpoll : MinPoll..MaxPoll, maxpoll : MinPoll..MaxPoll, mode : {"client", "active"}, nonlan : BOOLEAN]

ParInv == par \in Params /\ par.minpoll <= par.maxpoll

PollInv == poll \in [local : Int, score : 0..Unit]

TxInv ==
  /\ tx \in [local : 0..MaxSent, shift : Int, ntp : 0..MaxSent]
  /\ shift \in -MaxShift..MaxShift
  /\ InstTxOfLatest

HistInv == hist \in [online : BOOLEAN, sent : 0..MaxSent, moved : Int, due : Int, slews : Nat]

ModeInv ==
  /\ opmode \in {"Offline", "Online", "BurstWasOffline", "BurstWasOnline"}
  /\ InstConnectivityKept

\* In an epoch that both sides know, the offset the server states is what the
\* client has of it and what the clock was set back by since.
MonoInv ==
  /\ mono \in [epoch : Nat, monorx : Int, rx : Int, doffset : Int]
  /\ srv \in [clock : -MaxShift..MaxShift, offset : Int, epoch : Nat \ {0}]
  /\ srv.clock + srv.offset \in -MaxShift..MaxShift
  /\ mono.epoch <= srv.epoch
  /\ mono.epoch = srv.epoch => mono.monorx # 0 /\ srv.offset = mono.monorx - mono.rx + hist.moved
  /\ InstMonoExact

InstInv == ParInv /\ PollInv /\ TxInv /\ HistInv /\ ModeInv /\ MonoInv

\* Division by the unit, as TLC and Rust compute it for naturals.
LEMMA DivMod ==
  ASSUME NEW x \in Nat
  PROVE  x \div Unit \in Nat /\ x - Unit * (x \div Unit) \in 0..(Unit - 1)
BY InstAssumption

\* create: whatever limits are configured, they become a range of the polls allowed.
LEMMA ConfigInRange ==
  ASSUME NEW lo \in Int, NEW hi \in Int, NEW m \in {"client", "active"}, NEW b \in BOOLEAN
  PROVE  CreateConfig(lo, hi, m, b) \in Params /\ CreateConfig(lo, hi, m, b).minpoll <= CreateConfig(lo, hi, m, b).maxpoll
BY InstAssumption DEF CreateConfig, Params

\* modify_minpoll and modify_maxpoll keep the limits a range.
LEMMA ModifyInRange ==
  ASSUME NEW p \in Params, p.minpoll <= p.maxpoll, NEW new \in Int, NEW q \in {ModifyMinpoll(p, new), ModifyMaxpoll(p, new)}
  PROVE  q \in Params /\ q.minpoll <= q.maxpoll
<1>1. CASE new \notin MinPoll..MaxPoll
  BY <1>1, Zenon DEF ModifyMinpoll, ModifyMaxpoll
<1>2. CASE new \in MinPoll..MaxPoll
  <2>1. p.minpoll \in Int /\ p.maxpoll \in Int /\ p.minpoll \in MinPoll..MaxPoll /\ p.maxpoll \in MinPoll..MaxPoll
    BY InstAssumption DEF Params
  <2> DEFINE hi == IF p.maxpoll < new THEN new ELSE p.maxpoll
             lo == IF p.minpoll > new THEN new ELSE p.minpoll
  <2>2. hi \in MinPoll..MaxPoll /\ lo \in MinPoll..MaxPoll /\ new <= hi /\ lo <= new
    BY <1>2, <2>1
  <2>3. q = [p EXCEPT !.minpoll = new, !.maxpoll = hi] \/ q = [p EXCEPT !.maxpoll = new, !.minpoll = lo]
    BY <1>2, Zenon DEF ModifyMinpoll, ModifyMaxpoll
  <2> HIDE DEF hi, lo
  <2>4. CASE q = [p EXCEPT !.minpoll = new, !.maxpoll = hi]
    <3>1. q \in Params /\ q.minpoll = new /\ q.maxpoll = hi
      BY <1>2, <2>2, <2>4, Zenon DEF Params
    <3> QED BY <2>2, <3>1
  <2>5. CASE q = [p EXCEPT !.maxpoll = new, !.minpoll = lo]
    <3>1. q \in Params /\ q.minpoll = lo /\ q.maxpoll = new
      BY <1>2, <2>2, <2>5, Zenon DEF Params
    <3> QED BY <2>2, <3>1
  <2> QED BY <2>3, <2>4, <2>5
<1> QED BY <1>1, <1>2

\* adjust_poll: what the score loses the interval gains, whole units at a time.
LEMMA ScoreStays ==
  ASSUME NEW s0 \in Int
  PROVE  LET up == IF s0 >= Unit THEN Trunc(s0) ELSE 0
             s1 == s0 - Unit * up
             down == IF s1 < 0 THEN Trunc(s1 - Unit) ELSE 0
         IN up \in Int /\ down \in Int /\ s1 - Unit * down \in 0..Unit
<1> DEFINE up == IF s0 >= Unit THEN Trunc(s0) ELSE 0
           s1 == s0 - Unit * up
           down == IF s1 < 0 THEN Trunc(s1 - Unit) ELSE 0
<1> USE InstAssumption
<1>1. up \in Int /\ s1 \in Int /\ (s0 >= Unit => s1 \in 0..(Unit - 1)) /\ (s0 < Unit => s1 = s0)
  <2>1. CASE s0 >= Unit
    <3>1. s0 \in Nat /\ up = s0 \div Unit
      BY <2>1 DEF Trunc
    <3> HIDE DEF up
    <3> QED BY <2>1, <3>1, DivMod
  <2>2. CASE s0 < Unit
    BY <2>2
  <2> QED BY <2>1, <2>2
<1> HIDE DEF s1, up
<1>2. CASE s1 < 0
  <2> DEFINE t == Unit - s1
  <2>1. t \in Nat /\ t > Unit /\ s1 - Unit < 0
    BY <1>1, <1>2
  <2>2. -(s1 - Unit) = t
    BY <1>1
  <2>3. down = -(t \div Unit)
    BY <1>1, <1>2, <2>1, <2>2 DEF Trunc
  <2> HIDE DEF t
  <2>4. t \div Unit \in Nat /\ t - Unit * (t \div Unit) \in 0..(Unit - 1)
    BY <2>1, DivMod
  <2> DEFINE k == t \div Unit
             m == Unit * k
  <2>5. down = -k /\ k \in Nat /\ m \in Int /\ t - m \in 0..(Unit - 1) /\ Unit * down = -m
    BY <2>3, <2>4
  <2>6. t = Unit - s1
    BY DEF t
  <2> HIDE DEF k, m, down
  <2> QED BY <1>1, <2>5, <2>6 DEF s1, up, down
<1>3. CASE s1 >= 0
  <2>1. down = 0 /\ s1 \in 0..Unit
    BY <1>1, <1>3
  <2> QED BY <1>1, <2>1 DEF s1, up
<1> QED BY <1>1, <1>2, <1>3

\* adjust_poll leaves the interval inside the limits, or at the floor of a source
\* that is not on the local network.
LEMMA AdjustedPoll ==
  ASSUME ParInv, PollInv, NEW adj \in Int
  PROVE  LET q == AdjustPoll(poll, adj)
         IN /\ q \in [local : Int, score : 0..Unit]
            /\ q.local >= par.minpoll
            /\ q.local <= par.maxpoll \/ (par.nonlan /\ q.local = 0)
<1> USE InstAssumption
<1> DEFINE PollType == [local : Int, score : 0..Unit]
           s0 == poll.score + adj
           up == IF s0 >= Unit THEN Trunc(s0) ELSE 0
           s1 == s0 - Unit * up
           down == IF s1 < 0 THEN Trunc(s1 - Unit) ELSE 0
           l == poll.local + up + down
           s == s1 - Unit * down
           q == IF l < par.minpoll THEN [local |-> par.minpoll, score |-> 0]
                ELSE IF l > par.maxpoll THEN [local |-> par.maxpoll, score |-> Unit]
                ELSE [local |-> l, score |-> s]
<1>1. s0 \in Int /\ poll.local \in Int
  BY DEF PollInv
<1>2. up \in Int /\ down \in Int /\ s \in 0..Unit
  <2> HIDE DEF s0
  <2> QED BY <1>1, ScoreStays
<1>3. par.minpoll \in Int /\ par.maxpoll \in Int /\ par.minpoll <= par.maxpoll /\ par.nonlan \in BOOLEAN
  BY DEF ParInv, Params
<1>4. AdjustPoll(poll, adj) = IF q.local < 0 /\ par.nonlan THEN [q EXCEPT !.local = 0] ELSE q
  BY DEF AdjustPoll
<1> HIDE DEF up, down, s
<1>5. l \in Int
  BY <1>1, <1>2
<1> HIDE DEF l
<1>6. q \in PollType /\ q.local \in par.minpoll..par.maxpoll
  BY <1>2, <1>3, <1>5
<1> HIDE DEF q
<1> DEFINE r == [q EXCEPT !.local = 0]
<1>7. r \in PollType /\ r.local = 0
  BY <1>6
<1> HIDE DEF r
<1>8. AdjustPoll(poll, adj) = IF q.local < 0 /\ par.nonlan THEN r ELSE q
  BY <1>4 DEF r
<1> QED BY <1>3, <1>6, <1>7, <1>8

\* The operations on the poll interval.
LEMMA PollStep ==
  ASSUME InstInv, PollNext
  PROVE  /\ ParInv' /\ PollInv'
         /\ UNCHANGED <<opmode, tx, mono, srv, shift, hist>>
         /\ poll' # poll => par' = par /\ poll'.local >= par.minpoll
                            /\ (poll'.local <= par.maxpoll \/ (par.nonlan /\ poll'.local = 0))
<1> USE InstAssumption DEF InstInv
<1>1. ASSUME NEW new \in (MinPoll - 1)..(MaxPoll + 1), NEW which \in {"min", "max"}, Modify(new, which)
      PROVE  ParInv' /\ UNCHANGED <<poll, opmode, tx, mono, srv, shift, hist>>
  <2>1. new \in Int /\ par' \in {ModifyMinpoll(par, new), ModifyMaxpoll(par, new)}
    BY <1>1 DEF Modify
  <2>2. par' \in Params /\ par'.minpoll <= par'.maxpoll
    BY <2>1, ModifyInRange, Zenon DEF ParInv
  <2> QED BY <1>1, <2>2, Zenon DEF Modify, ParInv
<1>2. ASSUME NEW adj \in Adjustments, ProcessSample(adj)
      PROVE  /\ poll' \in [local : Int, score : 0..Unit] /\ poll'.local >= par.minpoll
             /\ (poll'.local <= par.maxpoll \/ (par.nonlan /\ poll'.local = 0))
             /\ UNCHANGED <<par, opmode, tx, mono, srv, shift, hist>>
  BY <1>2, AdjustedPoll DEF ProcessSample
<1>3. ASSUME ResetPoll
      PROVE  /\ poll' \in [local : Int, score : 0..Unit] /\ poll'.local = par.minpoll /\ par.minpoll <= par.maxpoll
             /\ par.minpoll \in Int
             /\ UNCHANGED <<par, opmode, tx, mono, srv, shift, hist>>
  BY <1>3 DEF ResetPoll, ParInv, Params
<1>4. CASE \E new \in (MinPoll - 1)..(MaxPoll + 1), which \in {"min", "max"} : Modify(new, which)
  BY <1>1, <1>4, Zenon DEF PollInv
<1>5. CASE \E adj \in Adjustments : ProcessSample(adj)
  BY <1>2, <1>5, Zenon DEF PollInv, ParInv
<1>6. CASE ResetPoll
  <2>1. poll'.local >= par.minpoll /\ poll'.local <= par.maxpoll
    BY <1>3, <1>6
  <2> QED BY <1>3, <1>6, <2>1, Zenon DEF PollInv, ParInv
<1> QED BY <1>4, <1>5, <1>6, Zenon DEF PollNext

\* set_connectivity, bursts and their end.
LEMMA ModeStep ==
  ASSUME InstInv, ModeNext
  PROVE  ModeInv' /\ UNCHANGED <<par, poll, tx, mono, srv, shift>> /\ HistInv' /\ hist'.moved = hist.moved /\ hist'.due = hist.due
<1> USE DEF InstInv
<1>1. ASSUME NEW online \in BOOLEAN, Connect(online)
      PROVE  ModeInv' /\ UNCHANGED <<par, poll, tx, mono, srv, shift>> /\ HistInv' /\ hist'.moved = hist.moved /\ hist'.due = hist.due
  <2>1. HistInv' /\ hist'.online = online /\ hist'.moved = hist.moved /\ hist'.due = hist.due
    BY <1>1 DEF Connect, HistInv
  <2>2. opmode' = SetConnectivity(opmode, online) /\ UNCHANGED <<par, poll, tx, mono, srv, shift>>
    BY <1>1 DEF Connect
  <2>3. opmode' \in {"Offline", "Online", "BurstWasOffline", "BurstWasOnline"} /\ (IsOnline(opmode') <=> online)
    BY <2>2 DEF SetConnectivity, IsOnline, ModeInv
  <2> QED BY <2>1, <2>2, <2>3, Zenon DEF ModeInv, InstConnectivityKept, IsOnline
<1>2. CASE InitiateSampleBurst
  BY <1>2 DEF InitiateSampleBurst, ModeInv, InstConnectivityKept, IsOnline, HistInv
<1>3. CASE BurstEnds
  BY <1>3 DEF BurstEnds, ModeInv, InstConnectivityKept, IsOnline, HistInv
<1> QED BY <1>1, <1>2, <1>3, Zenon DEF ModeNext

\* A request, its timestamps and the corrections of the local clock.
LEMMA TxStep ==
  ASSUME InstInv, Transmit \/ (\E req \in 1..MaxSent : TxTimestamp(req)) \/ (\E d \in ServerSlews : LocalSlew(d))
  PROVE  TxInv' /\ HistInv' /\ hist'.moved = hist.moved /\ hist'.due = hist.due /\ hist'.online = hist.online
         /\ UNCHANGED <<par, opmode, poll, mono, srv>>
<1> USE InstAssumption DEF InstInv
<1> DEFINE TxType == [local : 0..MaxSent, shift : Int, ntp : 0..MaxSent]
<1>1. tx \in TxType /\ shift \in -MaxShift..MaxShift /\ shift \in Int /\ (tx.local # 0 => tx.local = tx.ntp /\ tx.shift = shift)
  BY DEF TxInv, InstTxOfLatest
<1>2. CASE Transmit
  <2>1. hist.sent + 1 \in 1..MaxSent /\ hist.sent + 1 \in 0..MaxSent
    BY <1>2 DEF Transmit, HistInv
  <2>2. HistInv' /\ hist'.moved = hist.moved /\ hist'.due = hist.due /\ hist'.online = hist.online
    BY <1>2, <2>1 DEF Transmit, HistInv
  <2>3. tx' \in TxType /\ tx'.local = tx'.ntp /\ tx'.shift = shift
    BY <1>1, <1>2, <2>1 DEF Transmit
  <2> QED BY <1>1, <1>2, <2>2, <2>3, Zenon DEF Transmit, TxInv, InstTxOfLatest
<1>3. ASSUME NEW req \in 1..MaxSent, TxTimestamp(req)
      PROVE  TxInv' /\ UNCHANGED <<hist, par, opmode, poll, mono, srv>>
  <2>1. tx' = UpdateTx(tx, req, shift) /\ UNCHANGED <<shift, hist, par, opmode, poll, mono, srv>>
    BY <1>3 DEF TxTimestamp
  <2>2. CASE tx.local = 0 \/ req # tx.ntp
    BY <1>1, <2>1, <2>2 DEF UpdateTx, TxInv, InstTxOfLatest
  <2>3. CASE ~ (tx.local = 0 \/ req # tx.ntp)
    <3>1. tx' = [tx EXCEPT !.local = req, !.shift = shift] /\ req \in 0..MaxSent
      BY <2>1, <2>3 DEF UpdateTx
    <3>2. tx' \in TxType /\ tx'.local = req /\ tx'.shift = shift /\ tx'.ntp = tx.ntp
      BY <1>1, <3>1, Zenon
    <3> QED BY <1>1, <2>1, <2>3, <3>2, Zenon DEF TxInv, InstTxOfLatest
  <2> QED BY <2>2, <2>3
<1>4. ASSUME NEW d \in ServerSlews, LocalSlew(d)
      PROVE  TxInv' /\ UNCHANGED <<hist, par, opmode, poll, mono, srv>>
  <2>1. d \in Int /\ shift' = shift + d /\ shift' \in -MaxShift..MaxShift /\ tx' = SlewTimes(tx, d)
        /\ UNCHANGED <<hist, par, opmode, poll, mono, srv>>
    BY <1>4 DEF LocalSlew
  <2>2. CASE tx.local = 0
    BY <1>1, <2>1, <2>2 DEF SlewTimes, TxInv, InstTxOfLatest
  <2>3. CASE tx.local # 0
    <3> DEFINE sh == tx.shift + d
    <3>1. sh \in Int /\ sh = shift'
      BY <1>1, <2>1, <2>3
    <3>2. tx' = [tx EXCEPT !.shift = sh]
      BY <2>1, <2>3 DEF SlewTimes
    <3> HIDE DEF sh
    <3>3. tx' \in TxType /\ tx'.local = tx.local /\ tx'.shift = sh /\ tx'.ntp = tx.ntp
      BY <1>1, <3>1, <3>2
    <3> QED BY <1>1, <2>1, <2>3, <3>1, <3>3, Zenon DEF TxInv, InstTxOfLatest
  <2> QED BY <2>2, <2>3
<1> QED BY <1>2, <1>3, <1>4, Zenon DEF HistInv, Transmit

\* reset: everything measured is forgotten.
LEMMA ResetStep ==
  ASSUME InstInv, Reset
  PROVE  TxInv' /\ HistInv' /\ MonoInv' /\ hist'.online = hist.online /\ UNCHANGED <<par, opmode, poll, srv>>
<1> USE InstAssumption DEF InstInv, Reset
<1>1. TxInv'
  BY DEF TxInv, InstTxOfLatest
<1>2. HistInv' /\ hist'.moved = 0 /\ hist'.due = 0 /\ hist'.online = hist.online
  <2>1. hist' = [[hist EXCEPT !.moved = 0] EXCEPT !.due = 0] /\ 0 \in Int
    OBVIOUS
  <2>2. hist \in [online : BOOLEAN, sent : 0..MaxSent, moved : Int, due : Int, slews : Nat]
    BY DEF HistInv
  <2> QED BY <2>1, <2>2, Zenon DEF HistInv
<1>3. mono' \in [epoch : Nat, monorx : Int, rx : Int, doffset : Int] /\ mono'.epoch = 0 /\ mono'.doffset = 0
  BY DEF NoMono
<1>4. srv.epoch \in Nat \ {0} /\ srv' = srv
  BY DEF MonoInv
<1>5. mono'.epoch <= srv'.epoch /\ mono'.epoch # srv'.epoch
  BY <1>3, <1>4
<1> QED BY <1>1, <1>2, <1>3, <1>4, <1>5, Zenon DEF MonoInv, InstMonoExact

\* The server's clock is slewed or stepped.
LEMMA ServerSlewStep ==
  ASSUME InstInv, NEW d \in ServerSlews, NEW kind \in {"Adjust", "Step"}, ServerSlew(kind, d)
  PROVE  HistInv' /\ MonoInv' /\ hist'.online = hist.online /\ UNCHANGED <<par, opmode, poll, tx, shift>>
<1> DEFINE SrvType == [clock : -MaxShift..MaxShift, offset : Int, epoch : Nat \ {0}]
           MonoType == [epoch : Nat, monorx : Int, rx : Int, doffset : Int]
           at == srv.clock - d
           moved == hist.moved + d
           slews == hist.slews + 1
           off == srv.offset + d
           ep == srv.epoch + 1
<1>1. d \in Int /\ at \in -MaxShift..MaxShift /\ srv \in SrvType /\ mono \in MonoType /\ hist.moved \in Int /\ hist.slews \in Nat
  BY InstAssumption DEF ServerSlew, InstInv, MonoInv, HistInv
<1>2. srv.clock \in Int /\ srv.offset \in Int /\ srv.epoch \in Nat \ {0} /\ mono.epoch \in Nat /\ mono.monorx \in Int /\ mono.rx \in Int
  BY <1>1
<1>3. off \in Int /\ ep \in Nat \ {0} /\ moved \in Int /\ slews \in Nat
  <2>1. d \in Int /\ hist.moved \in Int /\ hist.slews \in Nat
    BY <1>1, Zenon
  <2> QED BY <1>2, <2>1
<1>4. srv' = (IF kind = "Adjust" THEN [srv EXCEPT !.clock = at, !.offset = off]
              ELSE [srv EXCEPT !.clock = at, !.offset = 0, !.epoch = ep])
      /\ hist' = [hist EXCEPT !.moved = moved, !.slews = slews]
      /\ UNCHANGED <<par, opmode, poll, tx, mono, shift>>
  BY DEF ServerSlew, ServerHandleSlew
<1>5. at + off = srv.clock + srv.offset
  BY <1>1, <1>2
<1>6. at + 0 = at
  BY <1>1
<1>7. srv.offset = mono.monorx - mono.rx + hist.moved => off = mono.monorx - mono.rx + moved
  BY <1>1, <1>2
<1>8. mono.epoch <= srv.epoch => mono.epoch <= ep /\ mono.epoch # ep
  BY <1>2
<1> HIDE DEF at, off, ep, moved, slews
<1>9. HistInv' /\ hist'.moved = moved /\ hist'.due = hist.due /\ hist'.online = hist.online
  BY <1>3, <1>4, Zenon DEF InstInv, HistInv
<1>10. CASE kind = "Adjust"
  <2>1. srv' \in SrvType /\ srv'.clock = at /\ srv'.offset = off /\ srv'.epoch = srv.epoch
    BY <1>1, <1>3, <1>4, <1>10, Zenon
  <2> QED BY <1>4, <1>5, <1>7, <1>9, <2>1, Zenon DEF InstInv, MonoInv, InstMonoExact
<1>11. CASE kind = "Step"
  <2>1. srv' \in SrvType /\ srv'.clock = at /\ srv'.offset = 0 /\ srv'.epoch = ep
    <3>1. srv' = [[[srv EXCEPT !.clock = at] EXCEPT !.offset = 0] EXCEPT !.epoch = ep] /\ 0 \in Int
      BY <1>4, <1>11
    <3> QED BY <1>1, <1>3, <3>1, Zenon
  <2> QED BY <1>1, <1>4, <1>6, <1>8, <1>9, <2>1, Zenon DEF InstInv, MonoInv, InstMonoExact
<1> QED BY <1>4, <1>9, <1>10, <1>11

\* Within one epoch the field gives back exactly what the server's clock was set
\* back by since the last response.
LEMMA ResponseStep ==
  ASSUME InstInv, Response
  PROVE  HistInv' /\ MonoInv' /\ hist'.online = hist.online /\ UNCHANGED <<par, opmode, poll, tx, shift>>
<1> DEFINE SrvType == [clock : -MaxShift..MaxShift, offset : Int, epoch : Nat \ {0}]
           MonoType == [epoch : Nat, monorx : Int, rx : Int, doffset : Int]
           rx == Base + srv.clock
           monorx == rx + srv.offset
           gain == MonoDoffset(rx, monorx, srv.epoch)
           due == IF srv.epoch = mono.epoch /\ hist.moved <= MaxDoffset /\ -hist.moved <= MaxDoffset THEN hist.moved ELSE 0
           total == mono.doffset + gain
           alldue == hist.due + due
<1>1. srv \in SrvType /\ mono \in MonoType /\ hist.moved \in Int /\ hist.due \in Int /\ mono.doffset = hist.due
  BY DEF InstInv, MonoInv, HistInv, InstMonoExact
<1>2. /\ srv.clock \in Int /\ srv.offset \in Int /\ srv.epoch \in Nat /\ mono.monorx \in Int /\ mono.rx \in Int
      /\ mono.doffset \in Int /\ srv.clock + srv.offset \in -MaxShift..MaxShift
  BY <1>1, InstAssumption DEF InstInv, MonoInv
<1>3. rx \in Int /\ monorx \in Int /\ monorx # 0 /\ srv.offset = monorx - rx + 0
  BY <1>2, InstAssumption DEF Base
<1>4. ASSUME srv.epoch = mono.epoch PROVE gain = due
  <2>1. mono.monorx # 0 /\ srv.offset = mono.monorx - mono.rx + hist.moved
    BY <1>4 DEF InstInv, MonoInv
  <2> DEFINE e == (monorx - mono.monorx) - (rx - mono.rx)
  <2>2. e = hist.moved
    <3>1. hist.moved \in Int
      BY <1>1
    <3> HIDE DEF rx, monorx
    <3> QED BY <1>2, <1>3, <2>1, <3>1
  <2>3. gain = IF e <= MaxDoffset /\ -e <= MaxDoffset THEN e ELSE 0
    BY <1>4, <2>1, Zenon DEF MonoDoffset
  <2> HIDE DEF e, gain
  <2> QED BY <1>4, <2>2, <2>3
<1>5. ASSUME srv.epoch # mono.epoch PROVE gain = due
  BY <1>5, Zenon DEF MonoDoffset
<1>6. gain = due /\ due \in Int
  <2> HIDE DEF gain
  <2> QED BY <1>1, <1>4, <1>5
<1>7. total \in Int /\ alldue \in Int /\ total = alldue
  <2>1. mono.doffset \in Int /\ hist.due \in Int /\ mono.doffset = hist.due
    BY <1>1, <1>2
  <2> HIDE DEF gain, due
  <2> QED BY <1>6, <2>1
<1>8. /\ mono' = [epoch |-> srv.epoch, monorx |-> monorx, rx |-> rx, doffset |-> total]
      /\ hist' = [[hist EXCEPT !.moved = 0] EXCEPT !.due = alldue]
      /\ UNCHANGED <<par, opmode, poll, tx, srv, shift>>
  BY Zenon DEF Response
<1> HIDE DEF total, alldue, rx, monorx
<1>9. mono' \in MonoType /\ mono'.epoch = srv.epoch /\ mono'.monorx = monorx /\ mono'.rx = rx /\ mono'.doffset = total
  BY <1>2, <1>3, <1>7, <1>8, Zenon
<1>10. HistInv' /\ hist'.moved = 0 /\ hist'.due = alldue /\ hist'.online = hist.online
  <2>1. hist \in [online : BOOLEAN, sent : 0..MaxSent, moved : Int, due : Int, slews : Nat] /\ 0 \in Int
    BY DEF InstInv, HistInv
  <2> QED BY <1>7, <1>8, <2>1, Zenon DEF HistInv
<1>11. srv.epoch <= srv.epoch
  BY <1>2
<1> QED BY <1>1, <1>2, <1>3, <1>7, <1>8, <1>9, <1>10, <1>11, Zenon DEF MonoInv, InstMonoExact, InstInv

\* A response without the field of the monotonic time.
LEMMA PlainResponseStep ==
  ASSUME InstInv, PlainResponse
  PROVE  HistInv' /\ MonoInv' /\ hist'.online = hist.online /\ UNCHANGED <<par, opmode, poll, tx, shift>>
<1> DEFINE rx == Base + srv.clock
<1>1. /\ mono' = [NoMono EXCEPT !.rx = rx]
      /\ hist' = [[hist EXCEPT !.moved = 0] EXCEPT !.due = 0]
      /\ UNCHANGED <<par, opmode, poll, tx, srv, shift>>
  BY Zenon DEF PlainResponse
<1>2. rx \in Int /\ srv.epoch \in Nat \ {0}
  BY InstAssumption DEF InstInv, MonoInv, Base
<1>3. HistInv' /\ hist'.moved = 0 /\ hist'.due = 0 /\ hist'.online = hist.online
  <2>1. hist \in [online : BOOLEAN, sent : 0..MaxSent, moved : Int, due : Int, slews : Nat] /\ 0 \in Int
    BY DEF InstInv, HistInv
  <2> QED BY <1>1, <2>1, Zenon DEF HistInv
<1> HIDE DEF rx
<1>4. mono' \in [epoch : Nat, monorx : Int, rx : Int, doffset : Int] /\ mono'.epoch = 0 /\ mono'.doffset = 0
  BY <1>1, <1>2 DEF NoMono
<1>5. 0 <= srv.epoch /\ 0 # srv.epoch
  BY <1>2
<1> QED BY <1>1, <1>3, <1>4, <1>5, Zenon DEF MonoInv, InstMonoExact, InstInv

\* The invariant holds of an association that was just created.
LEMMA InstStart ==
  ASSUME InstInit
  PROVE  InstInv
<1> USE InstAssumption
<1>1. PICK lo \in (MinPoll - 1)..(MaxPoll + 1), hi \in (MinPoll - 1)..(MaxPoll + 1), m \in {"client", "active"}, nonlan \in BOOLEAN :
         par = CreateConfig(lo, hi, m, nonlan)
  BY Zenon DEF InstInit
<1>2. lo \in Int /\ hi \in Int
  OBVIOUS
<1>3. ParInv
  BY <1>1, <1>2, ConfigInRange, Zenon DEF ParInv
<1>4. PollInv
  <2>1. par.minpoll \in Int /\ 0 \in 0..Unit
    <3>1. par.minpoll \in MinPoll..MaxPoll
      BY <1>3, Zenon DEF ParInv, Params
    <3> QED BY <3>1
  <2> QED BY <2>1, Zenon DEF InstInit, PollInv
<1>5. TxInv
  <2>1. tx = [local |-> 0, shift |-> 0, ntp |-> 0] /\ shift = 0
    BY Zenon DEF InstInit
  <2>2. 0 \in 0..MaxSent /\ 0 \in Int /\ 0 \in -MaxShift..MaxShift
    OBVIOUS
  <2> QED BY <2>1, <2>2, Zenon DEF TxInv, InstTxOfLatest
<1>6. HistInv
  <2>1. (opmode = "Online") \in BOOLEAN /\ 0 \in 0..MaxSent /\ 0 \in Int /\ 0 \in Nat
    OBVIOUS
  <2> QED BY <2>1, Zenon DEF InstInit, HistInv
<1>7. ModeInv
  BY Zenon DEF InstInit, ModeInv, InstConnectivityKept, IsOnline
<1>8. MonoInv
  <2>1. mono \in [epoch : Nat, monorx : Int, rx : Int, doffset : Int] /\ mono.epoch = 0 /\ mono.doffset = 0
    <3>1. mono = [epoch |-> 0, monorx |-> 0, rx |-> 0, doffset |-> 0]
      BY Zenon DEF InstInit, NoMono
    <3>2. 0 \in Int /\ 0 \in Nat
      OBVIOUS
    <3> QED BY <3>1, <3>2, Zenon
  <2>2. srv \in [clock : -MaxShift..MaxShift, offset : Int, epoch : Nat \ {0}] /\ srv.clock = 0 /\ srv.offset = 0 /\ srv.epoch = 1
    <3>1. srv = [clock |-> 0, offset |-> 0, epoch |-> 1]
      BY Zenon DEF InstInit
    <3>2. 0 \in -MaxShift..MaxShift /\ 0 \in Int /\ 1 \in Nat \ {0}
      OBVIOUS
    <3> QED BY <3>1, <3>2, Zenon
  <2>3. hist.due = 0
    BY Zenon DEF InstInit
  <2> QED BY <2>1, <2>2, <2>3 DEF MonoInv, InstMonoExact
<1> QED BY <1>3, <1>4, <1>5, <1>6, <1>7, <1>8 DEF InstInv

\* The groups of operations touch disjoint parts of the invariant.
LEMMA InstStep ==
  ASSUME InstInv, [InstNext]_instvars
  PROVE  InstInv'
<1>1. ASSUME UNCHANGED <<par>> PROVE ParInv'
  BY <1>1, Zenon DEF InstInv, ParInv
<1>2. ASSUME UNCHANGED <<poll>> PROVE PollInv'
  BY <1>2, Zenon DEF InstInv, PollInv
<1>3. ASSUME UNCHANGED <<tx, shift>> PROVE TxInv'
  BY <1>3, Zenon DEF InstInv, TxInv, InstTxOfLatest
<1>4. ASSUME UNCHANGED <<opmode>>, hist'.online = hist.online PROVE ModeInv'
  BY <1>4, Zenon DEF InstInv, ModeInv, InstConnectivityKept
<1>5. ASSUME UNCHANGED <<mono, srv>>, hist'.moved = hist.moved, hist'.due = hist.due PROVE MonoInv'
  BY <1>5, Zenon DEF InstInv, MonoInv, InstMonoExact
<1>6. ASSUME UNCHANGED <<hist>> PROVE HistInv'
  BY <1>6, Zenon DEF InstInv, HistInv
<1>7. CASE UNCHANGED instvars
  BY <1>1, <1>2, <1>3, <1>4, <1>5, <1>6, <1>7, Zenon DEF instvars, InstInv
<1>8. CASE PollNext
  BY <1>3, <1>4, <1>5, <1>6, <1>8, PollStep, Zenon DEF InstInv
<1>9. CASE ModeNext
  BY <1>1, <1>2, <1>3, <1>5, <1>9, ModeStep, Zenon DEF InstInv
<1>10. CASE Transmit \/ (\E req \in 1..MaxSent : TxTimestamp(req)) \/ (\E d \in ServerSlews : LocalSlew(d))
  BY <1>1, <1>2, <1>4, <1>5, <1>10, TxStep, Zenon DEF InstInv
<1>11. CASE Reset
  BY <1>1, <1>2, <1>4, <1>11, ResetStep, Zenon DEF InstInv
<1>12. CASE \E d \in ServerSlews, kind \in {"Adjust", "Step"} : ServerSlew(kind, d)
  BY <1>1, <1>2, <1>3, <1>4, <1>12, ServerSlewStep, Zenon DEF InstInv
<1>13. CASE Response
  BY <1>1, <1>2, <1>3, <1>4, <1>13, ResponseStep, Zenon DEF InstInv
<1>14. CASE PlainResponse
  BY <1>1, <1>2, <1>3, <1>4, <1>14, PlainResponseStep, Zenon DEF InstInv
<1> QED BY <1>7, <1>8, <1>9, <1>10, <1>11, <1>12, <1>13, <1>14, Zenon DEF InstNext, TxNext, MonoNext

\* An association keeps what AssociationSound states, for all limits of the poll interval, all
\* adjustments and slews, and any number of requests and steps of the server's clock.
THEOREM AssociationTheorem == InstSpec => AssociationSound
<1>1. InstInv => InstTypeOK /\ InstConnectivityKept /\ InstTxOfLatest /\ InstMonoExact
  <2> SUFFICES ASSUME InstInv PROVE InstTypeOK /\ InstConnectivityKept /\ InstTxOfLatest /\ InstMonoExact
    OBVIOUS
  <2>1. par.minpoll \in MinPoll..MaxPoll /\ par.maxpoll \in par.minpoll..MaxPoll
    BY InstAssumption DEF InstInv, ParInv, Params
  <2> QED BY <2>1, Zenon DEF InstInv, PollInv, TxInv, ModeInv, MonoInv, InstTypeOK
<1>2. InstInv /\ [InstNext]_instvars
      => [(poll' # poll)
          => /\ (poll'.local \in par.minpoll..par.maxpoll \/ (par.nonlan /\ poll'.local = 0))
             /\ \A rp \in (MinPoll - 1)..(MaxPoll + 1) : TransmitPoll(poll'.local, rp, TRUE) >= par.minpoll]_instvars
  <2> SUFFICES ASSUME InstInv, [InstNext]_instvars, poll' # poll
               PROVE  /\ (poll'.local \in par.minpoll..par.maxpoll \/ (par.nonlan /\ poll'.local = 0))
                      /\ \A rp \in (MinPoll - 1)..(MaxPoll + 1) : TransmitPoll(poll'.local, rp, TRUE) >= par.minpoll
    BY Zenon
  <2>1. PollNext
    BY ModeStep, TxStep, ResetStep, ServerSlewStep, ResponseStep, PlainResponseStep, Zenon
       DEF InstNext, TxNext, MonoNext, instvars
  <2>2. /\ par' = par /\ poll'.local >= par.minpoll
        /\ (poll'.local <= par.maxpoll \/ (par.nonlan /\ poll'.local = 0))
    BY <2>1, PollStep, Zenon
  <2>3. poll'.local \in Int /\ par.minpoll \in Int /\ par.maxpoll \in Int
    BY <2>1, PollStep, InstAssumption DEF InstInv, PollInv, ParInv, Params
  <2>4. ASSUME NEW rp \in (MinPoll - 1)..(MaxPoll + 1) PROVE TransmitPoll(poll'.local, rp, TRUE) >= par.minpoll
    <3>1. rp \in Int
      BY InstAssumption
    <3> QED BY <2>2, <2>3, <3>1 DEF TransmitPoll
  <2>5. poll'.local <= par.maxpoll => poll'.local \in par.minpoll..par.maxpoll
    BY <2>2, <2>3
  <2> QED BY <2>2, <2>4, <2>5, Zenon
<1>3. InstInit => InstInv
  BY InstStart
<1>4. InstInv /\ [InstNext]_instvars => InstInv'
  BY InstStep
<1> QED BY <1>1, <1>2, <1>3, <1>4, PTL DEF InstSpec, AssociationSound, InstPollInLimits

-----------------------------------------------------------------------------
(* The error bounds of a measurement (NtpSample), for every clock offset   *)
(* and every delay.                                                        *)

\* compute_response_sample: the measured offset is within half of the measured
\* delay of the true one.
THEOREM SampleBound ==
    ASSUME NEW t1 \in Int, NEW theta \in Int, NEW d1 \in Nat, NEW proc \in Nat, NEW d2 \in Nat
    PROVE  SampleErrorBounded(t1, theta, d1, proc, d2)
<1> DEFINE t2 == t1 + theta + d1
           t3 == t2 + proc
           t4 == t3 - theta + d2
           s == ResponseSample(t1, t2, t3, t4)
<1>1. t2 \in Int /\ t3 \in Int /\ t4 \in Int
  OBVIOUS
<1>2. (t4 - t1) - (t3 - t2) = d1 + d2
  BY <1>1
<1>3. AbsOf((t4 - t1) - (t3 - t2)) = d1 + d2
  BY <1>2 DEF AbsOf
<1>4. s.delay = MaxOf(d1 + d2, Precision)
  BY <1>3 DEF ResponseSample
<1>5. s.delay >= d1 + d2 /\ s.delay \in Int
  BY <1>4, NtpSampleAssumption DEF MaxOf
<1>6. s.off2 = (t2 + t3) - (t1 + t4)
  BY DEF ResponseSample
<1>7. s.off2 - 2 * theta = d1 - d2
  BY <1>6
<1>8. AbsOf(s.off2 - 2 * theta) <= s.delay
  BY <1>5, <1>7 DEF AbsOf
<1>9. QED
  BY <1>5, <1>8 DEF SampleErrorBounded

\* The error of an offset that two delays pull apart is at most their sum.
LEMMA TwoDelays ==
    ASSUME NEW off \in Int, NEW theta \in Int, NEW x \in Nat, NEW y \in Nat, NEW delay \in Int,
           off = 2 * theta + x - y, delay >= x + y
    PROVE  AbsOf(off - 2 * theta) <= delay
  BY DEF AbsOf

\* The sample of a round trip whose two directions took x and y.
Trip(s, theta, x, y) ==
    /\ s.off2 \in Int /\ s.off2 = 2 * theta + x - y
    /\ s.delay \in Int /\ s.delay >= x + y /\ s.delay = MaxOf(x + y, Precision)

\* What compute_response_sample makes of a round trip whose two directions took
\* x and y.
LEMMA RoundTrip ==
    ASSUME NEW t1 \in Int, NEW t4 \in Int, NEW theta \in Int, NEW x \in Nat, NEW y \in Nat
    PROVE  Trip(ResponseSample(t1, t1 + theta + x, t4 + theta - y, t4), theta, x, y)
<1> DEFINE s == ResponseSample(t1, t1 + theta + x, t4 + theta - y, t4)
           t2 == t1 + theta + x
           t3 == t4 + theta - y
<1>1. /\ s.off2 = (t2 + t3) - (t1 + t4)
      /\ s.delay = MaxOf(AbsOf((t4 - t1) - (t3 - t2)), Precision)
  BY Zenon DEF ResponseSample
<1>2. t2 \in Int /\ t3 \in Int /\ t2 = t1 + theta + x /\ t3 = t4 + theta - y
  OBVIOUS
<1> HIDE DEF s, t2, t3
<1>3. AbsOf((t4 - t1) - (t3 - t2)) = x + y
  BY <1>2 DEF AbsOf
<1>4. s.delay = MaxOf(x + y, Precision)
  BY <1>1, <1>3, Zenon
<1>5. s.delay \in Int /\ s.delay >= x + y
  BY <1>4, NtpSampleAssumption DEF MaxOf
<1>6. s.off2 \in Int /\ s.off2 = 2 * theta + x - y
  BY <1>1, <1>2
<1>7. QED
  BY <1>4, <1>5, <1>6, Zenon DEF Trip, s

\* A longer way out makes the delay no shorter.
LEMMA DelayGrows ==
    ASSUME NEW x \in Nat, NEW y \in Nat, NEW z \in Nat
    PROVE  /\ MaxOf(x + z, Precision) <= MaxOf(MaxOf(x, y) + z, Precision)
           /\ MaxOf(y + z, Precision) <= MaxOf(MaxOf(x, y) + z, Precision)
  BY NtpSampleAssumption DEF MaxOf

\* compute_interleaved_response_sample: the same, whichever transmit time it
\* prefers; and the delay is that of a real round trip.
THEOREM InterleavedBound ==
    ASSUME NEW prev_tx \in Int, NEW cur_tx \in Int, NEW t4 \in Int, NEW theta \in Int,
           NEW d0 \in Nat, NEW d1 \in Nat, NEW d2 \in Nat
    PROVE  SampleInterleavedBounded(prev_tx, cur_tx, t4, theta, d0, d1, d2)
<1> DEFINE prev == [tx |-> prev_tx, rx |-> prev_tx + theta + d0]
           cur == [tx |-> cur_tx, rx |-> cur_tx + theta + d1]
           s == InterleavedSample(prev, cur, t4 + theta - d2, t4)
<1>1. CASE prev.tx # 0 /\ cur.tx - t4 > 10 * (t4 - prev.tx)
  <2>1. s = ResponseSample(prev_tx, prev_tx + theta + d0, t4 + theta - d2, t4)
    BY <1>1 DEF InterleavedSample
  <2> HIDE DEF s
  <2>2. Trip(s, theta, d0, d2)
    BY <2>1, RoundTrip, Zenon
  <2>3. AbsOf(s.off2 - 2 * theta) <= s.delay
    BY <2>2, TwoDelays, Zenon DEF Trip
  <2>4. s.delay <= MaxOf(MaxOf(d0, d1) + d2, Precision)
    BY <2>2, DelayGrows, Zenon DEF Trip
  <2>5. QED
    BY <2>3, <2>4, Zenon DEF SampleInterleavedBounded, s
<1>2. CASE ~(prev.tx # 0 /\ cur.tx - t4 > 10 * (t4 - prev.tx))
  <2>1. s = ResponseSample(cur_tx, cur_tx + theta + d1, t4 + theta - d2, t4)
    BY <1>2 DEF InterleavedSample
  <2> HIDE DEF s
  <2>2. Trip(s, theta, d1, d2)
    BY <2>1, RoundTrip, Zenon
  <2>3. AbsOf(s.off2 - 2 * theta) <= s.delay
    BY <2>2, TwoDelays, Zenon DEF Trip
  <2>4. s.delay <= MaxOf(MaxOf(d0, d1) + d2, Precision)
    BY <2>2, DelayGrows, Zenon DEF Trip
  <2>5. QED
    BY <2>3, <2>4, Zenon DEF SampleInterleavedBounded, s
<1>3. QED
  BY <1>1, <1>2, Zenon

\* What a correction takes from the delay is at most what it takes from the two
\* directions, and the precision is only ever added.
LEMMA NarrowedDelay ==
    ASSUME NEW delay \in Int, NEW low \in Int, NEW x \in Int, NEW y \in Int,
           delay >= x, low <= y
    PROVE  MaxOf(delay - low, Precision) >= x - y /\ MaxOf(delay - low, Precision) \in Int
  BY NtpSampleAssumption DEF MaxOf

\* apply_net_correction: the narrower delay still covers the error, as long as no
\* clock on the path reports more than its share of the delay.
THEOREM CorrectedBound ==
    ASSUME NEW t1 \in Int, NEW theta \in Int, NEW d1 \in Nat, NEW proc \in Nat, NEW d2 \in Nat,
           NEW rx_net \in Int, NEW duration \in Int, NEW tx_net \in Int
    PROVE  SampleCorrectedBounded(t1, theta, d1, proc, d2, rx_net, duration, tx_net)
<1> DEFINE t2 == t1 + theta + d1
           t3 == t2 + proc
           t4 == t3 - theta + d2
           r == ResponseSample(t1, t2, t3, t4)
           back == rx_net - duration
           there == tx_net - duration
           low == (back + there) - AbsOf(back + there) \div NetMargin
           s == ApplyNetCorrection(r, rx_net, duration, tx_net)
<1> SUFFICES ASSUME back <= d2, there <= d1
             PROVE  AbsOf(s.off2 - 2 * theta) <= s.delay
  BY DEF SampleCorrectedBounded
<1>1. t4 \in Int /\ t2 \in Int /\ t3 \in Int /\ t2 = t1 + theta + d1 /\ t3 = t4 + theta - d2
  OBVIOUS
<1>2. r.off2 - 2 * theta = d1 - d2 /\ r.delay = MaxOf(d1 + d2, Precision)
  <2>1. AbsOf((t4 - t1) - (t3 - t2)) = d1 + d2
    BY <1>1 DEF AbsOf
  <2>2. r.delay = MaxOf(d1 + d2, Precision)
    BY <2>1 DEF ResponseSample
  <2>3. r.off2 = (t2 + t3) - (t1 + t4)
    BY DEF ResponseSample
  <2>4. QED
    BY <2>2, <2>3
<1>3. r.off2 = 2 * theta + d1 - d2 /\ r.off2 \in Int
  <2>1. r.off2 \in Int
    BY <1>1 DEF ResponseSample
  <2>2. QED
    BY <1>2, <2>1
<1>4. r.delay >= d1 + d2 /\ r.delay \in Int
  BY <1>2, NtpSampleAssumption DEF MaxOf
<1>5. AbsOf(back + there) \div NetMargin >= 0 /\ AbsOf(back + there) \div NetMargin \in Int
  <2>1. AbsOf(back + there) \in Nat
    BY DEF AbsOf
  <2> DEFINE n == AbsOf(back + there)
             q == n \div NetMargin
  <2>2. \A m \in Nat, k \in Nat \ {0} : m \div k \in Nat
    OBVIOUS
  <2>3. QED
    BY <2>1, <2>2, NtpSampleAssumption
<1>6. low <= back + there /\ low \in Int
  BY <1>5
<1>7. s = IF rx_net <= duration \/ tx_net <= 0 \/ low < 0 \/ low > r.delay THEN r
          ELSE [off2 |-> r.off2 + back - there, delay |-> MaxOf(r.delay - low, Precision)]
  BY Zenon DEF ApplyNetCorrection
<1>8. back \in Int /\ there \in Int
  OBVIOUS
<1> HIDE DEF s, low, r, back, there
<1>9. CASE rx_net <= duration \/ tx_net <= 0 \/ low < 0 \/ low > r.delay
  <2>1. s = r
    BY <1>7, <1>9, Zenon
  <2>2. AbsOf(r.off2 - 2 * theta) <= r.delay
    BY <1>3, <1>4, TwoDelays, Zenon
  <2>3. QED
    BY <2>1, <2>2, Zenon
<1>10. CASE ~(rx_net <= duration \/ tx_net <= 0 \/ low < 0 \/ low > r.delay)
  <2>1. s.off2 = r.off2 + back - there /\ s.delay = MaxOf(r.delay - low, Precision)
    BY <1>7, <1>10, Zenon
  <2>2. d1 + d2 \in Int /\ back + there \in Int
    BY <1>8
  <2>3. s.delay >= (d1 + d2) - (back + there) /\ s.delay \in Int
    <3>1. /\ MaxOf(r.delay - low, Precision) >= (d1 + d2) - (back + there)
          /\ MaxOf(r.delay - low, Precision) \in Int
      BY <2>2, <1>4, <1>6, NarrowedDelay, Zenon
    <3>2. QED
      BY <2>1, <3>1, Zenon
  <2>4. d1 - there \in Nat /\ d2 - back \in Nat
    BY <1>8
  <2>5. s.off2 \in Int /\ s.off2 = 2 * theta + (d1 - there) - (d2 - back)
    BY <2>1, <1>3, <1>8
  <2>6. s.delay >= (d1 - there) + (d2 - back)
    BY <2>3, <1>8
  <2>7. QED
    BY <2>3, <2>4, <2>5, <2>6, TwoDelays, Zenon
<1>11. QED
  BY <1>9, <1>10, Zenon
=============================================================================
