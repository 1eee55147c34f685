---------------------------- MODULE SourceStats ----------------------------
(***************************************************************************)
(* The sample register of one source (sourcestats.rs): the last n samples  *)
(* and, behind them, samples the regression has dropped that still serve   *)
(* the runs test.  Times, offsets and delays of both live in a ring twice  *)
(* as long as the register, the other fields in a ring of the register's   *)
(* length; a logical index counts from the oldest sample of the register.  *)
(*                                                                         *)
(* A sample carries, as history variables, the true time at which it was   *)
(* taken, so that it can be told apart and that the re-basing of local     *)
(* times can be judged; frequency changes are left out.  What the          *)
(* regression computes is abstracted to which old samples it drops.        *)
(***************************************************************************)
EXTENDS Integers, Sequences, FiniteSetsExt

CONSTANTS
    SstCap,         \* MAX_SAMPLES: the length of the register
    SstMin, SstMax, \* min_samples, max_samples of the source
    MinRegress,     \* MIN_SAMPLES_FOR_REGRESS
    FixedMinDelay,  \* mindelay of the source, 0 if none
    SstDelays, SstSlews,    \* delays of measurements, corrections of the clock
    SstMaxTaken, SstMaxErr, SstMaxOther \* bounds: samples taken, the clock's error, other events

VARIABLES
    st,     \* the register
    err,    \* local time minus true time
    taken,  \* samples taken
    hist,   \* history: the true times of the samples since the last reset
    dump,   \* the samples of the dump file
    other   \* events other than measurements so far
sstvars == <<st, err, taken, hist, dump, other>>

RunsBuf == 2 * SstCap
NoMeasurement == [time |-> 0, off |-> 0, delay |-> 0, truth |-> 0]

\* get_runsbuf_index and get_buf_index.
RunsIndex(s, i) == (s.last + 2 * RunsBuf - s.n + i + 1) % RunsBuf
BufIndex(s, i) == (s.last + RunsBuf - s.n + i + 1) % SstCap

Held(s) == (-s.runs)..(s.n - 1)

\* find_min_delay_sample: the first of the smallest.
FindMinDelay(s) ==
    [s EXCEPT !.minDelay =
        RunsIndex(s, CHOOSE i \in Held(s) :
            /\ \A j \in Held(s) : s.buf[RunsIndex(s, i)].delay <= s.buf[RunsIndex(s, j)].delay
            /\ \A j \in Held(s) : j < i => s.buf[RunsIndex(s, j)].delay > s.buf[RunsIndex(s, i)].delay)]

\* (a bug: the smallest delay is not searched again)
PruneNoSearch(s, k) ==
    LET runs == s.runs + k
        n    == s.n - k
    IN  [s EXCEPT !.n = n, !.runs = IF runs > n THEN n ELSE runs]

\* prune_register: the k oldest samples move to the reserve, which is at most
\* as long as the register itself.
PruneRegister(s, k) ==
    IF k = 0 THEN s
    ELSE LET runs == s.runs + k
             n    == s.n - k
         IN  FindMinDelay([s EXCEPT !.n = n, !.runs = IF runs > n THEN n ELSE runs])

\* SST_ResetInstance.
SstReset(s) ==
    [s EXCEPT !.n = 0, !.runs = 0, !.last = 0, !.ok = FALSE, !.best = 0, !.minDelay = 0,
              !.est = NoMeasurement]

\* SST_AccumulateSample.
AccumulateSample(s, m) ==
    LET s1 == IF s.n > 0 /\ (s.n = SstCap \/ s.n = SstMax) THEN PruneRegister(s, 1) ELSE s
        s2 == IF s1.n > 0 /\ s1.buf[s1.last].time >= m.time THEN SstReset(s1) ELSE s1
        i  == (s2.last + 1) % RunsBuf
        d  == IF m.delay < FixedMinDelay THEN 2 * FixedMinDelay - m.delay ELSE m.delay
    IN  [s2 EXCEPT !.last = i, !.n = @ + 1,
                   !.buf[i] = [m EXCEPT !.delay = d], !.rest[i % SstCap] = m.truth,
                   !.minDelay = IF s2.n = 0 \/ d < s2.buf[@].delay THEN i ELSE @]

\* SST_DoNewRegression; drop samples are pruned; the best sample
\* is the newest when all are alike.
Dropped(s) ==
    LET floor == IF SstMin > MinRegress THEN SstMin ELSE MinRegress
    IN  IF s.n > floor THEN 0..(s.n - floor) ELSE {0}
DoNewRegression(s, drop, best) ==
    [PruneRegister(s, drop) EXCEPT
        !.ok = s.n >= MinRegress, !.best = best,
        !.est = IF s.n = 0 THEN NoMeasurement ELSE s.buf[s.last]]
Regressions(s) ==
    {DoNewRegression(s, drop, s.n - drop - 1) : drop \in Dropped(s)}

SstInit ==
    /\ st = [n |-> 0, runs |-> 0, last |-> 0, ok |-> FALSE, best |-> 0, minDelay |-> 0,
             est |-> NoMeasurement, buf |-> [i \in 0..(RunsBuf - 1) |-> NoMeasurement],
             rest |-> [i \in 0..(SstCap - 1) |-> 0]]
    /\ err = 0 /\ taken = 0 /\ hist = <<>> /\ dump = <<>> /\ other = 0

\* A measurement is accumulated and the statistics are computed anew, as the
\* source registry does; one that was taken before the newest resets the register.
Measure(delay, stale) ==
    /\ taken < SstMaxTaken
    /\ stale => st.n > 0
    /\ LET truth == taken + 1
           time  == IF stale THEN st.buf[st.last].time ELSE 10 * truth + err
           m     == [time |-> time, off |-> err, delay |-> delay, truth |-> time - err]
           s     == AccumulateSample(st, m)
       IN  /\ stale \/ st.n = 0 \/ st.buf[st.last].time < time
           /\ \E r \in Regressions(s) : st' = r
           /\ hist' = IF s.n = 1 /\ s.runs = 0 THEN <<m.truth>> ELSE Append(hist, m.truth)
           /\ taken' = truth
    /\ UNCHANGED <<err, dump>>

\* SST_SlewSamples for a change of the offset.
SstSlewed(s, d) ==
    LET idx == {RunsIndex(s, i) : i \in Held(s)}
    IN  IF s.n = 0 THEN s
        ELSE [s EXCEPT !.buf = [j \in DOMAIN @ |->
                   IF j \in idx THEN [@[j] EXCEPT !.time = @ - d, !.off = @ - d] ELSE @[j]],
                       !.est = [@ EXCEPT !.time = @ - d, !.off = @ - d]]
SlewClock(d) ==
    /\ err - d \in (-SstMaxErr)..SstMaxErr
    /\ err' = err - d
    /\ st' = SstSlewed(st, d)
    /\ dump' = <<>>
    /\ UNCHANGED <<taken, hist>>

\* SST_CorrectOffset: only the offsets move, because the source was wrong by d.
CorrectSource(d) ==
    /\ st.n > 0 /\ err + d \in (-SstMaxErr)..SstMaxErr
    /\ LET idx == {RunsIndex(st, i) : i \in Held(st)}
           moved(m) == [m EXCEPT !.off = @ + d, !.truth = @ - d]
       IN  /\ st' = [st EXCEPT !.buf = [j \in DOMAIN @ |-> IF j \in idx THEN moved(@[j]) ELSE @[j]],
                               !.rest = [j \in DOMAIN @ |->
                                   IF \E i \in 0..(st.n - 1) : BufIndex(st, i) = j THEN @[j] - d ELSE @[j]],
                               !.est = moved(@)]
           /\ hist' = [j \in DOMAIN hist |-> hist[j] - d]
    /\ err' = err + d
    /\ dump' = <<>>
    /\ UNCHANGED taken

\* SST_ResetInstance by the registry.
ResetSource ==
    /\ st' = SstReset(st) /\ hist' = <<>>
    /\ UNCHANGED <<err, taken, dump>>

\* SST_SaveToFile, when the daemon stops: the clock is not corrected between
\* that and the load by the next one.
Samples(s) == [i \in 1..s.n |-> s.buf[RunsIndex(s, i - 1)]]
SaveSource ==
    /\ st.n >= 1
    /\ dump' = Samples(st)
    /\ UNCHANGED <<st, err, taken, hist>>

\* A new daemon loads the dump: SST_LoadFromFile.  A dump that is cut short, or
\* has a sample of the future, leaves an empty register.
LoadSource(whole) ==
    /\ dump # <<>>
    /\ LET n  == Len(dump)
           s0 == SstReset(st)
           s1 == [s0 EXCEPT !.n = n, !.last = n - 1,
                            !.buf = [j \in DOMAIN @ |-> IF j < n THEN dump[j + 1] ELSE @[j]],
                            !.rest = [j \in DOMAIN @ |-> IF j < n THEN dump[j + 1].truth ELSE @[j]]]
           good == whole /\ \A i \in 1..n : dump[i].time <= 10 * taken + err
       IN  IF ~good THEN st' = s0 /\ hist' = <<>>
           ELSE /\ \E r \in Regressions(FindMinDelay(s1)) : st' = r
                /\ hist' = [i \in 1..n |-> dump[i].truth]
    /\ UNCHANGED <<err, taken, dump>>

SstStep ==
    \/ \E delay \in SstDelays : Measure(delay, FALSE) /\ UNCHANGED other
    \/ /\ other < SstMaxOther
       /\ other' = other + 1
       /\ \/ \E delay \in SstDelays : Measure(delay, TRUE)
          \/ \E d \in SstSlews : SlewClock(d) \/ CorrectSource(d)
          \/ ResetSource \/ SaveSource
          \/ \E whole \in BOOLEAN : LoadSource(whole)
SstNext == SstStep
SstSpec == SstInit /\ [][SstNext]_sstvars

-----------------------------------------------------------------------------
\* Type invariant: the rings are never over-full.
SstTypeOK ==
    /\ st.n \in 0..SstCap /\ st.runs \in 0..st.n
    /\ st.last \in 0..(RunsBuf - 1) /\ st.minDelay \in 0..(RunsBuf - 1)

\* The register holds exactly the newest samples since the last reset, in
\* order, whatever was pruned, wrapped or loaded; the two rings agree about
\* which sample is which (sourcestats.rs get_runsbuf_index, get_buf_index).
SstRegisterExact ==
    /\ st.n + st.runs <= Len(hist)
    /\ \A i \in Held(st) : st.buf[RunsIndex(st, i)].truth = hist[Len(hist) - st.n + i + 1]
    /\ \A i \in 0..(st.n - 1) : st.rest[BufIndex(st, i)] = hist[Len(hist) - st.n + i + 1]

\* min_delay_sample is the smallest delay of every sample held, also after
\* pruning dropped the one that was smallest (sourcestats.rs prune_register,
\* find_min_delay_sample); the best sample is one of the register's.
SstExtremesHeld ==
    st.n > 0 =>
        /\ \E i \in Held(st) : RunsIndex(st, i) = st.minDelay
        /\ \A i \in Held(st) : st.buf[st.minDelay].delay <= st.buf[RunsIndex(st, i)].delay
        /\ st.best < st.n

\* However the clock was corrected, every sample held, the reserve of the runs
\* test included, and the estimate still state the clock's present error, and
\* the true time of the measurement (sourcestats.rs slew_samples).
SstRebased ==
    st.n > 0 =>
        /\ \A i \in Held(st) :
              LET m == st.buf[RunsIndex(st, i)] IN m.off = err /\ m.time - m.off = m.truth
        /\ st.est.off = err /\ st.est.truth = st.buf[st.last].truth

-----------------------------------------------------------------------------
(***************************************************************************)
(* The combinatorial part of regress.rs: the memoised quickselect behind   *)
(* the medians, and the choice of the window of samples by the runs test.  *)
(* The floating-point sums are left out: whether the residuals of a window *)
(* pass the runs test is an input.  Arrays are functions on 0..n-1.        *)
(***************************************************************************)
Swap(x, i, j) == [x EXCEPT ![i] = x[j], ![j] = x[i]]

\* The scans of the partition: up from l to v while smaller than the pivot,
\* down from r while larger.
RECURSIVE ScanUp(_, _, _, _)
ScanUp(x, l, v, piv) == IF l < v /\ x[l] < piv THEN ScanUp(x, l + 1, v, piv) ELSE l
RECURSIVE ScanDown(_, _, _)
ScanDown(x, r, piv) == IF x[r] > piv THEN ScanDown(x, r - 1, piv) ELSE r

\* The inner loop: exchange until the scans meet.
RECURSIVE Partition(_, _, _, _, _)
Partition(x, l, r, v, piv) ==
    LET l1 == ScanUp(x, l, v, piv)
        r1 == ScanDown(x, r, piv)
    IN  IF r1 <= l1 THEN [x |-> x, l |-> l1, r |-> r1]
        ELSE Partition(Swap(x, l1, r1), l1 + 1, r1 - 1, v, piv)

\* The subrange around index bounded by the nearest pinned positions.
LowEnd(flags, index) ==
    LET u == IF \E i \in 0..index : flags[i]
             THEN CHOOSE i \in 0..index : flags[i] /\ \A j \in (i + 1)..index : ~flags[j]
             ELSE 0
    IN  IF flags[u] THEN u + 1 ELSE u
HighEnd(flags, index, n) ==
    LET v == IF \E i \in index..(n - 1) : flags[i]
             THEN CHOOSE i \in index..(n - 1) : flags[i] /\ \A j \in index..(i - 1) : ~flags[j]
             ELSE n - 1
    IN  IF flags[v] THEN v - 1 ELSE v

\* The outer loop of select_ordered on the subrange u..v.
RECURSIVE Quickselect(_, _, _, _, _)
Quickselect(x, flags, u, v, index) ==
    IF v - u < 2
    THEN LET y == IF x[v] < x[u] THEN Swap(x, u, v) ELSE x
         IN  [x |-> y, flags |-> [flags EXCEPT ![u] = TRUE, ![v] = TRUE], value |-> y[index]]
    ELSE LET x1 == Swap(x, u, (u + v) \div 2)
             p  == Partition(x1, u + 1, v, v, x1[u])
             x2 == Swap(p.x, u, p.r)
             f2 == [flags EXCEPT ![p.r] = TRUE]
         IN  IF index = p.r THEN [x |-> x2, flags |-> f2, value |-> x2[p.r]]
             ELSE IF index < p.r THEN Quickselect(x2, f2, u, p.r - 1, index)
             ELSE Quickselect(x2, f2, p.l, v, index)

\* (a bug: a pinned position is taken for a bound of the wrong side)
SelectOrderedUnpinned(x, flags, n, index) ==
    IF flags[index] THEN [x |-> x, flags |-> flags, value |-> x[index]]
    ELSE Quickselect(x, flags, 0, index, index)

\* select_ordered.
SelectOrdered(x, flags, n, index) ==
    IF flags[index] THEN [x |-> x, flags |-> flags, value |-> x[index]]
    ELSE Quickselect(x, flags, LowEnd(flags, index), HighEnd(flags, index, n), index)

\* median_in_place: twice the median, so that it stays an integer.
TwiceMedian(x, n) ==
    LET none == [i \in 0..(n - 1) |-> FALSE]
        k    == n \div 2
        hi   == SelectOrdered(x, none, n, k)
        lo   == SelectOrdered(hi.x, hi.flags, n, k - 1)
    IN  IF n % 2 = 1 THEN 2 * hi.value ELSE hi.value + lo.value

\* find_best_regression: drop the oldest of n samples until the residuals,
\* extended over at most as many of the m older ones, pass the runs test.
RECURSIVE BestStart(_, _, _, _, _)
BestStart(passes, n, m, minSamples, start) ==
    IF passes[start] \/ n - start <= 3 \/ n - start <= minSamples THEN start
    ELSE BestStart(passes, n, m, minSamples, start + 1)
ResidStart(n, m, start) == LET r == n - 2 * (n - start) IN IF r < -m THEN -m ELSE r
BestRegression(passes, n, m, minSamples) ==
    IF n < 3 THEN [found |-> FALSE, start |-> 0]
    ELSE [found |-> TRUE, start |-> BestStart(passes, n, m, minSamples, 0)]

-----------------------------------------------------------------------------
\* The order statistics of the values of x.
Rank(x, n, value) == Cardinality({i \in 0..(n - 1) : x[i] < value})
NoMore(x, n, value) == Cardinality({i \in 0..(n - 1) : x[i] <= value})
IsKth(x, n, k, value) == Rank(x, n, value) <= k /\ k < NoMore(x, n, value)

\* The median of any array, computed by two quickselects of which the second
\* reuses the positions the first one pinned, is the middle of the sorted
\* values (regress.rs select_ordered, median_in_place).
MedianRight(x, n) ==
    \E a, b \in {x[i] : i \in 0..(n - 1)} :
        /\ IsKth(x, n, n \div 2, a)
        /\ IsKth(x, n, (n - 1) \div 2, b)
        /\ TwiceMedian(x, n) = a + b

\* The window keeps the samples the source is configured to keep, its runs
\* test never reaches behind the older samples there are, nor beyond the table
\* of critical values (regress.rs find_best_regression).
WindowRight(passes, n, m, minSamples) ==
    LET r == BestRegression(passes, n, m, minSamples)
        kept == n - r.start
        count == n - ResidStart(n, m, r.start)
    IN  r.found =>
          /\ kept >= 3 /\ kept >= (IF n < minSamples THEN n ELSE minSamples)
          /\ ResidStart(n, m, r.start) >= -m
          /\ count \in kept..(2 * kept)
          /\ passes[r.start] \/ kept = 3 \/ kept <= minSamples

----------------------------------------------------------------------------
(***************************************************************************)
(* quantiles.rs: streaming estimates of the k-th q-quantiles, Repeat       *)
(* estimators for each k.  Values and steps are integers in units of       *)
(* min_step; the random number decides only whether an estimator moves.    *)
(***************************************************************************)
CONSTANTS MinK, MaxK, Repeat,   \* the quantiles and the estimators of each
          QValues,              \* the values accumulated
          QMaxStep              \* bound: size of a step

NQuants == (MaxK - MinK + 1) * Repeat

VARIABLES quants,       \* est, step, sign of each estimator, from 0
          n_set,        \* initial values inserted
          seen          \* history: the values accumulated since the reset

quantvars == <<quants, n_set, seen>>

Fresh == [est |-> 0, step |-> 1, sign |-> 1]

\* update_estimate for a value above the estimate (dir = 1) or below it (-1).

Move(e, value, dir) ==
    LET step1 == e.step + (IF e.sign = dir THEN 1 ELSE -1)
        est1  == e.est + dir * (IF step1 > 0 THEN step1 ELSE 1)
        past  == dir * (est1 - value) > 0
        step2 == IF past THEN step1 - dir * (est1 - value) ELSE step1
    IN [est |-> IF past THEN value ELSE est1,
        step |-> IF e.sign # dir /\ step2 > 1 THEN 1 ELSE step2,
        sign |-> dir]

UpdateEstimate(e, value, moves) ==
    IF moves /\ value > e.est THEN Move(e, value, 1)
    ELSE IF moves /\ value < e.est THEN Move(e, value, -1)
    ELSE e

\* insert_initial_value: an insertion into the sorted groups that are set, and
\* the largest value in those that are not.

Inserted(value) ==
    LET below  == Cardinality({g \in 0..(n_set - 1) : quants[g * Repeat].est <= value})
        Group(g) == IF g < below THEN quants[g * Repeat].est
                    ELSE IF g = below THEN value
                    ELSE quants[(g - 1) * Repeat].est
    IN [i \in 0..(NQuants - 1) |->
          [quants[i] EXCEPT !.est = Group(IF i \div Repeat > n_set THEN n_set ELSE i \div Repeat)]]

QuantInit == quants = [i \in 0..(NQuants - 1) |-> Fresh] /\ n_set = 0 /\ seen = {}

Reset == quants' = [i \in 0..(NQuants - 1) |-> Fresh] /\ n_set' = 0 /\ seen' = {}

Accumulate(value) ==
    /\ IF n_set * Repeat < NQuants
       THEN quants' = Inserted(value) /\ n_set' = n_set + 1
       ELSE /\ \E moves \in [0..(NQuants - 1) -> BOOLEAN] :
                 quants' = [i \in 0..(NQuants - 1) |-> UpdateEstimate(quants[i], value, moves[i])]
            /\ UNCHANGED n_set
    /\ seen' = seen \cup {value}
    /\ \A i \in 0..(NQuants - 1) : quants'[i].step \in -QMaxStep..QMaxStep

QuantNext == Reset \/ \E value \in QValues : Accumulate(value)

QuantSpec == QuantInit /\ [][QuantNext]_quantvars

\* get_quantile: the median of the k-th group (of two, the half sum, doubled
\* here to stay whole).
TwiceQuantile(k) ==
    LET group == [i \in 0..(Repeat - 1) |-> quants[(k - MinK) * Repeat + i].est]
        Below(i) == Cardinality({j \in 0..(Repeat - 1) : group[j] < group[i] \/ (group[j] = group[i] /\ j < i)})
        At(p) == group[CHOOSE i \in 0..(Repeat - 1) : Below(i) = p]
    IN IF Repeat % 2 = 1 THEN 2 * At(Repeat \div 2) ELSE At(Repeat \div 2 - 1) + At(Repeat \div 2)

----------------------------------------------------------------------------
(* Properties *)

\* An estimate never leaves the range of the values it was made of, however
\* long the steps have grown and whichever estimators the random numbers move.
QuantInRange ==
    seen # {} => \A k \in MinK..MaxK : TwiceQuantile(k) \in (2 * Min(seen))..(2 * Max(seen))

\* While the estimator fills, its groups hold the values in order: the
\* quantiles do not decrease with k.
QuantOrderedWhileFilling ==
    n_set \in 1..(MaxK - MinK) =>
      \A k \in MinK..(MaxK - 1) : TwiceQuantile(k) <= TwiceQuantile(k + 1)

=============================================================================
