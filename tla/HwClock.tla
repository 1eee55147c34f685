------------------------------- MODULE HwClock -------------------------------
(***************************************************************************)
(* The model of a hardware clock (hwclock.rs HwClock): its register of     *)
(* samples, kept as intervals from the newest one, and what makes them and *)
(* the fitted line valid; the combination of readings into a sample.       *)
(* Times are ticks, the local frequency is right, and the local clock is   *)
(* only stepped: frequencies are left out.  The robust regression is any   *)
(* result that its number of points allows.                                *)
(***************************************************************************)
EXTENDS Integers, Sequences, FiniteSetsExt

CONSTANTS MinSamples, MaxSamples,   \* min_samples, max_samples after HwClock::new
          MinSeparation,            \* min_separation
          HwTimes, LocalTimes,      \* bound: times of the two clocks
          Steps                     \* steps of the local clock

ASSUME HwAssumption ==
    /\ MinSamples \in Nat /\ MaxSamples \in Nat \ {0} /\ MinSeparation \in Int
    /\ HwTimes \subseteq Int /\ LocalTimes \subseteq Int /\ Steps \subseteq Int

VARIABLES hw_ref, local_ref,    \* the newest sample
          data,                 \* x_data and y_data: slot -> [x, y]
          n_samples, valid_coefs,
          taken                 \* history: the samples since the register was last emptied,
                                \* as they are in today's local time, the newest last
hwvars == <<hw_ref, local_ref, data, n_samples, valid_coefs, taken>>

Slots == 0..(MaxSamples - 1)

HwInit ==
    /\ hw_ref = 0 /\ local_ref = 0
    /\ data = [i \in Slots |-> [x |-> 0, y |-> 0]]
    /\ n_samples = 0 /\ valid_coefs = FALSE /\ taken = <<>>

NoLine == -1

\* find_best_robust_regression: no line through fewer than two points, the line
\* through two; otherwise a line may start later but keeps three points.
Fits(n) ==
    IF n < 2 THEN {NoLine} ELSE IF n = 2 THEN {0} ELSE NoLine..(n - 3)

\* The samples that stay when (hw, local) is accumulated.
Kept(hw, local) ==
    IF hw <= hw_ref \/ 2 * (local - local_ref) < MinSeparation THEN 0
    ELSE IF n_samples >= MaxSamples THEN n_samples - 1 ELSE n_samples

ShiftedData(kept, hw_delta, local_delta) ==
    [i \in Slots |-> IF i + 1 \in (MaxSamples - kept)..(MaxSamples - 1)
                     THEN [x |-> data[i + 1].x - local_delta, y |-> data[i + 1].y - hw_delta]
                     ELSE data[i]]

\* What the regression leaves: samples, and whether the line is valid; a line
\* that misses the last sample or has an insane frequency drops all.
Fitted(n, fit, bad) ==
    IF fit = NoLine THEN <<n, FALSE>>
    ELSE IF bad THEN <<0, FALSE>>
    ELSE <<IF n > MinSamples THEN n - Min({fit, n - MinSamples}) ELSE n, TRUE>>

\* accumulate_sample.
AccumulateSample(hw, local) ==
    LET kept == Kept(hw, local)
        n    == kept + 1
    IN  \E fit \in Fits(n), bad \in BOOLEAN :
          /\ data' = ShiftedData(kept, hw - hw_ref, local - local_ref)
          /\ n_samples' = Fitted(n, fit, bad)[1]
          /\ valid_coefs' = Fitted(n, fit, bad)[2]
          /\ hw_ref' = hw /\ local_ref' = local
          /\ LET all == Append(IF kept = 0 THEN <<>> ELSE taken, <<hw, local>>)
             IN  taken' = SubSeq(all, Max({1, Len(all) - n_samples' + 1}), Len(all))

\* Mutant: the reference stays where it was.
RebasedNever(s) == local_ref

\* handle_slew after a step: the reference moves with the clock.
Rebased(s) == IF n_samples > 0 THEN local_ref - s ELSE local_ref
HandleSlew(s) ==
    /\ local_ref' = Rebased(s)
    /\ taken' = [i \in 1..Len(taken) |-> <<taken[i][1], taken[i][2] - s>>]
    /\ UNCHANGED <<hw_ref, data, n_samples, valid_coefs>>

HwNext ==
    \/ \E hw \in HwTimes, local \in LocalTimes : AccumulateSample(hw, local)
    \/ \E s \in Steps : local_ref - s \in LocalTimes /\ HandleSlew(s)

HwSpec == HwInit /\ [][HwNext]_hwvars

----------------------------------------------------------------------------
(* Combining readings *)

\* The sum of two times the middle of these readings, and so on: means over a
\* set are kept multiplied by twice its size.
Total(rs, f, in) == MapThenSumSet(LAMBDA i : rs[i][f], in)

\* The sample made of some readings, with the middle of the local times around each.
Combined(rs, in, precision) ==
    [scale |-> 2 * Cardinality(in), hw |-> 2 * Total(rs, "hw", in),
     local |-> Total(rs, "before", in) + Total(rs, "after", in),
     err   |-> Max({Total(rs, "after", in) - Total(rs, "before", in), 2 * Cardinality(in) * precision})]

\* process_readings with the two quantiles of the delay: the readings with a
\* usual delay are combined; when there is none the one of least delay is
\* taken, unless the model predicts it.
NoSample == [scale |-> 0, hw |-> 0, local |-> 0, err |-> 0]
ProcessReadings(rs, q1, q2, precision, predicted) ==
    LET delay(i) == rs[i].after - rs[i].before
        low   == Min({q1, q2})
        high  == Max({q2, low + precision})
        usual == {i \in DOMAIN rs : delay(i) \in low..high}
        least == Min({i \in DOMAIN rs : \A k \in DOMAIN rs : delay(i) <= delay(k)})
    IN  IF rs = <<>> \/ \E i \in DOMAIN rs : delay(i) < 0 THEN NoSample
        ELSE IF usual # {} THEN Combined(rs, usual, precision)
        ELSE IF predicted THEN NoSample
        ELSE Combined(rs, {least}, precision)

-----------------------------------------------------------------------------
(* Properties *)

\* The live slots hold the samples taken since the register was last emptied,
\* in order and in today's local time, after any resets, trims, steps of the
\* clock and turns of a full register (accumulate_sample, handle_slew).
HwSamplesExact ==
    /\ n_samples \in 0..MaxSamples /\ Len(taken) = n_samples
    /\ \A k \in 1..n_samples :
         LET d == data[MaxSamples - n_samples + k - 1]
         IN  taken[k] = <<hw_ref + d.y, local_ref + d.x>>

\* cook_time uses the line only while the samples behind it are there: two of
\* them at least, the newest of them the reference, and hardware time ascending.
HwLineBacked ==
    valid_coefs =>
      /\ n_samples >= 2 /\ taken[n_samples] = <<hw_ref, local_ref>>
      /\ \A k \in 2..n_samples : taken[k - 1][1] < taken[k][1]

\* What cook_time relies on: samples that are current, and a line they back.
HwSound == HwSamplesExact /\ HwLineBacked

\* Of a hardware clock that shows the local time, read somewhere between the two
\* local times of each reading, process_readings makes a sample whose error
\* bounds the distance of its two times, whichever readings are combined.
HwReadingBounded(rs, q1, q2, precision, predicted) ==
    (\A i \in DOMAIN rs : rs[i].hw \in rs[i].before..rs[i].after)
    => LET s == ProcessReadings(rs, q1, q2, precision, predicted)
       IN  s.hw - s.local \in (-s.err)..s.err
=============================================================================
