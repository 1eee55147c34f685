------------------------------ MODULE LocalClock ------------------------------
(***************************************************************************)
(* The local clock: local.rs over the software-slew driver sys_generic.rs  *)
(* (or the null driver sys_null.rs), with the smoothing of served time,    *)
(* smooth.rs, and the driver's own step handler registered as handlers of  *)
(* clock changes, the way the module headers describe the wiring.          *)
(*                                                                         *)
(* Raw time only matters as the time since slew_start, so the state keeps  *)
(* that difference.  Offsets and frequencies are integers in units of the  *)
(* smallest correction; the second-order factors (1 - f/1e6) are left out, *)
(* and a slew frequency is rounded up to a whole unit.                     *)
(* Every operation is a function from clock states to clock states, so an  *)
(* operation that calls others is their composition.                       *)
(***************************************************************************)
EXTENDS Integers

CONSTANTS
    MinOffset,      \* MIN_OFFSET_CORRECTION: smaller offsets count as none
    MinDuration, MaxDuration,   \* MIN_/MAX_SLEW_DURATION
    ExcessRatio,    \* MIN_SLEW_DURATION_EXCESS_RATIO
    MaxExcess,      \* MAX_SLEW_EXCESS_DURATION
    MaxCorrFreq,    \* max_corr_freq: the fastest slew
    MaxFreq,        \* max_freq: the fastest the driver can be set to
    MaxDrift,       \* max_freq_ppm of local.rs (maxdrift)
    FastRate, FastMin,  \* fastslew_max_rate, fastslew_min_offset
    NullInterval,   \* MIN_UPDATE_INTERVAL of the null driver
    ClockOffsets, ClockFreqs, ClockComps, CorrRates,   \* arguments of the operations
    MaxLate,        \* a bound: how late the scheduler may fire the slew timeout
    MaxClockOps     \* a bound on the operations of the rest of the daemon

VARIABLES
    k,      \* the clock (a record, see ClockInit)
    ops     \* operations so far
clockvars == <<k, ops>>

Magnitude(x) == IF x < 0 THEN -x ELSE x
Sgn(x) == IF x > 0 THEN 1 ELSE IF x < 0 THEN -1 ELSE 0
Larger(a, b) == IF a > b THEN a ELSE b
\* clamp_freq and the limits of max_corr_freq and maxdrift.
Bounded(x, m) == IF x > m THEN m ELSE IF x < -m THEN -m ELSE x
\* Division rounding away from and towards zero.
DivUp(a, b) == Sgn(a) * ((Magnitude(a) + b - 1) \div b)
DivDown(a, b) == Sgn(a) * Sgn(b) * (Magnitude(a) \div Magnitude(b))

-----------------------------------------------------------------------------
\* The drivers.

\* offset_convert at the current time: what is added to raw time to cook it.
\* For the null driver freq plays the part of a slew in the other direction.
Correction(c) == c.slew * c.el - c.fast - c.reg

\* (a bug: the part of the slew already done is not credited)
UpdateSlewUncredited(c) ==
    LET corr  == Bounded(DivUp(c.reg, MinDuration), MaxCorrFreq)
        slew  == Bounded(c.base + corr, MaxFreq) - c.base
    IN  [c EXCEPT !.slew = slew, !.el = 0,
            !.dur = IF Magnitude(c.reg) < MinOffset THEN MaxDuration ELSE MinDuration]

\* SysGeneric update_slew: end the running slew and start a new one.
UpdateSlew(c) ==
    LET credited == c.reg - c.slew * c.el
        stopping == c.fastOn                           \* stop_fastslew
        reg      == IF stopping THEN credited + c.fast ELSE credited
        fast     == IF stopping THEN 0 ELSE c.fast
        decayed  == (c.excess * 9) \div 10             \* in tenths
        late     == 10 * (c.el - c.dur)
        excess   == IF decayed < late /\ late <= 10 * MaxExcess THEN late ELSE decayed
        wanted   == IF Magnitude(reg) < MinOffset THEN MaxDuration
                    ELSE Larger(Larger(c.rate \div Magnitude(reg), MinDuration),
                                DivUp(ExcessRatio * excess, 10))
        corr     == IF Magnitude(reg) < MinOffset THEN 0     \* below the driver's resolution
                    ELSE Bounded(DivUp(reg, wanted), MaxCorrFreq)
        handOver == c.canFast /\ Magnitude(corr) >= FastRate /\ Magnitude(reg) > FastMin
        left     == IF handOver THEN 0 ELSE reg        \* start_fastslew
        total    == Bounded(c.base + (IF handOver THEN 0 ELSE corr), MaxFreq)
        slew     == total - c.base
    IN  [c EXCEPT !.reg = left, !.slew = slew, !.el = 0, !.excess = excess,
            !.fast = IF handOver THEN fast + reg ELSE fast,
            !.fastOn = @ \/ handOver,
            !.dur = IF Magnitude(left) < MinOffset \/ left * slew <= 0 THEN MaxDuration
                    ELSE LET d == DivDown(left, slew)
                         IN  IF d < MinDuration THEN MinDuration
                             ELSE IF d > MaxDuration THEN MaxDuration ELSE d]

\* NullClock update_offset: bank what the frequency has accrued.
BankOffset(c) == [c EXCEPT !.reg = @ - c.slew * c.el, !.el = 0]

\* set_frequency and accrue_offset of the driver in use.
DriverSetFrequency(c, freq) ==
    IF c.null THEN [BankOffset(c) EXCEPT !.base = freq, !.slew = -freq]
    ELSE UpdateSlew([c EXCEPT !.base = freq])
DriverAccrueOffset(c, offset, rate) ==
    IF c.null THEN [c EXCEPT !.reg = @ + offset]
    ELSE UpdateSlew([c EXCEPT !.reg = @ + offset, !.rate = rate])

-----------------------------------------------------------------------------
\* smooth.rs.  The stages of the trajectory are abstracted to one of
\* unit rate, at which the smoothing offset is absorbed.

\* get_smoothing at the current time: the last stage ends at offset zero.
SmoothOffset(c) ==
    IF c.sm.el <= 0 THEN c.sm.off
    ELSE IF c.sm.el >= Magnitude(c.sm.off) THEN 0 ELSE c.sm.off - Sgn(c.sm.off) * c.sm.el

\* update_smoothing.  steady: the skew is small enough to unlock.
UpdateSmoothing(c, offset, steady) ==
    IF c.sm.locked
    THEN IF steady \/ c.leapOnly
         THEN [c EXCEPT !.sm.locked = FALSE, !.sm.el = 0, !.sm.unset = FALSE]    \* activate
         ELSE c
    ELSE [c EXCEPT !.sm.off = SmoothOffset(c) + offset, !.sm.el = 0, !.sm.unset = FALSE]

\* handle_slew.  The re-basing of last_update cancels the change of the current
\* time, so the time since the last update stays what it was; `moved` is how
\* far the current time itself was moved by the change the handler is told of.
SmoothHandleSlew(c, offset, type, moved, steady) ==
    LET u == IF type = "adjust"
             THEN UpdateSmoothing(c, IF c.leapOnly THEN 0 ELSE offset, steady)
             ELSE c
    IN  IF u.sm.unset THEN u ELSE [u EXCEPT !.sm.el = @ + moved + offset]

\* SMT_Reset.
SmoothReset(c) ==
    [c EXCEPT !.sm.off = 0, !.sm.el = 0, !.sm.unset = FALSE]

-----------------------------------------------------------------------------
\* local.rs.

\* invoke_parameter_change_handlers, to a handler that keeps times and
\* frequencies of its own (told) and to the smoothing; moved is the change of
\* cooked time since c0, df the change of the frequency.
Notify(c0, c, df, offset, type, draw, steady) ==
    LET moved == Correction(c) - Correction(c0) + draw
        told  == [c EXCEPT !.err = @ + moved + offset, !.ferr = @ + df - (c.cur + c.temp - c0.cur - c0.temp)]
    IN  SmoothHandleSlew(told, offset, type, moved, steady)

\* LCL_SetAbsoluteFrequency.
SetAbsoluteFrequency(c, freq, steady) ==
    LET a  == Bounded(freq, MaxDrift) - c.temp
        c1 == [DriverSetFrequency(c, a) EXCEPT !.cur = a]
    IN  Notify(c, c1, a - c.cur, 0, "adjust", 0, steady)

\* LCL_AccumulateDeltaFrequency.
AccumulateDeltaFrequency(c, df, steady) ==
    LET a  == Bounded(c.cur + df, MaxDrift)
        c1 == [DriverSetFrequency(c, a) EXCEPT !.cur = a]
    IN  Notify(c, c1, a - c.cur, 0, "adjust", 0, steady)

\* LCL_AccumulateOffset, for an offset that leaves a sane time.
AccumulateOffset(c, offset, rate, steady) ==
    Notify(c, DriverAccrueOffset(c, offset, rate), 0, offset, "adjust", 0, steady)

\* LCL_AccumulateFrequencyAndOffset.
AccumulateFrequencyAndOffset(c, df, offset, rate, steady) ==
    LET a  == Bounded(c.cur + df, MaxDrift)
        c1 == DriverAccrueOffset([DriverSetFrequency(c, a) EXCEPT !.cur = a], offset, rate)
    IN  Notify(c, c1, a - c.cur, offset, "adjust", 0, steady)

\* ... and the variant that runs with the handlers disabled: the caller has
\* accounted for the change.
AccumulateQuietly(c, df, offset, rate) ==
    LET a == Bounded(c.cur + df, MaxDrift)
    IN  DriverAccrueOffset([DriverSetFrequency(c, a) EXCEPT !.cur = a], offset, rate)

\* SysGeneric handle_step: slew_start moves with the clock, so the time since
\* then does not change; a step of raw time alone would change it by draw.
HandleStep(c, offset, draw) == [c EXCEPT !.el = @ + draw + offset]

\* LCL_ApplyStepOffset once the driver has stepped raw time by -offset: the
\* smoothing is reset first, then the handlers run.
ApplyStepOffset(c, offset) ==
    LET c1 == HandleStep(SmoothReset(c), offset, -offset)
    IN  Notify(c, c1, 0, offset, "step", -offset, FALSE)

\* LCL_CancelOffsetCorrection.
CancelOffsetCorrection(c, steady) == AccumulateOffset(c, Correction(c), 0, steady)

\* LCL_NotifyExternalTimeStep: something else stepped the clock by jump.
NotifyExternalTimeStep(c, jump, steady) ==
    LET c1 == CancelOffsetCorrection(c, steady)
    IN  Notify(c1, c1, 0, -jump, "unknown", jump, FALSE)   \* no slew runs now, so el is moot

\* LCL_NotifyLeap: UTC moved by one second; then the clock follows it, by a slew.
NotifyLeap(c, leap, steady) ==
    LET c1 == IF c.leapOnly THEN UpdateSmoothing(c, leap, steady) ELSE c   \* SMT_Leap
        c2 == Notify(c1, c1, 0, -leap, "step", 0, steady)
    IN  [c2 EXCEPT !.err = @ + leap]
LeapSlew(c, leap, steady) ==
    AccumulateOffset(NotifyLeap(c, leap, steady), leap, 0, steady)

\* (a bug: the step is made on top of the slew)
MakeStepOnly(c, works, steady) ==
    IF works THEN ApplyStepOffset(c, -Correction(c)) ELSE c

\* LCL_MakeStep: the outstanding correction is taken out of the driver and
\* applied as a step; the step may fail.
MakeStep(c, works, steady) ==
    LET corr == Correction(c)
        c1   == AccumulateOffset(c, corr, 0, steady)
    IN  IF works THEN ApplyStepOffset(c1, -corr) ELSE c1

\* LCL_SetTempComp, for a compensation tempcomp.rs lets through: no handler is
\* told, since the frequency of the clock itself does not change.
SetTempComp(c, comp) ==
    IF c.temp = comp THEN c
    ELSE LET a == c.cur + c.temp - comp
         IN  [DriverSetFrequency(c, a) EXCEPT !.cur = a, !.temp = comp]

-----------------------------------------------------------------------------
\* The behaviour.

ClockInit ==
    /\ ops = 0
    /\ k \in [reg : {0}, slew : {0}, el : {0}, dur : {0}, excess : {0}, rate : {0},
              base : {0}, fast : {0}, canFast : BOOLEAN, fastOn : {FALSE}, null : BOOLEAN,
              cur : {0}, temp : {0}, leapOnly : BOOLEAN,
              sm : {[locked |-> TRUE, off |-> 0, el |-> 0, unset |-> TRUE]},
              err : {0}, ferr : {0}]
    /\ ~(k.null /\ k.canFast)

\* One operation by the rest of the daemon.
Operation(c) ==
    /\ ops < MaxClockOps
    /\ ops' = ops + 1
    /\ k' = c

Adjust ==
    \E steady \in BOOLEAN :
        \/ \E f \in ClockFreqs : \/ Operation(SetAbsoluteFrequency(k, f, steady))
                                 \/ Operation(AccumulateDeltaFrequency(k, f, steady))
        \/ \E x \in ClockOffsets, rate \in CorrRates :
              \/ Operation(AccumulateOffset(k, x, rate, steady))
              \/ \E f \in ClockFreqs :
                    \/ Operation(AccumulateFrequencyAndOffset(k, f, x, rate, steady))
                    \/ Operation(AccumulateQuietly(k, f, x, rate))
        \/ Operation(CancelOffsetCorrection(k, steady))
        \/ \E l \in {-1, 1} : Operation(LeapSlew(k, l, steady))

\* The null driver cannot step, so MakeStep on it only cancels the correction.
Step ==
    \E steady \in BOOLEAN :
        \/ \E works \in BOOLEAN : (works => ~k.null) /\ Operation(MakeStep(k, works, steady))
        \/ \E x \in ClockOffsets :
              \/ ~k.null /\ Operation(ApplyStepOffset(k, x))
              \/ Operation(NotifyExternalTimeStep(k, x, steady))

Compensate == \E comp \in ClockComps : comp # k.temp /\ Operation(SetTempComp(k, comp))

\* fire_end_of_slew, at the scheduled time or late.
EndOfSlew ==
    /\ ~k.null /\ k.dur > 0 /\ k.el >= k.dur
    /\ k' = UpdateSlew(k)
    /\ UNCHANGED ops

\* Time passes: the kernel works off a fast slew; the null driver banks its
\* offset when it is read after a long time.
ClockTick ==
    /\ IF k.null THEN TRUE ELSE k.dur > 0 /\ k.el < k.dur + MaxLate
    /\ LET c == [k EXCEPT !.el = @ + 1,
                          !.fast = Sgn(@) * (IF Magnitude(@) > FastRate THEN Magnitude(@) - FastRate ELSE 0),
                          !.sm.el = IF k.sm.el >= Magnitude(k.sm.off) THEN @ ELSE @ + 1]
       IN  k' = IF k.null /\ c.el > NullInterval THEN BankOffset(c) ELSE c
    /\ (k.null => Magnitude(k.reg) <= 4 * MaxDuration * MaxDrift)
    /\ UNCHANGED ops

ClockStep == Adjust \/ Step \/ Compensate \/ EndOfSlew \/ ClockTick
ClockNext == ClockStep
ClockSpec == ClockInit /\ [][ClockNext]_clockvars
ClockFairness == WF_clockvars(ClockTick) /\ WF_clockvars(EndOfSlew)
ClockFairSpec == ClockSpec /\ ClockFairness
-----------------------------------------------------------------------------
\* Properties.

\* Type invariant of the clock.
ClockTypeOK ==
    /\ k.reg \in Int /\ k.slew \in Int /\ k.el \in Nat /\ k.excess \in Nat
    /\ k.dur \in 0..MaxDuration
    /\ k.sm.locked => k.sm.off = 0
    /\ k.null => k.fast = 0 /\ k.slew = -k.base

\* Whatever the mixture of slews, steps, leaps, compensation and late timeouts,
\* cooked time and the frequency have moved by exactly what the handlers of
\* clock changes were told (local.rs invoke_parameter_change_handlers): ending
\* or replacing a slew half way (sys_generic.rs update_slew) moves nothing, and
\* local.rs's idea of the frequency is the driver's base frequency.
ClockExact == k.err = 0 /\ k.ferr = 0 /\ k.base = k.cur

\* The driver is never asked for more than max_freq, and a slew never runs
\* faster than max_corr_freq (sys_generic.rs clamp_freq, update_slew).
ClockSlewBounded ==
    ~k.null => Magnitude(k.base + k.slew) <= MaxFreq /\ Magnitude(k.slew) <= MaxCorrFreq

\* The served time at an instant: cooked time plus the smoothing offset.
Served(c) == Correction(c) + SmoothOffset(c)

\* Once smoothing is active, no adjustment of the clock is visible in the
\* served time (smooth.rs handle_slew folds it in); with leap-only smoothing
\* the same holds of an inserted leap second the clock slews away.
ClockServedContinuous ==
    [][(/\ ops' # ops /\ ~k.sm.locked
        /\ \E x \in ClockOffsets \cup {Correction(k)}, rate \in CorrRates, steady \in BOOLEAN :
             IF k.leapOnly THEN k' = LeapSlew(k, 1, steady)
             ELSE k' = AccumulateOffset(k, x, rate, steady))
       => (Served(k') = Served(k))]_clockvars

\* After LCL_MakeStep no correction is outstanding: it was moved from the slew
\* into the step, not applied twice (local.rs make_step).
ClockMakeStepClears ==
    [][(ops' # ops /\ \E works \in BOOLEAN, steady \in BOOLEAN :
            (works => ~k.null) /\ k' = MakeStep(k, works, steady))
       => (Correction(k') = 0)]_clockvars

\* When the rest of the daemon leaves the clock alone, the outstanding offset
\* is worked off although every timeout may fire late (sys_generic.rs: the
\* excess of earlier slews stretches the next one).
ClockConverges == <>[](k.null \/ Magnitude(Correction(k)) <= MinOffset)
=============================================================================
