------------------------------ MODULE ManualRtc ------------------------------
(***************************************************************************)
(* manual.rs (times entered by the operator) and rtc.rs, rtc_linux.rs (the *)
(* battery-backed clock): two records of samples kept across adjustments   *)
(* of the system clock.  The system clock shows real + sysErr and the RTC  *)
(* real + rtcErr, in whole seconds; the rates are taken to be right.  The  *)
(* operator enters the true time.                                          *)
(***************************************************************************)
EXTENDS Integers, Sequences, FiniteSets

CONSTANTS ManMax, ManSeparation,        \* manual.rs: MAX_SAMPLES, MIN_SAMPLE_SEPARATION
          RtcMax, RtcDrop, RtcEvery,    \* MAX_SAMPLES, NEW_FIRST_WHEN_FULL, regression interval
          Errors, MrSteps,              \* errors of the clocks; steps of the system clock
          MaxT, MaxFast                 \* bounds: true time, the estimate of the RTC

ASSUME MrAssumption ==
    /\ {ManMax, RtcMax, RtcEvery} \subseteq Nat \ {0} /\ RtcDrop \in 0..RtcMax
    /\ Errors \subseteq Int /\ MrSteps \subseteq Int

VARIABLES real,                 \* true time
          sysErr, rtcErr,       \* errors of the system clock and of the RTC
          enabled, man,         \* Manual
          rtc,                  \* RtcRegression: samples, since_regression
          coefs,                \* coefs_valid, coef_seconds_fast
          known                 \* history: no unknown step since the coefficients were made

mrvars == <<real, sysErr, rtcErr, enabled, man, rtc, coefs, known>>

NoCoefs == [valid |-> FALSE, fast |-> 0]
NoRtc == [samples |-> <<>>, since |-> 0]

MrInit ==
    /\ real = 1 /\ sysErr \in Errors /\ rtcErr \in Errors
    /\ enabled \in BOOLEAN /\ man = <<>>
    /\ rtc = NoRtc /\ coefs = NoCoefs /\ known = TRUE

MrTick == real < MaxT /\ real' = real + 1 /\ UNCHANGED <<sysErr, rtcErr, enabled, man, rtc, coefs, known>>

\* accept_timestamp: a sample at least a second after the last; the oldest is
\* shifted out when the record is full.  (The estimate it returns is applied by
\* the caller: StepClock.)
AcceptTimestamp ==
    /\ enabled
    /\ man # <<>> => (real + sysErr) - man[Len(man)].when >= ManSeparation
    /\ man' = Append(IF Len(man) = ManMax THEN Tail(man) ELSE man, [when |-> real + sysErr, offset |-> sysErr])
    /\ UNCHANGED <<real, sysErr, rtcErr, enabled, rtc, coefs, known>>

\* delete_sample, reset, enable, disable.
DeleteSample(i) ==
    /\ i \in DOMAIN man
    /\ man' = SubSeq(man, 1, i - 1) \o SubSeq(man, i + 1, Len(man))
    /\ UNCHANGED <<real, sysErr, rtcErr, enabled, rtc, coefs, known>>
ManualReset == man' = <<>> /\ UNCHANGED <<real, sysErr, rtcErr, enabled, rtc, coefs, known>>
Enable(on) == enabled' = on /\ UNCHANGED <<real, sysErr, rtcErr, man, rtc, coefs, known>>

\* Mutant: the time of a sample is moved, its offset is not.
ManSlewedTimes(d) == [i \in DOMAIN man |-> [man[i] EXCEPT !.when = @ - d]]

\* Manual.slew_samples.
ManSlewed(d) == [i \in DOMAIN man |-> [man[i] EXCEPT !.when = @ - d, !.offset = @ - d]]

\* RtcRegression.slew_samples.
RtcSlewed(d) ==
    [samples |-> [i \in DOMAIN rtc.samples |-> [rtc.samples[i] EXCEPT !.sys = @ - d]],
     coefs |-> IF coefs.valid THEN [coefs EXCEPT !.fast = @ + d] ELSE coefs]

\* The clock is stepped by d (subtracted), and the change handlers run.
StepClock(d) ==
    /\ sysErr - d \in Errors
    /\ sysErr' = sysErr - d
    /\ man' = ManSlewed(d)
    /\ rtc' = [rtc EXCEPT !.samples = RtcSlewed(d).samples] /\ coefs' = RtcSlewed(d).coefs
    /\ coefs'.fast \in -MaxFast..MaxFast
    /\ UNCHANGED <<real, rtcErr, enabled, known>>

\* The clock was stepped by someone else: both records are dropped; the RTC
\* coefficients stay as they are (the size of the step is not known).
UnknownStep(to) ==
    /\ sysErr' = to /\ man' = <<>>
    /\ rtc' = [rtc EXCEPT !.samples = <<>>]
    /\ known' = FALSE
    /\ UNCHANGED <<real, rtcErr, enabled, coefs>>

\* accumulate_sample.
Accumulated ==
    LET kept   == IF Len(rtc.samples) = RtcMax THEN SubSeq(rtc.samples, RtcDrop + 1, RtcMax) ELSE rtc.samples
        usable == IF kept # <<>> /\ kept[Len(kept)].rtc >= real + rtcErr THEN <<>> ELSE kept
    IN Append(usable, [rtc |-> real + rtcErr, sys |-> real + sysErr])

\* run_regression: the fit may fail; on samples that agree its intercept is
\* their offset.  It may drop old samples.
RunRegression(s) ==
    \/ rtc' = [samples |-> s, since |-> 0] /\ UNCHANGED <<coefs, known>>
    \/ /\ \E start \in 0..(Len(s) - 1) : rtc' = [samples |-> SubSeq(s, start + 1, Len(s)), since |-> 0]
       /\ coefs' = [valid |-> TRUE, fast |-> s[1].rtc - s[1].sys]
       /\ known' = TRUE

\* process_reading: a regression every RtcEvery readings.
ProcessReading ==
    /\ IF rtc.since + 1 >= RtcEvery THEN RunRegression(Accumulated)
       ELSE rtc' = [samples |-> Accumulated, since |-> rtc.since + 1] /\ UNCHANGED <<coefs, known>>
    /\ UNCHANGED <<real, sysErr, rtcErr, enabled, man>>

\* trim: the RTC is set to the system time and the record starts again
\* (handle_relock_after_trim).
Trim == rtcErr' = sysErr /\ rtc' = NoRtc /\ coefs' = NoCoefs /\ known' = TRUE /\ UNCHANGED <<real, sysErr, enabled, man>>

MrNext == \/ MrTick \/ AcceptTimestamp \/ ManualReset \/ ProcessReading \/ Trim
          \/ \E i \in 1..ManMax : DeleteSample(i)
          \/ \E on \in BOOLEAN : Enable(on)
          \/ \E d \in MrSteps : StepClock(d)
          \/ \E to \in Errors : UnknownStep(to)

MrSpec == MrInit /\ [][MrNext]_mrvars

----------------------------------------------------------------------------
(* Properties *)

\* Every manual sample still says how wrong the clock is now, though the clock
\* was stepped (even by the sample's own estimate) after it was entered; no
\* sample is from the future, so the next entry is not refused.
ManualSamplesCurrent ==
    \A i \in DOMAIN man : man[i].offset = sysErr /\ man[i].when <= real + sysErr /\ Len(man) <= ManMax

\* The RTC samples never mix readings from before and after a step or a trim:
\* each shows the present difference between the two clocks.
RtcSamplesCurrent == \A i \in DOMAIN rtc.samples : rtc.samples[i].rtc - rtc.samples[i].sys = rtcErr - sysErr

\* The stored estimate of how fast the RTC is holds after any known step.
RtcCoefsCurrent == coefs.valid /\ known => coefs.fast = rtcErr - sysErr

\* What the operator and the RTC said is about the clocks as they are now: the
\* three above, in every order of entries, readings, steps, trims and resets.
SamplesCurrent == ManualSamplesCurrent /\ RtcSamplesCurrent /\ RtcCoefsCurrent

=============================================================================
