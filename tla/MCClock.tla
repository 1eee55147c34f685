--------------------------------- MODULE MCClock ---------------------------------
(*
  The reference (reference.rs) and the clocks below and beside it: the local clock with its
  drivers, the kernel, manual input and the real-time clock. They share nothing in these
  instances, so one of them runs per behaviour.
*)
EXTENDS Reference, LocalClock, ManualRtc

BothWays == {-3, 3}
TwoBothWays == {-2, 2}

VARIABLES part,   \* the component that runs in this behaviour
          fd_now, fd_age, fd_updated, fd_mode, fd_result, fd_sync, fd_kernel, fd_leap, fd_fb,
          fd_step_limit, fd_offset_delay, fd_offset_ignore, fd_granted, fd_steps,
          kc_rtcsync, kc_sys_status, kc_kernel, kc_wanted

driftsVars == <<fd_now, fd_age, fd_updated, fd_mode, fd_result, fd_sync, fd_kernel, fd_leap,
                fd_fb, fd_step_limit, fd_offset_delay, fd_offset_ignore, fd_granted, fd_steps>>
kernelVars == <<kc_rtcsync, kc_sys_status, kc_kernel, kc_wanted>>

\* The reference without leap seconds and with two fallback drifts.
Drifts == INSTANCE Reference WITH
    Modes <- {"normal"}, LeapMode <- "step", DaySecs <- 6, LeapDays <- {}, LeapSecondClose <- 2,
    LeapEndDelay <- 1, Leaps <- {"normal", "unsynchronised"}, Offsets <- {0}, Steps <- {3},
    InitStepThreshold <- 1, MakeStepThreshold <- 1, MaxOffset <- 1, StepLimits <- {1},
    OffsetDelay <- 1, OffsetIgnore <- 1, FbMin <- 1, FbMax <- 2, MaxAge <- 4, MaxTime <- 8,
    now <- fd_now, age <- fd_age, updated <- fd_updated, mode <- fd_mode, result <- fd_result,
    sync <- fd_sync, kernel <- fd_kernel, leap <- fd_leap, fb <- fd_fb,
    step_limit <- fd_step_limit, offset_delay <- fd_offset_delay,
    offset_ignore <- fd_offset_ignore, granted <- fd_granted, steps <- fd_steps
Kernel == INSTANCE KernelClock WITH
    rtcsync <- kc_rtcsync, sys_status <- kc_sys_status, kernel <- kc_kernel, wanted <- kc_wanted

\* One component runs; the others stay in an initial state.
MCInit ==
    /\ part \in {"reference", "drifts", "clock", "kernel", "manual"}
    /\ part = "reference" \/ (age = 0 /\ mode = "normal")
    /\ Init
    /\ part = "drifts" \/ (fd_age = 0)
    /\ Drifts!Init
    /\ ClockInit
    /\ part = "clock" \/ (~(k.canFast \/ k.null \/ k.leapOnly))
    /\ part = "kernel" \/ (kc_rtcsync = TRUE)
    /\ Kernel!KcInit
    /\ part = "manual" \/ (sysErr = 0 /\ rtcErr = 0 /\ enabled = TRUE)
    /\ MrInit

mcvars == <<part, vars, driftsVars, clockvars, kernelVars, mrvars>>

MCNext ==
    \/ part = "reference" /\ Next /\ UNCHANGED <<part, driftsVars, clockvars, kernelVars, mrvars>>
    \/ part = "drifts" /\ Drifts!Next /\ UNCHANGED <<part, vars, clockvars, kernelVars, mrvars>>
    \/ part = "clock" /\ ClockNext /\ UNCHANGED <<part, vars, driftsVars, kernelVars, mrvars>>
    \/ part = "kernel" /\ Kernel!KcNext /\ UNCHANGED <<part, vars, driftsVars, clockvars, mrvars>>
    \/ part = "manual" /\ MrNext /\ UNCHANGED <<part, vars, driftsVars, clockvars, kernelVars>>
    \* these may stop: a table nobody changes, a bounded exchange that is over
    \/ part \in {"clock", "kernel", "manual"} /\ UNCHANGED mcvars

\* The fairness of each component, for the component that runs.
MCFairness ==
    /\ WF_vars(part = "reference" /\ Tick)
    /\ WF_vars(part = "reference" /\ LeapTimeout)
    /\ WF_vars(part = "reference" /\ FbDriftTimeout)
    /\ WF_clockvars(part = "clock" /\ ClockTick)
    /\ WF_clockvars(part = "clock" /\ EndOfSlew)
MCSpec == MCInit /\ [][MCNext]_mcvars /\ MCFairness

------------------------------------------------------------------------------
\* Reference: Type invariant of the reference: its timers are idle (-1) or count down.
\* LocalClock: Type invariant of the clock.
\* LocalClock: The driver is never asked for more than max_freq, and a slew never runs faster than
\* max_corr_freq (sys_generic.rs clamp_freq, update_slew).
\* KernelClock: The two users of the status word never undo each other: whatever the order of
\* calls, the kernel has the leap second asked for last armed and is marked synchronised exactly
\* when asked to be (and rtcsync allows it).
\* Reference: When the fallback drift timeout is pending, the drift it will use exists and has been
\* averaged over its whole time (fb_drift_timeout indexes fb_drifts by next_fb_drift -
\* fb_drift_min).
\* Reference: The kernel is never told other than what the module itself holds (update_sync_status,
\* set_unsynchronised).
\* LocalClock: Once smoothing is active, no adjustment of the clock is visible in the served time
\* (smooth.rs handle_slew folds it in); with leap-only smoothing the same holds of an inserted leap
\* second the clock slews away.
\* LocalClock: After LCL_MakeStep no correction is outstanding: it was moved from the slew into the
\* step, not applied twice (local.rs make_step).
ClockTold ==
    /\ [](part = "reference" => TypeOK)
    /\ [](part = "clock" => ClockTypeOK)
    /\ [](part = "clock" => ClockSlewBounded)
    /\ [](part = "kernel" => Kernel!KcStatusBoth)
    /\ [](part = "drifts" => Drifts!FbTimerMatches)
    /\ [](part = "reference" => KernelMatches)
    /\ ClockServedContinuous
    /\ ClockMakeStepClears
\* Reference: However long the sources go on announcing it, an update never arms a leap second for
\* the end of a day that has none; after a leap second it is not armed again (update_leap_status).
\* Reference: A leap second that began ends (leap_end_timeout).
LeapOnDayAndEnds ==
    /\ LeapOnLeapDay
    /\ LeapEnds
==============================================================================
