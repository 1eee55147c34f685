-------------------------------- MODULE MCNetwork --------------------------------
(*
  The client side of NTP and NTS, and what becomes of measurements: one component runs per
  behaviour.
*)
EXTENDS NtpManager, NtpInstance, NtsClient, HwClock

BothWays == {-1, 1}
LowestPoll == -1
PollAdjustments == {-8, -4, -1, 1, 3, 9}
SlewsOfServer == {2, -1}
Names == 1..9

VARIABLES part,   \* the component that runs in this behaviour
          ss_st, ss_err, ss_taken, ss_hist, ss_dump, ss_other,
          qt_quants, qt_n_set, qt_seen,
          rc_rc, rc_filter, rc_now, rc_error, rc_started, rc_given

statsVars == <<ss_st, ss_err, ss_taken, ss_hist, ss_dump, ss_other>>
quantilesVars == <<qt_quants, qt_n_set, qt_seen>>
refclockVars == <<rc_rc, rc_filter, rc_now, rc_error, rc_started, rc_given>>

\* The samples of a source, the quantiles of delays, and reference clocks.
Stats == INSTANCE SourceStats WITH
    SstCap <- 3, SstMin <- 2, SstMax <- 3, MinRegress <- 2, FixedMinDelay <- 2,
    SstDelays <- {1, 2}, SstSlews <- {1}, SstMaxTaken <- 5, SstMaxErr <- 1, SstMaxOther <- 2,
    MinK <- 1, MaxK <- 3, Repeat <- 1, QValues <- {0, 1, 2}, QMaxStep <- 2, st <- ss_st,
    err <- ss_err, taken <- ss_taken, hist <- ss_hist, dump <- ss_dump, other <- ss_other,
    quants <- qt_quants, n_set <- qt_n_set, seen <- qt_seen
Rc == INSTANCE Refclock WITH
    FilterMin <- 1, FilterMax <- 2, CombineRatio <- 60, Kilo <- 1, Clocks <- {0, 1}, Second <- 4,
    LockLimit <- 1, Noises <- {0, 1}, Delays <- {0, 5}, Slews <- {2, -2}, RcMaxTime <- 3,
    RcMaxError <- 2, rc <- rc_rc, filter <- rc_filter, now <- rc_now, error <- rc_error,
    started <- rc_started, given <- rc_given

\* One component runs; the others stay in an initial state.
MCInit ==
    /\ part \in {"manager", "poll", "mode", "tx", "mono", "stats", "quantiles", "refclock",
                  "nts", "hardware", "loop"}
    /\ NtpInit
    /\ part = "manager" \/ (Denied = {} /\ mode["s"] = "client")
    /\ InstInit /\ (part = "poll" \/ (par.minpoll = 0 /\ par.maxpoll = 1 /\ ~par.nonlan))
    /\ part \in {"poll", "mode", "tx", "mono"} \/ (par = CreateConfig(0, 1, "client", FALSE) /\ opmode = "Online")
    /\ Stats!SstInit
    /\ Stats!QuantInit
    /\ Rc!RcInit
    /\ part = "refclock" \/ (rc_rc[0].dpoll = 0 /\ rc_rc[1].lock = 0)
    /\ NtsInit
    /\ part = "nts" \/ (real = FALSE)
    /\ HwInit
    /\ SyncInit

mcvars == <<part, ntpvars, instvars, statsVars, quantilesVars, refclockVars, ntsvars, hwvars, syncvars>>

MCNext ==
    \/ part = "manager" /\ NtpNext /\ UNCHANGED <<part, instvars, statsVars, quantilesVars, refclockVars, ntsvars, hwvars,
                  syncvars>>
    \/ part = "poll" /\ PollNext /\ UNCHANGED <<part, ntpvars, statsVars, quantilesVars, refclockVars, ntsvars, hwvars,
                  syncvars>>
    \/ part = "mode" /\ ModeNext /\ UNCHANGED <<part, ntpvars, statsVars, quantilesVars, refclockVars, ntsvars, hwvars,
                  syncvars>>
    \/ part = "tx" /\ TxNext /\ UNCHANGED <<part, ntpvars, statsVars, quantilesVars, refclockVars, ntsvars, hwvars,
                  syncvars>>
    \/ part = "mono" /\ MonoNext /\ UNCHANGED <<part, ntpvars, statsVars, quantilesVars, refclockVars, ntsvars, hwvars,
                  syncvars>>
    \/ part = "stats" /\ Stats!SstNext /\ UNCHANGED <<part, ntpvars, instvars, quantilesVars, refclockVars, ntsvars, hwvars,
                  syncvars>>
    \/ part = "quantiles" /\ Stats!QuantNext /\ UNCHANGED <<part, ntpvars, instvars, statsVars, refclockVars, ntsvars, hwvars, syncvars>>
    \/ part = "refclock" /\ Rc!RcNext /\ UNCHANGED <<part, ntpvars, instvars, statsVars, quantilesVars, ntsvars, hwvars, syncvars>>
    \/ part = "nts" /\ NtsNext /\ UNCHANGED <<part, ntpvars, instvars, statsVars, quantilesVars, refclockVars, hwvars,
                  syncvars>>
    \/ part = "hardware" /\ HwNext /\ UNCHANGED <<part, ntpvars, instvars, statsVars, quantilesVars, refclockVars, ntsvars,
                  syncvars>>
    \/ part = "loop" /\ SyncNext /\ UNCHANGED <<part, ntpvars, instvars, statsVars, quantilesVars, refclockVars, ntsvars,
                  hwvars>>

MCSpec == MCInit /\ [][MCNext]_mcvars

------------------------------------------------------------------------------
\* NtpManager: Every per-source field keeps its range: the register never leaves its REACH_BITS
\* bits, and no timestamp lies in the future.
\* NtpManager: The reachability register of a source is exactly its recent history: bit k (counted
\* from the newest) says whether anything acceptable by mode arrived between the poll k+1 back and
\* the one after it, however many copies came, and reachability_size counts the polls up to
\* REACH_BITS.
\* SourceStats: Type invariant: the rings are never over-full.
\* SourceStats: The register holds exactly the newest samples since the last reset, in order,
\* whatever was pruned, wrapped or loaded; the two rings agree about which sample is which
\* (sourcestats.rs get_runsbuf_index, get_buf_index).
\* SourceStats: min_delay_sample is the smallest delay of every sample held, also after pruning
\* dropped the one that was smallest (sourcestats.rs prune_register, find_min_delay_sample); the
\* best sample is one of the register's.
\* SourceStats: However the clock was corrected, every sample held, the reserve of the runs test
\* included, and the estimate still state the clock's present error, and the true time of the
\* measurement (sourcestats.rs slew_samples).
\* SourceStats: An estimate never leaves the range of the values it was made of, however long the
\* steps have grown and whichever estimators the random numbers move.
\* SourceStats: While the estimator fills, its groups hold the values in order: the quantiles do
\* not decrease with k.
\* Refclock: Type invariant of the reference clocks.
\* Refclock: Every sample held for a pulse clock is the true error of the clock, second included,
\* however the clock was slewed since the sample that gave the second was taken and since the pulse
\* (refclock.rs add_cooked_pulse, on_slew; samplefilt.rs slew_samples adjusts the last sample of an
\* empty window too).
\* Refclock: A whole-time clock's samples stay within the noise of the error (refclock.rs on_slew
\* reaches every filter), and so does what is forwarded to its source.
\* Refclock: The window of a polled clock spans its whole poll interval: the polls counted since
\* the last window are fewer than a window has (refclock.rs poll_timeout).
RegistersExact ==
    /\ (part = "manager" => NtpTypeOK)
    /\ (part = "manager" => NtpReachExact)
    /\ (part = "stats" => Stats!SstTypeOK)
    /\ (part = "stats" => Stats!SstRegisterExact)
    /\ (part = "stats" => Stats!SstExtremesHeld)
    /\ (part = "stats" => Stats!SstRebased)
    /\ (part = "quantiles" => Stats!QuantInRange)
    /\ (part = "quantiles" => Stats!QuantOrderedWhileFilling)
    /\ (part = "refclock" => Rc!RcTypeOK)
    /\ (part = "refclock" => Rc!RcPulsesExact)
    /\ (part = "refclock" => Rc!RcSamplesExact)
    /\ (part = "refclock" => Rc!RcWindowBounded)
==============================================================================
