----------------------------- MODULE Reference -----------------------------
(***************************************************************************)
(* The reference module (reference.rs): whether the clock is synchronised, *)
(* the special start-up modes, the limits on steps and offsets, the leap   *)
(* second state machine and the fallback drifts.                           *)
(*                                                                         *)
(* Time is in seconds of the raw clock, DaySecs to a day.  Timers are held *)
(* as the time left (-1: none), as the scheduler keeps them over a step.   *)
(* The host calls on_slew for a step before it dispatches another event.   *)
(* Frequencies, skews, dispersions, logs, drift file, leap second zone and *)
(* the local reference are left out; a step of the clock is always made.   *)
(***************************************************************************)
EXTENDS Integers, FiniteSets

CONSTANTS
  Modes,           \* the mode set before the first event
  LeapMode,        \* leap_mode: "system", "slew", "step" or "ignore"
  DaySecs,         \* seconds of a day
  LeapDays,        \* the days, counted from 0, that is_leap_second_day accepts
  LeapSecondClose, \* LEAP_SECOND_CLOSE
  LeapEndDelay,    \* the delay of the timeout that ends a leap second
  Leaps,           \* what the selected sources announce
  Offsets,         \* offsets of an update, in seconds
  Steps,           \* steps of the clock by others
  InitStepThreshold, MakeStepThreshold, MaxOffset,
  StepLimits,      \* make_step_limit, configured or modified
  OffsetDelay,     \* max_offset_delay
  OffsetIgnore,    \* max_offset_ignore
  FbMin, FbMax,    \* fallbackdrift, as powers of two; FbMin = 0: none
  MaxAge,          \* bound: the time since an update is counted up to here
  MaxTime          \* bound of the clock

AllModes == {"normal", "initstepslew", "updateonce", "printonce", "ignore"}
AllLeaps == {"normal", "insert", "delete", "unsynchronised"}

ASSUME ReferenceAssumption ==
  /\ Modes \subseteq AllModes /\ Leaps \subseteq AllLeaps
  /\ LeapMode \in {"system", "slew", "step", "ignore"}
  /\ DaySecs \in Nat \ {0} /\ LeapSecondClose \in Nat /\ LeapEndDelay \in Nat
  /\ Offsets \subseteq Int /\ Steps \subseteq Int /\ StepLimits \subseteq Int
  /\ InitStepThreshold \in Nat /\ MakeStepThreshold \in Nat /\ MaxOffset \in Nat
  /\ OffsetDelay \in Int /\ OffsetIgnore \in Int
  /\ FbMin \in Nat /\ FbMax \in Nat /\ MaxAge \in Nat /\ MaxTime \in Nat

VARIABLES
  now,          \* the raw clock
  age,          \* mono_now - last_ref_update
  updated,      \* last_ref_update # 0
  mode, result, \* mode, and mode_end_result (-1: none)
  sync,         \* are_we_synchronised
  kernel,       \* the synchronisation status the kernel was last told
  leap,         \* leap second: [sec, status, when, in_progress, kind, left]
  fb,           \* fallback drifts: [secs, next, left]
  step_limit,   \* make_step_limit
  offset_delay, offset_ignore,
  granted,      \* history: the last limit set
  steps         \* history: steps of updates since then

vars == <<now, age, updated, mode, result, sync, kernel, leap, fb, step_limit, offset_delay,
          offset_ignore, granted, steps>>

Indices == FbMin..FbMax
HasFb == FbMin > 0 /\ FbMin <= FbMax
Timer == Nat \cup {-1}

LeapState == [sec : {-1, 0, 1}, status : AllLeaps, when : Int, in_progress : BOOLEAN,
              kind : {"start", "end"}, left : Timer]
FbState == [secs : [Indices -> Nat], next : Nat, left : Timer]

\* Type invariant of the reference: its timers are idle (-1) or count down.
TypeOK ==
  /\ now \in Int /\ age \in Nat /\ updated \in BOOLEAN
  /\ mode \in AllModes /\ result \in {-1, 0, 1}
  /\ sync \in BOOLEAN /\ kernel \in BOOLEAN
  /\ leap \in LeapState /\ fb \in FbState
  /\ step_limit \in Int /\ offset_delay \in Int /\ offset_ignore \in Int
  /\ granted \in Int /\ steps \in Nat

\* initialise, then set_mode.
Init ==
  /\ now = 1 /\ age \in 0..MaxAge /\ updated = FALSE
  /\ mode \in Modes /\ result = -1
  /\ sync = FALSE /\ kernel = FALSE
  /\ leap = [sec |-> 0, status |-> "unsynchronised", when |-> 0, in_progress |-> FALSE,
             kind |-> "start", left |-> -1]
  /\ fb = [secs |-> [i \in Indices |-> 0], next |-> 0, left |-> -1]
  /\ step_limit \in StepLimits /\ granted = step_limit /\ steps = 0
  /\ offset_delay = OffsetDelay /\ offset_ignore = OffsetIgnore

Abs(n) == IF n < 0 THEN -n ELSE n
AtLeast0(n) == IF n < 0 THEN 0 ELSE n

-----------------------------------------------------------------------------
(* Leap seconds: each operator gives the new state of l. *)

IsLeapSecondDay(t) == t \div DaySecs \in LeapDays

\* is_leap_close, is_leap_second_close
IsLeapClose(l, t) == l.when # 0 /\ l.when - LeapSecondClose <= t /\ t < l.when + LeapSecondClose

\* Mutant: the timeout of an earlier announcement is left pending.
SetLeapTimeoutStale(l, t) ==
  LET when == (t \div DaySecs + 1) * DaySecs
      due  == when - (IF l.sec < 0 THEN 1 ELSE 0) - (IF LeapMode = "system" THEN 1 ELSE 0)
  IN IF l.sec = 0 THEN [l EXCEPT !.in_progress = FALSE]
     ELSE [l EXCEPT !.in_progress = FALSE, !.when = when, !.kind = "start", !.left = AtLeast0(due - t)]

\* set_leap_timeout at the time t: at the end of the day, before it for a
\* second that is deleted or left to the kernel (half a second, taken as one).
SetLeapTimeout(l, t) ==
  LET when == (t \div DaySecs + 1) * DaySecs
      due  == when - (IF l.sec < 0 THEN 1 ELSE 0) - (IF LeapMode = "system" THEN 1 ELSE 0)
  IN IF l.sec = 0 THEN [l EXCEPT !.left = -1, !.in_progress = FALSE]
     ELSE [l EXCEPT !.in_progress = FALSE, !.when = when, !.kind = "start", !.left = AtLeast0(due - t)]

\* update_leap_status at the time t of the update and clock of the last event.
UpdateLeapStatus(l, status, t, clock, reset) ==
  LET leaping == status \in {"insert", "delete"}
      sec == IF leaping /\ IsLeapSecondDay(t) THEN (IF status = "insert" THEN 1 ELSE -1) ELSE 0
      new == IF sec # l.sec /\ ~ IsLeapClose(l, clock) THEN SetLeapTimeout([l EXCEPT !.sec = sec], t)
             ELSE IF reset THEN SetLeapTimeout(l, t) ELSE l
  IN [new EXCEPT !.status = IF leaping /\ ~ IsLeapSecondDay(t) THEN "normal" ELSE status]

\* The last lines of on_slew, after a step to the time t.
LeapAfterStep(l, t) ==
  IF l.sec # 0 /\ ~ l.in_progress THEN UpdateLeapStatus(l, l.status, t, t, TRUE) ELSE l

\* Mutant: the flag of the leap second outlives it.
LeapEndedFlag(l) ==
  [l EXCEPT !.left = -1, !.sec = 0,
            !.status = IF @ \in {"insert", "delete"} THEN "normal" ELSE @]

\* leap_end_timeout
LeapEnded(l) ==
  [l EXCEPT !.left = -1, !.in_progress = FALSE, !.sec = 0,
            !.status = IF @ \in {"insert", "delete"} THEN "normal" ELSE @]

\* leap_start_timeout; only leap mode step moves the clock at once.
LeapStarted(l) == [l EXCEPT !.in_progress = TRUE, !.kind = "end", !.left = LeapEndDelay]

-----------------------------------------------------------------------------
(* Fallback drifts. *)

\* update_fb_drifts after interval seconds.  The test against four times the
\* last interval never holds: that interval was already replaced by this one.
UpdateFbDrifts(f, interval) ==
  [f EXCEPT !.next = 0, !.left = -1,
            !.secs = [i \in Indices |-> IF interval >= 1 /\ f.secs[i] < 2^i
                                        THEN f.secs[i] + interval \div 2 ELSE f.secs[i]]]

\* The drifts averaged over their time.
Full(f) == {i \in Indices : f.secs[i] >= 2^i}

\* schedule_fb_drift, unsynchronised for a time: the states it can lead to
\* (one).  The loop stops at the drift stop, or runs to the end; last is the
\* longest one before that.
ScheduleFbDrift(f, unsync) ==
  LET waits(i) == i \in Full(f) /\ unsync < 2^i /\ i > f.next
      stops == {i \in Indices \cup {FbMax + 1} :
                  (i = FbMax + 1 \/ waits(i)) /\ \A j \in Indices : waits(j) => i <= j}
      lasts(i) == {c \in Full(f) \cup {0} : c < i /\ \A j \in Full(f) : j < i => j <= c}
      at(i, c) == IF i <= FbMax THEN [f EXCEPT !.next = i, !.left = 2^i - unsync]
                  ELSE [f EXCEPT !.next = IF c > @ THEN c ELSE @]
  IN IF f.left # -1 THEN {f} ELSE UNION {{at(i, c) : c \in lasts(i)} : i \in stops}

-----------------------------------------------------------------------------
(* The operations. *)

\* end_ref_mode
EndRefMode(r) == mode' = "ignore" /\ result' = r

\* special_mode_sync: a step is followed by on_slew.
SpecialModeSync(valid, offset) ==
  LET stepping == /\ valid
                  /\ \/ mode = "updateonce"
                     \/ mode = "initstepslew" /\ Abs(offset) >= InitStepThreshold
  IN /\ mode # "normal"
     /\ IF mode = "ignore" THEN UNCHANGED <<mode, result>> ELSE EndRefMode(IF valid THEN 1 ELSE 0)
     /\ now' = IF stepping THEN now - offset ELSE now
     /\ leap' = IF stepping THEN LeapAfterStep(leap, now - offset) ELSE leap
     /\ UNCHANGED <<age, updated, sync, kernel, fb, step_limit, offset_delay, offset_ignore, granted, steps>>

\* is_offset_ok
IsOffsetOk(offset) == offset_delay # 0 \/ Abs(offset) <= MaxOffset

\* set_reference with an offset that is not allowed
RejectReference(offset) ==
  /\ mode = "normal" /\ ~ IsOffsetOk(offset)
  /\ IF offset_ignore = 0 THEN EndRefMode(0) ELSE UNCHANGED <<mode, result>>
  /\ offset_ignore' = IF offset_ignore > 0 THEN offset_ignore - 1 ELSE offset_ignore
  /\ UNCHANGED <<now, age, updated, sync, kernel, leap, fb, step_limit, offset_delay, granted, steps>>

\* Mutant: the last update of the limit is not counted.
StepLimitLast == IF step_limit > 1 THEN step_limit - 1 ELSE step_limit

\* is_step_limit_reached, what it leaves of the limit: every update counts.
StepLimit == IF step_limit > 0 THEN step_limit - 1 ELSE step_limit

\* update_sync_status
KernelStatus(status) == status # "unsynchronised"

\* set_reference with a new state of the clock, from sources or by hand
\* (set_manual_reference, which announces "unsynchronised").  The time of the
\* update was read before a step, on_slew comes after it.
AcceptReference(status, offset, correction) ==
  LET stepping == step_limit # 0 /\ Abs(offset - correction) > MakeStepThreshold
      clock == IF stepping THEN now - (offset - correction) ELSE now
      l == UpdateLeapStatus(leap, status, now, now, FALSE)
      f == UpdateFbDrifts(fb, IF updated THEN age ELSE 0)
  IN /\ mode = "normal" /\ IsOffsetOk(offset)
     /\ clock \in 1..MaxTime
     /\ offset_delay' = IF offset_delay > 0 THEN offset_delay - 1 ELSE offset_delay
     /\ sync' = (status # "unsynchronised") /\ kernel' = KernelStatus(status)
     /\ age' = 0 /\ updated' = TRUE
     /\ step_limit' = StepLimit
     /\ steps' = IF stepping THEN steps + 1 ELSE steps
     /\ now' = clock
     /\ leap' = IF stepping THEN LeapAfterStep(l, clock) ELSE l
     /\ fb' \in IF HasFb /\ status # "unsynchronised" THEN ScheduleFbDrift(f, 0) ELSE {fb}
     /\ UNCHANGED <<mode, result, offset_ignore, granted>>

SetReference(status, offset, correction) ==
  \/ SpecialModeSync(TRUE, offset) /\ now - offset \in 1..MaxTime
  \/ RejectReference(offset)
  \/ AcceptReference(status, offset, correction)

\* set_unsynchronised in normal mode on the drifts f and the time without an
\* update; the time of the leap update is given as 0.
LoseSync(f, unsync) ==
  /\ mode = "normal"
  /\ fb' \in IF HasFb THEN ScheduleFbDrift(f, unsync) ELSE {f}
  /\ sync' = FALSE /\ kernel' = FALSE
  /\ UNCHANGED <<mode, result, step_limit, offset_delay, offset_ignore, granted, steps>>

SetUnsynchronised ==
  \/ SpecialModeSync(FALSE, 0)
  \/ /\ LoseSync(fb, age)
     /\ leap' = UpdateLeapStatus(leap, "unsynchronised", 0, now, FALSE)
     /\ UNCHANGED <<now, age, updated>>

\* update_leap_status_public
UpdateLeapStatusPublic(status) ==
  /\ sync
  /\ leap' = UpdateLeapStatus(leap, status, now, now, FALSE)
  /\ kernel' = sync
  /\ UNCHANGED <<now, age, updated, mode, result, sync, fb, step_limit, offset_delay, offset_ignore,
                 granted, steps>>

\* on_slew after a step of the clock by s
OnSlewStep(s) ==
  /\ now + s \in 1..MaxTime
  /\ now' = now + s
  /\ leap' = LeapAfterStep(leap, now + s)
  /\ UNCHANGED <<age, updated, mode, result, sync, kernel, fb, step_limit, offset_delay, offset_ignore,
                 granted, steps>>

\* on_slew after a step of unknown size: the time since the last update is
\* then the time since boot.
OnSlewUnknownStep(s) ==
  /\ now + s \in 1..MaxTime
  /\ now' = now + s
  /\ updated' = FALSE /\ age' \in age..MaxAge
  /\ \/ /\ LoseSync(fb, age')
        /\ leap' = LeapAfterStep(UpdateLeapStatus(leap, "unsynchronised", 0, now + s, FALSE), now + s)
     \/ /\ mode # "normal"
        /\ IF mode = "ignore" THEN UNCHANGED <<mode, result>> ELSE EndRefMode(0)
        /\ leap' = LeapAfterStep(leap, now + s)
        /\ UNCHANGED <<sync, kernel, fb, step_limit, offset_delay, offset_ignore, granted, steps>>

\* modify_makestep
ModifyMakestep(limit) ==
  /\ step_limit' = limit /\ granted' = limit /\ steps' = 0
  /\ UNCHANGED <<now, age, updated, mode, result, sync, kernel, leap, fb, offset_delay, offset_ignore>>

\* dispatch_timeout for the leap timeout: leap_start_timeout, leap_end_timeout.
LeapTimeout ==
  LET clock == IF leap.kind = "start" /\ LeapMode = "step" THEN now - leap.sec ELSE now
  IN /\ leap.left = 0
     /\ leap' = IF leap.kind = "start" THEN LeapStarted(leap) ELSE LeapEnded(leap)
     /\ now' = clock
     /\ UNCHANGED <<age, updated, mode, result, sync, kernel, fb, step_limit, offset_delay,
                    offset_ignore, granted, steps>>

\* dispatch_timeout for the fallback drift: the frequency of the drift is set.
FbDriftTimeout ==
  /\ fb.left = 0
  /\ \/ /\ LoseSync([fb EXCEPT !.left = -1], age)
        /\ leap' = UpdateLeapStatus(leap, "unsynchronised", 0, now, FALSE)
        /\ UNCHANGED <<now, age, updated>>
     \/ /\ mode # "normal"
        /\ IF mode = "ignore" THEN UNCHANGED <<mode, result>> ELSE EndRefMode(0)
        /\ fb' = [fb EXCEPT !.left = -1]
        /\ UNCHANGED <<now, age, updated, sync, kernel, leap, step_limit, offset_delay, offset_ignore,
                       granted, steps>>

\* A second passes; timeouts that are due go first.
Tick ==
  /\ leap.left # 0 /\ fb.left # 0
  /\ now < MaxTime \/ leap.left > 0 \/ fb.left > 0
  /\ now' = now + 1
  /\ age' = IF age < MaxAge THEN age + 1 ELSE age
  /\ leap' = [leap EXCEPT !.left = IF @ > 0 THEN @ - 1 ELSE @]
  /\ fb' = [fb EXCEPT !.left = IF @ > 0 THEN @ - 1 ELSE @]
  /\ UNCHANGED <<updated, mode, result, sync, kernel, step_limit, offset_delay, offset_ignore, granted, steps>>

Next ==
  \/ \E status \in Leaps, offset \in Offsets, correction \in Offsets :
       SetReference(status, offset, correction)
  \/ SetUnsynchronised
  \/ \E status \in Leaps \ {"unsynchronised"} : UpdateLeapStatusPublic(status)
  \/ \E s \in Steps : OnSlewStep(s) \/ OnSlewUnknownStep(s)
  \/ \E limit \in StepLimits : ModifyMakestep(limit)
  \/ LeapTimeout \/ FbDriftTimeout \/ Tick

Spec == Init /\ [][Next]_vars

\* The main loop runs (MainLoop): time passes and due timeouts are dispatched.
FairSpec == Spec /\ WF_vars(Tick) /\ WF_vars(LeapTimeout) /\ WF_vars(FbDriftTimeout)

-----------------------------------------------------------------------------
(* Properties. *)

\* A leap second that is expected or under way has its timeout pending, of
\* the right kind, and without one none is pending: an update, a step or a
\* loss of synchronisation never strands it or leaves a timeout behind that
\* would apply it a second time (set_leap_timeout, leap_start_timeout).
LeapTimerMatches ==
  /\ leap.sec # 0 <=> leap.left # -1
  /\ leap.in_progress <=> leap.left # -1 /\ leap.kind = "end"

\* When the fallback drift timeout is pending, the drift it will use exists
\* and has been averaged over its whole time (fb_drift_timeout indexes
\* fb_drifts by next_fb_drift - fb_drift_min).
FbTimerMatches ==
  fb.left # -1 => fb.next \in Indices /\ fb.secs[fb.next] >= 2^fb.next

\* The kernel is never told other than what the module itself holds
\* (update_sync_status, set_unsynchronised).
KernelMatches == kernel = sync

\* The updates step the clock no more often than makestep allows, counted
\* from the last change of the limit (is_step_limit_reached, modify_makestep).
StepBudget == granted >= 0 => steps <= granted

\* However long the sources go on announcing it, an update never arms a leap
\* second for the end of a day that has none; after a leap second it is not
\* armed again (update_leap_status).  A step over midnight can do so: on_slew
\* arms the leap second anew, for the day the clock is then in.
LeapOnLeapDay ==
  [][ (now' = now /\ leap'.left # -1 /\ leap'.when # leap.when)
        => \E d \in LeapDays : leap'.when = (d + 1) * DaySecs ]_vars

\* A leap second that began ends (leap_end_timeout).
LeapEnds == leap.in_progress ~> ~ leap.in_progress
=============================================================================
