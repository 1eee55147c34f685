---------------------------- MODULE ClockProofs ----------------------------
(***************************************************************************)
(* Proofs about the clocks, for every value of their limits.               *)
(* The reference: a leap second and its timeout, the fallback drift and    *)
(* its timeout, the kernel's status and the budget of steps are consistent *)
(* in every reachable state.                                               *)
(* The local clock: the handlers of clock changes are told exactly how     *)
(* cooked time moves, and make_step leaves no correction behind. The       *)
(* argument follows the code: a driver operation moves the correction by a *)
(* known amount (the lemmas named ...Moves), and what local.rs reports     *)
(* about it cancels that amount (the lemmas named ...Told).                *)
(* Time entered by hand and the real-time clock: after any sequence of     *)
(* corrections and steps every sample that is kept says what the clocks    *)
(* show now.                                                               *)
(***************************************************************************)
EXTENDS Reference, LocalClock, ManualRtc, SequenceTheorems, TLAPS


-----------------------------------------------------------------------------
(* The reference (reference.rs).                                           *)

\* LeapTimerMatches, of the state l.
LeapInv(l) ==
  /\ l.sec # 0 <=> l.left # -1
  /\ l.in_progress <=> l.left # -1 /\ l.kind = "end"

\* FbTimerMatches, of the state f.
FbInv(f) == f.left # -1 => f.next \in Indices /\ f.secs[f.next] >= 2^f.next

\* Of a limit on steps, what is left of it and what was used stay within it.
BudgetInv == granted >= 0 => step_limit >= 0 /\ steps + step_limit <= granted

\* The inductive invariant.
IInv ==
  /\ TypeOK
  /\ LeapInv(leap) /\ FbInv(fb) /\ KernelMatches
  /\ BudgetInv

-----------------------------------------------------------------------------
(* The operators on the leap second. *)

\* set_leap_timeout leaves a timeout exactly if a leap second is expected.
LEMMA SetLeapTimeoutInv ==
  ASSUME NEW l \in LeapState, NEW t \in Int
  PROVE  /\ SetLeapTimeout(l, t) \in LeapState
         /\ LeapInv(SetLeapTimeout(l, t))
<1>1. CASE l.sec = 0
  BY <1>1, Zenon DEF SetLeapTimeout, LeapState, LeapInv, Timer
<1>2. CASE l.sec # 0
  <2> DEFINE when == (t \div DaySecs + 1) * DaySecs
             due  == when - (IF l.sec < 0 THEN 1 ELSE 0) - (IF LeapMode = "system" THEN 1 ELSE 0)
  <2>1. when \in Int
    BY ReferenceAssumption
  <2>2. AtLeast0(due - t) \in Nat
    <3> HIDE DEF when
    <3> QED BY <2>1 DEF AtLeast0, LeapState
  <2>3. SetLeapTimeout(l, t) =
          [l EXCEPT !.in_progress = FALSE, !.when = when, !.kind = "start", !.left = AtLeast0(due - t)]
    BY <1>2 DEF SetLeapTimeout
  <2>4. PICK left \in Nat, w \in Int :
          SetLeapTimeout(l, t) = [l EXCEPT !.in_progress = FALSE, !.when = w, !.kind = "start", !.left = left]
    <3> HIDE DEF when, due
    <3> QED BY <2>1, <2>2, <2>3, Zenon
  <2> HIDE DEF when, due
  <2>5. SetLeapTimeout(l, t) \in LeapState
    BY <2>4, Zenon DEF LeapState, Timer
  <2>6. /\ SetLeapTimeout(l, t).sec # 0 /\ SetLeapTimeout(l, t).left # -1
        /\ SetLeapTimeout(l, t).in_progress = FALSE /\ SetLeapTimeout(l, t).kind = "start"
    BY <1>2, <2>4 DEF LeapState
  <2> QED BY <2>5, <2>6 DEF LeapInv
<1> QED BY <1>1, <1>2

\* update_leap_status keeps a leap second and its timeout together.
LEMMA UpdateLeapStatusInv ==
  ASSUME NEW l \in LeapState, LeapInv(l), NEW status \in AllLeaps, NEW t \in Int, NEW clock \in Int,
         NEW reset \in BOOLEAN
  PROVE  /\ UpdateLeapStatus(l, status, t, clock, reset) \in LeapState
         /\ LeapInv(UpdateLeapStatus(l, status, t, clock, reset))
<1> DEFINE leaping == status \in {"insert", "delete"}
           sec == IF leaping /\ IsLeapSecondDay(t) THEN (IF status = "insert" THEN 1 ELSE -1) ELSE 0
           new == IF sec # l.sec /\ ~ IsLeapClose(l, clock) THEN SetLeapTimeout([l EXCEPT !.sec = sec], t)
                  ELSE IF reset THEN SetLeapTimeout(l, t) ELSE l
           st  == IF leaping /\ ~ IsLeapSecondDay(t) THEN "normal" ELSE status
<1>1. sec \in {-1, 0, 1} /\ st \in AllLeaps
  BY DEF AllLeaps
<1>2. UpdateLeapStatus(l, status, t, clock, reset) = [new EXCEPT !.status = st]
  BY DEF UpdateLeapStatus
<1> HIDE DEF sec, st
<1>3. [l EXCEPT !.sec = sec] \in LeapState
  BY <1>1 DEF LeapState
<1>4. new \in LeapState /\ LeapInv(new)
  BY <1>3, SetLeapTimeoutInv
<1> HIDE DEF new
<1> QED BY <1>1, <1>2, <1>4 DEF LeapState, LeapInv

\* A step of the clock keeps them together.
LEMMA LeapAfterStepInv ==
  ASSUME NEW l \in LeapState, LeapInv(l), NEW t \in Int
  PROVE  /\ LeapAfterStep(l, t) \in LeapState
         /\ LeapInv(LeapAfterStep(l, t))
<1>1. l.status \in AllLeaps
  BY DEF LeapState
<1> QED BY <1>1, UpdateLeapStatusInv, Zenon DEF LeapAfterStep

-----------------------------------------------------------------------------
(* The operators on the fallback drifts. *)

\* update_fb_drifts leaves no timeout.
LEMMA UpdateFbDriftsInv ==
  ASSUME NEW f \in FbState, NEW interval \in Nat
  PROVE  UpdateFbDrifts(f, interval) \in FbState /\ FbInv(UpdateFbDrifts(f, interval))
<1>1. interval \div 2 \in Nat
  OBVIOUS
<1>2. [i \in Indices |-> IF interval >= 1 /\ f.secs[i] < 2^i THEN f.secs[i] + interval \div 2
                         ELSE f.secs[i]] \in [Indices -> Nat]
  BY <1>1 DEF FbState
<1> QED BY <1>2, Zenon DEF UpdateFbDrifts, FbState, FbInv, Timer

\* schedule_fb_drift sets a timeout only for a drift averaged over its time.
LEMMA ScheduleFbDriftInv ==
  ASSUME NEW f \in FbState, FbInv(f), NEW unsync \in Nat, NEW g \in ScheduleFbDrift(f, unsync)
  PROVE  g \in FbState /\ FbInv(g)
<1>1. CASE f.left # -1
  BY <1>1, Zenon DEF ScheduleFbDrift
<1>2. CASE f.left = -1
  <2>1. PICK i \in Indices \cup {FbMax + 1}, c \in Full(f) \cup {0} :
          /\ i = FbMax + 1 \/ (i \in Full(f) /\ unsync < 2^i /\ i > f.next)
          /\ g = IF i <= FbMax THEN [f EXCEPT !.next = i, !.left = 2^i - unsync]
                 ELSE [f EXCEPT !.next = IF c > @ THEN c ELSE @]
    BY <1>2, Zenon DEF ScheduleFbDrift
  <2>2. i \in Nat /\ c \in Nat
    BY ReferenceAssumption DEF Full, Indices
  <2>3. CASE i <= FbMax
    <3>1. i \in Full(f) /\ unsync < 2^i /\ i \in Indices /\ f.secs[i] >= 2^i
      BY <2>1, <2>3, ReferenceAssumption DEF Full
    <3>2. 2^i - unsync \in Nat
      BY <3>1, <2>2
    <3> QED BY <2>1, <2>2, <2>3, <3>1, <3>2, Zenon DEF FbState, FbInv, Timer
  <2>4. CASE ~ (i <= FbMax)
    BY <1>2, <2>1, <2>2, <2>4 DEF FbState, FbInv
  <2> QED BY <2>3, <2>4, Zenon
<1> QED BY <1>1, <1>2, Zenon

-----------------------------------------------------------------------------
(* The operations. *)

\* The leap second when synchronisation is lost.
LEMMA LoseLeapInv ==
  ASSUME NEW l \in LeapState, LeapInv(l), NEW clock \in Int
  PROVE  /\ UpdateLeapStatus(l, "unsynchronised", 0, clock, FALSE) \in LeapState
         /\ LeapInv(UpdateLeapStatus(l, "unsynchronised", 0, clock, FALSE))
<1>1. "unsynchronised" \in AllLeaps /\ 0 \in Int /\ FALSE \in BOOLEAN
  BY DEF AllLeaps
<1> QED BY <1>1, UpdateLeapStatusInv, Zenon

\* set_unsynchronised and what else ends the synchronisation.
LEMMA LoseSyncInv ==
  ASSUME IInv, NEW f \in FbState, FbInv(f), NEW unsync \in Nat, LoseSync(f, unsync)
  PROVE  /\ fb' \in FbState /\ FbInv(fb') /\ KernelMatches' /\ BudgetInv'
         /\ mode' \in AllModes /\ result' \in {-1, 0, 1} /\ sync' \in BOOLEAN /\ kernel' \in BOOLEAN
         /\ step_limit' \in Int /\ offset_delay' \in Int /\ offset_ignore' \in Int
         /\ granted' \in Int /\ steps' \in Nat
<1>1. fb' \in FbState /\ FbInv(fb')
  BY ScheduleFbDriftInv DEF LoseSync
<1> QED BY <1>1, Zenon DEF LoseSync, IInv, TypeOK, KernelMatches, BudgetInv

\* set_reference, and set_unsynchronised, in a special mode.
LEMMA SpecialModeSyncInv ==
  ASSUME IInv, NEW valid \in BOOLEAN, NEW offset \in Int, SpecialModeSync(valid, offset)
  PROVE  IInv'
<1>1. now' \in Int
  BY DEF SpecialModeSync, IInv, TypeOK
<1>2. leap' \in LeapState /\ LeapInv(leap')
  BY LeapAfterStepInv DEF SpecialModeSync, IInv, TypeOK
<1>3. mode' \in AllModes /\ result' \in {-1, 0, 1}
  BY DEF SpecialModeSync, EndRefMode, IInv, TypeOK, AllModes
<1> QED BY <1>1, <1>2, <1>3 DEF SpecialModeSync, IInv, TypeOK, KernelMatches, BudgetInv, FbInv

\* set_reference with an offset that is not allowed.
LEMMA RejectReferenceInv ==
  ASSUME IInv, NEW offset \in Int, RejectReference(offset)
  PROVE  IInv'
BY DEF RejectReference, EndRefMode, IInv, TypeOK, AllModes, KernelMatches, BudgetInv, FbInv, LeapInv

\* set_reference with a new state of the clock.
LEMMA AcceptReferenceInv ==
  ASSUME IInv, NEW status \in AllLeaps, NEW offset \in Int, NEW correction \in Int,
         AcceptReference(status, offset, correction)
  PROVE  IInv'
<1> DEFINE l == UpdateLeapStatus(leap, status, now, now, FALSE)
           f == UpdateFbDrifts(fb, IF updated THEN age ELSE 0)
<1>1. l \in LeapState /\ LeapInv(l)
  BY UpdateLeapStatusInv, Zenon DEF IInv, TypeOK
<1>2. f \in FbState /\ FbInv(f)
  BY UpdateFbDriftsInv DEF IInv, TypeOK
<1>3. now' \in Int
  BY DEF AcceptReference, IInv, TypeOK
<1>4. leap' = l \/ leap' = LeapAfterStep(l, now')
  BY Zenon DEF AcceptReference
<1>5. fb' \in ScheduleFbDrift(f, 0) \/ fb' = fb
  BY DEF AcceptReference
<1> HIDE DEF l, f
<1>6. leap' \in LeapState /\ LeapInv(leap')
  BY <1>1, <1>3, <1>4, LeapAfterStepInv
<1>7. fb' \in FbState /\ FbInv(fb')
  BY <1>2, <1>5, ScheduleFbDriftInv DEF IInv, TypeOK
<1>8. BudgetInv' /\ step_limit' \in Int /\ steps' \in Nat /\ granted' \in Int
  BY DEF AcceptReference, StepLimit, IInv, TypeOK, BudgetInv
<1>9. KernelMatches' /\ sync' \in BOOLEAN /\ kernel' \in BOOLEAN
  BY DEF AcceptReference, KernelStatus, KernelMatches
<1>10. /\ age' \in Nat /\ updated' \in BOOLEAN /\ mode' \in AllModes /\ result' \in {-1, 0, 1}
       /\ offset_delay' \in Int /\ offset_ignore' \in Int
  BY DEF AcceptReference, IInv, TypeOK
<1> QED BY <1>3, <1>6, <1>7, <1>8, <1>9, <1>10 DEF IInv, TypeOK

\* The leap second timeouts.
LEMMA LeapTimeoutInv ==
  ASSUME IInv, LeapTimeout
  PROVE  IInv'
<1>1. now' \in Int
  BY DEF LeapTimeout, IInv, TypeOK, LeapState
<1>2. leap' \in LeapState /\ LeapInv(leap')
  <2>1. CASE leap.kind = "start"
    <3>1. leap' = [leap EXCEPT !.in_progress = TRUE, !.kind = "end", !.left = LeapEndDelay]
      BY <2>1 DEF LeapTimeout, LeapStarted
    <3>2. leap.sec # 0 /\ LeapEndDelay \in Nat
      BY ReferenceAssumption DEF LeapTimeout, IInv, LeapInv
    <3>3. leap' \in LeapState
      BY <3>1, <3>2, Zenon DEF IInv, TypeOK, LeapState, Timer
    <3>4. leap'.sec # 0 /\ leap'.in_progress /\ leap'.kind = "end" /\ leap'.left = LeapEndDelay
      BY <3>1, <3>2 DEF IInv, TypeOK, LeapState
    <3> QED BY <3>2, <3>3, <3>4 DEF LeapInv
  <2>2. CASE leap.kind # "start"
    <3>1. leap' = LeapEnded(leap)
      BY <2>2 DEF LeapTimeout
    <3> QED BY <3>1, Zenon DEF LeapEnded, IInv, TypeOK, LeapState, LeapInv, Timer, AllLeaps
  <2> QED BY <2>1, <2>2
<1> QED BY <1>1, <1>2 DEF LeapTimeout, IInv, TypeOK, KernelMatches, BudgetInv, FbInv

\* Time passes.
LEMMA TickInv ==
  ASSUME IInv, Tick
  PROVE  IInv'
<1>1. leap' \in LeapState /\ LeapInv(leap')
  BY DEF Tick, IInv, TypeOK, LeapState, LeapInv, Timer
<1>2. fb' \in FbState /\ FbInv(fb')
  BY DEF Tick, IInv, TypeOK, FbState, FbInv, Timer
<1> QED BY <1>1, <1>2, ReferenceAssumption DEF Tick, IInv, TypeOK, KernelMatches, BudgetInv

-----------------------------------------------------------------------------
(* The theorems. *)

\* The invariant holds in every reachable state.
THEOREM Inductive == Spec => []IInv
<1>1. Init => IInv
  <2> SUFFICES ASSUME Init PROVE IInv
    OBVIOUS
  <2>1. leap \in LeapState /\ LeapInv(leap)
    BY DEF Init, LeapState, LeapInv, AllLeaps, Timer
  <2>2. fb \in FbState /\ FbInv(fb)
    BY DEF Init, FbState, FbInv, Timer
  <2>3. KernelMatches /\ updated \in BOOLEAN /\ sync \in BOOLEAN /\ kernel \in BOOLEAN
    BY Zenon DEF Init, KernelMatches
  <2>4. BudgetInv /\ step_limit \in Int /\ granted \in Int /\ steps \in Nat
    BY ReferenceAssumption DEF Init, BudgetInv
  <2>5. mode \in AllModes /\ result \in {-1, 0, 1}
    BY ReferenceAssumption DEF Init
  <2>6. now \in Int /\ age \in Nat /\ offset_delay \in Int /\ offset_ignore \in Int
    BY ReferenceAssumption DEF Init
  <2> QED BY <2>1, <2>2, <2>3, <2>4, <2>5, <2>6 DEF IInv, TypeOK
<1>2. IInv /\ [Next]_vars => IInv'
  <2> SUFFICES ASSUME IInv, [Next]_vars PROVE IInv'
    OBVIOUS
  <2>1. ASSUME NEW status \in Leaps, NEW offset \in Offsets, NEW correction \in Offsets,
               SetReference(status, offset, correction)
        PROVE  IInv'
    <3>1. status \in AllLeaps /\ offset \in Int /\ correction \in Int
      BY ReferenceAssumption
    <3> QED BY <2>1, <3>1, SpecialModeSyncInv, RejectReferenceInv, AcceptReferenceInv, Zenon DEF SetReference
  <2>2. CASE SetUnsynchronised
    <3>1. CASE SpecialModeSync(FALSE, 0)
      <4>1. FALSE \in BOOLEAN /\ 0 \in Int
        OBVIOUS
      <4> QED BY <3>1, <4>1, SpecialModeSyncInv, Zenon
    <3>2. CASE LoseSync(fb, age) /\ leap' = UpdateLeapStatus(leap, "unsynchronised", 0, now, FALSE)
               /\ UNCHANGED <<now, age, updated>>
      <4>1. leap' \in LeapState /\ LeapInv(leap')
        BY <3>2, LoseLeapInv, Zenon DEF IInv, TypeOK
      <4> QED BY <3>2, <4>1, LoseSyncInv, Zenon DEF IInv, TypeOK
    <3> QED BY <2>2, <3>1, <3>2, Zenon DEF SetUnsynchronised
  <2>3. ASSUME NEW status \in Leaps \ {"unsynchronised"}, UpdateLeapStatusPublic(status)
        PROVE  IInv'
    <3>1. leap' \in LeapState /\ LeapInv(leap')
      BY <2>3, UpdateLeapStatusInv, ReferenceAssumption, Zenon DEF UpdateLeapStatusPublic, IInv, TypeOK
    <3> QED BY <2>3, <3>1, Zenon DEF UpdateLeapStatusPublic, IInv, TypeOK, KernelMatches, BudgetInv, FbInv
  <2>4. ASSUME NEW s \in Steps, OnSlewStep(s)
        PROVE  IInv'
    <3>1. now' \in Int /\ now' = now + s
      BY <2>4, ReferenceAssumption DEF OnSlewStep, IInv, TypeOK
    <3>2. leap' \in LeapState /\ LeapInv(leap')
      BY <2>4, <3>1, LeapAfterStepInv DEF OnSlewStep, IInv, TypeOK
    <3> QED BY <2>4, <3>1, <3>2 DEF OnSlewStep, IInv, TypeOK, KernelMatches, BudgetInv, FbInv
  <2>5. ASSUME NEW s \in Steps, OnSlewUnknownStep(s)
        PROVE  IInv'
    <3>1. now' \in Int /\ now' = now + s /\ age' \in Nat /\ updated' \in BOOLEAN
      <4>1. now' = now + s /\ updated' = FALSE /\ age' \in age..MaxAge
        BY <2>5 DEF OnSlewUnknownStep
      <4>2. s \in Int /\ MaxAge \in Nat /\ now \in Int /\ age \in Nat
        BY ReferenceAssumption DEF IInv, TypeOK
      <4>3. now' \in Int /\ age' \in Nat
        BY <4>1, <4>2
      <4> QED BY <4>1, <4>3, Zenon
    <3>2. CASE /\ LoseSync(fb, age')
               /\ leap' = LeapAfterStep(UpdateLeapStatus(leap, "unsynchronised", 0, now + s, FALSE), now + s)
      <4> DEFINE l == UpdateLeapStatus(leap, "unsynchronised", 0, now + s, FALSE)
      <4>1. l \in LeapState /\ LeapInv(l)
        BY <3>1, LoseLeapInv, Zenon DEF IInv, TypeOK
      <4>2. leap' = LeapAfterStep(l, now')
        BY <3>1, <3>2
      <4> HIDE DEF l
      <4>3. leap' \in LeapState /\ LeapInv(leap')
        BY <3>1, <4>1, <4>2, LeapAfterStepInv
      <4> QED BY <3>1, <3>2, <4>3, LoseSyncInv, Zenon DEF IInv, TypeOK
    <3>3. CASE /\ mode # "normal"
               /\ IF mode = "ignore" THEN UNCHANGED <<mode, result>> ELSE EndRefMode(0)
               /\ leap' = LeapAfterStep(leap, now + s)
               /\ UNCHANGED <<sync, kernel, fb, step_limit, offset_delay, offset_ignore, granted, steps>>
      <4>1. leap' \in LeapState /\ LeapInv(leap')
        BY <3>1, <3>3, LeapAfterStepInv DEF IInv, TypeOK
      <4> QED BY <3>1, <3>3, <4>1 DEF EndRefMode, AllModes, IInv, TypeOK, KernelMatches, BudgetInv, FbInv
    <3> QED BY <2>5, <3>2, <3>3, Zenon DEF OnSlewUnknownStep
  <2>6. ASSUME NEW limit \in StepLimits, ModifyMakestep(limit)
        PROVE  IInv'
    BY <2>6, ReferenceAssumption
       DEF ModifyMakestep, IInv, TypeOK, KernelMatches, BudgetInv, FbInv, LeapInv
  <2>7. CASE LeapTimeout
    BY <2>7, LeapTimeoutInv
  <2>8. CASE FbDriftTimeout
    <3> DEFINE f == [fb EXCEPT !.left = -1]
    <3>1. f \in FbState /\ FbInv(f)
      BY DEF IInv, TypeOK, FbState, FbInv, Timer
    <3>2. CASE /\ LoseSync(f, age)
               /\ leap' = UpdateLeapStatus(leap, "unsynchronised", 0, now, FALSE)
               /\ UNCHANGED <<now, age, updated>>
      <4>1. leap' \in LeapState /\ LeapInv(leap')
        BY <3>2, LoseLeapInv, Zenon DEF IInv, TypeOK
      <4> HIDE DEF f
      <4> QED BY <3>1, <3>2, <4>1, LoseSyncInv, Zenon DEF IInv, TypeOK
    <3>3. CASE /\ IF mode = "ignore" THEN UNCHANGED <<mode, result>> ELSE EndRefMode(0)
               /\ fb' = f
               /\ UNCHANGED <<now, age, updated, sync, kernel, leap, step_limit, offset_delay,
                              offset_ignore, granted, steps>>
      <4> HIDE DEF f
      <4> QED BY <3>1, <3>3 DEF EndRefMode, AllModes, IInv, TypeOK, KernelMatches, BudgetInv, LeapInv
    <3> QED BY <2>8, <3>2, <3>3, Zenon DEF FbDriftTimeout
  <2>9. CASE Tick
    BY <2>9, TickInv
  <2>10. CASE UNCHANGED vars
    BY <2>10 DEF vars, IInv, TypeOK, KernelMatches, BudgetInv, LeapInv, FbInv
  <2> QED BY <2>1, <2>2, <2>3, <2>4, <2>5, <2>6, <2>7, <2>8, <2>9, <2>10 DEF Next
<1> QED BY <1>1, <1>2, PTL DEF Spec

\* Every reachable state has its type.
THEOREM TypeTheorem == Spec => []TypeOK
<1>1. IInv => TypeOK
  BY DEF IInv
<1> QED BY <1>1, Inductive, PTL

\* Whatever the order of updates, steps, losses of synchronisation and
\* timeouts, a leap second has its one timeout, of the right kind
\* (set_leap_timeout, leap_start_timeout, leap_end_timeout).
THEOREM LeapTimerTheorem == Spec => []LeapTimerMatches
<1>1. IInv => LeapTimerMatches
  BY DEF IInv, LeapInv, LeapTimerMatches
<1> QED BY <1>1, Inductive, PTL

\* A pending fallback drift timeout names a drift that exists and was averaged
\* over its time (schedule_fb_drift, fb_drift_timeout).
THEOREM FbTimerTheorem == Spec => []FbTimerMatches
<1>1. IInv => FbTimerMatches
  BY DEF IInv, FbInv, FbTimerMatches
<1> QED BY <1>1, Inductive, PTL

\* The kernel's synchronisation status is the module's own
\* (update_sync_status, set_unsynchronised).
THEOREM KernelTheorem == Spec => []KernelMatches
<1>1. IInv => KernelMatches
  BY DEF IInv
<1> QED BY <1>1, Inductive, PTL

\* Updates never step the clock more often than the limit last set allows
\* (is_step_limit_reached, modify_makestep).
THEOREM StepBudgetTheorem == Spec => []StepBudget
<1>1. IInv => StepBudget
  BY DEF IInv, TypeOK, BudgetInv, StepBudget
<1> QED BY <1>1, Inductive, PTL

-----------------------------------------------------------------------------
(* The local clock (local.rs, sys_generic.rs, smooth.rs).                  *)

Smoothings == [locked : BOOLEAN, off : Int, el : Int, unset : BOOLEAN]
Clocks == [reg : Int, slew : Int, el : Int, dur : Int, excess : Int, rate : Int,
           base : Int, fast : Int, canFast : BOOLEAN, fastOn : BOOLEAN, null : BOOLEAN,
           cur : Int, temp : Int, leapOnly : BOOLEAN, sm : Smoothings, err : Int, ferr : Int]

\* The limits are whole units; a slew lasts at least one of them, and an offset
\* that counts is not zero.  The arguments of the operations are integers.
ClockConstants ==
    /\ MinOffset \in Nat \ {0} /\ MinDuration \in Nat \ {0}
    /\ MaxDuration \in Int /\ ExcessRatio \in Int /\ MaxExcess \in Int
    /\ MaxCorrFreq \in Int /\ MaxFreq \in Int /\ MaxDrift \in Int
    /\ FastRate \in Int /\ FastMin \in Int /\ NullInterval \in Int
    /\ ClockOffsets \subseteq Int /\ ClockFreqs \subseteq Int /\ ClockComps \subseteq Int
    /\ CorrRates \subseteq Int

\* The fields of the clock that its correction and its frequency depend on.
Agree(c, d) ==
    /\ d.reg = c.reg /\ d.slew = c.slew /\ d.el = c.el /\ d.fast = c.fast
    /\ d.base = c.base /\ d.cur = c.cur /\ d.temp = c.temp
    /\ d.err = c.err /\ d.ferr = c.ferr /\ d.null = c.null

\* Everything the handlers were told is what happened.
Told(c) == c \in Clocks /\ c.err = 0 /\ c.ferr = 0 /\ c.base = c.cur

-----------------------------------------------------------------------------
\* Arithmetic.

LEMMA BoundedInt == ASSUME NEW x \in Int, NEW m \in Int PROVE Bounded(x, m) \in Int
  BY DEF Bounded

LEMMA AbsSgn == ASSUME NEW x \in Int PROVE Magnitude(x) \in Nat /\ Sgn(x) \in Int
  BY DEF Magnitude, Sgn

LEMMA DivUpInt == ASSUME NEW a \in Int, NEW b \in Int, b > 0 PROVE DivUp(a, b) \in Int
<1>1. Magnitude(a) + b - 1 \in Int /\ Sgn(a) \in Int
  BY AbsSgn
<1>2. (Magnitude(a) + b - 1) \div b \in Int
  BY <1>1
<1>3. QED
  BY <1>1, <1>2 DEF DivUp

LEMMA DivDownInt == ASSUME NEW a \in Int, NEW b \in Int, b # 0 PROVE DivDown(a, b) \in Int
<1>1. Magnitude(a) \in Int /\ Sgn(a) \in Int /\ Sgn(b) \in Int
  BY AbsSgn
<1>2. Magnitude(b) \in Int /\ Magnitude(b) > 0
  BY DEF Magnitude
<1>3. Magnitude(a) \div Magnitude(b) \in Int
  BY <1>1, <1>2
<1>4. Sgn(a) * Sgn(b) \in Int
  BY <1>1
<1>5. QED
  BY <1>3, <1>4 DEF DivDown

\* What agrees in those fields has the same correction.
LEMMA AgreeCorrection == ASSUME NEW c, NEW d, Agree(c, d) PROVE Correction(d) = Correction(c)
  BY DEF Agree, Correction

\* A clock stays one when a field is set, one at a time.
LEMMA Updated ==
  ASSUME NEW c \in Clocks, NEW x \in Int
  PROVE  /\ [c EXCEPT !.reg = x] \in Clocks /\ [c EXCEPT !.slew = x] \in Clocks
         /\ [c EXCEPT !.el = x] \in Clocks /\ [c EXCEPT !.dur = x] \in Clocks
         /\ [c EXCEPT !.excess = x] \in Clocks /\ [c EXCEPT !.rate = x] \in Clocks
         /\ [c EXCEPT !.base = x] \in Clocks /\ [c EXCEPT !.fast = x] \in Clocks
         /\ [c EXCEPT !.cur = x] \in Clocks /\ [c EXCEPT !.temp = x] \in Clocks
         /\ [c EXCEPT !.err = x] \in Clocks /\ [c EXCEPT !.ferr = x] \in Clocks
  BY DEF Clocks

LEMMA UpdatedFast == ASSUME NEW c \in Clocks, NEW b \in BOOLEAN PROVE [c EXCEPT !.fastOn = b] \in Clocks
  BY DEF Clocks

LEMMA CorrectionInt == ASSUME NEW c \in Clocks PROVE Correction(c) \in Int
<1>1. c.slew \in Int /\ c.el \in Int /\ c.fast \in Int /\ c.reg \in Int
  BY DEF Clocks
<1>2. c.slew * c.el \in Int
  BY <1>1
<1>3. QED
  BY <1>1, <1>2 DEF Correction

-----------------------------------------------------------------------------
\* The drivers.

\* Ending a slew half way and starting another moves no time: what was done is
\* credited, and what goes to the kern or comes back from it is still counted.
LEMMA UpdateSlewMoves ==
  ASSUME ClockConstants, NEW c \in Clocks
  PROVE  LET d == UpdateSlew(c) IN
         /\ d \in Clocks /\ Correction(d) = Correction(c)
         /\ d.base = c.base /\ d.cur = c.cur /\ d.temp = c.temp
         /\ d.err = c.err /\ d.ferr = c.ferr /\ d.null = c.null
<1> DEFINE credited == c.reg - c.slew * c.el
           reg      == IF c.fastOn THEN credited + c.fast ELSE credited
           fast     == IF c.fastOn THEN 0 ELSE c.fast
           decayed  == (c.excess * 9) \div 10
           late     == 10 * (c.el - c.dur)
           excess   == IF decayed < late /\ late <= 10 * MaxExcess THEN late ELSE decayed
           wanted   == IF Magnitude(reg) < MinOffset THEN MaxDuration
                       ELSE Larger(Larger(c.rate \div Magnitude(reg), MinDuration),
                                   DivUp(ExcessRatio * excess, 10))
           corr     == IF Magnitude(reg) < MinOffset THEN 0 ELSE Bounded(DivUp(reg, wanted), MaxCorrFreq)
           handOver == c.canFast /\ Magnitude(corr) >= FastRate /\ Magnitude(reg) > FastMin
           left     == IF handOver THEN 0 ELSE reg
           slew     == Bounded(c.base + (IF handOver THEN 0 ELSE corr), MaxFreq) - c.base
           dur      == IF Magnitude(left) < MinOffset \/ left * slew <= 0 THEN MaxDuration
                       ELSE LET d == DivDown(left, slew)
                            IN  IF d < MinDuration THEN MinDuration
                                ELSE IF d > MaxDuration THEN MaxDuration ELSE d
           kern   == IF handOver THEN fast + reg ELSE fast
           u == [c EXCEPT !.reg = left, !.slew = slew, !.el = 0, !.excess = excess,
                          !.fast = kern, !.fastOn = @ \/ handOver, !.dur = dur]
<1>1. UpdateSlew(c) = u
  BY Zenon DEF UpdateSlew
<1>2. /\ c.reg \in Int /\ c.slew \in Int /\ c.el \in Int /\ c.dur \in Int /\ c.excess \in Int
      /\ c.rate \in Int /\ c.base \in Int /\ c.fast \in Int /\ c.canFast \in BOOLEAN /\ c.fastOn \in BOOLEAN
  BY DEF Clocks
<1>3. c.slew * c.el \in Int
  BY <1>2
<1>4. reg \in Int /\ fast \in Int /\ reg + fast = c.reg - c.slew * c.el + c.fast
  BY <1>2, <1>3
<1>5. excess \in Int
  <2>1. decayed \in Int /\ late \in Int
    BY <1>2
  <2>2. QED
    BY <2>1
<1> HIDE DEF reg, fast, excess
<1>6. corr \in Int
  <2>1. CASE Magnitude(reg) < MinOffset
    BY <2>1
  <2>2. CASE ~(Magnitude(reg) < MinOffset)
    <3>1. Magnitude(reg) \in Nat /\ Magnitude(reg) > 0
      BY <1>4, <2>2, AbsSgn DEF ClockConstants
    <3>2. c.rate \div Magnitude(reg) \in Int
      BY <1>2, <3>1
    <3>3. ExcessRatio * excess \in Int
      BY <1>5 DEF ClockConstants
    <3>4. DivUp(ExcessRatio * excess, 10) \in Int
      BY <3>3, DivUpInt
    <3>5. wanted \in Int /\ wanted > 0
      BY <2>2, <3>2, <3>4 DEF Larger, ClockConstants
    <3> HIDE DEF wanted
    <3>6. DivUp(reg, wanted) \in Int
      BY <1>4, <3>5, DivUpInt
    <3>7. QED
      BY <2>2, <3>6, BoundedInt DEF ClockConstants
  <2>3. QED
    BY <2>1, <2>2
<1> HIDE DEF corr
<1>7. left \in Int /\ kern \in Int /\ handOver \in BOOLEAN /\ left + kern = reg + fast
  BY <1>4
<1>8. slew \in Int
  <2> DEFINE asked == c.base + (IF handOver THEN 0 ELSE corr)
  <2>1. asked \in Int
    BY <1>2, <1>6
  <2>2. slew = Bounded(asked, MaxFreq) - c.base
    OBVIOUS
  <2> HIDE DEF asked, slew
  <2>3. Bounded(asked, MaxFreq) \in Int
    BY <2>1, BoundedInt DEF ClockConstants
  <2>4. QED
    BY <1>2, <2>2, <2>3
<1> HIDE DEF left, kern, handOver, slew
<1>9. dur \in Int
  <2>1. CASE Magnitude(left) < MinOffset \/ left * slew <= 0
    BY <2>1 DEF ClockConstants
  <2>2. CASE ~(Magnitude(left) < MinOffset \/ left * slew <= 0)
    <3>1. slew # 0
      BY <1>7, <1>8, <2>2
    <3>2. DivDown(left, slew) \in Int
      BY <1>7, <1>8, <3>1, DivDownInt
    <3>3. QED
      BY <2>2, <3>2 DEF ClockConstants
  <2>3. QED
    BY <2>1, <2>2
<1> HIDE DEF dur
<1>10. (c.fastOn \/ handOver) \in BOOLEAN
  BY <1>2, <1>7
<1>11. u \in Clocks
  <2> DEFINE on == c.fastOn \/ handOver
             u1 == [c EXCEPT !.reg = left]
             u2 == [u1 EXCEPT !.slew = slew]
             u3 == [u2 EXCEPT !.el = 0]
             u4 == [u3 EXCEPT !.excess = excess]
             u5 == [u4 EXCEPT !.fast = kern]
             u6 == [u5 EXCEPT !.fastOn = on]
             u7 == [u6 EXCEPT !.dur = dur]
  <2>1. u = u7
    OBVIOUS
  <2>2. on \in BOOLEAN
    BY <1>10
  <2> HIDE DEF u7, u6, u5, u4, u3, u2, u1, on
  <2>3. u1 \in Clocks
    BY <1>7, Updated, Zenon DEF u1
  <2>4. u2 \in Clocks
    BY <1>8, <2>3, Updated, Zenon DEF u2
  <2>5. u3 \in Clocks
    BY <2>4 DEF u3, Clocks
  <2>6. u4 \in Clocks
    BY <1>5, <2>5, Updated, Zenon DEF u4
  <2>7. u5 \in Clocks
    BY <1>7, <2>6, Updated, Zenon DEF u5
  <2>8. u6 \in Clocks
    BY <2>2, <2>7, UpdatedFast DEF u6
  <2>9. u7 \in Clocks
    BY <1>9, <2>8, Updated, Zenon DEF u7
  <2>10. QED
    BY <2>1, <2>9
<1>12. u.reg = left /\ u.slew = slew /\ u.el = 0 /\ u.fast = kern
  BY DEF Clocks
<1>13. Correction(u) = Correction(c)
  <2>1. Correction(u) = 0 - kern - left
    BY <1>7, <1>8, <1>12 DEF Correction
  <2>2. Correction(c) = c.slew * c.el - c.fast - c.reg
    BY DEF Correction
  <2>3. QED
    BY <1>2, <1>3, <1>4, <1>7, <2>1, <2>2
<1>14. /\ u.base = c.base /\ u.cur = c.cur /\ u.temp = c.temp
       /\ u.err = c.err /\ u.ferr = c.ferr /\ u.null = c.null
  BY DEF Clocks
<1>15. QED
  BY <1>1, <1>11, <1>13, <1>14

\* Banking what the frequency has accrued moves nothing either.
LEMMA BankOffsetMoves ==
  ASSUME NEW c \in Clocks
  PROVE  LET d == BankOffset(c) IN
         /\ d \in Clocks /\ Correction(d) = Correction(c) /\ d.el = 0
         /\ d.base = c.base /\ d.cur = c.cur /\ d.temp = c.temp
         /\ d.err = c.err /\ d.ferr = c.ferr /\ d.null = c.null
<1> DEFINE d == BankOffset(c)
<1>1. c.reg \in Int /\ c.slew \in Int /\ c.el \in Int /\ c.fast \in Int
  BY DEF Clocks
<1>2. c.slew * c.el \in Int
  BY <1>1
<1>3. c.reg - c.slew * c.el \in Int
  BY <1>1, <1>2
<1>4. d \in Clocks
  <2> DEFINE b == [c EXCEPT !.reg = c.reg - c.slew * c.el]
  <2>1. d = [b EXCEPT !.el = 0]
    BY DEF BankOffset
  <2>2. b \in Clocks
    BY <1>3, Updated, Zenon
  <2> HIDE DEF b, d
  <2>3. QED
    BY <2>1, <2>2 DEF Clocks
<1>5. d.reg = c.reg - c.slew * c.el /\ d.el = 0 /\ d.slew = c.slew /\ d.fast = c.fast
  BY DEF BankOffset, Clocks
<1>6. Correction(d) = Correction(c)
  BY <1>1, <1>2, <1>5, SMTT(30) DEF Correction
<1>7. QED
  BY <1>4, <1>5, <1>6 DEF BankOffset, Clocks

\* set_frequency changes the frequency and moves no time.
LEMMA SetFrequencyMoves ==
  ASSUME ClockConstants, NEW c \in Clocks, NEW f \in Int
  PROVE  LET d == DriverSetFrequency(c, f) IN
         /\ d \in Clocks /\ Correction(d) = Correction(c)
         /\ d.base = f /\ d.cur = c.cur /\ d.temp = c.temp
         /\ d.err = c.err /\ d.ferr = c.ferr
<1> DEFINE b == BankOffset(c)
           n == [b EXCEPT !.base = f, !.slew = -f]
           g == [c EXCEPT !.base = f]
<1>1. CASE c.null
  <2>1. /\ b \in Clocks /\ Correction(b) = Correction(c) /\ b.el = 0
        /\ b.cur = c.cur /\ b.temp = c.temp /\ b.err = c.err /\ b.ferr = c.ferr
    BY BankOffsetMoves
  <2> HIDE DEF b
  <2>2. n \in Clocks
    <3> DEFINE m == [b EXCEPT !.base = f]
    <3>1. n = [m EXCEPT !.slew = -f]
      OBVIOUS
    <3>2. m \in Clocks
      BY <2>1, Updated, Zenon
    <3> HIDE DEF m, n
    <3>3. QED
      BY <3>1, <3>2 DEF Clocks
  <2>9. n.slew = -f /\ n.el = 0 /\ n.fast = b.fast /\ n.reg = b.reg
    BY <2>1 DEF Clocks
  <2>3. b.slew \in Int /\ b.fast \in Int /\ b.reg \in Int
    BY <2>1 DEF Clocks
  <2>4. Correction(n) = Correction(b)
    BY <2>1, <2>9, <2>3 DEF Correction
  <2>5. n.base = f /\ n.cur = b.cur /\ n.temp = b.temp /\ n.err = b.err /\ n.ferr = b.ferr
    BY <2>1 DEF Clocks
  <2>6. DriverSetFrequency(c, f) = n
    BY <1>1 DEF DriverSetFrequency, b
  <2>7. QED
    BY <2>1, <2>2, <2>4, <2>5, <2>6
<1>2. CASE ~c.null
  <2>1. g \in Clocks
    BY DEF Clocks
  <2>2. /\ g.base = f /\ g.cur = c.cur /\ g.temp = c.temp /\ g.err = c.err /\ g.ferr = c.ferr
        /\ g.slew = c.slew /\ g.el = c.el /\ g.fast = c.fast /\ g.reg = c.reg
    BY DEF Clocks
  <2>3. Correction(g) = Correction(c)
    BY <2>2 DEF Correction
  <2>4. DriverSetFrequency(c, f) = UpdateSlew(g)
    BY <1>2 DEF DriverSetFrequency
  <2> HIDE DEF g
  <2>5. QED
    BY <2>1, <2>2, <2>3, <2>4, UpdateSlewMoves
<1>3. QED
  BY <1>1, <1>2

\* accrue_offset takes the offset into the correction, with the other sign.
LEMMA AccrueOffsetMoves ==
  ASSUME ClockConstants, NEW c \in Clocks, NEW x \in Int, NEW r \in Int
  PROVE  LET d == DriverAccrueOffset(c, x, r) IN
         /\ d \in Clocks /\ Correction(d) = Correction(c) - x
         /\ d.base = c.base /\ d.cur = c.cur /\ d.temp = c.temp
         /\ d.err = c.err /\ d.ferr = c.ferr
<1> DEFINE n == [c EXCEPT !.reg = @ + x]
           g == [c EXCEPT !.reg = @ + x, !.rate = r]
<1>1. c.reg \in Int /\ c.slew \in Int /\ c.el \in Int /\ c.fast \in Int
  BY DEF Clocks
<1>2. c.slew * c.el \in Int /\ c.reg + x \in Int
  BY <1>1
<1>3. n \in Clocks /\ g \in Clocks
  BY <1>2, Zenon DEF Clocks
<1>4. /\ n.base = c.base /\ n.cur = c.cur /\ n.temp = c.temp /\ n.err = c.err /\ n.ferr = c.ferr
      /\ n.slew = c.slew /\ n.el = c.el /\ n.fast = c.fast /\ n.reg = c.reg + x
  BY DEF Clocks
<1>5. /\ g.base = c.base /\ g.cur = c.cur /\ g.temp = c.temp /\ g.err = c.err /\ g.ferr = c.ferr
      /\ g.slew = c.slew /\ g.el = c.el /\ g.fast = c.fast /\ g.reg = c.reg + x
  BY DEF Clocks
<1>6. Correction(n) = Correction(c) - x /\ Correction(g) = Correction(c) - x
  BY <1>1, <1>2, <1>4, <1>5 DEF Correction
<1>7. DriverAccrueOffset(c, x, r) = IF c.null THEN n ELSE UpdateSlew(g)
  BY DEF DriverAccrueOffset
<1> HIDE DEF n, g
<1>8. QED
  BY <1>3, <1>4, <1>5, <1>6, <1>7, UpdateSlewMoves

-----------------------------------------------------------------------------
\* The smoothing is a handler of its own: it leaves the clock alone.

LEMMA SmoothOffsetInt == ASSUME NEW c \in Clocks PROVE SmoothOffset(c) \in Int
<1>1. c.sm \in Smoothings
  BY DEF Clocks
<1>2. c.sm.off \in Int /\ c.sm.el \in Int
  BY <1>1 DEF Smoothings
<1>3. Sgn(c.sm.off) \in Int
  BY <1>2, AbsSgn
<1>4. Sgn(c.sm.off) * c.sm.el \in Int
  BY <1>2, <1>3
<1>5. QED
  BY <1>2, <1>4 DEF SmoothOffset

\* The two ways in which its state is written.
LEMMA SmoothFields ==
  ASSUME NEW m \in Smoothings, NEW x \in Int
  PROVE  /\ [m EXCEPT !.locked = FALSE, !.el = 0, !.unset = FALSE] \in Smoothings
         /\ [m EXCEPT !.off = x, !.el = 0, !.unset = FALSE] \in Smoothings
<1>1. ASSUME NEW n \in Smoothings
      PROVE  /\ [n EXCEPT !.locked = FALSE] \in Smoothings /\ [n EXCEPT !.el = 0] \in Smoothings
             /\ [n EXCEPT !.unset = FALSE] \in Smoothings /\ [n EXCEPT !.off = x] \in Smoothings
  <2>1. [n EXCEPT !.locked = FALSE] \in Smoothings
    BY Zenon DEF Smoothings
  <2>2. [n EXCEPT !.el = 0] \in Smoothings
    BY DEF Smoothings
  <2>3. [n EXCEPT !.unset = FALSE] \in Smoothings
    BY Zenon DEF Smoothings
  <2>4. [n EXCEPT !.off = x] \in Smoothings
    BY DEF Smoothings
  <2>5. QED
    BY <2>1, <2>2, <2>3, <2>4
<1>2. ASSUME NEW n \in Smoothings PROVE [n EXCEPT !.el = 0, !.unset = FALSE] \in Smoothings
  <2> DEFINE a == [n EXCEPT !.el = 0]
  <2>1. a \in Smoothings
    BY <1>1, Zenon
  <2>2. [n EXCEPT !.el = 0, !.unset = FALSE] = [a EXCEPT !.unset = FALSE]
    OBVIOUS
  <2> HIDE DEF a
  <2>3. QED
    BY <1>1, <2>1, <2>2, Zenon
<1>3. [m EXCEPT !.off = x, !.el = 0, !.unset = FALSE] \in Smoothings
  <2> DEFINE a == [m EXCEPT !.off = x]
  <2>1. a \in Smoothings
    BY <1>1, Zenon
  <2>2. [m EXCEPT !.off = x, !.el = 0, !.unset = FALSE] = [a EXCEPT !.el = 0, !.unset = FALSE]
    OBVIOUS
  <2> HIDE DEF a
  <2>3. QED
    BY <1>2, <2>1, <2>2, Zenon
<1>4. [m EXCEPT !.locked = FALSE, !.el = 0, !.unset = FALSE] \in Smoothings
  <2> DEFINE a == [m EXCEPT !.locked = FALSE]
  <2>1. a \in Smoothings
    BY <1>1, Zenon
  <2>2. [m EXCEPT !.locked = FALSE, !.el = 0, !.unset = FALSE] = [a EXCEPT !.el = 0, !.unset = FALSE]
    OBVIOUS
  <2> HIDE DEF a
  <2>3. QED
    BY <1>2, <2>1, <2>2, Zenon
<1>5. QED
  BY <1>3, <1>4

LEMMA SmoothSet ==
  ASSUME NEW c \in Clocks, NEW s \in Smoothings
  PROVE  LET d == [c EXCEPT !.sm = s] IN d \in Clocks /\ Agree(c, d) /\ d.sm = s
<1> DEFINE d == [c EXCEPT !.sm = s]
<1>1. d \in Clocks
  BY DEF Clocks
<1>2. d.sm = s
  BY DEF Clocks
<1>3. Agree(c, d)
  BY DEF Agree, Clocks
<1>4. QED
  BY <1>1, <1>2, <1>3

LEMMA UpdateSmoothingMoves ==
  ASSUME NEW c \in Clocks, NEW x \in Int, NEW steady
  PROVE  UpdateSmoothing(c, x, steady) \in Clocks /\ Agree(c, UpdateSmoothing(c, x, steady))
<1>1. c.sm \in Smoothings /\ SmoothOffset(c) \in Int
  BY SmoothOffsetInt DEF Clocks
<1> DEFINE o == SmoothOffset(c) + x
           s1 == [c.sm EXCEPT !.locked = FALSE, !.el = 0, !.unset = FALSE]
           s2 == [c.sm EXCEPT !.off = o, !.el = 0, !.unset = FALSE]
<1>2. s1 \in Smoothings /\ s2 \in Smoothings
  <2>1. o \in Int
    BY <1>1
  <2> HIDE DEF o
  <2>2. QED
    BY <1>1, <2>1, SmoothFields, Zenon
<1>3. UpdateSmoothing(c, x, steady) \in {c, [c EXCEPT !.sm = s1], [c EXCEPT !.sm = s2]}
  BY Zenon DEF UpdateSmoothing, Clocks
<1>4. Agree(c, c)
  BY DEF Agree
<1> HIDE DEF s1, s2
<1>5. QED
  BY <1>2, <1>3, <1>4, SmoothSet

LEMMA SmoothHandleSlewMoves ==
  ASSUME NEW c \in Clocks, NEW x \in Int, NEW type, NEW moved \in Int, NEW steady
  PROVE  LET d == SmoothHandleSlew(c, x, type, moved, steady) IN d \in Clocks /\ Agree(c, d)
<1> DEFINE y == IF c.leapOnly THEN 0 ELSE x
           u == IF type = "adjust" THEN UpdateSmoothing(c, y, steady) ELSE c
           s == [u.sm EXCEPT !.el = u.sm.el + moved + x]
<1>1. u \in Clocks /\ Agree(c, u)
  <2>1. y \in Int /\ Agree(c, c)
    BY DEF Agree
  <2> HIDE DEF y
  <2>2. QED
    BY <2>1, UpdateSmoothingMoves
<1>2. SmoothHandleSlew(c, x, type, moved, steady) =
          IF u.sm.unset THEN u ELSE [u EXCEPT !.sm.el = @ + moved + x]
  BY DEF SmoothHandleSlew
<1> HIDE DEF u
<1>3. u.sm \in Smoothings
  BY <1>1 DEF Clocks
<1>4. s \in Smoothings
  <2>1. u.sm.el + moved + x \in Int
    BY <1>3 DEF Smoothings
  <2>2. QED
    BY <1>3, <2>1 DEF Smoothings
<1>5. [u EXCEPT !.sm.el = @ + moved + x] = [u EXCEPT !.sm = s]
  BY <1>1 DEF Clocks
<1> HIDE DEF s
<1>6. [u EXCEPT !.sm = s] \in Clocks /\ Agree(u, [u EXCEPT !.sm = s])
  BY <1>1, <1>4, SmoothSet
<1>7. Agree(c, [u EXCEPT !.sm = s])
  BY <1>1, <1>6 DEF Agree
<1>8. QED
  BY <1>1, <1>2, <1>5, <1>6, <1>7

LEMMA SmoothResetMoves ==
  ASSUME NEW c \in Clocks PROVE SmoothReset(c) \in Clocks /\ Agree(c, SmoothReset(c))
<1> DEFINE s == [c.sm EXCEPT !.off = 0, !.el = 0, !.unset = FALSE]
<1>1. c.sm \in Smoothings
  BY DEF Clocks
<1>2. s \in Smoothings
  <2> DEFINE zero == 0
  <2>1. zero \in Int /\ s = [c.sm EXCEPT !.off = zero, !.el = 0, !.unset = FALSE]
    OBVIOUS
  <2> HIDE DEF zero, s
  <2>2. QED
    BY <1>1, <2>1, SmoothFields, Zenon
<1>3. SmoothReset(c) = [c EXCEPT !.sm = s]
  BY Zenon DEF SmoothReset, Clocks
<1> HIDE DEF s
<1>4. QED
  BY <1>2, <1>3, SmoothSet

-----------------------------------------------------------------------------
\* local.rs.

\* invoke_parameter_change_handlers leaves everything told when what it reports
\* is the movement from c0 to c, and it does not touch the correction.
LEMMA NotifyTold ==
  ASSUME NEW c0 \in Clocks, NEW c \in Clocks, NEW df \in Int, NEW x \in Int, NEW draw \in Int,
         NEW type, NEW steady,
         c.err = 0, c.ferr = 0, c.base = c.cur,
         Correction(c) - Correction(c0) + draw + x = 0,
         df = c.cur + c.temp - c0.cur - c0.temp
  PROVE  LET d == Notify(c0, c, df, x, type, draw, steady)
         IN  Told(d) /\ Correction(d) = Correction(c)
<1> DEFINE moved == Correction(c) - Correction(c0) + draw
           df0 == c.cur + c.temp - c0.cur - c0.temp
           ne == c.err + moved + x
           nf == c.ferr + df - df0
           g == [c EXCEPT !.err = ne]
           told == [g EXCEPT !.ferr = nf]
<1>1. Notify(c0, c, df, x, type, draw, steady) = SmoothHandleSlew(told, x, type, moved, steady)
  BY DEF Notify
<1>2. /\ Correction(c) \in Int /\ Correction(c0) \in Int /\ c.cur \in Int /\ c.temp \in Int
      /\ c0.cur \in Int /\ c0.temp \in Int
  BY CorrectionInt DEF Clocks
<1>3. moved \in Int /\ ne = 0 /\ nf = 0
  <2>1. moved \in Int /\ moved + x = 0
    BY <1>2
  <2>2. df0 \in Int /\ df - df0 = 0
    BY <1>2
  <2> HIDE DEF moved, df0
  <2>3. QED
    BY <2>1, <2>2
<1> HIDE DEF moved, ne, nf, df0
<1>4. g \in Clocks
  BY <1>3 DEF Clocks
<1>5. /\ g.err = 0 /\ g.ferr = c.ferr /\ g.base = c.base /\ g.cur = c.cur
      /\ g.slew = c.slew /\ g.el = c.el /\ g.fast = c.fast /\ g.reg = c.reg
  BY <1>3 DEF Clocks
<1> HIDE DEF g
<1>6. told \in Clocks
  BY <1>3, <1>4 DEF Clocks
<1>7. /\ told.err = g.err /\ told.ferr = 0 /\ told.base = g.base /\ told.cur = g.cur
      /\ told.slew = g.slew /\ told.el = g.el /\ told.fast = g.fast /\ told.reg = g.reg
  BY <1>3, <1>4 DEF Clocks
<1> HIDE DEF told
<1>8. Correction(told) = Correction(c)
  BY <1>5, <1>7 DEF Correction
<1> DEFINE d == SmoothHandleSlew(told, x, type, moved, steady)
<1>9. d \in Clocks /\ Agree(told, d)
  BY <1>3, <1>6, SmoothHandleSlewMoves
<1> HIDE DEF d
<1>10. Correction(d) = Correction(told)
  BY <1>9, AgreeCorrection
<1>11. Told(d)
  BY <1>5, <1>7, <1>9 DEF Told, Agree
<1>12. QED
  BY <1>1, <1>8, <1>10, <1>11 DEF d

\* A clock with another frequency set, and the same correction.
LEMMA FrequencySet ==
  ASSUME ClockConstants, NEW c, Told(c), NEW a \in Int
  PROVE  LET d == [DriverSetFrequency(c, a) EXCEPT !.cur = a] IN
         /\ Told(d) /\ Correction(d) = Correction(c) /\ d.cur = a /\ d.temp = c.temp
<1> DEFINE e == DriverSetFrequency(c, a)
           d == [e EXCEPT !.cur = a]
<1>1. c \in Clocks /\ c.err = 0 /\ c.ferr = 0
  BY DEF Told
<1>2. /\ e \in Clocks /\ Correction(e) = Correction(c) /\ e.base = a /\ e.temp = c.temp
      /\ e.err = c.err /\ e.ferr = c.ferr
  BY <1>1, SetFrequencyMoves
<1> HIDE DEF e
<1>3. d \in Clocks
  BY <1>2, Updated, Zenon
<1>4. d.cur = a /\ d.temp = e.temp /\ d.base = e.base /\ d.err = e.err /\ d.ferr = e.ferr
  BY <1>2 DEF Clocks
<1>5. d.slew = e.slew /\ d.el = e.el /\ d.fast = e.fast /\ d.reg = e.reg
  BY <1>2 DEF Clocks
<1> HIDE DEF d
<1>6. Correction(d) = Correction(e)
  BY <1>5 DEF Correction
<1>7. Told(d)
  BY <1>1, <1>2, <1>3, <1>4 DEF Told
<1>8. QED
  BY <1>2, <1>4, <1>6, <1>7 DEF d, e

\* A new frequency reported as the change that it is.
LEMMA FrequencyTold ==
  ASSUME ClockConstants, NEW c, Told(c), NEW a \in Int, NEW steady
  PROVE  Told(Notify(c, [DriverSetFrequency(c, a) EXCEPT !.cur = a], a - c.cur, 0, "adjust", 0, steady))
<1> DEFINE d == [DriverSetFrequency(c, a) EXCEPT !.cur = a]
           df == a - c.cur
           zero == 0
<1>1. Told(d) /\ Correction(d) = Correction(c) /\ d.cur = a /\ d.temp = c.temp
  BY FrequencySet
<1> HIDE DEF d
<1>2. c \in Clocks /\ d \in Clocks /\ d.err = 0 /\ d.ferr = 0 /\ d.base = d.cur
  BY <1>1 DEF Told
<1>3. Correction(c) \in Int /\ c.cur \in Int /\ c.temp \in Int
  BY <1>2, CorrectionInt DEF Clocks
<1>4. zero \in Int /\ Correction(d) - Correction(c) + zero + zero = 0
  BY <1>1, <1>3
<1>5. df \in Int /\ df = d.cur + d.temp - c.cur - c.temp
  BY <1>1, <1>3
<1> HIDE DEF df, zero
<1>6. Told(Notify(c, d, df, zero, "adjust", zero, steady))
  BY <1>2, <1>4, <1>5, NotifyTold
<1>7. QED
  BY <1>6 DEF df, zero, d

LEMMA SetAbsoluteFrequencyTold ==
  ASSUME ClockConstants, NEW c, Told(c), NEW f \in Int, NEW steady
  PROVE  Told(SetAbsoluteFrequency(c, f, steady))
<1> DEFINE a == Bounded(f, MaxDrift) - c.temp
<1>1. c.temp \in Int /\ Bounded(f, MaxDrift) \in Int
  BY BoundedInt DEF Told, Clocks, ClockConstants
<1>2. a \in Int
  BY <1>1
<1>3. SetAbsoluteFrequency(c, f, steady) =
        Notify(c, [DriverSetFrequency(c, a) EXCEPT !.cur = a], a - c.cur, 0, "adjust", 0, steady)
  BY DEF SetAbsoluteFrequency
<1> HIDE DEF a
<1>4. QED
  BY <1>2, <1>3, FrequencyTold

LEMMA AccumulateDeltaFrequencyTold ==
  ASSUME ClockConstants, NEW c, Told(c), NEW f \in Int, NEW steady
  PROVE  Told(AccumulateDeltaFrequency(c, f, steady))
<1> DEFINE a == Bounded(c.cur + f, MaxDrift)
<1>1. c.cur + f \in Int
  BY DEF Told, Clocks
<1>2. a \in Int
  BY <1>1, BoundedInt, Zenon DEF ClockConstants
<1>3. AccumulateDeltaFrequency(c, f, steady) =
        Notify(c, [DriverSetFrequency(c, a) EXCEPT !.cur = a], a - c.cur, 0, "adjust", 0, steady)
  BY DEF AccumulateDeltaFrequency
<1> HIDE DEF a
<1>4. QED
  BY <1>2, <1>3, FrequencyTold

\* A clock with an offset accrued.
LEMMA OffsetAccrued ==
  ASSUME ClockConstants, NEW c, Told(c), NEW x \in Int, NEW r \in Int
  PROVE  LET d == DriverAccrueOffset(c, x, r) IN
         /\ Told(d) /\ Correction(d) = Correction(c) - x /\ d.cur = c.cur /\ d.temp = c.temp
<1> DEFINE d == DriverAccrueOffset(c, x, r)
<1>1. c \in Clocks /\ c.err = 0 /\ c.ferr = 0 /\ c.base = c.cur
  BY DEF Told
<1>2. /\ d \in Clocks /\ Correction(d) = Correction(c) - x
      /\ d.base = c.base /\ d.cur = c.cur /\ d.temp = c.temp /\ d.err = c.err /\ d.ferr = c.ferr
  BY <1>1, AccrueOffsetMoves
<1> HIDE DEF d
<1>3. QED
  BY <1>1, <1>2 DEF Told, d

LEMMA AccumulateOffsetTold ==
  ASSUME ClockConstants, NEW c, Told(c), NEW x \in Int, NEW r \in Int, NEW steady
  PROVE  LET d == AccumulateOffset(c, x, r, steady)
         IN  Told(d) /\ Correction(d) = Correction(c) - x
<1> DEFINE d == DriverAccrueOffset(c, x, r)
           zero == 0
<1>1. Told(d) /\ Correction(d) = Correction(c) - x /\ d.cur = c.cur /\ d.temp = c.temp
  BY OffsetAccrued
<1> HIDE DEF d
<1>2. c \in Clocks /\ d \in Clocks /\ d.err = 0 /\ d.ferr = 0 /\ d.base = d.cur
  BY <1>1 DEF Told
<1>3. Correction(c) \in Int /\ c.cur \in Int /\ c.temp \in Int
  BY <1>2, CorrectionInt DEF Clocks
<1>4. zero \in Int /\ Correction(d) - Correction(c) + zero + x = 0
  BY <1>1, <1>3
<1>5. zero = d.cur + d.temp - c.cur - c.temp
  BY <1>1, <1>3
<1>6. AccumulateOffset(c, x, r, steady) = Notify(c, d, zero, x, "adjust", zero, steady)
  BY DEF AccumulateOffset, d
<1> HIDE DEF zero
<1>7. Told(Notify(c, d, zero, x, "adjust", zero, steady))
      /\ Correction(Notify(c, d, zero, x, "adjust", zero, steady)) = Correction(d)
  BY <1>2, <1>4, <1>5, NotifyTold
<1>8. QED
  BY <1>1, <1>6, <1>7

LEMMA AccumulateBothTold ==
  ASSUME ClockConstants, NEW c, Told(c), NEW f \in Int, NEW x \in Int, NEW r \in Int, NEW steady
  PROVE  /\ Told(AccumulateFrequencyAndOffset(c, f, x, r, steady))
         /\ Told(AccumulateQuietly(c, f, x, r))
<1> DEFINE a == Bounded(c.cur + f, MaxDrift)
           e == [DriverSetFrequency(c, a) EXCEPT !.cur = a]
           d == DriverAccrueOffset(e, x, r)
           df == a - c.cur
           zero == 0
<1>1. c.cur + f \in Int
  BY DEF Told, Clocks
<1>2. a \in Int
  BY <1>1, BoundedInt, Zenon DEF ClockConstants
<1>3. /\ AccumulateFrequencyAndOffset(c, f, x, r, steady) = Notify(c, d, df, x, "adjust", zero, steady)
      /\ AccumulateQuietly(c, f, x, r) = d
  BY DEF AccumulateFrequencyAndOffset, AccumulateQuietly
<1> HIDE DEF a
<1>4. Told(e) /\ Correction(e) = Correction(c) /\ e.cur = a /\ e.temp = c.temp
  BY <1>2, FrequencySet
<1> HIDE DEF e
<1>5. Told(d) /\ Correction(d) = Correction(e) - x /\ d.cur = e.cur /\ d.temp = e.temp
  BY <1>4, OffsetAccrued
<1> HIDE DEF d
<1>6. c \in Clocks /\ d \in Clocks /\ d.err = 0 /\ d.ferr = 0 /\ d.base = d.cur
  BY <1>5 DEF Told
<1>7. Correction(c) \in Int /\ c.cur \in Int /\ c.temp \in Int
  BY <1>6, CorrectionInt DEF Clocks
<1>8. zero \in Int /\ Correction(d) - Correction(c) + zero + x = 0
  BY <1>4, <1>5, <1>7
<1>9. df \in Int /\ df = d.cur + d.temp - c.cur - c.temp
  BY <1>2, <1>4, <1>5, <1>7
<1> HIDE DEF df, zero
<1>10. Told(Notify(c, d, df, x, "adjust", zero, steady))
  BY <1>6, <1>8, <1>9, NotifyTold
<1>11. QED
  BY <1>3, <1>5, <1>10

\* What a handler changes is nothing that Told or the correction looks at.
LEMMA AgreeTold ==
  ASSUME NEW c, NEW d \in Clocks, Told(c), Agree(c, d)
  PROVE  Told(d) /\ Correction(d) = Correction(c) /\ d.cur = c.cur /\ d.temp = c.temp
<1>1. Correction(d) = Correction(c)
  BY AgreeCorrection
<1>2. QED
  BY <1>1 DEF Told, Agree

\* A step: raw time moves by -x, slew_start with it, and the handlers hear x.
LEMMA ApplyStepOffsetTold ==
  ASSUME NEW c, Told(c), NEW x \in Int
  PROVE  Told(ApplyStepOffset(c, x)) /\ Correction(ApplyStepOffset(c, x)) = Correction(c)
<1> DEFINE s == SmoothReset(c)
           d == [s EXCEPT !.el = @ + (-x) + x]
           zero == 0
           back == -x
           steady == FALSE
<1>1. c \in Clocks
  BY DEF Told
<1>2. s \in Clocks /\ Agree(c, s)
  BY <1>1, SmoothResetMoves
<1>3. ApplyStepOffset(c, x) = Notify(c, d, zero, x, "step", back, steady)
  BY DEF ApplyStepOffset, HandleStep
<1> HIDE DEF s
<1>4. Told(s) /\ Correction(s) = Correction(c) /\ s.cur = c.cur /\ s.temp = c.temp
  BY <1>2, AgreeTold
<1>5. s.el \in Int /\ s.el + (-x) + x = s.el
  BY <1>2 DEF Clocks
<1>6. d = [s EXCEPT !.el = s.el]
  BY <1>5
<1>7. [s EXCEPT !.el = s.el] = s
  BY <1>2 DEF Clocks
<1>8. d = s
  BY <1>6, <1>7
<1>9. Correction(c) \in Int /\ c.cur \in Int /\ c.temp \in Int
  BY <1>1, CorrectionInt DEF Clocks
<1>10. back \in Int /\ zero \in Int /\ Correction(s) - Correction(c) + back + x = 0
  BY <1>4, <1>9
<1>11. zero = s.cur + s.temp - c.cur - c.temp
  BY <1>4, <1>9
<1>12. s.err = 0 /\ s.ferr = 0 /\ s.base = s.cur
  BY <1>4 DEF Told
<1> HIDE DEF zero, back, steady, d
<1>13. Told(Notify(c, s, zero, x, "step", back, steady))
       /\ Correction(Notify(c, s, zero, x, "step", back, steady)) = Correction(s)
  BY <1>1, <1>2, <1>10, <1>11, <1>12, NotifyTold
<1>14. QED
  BY <1>3, <1>4, <1>8, <1>13

\* The correction is taken out of the driver whole.
LEMMA CancelOffsetCorrectionTold ==
  ASSUME ClockConstants, NEW c, Told(c), NEW steady
  PROVE  LET d == CancelOffsetCorrection(c, steady) IN Told(d) /\ Correction(d) = 0
<1> DEFINE x == Correction(c)
           zero == 0
<1>1. x \in Int /\ zero \in Int
  BY CorrectionInt DEF Told
<1>2. CancelOffsetCorrection(c, steady) = AccumulateOffset(c, x, zero, steady)
  BY DEF CancelOffsetCorrection
<1> HIDE DEF zero
<1>3. Told(AccumulateOffset(c, x, zero, steady))
      /\ Correction(AccumulateOffset(c, x, zero, steady)) = Correction(c) - x
  <2> HIDE DEF x
  <2>1. QED
    BY <1>1, AccumulateOffsetTold
<1>4. Correction(c) - x = 0
  BY <1>1
<1>5. QED
  BY <1>2, <1>3, <1>4

LEMMA NotifyExternalTimeStepTold ==
  ASSUME ClockConstants, NEW c, Told(c), NEW jump \in Int, NEW steady
  PROVE  Told(NotifyExternalTimeStep(c, jump, steady))
<1> DEFINE d == CancelOffsetCorrection(c, steady)
           zero == 0
           back == -jump
<1>1. Told(d)
  BY CancelOffsetCorrectionTold
<1>2. NotifyExternalTimeStep(c, jump, steady) = Notify(d, d, zero, back, "unknown", jump, FALSE)
  BY DEF NotifyExternalTimeStep
<1> HIDE DEF d
<1>3. d \in Clocks /\ d.err = 0 /\ d.ferr = 0 /\ d.base = d.cur
  BY <1>1 DEF Told
<1>4. Correction(d) \in Int /\ d.cur \in Int /\ d.temp \in Int
  BY <1>3, CorrectionInt DEF Clocks
<1>5. back \in Int /\ zero \in Int /\ Correction(d) - Correction(d) + jump + back = 0
  BY <1>4
<1>6. zero = d.cur + d.temp - d.cur - d.temp
  BY <1>4
<1> HIDE DEF zero, back
<1>7. QED
  BY <1>2, <1>3, <1>5, <1>6, NotifyTold, ZenonT(60)

\* UTC moves under the clock, and the handlers hear of it as a step.
LEMMA NotifyLeapTold ==
  ASSUME NEW c, Told(c), NEW secs \in Int, NEW steady
  PROVE  Told(NotifyLeap(c, secs, steady))
<1> DEFINE u == UpdateSmoothing(c, secs, steady)
           d == IF c.leapOnly THEN u ELSE c
           back == -secs
           moved == Correction(d) - Correction(d) + 0
           df0 == d.cur + d.temp - d.cur - d.temp
           t1 == [d EXCEPT !.err = @ + moved + back]
           t2 == [t1 EXCEPT !.ferr = @ + 0 - df0]
           n == SmoothHandleSlew(t2, back, "step", moved, steady)
<1>1. c \in Clocks /\ Agree(c, c)
  BY DEF Told, Agree
<1>2. u \in Clocks /\ Agree(c, u)
  BY <1>1, UpdateSmoothingMoves
<1>3. NotifyLeap(c, secs, steady) = [n EXCEPT !.err = @ + secs]
  BY DEF NotifyLeap, Notify
<1> HIDE DEF u
<1>4. d \in Clocks /\ Told(d)
  BY <1>1, <1>2, AgreeTold
<1> HIDE DEF d
<1>5. Correction(d) \in Int /\ d.cur \in Int /\ d.temp \in Int /\ d.err = 0 /\ d.ferr = 0
  BY <1>4, CorrectionInt DEF Clocks, Told
<1>6. moved \in Int /\ d.err + moved + back = -secs /\ -secs \in Int
  BY <1>5
<1>7. t1 = [d EXCEPT !.err = -secs]
  BY <1>6
<1>8. t1 \in Clocks /\ t1.err = -secs /\ t1.ferr = 0 /\ t1.base = d.base /\ t1.cur = d.cur
  <2>1. t1 \in Clocks
    BY <1>4, <1>6, <1>7 DEF Clocks
  <2>2. t1.err = -secs /\ t1.ferr = d.ferr /\ t1.base = d.base /\ t1.cur = d.cur
    BY <1>4, <1>7 DEF Clocks
  <2>3. QED
    BY <1>5, <2>1, <2>2
<1> HIDE DEF t1
<1>9. t1.ferr + 0 - df0 = 0
  BY <1>5, <1>8
<1>10. t2 = [t1 EXCEPT !.ferr = 0]
  BY <1>9
<1>11. t2 \in Clocks /\ t2.err = -secs /\ t2.ferr = 0 /\ t2.base = t1.base /\ t2.cur = t1.cur
  <2>1. t2 \in Clocks
    BY <1>8, <1>10 DEF Clocks
  <2>2. t2.err = t1.err /\ t2.ferr = 0 /\ t2.base = t1.base /\ t2.cur = t1.cur
    BY <1>8, <1>10 DEF Clocks
  <2>3. QED
    BY <1>8, <2>1, <2>2
<1> HIDE DEF t2, moved
<1>12. back \in Int
  OBVIOUS
<1> HIDE DEF back
<1>13. n \in Clocks /\ Agree(t2, n)
  BY <1>6, <1>11, <1>12, SmoothHandleSlewMoves, SMTT(30)
<1> HIDE DEF n
<1>14. n.err = -secs /\ n.ferr = 0 /\ n.base = n.cur
  BY <1>4, <1>8, <1>11, <1>13 DEF Agree, Told
<1>15. n.err + secs = 0
  BY <1>14
<1>16. [n EXCEPT !.err = @ + secs] = [n EXCEPT !.err = 0]
  BY <1>15
<1> DEFINE r == [n EXCEPT !.err = 0]
<1>17. r \in Clocks /\ r.err = 0 /\ r.ferr = n.ferr /\ r.base = n.base /\ r.cur = n.cur
  BY <1>13 DEF Clocks
<1>18. QED
  BY <1>3, <1>14, <1>16, <1>17 DEF Told

LEMMA LeapSlewTold ==
  ASSUME ClockConstants, NEW c, Told(c), NEW secs \in Int, NEW steady
  PROVE  Told(LeapSlew(c, secs, steady))
<1> DEFINE n == NotifyLeap(c, secs, steady)
           zero == 0
<1>1. Told(n) /\ zero \in Int
  BY NotifyLeapTold
<1>2. LeapSlew(c, secs, steady) = AccumulateOffset(n, secs, zero, steady)
  BY DEF LeapSlew
<1> HIDE DEF n, zero
<1>3. QED
  BY <1>1, <1>2, AccumulateOffsetTold

\* make_step: the correction leaves the driver and becomes the step, once.
LEMMA MakeStepTold ==
  ASSUME ClockConstants, NEW c, Told(c), NEW works, NEW steady
  PROVE  LET d == MakeStep(c, works, steady) IN Told(d) /\ Correction(d) = 0
<1> DEFINE e == CancelOffsetCorrection(c, steady)
           x == -Correction(c)
<1>1. Told(e) /\ Correction(e) = 0
  BY CancelOffsetCorrectionTold
<1>2. Correction(c) \in Int
  BY CorrectionInt DEF Told
<1>3. x \in Int
  BY <1>2
<1>4. MakeStep(c, works, steady) = IF works THEN ApplyStepOffset(e, x) ELSE e
  BY DEF MakeStep, CancelOffsetCorrection
<1> HIDE DEF e, x
<1>5. Told(ApplyStepOffset(e, x)) /\ Correction(ApplyStepOffset(e, x)) = Correction(e)
  BY <1>1, <1>3, ApplyStepOffsetTold
<1>6. QED
  BY <1>1, <1>4, <1>5

\* The compensation replaces a part of the frequency by another name for it.
LEMMA SetTempCompTold ==
  ASSUME ClockConstants, NEW c, Told(c), NEW comp \in Int PROVE Told(SetTempComp(c, comp))
<1> DEFINE a == c.cur + c.temp - comp
           d == [DriverSetFrequency(c, a) EXCEPT !.cur = a]
           t == [d EXCEPT !.temp = comp]
<1>1. a \in Int
  BY DEF Told, Clocks
<1>2. SetTempComp(c, comp) = IF c.temp = comp THEN c ELSE t
  BY DEF SetTempComp
<1> HIDE DEF a
<1>3. Told(d)
  BY <1>1, FrequencySet
<1> HIDE DEF d
<1>4. d \in Clocks
  BY <1>3 DEF Told
<1>5. t \in Clocks
  BY <1>4, Updated, Zenon
<1>6. t.err = d.err /\ t.ferr = d.ferr /\ t.base = d.base /\ t.cur = d.cur
  BY <1>4 DEF Clocks
<1>7. QED
  BY <1>2, <1>3, <1>5, <1>6 DEF Told

-----------------------------------------------------------------------------
\* The behaviour.

\* Time alone: the kern works off its part of a slew.
LEMMA TickTold == ASSUME ClockConstants, Told(k), ClockTick PROVE Told(k')
<1> DEFINE f == Sgn(k.fast) * (IF Magnitude(k.fast) > FastRate THEN Magnitude(k.fast) - FastRate ELSE 0)
           e == IF k.sm.el >= Magnitude(k.sm.off) THEN k.sm.el ELSE k.sm.el + 1
           l == k.el + 1
           s == [k.sm EXCEPT !.el = e]
           c1 == [k EXCEPT !.el = l]
           c2 == [c1 EXCEPT !.fast = f]
           c == [c2 EXCEPT !.sm = s]
<1>1. k \in Clocks /\ k.err = 0 /\ k.ferr = 0 /\ k.base = k.cur
  BY DEF Told
<1>2. k.sm \in Smoothings /\ k.fast \in Int /\ k.el \in Int
  BY <1>1 DEF Clocks
<1>3. l \in Int
  BY <1>2
<1>4. f \in Int
  <2>1. Magnitude(k.fast) \in Int /\ Sgn(k.fast) \in Int
    BY <1>2, AbsSgn
  <2>2. QED
    BY <2>1 DEF ClockConstants
<1>5. s \in Smoothings
  <2>1. e \in Int
    BY <1>2 DEF Smoothings
  <2> HIDE DEF e
  <2>2. QED
    BY <1>2, <2>1 DEF Smoothings
<1>6. \/ k' = c \/ k' = BankOffset(c)
  <2>1. [k EXCEPT !.el = @ + 1,
                  !.fast = Sgn(@) * (IF Magnitude(@) > FastRate THEN Magnitude(@) - FastRate ELSE 0),
                  !.sm.el = IF k.sm.el >= Magnitude(k.sm.off) THEN @ ELSE @ + 1] = c
    BY <1>1 DEF Clocks
  <2>2. QED
    BY <2>1 DEF ClockTick
<1> HIDE DEF f, e, l, s
<1>7. c1 \in Clocks
  BY <1>1, <1>3, Updated, Zenon
<1>8. c1.err = k.err /\ c1.ferr = k.ferr /\ c1.base = k.base /\ c1.cur = k.cur
  BY <1>1 DEF Clocks
<1> HIDE DEF c1
<1>9. c2 \in Clocks
  BY <1>4, <1>7, Updated, Zenon
<1>10. c2.err = c1.err /\ c2.ferr = c1.ferr /\ c2.base = c1.base /\ c2.cur = c1.cur
  BY <1>7 DEF Clocks
<1> HIDE DEF c2
<1>11. c \in Clocks /\ Agree(c2, c)
  BY <1>5, <1>9, SmoothSet
<1> HIDE DEF c
<1>12. Told(c)
  BY <1>1, <1>8, <1>10, <1>11, SMTT(30) DEF Agree, Told
<1>13. Told(BankOffset(c))
  BY <1>11, <1>12, BankOffsetMoves DEF Told
<1>14. QED
  BY <1>6, <1>12, <1>13

LEMMA AdjustTold == ASSUME ClockConstants, Told(k), Adjust PROVE Told(k')
<1>1. PICK steady \in BOOLEAN :
        \/ \E f \in ClockFreqs : \/ k' = SetAbsoluteFrequency(k, f, steady)
                                 \/ k' = AccumulateDeltaFrequency(k, f, steady)
        \/ \E x \in ClockOffsets, rate \in CorrRates :
              \/ k' = AccumulateOffset(k, x, rate, steady)
              \/ \E f \in ClockFreqs : \/ k' = AccumulateFrequencyAndOffset(k, f, x, rate, steady)
                                       \/ k' = AccumulateQuietly(k, f, x, rate)
        \/ k' = CancelOffsetCorrection(k, steady)
        \/ \E l \in {-1, 1} : k' = LeapSlew(k, l, steady)
  BY Zenon DEF Adjust, Operation
<1>2. ASSUME NEW f \in ClockFreqs
      PROVE Told(SetAbsoluteFrequency(k, f, steady)) /\ Told(AccumulateDeltaFrequency(k, f, steady))
  BY SetAbsoluteFrequencyTold, AccumulateDeltaFrequencyTold DEF ClockConstants
<1>3. ASSUME NEW x \in ClockOffsets, NEW rate \in CorrRates
      PROVE Told(AccumulateOffset(k, x, rate, steady))
  BY AccumulateOffsetTold DEF ClockConstants
<1>4. ASSUME NEW f \in ClockFreqs, NEW x \in ClockOffsets, NEW rate \in CorrRates
      PROVE /\ Told(AccumulateFrequencyAndOffset(k, f, x, rate, steady))
            /\ Told(AccumulateQuietly(k, f, x, rate))
  BY AccumulateBothTold DEF ClockConstants
<1>5. Told(CancelOffsetCorrection(k, steady))
  BY CancelOffsetCorrectionTold
<1>6. ASSUME NEW l \in {-1, 1} PROVE Told(LeapSlew(k, l, steady))
  <2>1. l \in Int
    OBVIOUS
  <2>2. QED
    BY <2>1, LeapSlewTold
<1>7. QED
  BY <1>1, <1>2, <1>3, <1>4, <1>5, <1>6, Zenon

LEMMA StepTold == ASSUME ClockConstants, Told(k), Step PROVE Told(k')
<1>1. PICK steady \in BOOLEAN :
        \/ \E works \in BOOLEAN : k' = MakeStep(k, works, steady)
        \/ \E x \in ClockOffsets : \/ k' = ApplyStepOffset(k, x)
                                   \/ k' = NotifyExternalTimeStep(k, x, steady)
  BY Zenon DEF Step, Operation
<1>2. ASSUME NEW works \in BOOLEAN PROVE Told(MakeStep(k, works, steady))
  BY MakeStepTold
<1>3. ASSUME NEW x \in ClockOffsets
      PROVE Told(ApplyStepOffset(k, x)) /\ Told(NotifyExternalTimeStep(k, x, steady))
  BY ApplyStepOffsetTold, NotifyExternalTimeStepTold DEF ClockConstants
<1>4. QED
  BY <1>1, <1>2, <1>3, Zenon

\* Every step keeps everything told.
LEMMA NextTold == ASSUME ClockConstants, Told(k), [ClockNext]_clockvars PROVE Told(k')
<1>1. CASE Adjust
  BY <1>1, AdjustTold
<1>2. CASE Step
  BY <1>2, StepTold
<1>3. CASE Compensate
  <2>1. PICK comp \in ClockComps : k' = SetTempComp(k, comp)
    BY <1>3, SMTT(30) DEF Compensate, Operation
  <2>2. QED
    BY <2>1, SetTempCompTold DEF ClockConstants
<1>4. CASE EndOfSlew
  <2>1. k \in Clocks /\ k' = UpdateSlew(k)
    BY <1>4 DEF EndOfSlew, Told
  <2>2. QED
    BY <2>1, UpdateSlewMoves DEF Told
<1>5. CASE ClockTick
  BY <1>5, TickTold
<1>6. CASE UNCHANGED clockvars
  BY <1>6 DEF clockvars
<1>7. QED
  BY <1>1, <1>2, <1>3, <1>4, <1>5, <1>6 DEF ClockNext, ClockStep

LEMMA InitTold == ClockInit => Told(k)
<1> SUFFICES ASSUME ClockInit PROVE Told(k)
  OBVIOUS
<1> DEFINE start == [locked |-> TRUE, off |-> 0, el |-> 0, unset |-> TRUE]
<1>1. start \in Smoothings
  BY DEF Smoothings
<1>2. k \in [reg : {0}, slew : {0}, el : {0}, dur : {0}, excess : {0}, rate : {0},
             base : {0}, fast : {0}, canFast : BOOLEAN, fastOn : {FALSE}, null : BOOLEAN,
             cur : {0}, temp : {0}, leapOnly : BOOLEAN, sm : {start}, err : {0}, ferr : {0}]
  BY Zenon DEF ClockInit
<1> HIDE DEF start
<1>3. k.err = 0 /\ k.ferr = 0 /\ k.base = k.cur
  BY <1>2
<1>4. {0} \subseteq Int /\ {FALSE} \subseteq BOOLEAN /\ {start} \subseteq Smoothings
  BY <1>1
<1>5. k \in Clocks
  BY <1>2, <1>4, Zenon DEF Clocks
<1>6. QED
  BY <1>3, <1>5 DEF Told

\* The invariant of the specification.
LEMMA ToldInvariant == ASSUME ClockConstants PROVE ClockSpec => []Told(k)
<1>1. Told(k) /\ [ClockNext]_clockvars => Told(k)'
  BY NextTold
<1>2. QED
  BY <1>1, InitTold, PTL DEF ClockSpec

\* Whatever is done to the clock, and however late its timeouts fire, cooked
\* time and frequency have moved by exactly what invoke_parameter_change_handlers
\* reported, and local.rs and the driver agree on the frequency.
THEOREM ClockExactTheorem == ASSUME ClockConstants PROVE ClockSpec => []ClockExact
<1>1. Told(k) => ClockExact
  BY DEF Told, ClockExact
<1>2. QED
  BY <1>1, ToldInvariant, PTL

\* make_step leaves no correction outstanding, whatever was in progress.
THEOREM MakeStepTheorem == ASSUME ClockConstants PROVE ClockSpec => ClockMakeStepClears
<1>1. ASSUME Told(k), NEW works \in BOOLEAN, NEW steady \in BOOLEAN, k' = MakeStep(k, works, steady)
      PROVE  Correction(k') = 0
  BY <1>1, MakeStepTold
<1>2. Told(k) => [(ops' # ops /\ \E works \in BOOLEAN, steady \in BOOLEAN :
                     (works => ~k.null) /\ k' = MakeStep(k, works, steady))
                  => (Correction(k') = 0)]_clockvars
  BY <1>1
<1>3. QED
  BY <1>2, ToldInvariant, PTL DEF ClockMakeStepClears

-----------------------------------------------------------------------------
(* Manual input and the real-time clock (manual.rs, rtc_linux.rs).         *)

\* The samples that say what the clocks show now.
ManSamples == {m \in [when : Int, offset : Int] : m.offset = sysErr /\ m.when <= real + sysErr}
RtcSamples == {s \in [rtc : Int, sys : Int] : s.rtc - s.sys = rtcErr - sysErr}

MrInv ==
  /\ real \in Int /\ sysErr \in Int /\ rtcErr \in Int /\ known \in BOOLEAN
  /\ man \in Seq(ManSamples) /\ Len(man) <= ManMax
  /\ rtc \in [samples : Seq(RtcSamples), since : Nat]
  /\ coefs \in [valid : BOOLEAN, fast : Int]
  /\ coefs.valid /\ known => coefs.fast = rtcErr - sysErr

LEMMA SeqOfElements ==
  ASSUME NEW S, NEW T, NEW s \in Seq(S), \A i \in 1..Len(s) : s[i] \in T
  PROVE  s \in Seq(T)
OBVIOUS

LEMMA MrStart ==
  ASSUME MrInit
  PROVE  MrInv
<1> USE MrAssumption
<1>1. man \in Seq(ManSamples) /\ Len(man) <= ManMax
  BY DEF MrInit
<1>2. rtc \in [samples : Seq(RtcSamples), since : Nat]
  BY DEF MrInit, NoRtc
<1>3. coefs \in [valid : BOOLEAN, fast : Int] /\ ~ coefs.valid
  BY DEF MrInit, NoCoefs
<1> QED BY <1>1, <1>2, <1>3 DEF MrInit, MrInv

LEMMA AcceptKeeps ==
  ASSUME MrInv, AcceptTimestamp
  PROVE  man' \in Seq(ManSamples) /\ Len(man') <= ManMax
<1> USE MrAssumption
<1> DEFINE base == IF Len(man) = ManMax THEN Tail(man) ELSE man
           new == [when |-> real + sysErr, offset |-> sysErr]
<1>1. man \in Seq(ManSamples) /\ Len(man) \in Nat /\ Len(man) <= ManMax /\ ManMax \in Nat \ {0}
  BY DEF MrInv
<1>2. new \in ManSamples
  BY DEF MrInv, ManSamples
<1>3. base \in Seq(ManSamples) /\ Len(base) + 1 <= ManMax
  <2>1. CASE Len(man) = ManMax
    <3>1. man # <<>>
      BY <1>1, <2>1
    <3>2. Tail(man) \in Seq(ManSamples) /\ Len(Tail(man)) = Len(man) - 1
      BY <1>1, <3>1, HeadTailProperties
    <3> QED BY <1>1, <2>1, <3>2
  <2>2. CASE Len(man) # ManMax
    BY <1>1, <2>2
  <2> QED BY <2>1, <2>2
<1>4. man' = Append(base, new)
  BY DEF AcceptTimestamp
<1> HIDE DEF base, new
<1> QED BY <1>2, <1>3, <1>4, AppendProperties

LEMMA DeleteKeeps ==
  ASSUME MrInv, NEW i, DeleteSample(i)
  PROVE  man' \in Seq(ManSamples) /\ Len(man') <= ManMax
<1> USE MrAssumption
<1>1. man \in Seq(ManSamples) /\ Len(man) \in Nat /\ Len(man) <= ManMax /\ i \in 1..Len(man)
  <2>1. man \in Seq(ManSamples) /\ Len(man) <= ManMax /\ i \in DOMAIN man
    BY DEF MrInv, DeleteSample
  <2> QED BY <2>1
<1> DEFINE a == SubSeq(man, 1, i - 1)
           b == SubSeq(man, i + 1, Len(man))
<1>2. \A j \in 1..Len(man) : man[j] \in ManSamples
  BY <1>1, ElementOfSeq
<1>3. a \in Seq(ManSamples) /\ Len(a) = i - 1
  <2>1. \A j \in 1..(i - 1) : man[j] \in ManSamples
    BY <1>1, <1>2
  <2>2. Len(a) = IF 1 <= i - 1 THEN i - 1 - 1 + 1 ELSE 0
    BY <1>1, <2>1, SubSeqProperties
  <2> QED BY <1>1, <2>1, <2>2, SubSeqProperties
<1>4. b \in Seq(ManSamples) /\ Len(b) = Len(man) - i
  <2>1. \A j \in (i + 1)..Len(man) : man[j] \in ManSamples
    BY <1>1, <1>2
  <2>2. Len(b) = IF i + 1 <= Len(man) THEN Len(man) - (i + 1) + 1 ELSE 0
    BY <1>1, <2>1, SubSeqProperties
  <2> QED BY <1>1, <2>1, <2>2, SubSeqProperties
<1>5. man' = a \o b
  BY DEF DeleteSample
<1> HIDE DEF a, b
<1> QED BY <1>1, <1>3, <1>4, <1>5, ConcatProperties

\* Both records and the estimate move with a step of the clock.
LEMMA StepClockKeeps ==
  ASSUME MrInv, NEW d \in MrSteps, StepClock(d)
  PROVE  MrInv'
<1> USE MrAssumption
<1>1. /\ d \in Int /\ sysErr' = sysErr - d /\ sysErr' \in Int /\ UNCHANGED <<real, rtcErr, enabled, known>>
      /\ real \in Int /\ sysErr \in Int /\ rtcErr \in Int
  BY DEF MrInv, StepClock
<1>2. man' \in Seq(ManSamples') /\ Len(man') <= ManMax
  <2>1. man \in Seq(ManSamples) /\ \A i \in 1..Len(man) : man[i] \in ManSamples
    BY ElementOfSeq DEF MrInv
  <2>2. man' = [i \in 1..Len(man) |-> [man[i] EXCEPT !.when = @ - d, !.offset = @ - d]]
    <3>1. man' = [i \in DOMAIN man |-> [man[i] EXCEPT !.when = @ - d, !.offset = @ - d]]
      BY Zenon DEF StepClock, ManSlewed
    <3>2. DOMAIN man = 1..Len(man)
      BY <2>1
    <3> QED BY <3>1, <3>2, Zenon
  <2>3. \A i \in 1..Len(man) : [man[i] EXCEPT !.when = @ - d, !.offset = @ - d] \in ManSamples'
    <3> SUFFICES ASSUME NEW m \in ManSamples
                 PROVE  [m EXCEPT !.when = @ - d, !.offset = @ - d] \in ManSamples'
      BY <2>1, Zenon
    <3>1. /\ m \in [when : Int, offset : Int] /\ m.offset = sysErr /\ m.when <= real + sysErr
          /\ m.when \in Int /\ m.offset \in Int
      BY DEF ManSamples
    <3> DEFINE w == m.when - d
               o == m.offset - d
    <3>2. w \in Int /\ o \in Int /\ o = sysErr' /\ w <= real' + sysErr'
      BY <1>1, <3>1
    <3> DEFINE x == [m EXCEPT !.when = @ - d, !.offset = @ - d]
    <3>3. x = [m EXCEPT !.when = w, !.offset = o]
      OBVIOUS
    <3> HIDE DEF w, o, x
    <3>4. x \in [when : Int, offset : Int] /\ x.when = w /\ x.offset = o
      BY <3>1, <3>2, <3>3, Zenon
    <3> QED BY <3>2, <3>4, Zenon DEF ManSamples, x
  <2>4. man' \in [1..Len(man) -> ManSamples']
    BY <2>2, <2>3, Zenon
  <2>5. Len(man) \in Nat
    BY <2>1
  <2>6. DOMAIN man' = 1..Len(man) /\ \A i \in 1..Len(man) : man'[i] \in ManSamples'
    BY <2>4, Zenon
  <2>7. man' = [i \in 1..Len(man) |-> man'[i]]
    BY <2>4, Zenon
  <2>8. man' \in Seq(ManSamples')
    BY <2>5, <2>6, <2>7, IsASeq
  <2>9. Len(man') = Len(man)
    BY <2>5, <2>6, <2>8
  <2> QED BY <2>8, <2>9 DEF MrInv
<1>3. rtc' \in [samples : Seq(RtcSamples'), since : Nat]
  <2> DEFINE q == rtc.samples
  <2>1. q \in Seq(RtcSamples) /\ (\A i \in 1..Len(q) : q[i] \in RtcSamples) /\ Len(q) \in Nat
    BY ElementOfSeq DEF MrInv
  <2> DEFINE q2 == [i \in DOMAIN q |-> [q[i] EXCEPT !.sys = @ - d]]
  <2>2. q2 = [i \in 1..Len(q) |-> [q[i] EXCEPT !.sys = @ - d]]
    BY <2>1
  <2>3. \A i \in 1..Len(q) : [q[i] EXCEPT !.sys = @ - d] \in RtcSamples'
    <3> SUFFICES ASSUME NEW s \in RtcSamples PROVE [s EXCEPT !.sys = @ - d] \in RtcSamples'
      BY <2>1
    <3>1. s \in [rtc : Int, sys : Int] /\ s.rtc - s.sys = rtcErr - sysErr /\ s.rtc \in Int /\ s.sys \in Int
      BY DEF RtcSamples
    <3> DEFINE y == s.sys - d
    <3>2. y \in Int /\ s.rtc - y = rtcErr' - sysErr'
      BY <1>1, <3>1
    <3>3. [s EXCEPT !.sys = @ - d] = [rtc |-> s.rtc, sys |-> y]
      BY <3>1
    <3> HIDE DEF y
    <3> QED BY <3>1, <3>2, <3>3 DEF RtcSamples
  <2> HIDE DEF q2
  <2>4. q2 \in Seq(RtcSamples')
    BY <2>1, <2>2, <2>3, IsASeq
  <2>5. rtc' = [rtc EXCEPT !.samples = q2]
    BY DEF StepClock, RtcSlewed, q2
  <2> QED BY <2>4, <2>5 DEF MrInv
<1>4. coefs' \in [valid : BOOLEAN, fast : Int] /\ (coefs'.valid /\ known' => coefs'.fast = rtcErr' - sysErr')
  <2>1. coefs' = IF coefs.valid THEN [coefs EXCEPT !.fast = @ + d] ELSE coefs
    BY DEF StepClock, RtcSlewed
  <2>2. /\ coefs \in [valid : BOOLEAN, fast : Int] /\ (coefs.valid /\ known => coefs.fast = rtcErr - sysErr)
        /\ coefs.fast \in Int
    BY DEF MrInv
  <2> DEFINE f == coefs.fast + d
  <2>3. f \in Int /\ (coefs.fast = rtcErr - sysErr => f = rtcErr' - sysErr')
    BY <1>1, <2>2
  <2>4. CASE coefs.valid
    <3>1. coefs' = [coefs EXCEPT !.fast = f]
      BY <2>1, <2>4
    <3> HIDE DEF f
    <3>2. coefs'.fast = f /\ coefs'.valid = coefs.valid /\ coefs' \in [valid : BOOLEAN, fast : Int]
      BY <2>2, <2>3, <3>1
    <3> QED BY <1>1, <2>2, <2>3, <2>4, <3>2
  <2>5. CASE ~ coefs.valid
    BY <2>1, <2>2, <2>5
  <2> QED BY <2>4, <2>5
<1> QED BY <1>1, <1>2, <1>3, <1>4 DEF MrInv

\* What accumulate_sample leaves is not empty and current.
LEMMA AccumulatedCurrent ==
  ASSUME MrInv
  PROVE  Accumulated \in Seq(RtcSamples) /\ Len(Accumulated) >= 1
<1> USE MrAssumption
<1> DEFINE q == rtc.samples
           kept == IF Len(q) = RtcMax THEN SubSeq(q, RtcDrop + 1, RtcMax) ELSE q
           usable == IF kept # <<>> /\ kept[Len(kept)].rtc >= real + rtcErr THEN <<>> ELSE kept
           new == [rtc |-> real + rtcErr, sys |-> real + sysErr]
<1>1. q \in Seq(RtcSamples) /\ Len(q) \in Nat /\ \A i \in 1..Len(q) : q[i] \in RtcSamples
  BY ElementOfSeq DEF MrInv
<1>2. new \in RtcSamples
  BY DEF MrInv, RtcSamples
<1>3. kept \in Seq(RtcSamples)
  <2>1. CASE Len(q) = RtcMax
    <3>1. \A i \in (RtcDrop + 1)..RtcMax : q[i] \in RtcSamples
      BY <1>1, <2>1
    <3>2. RtcDrop + 1 \in Int /\ RtcMax \in Int
      OBVIOUS
    <3> QED BY <2>1, <3>1, <3>2, SubSeqProperties
  <2>2. CASE Len(q) # RtcMax
    BY <1>1, <2>2
  <2> QED BY <2>1, <2>2
<1> HIDE DEF kept
<1>4. usable \in Seq(RtcSamples)
  BY <1>3
<1>5. Accumulated = Append(usable, new)
  BY DEF Accumulated, kept
<1> HIDE DEF usable, new
<1> QED BY <1>2, <1>4, <1>5, AppendProperties, LenProperties

LEMMA ReadingKeeps ==
  ASSUME MrInv, ProcessReading
  PROVE  MrInv'
<1> USE MrAssumption
<1> DEFINE s == Accumulated
<1>1. s \in Seq(RtcSamples) /\ Len(s) >= 1 /\ Len(s) \in Nat /\ \A i \in 1..Len(s) : s[i] \in RtcSamples
  BY AccumulatedCurrent, ElementOfSeq
<1>2. UNCHANGED <<real, sysErr, rtcErr, enabled, man>> /\ ManSamples' = ManSamples /\ RtcSamples' = RtcSamples
  BY DEF ProcessReading, ManSamples, RtcSamples
<1>3. rtc.since \in Nat
  BY Zenon DEF MrInv
<1> HIDE DEF s
<1> DEFINE RtcType == [samples : Seq(RtcSamples), since : Nat]
           CoefsType == [valid : BOOLEAN, fast : Int]
<1>a. /\ real' \in Int /\ sysErr' \in Int /\ rtcErr' \in Int
      /\ man' \in Seq(ManSamples') /\ Len(man') <= ManMax
      /\ [samples : Seq(RtcSamples'), since : Nat] = RtcType
  BY <1>2, Zenon DEF MrInv
<1>b. ASSUME UNCHANGED <<coefs, known>>
      PROVE  known' \in BOOLEAN /\ coefs' \in CoefsType /\ (coefs'.valid /\ known' => coefs'.fast = rtcErr' - sysErr')
  BY <1>2, <1>b, Zenon DEF MrInv
<1>c. rtc.since + 1 \in Nat
  BY <1>3
<1>d. ASSUME NEW q \in Seq(RtcSamples), NEW n \in Nat, rtc' = [samples |-> q, since |-> n] PROVE rtc' \in RtcType
  BY <1>d, Zenon
<1>4. CASE rtc' = [samples |-> s, since |-> rtc.since + 1] /\ UNCHANGED <<coefs, known>>
  <2>1. rtc' \in RtcType
    BY <1>1, <1>4, <1>c, <1>d, Zenon
  <2> QED BY <1>4, <1>a, <1>b, <2>1, Zenon DEF MrInv
<1>5. CASE rtc' = [samples |-> s, since |-> 0] /\ UNCHANGED <<coefs, known>>
  <2>1. 0 \in Nat
    OBVIOUS
  <2>2. rtc' \in RtcType
    BY <1>1, <1>5, <1>d, <2>1, Zenon
  <2> QED BY <1>5, <1>a, <1>b, <2>2, Zenon DEF MrInv
<1>6. CASE /\ \E start \in 0..(Len(s) - 1) : rtc' = [samples |-> SubSeq(s, start + 1, Len(s)), since |-> 0]
           /\ coefs' = [valid |-> TRUE, fast |-> s[1].rtc - s[1].sys]
           /\ known' = TRUE
  <2>1. PICK start \in 0..(Len(s) - 1) : rtc' = [samples |-> SubSeq(s, start + 1, Len(s)), since |-> 0]
    BY <1>6, Zenon
  <2>2. SubSeq(s, start + 1, Len(s)) \in Seq(RtcSamples)
    <3>1. (\A i \in (start + 1)..Len(s) : s[i] \in RtcSamples) /\ start + 1 \in Int /\ Len(s) \in Int
      BY <1>1
    <3> QED BY <3>1, SubSeqProperties
  <2>3. s[1] \in RtcSamples
    BY <1>1
  <2>4. s[1].rtc - s[1].sys = rtcErr - sysErr
    BY <2>3 DEF RtcSamples
  <2>5. rtcErr - sysErr \in Int
    BY DEF MrInv
  <2>6. coefs' = [valid |-> TRUE, fast |-> rtcErr - sysErr]
    BY <1>6, <2>4, Zenon
  <2>7. 0 \in Nat
    OBVIOUS
  <2>8. rtc' \in RtcType
    BY <1>d, <2>1, <2>2, <2>7, Zenon
  <2>9. coefs' \in CoefsType /\ coefs'.fast = rtcErr - sysErr
    BY <2>5, <2>6, Zenon
  <2> QED BY <1>2, <1>6, <1>a, <2>8, <2>9, Zenon DEF MrInv
<1> QED BY <1>4, <1>5, <1>6, Zenon DEF ProcessReading, RunRegression, s

LEMMA MrStep ==
  ASSUME MrInv, [MrNext]_mrvars
  PROVE  MrInv'
<1> USE MrAssumption
<1>1. ASSUME UNCHANGED <<real, sysErr, rtcErr>> PROVE ManSamples' = ManSamples /\ RtcSamples' = RtcSamples
  BY <1>1, SMTT(30) DEF ManSamples, RtcSamples
<1>2. CASE UNCHANGED mrvars
  BY <1>1, <1>2 DEF mrvars, MrInv
<1>3. CASE MrTick
  <2>1. RtcSamples' = RtcSamples
    BY <1>3 DEF MrTick, RtcSamples
  <2>2. ManSamples \subseteq ManSamples'
    BY <1>3 DEF MrTick, ManSamples, MrInv
  <2>3. man \in Seq(ManSamples')
    BY <2>2, ElementOfSeq, SeqOfElements DEF MrInv
  <2>4. real' = real + 1 /\ UNCHANGED <<sysErr, rtcErr, man, rtc, coefs, known>>
    BY <1>3 DEF MrTick
  <2>5. real' \in Int
    BY <2>4 DEF MrInv
  <2> QED BY <2>1, <2>3, <2>4, <2>5, Zenon DEF MrInv
<1>4. CASE AcceptTimestamp
  BY <1>1, <1>4, AcceptKeeps, ZenonT(60) DEF AcceptTimestamp, MrInv
<1>5. CASE ManualReset
  <2>1. man' \in Seq(ManSamples') /\ Len(man') <= ManMax
    BY <1>5 DEF ManualReset
  <2> QED BY <1>1, <1>5, <2>1 DEF ManualReset, MrInv
<1>6. CASE ProcessReading
  BY <1>6, ReadingKeeps, SMTT(30)
<1>7. CASE Trim
  <2>1. ManSamples' = ManSamples
    BY <1>7 DEF Trim, ManSamples
  <2>2. rtc' \in [samples : Seq(RtcSamples'), since : Nat]
    <3>1. rtc' = [samples |-> << >>, since |-> 0]
      BY <1>7, Zenon DEF Trim, NoRtc
    <3>2. << >> \in Seq(RtcSamples') /\ 0 \in Nat
      OBVIOUS
    <3> QED BY <3>1, <3>2, Zenon
  <2> QED BY <1>7, <2>1, <2>2 DEF Trim, MrInv, NoCoefs
<1>8. ASSUME NEW i \in 1..ManMax, DeleteSample(i) PROVE MrInv'
  BY <1>1, <1>8, DeleteKeeps, Zenon DEF DeleteSample, MrInv
<1>9. ASSUME NEW on \in BOOLEAN, Enable(on) PROVE MrInv'
  BY <1>1, <1>9, Zenon DEF Enable, MrInv
<1>10. ASSUME NEW d \in MrSteps, StepClock(d) PROVE MrInv'
  BY <1>10, StepClockKeeps
<1>11. ASSUME NEW to \in Errors, UnknownStep(to) PROVE MrInv'
  <2>1. man' \in Seq(ManSamples') /\ Len(man') <= ManMax
    BY <1>11 DEF UnknownStep
  <2>2. rtc' \in [samples : Seq(RtcSamples'), since : Nat]
    <3>1. rtc' = [rtc EXCEPT !.samples = <<>>] /\ <<>> \in Seq(RtcSamples')
      BY <1>11 DEF UnknownStep
    <3> QED BY <3>1, Zenon DEF MrInv
  <2> QED BY <1>11, <2>1, <2>2, Zenon DEF UnknownStep, MrInv
<1> QED BY <1>2, <1>3, <1>4, <1>5, <1>6, <1>7, <1>8, <1>9, <1>10, <1>11 DEF MrNext

\* After any sequence of entered times, readings, steps (known or not), trims
\* and resets, the samples of manual.rs and of rtc_linux.rs are in the time the
\* system clock shows now, and known coefficients describe the real-time clock.
THEOREM SamplesTheorem == MrSpec => []SamplesCurrent
<1>1. MrInv => SamplesCurrent
  <2> SUFFICES ASSUME MrInv PROVE SamplesCurrent
    OBVIOUS
  <2>1. \A i \in DOMAIN man : man[i] \in ManSamples
    BY ElementOfSeq DEF MrInv
  <2>2. ManualSamplesCurrent
    BY <2>1 DEF MrInv, ManSamples, ManualSamplesCurrent
  <2>3. rtc.samples \in Seq(RtcSamples)
    BY DEF MrInv
  <2>4. \A i \in DOMAIN rtc.samples : rtc.samples[i] \in RtcSamples
    BY <2>3, ElementOfSeq
  <2>5. RtcSamplesCurrent
    BY <2>4 DEF RtcSamples, RtcSamplesCurrent
  <2>6. RtcCoefsCurrent
    BY DEF MrInv, RtcCoefsCurrent
  <2> QED BY <2>2, <2>5, <2>6 DEF SamplesCurrent
<1>2. MrInit => MrInv
  BY MrStart
<1>3. MrInv /\ [MrNext]_mrvars => MrInv'
  BY MrStep
<1> QED BY <1>1, <1>2, <1>3, PTL DEF MrSpec
=============================================================================
