------------------------------- MODULE Refclock -------------------------------
(***************************************************************************)
(* Reference clocks (refclock.rs) over the sample filter (samplefilt.rs):  *)
(* a polled clock such as SHM that reports whole times, and pulse clocks   *)
(* that only know the time within a second and take the second from the    *)
(* samples of another clock (lock) or from the daemon's reference.         *)
(*                                                                         *)
(* Time and offsets are in the same integer unit, Second of them to a      *)
(* second.  The environment knows the true error of the local clock; a     *)
(* whole-time clock measures it up to Noise.  Slews re-base everything.    *)
(* Local mode (follow_local) is left out.                                  *)
(***************************************************************************)
EXTENDS Integers, Sequences, FiniteSets

(***************************************************************************)
(* The sample filter (samplefilt.rs): a window of raw measurements that is *)
(* combined into one sample on demand.  A filter is a record               *)
(*     buf  the samples of the window, oldest first                        *)
(*     last the last accumulated sample, kept when the window is cleared;  *)
(*          NoSample if there is none                                      *)
(* and a sample [t, off, disp] has a time, an offset and a peer dispersion *)
(* in integer units.  The circular indices of the code are the positions   *)
(* in buf; the regression that combines the selected samples is abstracted *)
(* to the range in which its result lies.                                  *)
(***************************************************************************)
CONSTANTS
    FilterMin,      \* min_samples
    FilterMax,      \* max_samples
    CombineRatio    \* combine_ratio, in percent

NoSample == [t |-> -1, off |-> 0, disp |-> 0]
EmptyFilter == [buf |-> <<>>, last |-> NoSample]

\* check_sample: times increase within a window.
CheckSample(f, s) == f.buf = <<>> \/ f.last.t < s.t

\* SPF_AccumulateSample: the oldest sample gives way when the window is full.
Accumulate(f, s) ==
    IF ~CheckSample(f, s) THEN f
    ELSE [buf |-> Append(IF Len(f.buf) < FilterMax THEN f.buf ELSE Tail(f.buf), s), last |-> s]

\* SPF_DropSamples, and drop_samples(keep_last).
DropAll(f) == EmptyFilter
DropWindow(f) == [f EXCEPT !.buf = <<>>]

\* SPF_SlewSamples for a change of the offset.
Slewed(s, doffset) == [s EXCEPT !.t = @ - doffset, !.off = @ + doffset]

\* get_first_last and SPF_SlewSamples: the window, or the last sample when the
\* window is empty.
SlewSamples(f, doffset) ==
    IF f.last.t < 0 THEN f
    ELSE [buf  |-> [i \in DOMAIN f.buf |-> Slewed(f.buf[i], doffset)],
          last |-> Slewed(f.last, doffset)]

\* How many of j samples are dropped at each end of the offsets.
Trim(j) ==
    IF j <= 2 THEN 0
    ELSE LET n == (j * (100 - CombineRatio)) \div 200
         IN  IF n < 1 THEN 1 ELSE IF n > (j - 1) \div 2 THEN (j - 1) \div 2 ELSE n

\* select_samples: the positions of the samples that are combined.  Samples of
\* low dispersion are preferred in windows of more than four, ties in the
\* offset keep the order of the buffer.
SelectSamples(f) ==
    LET n       == Len(f.buf)
        minDisp == CHOOSE d \in {f.buf[i].disp : i \in 1..n} : \A i \in 1..n : d <= f.buf[i].disp
        close   == {i \in 1..n : 2 * f.buf[i].disp <= 3 * minDisp}
        chosen  == IF n > 4 /\ Cardinality(close) >= 4 THEN close ELSE 1..n
        j       == Cardinality(chosen)
        below(i) == {l \in chosen : f.buf[l].off < f.buf[i].off \/ (f.buf[l].off = f.buf[i].off /\ l < i)}
    IN  IF n < FilterMin \/ n = 0 THEN {}
        ELSE {i \in chosen : Cardinality(below(i)) \in Trim(j)..(j - Trim(j) - 1)}

\* combine_selected_samples: the mean of the selected offsets, and of their
\* times, rounded down.  The caller allows for a variance above the limit.
Combine(f, selected) ==
    LET n == Cardinality(selected)
        Total(g) == LET S[i \in 0..Len(f.buf)] ==
                            IF i = 0 THEN 0 ELSE S[i - 1] + (IF i \in selected THEN g[i] ELSE 0)
                    IN  S[Len(f.buf)]
    IN  [t |-> Total([i \in DOMAIN f.buf |-> f.buf[i].t]) \div n,
         off |-> Total([i \in DOMAIN f.buf |-> f.buf[i].off]) \div n,
         disp |-> Total([i \in DOMAIN f.buf |-> f.buf[i].disp]) \div n]

\* A filter's promise, over a window f whose honest samples have offsets in
\* 0..Spread and which contains at most one spike when it has three samples or
\* more (samplefilt.rs select_samples): the combined offset is honest.
SpikeRejected(f, Spread) ==
    LET honest == {i \in DOMAIN f.buf : f.buf[i].off \in 0..Spread}
        sel    == SelectSamples(f)
    IN  (Len(f.buf) >= 3 /\ Len(f.buf) - Cardinality(honest) <= 1 /\ sel # {})
        => Combine(f, sel).off \in 0..Spread

-----------------------------------------------------------------------------
(***************************************************************************)
(* The reference-clock drivers: how refclock_shm.rs and refclock_sock.rs   *)
(* turn what they read into timestamps, as functions.  A timestamp is      *)
(* [sec, nsec]; a second has Kilo microseconds of Kilo nanoseconds,        *)
(* with Kilo scaled down from 1000 so that TLC can enumerate them.         *)
(***************************************************************************)
CONSTANT Kilo       \* nanoseconds in a microsecond, microseconds in a second
Giga == Kilo * Kilo

Instant(ts) == ts.sec * Giga + ts.nsec
Nothing == [none |-> TRUE]

\* C and Rust division truncates.
Quot(a, b) == IF a >= 0 THEN a \div b ELSE -((-a) \div b)
Rem(a, b) == a - b * Quot(a, b)

\* normalise.
Normalise(ts) ==
    IF ts.nsec \in 0..(Giga - 1) THEN ts
    ELSE LET q == Quot(ts.nsec, Giga)
             r == Rem(ts.nsec, Giga)
         IN  IF r < 0 THEN [sec |-> ts.sec + q - 1, nsec |-> r + Giga]
             ELSE [sec |-> ts.sec + q, nsec |-> r]

\* ShmDriver::poll on a snapshot t, with the count read again afterwards.
ShmPoll(t, count) ==
    IF (t.mode = 1 /\ t.count # count) \/ t.mode \notin {0, 1} \/ t.valid = 0 THEN Nothing
    ELSE LET fine == Quot(t.cn, Kilo) = t.cu /\ Quot(t.rn, Kilo) = t.ru
         IN  [none |-> FALSE,
              clock |-> Normalise([sec |-> t.cs, nsec |-> IF fine THEN t.cn ELSE Kilo * t.cu]),
              recv  |-> Normalise([sec |-> t.rs, nsec |-> IF fine THEN t.rn ELSE Kilo * t.ru])]

\* SockDriver::read_sample: whole datagrams with the magic and a sane offset.
SockReadSample(d, sane) ==
    IF ~d.whole \/ ~d.magic \/ ~sane THEN Nothing
    ELSE LET total == d.usec * Kilo
             sys   == [sec |-> d.sec + total \div Giga, nsec |-> total % Giga]
         IN  [none |-> FALSE, pulse |-> d.pulse # 0, sys |-> sys,
              ref |-> Normalise([sys EXCEPT !.nsec = @ + d.offset])]

-----------------------------------------------------------------------------
\* A valid SHM sample gives normalised times that are those of its nanosecond
\* fields when these agree with the microseconds, and within a microsecond of
\* the latter always (refclock_shm.rs poll).
ShmTimesRight(t, count) ==
    LET p == ShmPoll(t, count)
        near(ts, s, u) == Instant(ts) - (s * Giga + u * Kilo) \in (-Kilo + 1)..(Kilo - 1)
    IN  p.none \/ (/\ p.clock.nsec \in 0..(Giga - 1) /\ p.recv.nsec \in 0..(Giga - 1)
                   /\ near(p.clock, t.cs, t.cu) /\ near(p.recv, t.rs, t.ru)
                   /\ t.mode = 1 => t.count = count)

\* A SOCK sample keeps the system time it was sent, normalised, and its
\* reference time differs by exactly the offset (refclock_sock.rs read_sample).
SockTimesRight(d, sane) ==
    LET p == SockReadSample(d, sane)
    IN  p.none \/ (/\ p.sys.nsec \in 0..(Giga - 1) /\ p.ref.nsec \in 0..(Giga - 1)
                   /\ Instant(p.sys) = d.sec * Giga + d.usec * Kilo
                   /\ Instant(p.ref) - Instant(p.sys) = d.offset)

-----------------------------------------------------------------------------
CONSTANTS
    Clocks,         \* the refclocks: a set of indices 0..n-1
    Second,         \* time units in a second
    LockLimit,      \* PPS_LOCK_LIMIT in time units
    Noises,         \* errors of a whole-time measurement
    Delays,         \* how long a measurement takes to arrive
    Slews,          \* corrections of the local clock
    RcMaxTime, RcMaxError  \* bounds

VARIABLES
    rc,         \* the instances
    filter,     \* their filters
    now,        \* cooked local time
    error,      \* true time minus local time
    started,
    given       \* the last sample forwarded to the source of each clock
rcvars == <<rc, filter, now, error, started, given>>

Magnitude(x) == IF x < 0 THEN -x ELSE x
NoLock == -1
RcBase == 3 * RcMaxTime      \* the time at which the model starts

RefId(i) == 100 + i

\* add_refclock.  Clock 0 is a polled whole-time clock, the others are pulse
\* clocks, free or locked to a refid that may be unknown.  A driver that polls
\* never has a longer poll than the refclock.
Instance(kind, lockId, poll, dpoll) ==
    [kind |-> kind, lock |-> lockId, leap |-> "normal", pps |-> FALSE, polled |-> 0,
     poll |-> poll, dpoll |-> IF dpoll > poll THEN poll ELSE dpoll, maxAge |-> Second]

RcInit ==
    /\ \E whole \in {Instance("time", 0, 1, d) : d \in {0, 2}},
          pulse \in {Instance("pulse", l, 1, 1) : l \in {0, RefId(0), RefId(0) + 9}} :
            rc = [i \in Clocks |-> IF i = 0 THEN whole ELSE pulse]
    /\ filter = [i \in Clocks |-> EmptyFilter]
    /\ now = RcBase /\ error = 0 /\ started = FALSE
    /\ given = [i \in Clocks |-> NoSample]

HasPoll(i) == rc[i].kind = "time"

\* start_refclocks: a lock refid becomes the index of the clock that has it; an
\* unknown one is reported and counts as none.
LockIndex(i) ==
    LET hits == {j \in Clocks : rc[i].lock # 0 /\ RefId(j) = rc[i].lock}
    IN  IF hits = {} THEN NoLock ELSE CHOOSE j \in hits : TRUE
StartRefclocks ==
    /\ ~started
    /\ started' = TRUE
    /\ rc' = [i \in Clocks |-> [rc[i] EXCEPT !.lock = LockIndex(i)]]
    /\ UNCHANGED <<filter, now, error, given>>

\* valid_sample_time.
ValidSampleTime(i, t) == now - t \in 0..(2^(rc[i].poll + 1))

\* accumulate_sample and what follows it.  (The count of samples kept for a
\* driver without polls is never read.)
TakeSample(i, s, leap, pulse) ==
    IF ~CheckSample(filter[i], s) THEN UNCHANGED <<rc, filter>>
    ELSE /\ filter' = [filter EXCEPT ![i] = Accumulate(@, s)]
         /\ rc' = [rc EXCEPT ![i].leap = leap, ![i].pps = pulse]

\* add_sample from a whole-time clock.
AddSample(i, delay, noise, leap) ==
    /\ started /\ rc[i].kind = "time"
    /\ LET s == [t |-> now - delay, off |-> error + noise, disp |-> 0]
       IN  IF ~ValidSampleTime(i, s.t) \/ leap = "unsynchronised" THEN UNCHANGED <<rc, filter>>
           ELSE TakeSample(i, s, leap, FALSE)
    /\ UNCHANGED <<now, error, started, given>>

\* The offset of a pulse, folded into half a second either way.
Fold(x) == LET m == x % Second IN IF 2 * m >= Second THEN m - Second ELSE m
RoundSeconds(x) == Second * ((2 * x + Second) \div (2 * Second))

\* The conditions on the sample that gives a pulse its second.
LockRejects(ref, t, off, maxAge) ==
    \/ Magnitude(t - ref.t) >= maxAge
    \/ Magnitude(ref.off - (off + RoundSeconds(ref.off - off))) > LockLimit

\* add_pulse and add_cooked_pulse.  synced: the daemon's reference is
\* synchronised and near enough to know the second.
AddPulse(i, delay, synced) ==
    /\ started /\ rc[i].kind = "pulse"
    /\ LET t   == now - delay
           off == Fold(error)
           l   == rc[i].lock
           ref == filter[l].last
       IN  IF ~ValidSampleTime(i, t) THEN UNCHANGED <<rc, filter>>
           ELSE IF l # NoLock
           THEN IF ref.t < 0 \/ LockRejects(ref, t, off, rc[i].maxAge) THEN UNCHANGED <<rc, filter>>
                ELSE TakeSample(i, [t |-> t, off |-> off + RoundSeconds(ref.off - off), disp |-> 0],
                                rc[l].leap, TRUE)
           ELSE IF ~synced
           THEN /\ filter' = [filter EXCEPT ![i] = DropAll(@)]
                /\ UNCHANGED rc
           ELSE TakeSample(i, [t |-> t, off |-> off, disp |-> 0], "normal", TRUE)
    /\ UNCHANGED <<now, error, started, given>>

\* A poll of the driver ends the window every 2^(poll - driver_poll) times.
WindowDone(i, polled) == ~HasPoll(i) \/ polled >= 2^(rc[i].poll - rc[i].dpoll)

\* poll_timeout; wide: the variance is over the limit, so nothing is forwarded
\* and the window is kept.
PollTimeout(i, wide) ==
    /\ started
    /\ LET polled == IF HasPoll(i) THEN rc[i].polled + 1 ELSE rc[i].polled
           f      == filter[i]
           sel    == SelectSamples(f)
       IN  IF ~WindowDone(i, polled)
           THEN /\ rc' = [rc EXCEPT ![i].polled = polled]
                /\ UNCHANGED <<filter, given>>
           ELSE /\ rc' = [rc EXCEPT ![i].polled = 0]
                /\ IF sel = {} \/ wide THEN UNCHANGED <<filter, given>>
                   ELSE /\ filter' = [filter EXCEPT ![i] = DropWindow(@)]
                        /\ given' = [given EXCEPT ![i] = Combine(f, sel)]
    /\ UNCHANGED <<now, error, started>>

\* on_slew: the clock is moved by -d, told to every filter.
OnSlew(d) ==
    /\ started
    /\ now - d \in RcBase..(RcBase + RcMaxTime) /\ Magnitude(error + d) <= RcMaxError
    /\ now' = now - d /\ error' = error + d
    /\ filter' = [i \in Clocks |-> SlewSamples(filter[i], d)]
    /\ given' = [i \in Clocks |-> NoSample]
    /\ UNCHANGED <<rc, started>>

\* on_slew for an unknown step.
OnUnknownStep(d) ==
    /\ started
    /\ Magnitude(error + d) <= RcMaxError
    /\ error' = error + d
    /\ filter' = [i \in Clocks |-> DropAll(filter[i])]
    /\ given' = [i \in Clocks |-> NoSample]
    /\ UNCHANGED <<rc, now, started>>

RcTick ==
    /\ now < RcBase + RcMaxTime
    /\ now' = now + Second
    /\ UNCHANGED <<rc, filter, error, started, given>>

RcStep ==
    \/ StartRefclocks
    \/ \E i \in Clocks :
          \/ \E delay \in Delays, noise \in Noises, leap \in {"normal", "unsynchronised"} :
                AddSample(i, delay, noise, leap)
          \/ \E delay \in Delays, synced \in BOOLEAN :
                \* the reference is only synchronised when the second is known
                /\ synced => 2 * Magnitude(error) < Second
                /\ AddPulse(i, delay, synced)
          \/ \E wide \in BOOLEAN : PollTimeout(i, wide)
    \/ \E d \in Slews : OnSlew(d) \/ OnUnknownStep(d)
    \/ RcTick
RcNext == RcStep
RcSpec == RcInit /\ [][RcNext]_rcvars

-----------------------------------------------------------------------------
\* Type invariant of the reference clocks.
RcTypeOK ==
    /\ \A i \in Clocks : rc[i].polled \in Nat /\ Len(filter[i].buf) <= FilterMax
    /\ started => \A i \in Clocks : rc[i].lock \in Clocks \cup {NoLock}
    /\ now \in Int /\ error \in Int

\* Every sample held for a pulse clock is the true error of the clock, second
\* included, however the clock was slewed since the sample that gave the second
\* was taken and since the pulse (refclock.rs add_cooked_pulse, on_slew;
\* samplefilt.rs slew_samples adjusts the last sample of an empty window too).
RcPulsesExact ==
    \A i \in Clocks : rc[i].kind = "pulse" =>
        \A n \in DOMAIN filter[i].buf : filter[i].buf[n].off = error

\* A whole-time clock's samples stay within the noise of the error (refclock.rs
\* on_slew reaches every filter), and so does what is forwarded to its source.
RcSamplesExact ==
    \A i \in Clocks : rc[i].kind = "time" =>
        /\ \A n \in DOMAIN filter[i].buf : filter[i].buf[n].off - error \in Noises
        /\ given[i] # NoSample => given[i].off - error \in Noises

\* The window of a polled clock spans its whole poll interval: the polls counted
\* since the last window are fewer than a window has (refclock.rs poll_timeout).
RcWindowBounded ==
    \A i \in Clocks : HasPoll(i) => rc[i].polled < 2^(rc[i].poll - rc[i].dpoll)
=============================================================================
