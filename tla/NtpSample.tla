----------------------------- MODULE NtpSample -----------------------------
(***************************************************************************)
(* The measurement of an NTP exchange (ntp/sample.rs):                     *)
(* offset and delay from four timestamps, in basic and interleaved mode,   *)
(* and the correction by what transparent clocks report.  Times are        *)
(* integers; an offset is kept doubled (off2), so that averages stay whole. *)
(***************************************************************************)
EXTENDS Integers

CONSTANTS Precision,    \* sys_precision + 2^message_precision
          NetMargin     \* 1 / MAX_NET_CORRECTION_FREQ

ASSUME NtpSampleAssumption == Precision \in Nat /\ NetMargin \in Nat \ {0}

AbsOf(x) == IF x < 0 THEN -x ELSE x
MaxOf(x, y) == IF x < y THEN y ELSE x

\* compute_response_sample: t1 and t4 are local, t2 and t3 the server's.
ResponseSample(t1, t2, t3, t4) ==
    [off2 |-> (t2 + t3) - (t1 + t4), delay |-> MaxOf(AbsOf((t4 - t1) - (t3 - t2)), Precision)]

\* apply_net_correction: a correction is needed in both directions, and never
\* more than the delay.
ApplyNetCorrection(s, rx_net, duration, tx_net) ==
    LET back  == rx_net - duration
        there == tx_net - duration
        low   == (back + there) - AbsOf(back + there) \div NetMargin
    IN IF rx_net <= duration \/ tx_net <= 0 \/ low < 0 \/ low > s.delay THEN s
       ELSE [off2 |-> s.off2 + back - there, delay |-> MaxOf(s.delay - low, Precision)]

\* compute_interleaved_response_sample: prev and cur are requests [tx, rx] with
\* the local transmit and the remote receive time (prev.tx = 0: none).
InterleavedSample(prev, cur, t3, t4) ==
    IF prev.tx # 0 /\ cur.tx - t4 > 10 * (t4 - prev.tx)
    THEN ResponseSample(prev.tx, prev.rx, t3, t4)
    ELSE ResponseSample(cur.tx, cur.rx, t3, t4)

----------------------------------------------------------------------------
(* Properties *)

\* The bound NTP stands on: whatever the network delays there (d1) and back (d2)
\* and the server's processing, the measured offset of compute_response_sample
\* is within half of the measured delay of the true one (theta).
SampleErrorBounded(t1, theta, d1, proc, d2) ==
    LET t2 == t1 + theta + d1
        t3 == t2 + proc
        t4 == t3 - theta + d2
        s == ResponseSample(t1, t2, t3, t4)
    IN s.delay >= d1 + d2 /\ AbsOf(s.off2 - 2 * theta) <= s.delay

\* The bound survives the network corrections, as long as no clock on the path
\* reports more than its share of the delay: apply_net_correction may narrow
\* delay, and never below the error it leaves.
SampleCorrectedBounded(t1, theta, d1, proc, d2, rx_net, duration, tx_net) ==
    LET t2 == t1 + theta + d1
        t3 == t2 + proc
        t4 == t3 - theta + d2
        s == ApplyNetCorrection(ResponseSample(t1, t2, t3, t4), rx_net, duration, tx_net)
    IN rx_net - duration <= d2 /\ tx_net - duration <= d1
       => AbsOf(s.off2 - 2 * theta) <= s.delay

\* The bound in interleaved mode, where the two halves of a measurement come
\* from different exchanges: each transmit time is paired with the receive time
\* of the same packet, so the error is again covered by the delay, and the delay
\* is that of a real round trip (d0 or d1 there, d2 back).
SampleInterleavedBounded(prev_tx, cur_tx, t4, theta, d0, d1, d2) ==
    LET prev == [tx |-> prev_tx, rx |-> prev_tx + theta + d0]
        cur == [tx |-> cur_tx, rx |-> cur_tx + theta + d1]
        s == InterleavedSample(prev, cur, t4 + theta - d2, t4)
    IN /\ AbsOf(s.off2 - 2 * theta) <= s.delay
       /\ s.delay <= MaxOf(MaxOf(d0, d1) + d2, Precision)

-----------------------------------------------------------------------------
(***************************************************************************)
(* When an association sends its next request (ntp/poll.rs                 *)
(* get_transmit_delay), and which samples its delay tests accept           *)
(* (check_delay_ratio, check_delay_dev_ratio), as functions on integers: a *)
(* second is TicksPerSecond ticks, so that 2^-2 seconds, a quarter of an   *)
(* interval and eleven tenths of one are whole numbers.                    *)
(***************************************************************************)
TicksPerSecond == 80
Seconds(n) == n * TicksPerSecond
Log2ToTicks(log) == IF log >= 0 THEN Seconds(2^log) ELSE TicksPerSecond \div (2^(-log))
Lesser(a, b) == IF a < b THEN a ELSE b
AtLeast(lo, a) == IF a < lo THEN lo ELSE a

\* get_transmit_poll: a reachable peer's shorter interval is taken over.
GetTransmitPoll(s) ==
    IF s.mode = "active" /\ s.poll > s.remote_poll /\ s.reachable
    THEN AtLeast(s.minpoll, s.remote_poll) ELSE s.poll

\* WARM_UP_DELAY, MAX_BURST_INTERVAL; PEER_SAMPLING_ADJ is 11/10.
WarmUpDelay == Seconds(2)
MaxBurstInterval == Seconds(2)
Adjusted(delay) == (delay * 11) \div 10

\* The interval that is aimed at, before the time since the last request is
\* taken off: longer while a peer of a higher stratum is waited for, or an
\* equal one is to be met between its requests.
Interval(s) ==
    LET delay == Log2ToTicks(GetTransmitPoll(s))
        last  == IF s.on_tx THEN 0 ELSE s.since_tx
        waits == \/ s.stratum_diff > 0 /\ last * 11 < delay * 10
                 \/ ~s.on_tx /\ s.stratum_diff = 0 /\ last * 10 > delay * 6
    IN  CASE s.opmode = "burst" -> Lesser(MaxBurstInterval, delay \div 4)
          [] s.opmode = "online" /\ s.mode = "client" /\ s.presend -> WarmUpDelay
          [] s.opmode = "online" /\ s.mode = "active" /\ waits -> Adjusted(delay)
          [] OTHER -> delay

\* get_transmit_delay; since_tx is zero when nothing was sent yet.
GetTransmitDelay(s) == AtLeast(0, Interval(s) - IF s.on_tx THEN 0 ELSE s.since_tx)

\* check_delay_ratio; d is what the source's statistics say, ratio in tenths.
CheckDelayRatio(ratio, delay, d) ==
    ratio < 10 \/ d.none \/ delay * 10 <= d.min_delay * ratio + 10 * d.slack

\* check_delay_dev_ratio: slack is the age of the last sample times the
\* frequency error.  The increase of the delay is halved, here all is doubled.
CheckDelayDevRatio(ratio, offset, delay, d) ==
    \/ d.none
    \/ LET max_delta == d.std_dev * ratio + d.slack
           delta     == delay - d.min_delay
       IN  delta <= 2 * max_delta \/ 2 * AbsOf(offset + d.predicted) - delta > 2 * max_delta

-----------------------------------------------------------------------------
\* get_transmit_delay, asked after a request or again when a response came in,
\* never makes requests come faster than the interval in use (in a burst a
\* quarter of it, at most two seconds), and never more than a tenth later.
TransmitPaced(s) ==
    LET base   == Log2ToTicks(GetTransmitPoll(s))
        since  == IF s.on_tx THEN 0 ELSE s.since_tx
        period == since + GetTransmitDelay(s)
        burst  == Lesser(MaxBurstInterval, base \div 4)
    IN  CASE s.opmode = "burst" -> period >= burst /\ GetTransmitDelay(s) <= burst
          [] s.mode = "client" /\ s.presend -> period >= WarmUpDelay
          [] OTHER -> period >= base /\ GetTransmitDelay(s) <= Adjusted(base)

\* The delay tests are thresholds: a sample that is accepted would be with any
\* shorter delay too, and the shortest delay seen always is.
DelayTestsMonotone(ratio, offset, delay, shorter, d) ==
    shorter <= delay =>
      /\ CheckDelayRatio(ratio, delay, d) => CheckDelayRatio(ratio, shorter, d)
      /\ CheckDelayDevRatio(ratio, offset, delay, d) => CheckDelayDevRatio(ratio, offset, shorter, d)
      /\ CheckDelayRatio(ratio, d.min_delay, d) /\ CheckDelayDevRatio(ratio, offset, d.min_delay, d)
=============================================================================
