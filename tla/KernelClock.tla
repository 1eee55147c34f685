----------------------------- MODULE KernelClock -----------------------------
(***************************************************************************)
(* sys_timex.rs, sys_linux.rs and tempcomp.rs: what is written to the      *)
(* kernel clock.  The state machine is the status word shared by the leap  *)
(* second and the synchronisation status; the frequency split and the      *)
(* temperature compensation are operators.                                 *)
(***************************************************************************)
EXTENDS Integers, Sequences, FiniteSets

VARIABLES rtcsync,      \* the configuration
          sys_status,   \* SysTimex.sys_status, a set of flags
          kernel,       \* the status word of the kernel
          wanted        \* history: the leap and the sync status asked for last

kcvars == <<rtcsync, sys_status, kernel, wanted>>

\* initialise_timex: the PLL offset is reset with STA_PLL on, then it is off.
KcInit ==
    /\ rtcsync \in BOOLEAN
    /\ sys_status = {"unsync"} /\ kernel = {"unsync"}
    /\ wanted = [leap |-> 0, sync |-> FALSE]

LeapFlag(leap) == IF leap > 0 THEN {"ins"} ELSE IF leap < 0 THEN {"del"} ELSE {}

LeapStatus(leap) == (sys_status \ {"ins", "del"}) \cup LeapFlag(leap)

\* set_leap (the TAI offset it also writes is the one it is given).
SetLeap(leap) ==
    /\ sys_status' = LeapStatus(leap) /\ kernel' = LeapStatus(leap)
    /\ wanted' = [wanted EXCEPT !.leap = leap]
    /\ UNCHANGED rtcsync

SyncStatus(synchronised) ==
    IF synchronised THEN sys_status \ {"unsync"} ELSE sys_status \cup {"unsync"}

\* set_sync_status: not synchronised, too large an error and no rtcsync all
\* leave the kernel unsynchronised.
SetSyncStatus(synchronised, large) ==
    /\ sys_status' = SyncStatus(synchronised /\ ~large /\ rtcsync)
    /\ kernel' = sys_status'
    /\ wanted' = [wanted EXCEPT !.sync = synchronised /\ ~large]
    /\ UNCHANGED rtcsync

KcNext == \/ \E leap \in {-1, 0, 1} : SetLeap(leap)
          \/ \E s, large \in BOOLEAN : SetSyncStatus(s, large)

KcSpec == KcInit /\ [][KcNext]_kcvars

----------------------------------------------------------------------------
(* sys_linux.rs, in quarters of a ppm *)

Quarter == 4
RoundHalfAway(a, b) == IF a >= 0 THEN (2 * a + b) \div (2 * b) ELSE -((2 * (-a) + b) \div (2 * b))
Magnitude(x) == IF x < 0 THEN -x ELSE x

\* compute_frequency_split.

FrequencySplit(freq, hz, nominal, current) ==
    LET near == RoundHalfAway(freq, Quarter * hz)
        tick == IF hz <= 250 /\ Magnitude(near - current) = 1 THEN current ELSE near
    IN [delta |-> tick, freq |-> -(freq - Quarter * hz * tick), tick |-> nominal - tick]

\* version_specific_details: the nominal tick and the largest change of it.
NominalTick(hz) == (1000000 + hz \div 2) \div hz

\* reconstruct_freq_ppm.
ReconstructFreq(hz, delta, freq) == Quarter * hz * delta - freq

\* guess_hz: 0 for None.
GuessHz(tick) ==
    LET lo(hz) == (3 * hz + 4000000) \div (6 * hz)
        hi(hz) == (3 * hz + 8000000) \div (6 * hz)
        fits == {i \in 4..15 : lo(2^i) < tick /\ tick <= hi(2^i)}
    IN IF tick \in 9000..11000 THEN 100
       ELSE IF fits = {} THEN 0 ELSE 2^(CHOOSE i \in fits : \A j \in fits : i <= j)

----------------------------------------------------------------------------
(* tempcomp.rs: points are <<temp, comp>>, in order of temp *)

\* get_tempcomp: the segment used, and the value times its width.
Segment(points, temp) ==
    LET above == {j \in 2..Len(points) : points[j][1] >= temp}
    IN IF above = {} THEN Len(points) ELSE CHOOSE j \in above : \A k \in above : j <= k

GetTempcomp(points, temp) ==
    LET i == Segment(points, temp)
        p == points[i - 1]
        q == points[i]
    IN [num |-> (temp - p[1]) * (q[2] - p[2]) + p[2] * (q[1] - p[1]), den |-> q[1] - p[1]]

----------------------------------------------------------------------------
(* Properties *)

\* The two users of the status word never undo each other: whatever the order
\* of calls, the kernel has the leap second asked for last armed and is marked
\* synchronised exactly when asked to be (and rtcsync allows it).
KcStatusBoth ==
    kernel = LeapFlag(wanted.leap) \cup (IF wanted.sync /\ rtcsync THEN {} ELSE {"unsync"})

\* The split of a frequency into ticks and a fine part adds up to it, and the
\* fine part is one the kernel accepts (500 ppm), from any tick before it.
KcSplitExact(freq, hz, current) ==
    LET s == FrequencySplit(freq, hz, NominalTick(hz), current)
    IN /\ ReconstructFreq(hz, s.delta, s.freq) = freq
       /\ NominalTick(hz) - s.tick = s.delta
       /\ Magnitude(s.freq) <= 500 * Quarter

\* A guessed HZ fits the tick: guess_hz finds the one of every nominal tick, and
\* for a tick that was adjusted an HZ whose nominal tick is at most a third off,
\* rounded; the ranges of two HZ never overlap, so that no guess is ambiguous.
KcGuessFits(tick) ==
    LET hz == GuessHz(tick)
    IN /\ hz # 0 => 3 * Magnitude(tick * hz - 1000000) <= 1000000 + 2 * hz
       /\ \A i \in 4..15 : NominalTick(2^i) = tick => hz = 2^i
       /\ \A i \in 4..15 : Magnitude(tick * 2^i - 1000000) < 250000 /\ tick \notin 9000..11000 => hz = 2^i

\* The compensation passes through every point, and past the ends it goes on
\* along the nearest segment.
TempcompThrough(points, beyond) ==
    LET Value(temp) == GetTempcomp(points, temp)
        n == Len(points)
    IN /\ \A i \in 1..n : Value(points[i][1]).num = points[i][2] * Value(points[i][1]).den
       /\ Value(points[n][1] + beyond).den = points[n][1] - points[n - 1][1]
       /\ Value(points[1][1] - beyond).den = points[2][1] - points[1][1]

=============================================================================
