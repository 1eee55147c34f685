------------------------------ MODULE WireData ------------------------------
(***************************************************************************)
(* Times, addresses and floating-point numbers as they travel (util.rs):   *)
(* timespecs and their arithmetic, 64-bit NTP timestamps with the era      *)
(* split, the fuzz below the precision, the 32-bit float of the command    *)
(* protocol, and network masks.  All of it is pure; the widths of the code *)
(* are constants, so that every value of a small width can be checked:     *)
(*   Second   units of a timespec's fraction in a second (10^9)            *)
(*   Frac     units of an NTP fraction in a second (2^32)                  *)
(*   Era      seconds in an NTP era (2^32)                                 *)
(*   Jan1970  the Unix epoch within the NTP era                            *)
(*   ExpBits, CoefBits  the fields of the float (7, 25)                    *)
(***************************************************************************)
EXTENDS Integers, Sequences, FiniteSets

CONSTANTS Second, Frac, Era, Jan1970, ExpBits, CoefBits

\* Division and remainder of the machine: towards zero.
Quot(a, b) == IF a >= 0 THEN a \div b ELSE -((-a) \div b)
Rem(a, b) == a - b * Quot(a, b)

Signed(n, width) == IF n % (2 ^ width) >= 2 ^ (width - 1) THEN (n % (2 ^ width)) - 2 ^ width ELSE n % (2 ^ width)

----------------------------------------------------------------------------
(* Timespecs: <<seconds, fraction>> *)

Normalise(sec, nsec) ==
    IF nsec \in 0..(Second - 1) THEN <<sec, nsec>>
    ELSE LET s == sec + Quot(nsec, Second)
             r == Rem(nsec, Second)
         IN IF r < 0 THEN <<s - 1, r + Second>> ELSE <<s, r>>

CompareTimespecs(a, b) ==
    IF a[1] < b[1] \/ (a[1] = b[1] /\ a[2] < b[2]) THEN -1 ELSE IF a = b THEN 0 ELSE 1

DiffTimespecs(a, b) == Normalise(a[1] - b[1], a[2] - b[2])
DiffToUnits(a, b) == (a[1] - b[1]) * Second + (a[2] - b[2])

\* add_double_to_timespec, of a number of units: whole seconds first.
AddUnits(start, d) == Normalise(start[1] + Quot(d, Second), start[2] + Rem(d, Second))

AddDiff(a, b, c) == AddUnits(c, DiffToUnits(a, b))

\* average_diff_timespecs.
Average(earlier, later) == AddUnits(earlier, Quot(DiffToUnits(later, earlier), 2))

----------------------------------------------------------------------------
(* NTP timestamps: <<seconds, fraction>> within the era *)

TimespecToNtp64(sec, nsec) ==
    IF nsec = 0 /\ sec % Era = 0 THEN <<0, 0>>
    ELSE <<(sec + Jan1970) % Era, (nsec * Frac) \div Second>>

\* Mutant: the era split is forgotten.
Ntp64ToTimespecEraZero(hi, lo, split) ==
    IF hi = 0 /\ lo = 0 THEN <<0, 0>> ELSE <<(hi - Jan1970) % Era, (lo * Second) \div Frac>>

Ntp64ToTimespec(hi, lo, split) ==
    IF hi = 0 /\ lo = 0 THEN <<0, 0>>
    ELSE <<((hi - (split + Jan1970)) % Era) + split, (lo * Second) \div Frac>>

\* compare_ntp64; the seconds have 2^width = Era values.
CompareNtp64(a, b, width) ==
    LET d == Signed(a[1] - b[1], width)
    IN IF a = b THEN 0 ELSE IF d < 0 THEN -1 ELSE IF d > 0 THEN 1 ELSE IF a[2] < b[2] THEN -1 ELSE 1

\* is_time_offset_sane, of whole seconds.
IsTimeOffsetSane(ts, offset, split) ==
    /\ offset > -Era /\ offset < Era
    /\ ts + offset >= 0
    /\ ts + offset >= split /\ ts + offset <= split + Era

\* get_ntp64_fuzz as one number, of that many bytes of that many bits.
GetNtp64Fuzz(precision, rnd, bytes, bits) ==
    LET half == (bytes * bits) \div 2
        p == IF precision < -half \/ precision > half THEN -half ELSE precision
        start == bytes - ((p + half + bits - 1) \div bits)
        part == (p + half) % bits
        byte(i) == IF i <= start THEN 0
                   ELSE IF i = start + 1 /\ part # 0 THEN rnd[1] % (2 ^ part) ELSE rnd[i - start]
        value[i \in 0..bytes] == IF i = 0 THEN 0 ELSE value[i - 1] * 2 ^ bits + byte(i)
    IN value[bytes]

----------------------------------------------------------------------------
(* The float: coef * 2^(exp - CoefBits).  A number is <<n, k>> for n / 2^k. *)

ExpMin == -(2 ^ (ExpBits - 1))
ExpMax == -ExpMin - 1
CoefMax == 2 ^ (CoefBits - 1) - 1

\* float_network_to_host: the number, over 2^Scale.
Scale == CoefBits - ExpMin
Decode(w) == Signed(w, CoefBits) * 2 ^ (Signed(w \div 2 ^ CoefBits, ExpBits) - CoefBits + Scale)

\* (ln x / ln 2) as i32 for x = n / 2^k.
Log2Down(n) == CHOOSE e \in 0..60 : 2 ^ e <= n /\ n < 2 ^ (e + 1)
Log2(n, k) ==
    LET e == Log2Down(n) - k IN IF e >= 0 \/ n = 2 ^ (e + k) THEN e ELSE e + 1

\* (x * 2^(-exp + CoefBits) + 0.5) as i32.
Rounded(n, k, exp) ==
    LET s == CoefBits - exp - k + 1
    IN IF s >= 0 THEN (n * 2 ^ s + 1) \div 2 ELSE (n + 2 ^ (-s)) \div (2 * 2 ^ (-s))

\* The loop that brings the coefficient into its bits.
Shifted(e, c, neg) ==
    LET ok(j) == c \div 2 ^ j <= CoefMax + neg
        j == CHOOSE j \in 0..3 : ok(j) /\ \A i \in 0..(j - 1) : ~ok(i)
    IN <<e + j, c \div 2 ^ j>>

\* float_host_to_network.
Encode(n, k, neg) ==
    LET e0 == Log2(n, k) + 1
        sh == Shifted(e0, Rounded(n, k, e0), neg)
        ec == IF n = 0 THEN <<0, 0>>
              ELSE IF sh[1] > ExpMax THEN <<ExpMax, CoefMax + neg>>
              ELSE IF sh[1] >= ExpMin THEN sh
              ELSE IF sh[1] + CoefBits >= ExpMin THEN <<ExpMin, sh[2] \div 2 ^ (ExpMin - sh[1])>>
              ELSE <<0, 0>>
        coef == IF neg = 1 THEN -ec[2] ELSE ec[2]
    IN (ec[1] % 2 ^ ExpBits) * 2 ^ CoefBits + (coef % 2 ^ CoefBits)

----------------------------------------------------------------------------
(* Masks: an address is a sequence of bytes of that many bits *)

\* bits_to_mask.
BitsToMask(n, bytes, bits) ==
    LET b == IF n \in 0..(bytes * bits) THEN n ELSE bytes * bits
    IN [i \in 1..bytes |->
          IF i <= b \div bits THEN 2 ^ bits - 1
          ELSE IF i = b \div bits + 1 THEN (2 ^ bits - 1) * 2 ^ (bits - (b % bits)) % 2 ^ bits
          ELSE 0]

\* x & m for the masks of bits_to_mask: leading ones.
And(x, m, bits) ==
    LET zeros == CHOOSE z \in 0..bits : m = 2 ^ bits - 2 ^ z IN x - (x % 2 ^ zeros)

\* compare_ips: the first byte that differs under the mask.
CompareIps(a, b, mask, bits) ==
    LET d(i) == And(a[i], mask[i], bits) - And(b[i], mask[i], bits)
        diff == {i \in DOMAIN a : d(i) # 0}
    IN IF diff = {} THEN 0 ELSE d(CHOOSE i \in diff : \A j \in diff : i <= j)

----------------------------------------------------------------------------
(* Properties *)

\* Timespec arithmetic is exact and stays normalised across the borrow of a
\* second: adding a difference takes one time to the other, the average lies
\* between, and the order is that of the difference (diff_timespecs,
\* add_diff_to_timespec, average_diff_timespecs, compare_timespecs).
TimesAddBack(a, b) ==
    /\ AddDiff(a, b, b) = a
    /\ LET d == DiffTimespecs(a, b)
       IN d[2] \in 0..(Second - 1) /\ d[1] * Second + d[2] = DiffToUnits(a, b)
    /\ CompareTimespecs(a, b) <= 0 =>
         CompareTimespecs(a, Average(a, b)) <= 0 /\ CompareTimespecs(Average(a, b), b) <= 0

\* A time that is_time_offset_sane accepts comes back from its NTP timestamp in
\* the right era, less than one unit early, whatever the era split; the two
\* exceptions are an instant whose timestamp is all zero and the far end of
\* the window.
TimeSurvivesWire(ts, offset, nsec, split) ==
    LET sec == ts + offset
        n == TimespecToNtp64(sec, nsec)
        back == Ntp64ToTimespec(n[1], n[2], split)
    IN (IsTimeOffsetSane(ts, offset, split) /\ sec # split + Era /\ n # <<0, 0>>) =>
         back[1] = sec /\ back[2] \in (nsec - 1)..nsec

\* Of two times less than half an era apart, compare_ntp64 finds the earlier
\* one though an era ends between them.
OrderSurvivesWire(a, b, width) ==
    LET wire(t) == <<(t[1] + Jan1970) % Era, (t[2] * Frac) \div Second>>
    IN (a[1] - b[1] < Era \div 2 /\ b[1] - a[1] < Era \div 2) =>
         LET c == CompareNtp64(wire(a), wire(b), width) IN c # 0 => c = CompareTimespecs(a, b)

\* The fuzz only touches the bits below the clock's precision (get_ntp64_fuzz).
FuzzBelowPrecision(precision, rnd, bytes, bits) ==
    LET half == (bytes * bits) \div 2
    IN precision \in (-half)..half => GetNtp64Fuzz(precision, rnd, bytes, bits) < 2 ^ (precision + half)

\* A number read from a reply is encoded to the same number again
\* (float_network_to_host, float_host_to_network), at both ends of the
\* exponent and for the most negative coefficient.
FloatStable(w) ==
    LET v == Decode(w)
    IN Decode(Encode(IF v < 0 THEN -v ELSE v, Scale, IF v < 0 THEN 1 ELSE 0)) = v

\* Two addresses compare equal under the mask of a prefix exactly when their
\* leading bits agree (bits_to_mask, compare_ips).
MaskIsPrefix(n, a, b, bits) ==
    LET bytes == Len(a)
        number(x) == LET v[i \in 0..bytes] == IF i = 0 THEN 0 ELSE v[i - 1] * 2 ^ bits + x[i] IN v[bytes]
    IN n \in 0..(bytes * bits) =>
         (CompareIps(a, b, BitsToMask(n, bytes, bits), bits) = 0
            <=> number(a) \div 2 ^ (bytes * bits - n) = number(b) \div 2 ^ (bytes * bits - n))

-----------------------------------------------------------------------------
(***************************************************************************)
(* What comes with a datagram (socket.rs, ntp_io_linux.rs): the ancillary  *)
(* messages of the kernel, the frame that the error queue returns for a    *)
(* transmit timestamp, and the choice of a hardware or kernel timestamp.   *)
(* All of it is pure.  A control message is [kind, len, a, b, c]: kind its *)
(* level and type, len its data length, a, b, c its fields; a frame is     *)
(* [vlans, ether, ver, ihl, proto, exts, size], its header fields and its  *)
(* length in bytes.                                                        *)
(***************************************************************************)
CmsgHdrLen == 16
CmsgAlign(n) == ((n + 7) \div 8) * 8
Space(m) == CmsgAlign(CmsgHdrLen + m.len)

\* Where the k-th message ends.
EndOf(ms, k) == LET e[i \in 0..k] == IF i = 0 THEN 0 ELSE e[i - 1] + Space(ms[i]) IN e[k]

DataLength == [pktinfo |-> 12, pktinfo6 |-> 20, timestamp |-> 16, tspktinfo |-> 16, timestamping |-> 48, other |-> 8]

NoControl == [local |-> <<"none", 0>>, if_index |-> 0, l2 |-> 0, kernel |-> 0, hw |-> 0]

\* One message of the walk: it counts only with the length of its structure.
\* pktinfo: a the index, b ipi_spec_dst, c ipi_addr; pktinfo6: a the index, c
\* the address; timestamp: a in microseconds; tspktinfo: a the index, b the
\* length; timestamping: a ts[0], c ts[2].
ApplyControl(cd, m) ==
    IF m.len # DataLength[m.kind] THEN cd
    ELSE CASE m.kind = "pktinfo" -> [cd EXCEPT !.if_index = m.a, !.local = <<"ip4", m.c>>]
           [] m.kind = "pktinfo6" -> [cd EXCEPT !.if_index = m.a, !.local = <<"ip6", m.c>>]
           [] m.kind = "timestamp" -> [cd EXCEPT !.kernel = m.a * 1000]
           [] m.kind = "tspktinfo" -> [cd EXCEPT !.if_index = m.a, !.l2 = m.b]
           [] m.kind = "timestamping" -> [cd EXCEPT !.kernel = m.a, !.hw = m.c]
           [] OTHER -> cd

\* How many messages the walk reads when the buffer ends there.
Walked(ms, end) == Cardinality({k \in 1..Len(ms) : EndOf(ms, k) <= end})

\* parse_control_data on the first end bytes of the messages.
ParseControlData(ms, end) ==
    LET cd[k \in 0..Len(ms)] == IF k = 0 THEN NoControl ELSE ApplyControl(cd[k - 1], ms[k])
    IN cd[Walked(ms, end)]

NoIndex == -1

\* build_pktinfo_control: <<message>>, <<>> for no address or no room.
BuildPktinfo(local, if_index, capacity) ==
    LET i == IF if_index = NoIndex THEN 0 ELSE if_index
        m == IF local[1] = "ip4" THEN [kind |-> "pktinfo", len |-> 12, a |-> i, b |-> local[2], c |-> 0]
             ELSE [kind |-> "pktinfo6", len |-> 20, a |-> i, b |-> 0, c |-> local[2]]
    IN IF local[1] = "none" \/ Space(m) > capacity THEN <<>> ELSE <<m>>

----------------------------------------------------------------------------
(* The frame of a transmitted packet *)

NoData == [len |-> 0, family |-> "none", at |-> 0]

\* Length of an IPv6 extension header, 0 for one that ends the walk.
ExtLength(e) ==
    IF e.h = 44 THEN IF e.frag = 0 THEN 8 ELSE 0
    ELSE IF e.h \in {0, 43, 60, 135} THEN 8 * (e.n + 1)
    ELSE IF e.h = 51 THEN 4 * (e.n + 2) ELSE 0

\* The extension headers from off: where the UDP header is, -1 for none.
WalkExts(exts, off, size) ==
    LET w[i \in 0..Len(exts)] ==
          IF i = 0 THEN off
          ELSE LET o == w[i - 1]
                   l == ExtLength(exts[i])
               IN IF o < 0 \/ l < 8 \/ size - o < l + 8 THEN -1 ELSE o + l
    IN w[Len(exts)]

\* extract_udp_data: the length of the payload, where it begins, the family.
ExtractUdpData(f) ==
    LET tags == CHOOSE v \in 0..f.vlans : (v = f.vlans \/ f.size - 12 - 4 * v < 4)
                                           /\ \A u \in 0..(v - 1) : f.size - 12 - 4 * u >= 4
        ether == 12 + 4 * tags
        ip == ether + 2
        left == f.size - ip
        hdr == 4 * f.ihl
        udp == WalkExts(f.exts, ip + 40, f.size)
    IN IF f.size < 12 \/ f.size - ether < 2 \/ tags # f.vlans \/ f.ether \notin {"ip4", "ip6"} THEN NoData
       ELSE IF left >= 20 /\ f.ver = 4
       THEN IF left < hdr + 8 \/ f.proto # 17 THEN NoData
            ELSE [len |-> left - hdr - 8, family |-> "ip4", at |-> ip + hdr + 8]
       ELSE IF left >= 48 /\ f.ver = 6
       THEN IF udp < 0 \/ f.proto # 17 THEN NoData
            ELSE [len |-> f.size - udp - 8, family |-> "ip6", at |-> udp + 8]
       ELSE NoData

----------------------------------------------------------------------------
(* Timestamps; times are in units in which a byte at link speed takes one *)

\* The time from the preamble to the trailer of a received frame.
RxCorrection(p) ==
    IF p.rx_len # 0 /\ p.speed # 0
    THEN (IF p.l2 # 0 THEN p.l2 ELSE (IF p.family = "ip4" THEN p.start4 ELSE p.start6) + p.rx_len) + 4
    ELSE 0

Accepted(local, ts, max) == local - ts <= max /\ ts - local <= max

\* process_hw_timestamp; off is what the hardware clock adds when it cooks a time.
ProcessHw(local, p, off, max) ==
    LET cooked == p.ts + RxCorrection(p) + off
        ts == IF p.rx_len = 0 THEN cooked + p.tx_comp ELSE cooked - p.rx_comp
    IN IF Accepted(local.ts, ts, max)
       THEN [ts |-> ts, source |-> 2, duration |-> RxCorrection(p), net |-> RxCorrection(p)] ELSE local

\* process_sw_timestamp.
ProcessSw(local, sw, off, max) ==
    IF Accepted(local.ts, sw + off, max) THEN [local EXCEPT !.ts = sw + off, !.source = 1] ELSE local

----------------------------------------------------------------------------
(* Properties *)

\* A control buffer that the kernel cut short gives what its whole messages
\* say, each field from the last message that sets it, and never a part of a
\* message (parse_control_data).
ControlWhole(ms, end) ==
    LET cd == ParseControlData(ms, end)
        whole(k) == k \in DOMAIN ms /\ EndOf(ms, k) <= end /\ ms[k].len = DataLength[ms[k].kind]
        last(kinds) == {k \in DOMAIN ms : whole(k) /\ ms[k].kind \in kinds
                          /\ \A j \in DOMAIN ms : (whole(j) /\ ms[j].kind \in kinds) => j <= k}
    IN /\ cd.hw = (IF last({"timestamping"}) = {} THEN 0 ELSE ms[CHOOSE k \in last({"timestamping"}) : TRUE].c)
       /\ \A k \in last({"pktinfo", "pktinfo6"}) : cd.local[2] = ms[k].c
       /\ last({"pktinfo", "pktinfo6"}) = {} => cd.local = NoControl.local
       /\ \A k \in last({"pktinfo", "pktinfo6", "tspktinfo"}) : cd.if_index = ms[k].a
       /\ \A k \in last({"timestamp", "timestamping"}) :
            cd.kernel = IF ms[k].kind = "timestamp" THEN 1000 * ms[k].a ELSE ms[k].a

\* What build_pktinfo_control makes never overruns its buffer, and names the same
\* interface when parse_control_data reads it back, and for IPv6 the same source
\* address (for IPv4 the two use different fields of the structure).
PktinfoReadBack(local, if_index, capacity) ==
    LET b == BuildPktinfo(local, if_index, capacity)
        cd == ParseControlData(b, capacity)
    IN b # <<>> => /\ EndOf(b, 1) <= capacity
                   /\ cd.if_index = IF if_index = NoIndex THEN NoControl.if_index ELSE if_index
                   /\ local[1] = "ip6" => cd.local = local

\* However short or deep the frame, the payload that extract_udp_data finds
\* lies inside it, behind a whole UDP header and behind every header of the
\* chain, and runs to its end (a frame that is long enough is not refused).
FrameInside(f) ==
    LET d == ExtractUdpData(f)
        chain == LET s[i \in 0..Len(f.exts)] == IF i = 0 THEN 0 ELSE s[i - 1] + ExtLength(f.exts[i]) IN s[Len(f.exts)]
        start == 14 + 4 * f.vlans + (IF f.ver = 4 THEN 4 * f.ihl ELSE 40 + chain) + 8
        walkable == f.ver = 4 \/ \A i \in DOMAIN f.exts : ExtLength(f.exts[i]) >= 8
    IN /\ d.family # "none" => d.at = start /\ d.len >= 0 /\ d.at + d.len = f.size
       /\ (f.ether \in {"ip4", "ip6"} /\ f.proto = 17 /\ walkable /\ f.size >= start /\ f.ihl >= 5)
            => d.family # "none"

\* Kernel and hardware timestamps, in either order, never carry the time of a
\* packet further than the limit from the daemon's own reading each, and the
\* trailer of a frame is the same whether the kernel gave its length or it is
\* derived from the interface (process_sw_timestamp, process_hw_timestamp).
TimestampNear(local, sw, p, off, max) ==
    LET a == ProcessHw(ProcessSw(local, sw, off, max), p, off, max)
        known == [p EXCEPT !.l2 = (IF p.family = "ip4" THEN p.start4 ELSE p.start6) + p.rx_len]
    IN /\ a.ts - local.ts \in (-2 * max)..(2 * max)
       /\ p.l2 = 0 => ProcessHw(local, known, off, max) = ProcessHw(local, p, off, max)
       /\ a.source # 2 => a.duration = local.duration
=============================================================================
