------------------------------- MODULE CmdMon --------------------------------
(***************************************************************************)
(* The wire format of the command protocol between chronyc-rs and the      *)
(* daemon: which bytes of a packet each encoder writes and each decoder    *)
(* reads, and how long every packet is.                                    *)
(*                                                                         *)
(* A layout is a set of fields <<name, offset, width>>.  The encoders are  *)
(* in client.rs (requests) and cmdmon.rs (replies), the decoders in        *)
(* cmdmon.rs (requests) and in client.rs and chronyc's main.rs (replies);  *)
(* the two sides are written independently, with every offset a literal.   *)
(* The number, address, float and timestamp codecs that fill a field are   *)
(* abstracted to the bytes they occupy: byte k of the field f holds the    *)
(* mark <<f, k>>, and a byte nothing wrote holds Zero.                     *)
(***************************************************************************)
EXTENDS Integers, Sequences, FiniteSets

\* The value of a byte no field was written to.
Zero == <<"zero", 0>>

\* Consecutive fields of width w, the first at offset o.
Row(names, o, w) == {<<names[i], o + (i - 1) * w, w>> : i \in DOMAIN names}

\* The last byte, plus one, that a layout touches: how long the slice must be
\* for the decoder not to panic.
Extent(layout) ==
    LET ends == {f[2] + f[3] : f \in layout}
    IN  IF ends = {} THEN 0 ELSE CHOOSE e \in ends : \A d \in ends : d <= e

\* The bytes an encoder produces: len bytes, Zero where no field is.
Encode(layout, len) ==
    [i \in 0 .. len - 1 |->
        IF \E f \in layout : f[2] <= i /\ i < f[2] + f[3]
        THEN LET f == CHOOSE f \in layout : f[2] <= i /\ i < f[2] + f[3]
             IN  <<f[1], i - f[2]>>
        ELSE Zero]

\* What a decoder reads: for each of its fields the bytes at the field's place.
Decode(layout, buf) ==
    [f \in layout |-> [k \in 0 .. f[3] - 1 |-> buf[f[2] + k]]]

\* A decoder returned the values the encoder was given.
Faithful(decoded) ==
    \A f \in DOMAIN decoded : \A k \in DOMAIN decoded[f] : decoded[f][k] = <<f[1], k>>

-----------------------------------------------------------------------------
\* Packet headers.

EncRequestHeader ==
    Row(<<"version", "pkt_type">>, 0, 1) \cup Row(<<"command", "attempt">>, 4, 2)
      \cup Row(<<"sequence">>, 8, 4)
DecRequestHeader ==
    Row(<<"version", "pkt_type">>, 0, 1) \cup Row(<<"command">>, 4, 2)
      \cup Row(<<"sequence">>, 8, 4)
EncReplyHeader ==
    Row(<<"version", "pkt_type">>, 0, 1) \cup Row(<<"command", "reply", "status">>, 4, 2)
      \cup Row(<<"sequence">>, 16, 4)
DecReplyHeader == Row(<<"status">>, 8, 2)

-----------------------------------------------------------------------------
\* Request bodies: chronyc's encoders and the daemon's decoders.

EncModify     == Row(<<"ip">>, 0, 20) \cup Row(<<"value">>, 20, 4)
EncLocal      == Row(<<"on_off", "stratum", "distance", "orphan">>, 0, 4)
EncAllowDeny  == Row(<<"ip">>, 0, 20) \cup Row(<<"subnet_bits">>, 20, 4)
EncAddress    == Row(<<"ip">>, 0, 20)
EncFloat      == Row(<<"value">>, 0, 4)
EncWord       == Row(<<"value">>, 0, 4)
EncMask       == Row(<<"mask", "address">>, 0, 20)
EncBurst      == Row(<<"mask", "address">>, 0, 20) \cup Row(<<"n_good", "n_total">>, 40, 4)
EncMakestep   == Row(<<"limit", "threshold">>, 0, 4)
EncReselectDistance == Row(<<"value">>, 0, 4)
EncSmoothtime == Row(<<"option">>, 0, 4)
EncSelectopts == Row(<<"ip">>, 0, 20) \cup Row(<<"ref_id", "mask", "options">>, 20, 4)
EncSettime    == Row(<<"high", "low", "nsec">>, 0, 4)
EncAddSource  ==
    Row(<<"type">>, 0, 4) \cup Row(<<"name">>, 4, 256)
      \cup Row(<<"port", "minpoll", "maxpoll", "presend", "min_stratum", "poll_target",
                 "version", "max_sources", "min_samples", "max_samples", "authkey",
                 "nts_port", "max_delay", "delay_ratio", "dev_ratio", "min_delay",
                 "asymmetry", "offset", "flags", "filter_length", "cert_set",
                 "delay_quant">>, 260, 4)

DecModifyInt   == {<<"ip", 0, 20>>, <<"value", 20, 4>>}
DecModifyFloat == {<<"ip", 0, 20>>, <<"value", 20, 4>>}
DecLocal       == {<<"on_off", 0, 4>>, <<"stratum", 4, 4>>, <<"distance", 8, 4>>,
                   <<"orphan", 12, 4>>}
DecAllowDeny   == {<<"ip", 0, 20>>, <<"subnet_bits", 20, 4>>}
DecAddress     == {<<"ip", 0, 20>>}
DecFloat       == {<<"value", 0, 4>>}
DecManualDelete == {<<"value", 0, 4>>}
DecMask        == {<<"mask", 0, 20>>, <<"address", 20, 20>>}
DecBurst       == {<<"mask", 0, 20>>, <<"address", 20, 20>>, <<"n_good", 40, 4>>,
                   <<"n_total", 44, 4>>}
DecMakestep    == {<<"limit", 0, 4>>, <<"threshold", 4, 4>>}
DecReselectDistance == {<<"value", 0, 4>>}
DecSmoothtime  == {<<"option", 0, 4>>}
DecSelectopts  == {<<"ip", 0, 20>>, <<"ref_id", 20, 4>>, <<"mask", 24, 4>>,
                   <<"options", 28, 4>>}
DecSettime     == {<<"high", 0, 4>>, <<"low", 4, 4>>, <<"nsec", 8, 4>>}
DecAddSource   ==
    {<<"type", 0, 4>>, <<"name", 4, 256>>, <<"port", 260, 4>>, <<"minpoll", 264, 4>>,
     <<"maxpoll", 268, 4>>, <<"presend", 272, 4>>, <<"min_stratum", 276, 4>>,
     <<"poll_target", 280, 4>>, <<"version", 284, 4>>, <<"max_sources", 288, 4>>,
     <<"min_samples", 292, 4>>, <<"max_samples", 296, 4>>, <<"authkey", 300, 4>>,
     <<"nts_port", 304, 4>>, <<"max_delay", 308, 4>>, <<"delay_ratio", 312, 4>>,
     <<"dev_ratio", 316, 4>>, <<"min_delay", 320, 4>>, <<"asymmetry", 324, 4>>,
     <<"offset", 328, 4>>, <<"flags", 332, 4>>, <<"filter_length", 336, 4>>,
     <<"cert_set", 340, 4>>, <<"delay_quant", 344, 4>>}

-----------------------------------------------------------------------------
\* Reply bodies: the daemon's encoders and chronyc's decoders.

EncTracking ==
    Row(<<"ref_id">>, 0, 4) \cup Row(<<"ip">>, 4, 20) \cup Row(<<"stratum", "leap">>, 24, 2)
      \cup Row(<<"high", "low", "nsec", "correction", "last", "rms", "freq", "resid",
                 "skew", "delay", "dispersion", "interval">>, 28, 4)
EncSourcestats ==
    Row(<<"ref_id">>, 0, 4) \cup Row(<<"ip">>, 4, 20)
      \cup Row(<<"samples", "runs", "span", "sd", "resid", "skew", "offset", "err">>, 24, 4)
EncSourceData ==
    Row(<<"ip">>, 0, 20)
      \cup Row(<<"poll", "stratum", "state", "mode", "flags", "reach">>, 20, 2)
      \cup Row(<<"ago", "orig", "latest", "err">>, 32, 4)
EncActivity == Row(<<"online", "offline", "burst_on", "burst_off", "unresolved">>, 0, 4)
EncServerStats == {<<i, 8 * i, 8>> : i \in 0 .. 16} \cup {<<17, 136, 32>>}
EncNtpData ==
    Row(<<"remote", "local">>, 0, 20) \cup Row(<<"port">>, 40, 2)
      \cup Row(<<"leap", "version", "mode", "stratum", "poll", "precision">>, 42, 1)
      \cup Row(<<"root_delay", "root_disp", "ref_id", "high", "low", "nsec", "offset",
                 "delay", "dispersion", "response", "asymmetry">>, 48, 4)
      \cup Row(<<"flags">>, 92, 2) \cup Row(<<"tx_tss", "rx_tss">>, 94, 1)
      \cup Row(<<"tx", "rx", "valid", "good", "res1", "res2", "res3">>, 96, 4)
EncRtc ==
    Row(<<"high", "low", "nsec">>, 0, 4) \cup Row(<<"samples", "runs">>, 12, 2)
      \cup Row(<<"span", "fast", "gain">>, 16, 4)
EncSmoothing == Row(<<"flags", "offset", "freq", "wander", "ago", "remaining">>, 0, 4)
EncAuthData ==
    Row(<<"mode", "key_type">>, 0, 2) \cup Row(<<"key_id">>, 4, 4)
      \cup Row(<<"key_length", "attempts">>, 8, 2) \cup Row(<<"last_ke">>, 12, 4)
      \cup Row(<<"cookies", "cookie_length", "nak">>, 16, 2)
EncSelectData ==
    Row(<<"ref_id">>, 0, 4) \cup Row(<<"ip">>, 4, 20) \cup Row(<<"state", "auth", "leap">>, 24, 1)
      \cup Row(<<"conf", "eff">>, 28, 2) \cup Row(<<"ago", "score", "lo", "hi">>, 32, 4)
EncManualTimestamp == Row(<<"offset", "dfreq", "afreq">>, 0, 4)
EncClientAccess ==
    Row(<<"ip">>, 0, 20)
      \cup Row(<<"ntp", "nke", "cmd", "ntp_drops", "nke_drops", "cmd_drops">>, 20, 4)
      \cup Row(<<"ntp_int", "nke_int", "cmd_int", "timeout_int">>, 44, 1)
      \cup Row(<<"ntp_ago", "nke_ago", "cmd_ago">>, 48, 4)
EncManualSample == Row(<<"high", "low", "nsec", "slewed", "orig", "residual">>, 0, 4)

DecNSources == {<<"n", 0, 4>>}
DecTracking ==
    {<<"ref_id", 0, 4>>, <<"stratum", 24, 2>>, <<"high", 28, 4>>, <<"low", 32, 4>>,
     <<"nsec", 36, 4>>, <<"correction", 40, 4>>, <<"last", 44, 4>>, <<"rms", 48, 4>>,
     <<"freq", 52, 4>>, <<"resid", 56, 4>>, <<"skew", 60, 4>>, <<"delay", 64, 4>>,
     <<"dispersion", 68, 4>>, <<"interval", 72, 4>>}
DecTrackingCmdmon == DecTracking \cup {<<"ip", 4, 20>>, <<"leap", 26, 2>>}
DecSourcestats ==
    {<<"ref_id", 0, 4>>, <<"ip", 4, 20>>, <<"samples", 24, 4>>, <<"runs", 28, 4>>,
     <<"span", 32, 4>>, <<"sd", 36, 4>>, <<"resid", 40, 4>>, <<"skew", 44, 4>>,
     <<"offset", 48, 4>>, <<"err", 52, 4>>}
DecSourceData ==
    {<<"ip", 0, 20>>, <<"poll", 20, 2>>, <<"stratum", 22, 2>>, <<"state", 24, 2>>,
     <<"mode", 26, 2>>, <<"reach", 30, 2>>, <<"ago", 32, 4>>, <<"orig", 36, 4>>,
     <<"latest", 40, 4>>, <<"err", 44, 4>>}
DecActivity ==
    {<<"online", 0, 4>>, <<"offline", 4, 4>>, <<"burst_on", 8, 4>>, <<"burst_off", 12, 4>>,
     <<"unresolved", 16, 4>>}
DecServerStats == {<<i, i * 8, 8>> : i \in 0 .. 16}
DecNtpData ==
    {<<"remote", 0, 20>>, <<"local", 20, 20>>, <<"port", 40, 2>>, <<"leap", 42, 1>>,
     <<"version", 43, 1>>, <<"mode", 44, 1>>, <<"stratum", 45, 1>>, <<"poll", 46, 1>>,
     <<"precision", 47, 1>>, <<"root_delay", 48, 4>>, <<"root_disp", 52, 4>>,
     <<"ref_id", 56, 4>>, <<"high", 60, 4>>, <<"low", 64, 4>>, <<"nsec", 68, 4>>,
     <<"offset", 72, 4>>, <<"delay", 76, 4>>, <<"dispersion", 80, 4>>,
     <<"response", 84, 4>>, <<"asymmetry", 88, 4>>, <<"flags", 92, 2>>,
     <<"tx_tss", 94, 1>>, <<"rx_tss", 95, 1>>, <<"tx", 96, 4>>, <<"rx", 100, 4>>,
     <<"valid", 104, 4>>, <<"good", 108, 4>>}
DecRtc ==
    {<<"high", 0, 4>>, <<"low", 4, 4>>, <<"nsec", 8, 4>>, <<"samples", 12, 2>>,
     <<"runs", 14, 2>>, <<"span", 16, 4>>, <<"fast", 20, 4>>, <<"gain", 24, 4>>}
DecSmoothing ==
    {<<"flags", 0, 4>>, <<"offset", 4, 4>>, <<"freq", 8, 4>>, <<"wander", 12, 4>>,
     <<"ago", 16, 4>>, <<"remaining", 20, 4>>}
DecAuthData ==
    {<<"mode", 0, 2>>, <<"key_type", 2, 2>>, <<"key_id", 4, 4>>, <<"key_length", 8, 2>>,
     <<"attempts", 10, 2>>, <<"last_ke", 12, 4>>, <<"cookies", 16, 2>>,
     <<"cookie_length", 18, 2>>, <<"nak", 20, 2>>}

DecSelectData ==
    {<<"ref_id", 0, 4>>, <<"ip", 4, 20>>, <<"state", 24, 1>>, <<"auth", 25, 1>>,
     <<"leap", 26, 1>>, <<"conf", 28, 2>>, <<"eff", 30, 2>>, <<"ago", 32, 4>>,
     <<"score", 36, 4>>, <<"lo", 40, 4>>, <<"hi", 44, 4>>}
DecManualTimestamp == {<<"offset", 0, 4>>, <<"dfreq", 4, 4>>, <<"afreq", 8, 4>>}
DecClientAccess ==
    {<<"ip", 0, 20>>, <<"ntp", 20, 4>>, <<"nke", 24, 4>>, <<"cmd", 28, 4>>,
     <<"ntp_drops", 32, 4>>, <<"nke_drops", 36, 4>>, <<"cmd_drops", 40, 4>>,
     <<"ntp_int", 44, 1>>, <<"nke_int", 45, 1>>, <<"cmd_int", 46, 1>>,
     <<"timeout_int", 47, 1>>, <<"ntp_ago", 48, 4>>, <<"nke_ago", 52, 4>>,
     <<"cmd_ago", 56, 4>>}
DecManualSample ==
    {<<"high", 0, 4>>, <<"low", 4, 4>>, <<"nsec", 8, 4>>, <<"slewed", 12, 4>>,
     <<"orig", 16, 4>>, <<"residual", 20, 4>>}

\* Every encoder with the length of the array it returns and the decoder the
\* other side applies to it.
Mirrors ==
    {<<EncRequestHeader, 20, DecRequestHeader>>, <<EncReplyHeader, 28, DecReplyHeader>>,
     <<EncModify, 28, DecModifyInt>>, <<EncModify, 28, DecModifyFloat>>,
     <<EncLocal, 20, DecLocal>>, <<EncAllowDeny, 28, DecAllowDeny>>,
     <<EncAddress, 24, DecAddress>>, <<EncFloat, 8, DecFloat>>,
     <<EncWord, 8, DecManualDelete>>, <<EncMask, 44, DecMask>>,
     <<EncBurst, 52, DecBurst>>, <<EncMakestep, 12, DecMakestep>>,
     <<EncReselectDistance, 8, DecReselectDistance>>,
     <<EncSmoothtime, 8, DecSmoothtime>>, <<EncSelectopts, 36, DecSelectopts>>,
     <<EncSettime, 16, DecSettime>>, <<EncAddSource, 356, DecAddSource>>,
     <<EncTracking, 80, DecTracking>>, <<EncTracking, 80, DecTrackingCmdmon>>,
     <<EncSourcestats, 60, DecSourcestats>>, <<EncSourceData, 52, DecSourceData>>,
     <<EncActivity, 24, DecActivity>>, <<EncServerStats, 172, DecServerStats>>,
     <<EncNtpData, 128, DecNtpData>>, <<EncRtc, 32, DecRtc>>,
     <<EncSmoothing, 28, DecSmoothing>>, <<EncAuthData, 28, DecAuthData>>,
     <<EncSelectData, 52, DecSelectData>>, <<EncManualTimestamp, 12, DecManualTimestamp>>,
     <<EncClientAccess, 60, DecClientAccess>>, <<EncManualSample, 24, DecManualSample>>}

-----------------------------------------------------------------------------
\* pktlength.rs: for each command code 0 .. 72 the length of its fields and the
\* padding it must carry; for each reply code 0 .. 25 its length.

REQUEST_LENGTHS ==
    <<<<20,8>>, <<60,0>>, <<60,0>>, <<68,0>>, <<44,0>>, <<44,0>>, <<24,4>>, <<44,0>>,
      <<44,0>>, <<24,4>>, <<32,0>>, <<32,8>>, <<0,0>>, <<24,4>>, <<20,12>>, <<24,52>>,
      <<20,8>>, <<44,0>>, <<44,0>>, <<44,0>>, <<44,0>>, <<44,0>>, <<44,0>>, <<44,0>>,
      <<44,0>>, <<40,0>>, <<40,0>>, <<0,0>>, <<0,0>>, <<40,0>>, <<20,8>>, <<24,4>>,
      <<0,0>>, <<20,84>>, <<24,60>>, <<20,36>>, <<20,8>>, <<20,8>>, <<0,0>>, <<0,0>>,
      <<0,0>>, <<20,396>>, <<24,4>>, <<20,8>>, <<20,28>>, <<44,0>>, <<44,0>>, <<44,0>>,
      <<20,8>>, <<24,4>>, <<28,0>>, <<20,32>>, <<24,4>>, <<20,8>>, <<20,176>>, <<0,0>>,
      <<36,0>>, <<40,112>>, <<0,0>>, <<0,0>>, <<0,0>>, <<0,0>>, <<20,8>>, <<20,8>>,
      <<372,0>>, <<40,244>>, <<20,8>>, <<40,12>>, <<36,484>>, <<24,52>>, <<20,8>>,
      <<24,4>>, <<52,0>>>>
REPLY_LENGTHS ==
    <<0, 28, 32, 76, 0, 104, 84, 56, 0, 0, 0, 0, 48, 52, 0, 0, 152, 40, 416, 284, 52,
      520, 0, 76, 0, 196>>

N_REQUEST_TYPES == 73
PROTO_VERSION_NUMBER == 6
COMPAT_SERVER == 5
CMD_REQUEST_DATA_OFFSET == 20
CMD_REPLY_DATA_OFFSET == 28
CMD_REQUEST_SIZE == 860
CMD_REPLY_SIZE == 524
MAX_PADDING_LENGTH == 484

\* Padding exists only since version 6.
CommandPaddingLength(version, command) ==
    IF command >= N_REQUEST_TYPES \/ version < PROTO_VERSION_NUMBER
    THEN 0 ELSE REQUEST_LENGTHS[command + 1][2]
CommandLength(version, command) ==
    IF command >= N_REQUEST_TYPES \/ REQUEST_LENGTHS[command + 1][1] = 0
    THEN 0
    ELSE REQUEST_LENGTHS[command + 1][1] + CommandPaddingLength(version, command)
ReplyLength(reply) ==
    IF reply < 1 \/ reply >= Len(REPLY_LENGTHS) THEN 0 ELSE REPLY_LENGTHS[reply + 1]

-----------------------------------------------------------------------------
\* Encoders and decoders mirror each other: the fields of an encoder are
\* disjoint and inside its array, the decoder stays inside it and reads back
\* what was written.
WireMirror(m) ==
    /\ \A f, g \in m[1] : f # g => f[2] + f[3] <= g[2] \/ g[2] + g[3] <= f[2]
    /\ Extent(m[1]) <= m[2] /\ Extent(m[3]) <= m[2]
    /\ Faithful(Decode(m[3], Encode(m[1], m[2])))

-----------------------------------------------------------------------------
(***************************************************************************)
(* The command channel: chronyc-rs runs one command of the user, which is  *)
(* one query or a count followed by one query per source, and the daemon   *)
(* reads its command socket, validates each request, dispatches it and     *)
(* replies.  Each query has a UDP socket of its own and a 2 s receive      *)
(* timeout; the network loses and delays datagrams.                        *)
(*                                                                         *)
(* The packets are the layouts above; a request's only data that         *)
(* matters is its command, its index and its length.                       *)
(***************************************************************************)
CONSTANTS
    CmdSources,     \* the number of sources the daemon reports
    CmdPorts,       \* the ephemeral ports the kernel gives to chronyc
    CmdNetCap,      \* a bound on the datagrams in flight
    CmdRestricted   \* TRUE: a cmdallow table is configured

VARIABLES
    job,        \* the command chronyc was started with: its report query
    cli,        \* chronyc: [st, code, idx, port], the query it waits on
    reqs,       \* requests in flight
    reps,       \* replies in flight
    alive,      \* the daemon has not panicked
    decoded,    \* how the daemon read the arguments of the last request
    shown       \* the bodies chronyc has decoded and displayed
cmdvars == <<job, cli, reqs, reps, alive, decoded, shown>>

-----------------------------------------------------------------------------
\* chronyc: which commands carry a body, and the length of that body.

\* chronyc's main.rs: the body its handler gives to query_daemon_raw.  The
\* commands not named have an empty one; a password is the user's text, of
\* which one and twelve characters stand for the short and the long.
RequestBodies(code) ==
    CASE code \in {13, 15, 34, 40, 42, 57, 65, 67, 69} -> {<<EncWord, 8>>}
      [] code = 11             -> {<<EncSettime, 16>>}
      [] code = 56             -> {<<EncLocal, 20>>}
      [] code = 64             -> {<<EncAddSource, 356>>}
      [] code \in {25, 26, 29} -> {<<EncAddress, 24>>}
      [] code = 3              -> {<<EncBurst, 52>>}
      [] code = 50             -> {<<EncMakestep, 12>>, <<{}, 0>>}
      [] code = 52             -> {<<EncSmoothtime, 8>>}
      [] code \in {1, 2}       -> {<<EncMask, 44>>}
      [] code \in {17, 19, 21, 23} -> {<<EncAllowDeny, 28>>}
      [] code = 10             -> {<<{}, 1>>, <<{}, 12>>}
      [] OTHER                 -> {<<{}, 0>>}

\* query_daemon_raw: the header and the body, zero-filled up to the length the
\* daemon expects and at least to the length of a reply header.
RequestLength(code, bodyLen) ==
    LET expected == CommandLength(PROTO_VERSION_NUMBER, code)
        minLen   == IF expected > CMD_REPLY_DATA_OFFSET THEN expected ELSE CMD_REPLY_DATA_OFFSET
        len      == CMD_REQUEST_DATA_OFFSET + bodyLen
    IN  IF minLen > len THEN minLen ELSE len

\* The bytes of a request from the data offset on.
RequestData(body, len) ==
    LET b == Encode(body[1], body[2])
    IN  [i \in 0 .. len - CMD_REQUEST_DATA_OFFSET - 1 |->
            IF i < body[2] THEN b[i] ELSE Zero]

\* The per-source reports ask for the count first and then for each index.
Loops == {15, 34, 57, 67, 69}
\* The loops that go on with the next source after a failed query.
Tolerant == {57, 67, 69}

\* The decoder chronyc applies to a successful reply, or {} when it looks at
\* the length first or ignores the body.
ReplyDecoder(code) ==
    CASE code = 33 -> DecTracking
      [] code = 44 -> DecActivity
      [] code = 54 -> DecServerStats
      [] code = 14 -> DecNSources
      [] code = 35 -> DecRtc
      [] code = 51 -> DecSmoothing
      [] code = 15 -> DecSourceData
      [] code = 34 -> DecSourcestats
      [] code = 57 -> DecNtpData
      [] code = 67 -> DecAuthData
      [] code = 69 -> DecSelectData
      [] OTHER     -> {}

-----------------------------------------------------------------------------
\* The daemon: validation.

\* cmdmon.rs validate_request, for the header build_request_header writes
\* (packet type and reserved bytes as they must be).
ValidateRequest(len, version, command) ==
    IF \/ len < CMD_REQUEST_DATA_OFFSET \/ len < CMD_REPLY_DATA_OFFSET
       \/ len > CMD_REQUEST_SIZE
    THEN "drop"
    ELSE IF version # PROTO_VERSION_NUMBER
    THEN IF version >= COMPAT_SERVER THEN "badversion" ELSE "drop"
    ELSE IF \/ command >= N_REQUEST_TYPES
            \/ CommandLength(version, command) < CMD_REQUEST_DATA_OFFSET
    THEN "invalid"
    ELSE IF len < CommandLength(version, command)
    THEN "badlength"
    ELSE "valid"

\* real_dispatch: the decoder each command's arm applies to its body, or {}
\* where the arm does not look at the body or checks the length first.
RequestDecoder(code) ==
    CASE code \in {40, 55, 68}                     -> DecManualDelete
      [] code \in {12, 56}                         -> DecLocal
      [] code \in 17 .. 24                         -> DecAllowDeny
      [] code \in {25, 26, 29}                     -> DecAddress
      [] code \in {4, 5, 7, 8, 45, 46, 47}         -> DecModifyInt
      [] code = 9                                  -> DecModifyFloat
      [] code = 50                                 -> DecMakestep
      [] code = 49                                 -> DecReselectDistance
      [] code = 52                                 -> DecSmoothtime
      [] code = 72                                 -> DecSelectopts
      [] code = 3                                  -> DecBurst
      [] code \in {31, 32, 71}                     -> DecFloat
      [] code = 42                                 -> DecManualDelete
      [] code \in {1, 2, 63}                       -> DecMask
      [] code = 64                                 -> DecAddSource
      [] OTHER                                     -> {}

\* The arms that read an index when the body has four bytes, 0 otherwise.
DecodeIndex(code) == IF code \in {34, 65} THEN {<<"value", 0, 4>>} ELSE {}

\* Where real_dispatch takes the body of the packet to begin: `&req[28..]`.
DispatchBodyOffset == 28

\* The bytes real_dispatch hands to its decoders.
DispatchBody(r) ==
    LET data == RequestData(r.body, r.len)
        skip == DispatchBodyOffset - CMD_REQUEST_DATA_OFFSET
    IN  [i \in 0 .. r.len - DispatchBodyOffset - 1 |-> data[i + skip]]

\* What comes of the arguments: read as sent, read as something else, or the
\* slice is too short and the daemon panics.
ReadArguments(r) ==
    LET buf  == DispatchBody(r)
        n    == r.len - DispatchBodyOffset
        dec  == RequestDecoder(r.code)
        idx  == IF n >= 4 THEN DecodeIndex(r.code) ELSE {}
    IN  IF Extent(dec) > n THEN "panic"
        ELSE IF r.body[1] = {} THEN "none"
        ELSE IF Faithful(Decode(dec \cup idx, buf)) THEN "same" ELSE "other"

\* (a bug: the smoothing report is sent for the RTC report)
DispatchMixed(r, keyMatches) ==
    CASE r.code = 33 -> [reply |-> 5,  status |-> 0, body |-> <<EncTracking, 80>>]
      [] r.code = 14 -> [reply |-> 2,  status |-> 0, body |-> <<DecNSources, 4>>]
      [] r.code \in {35, 51} -> [reply |-> 13, status |-> 0, body |-> <<EncSmoothing, 28>>]
      [] OTHER       -> [reply |-> 1,  status |-> 0, body |-> <<{}, 0>>]

\* real_dispatch: the reply code, the status and the body of each arm.  The
\* per-source statistics and the client accesses come from closures that
\* return None in chronyd's main.rs; a name fills the rest of the reply; an
\* added source read from the wrong place has no valid type.  keyMatches: no
\* command key is configured, or the first four bytes happen to be its id.
Dispatch(r, keyMatches) ==
    CASE r.code = 33 -> [reply |-> 5,  status |-> 0, body |-> <<EncTracking, 80>>]
      [] r.code = 44 -> [reply |-> 12, status |-> 0, body |-> <<EncActivity, 24>>]
      [] r.code = 54 -> [reply |-> 25, status |-> 0, body |-> <<EncServerStats, 172>>]
      [] r.code = 14 -> [reply |-> 2,  status |-> 0, body |-> <<DecNSources, 4>>]
      [] r.code = 65 -> [reply |-> 19, status |-> 0,
                         body |-> <<{}, CMD_REPLY_SIZE - CMD_REPLY_DATA_OFFSET>>]
      [] r.code = 35 -> [reply |-> 7,  status |-> 0, body |-> <<EncRtc, 32>>]
      [] r.code = 51 -> [reply |-> 13, status |-> 0, body |-> <<EncSmoothing, 28>>]
      [] r.code = 64 -> [reply |-> 1,  status |-> IF ReadArguments(r) = "same" THEN 0 ELSE 3,
                         body |-> <<{}, 0>>]
      [] r.code = 10 -> [reply |-> 1, status |-> IF r.len - DispatchBodyOffset >= 4 /\ keyMatches
                                                   THEN 0 ELSE 3,
                         body |-> <<{}, 0>>]
      [] OTHER       -> [reply |-> 1,  status |-> 0, body |-> <<{}, 0>>]

-----------------------------------------------------------------------------
\* The exchange.

\* The commands chronyc's run() can send.
ChronycCodes ==
    {1, 2, 3, 6, 10, 11, 13, 14, 15, 16, 25, 26, 29, 30, 33, 34, 35, 36, 37, 39, 41, 42, 43,
     44, 48, 50, 51, 52, 53, 54, 56, 57, 62, 64, 66, 67, 69, 70} \cup 17 .. 24

Idle == [st |-> "idle", code |-> 0, idx |-> 0, port |-> 0]

\* query_daemon_raw up to send_to: bind a fresh socket and send the request.
Query(code, idx) ==
    \E port \in CmdPorts, body \in RequestBodies(code) :
        /\ cli' = [st |-> "wait", code |-> code, idx |-> idx, port |-> port]
        /\ Cardinality(reqs) < CmdNetCap
        /\ reqs' = reqs \cup {[code |-> code, idx |-> idx, port |-> port, body |-> body,
                               len |-> RequestLength(code, body[2])]}

Finish(outcome) == cli' = [Idle EXCEPT !.st = outcome] /\ UNCHANGED reqs

\* run() on the user's command.
Start ==
    /\ cli.st = "idle"
    /\ Query(IF job \in Loops THEN 14 ELSE job, 0)
    /\ UNCHANGED <<job, reps, alive, decoded, shown>>

\* (a bug: the loop asks for the same source again)
AdvanceSame ==
    IF cli.code = 65 THEN Query(67, cli.idx)
    ELSE Query(IF job = 67 THEN 65 ELSE job, cli.idx)

\* After the query for one source: authdata asks for the name first, then the
\* loop goes on to the next source, or the report is complete.
Advance ==
    IF cli.code = 65 THEN Query(67, cli.idx)
    ELSE IF cli.idx + 1 < CmdSources
    THEN Query(IF job = 67 THEN 65 ELSE job, cli.idx + 1)
    ELSE Finish("done")

\* A query returned its body.
Succeeded ==
    IF job \notin Loops THEN Finish("done")
    ELSE IF cli.code # 14 THEN Advance
    ELSE IF CmdSources = 0 THEN Finish("done")
    ELSE Query(IF job = 67 THEN 65 ELSE job, 0)

\* A query returned Err: `?` ends the command, `continue` goes on.
Errored ==
    IF job \in Tolerant /\ cli.code # 14 THEN Advance ELSE Finish("failed")

\* recv_from returned a datagram that was sent to this socket's port: chronyc
\* looks at the status and at nothing else of the header.
Receive(p) ==
    /\ cli.st = "wait" /\ p.port = cli.port
    /\ reps' = reps \ {p}
    /\ \/ /\ p.status # 0
          /\ Errored /\ UNCHANGED shown
       \/ /\ p.status = 0 /\ Extent(ReplyDecoder(cli.code)) > p.body[2]
          /\ Finish("crash") /\ UNCHANGED shown
       \/ /\ p.status = 0 /\ Extent(ReplyDecoder(cli.code)) <= p.body[2]
          /\ Succeeded
          /\ shown' = shown \cup {<<cli.code,
                Faithful(Decode(ReplyDecoder(cli.code), Encode(p.body[1], p.body[2])))>>}
    /\ UNCHANGED <<job, alive, decoded>>

\* The 2 s read timeout.
Timeout ==
    /\ cli.st = "wait"
    /\ Errored
    /\ UNCHANGED <<job, reps, alive, decoded, shown>>

\* read_from_cmd_socket for one datagram: the access table, the validation, the
\* dispatch and transmit_reply.  (main.rs gives no client log.)
Serve(r) ==
    /\ alive
    /\ reqs' = reqs \ {r}
    /\ UNCHANGED <<job, cli, shown>>
    /\ \/ /\ CmdRestricted
          /\ UNCHANGED <<reps, alive, decoded>>
       \/ /\ ValidateRequest(r.len, PROTO_VERSION_NUMBER, r.code) = "drop"
          /\ UNCHANGED <<reps, alive, decoded>>
       \/ /\ ValidateRequest(r.len, PROTO_VERSION_NUMBER, r.code) \notin {"drop", "valid"}
          /\ reps' = reps \cup {[port |-> r.port, code |-> r.code, status |-> 3, body |-> <<{}, 0>>]}
          /\ UNCHANGED <<alive, decoded>>
       \/ /\ ValidateRequest(r.len, PROTO_VERSION_NUMBER, r.code) = "valid"
          /\ decoded' = ReadArguments(r)
          /\ alive' = (ReadArguments(r) # "panic")
          /\ \E keyMatches \in BOOLEAN :
                reps' = IF ReadArguments(r) = "panic" THEN reps
                        ELSE LET d == Dispatch(r, keyMatches)
                             IN  reps \cup {[port |-> r.port, code |-> r.code,
                                            status |-> d.status, body |-> d.body]}

\* The network loses a request or a reply, or a reply finds no socket.
Lose ==
    /\ \/ \E r \in reqs : reqs' = reqs \ {r} /\ UNCHANGED reps
       \/ \E p \in reps : reps' = reps \ {p} /\ UNCHANGED reqs
    /\ UNCHANGED <<job, cli, alive, decoded, shown>>

CmdInit ==
    /\ job \in ChronycCodes
    /\ cli = Idle /\ reqs = {} /\ reps = {}
    /\ alive = TRUE /\ decoded = "none" /\ shown = {}

CmdStep ==
    \/ Start \/ Timeout \/ Lose
    \/ \E p \in reps : Receive(p)
    \/ \E r \in reqs : Serve(r)
CmdNext == CmdStep
CmdSpec == CmdInit /\ [][CmdNext]_cmdvars

\* chronyc runs, and its receive returns: with a datagram or when the timeout
\* expires.  The network and the daemon are promised nothing, but what is in
\* flight does not stay there for ever.
CmdFairness == WF_cmdvars(Start) /\ WF_cmdvars(Timeout) /\ WF_cmdvars(Lose)
CmdFairSpec == CmdSpec /\ CmdFairness

-----------------------------------------------------------------------------
\* Properties.

\* The packets and the state of the exchange are well formed: a command in
\* flight is one chronyc can send or one of the two its loops add, and every
\* packet fits its envelope.
CmdTypeOK ==
    /\ job \in ChronycCodes
    /\ cli.st \in {"idle", "wait", "done", "failed", "crash"}
    /\ cli.idx \in 0 .. CmdSources
    /\ alive \in BOOLEAN /\ decoded \in {"none", "same", "other", "panic"}
    /\ \A r \in reqs : r.code \in ChronycCodes \cup {65} /\ r.len \in 28 .. CMD_REQUEST_SIZE
    /\ \A p \in reps : CMD_REPLY_DATA_OFFSET + p.body[2] <= CMD_REPLY_SIZE

\* query_daemon_raw's padding does what its comment says ("so the server's
\* validate_request accepts it"): no request of chronyc is dropped or found too
\* short, so the user sees the daemon's verdict; exactly the commands that have
\* no length in the tables are answered as invalid.
CmdRequestsAccepted ==
    \A r \in reqs :
        ValidateRequest(r.len, PROTO_VERSION_NUMBER, r.code) =
            IF REQUEST_LENGTHS[r.code + 1][1] = 0 THEN "invalid" ELSE "valid"

\* The reports that take no argument show what the daemon encoded: chronyc's
\* decoder for the command agrees with the encoder the dispatch chose, and
\* never runs off the end of the body.
CmdReportsExact ==
    job \in {14, 33, 35, 44, 51, 54} =>
        cli.st # "crash" /\ \A s \in shown : s[2]

\* In the reports that go on after an error a lost or refused datagram costs
\* that source's row and nothing else: once the count is known the command
\* does not fail.
CmdLossCostsOneRow ==
    [][(job \in Tolerant /\ cli.st = "wait" /\ cli.code # 14) => (cli'.st # "failed")]_cmdvars

\* Whatever the network and the daemon do, a chronyc command ends.
CmdEnds == <>(cli.st \in {"done", "failed", "crash"})
=============================================================================
