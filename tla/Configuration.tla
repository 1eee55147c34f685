--------------------------- MODULE Configuration ---------------------------
(***************************************************************************)
(* The configuration language (config/parser.rs, config/scan.rs,           *)
(* cmdparse.rs) and the settings that come out of it (config/accessors.rs, *)
(* config/model.rs), as pure operators.                                    *)
(*                                                                         *)
(* A line is a keyword and a sequence of words.  A word is a sequence of   *)
(* lexemes without a space between them: N(5) and W("iburst") make the     *)
(* word 5iburst.  Numbers scanned as doubles are counted in halves, Frac   *)
(* is the .5 that an integer scan leaves behind.                           *)
(*                                                                         *)
(* A directive is [f, n, s, o]: the setting it is kept in, its numbers,    *)
(* its words, and its options with their values.  Letter case and the text *)
(* of diagnostics are left out.                                            *)
(***************************************************************************)
EXTENDS Integers, Sequences, FiniteSets

RECURSIVE Options(_, _, _), ScanAll(_, _, _), LogFlags(_), Resolve(_)

N(i) == [w |-> "", n |-> i]
W(s) == [w |-> s, n |-> 0]
Frac == W(".5")
UMod == 2^8       \* stands for 2^32 and 2^64, the width of the unsigned fields
NtpPort == 123

----------------------------------------------------------------------------
(* Scanning: [ok, val, rest], where the leftover of a word stays in front *)

Fail == [ok |-> FALSE, val |-> 0, rest |-> <<>>]

\* &line[consumed..].
After(words, k) ==
    IF Len(words[1]) = k THEN Tail(words) ELSE <<SubSeq(words[1], k + 1, Len(words[1]))>> \o Tail(words)

Numeric(words) == words # <<>> /\ words[1][1].w = ""

\* scan_int_at.
ScanInt(words) ==
    IF Numeric(words) THEN [ok |-> TRUE, val |-> words[1][1].n, rest |-> After(words, 1)] ELSE Fail

\* scan_double_at.
ScanDouble(words) ==
    IF words # <<>> /\ words[1][1] = Frac THEN [ok |-> TRUE, val |-> 1, rest |-> After(words, 1)]
    ELSE IF ~Numeric(words) THEN Fail
    ELSE LET frac == Len(words[1]) > 1 /\ words[1][2] = Frac
         IN [ok |-> TRUE, val |-> 2 * words[1][1].n + (IF frac THEN 1 ELSE 0),
             rest |-> After(words, IF frac THEN 2 ELSE 1)]

\* scan_uint_at and the cast to the field: a minus sign wraps.
ScanUint(words) == [ScanInt(words) EXCEPT !.val = @ % UMod]

\* scan_hex_at, scan_str4_at: one of the words a table knows.
ScanWord(words, table) ==
    IF words # <<>> /\ words[1][1].w \in DOMAIN table
    THEN [ok |-> TRUE, val |-> table[words[1][1].w], rest |-> After(words, 1)] ELSE Fail

\* refclock_refid: any word of at most four characters.
ScanRefid(words) ==
    IF Numeric(words) /\ Len(words[1]) = 1 THEN ScanInt(words) ELSE ScanWord(words, [GPS |-> -1, PPS |-> -2])

\* A number outside the range is no number.
Within(r, range) == IF r.ok /\ r.val \notin range THEN Fail ELSE r

Take(kind, words) ==
    CASE kind = "flag" -> [ok |-> TRUE, val |-> 1, rest |-> words]
      [] kind = "int" -> ScanInt(words)
      [] kind = "uint" -> ScanUint(words)
      [] kind = "double" -> ScanDouble(words)
      [] kind = "key" -> Within(ScanUint(words), 1..(UMod - 1))
      [] kind = "stratum" -> Within(ScanInt(words), 0..15)
      [] kind = "local" -> Within(ScanInt(words), 1..15)
      [] kind = "extfield" -> ScanWord(words, [F323 |-> 1, F324 |-> 2])
      [] kind = "refid" -> ScanRefid(words)
      [] kind = "rxfilter" -> ScanWord(words, [none |-> 0, ntp |-> 1, ptp |-> 2, all |-> 3])

\* Numbers of a joined argument list, one after the other.
ScanOn(kinds, r, vals) ==
    IF ~r.ok THEN [ok |-> FALSE, vals |-> vals] ELSE ScanAll(kinds, r.rest, Append(vals, r.val))
ScanAll(kinds, words, vals) ==
    IF kinds = <<>> THEN [ok |-> TRUE, vals |-> vals]
    ELSE ScanOn(Tail(kinds), Take(Head(kinds), words), vals)

----------------------------------------------------------------------------
(* Options: name, perhaps value, name, ... until the line is used up *)

Kinds(flags, ints, doubles, other) ==
    [k \in flags \cup ints \cup doubles \cup DOMAIN other |->
        IF k \in flags THEN "flag" ELSE IF k \in ints THEN "int"
        ELSE IF k \in doubles THEN "double" ELSE other[k]]

SelectFlags == {"noselect", "prefer", "require", "trust"}     \* get_select_option

SourceOptions == Kinds(
    SelectFlags \cup {"auto_offline", "burst", "copy", "iburst", "offline", "nts", "xleave"},
    {"filter", "maxpoll", "maxsamples", "maxsources", "minpoll", "minsamples", "minstratum",
     "ntsport", "port", "polltarget", "presend", "version"},
    {"asymmetry", "maxdelay", "maxdelayratio", "maxdelaydevratio", "maxdelayquant", "mindelay", "offset"},
    [certset |-> "uint", key |-> "key", extfield |-> "extfield"])

RefclockOptions == Kinds(
    SelectFlags \cup {"local", "pps", "tai"},
    {"poll", "dpoll", "filter", "rate", "minsamples", "maxlockage", "maxsamples"},
    {"offset", "delay", "precision", "maxdispersion", "width"},
    [refid |-> "refid", lock |-> "refid", stratum |-> "stratum"])

HwtsOptions == Kinds({"nocrossts"}, {"maxsamples", "minpoll", "maxpoll", "minsamples"},
    {"precision", "rxcomp", "txcomp"}, [rxfilter |-> "rxfilter"])

LocalOptions == Kinds({"orphan"}, {}, {"distance"}, [stratum |-> "local"])
RateOptions == Kinds({}, {"interval", "burst"}, {}, [leak |-> "int"])

NameOf(word) == IF Len(word) = 1 THEN word[1].w ELSE ""

\* The value given last is the one that counts; the bits of extfield add up.
Given(o, k, v) == {x \in o : x[1] # k \/ k = "extfield"} \cup {<<k, v>>}

\* parse_ntp_source_add, parse_refclock, parse_hwtimestamp, parse_local, parse_ratelimit:
\* the same loop over their own options.
OptionsOn(kinds, k, r, o) ==
    IF r.ok THEN Options(kinds, r.rest, Given(o, k, r.val)) ELSE [ok |-> FALSE, o |-> o]
Options(kinds, words, o) ==
    IF words = <<>> THEN [ok |-> TRUE, o |-> o]
    ELSE LET k == NameOf(words[1])
         IN OptionsOn(kinds, k, IF k \in DOMAIN kinds THEN Take(kinds[k], Tail(words)) ELSE Fail, o)

----------------------------------------------------------------------------
(* Keywords *)

\* parse_scalar_int_typed, and the setting ConfigValues::apply keeps it in.
Ints == [cmdport |-> "cmd_port", port |-> "ntp_port", ptpport |-> "ptp_port", maxsamples |-> "max_samples",
    minsamples |-> "min_samples", minsources |-> "min_sources", acquisitionport |-> "acquisition_port",
    dscp |-> "ntp_dscp", logbanner |-> "log_banner", maxntsconnections |-> "nts_server_connections",
    nocerttimecheck |-> "no_cert_time_check", ntsport |-> "nts_server_port",
    ntsprocesses |-> "nts_server_processes", ntsrefresh |-> "nts_refresh", ntsrotate |-> "nts_rotate",
    refresh |-> "refresh", sched_priority |-> "sched_priority", commandkey |-> "ignored",
    linux_freq_scale |-> "ignored", linux_hz |-> "ignored"]

IntField(kw) == Ints[kw]

Doubles == [clockprecision |-> "clock_precision", combinelimit |-> "combine_limit",
    corrtimeratio |-> "correction_time_ratio", maxclockerror |-> "max_clock_error",
    maxdistance |-> "max_distance", maxdrift |-> "max_drift", maxjitter |-> "max_jitter",
    maxslewrate |-> "max_slew_rate", maxupdateskew |-> "max_update_skew",
    reselectdist |-> "reselect_distance", stratumweight |-> "stratum_weight",
    hwtstimeout |-> "hwts_timeout", logchange |-> "log_change", rtcautotrim |-> "rtc_autotrim"]

Strings == [bindacqdevice |-> "bind_acq_iface", bindcmddevice |-> "bind_cmd_iface",
    binddevice |-> "bind_ntp_iface", dumpdir |-> "dump_dir", hwclockfile |-> "hwclock_file",
    keyfile |-> "keys_file", leapsectz |-> "leapsec_tz", logdir |-> "log_dir",
    ntpsigndsocket |-> "ntp_signd_socket", ntsdumpdir |-> "nts_dump_dir", pidfile |-> "pid_file",
    rtcdevice |-> "rtc_device", rtcfile |-> "rtc_file", user |-> "user", ntscachedir |-> "nts_dump_dir",
    ntsntpserver |-> "nts_ntp_server", ntsservercert |-> "nts_cert_files", ntsserverkey |-> "nts_key_files",
    driftfile |-> "drift_file"]

Flags == [lock_all |-> "lock_memory", manual |-> "manual", noclientlog |-> "no_client_log",
    nosystemcert |-> "no_system_cert", rtconutc |-> "rtc_on_utc", dumponexit |-> "ignored",
    generatecommandkey |-> "ignored"]

Rates == [ratelimit |-> "ntp_ratelimit", ntsratelimit |-> "nts_ratelimit", cmdratelimit |-> "cmd_ratelimit"]
Modes == [leapsecmode |-> {"system", "slew", "step", "ignore"}, authselectmode |-> {"require", "prefer", "mix", "ignore"}]
LogNames == {"rawmeasurements", "measurements", "selection", "statistics", "tracking", "rtc", "refclocks", "tempcomp"}

\* validate_int_range.
InRange(kw, v) ==
    CASE kw \in {"port", "cmdport", "ptpport", "acquisitionport", "ntsport"} -> v \in 0..65535
      [] kw = "minsources" -> v \in 1..100
      [] kw \in {"maxsamples", "minsamples"} -> v \in 1..1024
      [] kw \in {"maxntsconnections", "ntsprocesses"} -> v \in 1..1000
      [] kw = "sched_priority" -> v \in 0..99
      [] kw = "dscp" -> v \in 0..63
      [] kw = "logbanner" -> v >= 0
      [] OTHER -> TRUE

\* string_to_ip, for the addresses of the models.
Family(word) == IF word = <<W("v4")>> THEN "4" ELSE IF word = <<W("v6")>> THEN "6" ELSE ""

\* parse_log: what precedes the first invalid name.
LogFlags(args) ==
    IF args = <<>> \/ NameOf(args[1]) \notin LogNames THEN {}
    ELSE LET k == NameOf(args[1])
         IN LogFlags(Tail(args)) \cup {<<k, 1>>}
                \cup (IF k = "rawmeasurements" THEN {<<"measurements", 1>>} ELSE {})

Dir(f, n, s, o) == [f |-> f, n |-> n, s |-> s, o |-> o]
Accept(d) == [dirs |-> <<d>>, err |-> FALSE]
Warn(d) == [dirs |-> <<d>>, err |-> TRUE]
Refuse == [dirs |-> <<>>, err |-> TRUE]

\* A fixed number of arguments, scanned from the joined text.
FromNumbers(f, r, words) == IF r.ok THEN Accept(Dir(f, r.vals, words, {})) ELSE Refuse
Numbers(f, args, count, kinds) ==
    IF Len(args) = count THEN FromNumbers(f, ScanAll(kinds, args, <<>>), <<>>) ELSE Refuse

\* parse::<f64>, parse::<i32>: the whole word is the number.
Strict(word, double) ==
    (word[1].w = "" \/ (double /\ word = <<Frac>>)) /\ (Len(word) = 1 \/ (double /\ Len(word) = 2 /\ word[2] = Frac))

\* A directive with options is refused, or kept with those before the error.
Whole(f, s, r) == IF r.ok THEN Accept(Dir(f, <<>>, s, r.o)) ELSE Refuse
Partly(f, s, r) == IF r.ok THEN Accept(Dir(f, <<>>, s, r.o)) ELSE Warn(Dir(f, <<>>, s, r.o))

ParseSource(kw, args) ==
    IF args = <<>> THEN Refuse
    ELSE Whole("sources", <<<<W(kw)>>, args[1]>>, Options(SourceOptions, Tail(args), {}))

ParseRefclock(args) ==
    IF Len(args) < 2 THEN Refuse
    ELSE Whole("refclocks", SubSeq(args, 1, 2), Options(RefclockOptions, SubSeq(args, 3, Len(args)), {}))

\* The interface is kept whatever its options; maxpoll follows minpoll.
WithMaxpoll(r) ==
    IF \E x \in r.o : x[1] = "maxpoll" THEN r
    ELSE [r EXCEPT !.o = @ \cup {<<"maxpoll", IF \E x \in @ : x[1] = "minpoll"
                                             THEN 1 + (CHOOSE x \in @ : x[1] = "minpoll")[2] ELSE 1>>}]
ParseHwtimestamp(args) ==
    IF args = <<>> THEN Refuse
    ELSE Partly("hwts_interfaces", <<args[1]>>, WithMaxpoll(Options(HwtsOptions, Tail(args), {})))

NoneNegative(f, r) == IF \E x \in r.o : x[2] < 0 THEN Refuse ELSE Partly(f, <<>>, r)
ParseRatelimit(kw, args) == NoneNegative(Rates[kw], Options(RateOptions, args, {}))

ParseLocal(args) == Whole("local_ref", <<>>, Options(LocalOptions, args, {}))

ParseTempcomp(args) ==
    CASE Len(args) = 3 -> FromNumbers("temp_comp", ScanAll(<<"double">>, <<args[2]>>, <<>>), <<args[1], args[3]>>)
      [] Len(args) = 6 -> FromNumbers("temp_comp", ScanAll([i \in 1..5 |-> "double"], Tail(args), <<>>), <<args[1]>>)
      [] OTHER -> Refuse

ParseSmoothtime(args) ==
    IF Len(args) \notin 2..3 \/ (Len(args) = 3 /\ args[3] # <<W("leaponly")>>) THEN Refuse
    ELSE FromNumbers("smooth", ScanAll(<<"double", "double">>, args, <<>>), SubSeq(args, 3, Len(args)))

BroadcastTo(i, address, p) ==
    IF i.ok /\ Family(address) # "" /\ p.ok
    THEN Accept(Dir("broadcasts", <<i.val, p.val>>, <<address>>, {})) ELSE Refuse
ParseBroadcast(args) ==
    IF Len(args) \notin 2..3 THEN Refuse
    ELSE BroadcastTo(ScanInt(args), args[2],
                     IF Len(args) = 3 THEN ScanInt(SubSeq(args, 3, 3)) ELSE [ok |-> TRUE, val |-> NtpPort])

ParseNtsTrustedCerts(args) ==
    CASE Len(args) = 1 -> Accept(Dir("nts_trusted_certs", <<0>>, args, {}))
      [] Len(args) = 2 -> FromNumbers("nts_trusted_certs", ScanAll(<<"uint">>, args, <<>>), <<args[2]>>)
      [] OTHER -> Refuse

ParseBind(field, args) ==
    IF Len(args) # 1 THEN Refuse
    ELSE IF field = "bind_cmd_address" /\ args[1][1].w \in {"/", "/sock"}
    THEN Accept(Dir("bind_cmd_path", <<>>, IF args[1] = <<W("/")>> THEN <<>> ELSE args, {}))
    ELSE IF Family(args[1]) = "" THEN Refuse
    ELSE Accept(Dir(field \o Family(args[1]), <<>>, args, {}))

\* parse_allow_deny: all, one address or shortened network, nothing else.  A name
\* that does not resolve is refused.
ParseAccess(kw, args) ==
    LET all == args # <<>> /\ args[1] = <<W("all")>>
        net == IF all THEN Tail(args) ELSE args
    IN IF Len(net) > 1 THEN Refuse
       ELSE IF net # <<>> /\ Family(net[1]) = "" /\ net[1] \notin {<<N(i)>> : i \in 0..255} THEN Refuse
       ELSE Accept(Dir("access", <<>>, <<<<W(kw)>>>> \o net, IF all THEN {<<"all", 1>>} ELSE {}))

ParseMakestep(args) ==
    IF Len(args) = 2 /\ Strict(args[1], TRUE) /\ Strict(args[2], FALSE)
    THEN Accept(Dir("make_step", <<ScanDouble(<<args[1]>>).val, args[2][1].n>>, <<>>, {})) ELSE Refuse

ScalarInt(kw, r) ==
    IF r.ok /\ InRange(kw, r.val) THEN Accept(Dir(IntField(kw), <<r.val>>, <<>>, {})) ELSE Refuse
ParseScalarInt(kw, args) == IF Len(args) # 1 THEN Refuse ELSE ScalarInt(kw, ScanInt(args))

ParseInitstepslew(args) ==
    IF args = <<>> THEN Refuse ELSE FromNumbers("init_step", ScanAll(<<"double">>, args, <<>>), Tail(args))

ParseMail(args) ==
    IF Len(args) # 2 THEN Refuse ELSE FromNumbers("mail", ScanAll(<<"double">>, Tail(args), <<>>), <<args[1]>>)

\* parse_line.
ParseLine(kw, args) ==
    CASE kw \in DOMAIN Ints -> ParseScalarInt(kw, args)
      [] kw \in DOMAIN Doubles -> Numbers(Doubles[kw], args, 1, <<"double">>)
      [] kw \in DOMAIN Strings -> IF Len(args) = 1 THEN Accept(Dir(Strings[kw], <<>>, args, {})) ELSE Refuse
      [] kw \in DOMAIN Flags -> IF args = <<>> THEN Accept(Dir(Flags[kw], <<>>, <<>>, {})) ELSE Refuse
      [] kw \in DOMAIN Rates -> ParseRatelimit(kw, args)
      [] kw \in DOMAIN Modes ->
            IF Len(args) = 1 /\ NameOf(args[1]) \in Modes[kw] THEN Accept(Dir(kw, <<>>, args, {})) ELSE Refuse
      [] kw \in {"server", "pool", "peer"} -> ParseSource(kw, args)
      [] kw \in {"allow", "deny", "cmdallow", "cmddeny"} -> ParseAccess(kw, args)
      [] kw = "refclock" -> ParseRefclock(args)
      [] kw = "hwtimestamp" -> ParseHwtimestamp(args)
      [] kw = "local" -> ParseLocal(args)
      [] kw = "tempcomp" -> ParseTempcomp(args)
      [] kw = "smoothtime" -> ParseSmoothtime(args)
      [] kw = "broadcast" -> ParseBroadcast(args)
      [] kw = "ntstrustedcerts" -> ParseNtsTrustedCerts(args)
      [] kw = "bindaddress" -> ParseBind("bind_address", args)
      [] kw = "bindacqaddress" -> ParseBind("bind_acq_address", args)
      [] kw = "bindcmdaddress" -> ParseBind("bind_cmd_address", args)
      [] kw = "makestep" -> ParseMakestep(args)
      [] kw = "maxchange" -> Numbers("max_change", args, 3, <<"double", "int", "int">>)
      [] kw = "fallbackdrift" -> Numbers("fb_drift", args, 2, <<"int", "int">>)
      [] kw = "clientloglimit" -> Numbers("client_log_limit", args, 1, <<"uint">>)
      [] kw = "initstepslew" -> ParseInitstepslew(args)
      [] kw = "mailonchange" -> ParseMail(args)
      [] kw = "rtcsync" -> IF args = <<>> THEN Accept(Dir("rtc_sync", <<>>, <<>>, {})) ELSE Warn(Dir("rtc_sync", <<>>, <<>>, {}))
      [] kw = "log" -> LET d == Dir("log_flags", <<>>, <<>>, LogFlags(args))
                       IN IF \A i \in DOMAIN args : NameOf(args[i]) \in LogNames THEN Accept(d) ELSE Warn(d)
      [] kw = "sourcedir" -> Accept(Dir("source_dirs", <<>>, args, {}))
      [] kw = "confdir" -> IF Len(args) \in 1..10 THEN Accept(Dir("conf_dirs", <<>>, args, {})) ELSE Refuse
      [] kw = "include" -> IF Len(args) = 1 THEN Accept(Dir("includes", <<>>, args, {})) ELSE Refuse
      [] OTHER -> Refuse

----------------------------------------------------------------------------
(* Settings *)

\* Kept in a list, in the order of the file.
Lists == {"sources", "refclocks", "broadcasts", "access", "source_dirs", "conf_dirs", "includes",
          "nts_cert_files", "nts_key_files", "hwts_interfaces", "nts_trusted_certs"}
RateFields == {Rates[k] : k \in DOMAIN Rates}

\* ConfigValues::apply: append, merge or replace.
Kept(old, d) ==
    IF d.f \in Lists THEN Append(old, d)
    ELSE IF old = <<>> THEN <<d>>
    ELSE IF d.f = "log_flags" THEN <<[d EXCEPT !.o = @ \cup old[1].o]>>
    ELSE IF d.f \in RateFields
    THEN <<[d EXCEPT !.o = @ \cup {x \in old[1].o : \A y \in d.o : y[1] # x[1]}]>>
    ELSE IF d.f = "init_step" THEN <<[d EXCEPT !.s = old[1].s \o @]>>
    ELSE <<d>>

Apply(v, d) ==
    IF d.f = "ignored" THEN v
    ELSE [f \in DOMAIN v \cup {d.f} |-> IF f = d.f THEN Kept(IF f \in DOMAIN v THEN v[f] ELSE <<>>, d) ELSE v[f]]

\* ConfigValues::defaults: a setting that is absent has its default.
Defaults == [f \in {} |-> <<>>]

\* parse, then ConfigValues::resolve.
Applied(v, dirs) == IF dirs = <<>> THEN v ELSE Apply(v, dirs[1])
Resolve(lines) ==
    IF lines = <<>> THEN Defaults
    ELSE LET l == lines[Len(lines)]
         IN Applied(Resolve(SubSeq(lines, 1, Len(lines) - 1)), ParseLine(l.kw, l.args).dirs)

----------------------------------------------------------------------------
(* Properties *)

\* The lines that spell the same setting, by the design of chrony.
SameSetting(a, b) ==
    \/ a = b
    \/ {a, b} \subseteq {"server", "pool", "peer"}
    \/ {a, b} \subseteq {"allow", "deny", "cmdallow", "cmddeny"}
    \/ {a, b} = {"ntsdumpdir", "ntscachedir"}

Accumulating == {"server", "pool", "peer", "refclock", "broadcast", "allow", "deny", "cmdallow", "cmddeny",
    "sourcedir", "confdir", "include", "ntsservercert", "ntsserverkey", "hwtimestamp", "ntstrustedcerts",
    "log", "initstepslew", "bindaddress", "bindacqaddress", "bindcmdaddress"} \cup DOMAIN Rates

\* A line changes its own setting and no other (parse_scalar_*_typed and
\* ConfigValues::apply): lines of different settings may be swapped, and a
\* setting given twice has the value of the later line.
ConfOwnSetting(a, b) ==
    /\ ~SameSetting(a.kw, b.kw) => Resolve(<<a, b>>) = Resolve(<<b, a>>)
    /\ (a.kw = b.kw /\ a.kw \notin Accumulating /\ ParseLine(b.kw, b.args).dirs # <<>>)
           => Resolve(<<a, b>>) = Resolve(<<b>>)

\* A rate limit given in two lines is the one given in one line with the options
\* of both (apply keeps the options a later line does not name).
ConfRatesMerge(kw, a, b) ==
    (~ParseLine(kw, a).err /\ ~ParseLine(kw, b).err)
        => Resolve(<<[kw |-> kw, args |-> a], [kw |-> kw, args |-> b]>>)
               = Resolve(<<[kw |-> kw, args |-> a \o b]>>)

\* Every word broken behind its leading number.
Spread(word) ==
    IF Len(word) = 1 \/ word[1].w # "" THEN <<word>>
    ELSE IF word[2] = Frac THEN IF Len(word) = 2 THEN <<word>> ELSE <<SubSeq(word, 1, 2), SubSeq(word, 3, Len(word))>>
    ELSE <<SubSeq(word, 1, 1), SubSeq(word, 2, Len(word))>>

RECURSIVE Respaced(_)
Respaced(words) == IF words = <<>> THEN <<>> ELSE Spread(words[1]) \o Respaced(Tail(words))

\* A scan of an option's value uses up the number and no more, so that what
\* is glued to it is the next option (chrony's line += n): the line means the
\* same with a space in between.
ConfRespaced(kw, head, words) == ParseLine(kw, head \o words) = ParseLine(kw, head \o Respaced(words))

-----------------------------------------------------------------------------
(***************************************************************************)
(* How the files of a configuration are found and put together: read_file, *)
(* search_dirs and glob_paths of the library (config_loader.rs), and       *)
(* expand_config with simple_glob_match of the daemon (main.rs).           *)
(*                                                                         *)
(* A tree maps a file to its lines; a line is a directive [v, inc] with    *)
(* inc = <<>>, or an include of the files inc in the order of the          *)
(* directory.  A name or pattern is a sequence of characters.              *)
(***************************************************************************)
CONSTANTS MaxIncludeLevel,   \* MAX_INCLUDE_LEVEL of the library
          MaxDepth           \* the 64 of expand_config

RECURSIVE ReadFileAt(_, _, _), ReadLines(_, _, _), ExpandConfig(_, _, _),
          Extra(_, _, _), ExtraFiles(_, _, _),
          SplitStar(_), GlobParts(_, _, _, _), SearchDirs(_, _), Scanned(_, _, _), Matches(_, _)

Included(l) == l.inc # <<>>

----------------------------------------------------------------------------
(* read_file: every include is expanded where it stands *)

ReadLines(tree, lines, level) ==
    IF lines = <<>> THEN [dirs |-> <<>>, err |-> FALSE]
    ELSE LET here == IF Included(Head(lines))
                     THEN LET each == [i \in DOMAIN Head(lines).inc |-> ReadFileAt(tree, Head(lines).inc[i], level + 1)]
                              cat[i \in 0..Len(each)] == IF i = 0 THEN <<>> ELSE cat[i - 1] \o each[i].dirs
                          IN [dirs |-> cat[Len(each)], err |-> \E i \in DOMAIN each : each[i].err]
                     ELSE [dirs |-> <<Head(lines).v>>, err |-> FALSE]
             rest == ReadLines(tree, Tail(lines), level)
         IN [dirs |-> here.dirs \o rest.dirs, err |-> here.err \/ rest.err]

ReadFileAt(tree, f, level) ==
    IF level > MaxIncludeLevel \/ f \notin DOMAIN tree
    THEN [dirs |-> <<>>, err |-> TRUE] ELSE ReadLines(tree, tree[f], level)

----------------------------------------------------------------------------
(* expand_config: what is included comes after the file's own directives *)

ExtraFiles(tree, files, depth) ==
    IF files = <<>> THEN <<>>
    ELSE (IF Head(files) \in DOMAIN tree THEN ExpandConfig(tree, tree[Head(files)], depth + 1) ELSE <<>>)
             \o ExtraFiles(tree, Tail(files), depth)

Extra(tree, lines, depth) ==
    IF lines = <<>> THEN <<>>
    ELSE ExtraFiles(tree, Head(lines).inc, depth) \o Extra(tree, Tail(lines), depth)

ExpandConfig(tree, lines, depth) ==
    IF depth > MaxDepth THEN lines ELSE lines \o Extra(tree, lines, depth)

----------------------------------------------------------------------------
(* search_dirs: the first directory that has a name gives the file *)

\* The basename is new.
AddEntry(chosen, name, dir) == IF \E c \in chosen : c[1] = name THEN chosen ELSE chosen \cup {<<name, dir>>}

Scanned(chosen, entries, dir) ==
    IF entries = <<>> THEN chosen ELSE Scanned(AddEntry(chosen, Head(entries), dir), Tail(entries), dir)

\* dirs is the listing of each directory, in the order read_dir gives.
SearchDirs(dirs, k) == IF k = 0 THEN {} ELSE Scanned(SearchDirs(dirs, k - 1), dirs[k], k)

----------------------------------------------------------------------------
(* simple_glob_match *)

\* pattern.split('*').
SplitStar(p) ==
    IF p = <<>> THEN <<<<>>>>
    ELSE LET rest == SplitStar(Tail(p))
         IN IF Head(p) = "*" THEN <<<<>>>> \o rest ELSE <<<<Head(p)>> \o rest[1]>> \o Tail(rest)

PartAt(name, part, i) == i + Len(part) - 1 <= Len(name) /\ SubSeq(name, i, i + Len(part) - 1) = part
From(name, i) == SubSeq(name, i, Len(name))

\* remaining.find(part), 0 when it is not there.
Found(name, part) ==
    LET at == {i \in 1..Len(name) : PartAt(name, part, i)}
    IN IF at = {} THEN 0 ELSE CHOOSE i \in at : \A j \in at : i <= j

GlobParts(parts, k, n, name) ==
    IF k > n THEN TRUE
    ELSE LET part == parts[k]
         IN IF part = <<>> THEN GlobParts(parts, k + 1, n, name)
            ELSE IF k = 1 THEN PartAt(name, part, 1) /\ GlobParts(parts, 2, n, From(name, Len(part) + 1))
            ELSE IF k = n THEN Len(part) <= Len(name) /\ PartAt(name, part, Len(name) - Len(part) + 1)
            ELSE LET i == Found(name, part)
                 IN i # 0 /\ GlobParts(parts, k + 1, n, From(name, i + Len(part)))

SimpleGlobMatch(pattern, name) == LET p == SplitStar(pattern) IN GlobParts(p, 1, Len(p), name)

----------------------------------------------------------------------------
(* Properties *)

Count(s, v) == Cardinality({i \in DOMAIN s : s[i] = v})

\* The two readers of a tree of includes, written independently, load the
\* same directives, each as often (read_file_at and expand_config, whose order
\* differs): none is lost or read twice where neither depth limit is met.
LoadSameDirectives(tree, main) ==
    LET a == ReadFileAt(tree, main, 1)
        b == SelectSeq(ExpandConfig(tree, tree[main], 0), LAMBDA l : ~Included(l))
        vs == [i \in DOMAIN b |-> b[i].v]
    IN ~a.err => \A v \in {a.dirs[i] : i \in DOMAIN a.dirs} \cup {vs[i] : i \in DOMAIN vs} :
                    Count(a.dirs, v) = Count(vs, v)

\* Whatever order the directories are listed in, search_dirs takes every
\* basename once, from the earliest directory that has it.
SearchEarliest(dirs) ==
    LET has(k) == {dirs[k][i] : i \in DOMAIN dirs[k]}
    IN SearchDirs(dirs, Len(dirs))
           = {<<x, k>> \in (UNION {has(j) : j \in DOMAIN dirs}) \X DOMAIN dirs :
                x \in has(k) /\ \A j \in 1..(k - 1) : x \notin has(j)}

\* What the patterns of glob(7) mean, without brackets.
Matches(p, name) ==
    IF p = <<>> THEN name = <<>>
    ELSE IF Head(p) = "*" THEN \E i \in 1..(Len(name) + 1) : Matches(Tail(p), From(name, i))
    ELSE name # <<>> /\ Head(p) \in {"?", Head(name)} /\ Matches(Tail(p), Tail(name))

\* simple_glob_match, which takes every middle part at its first occurrence
\* and never goes back, still finds every name a pattern of * matches.
GlobComplete(pattern, name) == Matches(pattern, name) => SimpleGlobMatch(pattern, name)

\* The comment on simple_glob_match: it matches the pattern, * standing for any
\* sequence, and so no name the pattern does not match.
GlobSound(pattern, name) == SimpleGlobMatch(pattern, name) => Matches(pattern, name)

-----------------------------------------------------------------------------
(***************************************************************************)
(* chronyd's command line (cmdline.rs parse_options): the scan of the      *)
(* words, the clusters of short options in a word, the options' arguments, *)
(* and the start-up options they set.  A word is [dash, chars]: whether it *)
(* starts with "-", and the letters after that; a digit stands for the     *)
(* arguments that scan as a number.                                        *)
(***************************************************************************)
CONSTANT Digits     \* letters an integer argument may start with

Word(chars) == [dash |-> TRUE, chars |-> chars]
Plain(chars) == [dash |-> FALSE, chars |-> chars]
DashDash == Word(<<"-">>)
LongHelp == Word(<<"-", "help">>)
LongVersion == Word(<<"-", "version">>)
Unset == Plain(<<>>)

\* The word made of these letters.
Text(chars) ==
    IF chars # <<>> /\ chars[1] = "-" THEN Word(SubSeq(chars, 2, Len(chars))) ELSE Plain(chars)

\* ChronydOptions::default, without the options that only set a flag of their own.
StartOptions == [family |-> "unspec", debug |-> 0, nofork |-> FALSE, system_log |-> TRUE,
             conf_file |-> Unset, log_severity |-> "info", print_config |-> FALSE,
             user_check |-> TRUE, ref_mode |-> "normal", client_only |-> FALSE,
             clock_control |-> TRUE, timeout |-> Unset, user |-> Unset]

Outcome(kind, o, rest) == [kind |-> kind, options |-> o, remaining |-> rest]
Exit(kind) == Outcome(kind, StartOptions, <<>>)

TakesArg(c) == c \in {"f", "F", "l", "L", "P", "t", "u"}

\* apply_arg_option; -F, -L and -P set what is left out, but want a number too.
IntArg(w) == w.chars # <<>> /\ w.chars[1] \in Digits
ArgFails(c, w) == c \in {"F", "L", "P", "t"} /\ ~IntArg(w)
ApplyArg(o, c, w) ==
    CASE c = "f" -> [o EXCEPT !.conf_file = w]
      [] c = "t" -> [o EXCEPT !.timeout = w]
      [] c = "u" -> [o EXCEPT !.user = w]
      [] OTHER   -> o

\* apply_flag_option for the letters that do not end the scan.
ApplyFlag(o, c) ==
    CASE c = "4" -> [o EXCEPT !.family = "inet4"]
      [] c = "6" -> [o EXCEPT !.family = "inet6"]
      [] c = "d" -> [o EXCEPT !.debug = @ + 1, !.nofork = TRUE, !.system_log = FALSE]
      [] c = "n" -> [o EXCEPT !.nofork = TRUE]
      [] c = "p" -> [o EXCEPT !.print_config = TRUE, !.user_check = FALSE, !.nofork = TRUE,
                              !.system_log = FALSE, !.log_severity = "warn"]
      [] c = "q" -> [o EXCEPT !.ref_mode = "update_once", !.nofork = TRUE, !.client_only = FALSE,
                              !.system_log = FALSE]
      [] c = "Q" -> [o EXCEPT !.ref_mode = "print_once", !.nofork = TRUE, !.client_only = TRUE,
                              !.user_check = FALSE, !.clock_control = FALSE, !.system_log = FALSE]
      [] c = "U" -> [o EXCEPT !.user_check = FALSE]
      [] c = "x" -> [o EXCEPT !.clock_control = FALSE]
      [] OTHER   -> o     \* m, r, R, s: a flag of their own

OptionLetters == {"4", "6", "d", "m", "n", "p", "q", "Q", "r", "R", "s", "U", "x"}
Ends(c) == CASE c = "v" -> "version" [] c = "h" -> "help" [] OTHER -> "error"

Rest(args, i) == SubSeq(args, i, Len(args))

\* The argument of the option at letter j of word i: the rest of its word, or
\* the words after it (none: the argument is missing).
OptArg(args, i, j) ==
    IF j < Len(args[i].chars) THEN <<Text(Rest(args[i].chars, j + 1))>> ELSE Rest(args, i + 1)

\* The scan from letter j of word i.
RECURSIVE Scan(_, _, _, _)
Scan(args, i, j, o) ==
    IF i > Len(args) THEN Outcome("run", o, <<>>)
    ELSE LET w == args[i] IN
         IF j = 1 /\ w = DashDash THEN Outcome("run", o, Rest(args, i + 1))
         ELSE IF j = 1 /\ (~w.dash \/ w.chars = <<>>) THEN Outcome("run", o, Rest(args, i))
         ELSE IF j > Len(w.chars) THEN Scan(args, i + 1, 1, o)
         ELSE LET c == w.chars[j] IN
              IF TakesArg(c)
              THEN LET arg == OptArg(args, i, j) IN
                   IF arg = <<>> THEN Exit("error")
                   ELSE IF ArgFails(c, arg[1]) THEN Exit("fatal")
                   ELSE Scan(args, IF j < Len(w.chars) THEN i + 1 ELSE i + 2, 1, ApplyArg(o, c, arg[1]))
              ELSE IF c \in OptionLetters THEN Scan(args, i, j + 1, ApplyFlag(o, c))
              ELSE Exit(Ends(c))

\* parse_options: --help and --version count wherever they stand.
ParseOptions(args) ==
    LET longs == {i \in 1..Len(args) : args[i] \in {LongHelp, LongVersion}}
    IN  IF longs # {}
        THEN LET first == CHOOSE i \in longs : \A k \in longs : i <= k
             IN  Exit(IF args[first] = LongHelp THEN "help" ELSE "version")
        ELSE Scan(args, 1, 1, StartOptions)

-----------------------------------------------------------------------------
\* Options may be spelled together or apart: taking the first letter off a
\* cluster, or an argument off its option, never changes what parse_options
\* gives, whatever follows (a cluster that ends in "-" would become "--").
CmdlineRespelled(w, rest) ==
    LET c    == w.chars[1]
        tail == Rest(w.chars, 2)
    IN  w.dash /\ c # "-" /\ tail # <<>> /\ (tail = <<"-">> => TakesArg(c))
        => ParseOptions(<<w>> \o rest) =
           ParseOptions(<<Word(<<c>>), IF TakesArg(c) THEN Text(tail) ELSE Word(tail)>> \o rest)

\* However options are combined and repeated, a daemon that runs in one of the
\* one-shot modes stays in the foreground and off the system log, one that only
\* prints the offset is a client and never controls the clock, and -x is final.
CmdlineModes(args) ==
    LET p == ParseOptions(args)
        o == p.options
    IN  args # <<>> /\ p.kind = "run" =>
          /\ o.ref_mode # "normal" => o.nofork /\ ~o.system_log
          /\ o.ref_mode = "print_once" => o.client_only /\ ~o.clock_control
          /\ args[1] = Word(<<"x">>) => ~o.clock_control
=============================================================================
