------------------------------- MODULE MCAlgorithms -------------------------------
(*
  The pure functions of the program, each on all inputs of a bounded size, and its tables: the
  sources, the keys and the saved timestamps. One table runs, or one input is looked at, per
  behaviour.
*)
EXTENDS NtpSample, Sequences

KeyTypes == [md5 |-> TRUE, sha1 |-> FALSE]

VARIABLES part,   \* the component that runs in this behaviour
          input,  \* or the input on which a pure function is checked
          ns_hash, ns_size, ns_slots, ns_n_sources, ns_confirmed,
          ky_keys, ky_cache, ky_file, ky_made,
          tm_ts, tm_first, tm_size, tm_cached_index, tm_cached_rx_ts, tm_alive

tableVars == <<ns_hash, ns_size, ns_slots, ns_n_sources, ns_confirmed>>
keysVars == <<ky_keys, ky_cache, ky_file, ky_made>>
stampsVars == <<tm_ts, tm_first, tm_size, tm_cached_index, tm_cached_rx_ts, tm_alive>>

\* The table of NTP sources.
Nsr == INSTANCE NtpSources WITH
    Real <- {"a", "b"}, Ids <- {"x"}, Ports <- {1, 2}, MaxSources <- 3, Hashes <- {0, 1},
    MaxAddrs <- 1, hash <- ns_hash, size <- ns_size, slots <- ns_slots,
    n_sources <- ns_n_sources, confirmed <- ns_confirmed
\* The key store.
Keys == INSTANCE KeyStore WITH
    KeyIds <- {1, 2}, Secrets <- {8, 9}, FileLines <- 2, Algorithms <- KeyTypes, keys <- ky_keys,
    cache <- ky_cache, file <- ky_file, made <- ky_made
\* The timestamps saved for interleaved mode.
Stamps == INSTANCE TimestampMap WITH
    Mod <- 16, MaxSize <- 4, FutureLimit <- 3, InsertLimit <- 1, Rx <- {1, 2, 9, 13, 14, 15},
    ts <- tm_ts, first <- tm_first, size <- tm_size, cached_index <- tm_cached_index,
    cached_rx_ts <- tm_cached_rx_ts, alive <- tm_alive

\* The modules of pure functions.  Where a module also has variables, which its
\* pure functions do not mention, they are given constants.
Reg == INSTANCE SourceStats WITH SstCap <- 4, SstMin <- 1, SstMax <- 4, MinRegress <- 3, FixedMinDelay <- 0,
    SstDelays <- {}, SstSlews <- {}, SstMaxTaken <- 0, SstMaxErr <- 0, SstMaxOther <- 0,
    st <- 0, err <- 0, taken <- 0, hist <- <<>>, dump <- <<>>, other <- 0,
    MinK <- 1, MaxK <- 1, Repeat <- 1, QValues <- {}, QMaxStep <- 0, quants <- <<>>, n_set <- 0, seen <- {}
Pkt == INSTANCE Packets
Fls == INSTANCE Falsetickers
Kc == INSTANCE KernelClock WITH rtcsync <- FALSE, sys_status <- {}, kernel <- {}, wanted <- {}
Conf == INSTANCE Configuration WITH MaxIncludeLevel <- 3, MaxDepth <- 3, Digits <- {"4", "6"}
Wire == INSTANCE WireData WITH Second <- 5, Frac <- 16, Era <- 16, Jan1970 <- 5,
    ExpBits <- 4, CoefBits <- 5
Rck == INSTANCE Refclock WITH Kilo <- 3, FilterMin <- 1, FilterMax <- 5, CombineRatio <- 60, Clocks <- {}, Second <- 9,
    LockLimit <- 0, Noises <- {}, Delays <- {}, Slews <- {}, RcMaxTime <- 0, RcMaxError <- 0,
    rc <- 0, filter <- 0, now <- 0, error <- 0, started <- FALSE, given <- 0
Cmd == INSTANCE CmdMon WITH CmdSources <- 0, CmdPorts <- {}, CmdNetCap <- 0, CmdRestricted <- FALSE,
    job <- 0, cli <- 0, reqs <- {}, reps <- {}, alive <- TRUE, decoded <- 0, shown <- 0
Priv == INSTANCE PrivOps WITH AllowedPorts <- {1, 2}, DnsMaxAddresses <- 2, Names <- <<>>, NameLen <- 0, MaxCalls <- 0,
    daemon <- "run", helper <- "none", asked <- 0, held <- 0, toHelper <- <<>>, toDaemon <- <<>>, answer <- 0, calls <- 0
Hw == INSTANCE HwClock WITH MinSamples <- 2, MaxSamples <- 2, MinSeparation <- 1, HwTimes <- {}, LocalTimes <- {},
    Steps <- {}, hw_ref <- 0, local_ref <- 0, data <- <<>>, n_samples <- 0, valid_coefs <- FALSE, taken <- <<>>

Seqs(S, n) == UNION {[1..k -> S] : k \in 0..n}

\* Numbers to regress, and whether the residuals pass the runs test from each start.
RegressInput ==
    \/ \E n \in 1..5 : input \in [kind : {"median"}, n : {n}, x : [0..(n-1) -> 0..3]]
    \/ \E n \in 1..6 : input \in [kind : {"window"}, n : {n}, p : [0..5 -> BOOLEAN], m : 0..n, k : 1..n]

\* Packets with up to two extension fields; modes and times of an exchange.
Fields == [type : {260, 2, 5, 36864}, len : {12, 16, 20, 24, 28, 36}]
          \cup [type : {Pkt!MonoRoot, Pkt!NetCorrection}, len : {28}]
PacketInput ==
    \/ input \in [kind : {"packet"}, v : 3..4, f : Seqs(Fields, 2), h : {0, 16, 20, 32}]
    \/ input \in [kind : {"exchange"}, m : {"client", "active", "undefined"}, t : 1..4, r : 1..4, s : 1..4]

\* An exchange of packets with a server whose clock is th ahead, with the delays
\* of the two packets and of the server, and corrections of the network.
SampleInput ==
    input \in [kind : {"sample"}, t : {3, 20}, th : -2..2, d1 : 0..3, p : 0..1, d2 : 0..3,
               rx : 0..3, du : 0..1, tx : 0..3]

\* Candidates in the order of their lower limits, which is no restriction: the
\* search sorts the endpoints.
Grid == 0..3
Candidates == {c \in [lo : Grid, hi : Grid, trusted : BOOLEAN] : c.lo <= c.hi}
SelectInput ==
    \E n \in 1..4 : \E c \in [1..n -> Candidates] :
        /\ \A i \in 2..n : c[i - 1].lo <= c[i].lo
        /\ input = [kind |-> "select", cand |-> c]

\* Frequencies to be split between ticks and the fine adjustment, ticks whose HZ
\* is guessed, and three points of a temperature table.
KernelInput ==
    \/ input \in [kind : {"split"}, f : -60..60, hz : {100, 250, 300, 1000}, c : {-17, -6, -1, 0, 1, 2, 17}]
    \/ input \in [kind : {"tick"}, t : (20..1000) \cup {97 * i : i \in 1..650} \cup {Kc!NominalTick(2^i) : i \in 4..15}]
    \/ input \in [kind : {"temp"}, b : {1, 2},
                  p : {p \in [1..3 -> (0..4) \X (0..2)] : p[1][1] < p[2][1] /\ p[2][1] < p[3][1]}]

\* Lines of a configuration: for every keyword two lists of arguments it accepts.
N(i) == Conf!N(i)
W(w) == Conf!W(w)
Frac == Conf!Frac
Args ==
    Seqs({<<N(5)>>, <<N(0)>>, <<W("v4")>>, <<W("v6")>>, <<W("/")>>, <<N(5), Frac>>, <<W("tracking")>>,
          <<W("require")>>, <<W("system")>>, <<W("all")>>, <<W("orphan")>>}, 1)
    \cup {<<<<N(5)>>, <<N(6)>>>>, <<<<N(7)>>, <<N(6)>>, <<N(9)>>>>, <<<<W("burst")>>, <<N(6)>>>>,
          <<<<W("v4")>>, <<N(6), W("x")>>, <<N(6)>>, <<N(6)>>, <<N(6)>>, <<N(6)>>>>,
          <<<<N(5)>>, <<W("v4")>>>>, <<<<W("v4")>>, <<N(3)>>>>, <<<<W("stratum")>>, <<N(3)>>>>}
Keywords ==
    UNION {DOMAIN Conf!Ints, DOMAIN Conf!Doubles, DOMAIN Conf!Strings, DOMAIN Conf!Flags,
           DOMAIN Conf!Rates, DOMAIN Conf!Modes}
    \cup {"server", "pool", "peer", "allow", "deny", "cmdallow", "cmddeny", "refclock", "hwtimestamp",
          "local", "tempcomp", "smoothtime", "broadcast", "ntstrustedcerts", "bindaddress",
          "bindacqaddress", "bindcmdaddress", "makestep", "maxchange", "fallbackdrift",
          "clientloglimit", "initstepslew", "mailonchange", "rtcsync", "log", "sourcedir", "confdir",
          "include"}
Accepted(kw) == {a \in Args : Conf!ParseLine(kw, a).dirs # <<>>}
Two(S) == LET a == CHOOSE a \in S : TRUE
          IN  {a} \cup (IF S = {a} THEN {} ELSE {CHOOSE b \in S : b # a})
Lines == UNION {[kw : {kw}, args : Two(Accepted(kw))] : kw \in Keywords}
RateArgs == {<<>>} \cup {<<<<W(k)>>, <<N(i)>>>> : k \in {"interval", "burst", "leak"}, i \in {1, 2}}
OptionWords ==
    {<<W("minpoll")>>, <<W("iburst")>>, <<W("offset")>>, <<W("stratum")>>, <<W("local")>>, <<N(5)>>,
     <<N(5), W("iburst")>>, <<N(5), W("local")>>, <<N(5), Frac>>, <<N(5), Frac, W("local")>>,
     <<N(5), W("orphan")>>, <<N(5), W("minpoll")>>}
ConfInput ==
    \/ input \in [kind : {"two"}, a : Lines, b : Lines]
    \/ input \in [kind : {"rate"}, kw : DOMAIN Conf!Rates, a : {a \o b : a \in RateArgs, b \in RateArgs},
                  b : {a \o b : a \in RateArgs, b \in RateArgs}]
    \/ input \in [kind : {"option"}, kw : {"server", "refclock", "hwtimestamp", "local", "ratelimit"},
                  words : Seqs(OptionWords, 3)]
OptionHead(kw) ==
    CASE kw = "server" -> <<<<W("h")>>>> [] kw = "refclock" -> <<<<W("d")>>, <<W("p")>>>>
      [] kw = "hwtimestamp" -> <<<<W("e")>>>> [] OTHER -> <<>>

\* Three files that include one another, directories to search, and patterns.
FileLines == {[v |-> "a", inc |-> <<>>], [v |-> "b", inc |-> <<>>], [v |-> "", inc |-> <<2>>],
              [v |-> "", inc |-> <<3>>], [v |-> "", inc |-> <<2, 3>>]}
LoadInput ==
    \/ input \in [kind : {"tree"}, t : {t \in [1..3 -> Seqs(FileLines, 2)] : Len(t[3]) <= 1}]
    \/ input \in [kind : {"search"}, d : Seqs({s \in Seqs(1..3, 3) : \A i, j \in DOMAIN s : s[i] = s[j] => i = j}, 3)]
    \/ input \in [kind : {"glob"}, p : Seqs({"a", "b", "*"}, 4), n : Seqs({"a", "b"}, 4)]

\* Records of a key exchange, messages that arrive up to a byte, whole
\* negotiations, key rings, and authenticator fields.
Algs == {Pkt!Cmac256, Pkt!GcmSiv}
Recs == {Pkt!Values(TRUE, t, v) : t \in {Pkt!NextProtocol, Pkt!AeadAlgorithm}, v \in {<<>>, <<0>>, <<15>>, <<30, 15>>}}
        \cup {Pkt!Rec(TRUE, t, 3, <<>>) : t \in {1, 4, 5, 6, 9}} \cup {Pkt!Rec(FALSE, 9, 3, <<>>), Pkt!End}
Rings == {[i \in 0..3 |-> [id |-> 4 * h[i] + i, alg |-> a[i]]] : h \in [0..3 -> {0, 7}], a \in [0..3 -> Algs]}
KeInput ==
    \/ input \in [kind : {"request"}, r : Seqs(Recs, 3), c : {Algs, {Pkt!Cmac256}}, s : {Algs, {Pkt!GcmSiv}}]
    \/ \E r \in {Pkt!PrepareRequest(s) : s \in SUBSET Algs}
                \cup {Pkt!PrepareResponse(-1, 0, 15, <<5>>, <<9>>, <<100, 64>>)} :
          input \in [kind : {"frame"}, r : {r}, n : 0..Pkt!MessageLength(r)]
    \/ input \in [kind : {"negotiate"}, c : SUBSET Algs, s : SUBSET Algs, port : {<<>>, <<5>>},
                  name : {<<>>, <<1>>, <<256>>}, k : Seqs({0, 100, 101, 256, 260}, 2) \cup {[i \in 1..9 |-> 64]}]
    \/ input \in [kind : {"ring"}, keys : Rings, cur : 0..3, k : 0..3, alg : Algs]
    \/ input \in [kind : {"field"}, siv : Algs, nonce : {1, 4, 5, 8, 12, 15, 16, 17, 20},
                  text : (0..12) \cup {40}, min : {0, 4, 16, 24, 25, 28, 29, 32, 33, 36, 40, 60}]

\* Times, of five nanoseconds to a second and with a short era, floats and masks.
Times == (0..5) \X (0..4)
TimeInput ==
    \/ input \in [kind : {"times"}, a : Times, b : Times]
    \/ input \in [kind : {"wire"}, ts : 0..40, off : -20..20, ns : {0, 1, 4}, split : {0, 3, 16, 21}]
    \/ input \in [kind : {"order"}, a : (0..40) \X {0, 3}, b : (0..40) \X {0, 3}]
    \/ input \in [kind : {"fuzz"}, p : -5..5, r : [1..4 -> 0..3]]
    \/ input \in [kind : {"float"}, w : 0..(2^(4 + 5) - 1)]
    \/ input \in [kind : {"mask"}, n : 0..6, a : [1..2 -> {0, 1, 4, 5, 7}], b : [1..2 -> {0, 1, 4, 5, 7}]]

\* Control messages cut off at some byte, captured frames, hardware timestamps.
Messages == {m \in {[kind |-> k, len |-> l, a |-> v, b |-> v + 1, c |-> v + 2] :
                       k \in DOMAIN Wire!DataLength, l \in {16, 12, 20, 48}, v \in {1, 5}} :
                m.len = Wire!DataLength[m.kind] \/ m.len = 16}
Exts == {e \in [h : {0, 51, 44, 99}, n : 0..1, frag : 0..1] : e.frag = 0 \/ e.h = 44}
ControlInput ==
    \/ input \in [kind : {"control"}, ms : Seqs(Messages, 2), end : {0, 16, 24, 28, 32, 40, 64, 72, 96, 128}]
    \/ input \in [kind : {"pktinfo"}, l : {"ip4", "ip6", "none"} \X {7}, i : {-1, 0, 1, 5}, cap : {0, 16, 28, 31, 32, 36, 39, 40, 64}]
    \/ input \in [kind : {"capture"},
                  f : [vlans : 0..1, ether : {"ip4", "ip6", "arp"}, ver : {4, 6}, ihl : {5, 6}, proto : {6, 17},
                       exts : Seqs(Exts, 2), size : {12, 33, 42, 46, 62, 70, 78, 90}]]
    \/ input \in [kind : {"stamp"}, l : [ts : {0, 10}, source : {0}, duration : {0}, net : {0}],
                  sw : {0, 8, 13}, off : {0, 1},
                  p : [ts : {0, 5, 9}, rx_len : {0, 2}, speed : {0, 1}, l2 : {0, 4}, family : {"ip4", "ip6"},
                       start4 : {1}, start6 : {2}, tx_comp : {0, 1}, rx_comp : {0, 1}]]

\* What reference clocks deliver, and a window of their samples.
DriverInput ==
    \/ input \in [kind : {"shm"}, count : {0, 1},
                  t : [mode : 0..2, count : {1}, valid : {0, 1}, cs : {0, 2}, cu : {-1, 0, 2, 4},
                       cn : {-4, -1, 0, 2, 8, 13}, rs : {1}, ru : {0, 1}, rn : {0, 4, 10}]]
    \/ input \in [kind : {"sock"}, sane : BOOLEAN,
                  d : [whole : BOOLEAN, magic : BOOLEAN, sec : {0, 1}, usec : 0..7, offset : -20..20, pulse : {0, 1}]]
    \/ \E n \in 1..5 : \E s \in [1..n -> {-9, 0, 2, 9} \X {1, 2}] :
          input = [kind |-> "spike", buf |-> [i \in 1..n |-> [t |-> i, off |-> s[i][1], disp |-> s[i][2]]]]

\* The layouts of the control protocol.
LayoutInput == input \in [kind : {"layout"}, m : Cmd!Mirrors]

\* Command lines of up to three words, and calls of privileged operations.
Letters == {"4", "d", "n", "p", "q", "Q", "x", "t", "f", "-", "v"}
Words == {Conf!Word(c) : c \in Seqs(Letters, 2)} \cup {Conf!Plain(<<"4">>), Conf!Plain(<<"x">>), Conf!LongHelp}
Clusters == {Conf!Word(c) : c \in Seqs(Letters, 3) \ {<<>>}}
CommandInput ==
    \/ input \in [kind : {"respell"}, w : Clusters, rest : Seqs({w \in Words : Len(w.chars) <= 1}, 1)]
    \/ input \in [kind : {"options"}, args : Seqs(Words \ {Conf!LongHelp}, 2)]
    \/ input \in [kind : {"privileged"}, op : Priv!Ops \cup {"quit", "unknown"}, arg : {<<>>, <<7>>}, port : 0..3,
                  rc : {-1, 0, 1}, data : {<<>>, <<8>>, <<1, 2, 3>>}, max : 0..3]

Asked == [op |-> input.op, arg |-> input.arg, port |-> input.port]
Given == [rc |-> input.rc, data |-> input.data]

\* Readings of a hardware clock, and the timing and delay tests of a source.
Readings == {r \in [before : 0..2, hw : 0..3, after : 0..3] : r.hw \in r.before..r.after}
ExchangeInput ==
    \/ input \in [kind : {"readings"}, rs : Seqs(Readings, 2), q1 : 0..3, q2 : 0..3, precision : 0..1, predicted : BOOLEAN]
    \/ input \in [kind : {"timing"},
                  s : [mode : {"client", "active"}, opmode : {"online", "burst"}, poll : {-2, 0, 4}, remote_poll : {-1, 3},
                       minpoll : {-2, 1}, reachable : BOOLEAN, presend : BOOLEAN, on_tx : BOOLEAN, stratum_diff : -1..1,
                       since_tx : {0, 1, 40, 50, 80, 200, 1000, 1400}]]
    \/ input \in [kind : {"delay"}, ratio : {5, 10, 15}, offset : {-4, 0, 9}, delay : 0..6, shorter : 0..6,
                  d : [none : BOOLEAN, min_delay : 0..3, slack : 0..1, std_dev : 0..1, predicted : {-2, 3}]]

Input == \/ CommandInput \/ ExchangeInput \/ RegressInput \/ PacketInput \/ SampleInput \/ SelectInput \/ KernelInput \/ ConfInput
         \/ LoadInput \/ KeInput \/ TimeInput \/ ControlInput \/ DriverInput \/ LayoutInput

\* One component runs; the others stay in an initial state.
MCInit ==
    /\ part \in {"table", "keys", "stamps", "pure"}
    /\ part = "table" \/ (ns_hash = [ip \in Nsr!Ips |-> 0])
    /\ Nsr!Init
    /\ Keys!KeyInit
    /\ Stamps!Init
    /\ \/ part # "pure" /\ input = [kind |-> "none"]
       \/ part = "pure" /\ Input

mcvars == <<part, input, tableVars, keysVars, stampsVars>>

MCNext ==
    \/ part = "table" /\ Nsr!Next /\ UNCHANGED <<part, input, keysVars, stampsVars>>
    \/ part = "keys" /\ Keys!KeyNext /\ UNCHANGED <<part, input, tableVars, stampsVars>>
    \/ part = "stamps" /\ Stamps!Next /\ UNCHANGED <<part, input, tableVars, keysVars>>

MCSpec == MCInit /\ [][MCNext]_mcvars

------------------------------------------------------------------------------
\* NtpSources: Type invariant: the table has a slot per hash and never more than MAX_SOURCES
\* records.
\* NtpSources: The probe of half the slots is enough: every stored source is found, nothing else
\* is, and no address is stored twice.
\* NtpSources: n_sources counts the occupied slots and the table is the smallest that is large
\* enough for them, so a source that is added always meets a free slot.
\* NtpSources: confirmed_sources counts the sources of the pool with a good reply, although adding,
\* confirming, changing an address and removing are separate calls.
\* KeyStore: A key is found through the cache exactly when the file read last has a usable line for
\* its id, and it is a line of that id: the cached position never points into the keys of an
\* earlier file.
\* KeyStore: An authenticator is accepted as long as its key has not changed: after any reloads,
\* check_key_auth takes one made before exactly when the id's key (the only one with that id) is
\* the same as then.
\* TimestampMap: Type invariant: ring positions and statuses stay in range.
\* TimestampMap: The window of the buffer stays strictly ordered by signed difference whatever
\* timestamps arrive, after steps of the clock and across the wrap of the timestamps: any later
\* entry is after any earlier one.
\* TimestampMap: The cached index is never stale: it names the entry of the cached timestamp
\* although entries are trimmed, moved up, overwritten and dropped.
\* TimestampMap: The search finds a timestamp exactly when the window holds it, and otherwise
\* returns the place that keeps the order.
TablesExact ==
    /\ (part = "table" => Nsr!NsrTypeOK)
    /\ (part = "table" => Nsr!NsrFindExact)
    /\ (part = "table" => Nsr!NsrSizeExact)
    /\ (part = "table" => Nsr!NsrConfirmedExact)
    /\ (part = "keys" => Keys!KeyLookupExact)
    /\ (part = "keys" => Keys!KeyAuthStable)
    /\ (part = "stamps" => Stamps!MapTypeOK)
    /\ (part = "stamps" => Stamps!MapOrdered)
    /\ (part = "stamps" => Stamps!MapCacheValid)
    /\ (part = "stamps" => Stamps!MapFindExact)
\* NtpSources: The open-addressing table implements a finite map from addresses to ports.
\* TimestampMap: The circular buffer implements the store: a lookup through it never yields the
\* entry of another packet, and a timestamp just saved is found.
TablesImplement ==
    /\ Nsr!NsrImplementsMap
    /\ Stamps!MapImplementsStore
\* SourceStats: The median of any array, computed by two quickselects of which the second reuses
\* the positions the first one pinned, is the middle of the sorted values (regress.rs
\* select_ordered, median_in_place).
\* SourceStats: The window keeps the samples the source is configured to keep, its runs test never
\* reaches behind the older samples there are, nor beyond the table of critical values (regress.rs
\* find_best_regression).
\* Refclock: A filter's promise, over a window f whose honest samples have offsets in 0..Spread and
\* which contains at most one spike when it has three samples or more (samplefilt.rs
\* select_samples): the combined offset is honest.
\* Falsetickers: The sweep finds the greatest number of trusted sources that share a place and,
\* among such places, the greatest number of sources: the depth counters of select_source against
\* the definition by counting.
\* Falsetickers: Once there is a majority, some source is admissible, and every admissible source
\* that counts (any, or a trusted one when there are trusted ones) shares a place with more than
\* half of those that count, even if two places of the best depth lie apart and best_lo belongs to
\* one, best_hi to the other.
\* Falsetickers: Without trusted sources the two selectors of the repository agree: on whether
\* there is a majority, and, if so, on at least one good source.
EstimatorsExact ==
    /\ (input.kind = "median" => Reg!MedianRight(input.x, input.n))
    /\ (input.kind = "window" => Reg!WindowRight(input.p, input.n, input.m, input.k))
    /\ (input.kind = "spike" => Rck!SpikeRejected([buf |-> input.buf], 2))
    /\ (input.kind = "select" => Fls!DeepestFound(input.cand, Grid))
    /\ (input.kind = "select" => Fls!AdmissibleAgree(input.cand))
    /\ (input.kind = "select" => Fls!SelectorsAgree(input.cand))
\* Packets: Writer and parser agree: whatever extension fields a packet was given, as long as none
\* is an unknown critical one and the last of a packet without MAC is longer than a MAC may be,
\* parse_packet finds exactly those fields, the MAC where it was put, and the authenticator length
\* check_key_auth expects of the key it was made with.
\* Packets: The two ends of an association agree on modes and timestamps: a request in client or
\* active mode is answered in a mode that the requester processes as a response, the answer echoes
\* the request's transmit time, and the flag bits keep the receive and the transmit time of one
\* response apart.
\* Packets: Whatever a client asks, an answer that the client accepts names an algorithm that the
\* request offered and both sides support (process_request, prepare_response, process_response),
\* and the daemon's answers do too.
\* Packets: A message arrives in pieces: no beginning of a request is refused while more may come
\* or taken for the whole (check_message_format), and the daemon, which reads once, drops a
\* beginning without an answer (handle_client).
\* Packets: The library's own client and server come to an agreement whenever they have an
\* algorithm in common, on the client's first choice, with the first eight of the cookies that are
\* of a usable length.
\* Packets: A cookie is one the client takes, and after the keys were dumped and loaded
\* (format_keydump, parse_keydump) it still gives the algorithm it was made for, while the same key
\* as before is the current one.
\* Packets: The receiver of an authenticator field accepts every field generate_auth_ef lays out,
\* of whatever nonce, text and requested minimum, and finds the text in it (decrypt_auth_ef); the
\* field has whole words and the minimum length, and nonce and ciphertext fit in it without
\* overlap.
\* NtpSample: The bound NTP stands on: whatever the network delays there (d1) and back (d2) and the
\* server's processing, the measured offset of compute_response_sample is within half of the
\* measured delay of the true one (theta).
\* NtpSample: The bound survives the network corrections, as long as no clock on the path reports
\* more than its share of the delay: apply_net_correction may narrow delay, and never below the
\* error it leaves.
\* NtpSample: The bound in interleaved mode, where the two halves of a measurement come from
\* different exchanges: each transmit time is paired with the receive time of the same packet, so
\* the error is again covered by the delay, and the delay is that of a real round trip (d0 or d1
\* there, d2 back).
\* HwClock: Of a hardware clock that shows the local time, read somewhere between the two local
\* times of each reading, process_readings makes a sample whose error bounds the distance of its
\* two times, whichever readings are combined.
\* NtpSample: get_transmit_delay, asked after a request or again when a response came in, never
\* makes requests come faster than the interval in use (in a burst a quarter of it, at most two
\* seconds), and never more than a tenth later.
\* NtpSample: The delay tests are thresholds: a sample that is accepted would be with any shorter
\* delay too, and the shortest delay seen always is.
ExchangeExact ==
    /\ (input.kind = "packet" => Pkt!PacketParsesBack(input.v, "client", input.f, input.h))
    /\ (input.kind = "exchange" => Pkt!PacketExchange(input.m, input.t, input.r, input.s))
    /\ (input.kind = "request" => Pkt!KeAgreed(input.r, input.c, input.s))
    /\ (input.kind = "frame" => Pkt!KeFraming(input.r, input.n))
    /\ (input.kind = "negotiate"
        => Pkt!KeSucceeds(input.c, input.s, input.port, input.name, input.k))
    /\ (input.kind = "ring" => Pkt!KeCookiesSurvive(input.keys, input.cur, input.k, input.alg))
    /\ (input.kind = "field" => Pkt!KeFieldOpens(input.siv, input.nonce, input.text, input.min))
    /\ (input.kind = "sample" => SampleErrorBounded(input.t, input.th, input.d1, input.p, input.d2))
    /\ (input.kind = "sample"
        => SampleCorrectedBounded(input.t, input.th, input.d1, input.p, input.d2, input.rx, input.du, input.tx))
    /\ (input.kind = "sample"
        => SampleInterleavedBounded(input.rx, input.t, input.tx + 1, input.th, input.p, input.d1, input.d2))
    /\ (input.kind = "readings"
        => Hw!HwReadingBounded(input.rs, input.q1, input.q2, input.precision, input.predicted))
    /\ (input.kind = "timing" => TransmitPaced(input.s))
    /\ (input.kind = "delay"
        => DelayTestsMonotone(input.ratio, input.offset, input.delay, input.shorter, input.d))
\* Configuration: A line changes its own setting and no other (parse_scalar_*_typed and
\* ConfigValues::apply): lines of different settings may be swapped, and a setting given twice has
\* the value of the later line.
\* Configuration: A rate limit given in two lines is the one given in one line with the options of
\* both (apply keeps the options a later line does not name).
\* Configuration: A scan of an option's value uses up the number and no more, so that what is glued
\* to it is the next option (chrony's line += n): the line means the same with a space in between.
\* Configuration: The two readers of a tree of includes, written independently, load the same
\* directives, each as often (read_file_at and expand_config, whose order differs): none is lost or
\* read twice where neither depth limit is met.
\* Configuration: Whatever order the directories are listed in, search_dirs takes every basename
\* once, from the earliest directory that has it.
\* Configuration: simple_glob_match, which takes every middle part at its first occurrence and
\* never goes back, still finds every name a pattern of * matches.
\* Configuration: Options may be spelled together or apart: taking the first letter off a cluster,
\* or an argument off its option, never changes what parse_options gives, whatever follows (a
\* cluster that ends in "-" would become "--").
\* Configuration: However options are combined and repeated, a daemon that runs in one of the
\* one-shot modes stays in the foreground and off the system log, one that only prints the offset
\* is a client and never controls the clock, and -x is final.
\* WireData: Timespec arithmetic is exact and stays normalised across the borrow of a second:
\* adding a difference takes one time to the other, the average lies between, and the order is that
\* of the difference (diff_timespecs, add_diff_to_timespec, average_diff_timespecs,
\* compare_timespecs).
\* WireData: A time that is_time_offset_sane accepts comes back from its NTP timestamp in the right
\* era, less than one unit early, whatever the era split; the two exceptions are an instant whose
\* timestamp is all zero and the far end of the window.
\* WireData: Of two times less than half an era apart, compare_ntp64 finds the earlier one though
\* an era ends between them.
\* WireData: The fuzz only touches the bits below the clock's precision (get_ntp64_fuzz).
\* WireData: A number read from a reply is encoded to the same number again (float_network_to_host,
\* float_host_to_network), at both ends of the exponent and for the most negative coefficient.
\* WireData: Two addresses compare equal under the mask of a prefix exactly when their leading bits
\* agree (bits_to_mask, compare_ips).
\* WireData: A control buffer that the kernel cut short gives what its whole messages say, each
\* field from the last message that sets it, and never a part of a message (parse_control_data).
\* WireData: What build_pktinfo_control makes never overruns its buffer, and names the same
\* interface when parse_control_data reads it back, and for IPv6 the same source address (for IPv4
\* the two use different fields of the structure).
\* WireData: However short or deep the frame, the payload that extract_udp_data finds lies inside
\* it, behind a whole UDP header and behind every header of the chain, and runs to its end (a frame
\* that is long enough is not refused).
\* WireData: Kernel and hardware timestamps, in either order, never carry the time of a packet
\* further than the limit from the daemon's own reading each, and the trailer of a frame is the
\* same whether the kernel gave its length or it is derived from the interface
\* (process_sw_timestamp, process_hw_timestamp).
\* Refclock: A valid SHM sample gives normalised times that are those of its nanosecond fields when
\* these agree with the microseconds, and within a microsecond of the latter always
\* (refclock_shm.rs poll).
\* Refclock: A SOCK sample keeps the system time it was sent, normalised, and its reference time
\* differs by exactly the offset (refclock_sock.rs read_sample).
\* CmdMon: Encoders and decoders mirror each other: the fields of an encoder are disjoint and
\* inside its array, the decoder stays inside it and reads back what was written.
\* KernelClock: The split of a frequency into ticks and a fine part adds up to it, and the fine
\* part is one the kernel accepts (500 ppm), from any tick before it.
\* KernelClock: A guessed HZ fits the tick: guess_hz finds the one of every nominal tick, and for a
\* tick that was adjusted an HZ whose nominal tick is at most a third off, rounded; the ranges of
\* two HZ never overlap, so that no guess is ambiguous.
\* KernelClock: The compensation passes through every point, and past the ends it goes on along the
\* nearest segment.
\* PrivOps: A daemon that gave its privileges away gets from the helper what it would have got from
\* the system call: the same return code and the values the call wrote (of addresses as many as it
\* wants and a response holds), and the call is made once, in one of the two processes (PrivClient,
\* dispatch).
\* PrivOps: Whatever request reaches it, the helper binds a socket only to a port the configuration
\* allows, and closes the copy it was sent exactly once.
TranslationsExact ==
    /\ (input.kind = "two" => Conf!ConfOwnSetting(input.a, input.b))
    /\ (input.kind = "rate" => Conf!ConfRatesMerge(input.kw, input.a, input.b))
    /\ (input.kind = "option" => Conf!ConfRespaced(input.kw, OptionHead(input.kw), input.words))
    /\ (input.kind = "tree" => Conf!LoadSameDirectives(input.t, 1))
    /\ (input.kind = "search" => Conf!SearchEarliest(input.d))
    /\ (input.kind = "glob" => Conf!GlobComplete(input.p, input.n))
    /\ (input.kind = "respell" => Conf!CmdlineRespelled(input.w, input.rest))
    /\ (input.kind = "options" => Conf!CmdlineModes(input.args))
    /\ (input.kind = "times" => Wire!TimesAddBack(input.a, input.b))
    /\ (input.kind = "wire" => Wire!TimeSurvivesWire(input.ts, input.off, input.ns, input.split))
    /\ (input.kind = "order" => Wire!OrderSurvivesWire(input.a, input.b, 4))
    /\ (input.kind = "fuzz" => Wire!FuzzBelowPrecision(input.p, input.r, 4, 2))
    /\ (input.kind = "float" => Wire!FloatStable(input.w))
    /\ (input.kind = "mask" => Wire!MaskIsPrefix(input.n, input.a, input.b, 3))
    /\ (input.kind = "control" => Wire!ControlWhole(input.ms, input.end))
    /\ (input.kind = "pktinfo" => Wire!PktinfoReadBack(input.l, input.i, input.cap))
    /\ (input.kind = "capture" => Wire!FrameInside(input.f))
    /\ (input.kind = "stamp" => Wire!TimestampNear(input.l, input.sw, input.p, input.off, 3))
    /\ (input.kind = "shm" => Rck!ShmTimesRight(input.t, input.count))
    /\ (input.kind = "sock" => Rck!SockTimesRight(input.d, input.sane))
    /\ (input.kind = "layout" => Cmd!WireMirror(input.m))
    /\ (input.kind = "split" => Kc!KcSplitExact(input.f * input.hz, input.hz, input.c))
    /\ (input.kind = "tick" => Kc!KcGuessFits(input.t))
    /\ (input.kind = "temp" => Kc!TempcompThrough(input.p, input.b))
    /\ (input.kind = "privileged" => Priv!PrivTransparent(Asked, Given, input.max))
    /\ (input.kind = "privileged" => Priv!PrivBindGuarded(Asked, Given))
\* "Simple wildcard pattern matching": a name is included only if the pattern, with * for any
\* sequence, describes all of it (simple_glob_match).
IncludedMatches == input.kind = "glob" /\ input.p # <<>> => Conf!GlobSound(input.p, input.n)
==============================================================================
