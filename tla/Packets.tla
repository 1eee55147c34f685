------------------------------ MODULE Packets ------------------------------
(***************************************************************************)
(* NTP packets: the extension fields and the MAC behind the 48-byte header *)
(* (ntp/ext.rs, ntp/exp_ef.rs, ntp_auth.rs), what parse_packet finds in    *)
(* them (ntp/parse.rs), the dispatch on modes (ntp/rx_dispatch.rs,         *)
(* ntp/tx_dispatch.rs) and the timestamps a request, a response and a      *)
(* symmetric packet carry (ntp/transmit.rs).                               *)
(*                                                                         *)
(* A packet is its version, leap, mode, the fields [type, len] in order    *)
(* and the length of the MAC (0: none).  Every read of the parser is at    *)
(* the start of a field or of the MAC, so the bytes inside are left out.   *)
(***************************************************************************)
EXTENDS Integers, Sequences, SequencesExt, FiniteSets

HeaderLength == 48
MinEfLength == 16
MinMacLength == 20
MaxV4MacLength == 24
MaxMacLength == 68
PacketSize == HeaderLength + 1024 + MaxMacLength
NullPacket == [version |-> 0, none |-> TRUE]         \* Option::None

NtsTypes == {260, 516, 772, 1028}       \* 0x0104, 0x0204, 0x0304, 0x0404
MonoRoot == 57345                       \* 0xE001
NetCorrection == 57346                  \* 0xE002
Critical(t) == t >= 32768               \* EF_CRITICAL_BIT

FieldsLength(fs) == FoldLeft(LAMBDA sum, f : sum + f.len, HeaderLength, fs)
LengthOf(p) == FieldsLength(p.fields) + p.mac

----------------------------------------------------------------------------
(* Writing *)

\* format_field at offset start of a buffer of size bytes: the length, 0 for None.
FormatField(size, start, body) ==
    IF size <= start \/ size - start < 4 \/ start % 4 # 0
       \/ 4 + body > 65535 \/ start + 4 + body > size \/ body % 4 # 0
    THEN 0 ELSE 4 + body

\* The field of len bytes at the end of a packet of length bytes, if it may be there.
WithField(p, type, length, len, min) ==
    IF length \notin HeaderLength..(PacketSize - 1) \/ length % 4 # 0 \/ p.version # 4 \/ len < min
    THEN p ELSE [p EXCEPT !.fields = Append(@, [type |-> type, len |-> len])]

\* Mutants: add_blank_field without the minimum length.
AddFieldShort(p, type, body) ==
    WithField(p, type, LengthOf(p), FormatField(PacketSize, LengthOf(p), body), 1)

\* add_blank_field, add_field: the packet is left alone where it returns None.
AddField(p, type, body) ==
    WithField(p, type, LengthOf(p), FormatField(PacketSize, LengthOf(p), body), MinEfLength)

\* add_ef_mono_root and add_ef_net_correction: 24 bytes of body.
AddEfMonoRoot(p) == AddField(p, MonoRoot, 24)
AddEfNetCorrection(p, ptp_port) == IF ptp_port = 0 THEN p ELSE AddField(p, NetCorrection, 24)

\* generate_symmetric_auth: hash_len is what the key's hash gives.
SymmetricAuth(p, hash_len) ==
    LET room == PacketSize - LengthOf(p) - 4
        max == (IF p.version = 4 THEN MaxV4MacLength ELSE MaxMacLength) - 4
        cut == IF max < room THEN max ELSE room
        auth == IF hash_len < cut THEN hash_len ELSE cut
    IN IF LengthOf(p) + MinMacLength > PacketSize \/ auth < MinMacLength - 4
       THEN p ELSE [p EXCEPT !.mac = 4 + auth]

\* check_symmetric_auth: the length of the authenticator check_key_auth expects
\* for a key whose hash gives hash_len.
ExpectedAuth(info, hash_len) ==
    LET trunc == (IF info.version = 4 /\ info.mac_length <= MaxV4MacLength
                  THEN MaxV4MacLength ELSE MaxMacLength) - 4
    IN IF hash_len < trunc THEN hash_len ELSE trunc

----------------------------------------------------------------------------
(* Reading *)

\* parse_single_field: the field that starts at start, where one fits.
SingleField(p, length, start) ==
    LET at == {k \in DOMAIN p.fields : FieldsLength(SubSeq(p.fields, 1, k - 1)) = start}
    IN IF length <= start \/ length - start < 4 \/ at = {} THEN [len |-> 0]
       ELSE LET f == p.fields[CHOOSE k \in at : TRUE]
            IN IF f.len < 4 \/ start + f.len > length \/ f.len % 4 # 0 THEN [len |-> 0] ELSE f

\* parse_field: nothing as short as a MAC is a field.
ParseField(p, length, start) ==
    IF length <= HeaderLength \/ length > PacketSize \/ length <= start \/ length % 4 # 0
       \/ start < HeaderLength \/ start % 4 # 0 \/ p.version # 4
       \/ length - start <= MaxV4MacLength
    THEN [len |-> 0]
    ELSE LET f == SingleField(p, length, start)
         IN IF f.len < MinEfLength THEN [len |-> 0] ELSE f

\* ef_dispatch: an unknown field with the critical bit rejects the packet.
EfDispatch(type) ==
    IF type \in 1..4 \cup {MonoRoot, NetCorrection} THEN "Handled"
    ELSE IF Critical(type) THEN "UnknownCritical" ELSE "Skip"

Info(p, length, n, auth, start, mac) ==
    [version |-> p.version, mode |-> p.mode, length |-> length, ext_fields |-> n,
     auth |-> auth, mac_start |-> start, mac_length |-> mac, none |-> FALSE]

RECURSIVE ParseRest(_, _, _, _, _)

\* The loop of parse_packet over the fields of a version 4 packet: n of them were
\* read, f is the one at start, where one fits.
ParseRest(p, length, n, start, f) ==
    CASE start = length ->
            Info(p, length, n, IF \E k \in 1..n : p.fields[k].type \in NtsTypes THEN "nts" ELSE "none", 0, 0)
      [] length - start \in MinMacLength..MaxV4MacLength -> Info(p, length, n, "symmetric", start, length - start)
      [] OTHER ->
            IF f.len = 0 \/ (f.type \notin NtsTypes /\ EfDispatch(f.type) = "UnknownCritical") THEN NullPacket
            ELSE ParseRest(p, length, n + 1, start + f.len, ParseField(p, length, start + f.len))

\* parse_packet.  The MS-SNTP forms of version 3 and the crypto NAK are left out:
\* their MACs hold zeros where these hold an authenticator.
ParseLength(p, length) ==
    CASE length < HeaderLength \/ length % 4 # 0 \/ p.leap = 3 \/ p.version \notin 1..4 -> NullPacket
      [] length = HeaderLength -> Info(p, length, 0, "none", 0, 0)
      [] p.version <= 3 -> Info(p, length, 0, "symmetric", HeaderLength, length - HeaderLength)
      [] OTHER -> ParseRest(p, length, 0, HeaderLength, ParseField(p, length, HeaderLength))
ParsePacket(p) == ParseLength(p, LengthOf(p))

\* ef_process_all: it reads fields as long as there are any.
EfProcessAll(p) == \A k \in DOMAIN p.fields : EfDispatch(p.fields[k].type) # "UnknownCritical"

----------------------------------------------------------------------------
(* Modes *)

\* classify_rx_known.
ClassifyKnown(mode, our) ==
    CASE mode \in {"active", "passive"} /\ our = "active" -> "ProcessResponse"
      [] mode = "active" /\ our = "client" -> "ProcessSymmetricPassive"
      [] mode = "client" -> "ProcessAsUnknown"
      [] mode = "server" /\ our = "client" -> "ProcessResponse"
      [] mode = "broadcast" /\ our = "client" -> "ProcessBroadcast"
      [] OTHER -> "Discard"

\* classify_rx_unknown, server_response_mode: the mode to answer in.
ClassifyUnknown(mode, version, port) ==
    CASE mode = "active" -> "passive"
      [] mode = "client" -> "server"
      [] mode = "undefined" /\ version = 1 /\ port # 123 -> "server"
      [] OTHER -> "none"

\* tx_known_is_response, tx_unknown_should_process: whose transmit timestamp it is.
TxIsRequest(mode) == mode \in {"client", "active"}

\* The timestamps of a packet; the lowest bit is the flag of an interleaved server.
ClientRequest(tx) == [origin |-> 0, rx |-> 0, tx |-> tx, mode |-> "client"]
ServerResponse(req, rx, tx) ==
    [origin |-> req.tx, rx |-> rx - (rx % 2) + 1, tx |-> tx - (tx % 2), mode |-> "server"]
SymmetricPacket(mode, remote_tx, rx, tx) ==
    IF mode = "passive"
    THEN [origin |-> remote_tx, rx |-> rx - (rx % 2) + 1, tx |-> tx - (tx % 2), mode |-> mode]
    ELSE [origin |-> remote_tx, rx |-> rx, tx |-> tx, mode |-> mode]

----------------------------------------------------------------------------
(* Properties, of every packet the writer can put together *)

\* The writer of a field: the experimental ones have writers of their own.
AddExtension(p, f) ==
    CASE f.type = MonoRoot -> AddEfMonoRoot(p)
      [] f.type = NetCorrection -> AddEfNetCorrection(p, 319)
      [] OTHER -> AddField(p, f.type, f.len - 4)

\* The packet that add_field and generate_symmetric_auth make of these fields.
Built(version, mode, fields, hash_len) ==
    LET p == FoldLeft(AddExtension,
                      [version |-> version, leap |-> 0, mode |-> mode, fields |-> <<>>, mac |-> 0], fields)
    IN IF hash_len = 0 THEN p ELSE SymmetricAuth(p, hash_len)

\* What parse_packet finds is what the packet was given.
ParsesBack(p, info, hash_len) ==
    LET n == Len(p.fields)
    IN EfProcessAll(p) /\ (p.mac = 0 /\ n > 0 => p.fields[n].len > MaxV4MacLength)
       => /\ ~info.none
          /\ info.ext_fields = n /\ info.mac_length = p.mac
          /\ (p.mac > 0) <=> (info.auth = "symmetric")
          /\ p.mac > 0 => info.mac_start = LengthOf(p) - p.mac /\ ExpectedAuth(info, hash_len) = p.mac - 4

\* Writer and parser agree: whatever extension fields a packet was given, as
\* long as none is an unknown critical one and the last of a packet without MAC
\* is longer than a MAC may be, parse_packet finds exactly those fields, the MAC
\* where it was put, and the authenticator length check_key_auth expects of the
\* key it was made with.
PacketParsesBack(version, mode, fields, hash_len) ==
    LET p == Built(version, mode, fields, hash_len) IN ParsesBack(p, ParsePacket(p), hash_len)

\* The two ends of an association agree on modes and timestamps: a request in
\* client or active mode is answered in a mode that the requester processes as a
\* response, the answer echoes the request's transmit time, and the flag bits
\* keep the receive and the transmit time of one response apart.
PacketExchange(mode, tx, rx, reply) ==
    LET answer == ClassifyUnknown(mode, 4, 123)
        req == [ClientRequest(tx) EXCEPT !.mode = mode]
        resp == IF answer = "server" THEN ServerResponse(req, rx, reply)
                ELSE SymmetricPacket(answer, req.tx, rx, reply)
    IN mode \in {"client", "active"}
       => /\ ClassifyKnown(answer, mode) = "ProcessResponse"
          /\ TxIsRequest(mode) /\ ~TxIsRequest(answer)
          /\ resp.origin = req.tx /\ resp.rx # resp.tx

-----------------------------------------------------------------------------
(***************************************************************************)
(* NTS key establishment and what hangs on it, as pure operators: the      *)
(* records of a message and their framing, the request and the response of *)
(* a negotiation (nts_ke_record.rs), the daemon's server (nts_ke_server.rs *)
(* of chronyd-rs), cookies and the dump of their keys (nts_ke_cookie.rs,   *)
(* nts_ke_keydump.rs), and the lengths of the authenticator field          *)
(* (nts_ntp_auth.rs).                                                      *)
(*                                                                         *)
(* A record is [c, t, len, vals]: critical, type, body length, and what    *)
(* the body says: its 16-bit values, the number of a cookie, or whether a  *)
(* name is printable.  Ciphers are abstracted to the lengths they add.     *)
(***************************************************************************)
EndOfMessage == 0
NextProtocol == 1
Error == 2
Warning == 3
AeadAlgorithm == 4
Cookie == 5
ServerNegotiation == 6
PortNegotiation == 7

Cmac256 == 15              \* AEAD_AES_SIV_CMAC_256
GcmSiv == 30               \* AEAD_AES_128_GCM_SIV
Ntpv4 == 0
UnrecognizedCritical == 0
BadRequest == 1

MaxMessageLength == 16384
MaxRecordBody == 256
MaxCookieLength == 256
MaxCookies == 8
HeaderLen == 4

MinOf(a, b) == IF a < b THEN a ELSE b
MaxOf(a, b) == IF a > b THEN a ELSE b

----------------------------------------------------------------------------
(* Records and framing *)

Rec(c, t, len, vals) == [c |-> c, t |-> t, len |-> len, vals |-> vals]
Values(c, t, vals) == Rec(c, t, 2 * Len(vals), vals)
End == Rec(TRUE, EndOfMessage, 0, <<>>)

LengthTo(recs, k) ==
    LET sum[i \in 0..k] == IF i = 0 THEN 0 ELSE sum[i - 1] + HeaderLen + recs[i].len IN sum[k]

MessageLength(recs) == LengthTo(recs, Len(recs))

\* add_record for each in turn: the message, or <<>> when one does not fit.
KeBuilt(recs) == IF MessageLength(recs) <= MaxMessageLength THEN recs ELSE <<>>

\* get_record until it fails, on the first n bytes: how many records are whole.
Gotten(recs, n) == Cardinality({k \in 1..Len(recs) : LengthTo(recs, k) <= n})

\* check_message_format on the first n bytes.
CheckMessageFormat(recs, n, eof) ==
    LET k == Gotten(recs, n)
        ends == {i \in 1..k : recs[i].t = EndOfMessage}
        bad == \E i \in ends : ~recs[i].c \/ recs[i].len # 0 \/ \E j \in ends : j < i
        whole == n > 0 /\ LengthTo(recs, k) >= n /\ recs[k].t = EndOfMessage
    IN [ok |-> ~bad /\ (whole \/ ~eof), complete |-> ~bad /\ whole]

\* next_record: the records before the End of Message.
Visible(recs) ==
    LET ends == {i \in DOMAIN recs : recs[i].t = EndOfMessage}
    IN IF ends = {} THEN recs ELSE SubSeq(recs, 1, (CHOOSE i \in ends : \A j \in ends : i <= j) - 1)

----------------------------------------------------------------------------
(* The client's request *)

Supported(sup, order) == SelectSeq(order, LAMBDA a : a \in sup)

PrepareRequest(sup) ==
    KeBuilt(<<Values(TRUE, NextProtocol, <<Ntpv4>>),
            Values(TRUE, AeadAlgorithm, Supported(sup, <<GcmSiv, Cmac256>>)), End>>)

----------------------------------------------------------------------------
(* The server's side *)

Parsed(r) == SubSeq(r.vals, 1, MinOf(r.len, MaxRecordBody) \div 2)
Malformed(r) == r.len < 2 \/ r.len % 2 # 0

RequestStart == [error |-> -1, proto |-> -1, aead |-> -1, protos |-> 0, aeads |-> 0]

FirstSupported(old, vals, sup) ==
    LET s == SelectSeq(vals, LAMBDA a : a \in sup) IN IF old >= 0 \/ s = <<>> THEN old ELSE s[1]

\* One turn of the loop of process_request.
RequestRecord(s, r, sup) ==
    IF r.t = NextProtocol
    THEN IF ~r.c \/ Malformed(r) THEN [s EXCEPT !.error = BadRequest]
         ELSE [s EXCEPT !.protos = @ + 1,
                        !.proto = IF \E i \in DOMAIN Parsed(r) : r.vals[i] = Ntpv4 THEN Ntpv4 ELSE @]
    ELSE IF r.t = AeadAlgorithm
    THEN IF Malformed(r) THEN [s EXCEPT !.error = BadRequest]
         ELSE [s EXCEPT !.aeads = @ + 1, !.aead = FirstSupported(@, Parsed(r), sup)]
    ELSE IF r.t \in {Error, Warning, Cookie} THEN [s EXCEPT !.error = BadRequest]
    ELSE IF r.c THEN [s EXCEPT !.error = UnrecognizedCritical] ELSE s

ProcessRequest(recs, sup) ==
    LET v == Visible(recs)
        s[i \in 0..Len(v)] == IF i = 0 THEN RequestStart
                              ELSE IF s[i - 1].error >= 0 THEN s[i - 1] ELSE RequestRecord(s[i - 1], v[i], sup)
        f == s[Len(v)]
    IN IF f.error < 0 /\ (f.protos # 1 \/ (f.proto = Ntpv4 /\ f.aeads # 1))
       THEN [f EXCEPT !.error = BadRequest] ELSE f

\* port and name are <<>> or hold one record body; cookies are body lengths.
PrepareResponse(error, proto, aead, port, name, cookies) ==
    KeBuilt((IF error >= 0 THEN <<Values(TRUE, Error, <<error>>)>>
           ELSE IF proto < 0 THEN <<Values(TRUE, NextProtocol, <<>>)>>
           ELSE IF aead < 0
           THEN <<Values(TRUE, NextProtocol, <<proto>>), Values(TRUE, AeadAlgorithm, <<>>)>>
           ELSE <<Values(TRUE, NextProtocol, <<proto>>), Values(TRUE, AeadAlgorithm, <<aead>>)>>
                \o [i \in DOMAIN port |-> Values(TRUE, PortNegotiation, <<port[i]>>)]
                \o [i \in DOMAIN name |-> Rec(TRUE, ServerNegotiation, name[i], <<1>>)]
                \o [i \in DOMAIN cookies |-> Rec(FALSE, Cookie, cookies[i], <<i>>)])
          \o <<End>>)

\* handle_client: one read gives the first n bytes; cookies of AES-SIV-CMAC-256 only.
\* <<>> when the connection is dropped without an answer.
HandleClient(recs, n, cookies) ==
    LET r == ProcessRequest(SubSeq(recs, 1, Gotten(recs, n)), {Cmac256})
    IN IF n = 0 \/ ~CheckMessageFormat(recs, n, TRUE).ok THEN <<>>
       ELSE IF r.error >= 0 THEN PrepareResponse(r.error, -1, -1, <<>>, <<>>, <<>>)
       ELSE PrepareResponse(-1, Ntpv4, r.aead, <<>>, <<>>, cookies)

----------------------------------------------------------------------------
(* The client's reading of the response *)

ResponseStart == [error |-> FALSE, proto |-> -1, aead |-> -1, cookies |-> <<>>, name |-> 0, port |-> 0]
Failed(s) == [s EXCEPT !.error = TRUE]

CookieTaken(s, r) == r.len \in 1..MaxCookieLength /\ r.len % 4 = 0 /\ Len(s.cookies) < MaxCookies

\* One turn of the loop of process_response.
ResponseRecord(s, r, sup) ==
    IF r.len > MaxRecordBody THEN IF r.c THEN Failed(s) ELSE s
    ELSE IF r.t = NextProtocol
    THEN IF ~r.c \/ r.len # 2 \/ r.vals # <<Ntpv4>> THEN Failed(s) ELSE [s EXCEPT !.proto = Ntpv4]
    ELSE IF r.t = AeadAlgorithm
    THEN IF r.len # 2 \/ ~(\E a \in sup : r.vals = <<a>>) THEN Failed(s) ELSE [s EXCEPT !.aead = r.vals[1]]
    ELSE IF r.t \in {Error, Warning} THEN Failed(s)
    ELSE IF r.t = Cookie THEN IF CookieTaken(s, r) THEN [s EXCEPT !.cookies = Append(@, r.vals[1])] ELSE s
    ELSE IF r.t = ServerNegotiation
    THEN IF r.len < 1 \/ r.vals # <<1>> THEN Failed(s) ELSE [s EXCEPT !.name = r.len]
    ELSE IF r.t = PortNegotiation THEN IF r.len # 2 THEN Failed(s) ELSE [s EXCEPT !.port = r.vals[1]]
    ELSE IF r.c THEN Failed(s) ELSE s

ProcessResponse(recs, sup) ==
    LET v == Visible(recs)
        s[i \in 0..Len(v)] == IF i = 0 THEN ResponseStart
                              ELSE IF s[i - 1].error THEN s[i - 1] ELSE ResponseRecord(s[i - 1], v[i], sup)
        f == s[Len(v)]
    IN [ok |-> ~f.error /\ f.cookies # <<>> /\ f.proto = Ntpv4 /\ f.aead >= 0,
        aead |-> f.aead, cookies |-> f.cookies, name |-> f.name, port |-> f.port]

----------------------------------------------------------------------------
(* Cookies and server keys *)

KeyLength(alg) == IF alg = Cmac256 THEN 32 ELSE 16
NonceLength(alg) == IF alg = Cmac256 THEN 16 ELSE 12
TagLength == 16
MaxServerKeys == 4
FutureKeys == 1

\* generate_cookie: the length, 0 when it fails; key is the server key's algorithm.
GenerateCookie(key, alg) ==
    LET total == HeaderLen + NonceLength(key) + 2 * KeyLength(alg) + TagLength
    IN IF total > MaxCookieLength THEN 0 ELSE total

\* decode_cookie: the algorithm of the context, 0 when it fails.
DecodeCookie(id, length, keys) ==
    LET key == keys[id % MaxServerKeys]
        text == length - HeaderLen - NonceLength(key.alg) - TagLength
    IN IF key.id # id \/ text <= 0 \/ text > 2 * 32 \/ text % 2 # 0 THEN 0
       ELSE IF text = 32 THEN GcmSiv ELSE IF text = 64 THEN Cmac256 ELSE 0

\* format_keydump: in the order of rotation, the newest key last.
FormatKeydump(current, keys) ==
    [i \in 1..MaxServerKeys |-> keys[(current + i + FutureKeys) % MaxServerKeys]]

NoKeys == [ok |-> FALSE, current |-> 0, keys |-> <<>>]

\* parse_keydump.
ParseKeydump(lines) ==
    IF Len(lines) < MaxServerKeys THEN NoKeys
    ELSE IF \E i \in 2..MaxServerKeys : (lines[i].id - lines[i - 1].id) % MaxServerKeys # 1 THEN NoKeys
    ELSE [ok |-> TRUE,
          current |-> ((lines[MaxServerKeys].id % MaxServerKeys) + MaxServerKeys - FutureKeys) % MaxServerKeys,
          keys |-> [x \in 0..(MaxServerKeys - 1) |->
                       lines[CHOOSE i \in 1..MaxServerKeys : lines[i].id % MaxServerKeys = x]]]

----------------------------------------------------------------------------
(* The authenticator field *)

MinUnpaddedNonce == 16
AuthHeaderLen == 4

\* get_padded_length.
Padded(n) == n + (IF n % 4 # 0 THEN 4 - (n % 4) ELSE 0)

\* generate_auth_ef: [nonce, cipher, body], the body length of the field.
GenerateAuthEf(siv, max_nonce, text, min_ef) ==
    LET nonce == MinOf(max_nonce, NonceLength(siv))
        cipher == TagLength + text
        base == AuthHeaderLen + Padded(nonce) + Padded(cipher)
        more == MaxOf(MinOf(MinUnpaddedNonce, NonceLength(siv)) - Padded(nonce),
                      MaxOf(Padded(min_ef) - base - 4, 0))
    IN [nonce |-> nonce, cipher |-> cipher, body |-> base + more]

\* decrypt_auth_ef: the length of the text, -1 when it fails.
DecryptAuthEf(siv, f, buffer) ==
    IF \/ f.body < AuthHeaderLen
       \/ Padded(f.nonce) + Padded(f.cipher) > f.body
       \/ f.nonce < 1
       \/ f.cipher < TagLength
       \/ f.cipher - TagLength > buffer
       \/ AuthHeaderLen + MinOf(MinUnpaddedNonce, NonceLength(siv)) + Padded(f.cipher) > f.body
    THEN -1 ELSE f.cipher - TagLength

----------------------------------------------------------------------------
(* Properties *)

\* A message arrives in pieces: no beginning of a request is refused while more
\* may come or taken for the whole (check_message_format), and the daemon,
\* which reads once, drops a beginning without an answer (handle_client).
KeFraming(recs, n) ==
    LET f == CheckMessageFormat(recs, n, FALSE)
    IN /\ f.ok
       /\ f.complete <=> n = MessageLength(recs)
       /\ n < MessageLength(recs) => HandleClient(recs, n, <<100>>) = <<>>

\* Whatever a client asks, an answer that the client accepts names an algorithm
\* that the request offered and both sides support (process_request,
\* prepare_response, process_response), and the daemon's answers do too.
KeAgreed(recs, csup, ssup) ==
    LET q == ProcessRequest(recs, ssup)
        offered(a) == \E i \in DOMAIN recs : recs[i].t = AeadAlgorithm /\ \E j \in DOMAIN recs[i].vals : recs[i].vals[j] = a
        r == ProcessResponse(PrepareResponse(q.error, q.proto, q.aead, <<>>, <<>>, <<100>>), csup)
        d == ProcessResponse(HandleClient(recs, MessageLength(recs), <<100>>), csup)
    IN /\ r.ok => r.aead \in csup \cap ssup /\ offered(r.aead)
       /\ d.ok => d.aead \in csup \cap {Cmac256} /\ offered(d.aead)

\* The library's own client and server come to an agreement whenever they have
\* an algorithm in common, on the client's first choice, with the first eight
\* of the cookies that are of a usable length.
KeSucceeds(csup, ssup, port, name, cookies) ==
    LET q == ProcessRequest(PrepareRequest(csup), ssup)
        r == ProcessResponse(PrepareResponse(q.error, q.proto, q.aead, port, name, cookies), csup)
        usable == SelectSeq([i \in DOMAIN cookies |-> i],
                            LAMBDA i : cookies[i] \in 1..MaxCookieLength /\ cookies[i] % 4 = 0)
    IN (csup \cap ssup # {} /\ usable # <<>>) =>
         /\ r.ok
         /\ r.aead = IF GcmSiv \in csup \cap ssup THEN GcmSiv ELSE Cmac256
         /\ r.cookies = SubSeq(usable, 1, MinOf(MaxCookies, Len(usable)))
         /\ port # <<>> => r.port = port[1]
         /\ name # <<>> => r.name = name[1]

\* A cookie is one the client takes, and after the keys were dumped and loaded
\* (format_keydump, parse_keydump) it still gives the algorithm it was made
\* for, while the same key as before is the current one.
KeCookiesSurvive(keys, current, k, alg) ==
    LET made == GenerateCookie(keys[k].alg, alg)
        back == ParseKeydump(FormatKeydump(current, keys))
    IN /\ CookieTaken(ResponseStart, Rec(FALSE, Cookie, made, <<1>>))
       /\ back.ok /\ back.current = current
       /\ DecodeCookie(keys[k].id, made, back.keys) = alg

\* The receiver of an authenticator field accepts every field generate_auth_ef
\* lays out, of whatever nonce, text and requested minimum, and finds the text
\* in it (decrypt_auth_ef); the field has whole words and the minimum length, and
\* nonce and ciphertext fit in it without overlap.
KeFieldOpens(siv, max_nonce, text, min_ef) ==
    LET f == GenerateAuthEf(siv, max_nonce, text, min_ef)
    IN /\ DecryptAuthEf(siv, f, 64) = text
       /\ f.body % 4 = 0 /\ f.body + 4 >= min_ef
       /\ AuthHeaderLen + f.nonce + f.cipher <= f.body
=============================================================================
