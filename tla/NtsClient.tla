----------------------------- MODULE NtsClient ------------------------------
(***************************************************************************)
(* An NTS association: the client (NtsClient) with its ring of cookies,    *)
(* its NTS-KE sessions (the NkeClient trait and RealNkeClient), and the    *)
(* server that decodes a cookie, answers with fresh ones or with a NAK     *)
(* (NtsServer with RealCookieCodec).  Requests and responses may be lost,  *)
(* duplicated and reordered; the server may restart and forget its key.    *)
(*                                                                         *)
(* A cookie is [id, ok]: ok while the server still has the key it was made *)
(* with.  An id is used again only when neither the ring nor a message     *)
(* holds it.  cur marks the messages of the latest request: they carry the *)
(* unique identifier and keys of the client's state, which prepare_for_auth *)
(* replaces.  Times count seconds from now.                                *)
(***************************************************************************)
EXTENDS Integers, Sequences, FiniteSets

CONSTANTS NtsMaxCookies,    \* NTS_MAX_COOKIES
          CookieIds,        \* naturals: names for cookies
          RetryStart,       \* RETRY_INTERVAL_KE_START
          RetryFactor,      \* get_retry_factor
          MaxRetry2,        \* NKE_MAX_RETRY_INTERVAL2
          MaxAttempts,      \* bound: nke_attempts saturates where the interval no longer grows
          MaxUpsets,        \* bound: restarts of the server, key expiries, address changes, reloads
          NtsNetCap         \* bound: messages in flight each way

ASSUME NtsAssumption ==
    /\ NtsMaxCookies \in Nat \ {0} /\ IsFiniteSet(CookieIds)
    /\ RetryStart \in Nat /\ RetryFactor \in Nat /\ MaxRetry2 \in Nat /\ RetryFactor <= MaxRetry2
    /\ \A e \in RetryFactor..MaxRetry2 : 2^e \in Nat /\ RetryStart <= 2^e /\ 2^e <= 2^MaxRetry2
    /\ MaxAttempts \in Nat \ {0}

VARIABLES nts,          \* the client
          nke,          \* its NTS-KE session: idle, active, ok or fail
          real,         \* nke is a RealNkeClient: it starts once, destroyed for good
          spent,        \* RealNkeClient: started or destroyed
          reqs, resps,  \* the network
          upsets,       \* of those, how many so far
          waited        \* history: seconds since the latest NTS-KE start

ntsvars == <<nts, nke, real, spent, reqs, resps, upsets, waited>>

RingSlots == 0..(NtsMaxCookies - 1)
Blank == [id |-> 0, ok |-> FALSE]
Cookies == [id : CookieIds, ok : BOOLEAN]

\* reset_instance.
NtsReset == [num |-> 0, index |-> 0, ring |-> [s \in RingSlots |-> Blank], nak |-> FALSE, ok |-> TRUE,
             attempts |-> 0, wait |-> 0, has_nke |-> FALSE, expired |-> FALSE]

NtsInit ==
    /\ nts = NtsReset
    /\ nke = "idle" /\ real \in BOOLEAN /\ spent = FALSE
    /\ reqs = {} /\ resps = {}
    /\ upsets = 0 /\ waited = 0

\* The live slots, oldest first.
Live(x) == [k \in 1..x.num |-> (x.index + k - 1) % NtsMaxCookies]

HeldIds == {nts.ring[Live(nts)[k]].id : k \in 1..nts.num}
SentIds == {r.cookie.id : r \in reqs}
OfferedIds == UNION {{r.cookies[k].id : k \in DOMAIN r.cookies} : r \in resps}

\* n cookies the server makes, with names nobody holds; the bound on the names
\* is that they suffice.
FreeIds == CookieIds \ (HeldIds \cup SentIds \cup OfferedIds)
NamesLeft(n) == n <= Cardinality(FreeIds)

NewCookies(n) ==
    LET names == CHOOSE f \in [1..n -> FreeIds] : \A j, k \in 1..n : f[j] = f[k] => j = k
    IN [k \in 1..n |-> [id |-> names[k], ok |-> TRUE]]

\* check_cookies: the pool goes after a NAK without a valid response, or when
\* the keys are older than nts_refresh.
CheckCookies(x) ==
    IF x.num > 0 /\ ((x.nak /\ ~x.ok) \/ x.expired)
    THEN [x EXCEPT !.num = 0, !.ring = [s \in RingSlots |-> Blank]] ELSE x

\* update_next_nke_attempt.
NextAttempt(x, failed) ==
    LET e == IF RetryFactor + x.attempts - 1 < MaxRetry2 THEN RetryFactor + x.attempts - 1 ELSE MaxRetry2
    IN [x EXCEPT !.wait = IF failed THEN RetryStart ELSE 2^e]

\* get_cookies with a session that has data: the new pool replaces the old
\* (set_ntp_address refusing the address ends like a session without data).
Adopt(x, s) ==
    [x EXCEPT !.has_nke = FALSE, !.num = Len(s), !.index = 0, !.expired = FALSE,
              !.ring = [i \in RingSlots |-> IF i < Len(s) THEN s[i + 1] ELSE Blank]]

\* generate_request_auth: the oldest cookie is spent.
\* Mutant of Spend: the index stays.
SpendKeep(x) == [x EXCEPT !.num = @ - 1, !.ok = FALSE]

Spend(x) == [x EXCEPT !.num = @ - 1, !.index = (@ + 1) % NtsMaxCookies, !.ok = FALSE,
                      !.ring[x.index] = Blank]

\* A network that holds NtsNetCap messages loses the old ones for a new one.
Into(msgs, m) == {m} \cup IF Cardinality(msgs) < NtsNetCap THEN msgs ELSE {}

Stale(msgs) == {[m EXCEPT !.cur = FALSE] : m \in msgs}

\* poll_source: prepare_for_auth found no cookies; the request that goes out
\* carries no NTS fields, earlier ones are no longer answered.
PollFails(x, s, sp) ==
    /\ nts' = x
    /\ nke' = s
    /\ spent' = sp
    /\ reqs' = Stale(reqs) /\ resps' = Stale(resps)
    /\ UNCHANGED upsets

\* prepare_for_auth and generate_request_auth with cookies in the pool.
PollSends(x) ==
    /\ nts' = Spend([x EXCEPT !.nak = FALSE])
    /\ reqs' = Into(Stale(reqs), [cur |-> TRUE, cookie |-> x.ring[x.index], n |-> NtsMaxCookies - x.num + 1])
    /\ resps' = Stale(resps)
    /\ UNCHANGED upsets

PollCookies ==
    LET x == CheckCookies(nts)
    IN x.num > 0 /\ PollSends(x) /\ UNCHANGED <<nke, spent, waited>>

PollWaits ==
    LET x == CheckCookies(nts)
    IN x.num = 0 /\ ~x.has_nke /\ x.wait > 0 /\ PollFails(x, nke, spent) /\ UNCHANGED waited

\* A session is created and started; RealNkeClient runs it to its end in start.
PollStarts(out) ==
    LET x == CheckCookies(nts)
        y == [x EXCEPT !.has_nke = TRUE, !.attempts = IF @ < MaxAttempts THEN @ + 1 ELSE @]
    IN /\ x.num = 0 /\ ~x.has_nke /\ x.wait = 0
       /\ out \in IF real THEN IF spent THEN {"nostart"} ELSE {"ok", "nostart"}
                               ELSE {"active", "nostart"}
       /\ waited' = 0
       /\ CASE out = "ok"      -> /\ NamesLeft(NtsMaxCookies)
                                  /\ PollSends(Adopt(NextAttempt(y, FALSE), NewCookies(NtsMaxCookies)))
                                  /\ nke' = "idle" /\ spent' = TRUE
            [] out = "active"  -> PollFails(NextAttempt(y, FALSE), "active", spent)
            [] out = "nostart" -> PollFails([NextAttempt(y, TRUE) EXCEPT !.has_nke = FALSE], "idle", real)

\* Mutant of PollChecks: a failed session is kept.
PollChecksKeep ==
    LET x == CheckCookies(nts)
        y == NextAttempt(x, FALSE)
    IN /\ x.num = 0 /\ x.has_nke
       /\ IF nke = "ok" THEN /\ NamesLeft(NtsMaxCookies) /\ PollSends(Adopt(y, NewCookies(NtsMaxCookies)))
                             /\ nke' = "idle" /\ spent' = spent
          ELSE PollFails(y, nke, spent)
       /\ UNCHANGED waited

\* A session of an earlier poll is still there: wait, use its result, or give up.
PollChecks ==
    LET x == CheckCookies(nts)
        y == NextAttempt(x, FALSE)
    IN /\ x.num = 0 /\ x.has_nke
       /\ CASE nke = "active" -> PollFails(y, nke, spent)
            [] nke = "ok"     -> /\ NamesLeft(NtsMaxCookies) /\ PollSends(Adopt(y, NewCookies(NtsMaxCookies)))
                                 /\ nke' = "idle" /\ spent' = spent
            [] nke = "fail"   -> PollFails([y EXCEPT !.has_nke = FALSE], "idle", spent)
       /\ UNCHANGED waited

\* The NTS-KE exchange ends (external).
KeEnds(r) == nke = "active" /\ nke' = r /\ UNCHANGED <<nts, spent, reqs, resps, upsets, waited>>

\* generate_response_auth: a NAK has no cookies.
NtsAnswer(r, made) == [cur |-> r.cur, nak |-> made = <<>>, cookies |-> made]

\* check_request_auth: a cookie of a lost key is not decoded, another one brings
\* as many fresh cookies as were asked for; a server of another make may send
\* one more.
Serve(r, extra) ==
    /\ r \in reqs
    /\ NamesLeft(r.n + extra)
    /\ reqs' = reqs \ {r}
    /\ resps' = Into(resps, NtsAnswer(r, IF r.cookie.ok THEN NewCookies(r.n + extra) ELSE <<>>))
    /\ UNCHANGED <<nts, nke, spent, upsets, waited>>

\* extract_cookies: as many as the ring has room for.
Extract(x, s) ==
    LET room == NtsMaxCookies - x.num
        n == IF Len(s) < room THEN Len(s) ELSE room
    IN [x EXCEPT !.num = @ + n,
                 !.ring = [i \in RingSlots |->
                    LET k == CHOOSE j \in 1..NtsMaxCookies : (x.index + x.num + j - 1) % NtsMaxCookies = i
                    IN IF k <= n THEN s[k] ELSE x.ring[i]]]

\* check_response_auth: at most one response per request, only to the latest.
Checked(x, r) ==
    IF x.ok \/ ~r.cur THEN x
    ELSE IF r.nak THEN [x EXCEPT !.nak = TRUE]
    ELSE [Extract(x, r.cookies) EXCEPT !.ok = TRUE, !.attempts = 0, !.wait = 0]

Respond(r, copy) ==
    /\ r \in resps
    /\ nts' = Checked(nts, r)
    /\ resps' = IF copy THEN resps ELSE resps \ {r}
    /\ UNCHANGED <<nke, spent, reqs, upsets, waited>>

NtsLose == /\ \/ \E r \in reqs : reqs' = reqs \ {r} /\ resps' = resps
              \/ \E r \in resps : resps' = resps \ {r} /\ reqs' = reqs
           /\ UNCHANGED <<nts, nke, spent, upsets, waited>>

Second ==
    /\ nts.wait > 0 \/ waited < 2^MaxRetry2
    /\ nts' = IF nts.wait > 0 THEN [nts EXCEPT !.wait = @ - 1] ELSE nts
    /\ waited' = IF waited < 2^MaxRetry2 THEN waited + 1 ELSE waited
    /\ UNCHANGED <<nke, spent, reqs, resps, upsets>>

Upset == upsets < MaxUpsets /\ upsets' = upsets + 1

\* The keys reach their age limit.
Expire == Upset /\ nts.num > 0 /\ nts' = [nts EXCEPT !.expired = TRUE] /\ UNCHANGED <<nke, spent, reqs, resps, waited>>

\* change_address without a dump, and save_cookies followed by new with that
\* dump: the keys' age is not in the dump, so they may count as old at once.
ChangeAddress ==
    /\ Upset
    /\ nts' = NtsReset
    /\ nke' = "idle"
    /\ spent' = (spent \/ nts.has_nke)
    /\ reqs' = Stale(reqs) /\ resps' = Stale(resps)
    /\ UNCHANGED waited

DumpAndLoad(old) ==
    /\ Upset
    /\ nts.num > 0
    /\ nts' = [NtsReset EXCEPT !.num = nts.num, !.expired = old,
                             !.ring = [i \in RingSlots |-> IF i < nts.num THEN nts.ring[Live(nts)[i + 1]] ELSE Blank]]
    /\ nke' = "idle"
    /\ spent' = (spent \/ nts.has_nke)
    /\ reqs' = Stale(reqs) /\ resps' = Stale(resps)
    /\ UNCHANGED waited

\* RealCookieCodec has one key, made when it is created: it decodes no cookie
\* of an earlier one.
NoKey(k) == IF k = Blank THEN k ELSE [k EXCEPT !.ok = FALSE]

\* The server starts again with a new key.
ServerRestart ==
    /\ Upset
    /\ nts' = [nts EXCEPT !.ring = [i \in RingSlots |-> NoKey(@[i])]]
    /\ reqs' = {[r EXCEPT !.cookie = NoKey(@)] : r \in reqs}
    /\ resps' = {[r EXCEPT !.cookies = [k \in DOMAIN @ |-> NoKey(@[k])]] : r \in resps}
    /\ UNCHANGED <<nke, spent, waited>>

Poll == PollCookies \/ PollWaits \/ PollChecks \/ \E o \in {"ok", "active", "nostart"} : PollStarts(o)

NtsStep ==
    \/ Poll
    \/ \E r \in {"ok", "fail"} : KeEnds(r)
    \/ \E r \in reqs, extra \in 0..1 : Serve(r, extra)
    \/ \E r \in resps, copy \in BOOLEAN : Respond(r, copy)
    \/ NtsLose
    \/ Second
    \/ Expire
    \/ ChangeAddress
    \/ \E old \in BOOLEAN : DumpAndLoad(old)
    \/ ServerRestart

NtsNext == NtsStep /\ UNCHANGED real

NtsSpec == NtsInit /\ [][NtsNext]_ntsvars

\* The poll timer fires again and again, time passes, and neither the network
\* nor the NTS-KE server fails for ever.
NtsFairness ==
    /\ WF_ntsvars(Poll /\ UNCHANGED real)
    /\ WF_ntsvars(Second /\ UNCHANGED real)
    /\ SF_ntsvars((\E o \in {"active", "ok"} : PollStarts(o)) /\ UNCHANGED real)
    /\ SF_ntsvars(KeEnds("ok") /\ UNCHANGED real)
    /\ SF_ntsvars((\E r \in reqs : r.cur /\ Serve(r, 0)) /\ UNCHANGED real)
    /\ SF_ntsvars((\E r \in resps : r.cur /\ Respond(r, FALSE)) /\ UNCHANGED real)

NtsFairSpec == NtsSpec /\ NtsFairness

----------------------------------------------------------------------------
(* Properties *)

\* The pool never outgrows the ring, the slots out of it are blank, and the
\* backoff stays within NKE_MAX_RETRY_INTERVAL2.
NtsTypeOK ==
    /\ nts.num \in 0..NtsMaxCookies /\ nts.index \in RingSlots
    /\ \A s \in RingSlots : nts.ring[s] \in IF s \in {Live(nts)[k] : k \in 1..nts.num} THEN Cookies ELSE {Blank}
    /\ nts.wait \in 0..2^MaxRetry2 \/ nts.wait <= RetryStart
    /\ nts.has_nke <=> nke # "idle"

\* No cookie is used twice: the pool holds each cookie once, and none that a
\* request in flight carries or that a response still offers, whatever was
\* lost, copied or reordered, and through a dump and reload of the pool.
NtsCookieOnce ==
    /\ \A j, k \in 1..nts.num : nts.ring[Live(nts)[j]].id = nts.ring[Live(nts)[k]].id => j = k
    /\ HeldIds \cap SentIds = {}
    /\ nts.ok \/ \A r \in resps : r.cur => \A k \in DOMAIN r.cookies : r.cookies[k].id \notin HeldIds

\* Once the server has said NAK and no valid response came, no cookie of that
\* pool is sent again: the next request carries a cookie of a new session.
NtsNakDropsPool ==
    [][nts.nak /\ ~nts.ok => \A r \in reqs' : r.cookie.id \notin HeldIds]_ntsvars

\* The NTS-KE server is not hammered: with no valid response in between, a new
\* session starts only RETRY_INTERVAL_KE_START or more after the previous one
\* (update_next_nke_attempt).
NtsBackoff == [][waited' < waited /\ nts.attempts > 0 => waited >= RetryStart]_ntsvars

\* What an NTS association keeps: no cookie is used twice (generate_request_auth,
\* extract_cookies, save_cookies, load_cookies), a NAK empties the pool
\* (check_cookies), and sessions are apart (update_next_nke_attempt).
NtsSound == [](NtsTypeOK /\ NtsCookieOnce) /\ NtsNakDropsPool /\ NtsBackoff

\* The association recovers: with a client that can open a session again, under
\* NtsFairness, and with the restarts, expiries and address changes at an end,
\* it has an authenticated answer and a pool again and again.
NtsRecovers == ~real => []<>(nts.ok /\ nts.num > 0)

=============================================================================
