----------------------------- MODULE ClientLog -----------------------------
(***************************************************************************)
(* The client records and the rate limiter of clientlog.rs: a hash table   *)
(* of slots of SlotSize records that doubles when a slot is full and       *)
(* evicts the oldest record of the slot when it may not grow, and a token  *)
(* bucket per client and service.  Hit times are integers modulo TsMod     *)
(* (32 bits in the code), 0 is INVALID_TS.  The estimates of the request   *)
(* rate only choose between two outcomes of a random draw, so that both    *)
(* outcomes stay possible: they are left out.                              *)
(***************************************************************************)
EXTENDS Integers
CONSTANTS
  Ips, Unspec,   \* client addresses, and the address of an empty record
  NumServices,   \* MAX_SERVICES; service 0 is NTP
  SlotSize, MaxSlots,
  TsMod, Times,  \* number of hit times (2^32 in the code), and the ones that occur
  HitMod,        \* number of values of a hit counter; 2^32 in the code
  MaxTokens, PerHit, Shift  \* max_tokens, tokens_per_hit, token_shift of set_bucket_params

VARIABLES hash, slots, records, record_drops, paced
logvars == <<hash, slots, records, record_drops, paced>>

Services == 0..(NumServices - 1)
TsHalf == TsMod \div 2
TsDiff(a, b) == (a - b) % TsMod
Invalid == 0

Empty == [ip |-> Unspec, last_hit |-> [s \in Services |-> Invalid], hits |-> [s \in Services |-> 0],
          tokens |-> [s \in Services |-> 0], dropped |-> {}]
Fresh(ip) == [ip |-> ip, last_hit |-> [s \in Services |-> Invalid], hits |-> [s \in Services |-> 0],
              tokens |-> [s \in Services |-> MaxTokens], dropped |-> {}]

\* compare_ts(x, y) < 0 and > 0
Before(x, y) == x # y /\ y # Invalid /\ ~(TsDiff(x, y) \in 1..(TsHalf - 1))
After(x, y) == x # y /\ ~Before(x, y)

Slot(ip, n) == hash[ip] % n
Records(n) == 0..(n * SlotSize - 1)
InSlot(ip, n) == (Slot(ip, n) * SlotSize)..(Slot(ip, n) * SlotSize + SlotSize - 1)

\* The latest hit of a record, taken over the services in order.
LastHit(r) ==
  LET latest[s \in Services] ==
        IF s = 0 THEN r.last_hit[0]
        ELSE IF Before(latest[s - 1], r.last_hit[s]) THEN r.last_hit[s] ELSE latest[s - 1]
  IN  latest[NumServices - 1]

TotalHits(r) == LET sum[s \in Services] == r.hits[s] + IF s = 0 THEN 0 ELSE sum[s - 1] IN sum[NumServices - 1]

\* The record of a full slot that is replaced: the scan keeps the one with the
\* oldest latest hit, and of equally old ones the one with fewer hits.
Oldest(t, ip, n) ==
  LET base == Slot(ip, n) * SlotSize
      scan[k \in 0..(SlotSize - 1)] ==
        IF k = 0 THEN base
        ELSE LET o == t[scan[k - 1]]
                 r == t[base + k]
             IN  IF \/ After(LastHit(o), LastHit(r))
                    \/ LastHit(o) = LastHit(r) /\ TotalHits(o) > TotalHits(r)
                 THEN base + k ELSE scan[k - 1]
  IN  scan[SlotSize - 1]

\* Where the scan of a slot stops: the record of the address or the first empty one.
StopsAt(t, ip, n) == {i \in InSlot(ip, n) : t[i].ip \in {ip, Unspec} /\ \A j \in InSlot(ip, n) : j < i => t[j].ip \notin {ip, Unspec}}

\* expand_hashtable: every record, in order, into the table of twice the slots.
RehashOneFresh(t, r, n) == [t EXCEPT ![CHOOSE i \in StopsAt(t, r.ip, n) : TRUE] = Fresh(r.ip)]
RehashOne(t, r, n) == [t EXCEPT ![CHOOSE i \in StopsAt(t, r.ip, n) : TRUE] = r]
Rehashed(t, n) ==
  LET into[k \in 0..(n * SlotSize)] ==
        IF k = 0 THEN [i \in Records(2 * n) |-> Empty]
        ELSE IF t[k - 1].ip = Unspec THEN into[k - 1] ELSE RehashOne(into[k - 1], t[k - 1], 2 * n)
  IN  into[n * SlotSize]

\* get_record: the table with a record for the address, and the index of it.
Located(t, n, drops, i, ip) ==
  [table |-> IF t[i].ip = ip THEN t ELSE [t EXCEPT ![i] = Fresh(ip)], slots |-> n, drops |-> drops, index |-> i]

Grown ==
  LET g[k \in 0..MaxSlots] ==
        IF k = 0 THEN [table |-> records, slots |-> slots]
        ELSE [table |-> Rehashed(g[k - 1].table, g[k - 1].slots), slots |-> 2 * g[k - 1].slots]
  IN  g
GetRecord(ip) ==
  LET g == Grown
      Stops(k) == StopsAt(g[k].table, ip, g[k].slots)
      Enough(k) == Stops(k) # {} \/ 2 * g[k].slots > MaxSlots
      k == CHOOSE k \in 0..MaxSlots : Enough(k) /\ \A j \in 0..(k - 1) : ~Enough(j)
  IN  IF Stops(k) # {}
      THEN Located(g[k].table, g[k].slots, record_drops, CHOOSE i \in Stops(k) : TRUE, ip)
      ELSE Located(g[k].table, g[k].slots, (record_drops + 1) % HitMod, Oldest(g[k].table, ip, g[k].slots), ip)

Init ==
  /\ hash \in [Ips -> 0..(MaxSlots - 1)]
  /\ slots = 1 /\ records = [i \in Records(1) |-> Empty]
  /\ record_drops = 0
  /\ paced = [ip \in Ips |-> TRUE]

\* update_record: the tokens earned since the previous hit.
Least(a, b) == IF a < b THEN a ELSE b
Refill(now, prev) ==
  IF Shift >= 0 THEN ((now \div 2^Shift) - (prev \div 2^Shift)) % TsMod
  ELSE IF TsDiff(now, prev) > MaxTokens THEN MaxTokens ELSE TsDiff(now, prev) * 2^(-Shift)
UpdateRecord(r, s, now) ==
  LET prev == r.last_hit[s]
      hit == [r EXCEPT !.last_hit[s] = now, !.hits[s] = (@ + 1) % HitMod]
  IN  IF prev = Invalid \/ TsDiff(now, prev) >= TsHalf THEN hit
      ELSE [hit EXCEPT !.tokens[s] = Least(@ + Refill(now, prev), MaxTokens)]

\* limit_service_rate: leak is the outcome of the random draw that lets a
\* response through when the bucket is empty.
LimitServiceRate(r, s, leak) ==
  LET cleared == [r EXCEPT !.dropped = @ \ {s}]
  IN  CASE PerHit = 0 -> r
        [] PerHit > 0 /\ r.tokens[s] >= PerHit -> [cleared EXCEPT !.tokens[s] = @ - PerHit]
        [] PerHit > 0 /\ r.tokens[s] < PerHit /\ leak -> [cleared EXCEPT !.tokens[s] = 0]
        [] OTHER -> [r EXCEPT !.dropped = @ \union {s}]

\* The client keeps to the configured interval: no two of its hits are closer.
Interval == IF Shift >= 0 THEN PerHit * 2^Shift ELSE 1
Keeps(r, s, now) == r.last_hit[s] # Invalid /\ TsDiff(now, r.last_hit[s]) \in Interval..(TsHalf - 1)
Known == {records[i].ip : i \in DOMAIN records} \ {Unspec}

\* A request of a client: log_service_access, then limit_service_rate.
Access(s, ip, now, leak) ==
  \E g \in {GetRecord(ip)} :
    LET r == g.table[g.index] IN
    /\ records' = [g.table EXCEPT ![g.index] = LimitServiceRate(UpdateRecord(r, s, now), s, leak)]
    /\ slots' = g.slots /\ record_drops' = g.drops
    /\ paced' = [paced EXCEPT ![ip] = IF ip \notin Known THEN TRUE ELSE @ /\ Keeps(r, s, now)]
    /\ UNCHANGED hash

\* get_client_index: the record alone, created when it is missing.
GetClientIndex(ip) ==
  \E g \in {GetRecord(ip)} :
    /\ records' = g.table /\ slots' = g.slots /\ record_drops' = g.drops
    /\ paced' = [paced EXCEPT ![ip] = IF ip \notin Known THEN TRUE ELSE @]
    /\ UNCHANGED hash

\* get_client_access_report_by_index with reset
ReportReset(i) ==
  /\ i \in DOMAIN records /\ records[i].ip # Unspec
  /\ records' = [records EXCEPT ![i].hits = [s \in Services |-> 0]]
  /\ UNCHANGED <<hash, slots, record_drops, paced>>

Next ==
  \/ \E ip \in Ips, s \in Services, now \in Times, leak \in BOOLEAN : Access(s, ip, now, leak)
  \/ \E ip \in Ips : GetClientIndex(ip)
  \/ \E i \in Records(MaxSlots) : ReportReset(i)

Spec == Init /\ [][Next]_logvars
-----------------------------------------------------------------------------
\* Type invariant: the table holds whole slots, and tokens and hit counters stay in range.
LogTypeOK ==
  /\ hash \in [Ips -> 0..(MaxSlots - 1)] /\ slots \in 1..MaxSlots
  /\ records \in [Records(slots) ->
       [ip : Ips \union {Unspec}, last_hit : [Services -> Times \union {Invalid}], hits : [Services -> 0..(HitMod - 1)],
        tokens : [Services -> 0..MaxTokens], dropped : SUBSET Services]]
  /\ record_drops \in 0..(HitMod - 1) /\ paced \in [Ips -> BOOLEAN]

\* A client has at most one record, it is in the slot of its hash for the present
\* size of the table, and no empty record precedes it in the slot (the scan of
\* get_record stops at the first empty one and would create a second record).
LogTableSound ==
  \A i \in DOMAIN records : records[i].ip # Unspec =>
    /\ i \in InSlot(records[i].ip, slots)
    /\ \A j \in DOMAIN records : j # i => records[j].ip # records[i].ip
    /\ \A j \in InSlot(records[i].ip, slots) : j < i => records[j].ip # Unspec

\* A client whose requests are never closer than the configured interval is never
\* dropped, however the times fall on the boundaries of the token shift and of
\* the wrap of the hit times.
LogPacedServed ==
  \A i \in DOMAIN records : records[i].ip # Unspec /\ 0 \in records[i].dropped => ~paced[records[i].ip]

RecordOf(t, ip) == {t[i] : i \in {j \in DOMAIN t : t[j].ip = ip}}
\* A request or a report changes the record of one client: growing the table
\* loses no record and no counter, and a record is evicted only when the table
\* may not grow, one at a time.
LogRecordsKept ==
  [][LET changed == {ip \in Known : RecordOf(records', ip) # RecordOf(records, ip)}
         lost == {ip \in Known : RecordOf(records', ip) = {}}
     IN  /\ \A x, y \in lost : x = y
         /\ \A x, y \in changed \ lost : x = y
         /\ lost # {} => 2 * slots' > MaxSlots /\ record_drops' # record_drops]_logvars

=============================================================================
