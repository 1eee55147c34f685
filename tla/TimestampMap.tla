---------------------------- MODULE TimestampMap ----------------------------
(***************************************************************************)
(* The receive-to-transmit timestamp map of clientlog.rs: a circular       *)
(* buffer of entries ordered by receive timestamp, with one cached index.  *)
(* Receive timestamps are integers modulo Mod (64-bit NTP timestamps) and  *)
(* are compared by their signed difference.  An entry keeps its receive    *)
(* timestamp and the state of its transmit timestamp: none (or outside the *)
(* window of set_ntp_tx), valid, or disabled.  The code never reads a slot  *)
(* outside the window before writing it again; the model keeps Blank there. *)
(***************************************************************************)
EXTENDS Integers
CONSTANTS
  Mod,          \* number of timestamps; 2^64 in the code
  MaxSize,      \* ntp_ts_map.max_size
  FutureLimit,  \* NTPTS_FUTURE_LIMIT
  InsertLimit,  \* NTPTS_INSERT_LIMIT
  Rx            \* the receive timestamps that occur

VARIABLES ts, first, size, cached_index, cached_rx_ts, alive
mapvars == <<ts, first, size, cached_index, cached_rx_ts, alive>>

Half == Mod \div 2
Status == {"none", "valid", "disabled"}
Blank == [rx |-> 0, tx |-> "none"]

\* a.wrapping_sub(b), and its sign as a signed integer
Sub(a, b) == (a - b) % Mod
Negative(d) == d >= Half
Positive(d) == d > 0 /\ d < Half

TsIndex(i) == (first + i) % MaxSize
At(i) == ts[TsIndex(i)]

Init ==
  /\ ts = [i \in 0..(MaxSize - 1) |-> Blank]
  /\ first = 0 /\ size = 0
  /\ cached_index = 0 /\ cached_rx_ts = 0
  /\ alive = TRUE

(***************************************************************************)
(* The search between two ends: bisection, with interpolation in every     *)
(* other round while more than three entries apart.  The interpolation     *)
(* subtracts with overflow checks (they are on in every build profile), so *)
(* a subtraction that would wrap is a panic.                               *)
(***************************************************************************)
Miss(i) == [out |-> "miss", index |-> i]
Hit(i) == [out |-> "hit", index |-> i]
Panic == [out |-> "panic", index |-> 0]

Interpolate(r, rx, lo, hi) ==
  LET step == (r[hi] - r[lo]) \div (hi - lo)
  IN  lo + (rx - r[lo]) \div (IF step = 0 THEN 1 ELSE step)

Clamp(x, lo, hi) == IF x <= lo THEN lo + 1 ELSE IF x >= hi THEN hi - 1 ELSE x

Narrow(r, rx, n) ==
  LET step[lo \in 0..n, hi \in 0..n, even \in BOOLEAN] ==
        LET interpolating == hi - lo > 3 /\ even
            x == IF interpolating
                 THEN Clamp(Interpolate(r, rx, lo, hi), lo, hi)
                 ELSE Clamp(lo + (hi - lo) \div 2, lo, hi)
        IN  CASE rx = r[hi] -> Hit(hi)
              [] rx # r[hi] /\ rx = r[lo] -> Hit(lo)
              [] rx \notin {r[lo], r[hi]} /\ lo + 1 = hi -> Miss(hi)
              [] OTHER -> IF interpolating /\ (r[hi] < r[lo] \/ rx < r[lo])
                          THEN Panic
                          ELSE IF Negative(Sub(r[x], rx)) \/ r[x] = rx
                               THEN step[x, hi, ~even]
                               ELSE step[lo, x, ~even]
  IN  step[0, n - 1, TRUE]

\* The search over n ordered timestamps r: the ends first, then inwards.
Search(r, rx, n) ==
  CASE n = 0 -> Miss(0)
    [] n > 0 /\ Negative(Sub(rx, r[0])) -> Miss(0)
    [] n > 0 /\ ~Negative(Sub(rx, r[0])) /\ Positive(Sub(rx, r[n - 1])) -> Miss(n)
    [] OTHER -> Narrow(r, rx, n)

Window == [i \in 0..(size - 1) |-> At(i).rx]

\* find_ntp_rx_ts: the cached entry, or the search.
Find(rx) == IF cached_rx_ts = rx THEN Hit(cached_index) ELSE Search(Window, rx, size)

Cache(index, rx) == cached_index' = index /\ cached_rx_ts' = rx
Remember(f, rx) == IF f.out = "hit" THEN Cache(f.index, rx) ELSE UNCHANGED <<cached_index, cached_rx_ts>>

\* The entry found, if one is, with the state t of its transmit timestamp; a
\* panic in the search ends the process.
Marked(f, t) == IF f.out = "hit" THEN [ts EXCEPT ![TsIndex(f.index)].tx = t] ELSE ts
Survives(f) == alive' = (f.out # "panic")

(***************************************************************************)
(* save_ntp_timestamps.  Insert is the outcome of the placement: the new   *)
(* head, the new size, the index of the new entry and whether the entries  *)
(* above it move up by one.                                                *)
(***************************************************************************)
\* push_ntp_tss with n entries in use
Push(index, n) ==
  IF n < MaxSize
  THEN [first |-> first, size |-> n + 1, index |-> index]
  ELSE [first |-> (first + 1) % MaxSize, size |-> n, index |-> IF index = 0 THEN 0 ELSE index - 1]

\* The entries left when those too far in the future of rx are dropped.
Trimmed(index, rx) ==
  CHOOSE n \in index..size :
    /\ \A k \in (n + 1)..size : Sub(At(k - 1).rx, rx) > FutureLimit
    /\ n = index \/ Sub(At(n - 1).rx, rx) <= FutureLimit

Place(index, rx) ==
  LET n == Trimmed(index, rx)
  IN  IF index = size \/ index + InsertLimit >= n
      THEN Push(index, n)
      ELSE [first |-> first, size |-> n, index |-> IF index = 0 THEN 0 ELSE index - 1]

Moved(index, rx) == index # size /\ index + InsertLimit >= Trimmed(index, rx)

Stored(p, moved, entry) ==
  [s \in DOMAIN ts |->
     LET i == (s - p.first) % MaxSize
     IN  CASE i = p.index -> entry
           [] moved /\ i > p.index /\ i < p.size -> ts[(p.first + i - 1) % MaxSize]
           [] i >= p.size -> Blank
           [] OTHER -> ts[s]]

Save(rx, tx) ==
  /\ alive
  /\ \E f \in {Find(rx)} :
       /\ Survives(f)
       /\ \/ /\ f.out # "miss"
             /\ ts' = Marked(f, "disabled")
             /\ Remember(f, rx)
             /\ UNCHANGED <<first, size>>
          \/ /\ f.out = "miss"
             /\ \E p \in {Place(f.index, rx)} :
                  /\ ts' = Stored(p, Moved(f.index, rx), [rx |-> rx, tx |-> tx])
                  /\ first' = p.first /\ size' = p.size
                  /\ Cache(p.index, rx)

\* handle_slew on a step of unknown size; other corrections leave the map alone.
Emptied == [i \in DOMAIN ts |-> Blank]
UnknownStep ==
  /\ alive
  /\ ts' = Emptied /\ size' = 0 /\ cached_rx_ts' = 0
  /\ UNCHANGED <<first, cached_index, alive>>

UpdateTxTimestamp(rx, tx) ==
  /\ alive
  /\ \E f \in {Find(rx)} :
       /\ ts' = Marked(f, IF At(f.index).tx = "disabled" THEN "disabled" ELSE tx)
       /\ Remember(f, rx) /\ Survives(f)
  /\ UNCHANGED <<first, size>>

\* disable_ntp_timestamps, when a client asks again with the same timestamp
DisableTimestamps(rx) ==
  /\ alive
  /\ \E f \in {Find(rx)} : ts' = Marked(f, "disabled") /\ Remember(f, rx) /\ Survives(f)
  /\ UNCHANGED <<first, size>>

\* get_ntp_tx_timestamp and undo_ntp_tx_timestamp_slew only move the cache.
Lookup(rx) ==
  /\ alive
  /\ \E f \in {Find(rx)} : Remember(f, rx) /\ Survives(f)
  /\ UNCHANGED <<ts, first, size>>

Next ==
  \/ \E rx \in Rx, tx \in {"none", "valid"} : Save(rx, tx) \/ UpdateTxTimestamp(rx, tx)
  \/ \E rx \in Rx : DisableTimestamps(rx) \/ Lookup(rx)
  \/ UnknownStep

Spec == Init /\ [][Next]_mapvars
-----------------------------------------------------------------------------
\* Type invariant: ring positions and statuses stay in range.
MapTypeOK ==
  /\ ts \in [0..(MaxSize - 1) -> [rx : 0..(Mod - 1), tx : Status]]
  /\ first \in 0..(MaxSize - 1) /\ size \in 0..MaxSize
  /\ cached_index \in 0..(MaxSize - 1) /\ cached_rx_ts \in 0..(Mod - 1)
  /\ alive \in BOOLEAN

\* The window of the buffer stays strictly ordered by signed difference whatever
\* timestamps arrive, after steps of the clock and across the wrap of the
\* timestamps: any later entry is after any earlier one.
MapOrdered == \A i, j \in 0..(size - 1) : i < j => Positive(Sub(At(j).rx, At(i).rx))

\* The cached index is never stale: it names the entry of the cached timestamp
\* although entries are trimmed, moved up, overwritten and dropped.
MapCacheValid == cached_rx_ts # 0 => cached_index < size /\ At(cached_index).rx = cached_rx_ts

\* The search finds a timestamp exactly when the window holds it, and otherwise
\* returns the place that keeps the order.
MapFindExact ==
  \A rx \in Rx : LET f == Search(Window, rx, size) IN
    \/ f.out = "panic"
    \/ f.out = "hit" /\ f.index < size /\ At(f.index).rx = rx
    \/ /\ f.out = "miss" /\ f.index \in 0..size
       /\ \A i \in 0..(size - 1) : At(i).rx # rx
       /\ f.index = size => \A i \in 0..(size - 1) : Positive(Sub(rx, At(i).rx))
       /\ f.index \in 1..(size - 1) => Positive(Sub(rx, At(f.index - 1).rx)) /\ Negative(Sub(rx, At(f.index).rx))

\* The map as a store: each timestamp of the window with its state.
Entry(rx) == At(CHOOSE i \in 0..(size - 1) : At(i).rx = rx).tx
AbstractStore == [rx \in {At(i).rx : i \in 0..(size - 1)} |-> Entry(rx)]
Store == INSTANCE TimestampStore WITH store <- AbstractStore
\* The circular buffer implements the store: a lookup through it never yields
\* the entry of another packet, and a timestamp just saved is found.
MapImplementsStore == Store!Spec
=============================================================================
