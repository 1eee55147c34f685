----------------------------- MODULE NtpSources -----------------------------
(***************************************************************************)
(* The table of NTP sources and the counters of a pool (ntp_sources.rs).   *)
(* The table has open addressing: a power of two of slots, at least twice  *)
(* as many as sources, probed quadratically for half of its size.  A       *)
(* record holds its address, whether it belongs to the pool, and whether   *)
(* it is tentative (no good reply yet), the state the callers keep for it. *)
(* Of the counters of a pool the model keeps confirmed_sources.  sources   *)
(* and max_sources only decide when a pool has enough sources; they drift  *)
(* (a placeholder is not counted when it is added, and is when removed),   *)
(* so the model lets a pool have enough at any confirmation.               *)
(***************************************************************************)
EXTENDS Integers, FiniteSets
CONSTANTS
  Real, Ids,     \* addresses of sources, and the placeholders of names not yet resolved
  Ports, MaxSources,
  Hashes,        \* the hash values that occur
  MaxAddrs       \* how many addresses a name resolves to

VARIABLES
  hash,                     \* ip_to_hash with the seed of this process
  size, slots, n_sources,   \* SourceTable
  confirmed                 \* SourcePool: confirmed_sources
nsrvars == <<hash, size, slots, n_sources, confirmed>>

Ips == Real \union Ids
Free == [ip |-> "free"]
Occupied(t) == {s \in DOMAIN t : t[s] # Free}
Stored(t) == {t[s].ip : s \in Occupied(t)}

\* find_slot in a table t of n slots: the slots probed, and where the probe ends.
Probe(n, ip, i) == (hash[ip] + (i + i * i) \div 2) % n
Stops(t, n, ip, i) == t[Probe(n, ip, i)] = Free \/ t[Probe(n, ip, i)].ip = ip
FindSlot(t, n, ip) ==
  LET rounds == {i \in 0..(n \div 2 - 1) : Stops(t, n, ip, i)}
      last == n \div 2 - 1
      i == CHOOSE i \in rounds : \A j \in rounds : i <= j
  IN  CASE n = 1 -> [found |-> FALSE, slot |-> 0]
        [] n > 1 /\ rounds = {} -> [found |-> FALSE, slot |-> Probe(n, ip, last)]
        [] OTHER -> [found |-> t[Probe(n, ip, i)] # Free, slot |-> Probe(n, ip, i)]

\* rehash: the smallest table that is large enough, every record placed anew.
CheckSize(sources, n) == sources * 2 <= n
SizeFor(sources) == CHOOSE n \in {2^k : k \in 0..sources} : CheckSize(sources, n) /\ (n = 1 \/ ~CheckSize(sources, n \div 2))
Place(t, n, r) == [t EXCEPT ![FindSlot(t, n, r.ip).slot] = r]
Rehash(t, n, sources) ==
  LET new == SizeFor(sources)
      into[k \in 0..n] ==
        IF k = 0 THEN [s \in 0..(new - 1) |-> Free]
        ELSE IF t[k - 1] = Free THEN into[k - 1] ELSE Place(into[k - 1], new, t[k - 1])
  IN  [size |-> new, slots |-> into[n]]

SetTable(t) == size' = t.size /\ slots' = t.slots
Table == [size |-> size, slots |-> slots, n |-> n_sources, ok |-> TRUE]

Init ==
  /\ hash \in [Ips -> Hashes]
  /\ size = 1 /\ slots = [s \in {0} |-> Free] /\ n_sources = 0
  /\ confirmed = 0

(***************************************************************************)
(* The operations of the table as functions from table to table, so that   *)
(* the handlers can apply several of them in a row.                        *)
(***************************************************************************)
Record(ip, port, pooled) == [ip |-> ip, port |-> port, pooled |-> pooled, tentative |-> TRUE]

\* add_source: refused when present, when there are too many, or (has_name and
\* ip_is_real both false) when there is neither a name nor a usable address.
AddSourceTo(t, r) ==
  IF FindSlot(t.slots, t.size, r.ip).found \/ t.n >= MaxSources THEN [t EXCEPT !.ok = FALSE]
  ELSE LET g == IF CheckSize(t.n + 1, t.size) THEN [size |-> t.size, slots |-> t.slots]
                ELSE Rehash(t.slots, t.size, t.n + 1)
       IN  [size |-> g.size, slots |-> Place(g.slots, g.size, r), n |-> t.n + 1, ok |-> TRUE]

\* change_source_address: the record of old becomes new, tentative again.
ChangeNoRehash(t, old, new) ==
  LET f1 == FindSlot(t.slots, t.size, old.ip)
      f2 == FindSlot(t.slots, t.size, new.ip)
  IN  IF \/ ~f1.found \/ t.slots[f1.slot].port # old.port
         \/ f2.found /\ (t.slots[f2.slot].port = new.port \/ f1.slot # f2.slot)
      THEN [t EXCEPT !.ok = FALSE]
      ELSE [t EXCEPT !.slots = [@ EXCEPT ![f1.slot] = [new EXCEPT !.pooled = t.slots[f1.slot].pooled]]]
ChangeAddress(t, old, new) ==
  LET f1 == FindSlot(t.slots, t.size, old.ip)
      f2 == FindSlot(t.slots, t.size, new.ip)
      changed == [t.slots EXCEPT ![f1.slot] = [new EXCEPT !.pooled = t.slots[f1.slot].pooled]]
      g == IF f2.found THEN [size |-> t.size, slots |-> changed] ELSE Rehash(changed, t.size, t.n)
  IN  IF \/ ~f1.found \/ t.slots[f1.slot].port # old.port
         \/ f2.found /\ (t.slots[f2.slot].port = new.port \/ f1.slot # f2.slot)
      THEN [t EXCEPT !.ok = FALSE]
      ELSE [t EXCEPT !.size = g.size, !.slots = g.slots]

\* remove_source and the removals of several records: cleared, then one rehash.
RemoveFrom(t, S) ==
  LET cleared == [s \in DOMAIN t.slots |-> IF s \in S THEN Free ELSE t.slots[s]]
      n == t.n - Cardinality(S)
      g == Rehash(cleared, t.size, n)
  IN  [size |-> g.size, slots |-> g.slots, n |-> n, ok |-> TRUE]

Commit(t) == SetTable(t) /\ n_sources' = t.n /\ UNCHANGED hash

-----------------------------------------------------------------------------
\* nsr_add_source: a single source, by address.
AddSource(ip, port) ==
  /\ ip \in Real
  /\ Commit(AddSourceTo(Table, Record(ip, port, FALSE)))
  /\ UNCHANGED confirmed

\* nsr_add_source_by_name: a placeholder until the name is resolved.
AddSourceByName(id, port, pooled) ==
  /\ id \in Ids
  /\ Commit(AddSourceTo(Table, Record(id, port, pooled)))
  /\ UNCHANGED confirmed

\* name_resolve_handler for the source at slot s: each address found is added
\* to the pool, or becomes the address of whatever is at slot s by then.
ProcessResolvedName(t, s, r, pooled) ==
  IF pooled THEN AddSourceTo(t, [r EXCEPT !.pooled = TRUE])
  ELSE IF s \in DOMAIN t.slots /\ t.slots[s] # Free THEN ChangeAddress(t, t.slots[s], r) ELSE [t EXCEPT !.ok = FALSE]
Resolved(s, pooled, addrs, port) ==
  LET after[k \in 0..MaxAddrs] ==
        IF k = 0 THEN Table
        ELSE ProcessResolvedName(after[k - 1], s, Record(addrs[k], port, pooled), pooled)
  IN  after[MaxAddrs]
NameResolved(s, addrs) ==
  /\ s \in Occupied(slots) /\ slots[s].ip \in Ids
  /\ \E t \in {Resolved(s, slots[s].pooled, addrs, slots[s].port)} : Commit(t)
  /\ UNCHANGED confirmed

\* NSR_ProcessRx on the first good reply of a tentative source of the pool; when
\* the pool has enough sources the tentative ones are removed.
Confirm(s, enough) ==
  LET t == [Table EXCEPT !.slots = [@ EXCEPT ![s].tentative = FALSE]]
  IN  IF ~enough THEN t
      ELSE RemoveFrom(t, {x \in Occupied(t.slots) : t.slots[x].pooled /\ t.slots[x].tentative})
ConfirmSource(s, enough) ==
  /\ s \in Occupied(slots) /\ slots[s].ip \in Real /\ slots[s].pooled /\ slots[s].tentative
  /\ \E t \in {Confirm(s, enough)} : Commit(t)
  /\ confirmed' = confirmed + 1

\* change_address_pool_bookkeeping
AddressChanged(r) == IF r.pooled /\ ~r.tentative THEN confirmed - 1 ELSE confirmed

\* update_source_ntp_address and handle_saved_address_update: the new address
\* must be free unless only the port changes.
UpdateAddress(s, ip, port) ==
  /\ s \in Occupied(slots) /\ slots[s].ip \in Real /\ ip \in Real
  /\ ip = slots[s].ip \/ ~FindSlot(slots, size, ip).found
  /\ \E t \in {ChangeAddress(Table, slots[s], Record(ip, port, FALSE))} :
       /\ Commit(t)
       /\ confirmed' = IF t.ok THEN AddressChanged(slots[s]) ELSE confirmed

\* on_remove for the records of the slots S
OnRemove(S) == confirmed' = confirmed - Cardinality({s \in S : slots[s].pooled /\ ~slots[s].tentative})

RemoveSource(ip) ==
  \E f \in {FindSlot(slots, size, ip)} :
    f.found /\ Commit(RemoveFrom(Table, {f.slot})) /\ OnRemove({f.slot})

\* nsr_remove_sources_by_id, and remove_all
RemovePool ==
  LET S == {s \in Occupied(slots) : slots[s].pooled}
  IN  Commit(RemoveFrom(Table, S)) /\ OnRemove(S)
RemoveAll == Commit(RemoveFrom(Table, Occupied(slots))) /\ OnRemove(Occupied(slots))

Next ==
  \/ \E ip \in Real, port \in Ports : AddSource(ip, port)
  \/ \E id \in Ids, port \in Ports, pooled \in BOOLEAN : AddSourceByName(id, port, pooled)
  \/ \E s \in 0..(2 * MaxSources), addrs \in [1..MaxAddrs -> Real] : NameResolved(s, addrs)
  \/ \E s \in 0..(2 * MaxSources), enough \in BOOLEAN : ConfirmSource(s, enough)
  \/ \E s \in 0..(2 * MaxSources), ip \in Real, port \in Ports : UpdateAddress(s, ip, port)
  \/ \E ip \in Ips : RemoveSource(ip)
  \/ RemovePool \/ RemoveAll

Spec == Init /\ [][Next]_nsrvars
-----------------------------------------------------------------------------
Records == [ip : Ips, port : Ports, pooled : BOOLEAN, tentative : BOOLEAN]
\* Type invariant: the table has a slot per hash and never more than MAX_SOURCES records.
NsrTypeOK ==
  /\ hash \in [Ips -> Hashes] /\ size \in Nat \ {0} /\ n_sources \in 0..MaxSources
  /\ slots \in [0..(size - 1) -> Records \union {Free}]
  /\ confirmed \in Int

\* The probe of half the slots is enough: every stored source is found, nothing
\* else is, and no address is stored twice.
NsrFindExact ==
  \A ip \in Ips :
    /\ FindSlot(slots, size, ip).found <=> ip \in Stored(slots)
    /\ \A s, x \in Occupied(slots) : slots[s].ip = slots[x].ip => s = x

\* n_sources counts the occupied slots and the table is the smallest that is
\* large enough for them, so a source that is added always meets a free slot.
NsrSizeExact ==
  /\ n_sources = Cardinality(Occupied(slots))
  /\ CheckSize(n_sources, size)

\* confirmed_sources counts the sources of the pool with a good reply, although
\* adding, confirming, changing an address and removing are separate calls.
NsrConfirmedExact == confirmed = Cardinality({s \in Occupied(slots) : slots[s].pooled /\ ~slots[s].tentative})

AbstractMap == [ip \in Stored(slots) |-> slots[CHOOSE s \in Occupied(slots) : slots[s].ip = ip].port]
Map == INSTANCE SourceMap WITH map <- AbstractMap
\* The open-addressing table implements a finite map from addresses to ports.
NsrImplementsMap == Map!Spec
=============================================================================
