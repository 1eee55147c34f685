--------------------------------- MODULE MCServer ---------------------------------
(*
  The main loop of the daemon, and the tables it consults for each request: the access rules
  and the client log. One of them runs per behaviour.
*)
EXTENDS MainLoop

\* Offsets of one tick back and forth.
BothWays == {-1, 1}

AdfSubnets == {[ip |-> 0, bits |-> 0], [ip |-> 0, bits |-> 1], [ip |-> 0, bits |-> 2],
               [ip |-> 4, bits |-> 2], [ip |-> 0, bits |-> 3], [ip |-> 2, bits |-> 3],
               [ip |-> 0, bits |-> 4], [ip |-> 1, bits |-> 4], [ip |-> 15, bits |-> 4]}

VARIABLES part,   \* the component that runs in this behaviour
          ad_tree, ad_rules,
          lg_hash, lg_slots, lg_records, lg_record_drops, lg_paced,
          rt_hash, rt_slots, rt_records, rt_record_drops, rt_paced

accessVars == <<ad_tree, ad_rules>>
logVars == <<lg_hash, lg_slots, lg_records, lg_record_drops, lg_paced>>
rateVars == <<rt_hash, rt_slots, rt_records, rt_record_drops, rt_paced>>

\* The access table with addresses of four bits in two levels.
Adf == INSTANCE AddrFilt WITH
    Nbits <- 2, Levels <- 2, Subnets <- AdfSubnets, MaxRules <- 3, tree <- ad_tree,
    rules <- ad_rules
\* The client log: its table, and its rate limit.
Log == INSTANCE ClientLog WITH
    Ips <- {"a", "b", "c"}, Unspec <- "unspec", NumServices <- 1, SlotSize <- 2, MaxSlots <- 2,
    TsMod <- 4, Times <- {1, 2}, HitMod <- 2, MaxTokens <- 0, PerHit <- 0, Shift <- 0,
    hash <- lg_hash, slots <- lg_slots, records <- lg_records, record_drops <- lg_record_drops,
    paced <- lg_paced
Limit == INSTANCE ClientLog WITH
    Ips <- {"a"}, Unspec <- "unspec", NumServices <- 1, SlotSize <- 1, MaxSlots <- 1,
    TsMod <- 32, Times <- 0..31, HitMod <- 2, MaxTokens <- 6, PerHit <- 2, Shift <- 1,
    hash <- rt_hash, slots <- rt_slots, records <- rt_records, record_drops <- rt_record_drops,
    paced <- rt_paced

\* One component runs; the others stay in an initial state.
MCInit ==
    /\ part \in {"loop", "access", "log", "rate"}
    /\ MainInit
    /\ Adf!AdfInit
    /\ part = "log" \/ (lg_hash = [ip \in {"a", "b", "c"} |-> 0])
    /\ Log!Init
    /\ Limit!Init

mcvars == <<part, mainVars, accessVars, logVars, rateVars>>

MCNext ==
    \/ part = "loop" /\ MainNext /\ UNCHANGED <<part, accessVars, logVars, rateVars>>
    \/ part = "access" /\ Adf!AdfNext /\ UNCHANGED <<part, mainVars, logVars, rateVars>>
    \/ part = "log" /\ Log!Next /\ UNCHANGED <<part, mainVars, accessVars, rateVars>>
    \/ part = "rate" /\ Limit!Next /\ UNCHANGED <<part, mainVars, accessVars, logVars>>

MCSpec == MCInit /\ [][MCNext]_mcvars

------------------------------------------------------------------------------
\* MainLoop: Type invariant of the loop: its two clocks, its place in main_loop and the queue.
\* AddrFilt: is_allowed answers what the commands given so far mean, for every address, in whatever
\* order wider and narrower subnets were allowed and denied: the nodes opened, overwritten and
\* pruned on the way change no other address.
\* AddrFilt: is_any_allowed, which decides whether the server socket is opened at all, is true
\* exactly when some address is allowed: a tree whose allowed subnets are all overridden by
\* narrower rules counts as closed.
\* ClientLog: A client has at most one record, it is in the slot of its hash for the present size
\* of the table, and no empty record precedes it in the slot (the scan of get_record stops at the
\* first empty one and would create a second record).
\* ClientLog: Type invariant: the table holds whole slots, and tokens and hit counters stay in
\* range.
\* ClientLog: A client whose requests are never closer than the configured interval is never
\* dropped, however the times fall on the boundaries of the token shift and of the wrap of the hit
\* times.
\* ClientLog: A request or a report changes the record of one client: growing the table loses no
\* record and no counter, and a record is evicted only when the table may not grow, one at a time.
ServerSound ==
    /\ [](part = "loop" => MainTypeOK)
    /\ [](part = "access" => Adf!AdfDecisionExact)
    /\ [](part = "access" => Adf!AdfAnyExact)
    /\ [](part = "log" => Log!LogTableSound)
    /\ [](part = "rate" => Limit!LogTypeOK)
    /\ [](part = "rate" => Limit!LogPacedServed)
    /\ Log!LogRecordsKept
==============================================================================
