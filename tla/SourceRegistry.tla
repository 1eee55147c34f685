--------------------------- MODULE SourceRegistry ---------------------------
(***************************************************************************)
(* The table of sources and the selection of the reference source          *)
(* (sources/registry.rs, sources/combine.rs).  A pass of select_source     *)
(* classifies every source, rejects falsetickers, applies trust, require   *)
(* and prefer, scores the rest against the selected source, and hands a    *)
(* combination to the reference module.                                    *)
(*                                                                         *)
(* Indices are those of the code plus one, and 0 is INVALID_SOURCE.  What  *)
(* the sample statistics say of a source is chosen anew for every pass     *)
(* from Data.  A distance is a power of two and stands for the root        *)
(* distance with the weight of the stratum and the reselect distance; a    *)
(* score is then a power of two as well, and both are held as exponents.   *)
(***************************************************************************)
EXTENDS Integers, Sequences, FiniteSetsExt, Falsetickers

CONSTANTS
  Kinds,           \* the sources there may be: [ref_id, type, auth, conf]
  Data,            \* selection data: [verdict, lo, hi, first, last, level, far]
  Dumps,           \* dump files: [auth, reach, size, stratum, leap]
  Mode,            \* authselectmode
  Strata, Leaps,   \* what a source may announce
  Options,         \* option sets that may be configured at run time
  LeapCloses,      \* answers of ref_is_leap_second_close: in BOOLEAN
  Polls,           \* a subset of BOOLEAN: outcomes of polls, if reachability is to change
  Actives,         \* a subset of BOOLEAN: calls of set_active, unset_active
  OrphanStratum, LocalRefid, MinSources,
  NormalModes,     \* whether the reference mode is the normal one: in BOOLEAN
  SampleCounts,    \* numbers of samples a source may have
  MinSamples,      \* MIN_SAMPLES_FOR_REGRESS
  ReachBits,       \* SOURCE_REACH_BITS
  BadThreshold,    \* BAD_HANDLE_THRESHOLD
  DistantPenalty,  \* DISTANT_PENALTY
  ScoreLimit,      \* the least exponent above SCORE_LIMIT (4: 2^4 > 10)
  CombineLimit,    \* the least exponent above combine_limit (2: 2^2 > 3)
  MaxSources,      \* bound: sources at a time
  MaxUpdates,      \* bound: updates are counted up to here (only 0 differs)
  MaxBad           \* bound of the bad counter, after which it starts again

VARIABLES
  sources,       \* the table, a sequence of records
  selected,      \* selected_source_index
  last_updated,  \* last_updated_inst
  calls,         \* what the last operation told the other modules
  sel_level,     \* the distance of the selected source in its sel_info
  since          \* history: whether an update followed the selection's last change

vars == <<sources, selected, last_updated, calls, sel_level, since>>

Statuses == {"Ok", "Unselectable", "Unsynchronised", "BadStats", "BadDistance", "Jittery",
             "WaitsStats", "Stale", "Orphan", "Untrusted", "Falseticker", "WaitsSources",
             "Nonpreferred", "WaitsUpdate", "Distant", "Unselected", "Selected"}

AllOptions == {"noselect", "prefer", "trust", "require"}
AllLeaps == {"normal", "insert", "delete", "unsynchronised"}

Indices == 1..Len(sources)

Source == [ref_id : Nat \ {0}, type : {"ntp", "refclock"}, auth : BOOLEAN,
           conf : SUBSET AllOptions, options : SUBSET AllOptions,
           active : BOOLEAN, reach : 0..(2^ReachBits - 1), size : 0..ReachBits,
           updates : 0..MaxUpdates, distant : 0..DistantPenalty, bad : 0..MaxBad,
           status : Statuses \ {"Ok"}, score : Nat,
           stratum : Nat, leap : AllLeaps, vote : BOOLEAN,
           latest : BOOLEAN]   \* history: the source updated last

\* Calls to the reference module, sources handed to NSR_HandleBadSource,
\* whether the host is asked to run a selection, and (history) whether the
\* operation was a forced reselection.
Calls == [ref : {"none", "unsync", "set", "leap"}, by : Nat, leap : AllLeaps,
          replace : SUBSET Nat, select : BOOLEAN, forced : BOOLEAN]

NoCalls == [ref |-> "none", by |-> 0, leap |-> "normal", replace |-> {}, select |-> FALSE,
            forced |-> FALSE]

Verdicts == {"Ok", "BadStats", "BadDistance", "Jittery"}

\* A dump holds a register that its size counts (save_source), and the powers
\* of two are those of arithmetic.
ASSUME RegistryAssumption ==
  /\ Kinds \subseteq [ref_id : Nat \ {0}, type : {"ntp", "refclock"}, auth : BOOLEAN, conf : SUBSET AllOptions]
  /\ Data \subseteq [verdict : Verdicts, lo : Int, hi : Int, first : Int, last : Int, level : Nat, far : BOOLEAN]
  /\ Dumps \subseteq [auth : BOOLEAN, reach : Nat, size : Nat, stratum : Nat, leap : AllLeaps]
  /\ Strata \subseteq Nat /\ Leaps \subseteq AllLeaps /\ Options \subseteq SUBSET AllOptions
  /\ Polls \subseteq BOOLEAN /\ Actives \subseteq BOOLEAN /\ LeapCloses \subseteq BOOLEAN
  /\ {ReachBits, DistantPenalty, ScoreLimit} \subseteq Nat \ {0} /\ {MaxSources, MaxUpdates, MaxBad} \subseteq Nat
  /\ \A dump \in Dumps : dump.size < ReachBits => dump.reach < 2^dump.size
  /\ 2^0 = 1 /\ \A n \in 0..ReachBits : 2^n \in Nat \ {0} /\ 2^(n + 1) = 2 * 2^n

\* Type invariant of the registry: the table, the selection and the last calls.
TypeOK ==
  /\ sources \in Seq(Source) /\ Len(sources) <= MaxSources
  /\ selected \in 0..Len(sources)
  /\ last_updated \in 0..MaxSources
  /\ calls \in Calls
  /\ sel_level \in Nat /\ since \in BOOLEAN

Init ==
  /\ sources = << >>
  /\ selected = 0 /\ last_updated = 0
  /\ calls = NoCalls
  /\ sel_level = 0 /\ since = FALSE

-----------------------------------------------------------------------------
(* The selection pass.  srcs is the table at its start, sel the selected   *)
(* source, upd the one that just got a sample (0: none), last the one      *)
(* updated last, d the selection data.                                     *)

\* The greatest of S, at least 0.
Greatest(S) == CHOOSE x \in S \cup {0} : \A y \in S \cup {0} : y <= x

\* Classification by options, leap status and statistics.
Classify(s, data) ==
  IF "noselect" \in s.options THEN "Unselectable"
  ELSE IF s.leap = "unsynchronised" THEN "Unsynchronised" ELSE data.verdict

WithStatus(S, st, f) == [i \in DOMAIN f |-> IF i \in S THEN st ELSE f[i]]

\* Sources that passed the classification and are neither stale nor orphans;
\* with none of those, the orphan with the least reference id.
StaleOrOrphan(srcs, d, st) ==
  LET ok     == {i \in DOMAIN st : st[i] = "Ok"}
      ago    == Greatest({d[i].first : i \in {j \in ok : srcs[j].reach # 0}})
      stale  == {i \in ok : srcs[i].reach = 0 /\ ago < d[i].last}
      orphan == {i \in ok \ stale : srcs[i].stratum >= OrphanStratum /\ srcs[i].type = "ntp"}
      heads  == {i \in orphan : srcs[i].stratum = OrphanStratum /\ srcs[i].reach # 0}
      head   == {i \in heads : /\ \A j \in heads : srcs[i].ref_id <= srcs[j].ref_id
                               /\ LocalRefid # 0 /\ srcs[i].ref_id < LocalRefid}
      saved  == IF ok \ (stale \cup orphan) = {} THEN head ELSE {}
  IN WithStatus(stale, "Stale", WithStatus(orphan \ saved, "Orphan", st))

\* On start, with a source that lacks statistics and is polled like the others.
WaitsForStats(srcs, st, sel) ==
  LET first(c) == {i \in DOMAIN st : st[i] = c}
      good == first("Ok") \cup first("Stale") \cup first("Orphan")
      reach(S) == Greatest({srcs[i].reach : i \in S})
  IN /\ first("BadStats") # {} /\ first("Ok") # {} /\ sel = 0
     /\ Greatest({srcs[i].size : i \in good}) < ReachBits
     /\ reach(good) \div 2 = reach(first("BadStats"))

\* get_leap_status
LeapStatus(srcs) ==
  LET votes(S) == Cardinality({i \in DOMAIN srcs : srcs[i].vote /\ srcs[i].leap \in S})
      half == votes(AllLeaps) \div 2
  IN IF votes({"insert"}) > half THEN "insert"
     ELSE IF votes({"delete"}) > half THEN "delete" ELSE "normal"

\* Scores after a pass.  They are updated for a source that got a sample, and
\* for all when the selected one, at distance level, did; with none selected
\* they start afresh.
Rescore(srcs, cands, sel, level, upd, d) ==
  [i \in DOMAIN srcs |->
     IF i \notin cands THEN 0
     ELSE IF sel = 0 THEN - d[i].level
     ELSE IF upd \in {i, sel} THEN Greatest({srcs[i].score + level - d[i].level})
     ELSE srcs[i].score]

\* The first source of the greatest score.
MaxScoreIndex(cands, score) ==
  CHOOSE i \in cands : \A j \in cands : score[j] < score[i] \/ (score[j] = score[i] /\ i <= j)

\* combine_sources, what it does to the distant counters: a source too far
\* from the selected one sits out, a single source is left alone.
CombinedDistant(srcs, cands, sel, d) ==
  LET far(i) == i # sel /\ (d[i].far \/ d[i].level - d[sel].level >= CombineLimit)
  IN [i \in DOMAIN srcs |->
        IF i \notin cands \/ cands = {sel} THEN srcs[i].distant
        ELSE IF far(i) THEN (IF srcs[i].size >= ReachBits THEN DistantPenalty ELSE 1)
        ELSE Greatest({srcs[i].distant - 1})]

\* The end of a pass without a selected source, and with one.
Unselected(srcs, st, ref) ==
  [srcs |-> srcs, st |-> st, sel |-> 0, level |-> 0, ref |-> ref, leap |-> "normal"]

Outcome(srcs, st, sel, level, ref, leap) ==
  [srcs |-> srcs, st |-> st, sel |-> sel, level |-> level, ref |-> ref, leap |-> leap]

\* With the selected source known: no reference update without a new sample
\* of it; otherwise combine and set the reference.
Refer(srcs, st, cands, sel, d) ==
  LET marked(dist) == [i \in DOMAIN st |->
                         IF i \notin cands THEN st[i]
                         ELSE IF i = sel /\ (srcs[sel].updates = 0 \/ dist[i] = 0 \/ cands = {sel})
                              THEN "Selected"
                         ELSE IF dist[i] # 0 THEN "Distant" ELSE "Unselected"]
      used == [i \in DOMAIN srcs |-> [srcs[i] EXCEPT !.updates = 0]]
      dist == CombinedDistant(srcs, cands, sel, d)
  IN IF srcs[sel].updates = 0
     THEN Outcome(srcs, marked([i \in DOMAIN srcs |-> srcs[i].distant]),
                  sel, d[sel].level, "none", "normal")
     ELSE Outcome([i \in DOMAIN srcs |-> [used[i] EXCEPT !.distant = dist[i]]],
                  marked(dist), sel, d[sel].level, "set", LeapStatus(srcs))

\* Mutant: the preference only counts in the scores.
PreferredAll(srcs, adm) == adm

\* The prefer reduction.
Preferred(srcs, adm) ==
  LET pref == {i \in adm : "prefer" \in srcs[i].options} IN IF pref = {} THEN adm ELSE pref

\* Mutant: the scores outlive a change of the selected source.
RenewedDistant(srcs) == [i \in DOMAIN srcs |-> [srcs[i] EXCEPT !.distant = 0]]

\* A change of the selected source forgets scores and penalties.
Renewed(srcs) == [i \in DOMAIN srcs |-> [srcs[i] EXCEPT !.score = 0, !.distant = 0]]

\* Votes, the prefer reduction, the scores, and the change of the selected
\* source: only when there is none, it is not selectable any more, or another
\* one has earned a score above the limit.  Scores of a pass that selects none
\* are not read again and not kept.
Elect(srcs, st, adm, trusting, sel, level, upd, d) ==
  LET cands   == Preferred(srcs, adm)
      score   == Rescore(srcs, cands, sel, level, upd, d)
      best    == MaxScoreIndex(cands, score)
      change  == sel = 0 \/ sel \notin cands \/ (best # sel /\ score[best] >= ScoreLimit)
      st1     == WithStatus(adm \ cands, "Nonpreferred", st)
      voting  == [i \in DOMAIN srcs |->
                    [srcs[i] EXCEPT !.vote = i \in adm /\ (trusting => "trust" \in srcs[i].options),
                                    !.score = score[i],
                                    !.distant = IF i \in cands THEN @ ELSE DistantPenalty]]
  IN IF ~ change THEN Refer(voting, st1, cands, sel, d)
     ELSE IF srcs[best].updates = 0
          THEN Unselected([i \in DOMAIN srcs |-> [voting[i] EXCEPT !.score = 0]],
                          WithStatus(cands, "WaitsUpdate", st1), "none")
          ELSE Refer(Renewed(voting), st1, cands, best, d)

\* Mutant: a required source need not be admitted.
MissingRequiredKnown(srcs, adm) ==
  LET required == {i \in DOMAIN srcs : "require" \in srcs[i].options}
  IN required # {} /\ required \cap DOMAIN srcs = {}

\* Some source is required and none of those is admitted.
MissingRequired(srcs, adm) ==
  LET required == {i \in DOMAIN srcs : "require" \in srcs[i].options}
  IN required # {} /\ required \cap adm = {}

\* select_source up to the marks.
Pass(srcs0, sel, level0, upd, d) ==
  LET st0  == [i \in DOMAIN srcs0 |-> Classify(srcs0[i], d[i])]
      srcs == [i \in DOMAIN srcs0 |-> [srcs0[i] EXCEPT !.vote = FALSE]]
      level == IF sel = 0 \/ st0[sel] \in {"Unselectable", "Unsynchronised"} THEN level0 ELSE d[sel].level
      st   == StaleOrOrphan(srcs, d, st0)
      ok   == {i \in DOMAIN st : st[i] = "Ok"}
      cand == [i \in ok |-> [lo |-> d[i].lo, hi |-> d[i].hi,
                              trusted |-> "trust" \in srcs[i].options]]
      b    == Sweep(cand)
      adm  == Admissible(cand, b)
      st1  == WithStatus(ok \ Agreeing(cand, b), "Falseticker",
                         WithStatus(Agreeing(cand, b) \ adm, "Untrusted", st))
  IN IF ok = {} THEN Unselected(srcs, st, "none")
     ELSE IF WaitsForStats(srcs, st, sel)
     THEN Unselected(srcs, WithStatus(ok, "WaitsStats", st), "none")
     ELSE IF ~ HasMajority(cand, b)
     THEN Unselected(srcs, WithStatus(ok, "Falseticker", st), IF sel = 0 THEN "none" ELSE "unsync")
     ELSE IF adm = {} \/ MissingRequired(srcs, adm) \/ Cardinality(adm) < MinSources
     THEN Unselected(srcs, WithStatus(adm, "WaitsSources", st1), "none")
     ELSE Elect(srcs, st1, adm, b.best_trust_depth # 0, sel, level, upd, d)

-----------------------------------------------------------------------------
(* The operations. *)

BadStatuses == {"Falseticker", "BadDistance", "Jittery"}

RefIdAt(srcs, i) == IF i = 0 THEN 0 ELSE srcs[i].ref_id

\* mark_source for every source, once: the bad counter follows the source at
\* index last, and past its threshold the source is to be replaced.
Marked(o, last) ==
  [i \in DOMAIN o.srcs |->
     [o.srcs[i] EXCEPT !.status = o.st[i],
        !.bad = IF i # last THEN @
                ELSE IF @ < MaxBad /\ o.st[i] \in BadStatuses THEN @ + 1 ELSE 0]]

\* select_source on the table srcs with sel selected; forced: by reselect_source.
Select(srcs, sel, upd, last, forced) ==
  \E o \in {Pass(srcs, sel, sel_level, upd, d) : d \in [DOMAIN srcs -> Data]} :
    \E m \in {Marked(o, last)} :
      LET tired == {i \in DOMAIN m \cap {last} : m[i].bad >= BadThreshold /\ m[i].type = "ntp"}
      IN /\ sources' = m
         /\ selected' = o.sel
         /\ sel_level' = o.level
         /\ last_updated' = last
         /\ calls' = [NoCalls EXCEPT !.ref = o.ref, !.leap = o.leap, !.forced = forced,
                                     !.by = IF o.ref = "set" THEN m[o.sel].ref_id ELSE 0,
                                     !.replace = {m[i].ref_id : i \in tired}]
         /\ since' = IF RefIdAt(m, o.sel) # RefIdAt(sources, selected) THEN FALSE ELSE since \/ upd # 0

\* select_source: for the source u that got a sample, or for none (0), as
\* slew_sources does after an unknown step.
SelectSource(u) ==
  Select([i \in Indices |->
            [sources[i] EXCEPT !.updates = IF i = u THEN Min({@ + 1, MaxUpdates}) ELSE @,
                               !.latest = IF u = 0 THEN @ ELSE i = u]],
         selected, u, IF u = 0 THEN last_updated ELSE u, FALSE)

\* reselect_source
ReselectSource == Select(sources, 0, 0, last_updated, TRUE)

\* The table without the source at index i.
RemoveAt(s, i) == SubSeq(s, 1, i - 1) \o SubSeq(s, i + 1, Len(s))

\* Mutant: the indices and the selection are left to the next pass.
DestroyInstanceLate(i) ==
  /\ sources' = RemoveAt(sources, i)
  /\ selected' = IF selected = i THEN 0 ELSE selected
  /\ last_updated' = IF last_updated = i THEN 0 ELSE last_updated
  /\ calls' = NoCalls
  /\ UNCHANGED <<sel_level, since>>

\* destroy_instance: the selected index follows the move of the table, the
\* index of the last update does not.
DestroyInstance(i) ==
  Select(RemoveAt(sources, i),
         IF selected > i THEN selected - 1 ELSE IF selected = i THEN 0 ELSE selected, 0,
         IF last_updated = i THEN 0 ELSE last_updated, FALSE)

\* The fields of a source after reset_instance_fields.
Fresh(s) == [s EXCEPT !.updates = 0, !.reach = 0, !.size = 0, !.distant = 0, !.bad = 0,
                      !.status = "BadStats", !.score = 0, !.stratum = 0,
                      !.leap = "unsynchronised", !.vote = FALSE]

\* create_new_instance
CreateInstance(k) ==
  /\ Len(sources) < MaxSources
  /\ \A i \in Indices : sources[i].ref_id # k.ref_id
  /\ sources' = Append(sources, Fresh(
       [ref_id |-> k.ref_id, type |-> k.type, auth |-> k.auth, conf |-> k.conf, options |-> k.conf,
        active |-> FALSE, reach |-> 0, size |-> 0, updates |-> 0, distant |-> 0, bad |-> 0,
        status |-> "BadStats", score |-> 0, stratum |-> 0,
        leap |-> "unsynchronised", vote |-> FALSE, latest |-> FALSE]))
  /\ calls' = NoCalls
  /\ UNCHANGED <<selected, last_updated, sel_level, since>>

\* reset_instance: the host is asked for a selection if it was the selected one.
ResetInstance(i) ==
  /\ sources' = [sources EXCEPT ![i] = Fresh(@)]
  /\ calls' = [NoCalls EXCEPT !.select = selected = i]
  /\ sel_level' = IF selected = i THEN 0 ELSE sel_level
  /\ UNCHANGED <<selected, last_updated, since>>

\* reset_sources
ResetSources ==
  /\ sources' = [i \in Indices |-> Fresh(sources[i])]
  /\ calls' = [NoCalls EXCEPT !.select = selected # 0]
  /\ sel_level' = 0
  /\ UNCHANGED <<selected, last_updated, since>>

\* update_status: around a leap second the leap status is kept as it was.
UpdateStatus(i, stratum, leap, close) ==
  LET srcs == [sources EXCEPT ![i].stratum = stratum, ![i].leap = IF close THEN @ ELSE leap]
  IN /\ sources' = srcs
     /\ calls' = IF ~ close /\ srcs[i].vote
                 THEN [NoCalls EXCEPT !.ref = "leap", !.leap = LeapStatus(srcs)] ELSE NoCalls
     /\ UNCHANGED <<selected, last_updated, sel_level, since>>

\* set_active, unset_active
SetActive(i, on) ==
  /\ sources' = [sources EXCEPT ![i].active = on]
  /\ calls' = NoCalls
  /\ UNCHANGED <<selected, last_updated, sel_level, since>>

\* special_mode_end: no active source can still get enough samples.
SpecialModeEnd(srcs, samples) ==
  \A i \in DOMAIN srcs : srcs[i].active =>
    \/ srcs[i].size >= ReachBits - 1
    \/ ReachBits - 1 - srcs[i].size + samples[i] < MinSamples

\* The reachability register takes in one more poll.
Shifted(s, reachable) ==
  [s EXCEPT !.reach = (2 * @ + (IF reachable THEN 1 ELSE 0)) % 2^ReachBits,
            !.size = Min({@ + 1, ReachBits})]

\* update_reachability on the table srcs
Reachability(srcs, i, reachable) ==
  \E normal \in NormalModes, samples \in [Indices -> SampleCounts] :
    LET new == [srcs EXCEPT ![i] = Shifted(@, reachable)]
        lost == new[i].reach = 0 /\ new[i].size = ReachBits /\ new[i].type = "ntp"
    IN /\ sources' = new
       /\ calls' = [NoCalls EXCEPT !.select = ~ reachable /\ i = selected,
                                   !.ref = IF ~ normal /\ SpecialModeEnd(new, samples)
                                           THEN "unsync" ELSE "none",
                                   !.replace = IF lost THEN {new[i].ref_id} ELSE {}]
       /\ UNCHANGED <<selected, last_updated, sel_level, since>>

UpdateReachability(i, reachable) == Reachability(sources, i, reachable)

\* reset_reachability: the register is cleared, then a miss goes in.
ResetReachability(i) ==
  Reachability([sources EXCEPT ![i].reach = 0, ![i].size = 0], i, FALSE)

\* update_sel_options: the options authselectmode adds to the configured ones.
WithSelOptions(srcs) ==
  LET ntp(a) == {i \in DOMAIN srcs : /\ "noselect" \notin srcs[i].conf
                                     /\ srcs[i].type = "ntp" /\ srcs[i].auth = a}
      added(s) ==
        CASE "noselect" \in s.conf -> {}
          [] Mode = "mix" /\ ntp(TRUE) # {} /\ ntp(FALSE) # {} /\ (s.type = "refclock" \/ s.auth)
               -> {"require", "trust"}
          [] Mode \in {"prefer", "require"} /\ ntp(TRUE) # {} /\ s.type = "ntp" /\ ~ s.auth
               -> {"noselect"}
          [] OTHER -> {}
  IN [i \in DOMAIN srcs |-> [srcs[i] EXCEPT !.options = srcs[i].conf \cup added(srcs[i])]]

UpdateSelOptions ==
  /\ sources' = WithSelOptions(sources)
  /\ calls' = NoCalls
  /\ UNCHANGED <<selected, last_updated, sel_level, since>>

\* modify_select_options, with a mask of all options.
ModifySelectOptions(i, options) ==
  /\ sources[i].conf # options
  /\ sources' = WithSelOptions([sources EXCEPT ![i].conf = options])
  /\ calls' = NoCalls
  /\ UNCHANGED <<selected, last_updated, sel_level, since>>

\* load_source: the dump of a reference clock, unless it lacks authentication
\* or was saved unsynchronised; an NTP source has no name here and is left.
Loaded(s, dump) ==
  IF s.type = "ntp" \/ (s.auth /\ ~ dump.auth) \/ dump.leap = "unsynchronised" THEN s
  ELSE [s EXCEPT !.reach = dump.reach % 2^ReachBits, !.size = Min({dump.size, ReachBits}),
                 !.stratum = dump.stratum, !.leap = dump.leap]

\* reload_sources: what has a dump is loaded, and the reference may be updated
\* from every source at once.
ReloadSources ==
  \E S \in SUBSET Indices, f \in [Indices -> Dumps] :
    LET srcs == [i \in Indices |-> [(IF i \in S THEN Loaded(sources[i], f[i]) ELSE sources[i])
                                      EXCEPT !.updates = Min({@ + 1, MaxUpdates})]]
    IN Select(srcs, selected, 0, last_updated, FALSE)

Next ==
  \/ \E k \in Kinds : CreateInstance(k)
  \/ \E i \in Indices :
       \/ DestroyInstance(i) \/ ResetInstance(i)
       \/ Polls # {} /\ ResetReachability(i)
       \/ \E on \in Actives : SetActive(i, on)
       \/ \E reachable \in Polls : UpdateReachability(i, reachable)
       \/ \E stratum \in Strata, leap \in Leaps, close \in LeapCloses : UpdateStatus(i, stratum, leap, close)
       \/ \E options \in Options : ModifySelectOptions(i, options)
  \/ \E u \in 0..Len(sources) : SelectSource(u)
  \/ ReselectSource \/ ResetSources \/ UpdateSelOptions \/ ReloadSources

Spec == Init /\ [][Next]_vars

-----------------------------------------------------------------------------
(* Properties. *)

\* The status Selected belongs to the source of selected_source_index and to
\* no other, whatever is destroyed, reset or reloaded in between, and the
\* selected source is never held back from combining with itself; only a
\* reset leaves the index on a source without that status, until the host
\* runs the selection it was asked for (select_source, destroy_instance).
SelectedMatches ==
  /\ \A i \in Indices : sources[i].status = "Selected" => i = selected
  /\ selected # 0 => /\ sources[selected].status \in {"Selected", "BadStats"}
                     /\ sources[selected].distant = 0

\* A source that is combined has no penalty left to sit out, and one that is
\* shown as distant has (Refer and combine_sources mark by the counter that
\* resets, score updates and earlier passes left).
DistantConsistent ==
  \A i \in Indices :
    /\ sources[i].status = "Unselected" => sources[i].distant = 0
    /\ sources[i].status = "Distant" => sources[i].distant > 0

\* The reachability register never holds a poll that its size does not count,
\* so a full and empty register means that many misses in a row before a
\* source is replaced (update_reachability, reset_reachability, load_source).
ReachSound ==
  \A i \in Indices : sources[i].reach < 2^sources[i].size

\* What selection and the life of a source leave in the table: the four
\* invariants together, none of which is preserved by itself (a pass reads the
\* penalty of the selected source, a destruction moves the index it is at).
RegistrySound == TypeOK /\ SelectedMatches /\ DistantConsistent /\ ReachSound

\* A selected source that is still selectable is not replaced by another one
\* at its first update after it was selected, unless a reselection is forced:
\* scores earned against an earlier selected source do not count (SCORE_LIMIT,
\* the reset of sel_score on a change).
NoEarlyChange ==
  [][ (/\ selected # 0 /\ selected' # 0 /\ ~ calls'.forced
       /\ RefIdAt(sources, selected) # RefIdAt(sources', selected')
       /\ \E i \in DOMAIN sources' : /\ sources'[i].ref_id = sources[selected].ref_id
                                     /\ sources'[i].status \in {"Unselected", "Distant"})
      => since ]_vars

\* When a source is selected, no source with the prefer option is left among
\* the combinable ones unless the selected one has that option too, also when
\* options were changed since the last pass (the prefer reduction).
PreferRespected ==
  [][ (selected' # 0 /\ RefIdAt(sources, selected) # RefIdAt(sources', selected'))
      => \A i \in DOMAIN sources' :
           ("prefer" \in sources'[i].options /\ sources'[i].status \in {"Unselected", "Distant"})
             => "prefer" \in sources'[selected'].options ]_vars

\* The reference is set only if every kind of source that is required takes
\* part: as long as some source has the require option, as authselectmode mix
\* gives it, one of those is among the sources that passed as truechimers
\* (sel_req_source in select_source).
RequireRespected ==
  [][ (calls'.ref = "set" /\ \E i \in DOMAIN sources' : "require" \in sources'[i].options)
      => \E i \in DOMAIN sources' :
           /\ "require" \in sources'[i].options
           /\ sources'[i].status \in {"Selected", "Unselected", "Distant", "Nonpreferred"} ]_vars

=============================================================================
