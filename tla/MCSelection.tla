------------------------------- MODULE MCSelection -------------------------------
(*
  The registry of sources (sources.rs) twice: selection between two sources, and the life of a
  single source. One of the two runs per behaviour.
*)
EXTENDS SourceRegistry

Kind(n, type, auth, conf) == [ref_id |-> n, type |-> type, auth |-> auth, conf |-> conf]

\* An authenticated NTP source, and one that is not but is preferred: with
\* authselectmode mix the first becomes trusted and required.
NtpKinds == {Kind(1, "ntp", TRUE, {}), Kind(2, "ntp", FALSE, {"prefer"})}

\* An NTP source and a reference clock.
LifeKinds == {Kind(1, "ntp", FALSE, {}), Kind(2, "refclock", FALSE, {})}

Datum(verdict, lo, hi, level, far) ==
  [verdict |-> verdict, lo |-> lo, hi |-> hi, first |-> 1, last |-> 0, level |-> level, far |-> far]

\* A near and a distant good source, and one that disagrees.
SelectData == {Datum("Ok", 0, 1, 0, FALSE), Datum("Ok", 0, 2, 2, FALSE), Datum("Ok", 3, 3, 0, FALSE)}

\* A good source, one with old samples only, one without statistics, one too far away.
LifeData == {Datum("Ok", 0, 1, 0, FALSE), [Datum("Ok", 0, 1, 0, FALSE) EXCEPT !.last = 2],
             Datum("BadStats", 0, 0, 0, FALSE), Datum("BadDistance", 0, 0, 0, FALSE)}

\* Dumps of a synchronised clock, with more of a register than is kept.
LifeDumps == {[auth |-> TRUE, reach |-> 5, size |-> 9, stratum |-> 0, leap |-> "normal"]}

VARIABLES part,   \* the component that runs in this behaviour
          life_sources, life_selected, life_last_updated, life_calls, life_sel_level, life_since

lifeVars == <<life_sources, life_selected, life_last_updated, life_calls, life_sel_level,
              life_since>>

\* The life of one source, of either type: polls, resets, dumps, options, status changes.
Life == INSTANCE SourceRegistry WITH
    Kinds <- LifeKinds, Data <- LifeData, Dumps <- LifeDumps, Mode <- "ignore",
    Strata <- {1, 16}, Leaps <- {"normal"}, Options <- {{"noselect"}}, Actives <- BOOLEAN,
    LeapCloses <- BOOLEAN, Polls <- BOOLEAN, OrphanStratum <- 16, LocalRefid <- 2,
    MinSources <- 1, NormalModes <- BOOLEAN, SampleCounts <- {0, 3}, MinSamples <- 3,
    ReachBits <- 2, BadThreshold <- 2, DistantPenalty <- 1, ScoreLimit <- 4, CombineLimit <- 2,
    MaxSources <- 1, MaxUpdates <- 1, MaxBad <- 3, sources <- life_sources,
    selected <- life_selected, last_updated <- life_last_updated, calls <- life_calls,
    sel_level <- life_sel_level, since <- life_since

\* One component runs; the others stay in an initial state.
MCInit ==
    /\ part \in {"select", "life"}
    /\ Init
    /\ Life!Init

mcvars == <<part, vars, lifeVars>>

MCNext ==
    \/ part = "select" /\ Next /\ UNCHANGED <<part, lifeVars>>
    \/ part = "life" /\ Life!Next /\ UNCHANGED <<part, vars>>

MCSpec == MCInit /\ [][MCNext]_mcvars

------------------------------------------------------------------------------
\* SourceRegistry: What selection and the life of a source leave in the table: the four invariants
\* together, none of which is preserved by itself (a pass reads the penalty of the selected source,
\* a destruction moves the index it is at).
\* SourceRegistry: A selected source that is still selectable is not replaced by another one at its
\* first update after it was selected, unless a reselection is forced: scores earned against an
\* earlier selected source do not count (SCORE_LIMIT, the reset of sel_score on a change).
ChangesJustified ==
    /\ [](part = "life" => Life!RegistrySound)
    /\ NoEarlyChange
==============================================================================
