------------------------------- MODULE Daemon -------------------------------
(***************************************************************************)
(* The life of chronyd-rs (lab_daemon of main.rs): the start-up sequence   *)
(* and the ways it fails, the timers, the receive handler that turns       *)
(* samples into a selection and a clock adjustment, the periodic save of   *)
(* the drift file, the shutdown, and a kill at any point, after which the  *)
(* program may be started again.                                           *)
(*                                                                         *)
(* What outlives the process: the kernel's frequency, the drift file and   *)
(* its temporary file, the PID file.  Frequencies are integers (0 is "no   *)
(* correction").  Any armed timer may be the next to fire; a timer re-armed *)
(* with an empty closure changes nothing when it fires and is left out.    *)
(* Every adjtimex call the daemon makes with modes 0x0002 (MOD_FREQUENCY)  *)
(* and freq 0 is a write of frequency 0 as well as a read.                 *)
(***************************************************************************)
EXTENDS Integers, FiniteSets, Sequences

CONSTANTS Srcs,         \* the configured NTP sources
          Freqs,        \* the frequencies a drift file may hold or a source may show
          Limits,       \* finite makestep limits (-1 stands for no limit)
          MaxSamples,   \* bound: samples counted per source
          MinSamples,   \* samples SST_GetSelectionData needs
          MaxSteps      \* bound: steps counted in one life

\* A makestep limit is a number of steps; timers of sources have names of their own.
ASSUME DaemonAssumption ==
    Limits \subseteq Nat /\ Srcs \cap {"once", "drift", "reload", "ifaces", "addr", "refresh"} = {}

VARIABLES conf,         \* the configuration of this installation
          stage,        \* where lab_daemon is
          loaded,       \* drift_freq_ppm, read from the drift file
          kfreq,        \* the kernel's frequency
          drift,        \* the drift file
          tmp,          \* the temporary file next to it
          pid,          \* the PID file exists
          timers,       \* armed timers with work to do
          rdtimeout,    \* the NTP socket has its 100 ms read timeout
          sock,         \* packets that wait in the socket: <<source, kind>>
          reg,          \* SourceRegistry: leap status and samples per source
          selected,     \* selected_index
          step_count,   \* DaemonState.step_count
          steps,        \* history: clock steps of this life
          touched       \* history: the frequency was written since the start-up

daemonvars == <<conf, stage, loaded, kfreq, drift, tmp, pid, timers, rdtimeout, sock, reg,
                selected, step_count, steps, touched>>

diskvars == <<drift, tmp, pid>>
runvars == <<timers, rdtimeout, sock, reg, selected, step_count, steps>>

None == "none"          \* no source
NoFile == <<>>          \* a file that does not exist
Holds(f) == <<f>>       \* a file that holds frequency f
Part == <<0, 0>>        \* a file cut short

\* "once" stands for the timers that run once and leave this state alone: the
\* configuration watch, the TAI refresh, broadcast, manycast, the leap second.
Oneshot == {"once", "drift"}
Periodic == {"reload", "ifaces", "addr", "refresh"}
Polls == Srcs            \* the poll timer of a source is named after it

Conf == [initstep : BOOLEAN,    \* an initstepslew directive
         limit : Limits \cup {-1},       \* makestep limit
         cap : BOOLEAN,         \* CAP_SYS_TIME: lost by drop_privileges
         nodisc : BOOLEAN,      \* -x
         metrics : BOOLEAN]     \* the metrics or health server could bind its port

Stages == {"down", "config", "pid", "state", "sources", "drift", "loop",
           "blocked", "save", "joined", "exitsave", "exit"}

Fresh == [i \in Srcs |-> [leap |-> "unsync", samples |-> 0]]

DaemonInit ==
    /\ conf \in Conf
    /\ stage = "down"
    /\ loaded = 0
    /\ kfreq = 0
    /\ drift \in {NoFile} \cup {Holds(f) : f \in Freqs}
    /\ tmp = NoFile
    /\ pid = FALSE
    /\ timers = {}
    /\ rdtimeout = TRUE
    /\ sock = {}
    /\ reg = Fresh
    /\ selected = None
    /\ step_count = 0 /\ steps = 0
    /\ touched = FALSE

\* adjtimex with MOD_FREQUENCY: refused without CAP_SYS_TIME.
SetFreq(f) == IF conf.cap THEN f ELSE kfreq

----------------------------------------------------------------------------
(* Start-up *)

\* The configuration, then the drift file unless -r.  An unreadable
\* configuration ends the program before anything else happens.
Start(reset) ==
    /\ stage = "down"
    /\ stage' = "config"
    /\ loaded' = IF reset \/ Len(drift) # 1 THEN 0 ELSE drift[1]
    /\ timers' = {} /\ sock' = {} /\ reg' = Fresh /\ selected' = None
    /\ rdtimeout' = TRUE /\ step_count' = 0 /\ steps' = 0 /\ touched' = FALSE
    /\ UNCHANGED <<conf, kfreq, diskvars>>

WritePid ==
    /\ stage = "config"
    /\ stage' = "pid"
    /\ pid' = TRUE
    /\ UNCHANGED <<conf, loaded, kfreq, drift, tmp, runvars, touched>>

\* drop_privileges; on failure lab_daemon returns with the PID file in place.
DropPrivileges(ok) ==
    /\ stage = "pid"
    /\ stage' = IF ok THEN "state" ELSE "down"
    /\ UNCHANGED <<conf, loaded, kfreq, diskvars, runvars, touched>>

\* Reference::initialise, the sockets, the DNS helper, DaemonState::new (which
\* calls read_initial_frequency) and CmdMon::initialise.
NewState ==
    /\ stage = "state"
    /\ stage' = "sources"
    /\ kfreq' = SetFreq(0)
    /\ UNCHANGED <<conf, loaded, diskvars, runvars, touched>>

\* NtpSourceManager::new: one name that does not resolve ends the program;
\* run_init_step_slew removes the socket's read timeout.
NewSources(ok) ==
    /\ stage = "sources"
    /\ IF ok THEN stage' = "drift" /\ rdtimeout' = ~conf.initstep
             ELSE stage' = "down" /\ rdtimeout' = rdtimeout
    /\ UNCHANGED <<conf, loaded, kfreq, diskvars, timers, sock, reg, selected, step_count, steps, touched>>

\* The drift file's frequency goes to the kernel, the handlers and timers are set up.
ApplyDrift ==
    /\ stage = "drift"
    /\ stage' = "loop"
    /\ kfreq' = IF loaded # 0 THEN SetFreq(loaded) ELSE kfreq
    /\ timers' = Polls \cup Oneshot \cup Periodic
    /\ UNCHANGED <<conf, loaded, diskvars, rdtimeout, sock, reg, selected, step_count, steps, touched>>

----------------------------------------------------------------------------
(* The event loop *)

\* Mutant of PollTimer: re-armed with an empty closure, as the others are.
PollTimerOnce(i, answered) ==
    /\ stage = "loop"
    /\ i \in timers
    /\ sock' = IF answered THEN sock \cup {<<i, "answer">>} ELSE sock
    /\ timers' = timers \ {i}
    /\ UNCHANGED <<conf, stage, loaded, kfreq, diskvars, rdtimeout, reg, selected, step_count, steps, touched>>

\* poll_source_handler: send, then re-arm with the source's interval; the
\* source's answer may come or not.
PollTimer(i, answered) ==
    /\ stage = "loop"
    /\ i \in timers
    /\ sock' = IF answered THEN sock \cup {<<i, "answer">>} ELSE sock
    /\ UNCHANGED <<conf, stage, loaded, kfreq, diskvars, timers, rdtimeout, reg, selected, step_count, steps, touched>>

\* A source that broadcasts does so on its own schedule (external).
Broadcast(i) ==
    /\ stage = "loop"
    /\ sock' = sock \cup {<<i, "broadcast">>}
    /\ UNCHANGED <<conf, stage, loaded, kfreq, diskvars, timers, rdtimeout, reg, selected, step_count, steps, touched>>

\* watch_config_file, refresh_tai_offset, the manycast probe and the others:
\* re-armed with an empty closure.
OneshotTimer(t) ==
    /\ stage = "loop"
    /\ t \in timers \cap (Oneshot \ {"drift"})
    /\ timers' = timers \ {t}
    /\ UNCHANGED <<conf, stage, loaded, kfreq, diskvars, rdtimeout, sock, reg, selected, step_count, steps, touched>>

\* schedule_reload_check, check_interfaces, schedule_source_address_check and
\* schedule_refresh re-arm themselves; what they find is only logged.
PeriodicTimer(t) ==
    /\ stage = "loop"
    /\ t \in timers \cap Periodic
    /\ UNCHANGED daemonvars

\* Step 1 of select_source drops a source whose leap status is unsynchronised;
\* a source enters the registry with that status.
Selectable(r) == {i \in Srcs : r[i].leap # "unsync" /\ r[i].samples >= MinSamples}

\* The source was selected: frequency f goes to the kernel, twice (set_reference
\* and the raw call; f = 0 only through read_initial_frequency).
Disciplined(f) == kfreq' = (IF f = 0 /\ conf.nodisc THEN kfreq ELSE SetFreq(f))
                  /\ UNCHANGED <<step_count, steps>>

\* No source was selected: makestep reads the kernel's offset (and writes
\* frequency 0), steps by it when it is big and the limit allows.
MakeStep(big) ==
    IF conf.limit = 0 \/ conf.nodisc THEN UNCHANGED <<kfreq, step_count, steps>>
    ELSE /\ kfreq' = SetFreq(0)
         /\ IF big /\ conf.cap /\ (conf.limit = -1 \/ step_count < conf.limit)
            THEN /\ steps < MaxSteps /\ steps' = steps + 1
                 /\ step_count' = IF conf.limit = -1 THEN step_count ELSE step_count + 1
            ELSE UNCHANGED <<step_count, steps>>

\* What receive_all returns (NtpManager): broadcasts give a sample, answers none,
\* since handle_response rejects each one in test A.
Sampled == {i \in Srcs : <<i, "broadcast">> \in sock}

\* The receive handler: receive_all drains the socket and the handler returns
\* when there is no sample; otherwise the samples go to the registry, a source is
\* selected and the clock adjusted.  Without a read timeout the drain does not return.
ReceiveHandler(f, big) ==
    /\ stage = "loop"
    /\ sock # {}
    /\ sock' = {}
    /\ IF ~rdtimeout
       THEN stage' = "blocked" /\ UNCHANGED <<reg, selected, kfreq, step_count, steps, touched>>
       ELSE IF Sampled = {} THEN UNCHANGED <<stage, reg, selected, kfreq, step_count, steps, touched>>
       ELSE /\ stage' = stage
            /\ reg' = [i \in Srcs |-> IF i \in Sampled /\ reg[i].samples < MaxSamples
                                      THEN [reg[i] EXCEPT !.samples = @ + 1] ELSE reg[i]]
            /\ IF Selectable(reg') # {}
               THEN selected' \in Selectable(reg') /\ Disciplined(f)
               ELSE selected' = None /\ MakeStep(big)
            /\ touched' = TRUE
    /\ UNCHANGED <<conf, loaded, diskvars, timers, rdtimeout>>

----------------------------------------------------------------------------
(* The drift file *)

\* Mutant of WriteTmp: the file is written in place.
WriteInPlace(from, to, cut) ==
    /\ stage = from
    /\ stage' = to
    /\ kfreq' = SetFreq(0)
    /\ drift' = IF cut THEN Part ELSE Holds(-kfreq')
    /\ timers' = timers \ {"drift"}
    /\ touched' = TRUE
    /\ UNCHANGED <<conf, loaded, tmp, pid, rdtimeout, sock, reg, selected, step_count, steps>>

\* The save: adjtimex with modes 0x0002, then write_drift_file writes the
\* temporary file; cut says that the process dies in the write.
WriteTmp(from, to, cut) ==
    /\ stage = from
    /\ stage' = IF cut THEN "down" ELSE to
    /\ kfreq' = SetFreq(0)
    /\ tmp' = IF cut THEN Part ELSE Holds(-kfreq')
    /\ timers' = timers \ {"drift"}
    /\ touched' = TRUE
    /\ UNCHANGED <<conf, loaded, drift, pid, rdtimeout, sock, reg, selected, step_count, steps>>

DriftTimer(cut) == "drift" \in timers /\ WriteTmp("loop", "save", cut)

\* fs::rename, or its failure: the temporary file is removed.
Rename(from, to, ok) ==
    /\ stage = from
    /\ stage' = to
    /\ drift' = IF ok THEN tmp ELSE drift
    /\ tmp' = NoFile
    /\ UNCHANGED <<conf, loaded, kfreq, pid, runvars, touched>>

----------------------------------------------------------------------------
(* The end *)

\* main_loop returns; the threads of the metrics and health servers are joined.
LoopEnds ==
    /\ stage = "loop"
    /\ stage' = "joined"
    /\ UNCHANGED <<conf, loaded, kfreq, diskvars, runvars, touched>>

\* The join returns at once where neither server could bind its port; a server
\* thread never ends.
Joined(cut) == ~conf.metrics /\ WriteTmp("joined", "exitsave", cut)

\* The helper and the command sockets are closed, the PID file is deleted.
Exit ==
    /\ stage = "exit"
    /\ stage' = "down"
    /\ pid' = FALSE
    /\ UNCHANGED <<conf, loaded, kfreq, drift, tmp, runvars, touched>>

\* SIGTERM, SIGINT or a crash: handle_signal is not installed, so the process dies.
Kill ==
    /\ stage # "down"
    /\ stage' = "down"
    /\ UNCHANGED <<conf, loaded, kfreq, diskvars, runvars, touched>>

StartUp == \/ \E reset \in BOOLEAN : Start(reset)
           \/ WritePid
           \/ \E ok \in BOOLEAN : DropPrivileges(ok) \/ NewSources(ok)
           \/ NewState
           \/ ApplyDrift

Finish == \/ \E ok \in BOOLEAN : Rename("save", "loop", ok) \/ Rename("exitsave", "exit", ok)
          \/ Exit

DaemonNext ==
    \/ StartUp
    \/ \E i \in Srcs, a \in BOOLEAN : PollTimer(i, a)
    \/ \E i \in Srcs : Broadcast(i)
    \/ \E t \in Oneshot : OneshotTimer(t)
    \/ \E t \in Periodic : PeriodicTimer(t)
    \/ \E f \in Freqs \cup {0}, big \in BOOLEAN : ReceiveHandler(f, big)
    \/ \E cut \in BOOLEAN : DriftTimer(cut) \/ Joined(cut)
    \/ LoopEnds
    \/ Finish
    \/ Kill

\* The loop fires every armed timer and calls the receive handler while the
\* socket is readable (MainLoop), a source that is polled over and over answers
\* now and then, a save that was begun ends.
DaemonFairness ==
    /\ WF_daemonvars(Finish)
    /\ \A i \in Srcs : WF_daemonvars(PollTimer(i, TRUE))
    /\ WF_daemonvars(\E f \in Freqs \cup {0}, big \in BOOLEAN : ReceiveHandler(f, big))

DaemonSpec == DaemonInit /\ [][DaemonNext]_daemonvars /\ DaemonFairness

----------------------------------------------------------------------------
(* Properties *)

\* Every variable keeps its range over any number of lives.
DaemonTypeOK ==
    /\ conf \in Conf /\ stage \in Stages
    /\ kfreq \in {0} \cup Freqs /\ loaded \in {0} \cup Freqs
    /\ drift \in {NoFile} \cup {Holds(f) : f \in {0} \cup Freqs}
    /\ tmp \in {NoFile, Part} \cup {Holds(f) : f \in {0} \cup {-g : g \in Freqs}}
    /\ timers \subseteq Polls \cup Oneshot \cup Periodic
    /\ sock \subseteq Srcs \X {"answer", "broadcast"} /\ selected \in {None} \cup Srcs
    /\ step_count \in 0..MaxSteps

\* write_drift_file is atomic: wherever the process dies, the drift file is
\* absent or a whole one, never a file cut short, and a rename never puts one there.
DaemonDriftWhole == drift # Part /\ (stage \in {"save", "exitsave"} => tmp # Part)

\* A source is polled for as long as the loop runs: whatever fired before, in
\* whatever order, each source has its poll timer and each periodic task its
\* own, so no chain of handlers forgets to re-arm.
DaemonPollsArmed == stage \in {"loop", "save"} => Polls \cup Periodic \subseteq timers

\* makestep: the clock is never stepped more often in one life than the limit
\* allows, and never with discipline disabled.
DaemonStepBound ==
    /\ conf.limit # -1 => steps <= conf.limit
    /\ conf.nodisc => steps = 0

\* The drift file's frequency survives the start-up: although DaemonState::new
\* writes frequency 0 on the way, the loop starts with the loaded frequency in
\* the kernel, and keeps it until a handler writes another.
DaemonDriftRestored ==
    stage = "loop" /\ ~touched /\ conf.cap => kfreq = loaded

\* Across any number of lives, crashes and restarts: the drift file stays whole,
\* every poll and periodic timer stays armed, makestep keeps to its limit, and the
\* saved frequency is back in the kernel when the loop starts.
DaemonSound == DaemonDriftWhole /\ DaemonPollsArmed /\ DaemonStepBound /\ DaemonDriftRestored

\* A daemon that is not killed and whose loop does not end hears each of its
\* sources again and again: the handlers neither stop polling nor stop reading
\* (initstepslew aside: it blocks the start, and its answers are read outside the loop).
HearsPlain ==
    ~conf.initstep /\ <>[](stage \in {"loop", "save", "blocked"})
        => \A i \in Srcs : []<>(<<i, "answer">> \in sock) /\ []<>(<<i, "answer">> \notin sock)

=============================================================================
