------------------------------ MODULE MainLoop ------------------------------
(***************************************************************************)
(* The main loop of the scheduler (sched.rs): dispatch the timeouts that   *)
(* are due, wait in select() until the next one or until a descriptor is   *)
(* ready, dispatch the ready descriptors, and again.  The loop drives the  *)
(* timeout queue and the table of file handlers; handlers of both kinds    *)
(* call back into the scheduler.                                           *)
(***************************************************************************)
EXTENDS TimerQueue

CONSTANTS
  MaxFd, Handlers, None, Events, InCallback,
  MinDelay,     \* the least delay a handler asks for
  LoopLimit,    \* dispatches before the infinite-loop check looks (20)
  LoopFactor,   \* its factor on the length of the queue (4)
  Rate,         \* its least rate of dispatches per tick (100 per second)
  CanQuit,      \* whether quit_program is called and quit_check may hold
  Steps,        \* offsets of steps made through handle_slew
  Jumps,        \* offsets of clock changes made behind the scheduler's back
  MaxReal       \* bound: ticks of real time

VARIABLES
  handler, events, one_highest_fd, ready, todo, running, panicked,
  pc,                  \* where main_loop is
  need_to_exit,
  n_done,              \* dispatches of this dispatch_timeouts
  n_entries_on_start,  \* length of the queue when it started
  saved_now,           \* the raw time it read last
  wait,                \* what is left of the timeout of select(), or Forever
  last_select_ts_raw,  \* the raw time after the last select()
  mono,                \* last_select_ts_mono with its sub-precision part
  real                 \* history: real time since the scheduler was created
  \* n_done, n_entries_on_start, saved_now and wait are locals: 0 out of scope

ASSUME LoopAssumption ==
  /\ Steps \subseteq Int /\ Jumps \subseteq Int
  /\ MinDelay \in Nat /\ MaxFd \in Nat /\ None \notin Handlers

FH == INSTANCE FileHandlers

queueVars == vars
fdVars == <<handler, events, one_highest_fd, ready, todo, running, panicked>>
loopVars == <<pc, need_to_exit, n_done, n_entries_on_start, saved_now, wait,
              last_select_ts_raw, mono, real>>
mainVars == <<queueVars, fdVars, loopVars>>

Forever == -1
Abs(x) == IF x < 0 THEN -x ELSE x
Larger(a, b) == IF a > b THEN a ELSE b

PCs == {"setup", "top", "timeouts", "handler", "arm", "select", "files", "exited"}

\* Type invariant of the loop: its two clocks, its place in main_loop and the queue.
MainTypeOK ==
  /\ TypeOK /\ FH!TypeOK
  /\ pc \in PCs /\ need_to_exit \in BOOLEAN
  /\ n_done \in Nat /\ n_entries_on_start \in Nat
  /\ saved_now \in Int /\ last_select_ts_raw \in Int
  /\ wait \in Nat \cup {Forever}
  /\ mono \in Nat /\ real \in Nat

MainInit ==
  /\ Init /\ FH!Init
  /\ pc = "setup" /\ need_to_exit = FALSE
  /\ n_done = 0 /\ n_entries_on_start = 0
  /\ saved_now = 0 /\ wait = 0
  /\ last_select_ts_raw = StartTime /\ mono = 0 /\ real = 0

-----------------------------------------------------------------------------
(* main_loop and dispatch_timeouts. *)

\* The top of the loop: quit_check is asked, dispatch_timeouts starts.
LoopTop ==
  /\ pc \in {"setup", "top"}
  /\ \E quit \in {FALSE, CanQuit} : need_to_exit' = (need_to_exit \/ quit)
  /\ pc' = IF need_to_exit' THEN "exited" ELSE "timeouts"
  /\ n_done' = 0 /\ n_entries_on_start' = Len(queue)
  /\ UNCHANGED <<queueVars, fdVars, saved_now, wait, last_select_ts_raw, mono, real>>

\* The head is due: its handler starts.
DispatchTimeout ==
  /\ pc = "timeouts"
  /\ DispatchHead
  /\ saved_now' = now
  /\ pc' = "handler"
  /\ UNCHANGED <<fdVars, need_to_exit, n_done, n_entries_on_start, wait, last_select_ts_raw, mono, real>>

\* The infinite-loop check of dispatch_timeouts after n dispatches.
Flooded(n) ==
  /\ n > LoopLimit
  /\ n > LoopFactor * Larger(n_entries_on_start, Len(queue))
  /\ Abs(saved_now - last_select_ts_raw) * Rate < n

\* The handler returns; the loop goes on unless it is flooded or told to exit.
TimeoutHandlerReturns ==
  /\ pc = "handler"
  /\ IF need_to_exit \/ Flooded(n_done + 1)
     THEN /\ pc' = IF need_to_exit THEN "exited" ELSE "arm"
          /\ n_done' = 0 /\ n_entries_on_start' = 0
     ELSE /\ pc' = "timeouts"
          /\ n_done' = n_done + 1 /\ UNCHANGED n_entries_on_start
  /\ UNCHANGED <<queueVars, fdVars, need_to_exit, saved_now, wait, last_select_ts_raw, mono, real>>

\* Mutant: a timeout that is due just now is left for the next round.
NothingDueNow ==
  /\ pc = "timeouts"
  /\ queue # << >> => now <= Head(queue).ts
  /\ saved_now' = now
  /\ pc' = "arm"
  /\ n_done' = 0 /\ n_entries_on_start' = 0
  /\ UNCHANGED <<queueVars, fdVars, need_to_exit, wait, last_select_ts_raw, mono, real>>

\* Nothing is due (any more).
NothingDue ==
  /\ pc = "timeouts"
  /\ queue # << >> => now < Head(queue).ts
  /\ saved_now' = now
  /\ pc' = "arm"
  /\ n_done' = 0 /\ n_entries_on_start' = 0
  /\ UNCHANGED <<queueVars, fdVars, need_to_exit, wait, last_select_ts_raw, mono, real>>

\* Mutant: with a descriptor to wait for, select() gets no timeout.
ArmForever ==
  /\ pc = "arm"
  /\ wait' = Forever /\ pc' = "select"
  /\ UNCHANGED <<queueVars, fdVars, need_to_exit, n_done, n_entries_on_start, saved_now,
                 last_select_ts_raw, mono, real>>

\* The timeout of select() is what is left to the head at saved_now, asserted
\* to be positive; with no timeout and no descriptor to wait for, the loop ends.
Arm ==
  /\ pc = "arm"
  /\ LET ts == Head(queue).ts - saved_now
         asked(ev) == \E fd \in FH!Fds : ev \in events[fd]
     IN \/ queue # << >> /\ ts <= 0 /\ panicked' = TRUE /\ UNCHANGED <<pc, wait>>
        \/ queue # << >> /\ ts > 0 /\ wait' = ts /\ pc' = "select" /\ UNCHANGED panicked
        \/ /\ queue = << >> /\ UNCHANGED panicked
           /\ IF asked("input") \/ asked("output")
              THEN wait' = Forever /\ pc' = "select"
              ELSE pc' = "exited" /\ UNCHANGED wait
  /\ UNCHANGED <<queueVars, handler, events, one_highest_fd, ready, todo, running,
                 need_to_exit, n_done, n_entries_on_start, saved_now, last_select_ts_raw, mono, real>>

\* update_monotonic_time, and the time of the last event.
UpdateMonotonicTime ==
  /\ mono' = mono + Abs(now - last_select_ts_raw)
  /\ last_select_ts_raw' = now

\* select() returns: a descriptor is ready, or the timeout has run out.
SelectReturns ==
  /\ pc = "select"
  /\ UpdateMonotonicTime
  /\ \/ FH!Select /\ pc' = "files"
     \/ FH!Reported = {} /\ wait = 0 /\ pc' = "top" /\ UNCHANGED fdVars
  /\ saved_now' = 0 /\ wait' = 0
  /\ UNCHANGED <<queueVars, need_to_exit, n_done, n_entries_on_start, real>>

\* dispatch_filehandlers, one call after the other.
FileCall ==
  /\ pc = "files"
  /\ FH!CallHandler \/ FH!SkipCall \/ FH!Return
  /\ UNCHANGED <<queueVars, loopVars>>

\* Mutant: the round ends when its handler returns.
FilesDoneEarly ==
  /\ pc = "files" /\ running = {}
  /\ pc' = "top" /\ todo' = << >>
  /\ UNCHANGED <<queueVars, handler, events, one_highest_fd, ready, running, panicked,
                 need_to_exit, n_done, n_entries_on_start, saved_now, wait,
                 last_select_ts_raw, mono, real>>

FilesDone ==
  /\ pc = "files" /\ todo = << >> /\ running = {}
  /\ pc' = "top"
  /\ UNCHANGED <<queueVars, fdVars, need_to_exit, n_done, n_entries_on_start, saved_now, wait,
                 last_select_ts_raw, mono, real>>

Loop == LoopTop \/ DispatchTimeout \/ TimeoutHandlerReturns \/ NothingDue \/ Arm
          \/ SelectReturns \/ FileCall \/ FilesDone

-----------------------------------------------------------------------------
(* What handlers, and the program before the loop, do to the scheduler. *)

InHandler == pc \in {"setup", "handler"} \/ (pc = "files" /\ running # {})

TimerCall ==
  /\ InHandler
  /\ \/ \E delay \in MinDelay..MaxDelay : AddTimeoutByDelay(delay)
     \/ \E n \in PendingIds : RemoveTimeout(n)
  /\ UNCHANGED <<fdVars, loopVars>>

FileHandlerCall ==
  /\ InHandler
  /\ FH!OwnerCall
  /\ UNCHANGED <<queueVars, loopVars>>

QuitProgram ==
  /\ CanQuit /\ InHandler /\ need_to_exit' = TRUE
  /\ UNCHANGED <<queueVars, fdVars, pc, n_done, n_entries_on_start, saved_now, wait,
                 last_select_ts_raw, mono, real>>

\* Mutant: a step leaves the time of the last select() as it was.
HandleSlewQueueOnly(doffset) ==
  /\ InHandler
  /\ HandleStep(doffset)
  /\ UNCHANGED <<fdVars, loopVars>>

\* A handler steps the clock; handle_slew shifts the raw times held.
HandleSlew(doffset) ==
  /\ InHandler
  /\ HandleStep(doffset)
  /\ last_select_ts_raw' = last_select_ts_raw - doffset
  /\ UNCHANGED <<fdVars, pc, need_to_exit, n_done, n_entries_on_start, saved_now, wait, mono, real>>

-----------------------------------------------------------------------------
(* The environment. *)

\* Real time passes; a select() that waits counts it.  At the bound of the
\* clock the wait still runs out.
MainTick ==
  /\ \/ real < MaxReal /\ Tick /\ real' = real + 1
     \/ ~ (real < MaxReal /\ now < MaxTime) /\ pc = "select" /\ wait > 0 /\ UNCHANGED <<queueVars, real>>
  /\ wait' = IF pc = "select" /\ wait > 0 THEN wait - 1 ELSE wait
  /\ UNCHANGED <<fdVars, pc, need_to_exit, n_done, n_entries_on_start, saved_now,
                 last_select_ts_raw, mono>>

\* Something else sets the clock: check_current_time notices a large jump
\* after the next select() and does nothing about it.  (It ends the loop when
\* more time is left than was asked for, which select() never reports.)
Jump(doffset) ==
  /\ now - doffset \in Times
  /\ now' = now - doffset
  /\ UNCHANGED <<queue, next_tqe_id, last_class_dispatch, older, age, fdVars, loopVars>>

Arrive ==
  /\ \E fd \in FH!Fds, ev \in Events : FH!Arrive(fd, ev)
  /\ UNCHANGED <<queueVars, loopVars>>

Alive == ~ panicked /\ pc # "exited"

MainNext ==
  /\ Alive
  /\ \/ Loop
     \/ TimerCall \/ FileHandlerCall \/ QuitProgram
     \/ \E doffset \in Steps : HandleSlew(doffset)
     \/ MainTick \/ Arrive
     \/ \E doffset \in Jumps : Jump(doffset)

\* The loop keeps running and its handlers return; time goes on.
MainSpec == MainInit /\ [][MainNext]_mainVars /\ WF_mainVars(Alive /\ Loop) /\ WF_mainVars(Alive /\ MainTick)

-----------------------------------------------------------------------------
(* Properties. *)

\* main_loop never asserts a timeout that is not positive: what
\* dispatch_timeouts leaves at the head of the queue is in the future of the
\* time it read last, whatever the handlers added and the clock did.
SelectTimeoutPositive == ~ panicked

\* The infinite-loop check does not cut dispatch_timeouts short.
NotFlooded == pc = "handler" => ~ Flooded(n_done + 1)

\* The monotonic time accounts for all real time up to the last select(),
\* across clock steps made through handle_slew between two of them: no step
\* is mistaken for elapsed time (update_monotonic_time, handle_slew).
MonoTracksReal ==
  mono + (now - last_select_ts_raw) = real

\* A timeout that is due is dispatched sooner or later, unless it is removed
\* or the clock is stepped back before it: neither the timeouts that handlers
\* keep adding nor ready descriptors hold it up forever.
DueDispatched ==
  \A n \in Ids :
    (\E i \in 1..Len(queue) : queue[i].id = n /\ queue[i].ts <= now)
      ~> \/ \A i \in 1..Len(queue) : queue[i].id = n => queue[i].ts > now
         \/ pc = "exited"

\* The loop implements the table of file handlers with its promise that a
\* round follows whenever something is reported (main_loop calls select()
\* with what fill_fd_sets collects, and dispatch_filehandlers after it).
ImplementsFileHandlers == FH!Spec
=============================================================================
