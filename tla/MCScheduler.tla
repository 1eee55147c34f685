------------------------------- MODULE MCScheduler -------------------------------
(*
  The timeout queue, the table of file handlers, and the layers that own descriptors: sockets,
  the NTP sockets and the helper process. They share nothing in these instances, so one of
  them runs per behaviour.
*)
EXTENDS TimerQueue, Sockets

CONSTANT NoHandler   \* the None of FileHandlers

HelperNames == [a |-> [len |-> 1, addrs |-> 1], b |-> [len |-> 2, addrs |-> 3], c |-> [len |-> 3, addrs |-> 1]]

VARIABLES part,   \* the component that runs in this behaviour
          fh_handler, fh_events, fh_one_highest_fd, fh_ready, fh_todo, fh_running, fh_panicked,
          re_handler, re_events, re_one_highest_fd, re_ready, re_todo, re_running, re_panicked,
          pv_daemon, pv_helper, pv_asked, pv_held, pv_toHelper, pv_toDaemon, pv_answer, pv_calls

filesVars == <<fh_handler, fh_events, fh_one_highest_fd, fh_ready, fh_todo, fh_running,
               fh_panicked>>
reentrantVars == <<re_handler, re_events, re_one_highest_fd, re_ready, re_todo, re_running,
                   re_panicked>>
helperVars == <<pv_daemon, pv_helper, pv_asked, pv_held, pv_toHelper, pv_toDaemon, pv_answer,
                pv_calls>>

\* The table of file handlers when no handler removes a descriptor, and when handlers do.
Files == INSTANCE FileHandlers WITH
    MaxFd <- 2, Handlers <- {"h1", "h2"}, None <- NoHandler, Events <- {"exception", "input"},
    InCallback <- {}, handler <- fh_handler, events <- fh_events,
    one_highest_fd <- fh_one_highest_fd, ready <- fh_ready, todo <- fh_todo,
    running <- fh_running, panicked <- fh_panicked
Reentrant == INSTANCE FileHandlers WITH
    MaxFd <- 2, Handlers <- {"h1", "h2"}, None <- NoHandler, Events <- {"exception", "input"},
    InCallback <- {"self", "other"}, handler <- re_handler, events <- re_events,
    one_highest_fd <- re_one_highest_fd, ready <- re_ready, todo <- re_todo,
    running <- re_running, panicked <- re_panicked
\* The privileged helper.
Priv == INSTANCE PrivOps WITH
    Names <- HelperNames, NameLen <- 3, DnsMaxAddresses <- 2, AllowedPorts <- {}, MaxCalls <- 3,
    daemon <- pv_daemon, helper <- pv_helper, asked <- pv_asked, held <- pv_held,
    toHelper <- pv_toHelper, toDaemon <- pv_toDaemon, answer <- pv_answer, calls <- pv_calls

\* One component runs; the others stay in an initial state.
MCInit ==
    /\ part \in {"timers", "files", "reentrant", "sockets", "io", "helper"}
    /\ Init
    /\ Files!Init
    /\ Reentrant!Init
    /\ part = "sockets" \/ (supported = {} /\ nodes = {})
    /\ SckInit
    /\ part = "io" \/ (ioconf = [separate |-> TRUE, shared |-> FALSE, permanent |-> FALSE, zero |-> FALSE])
    /\ Initialise
    /\ Priv!PrivInit

mcvars == <<part, vars, filesVars, reentrantVars, sckvars, iovars, helperVars>>

MCNext ==
    \/ part = "timers" /\ Next /\ UNCHANGED <<part, filesVars, reentrantVars, sckvars, iovars, helperVars>>
    \/ part = "files" /\ Files!Next /\ UNCHANGED <<part, vars, reentrantVars, sckvars, iovars, helperVars>>
    \/ part = "reentrant" /\ Reentrant!Next /\ UNCHANGED <<part, vars, filesVars, sckvars, iovars, helperVars>>
    \/ part = "sockets" /\ SckNext /\ UNCHANGED <<part, vars, filesVars, reentrantVars, iovars, helperVars>>
    \/ part = "io" /\ IoNext /\ UNCHANGED <<part, vars, filesVars, reentrantVars, sckvars, helperVars>>
    \/ part = "helper" /\ Priv!PrivNext /\ UNCHANGED <<part, vars, filesVars, reentrantVars, sckvars, iovars>>
    \* these may stop: a table nobody changes, a bounded exchange that is over
    \/ part \in {"reentrant", "sockets", "io", "helper"} /\ UNCHANGED mcvars

\* The fairness of each component, for the component that runs.
MCFairness ==
    /\ WF_filesVars(part = "files" /\ ~fh_panicked /\ Files!Round)
    /\ WF_helperVars(part = "helper" /\ Priv!ReceiveResponse)
    /\ WF_helperVars(part = "helper" /\ Priv!Reap)
    /\ WF_helperVars(part = "helper" /\ Priv!HelperTake)
    /\ WF_helperVars(part = "helper" /\ Priv!HelperAnswer)
    /\ WF_helperVars(part = "helper" /\ Priv!HelperEof)
MCSpec == MCInit /\ [][MCNext]_mcvars /\ MCFairness

------------------------------------------------------------------------------
\* FileHandlers: Type invariant of the table and of a round of dispatch_filehandlers.
\* FileHandlers: Every registered descriptor is below one_highest_fd, also the one whose handler is
\* out of the table for a call: dispatch_filehandlers, which stops at that bound, reaches every
\* descriptor fill_fd_sets passes to select() (add_file_handler, remove_file_handler,
\* dispatch_one).
\* FileHandlers: The calls left of a round go to descriptors in ascending order, a descriptor that
\* reported an exception is not read from in that round, and each goes to the handler that was
\* registered at the select(), although handlers add descriptors meanwhile (dispatch_filehandlers).
\* FileHandlers: Events are asked for on registered descriptors only: a closed descriptor does not
\* stay in the sets given to select(), where it would fail every later call (remove_file_handler).
\* FileHandlers: The bound is never left above the highest registered descriptor, so a round does
\* not go over a tail of dead slots (remove_file_handler).
SchedulerSound ==
    /\ (part = "files" => Files!TypeOK)
    /\ (part = "files" => Files!HighestCoversRegistered)
    /\ (part = "files" => Files!RoundSound)
    /\ (part = "reentrant" => Reentrant!NoEventsWithoutHandler)
    /\ (part = "reentrant" => Reentrant!HighestTight)
\* FileHandlers: An event of a registered descriptor is handled sooner or later, unless its owner
\* removes the descriptor or stops asking for the event, or an exception reported meanwhile holds
\* back the read (dispatch_filehandlers).
ReadyHandled == Files!ReadyHandled
\* PrivOps: Every call gets the answer to its own request, whenever the helper dies and whichever
\* names are refused before: the answers never run one call behind.
\* PrivOps: No one waits for ever: a call returns, stop returns (or the daemon dies), though the
\* helper may be killed at any point of the exchange.
\* PrivOps: The helper never outlives the daemon, whether it stopped or was killed.
PrivAnswered ==
    /\ Priv!PrivAnswersOwn
    /\ Priv!PrivReturns
    /\ Priv!PrivHelperEnds
==============================================================================
