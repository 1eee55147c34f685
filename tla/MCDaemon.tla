--------------------------------- MODULE MCDaemon ---------------------------------
(*
  The daemon as a process and the conversations that must come to an end: with the signing
  daemon, with chronyc, with an NTS server. One of them runs per behaviour.
*)
EXTENDS SigndQueue, Daemon

VARIABLES part,   \* the component that runs in this behaviour
          cm_job, cm_cli, cm_reqs, cm_reps, cm_alive, cm_decoded, cm_shown,
          nt_nts, nt_nke, nt_real, nt_spent, nt_reqs, nt_resps, nt_upsets, nt_waited

chronycVars == <<cm_job, cm_cli, cm_reqs, cm_reps, cm_alive, cm_decoded, cm_shown>>
ntsVars == <<nt_nts, nt_nke, nt_real, nt_spent, nt_reqs, nt_resps, nt_upsets, nt_waited>>

\* chronyc and the daemon over UDP.
Cmd == INSTANCE CmdMon WITH
    CmdSources <- 2, CmdPorts <- {1, 2}, CmdNetCap <- 2, CmdRestricted <- TRUE, job <- cm_job,
    cli <- cm_cli, reqs <- cm_reqs, reps <- cm_reps, alive <- cm_alive, decoded <- cm_decoded,
    shown <- cm_shown
\* A client that uses NTS, its key exchange and its server.
Nts == INSTANCE NtsClient WITH
    NtsMaxCookies <- 1, CookieIds <- 1..5, RetryStart <- 1, RetryFactor <- 0, MaxRetry2 <- 0,
    MaxAttempts <- 1, MaxUpsets <- 1, NtsNetCap <- 1, nts <- nt_nts, nke <- nt_nke,
    real <- nt_real, spent <- nt_spent, reqs <- nt_reqs, resps <- nt_resps, upsets <- nt_upsets,
    waited <- nt_waited

\* One component runs; the others stay in an initial state.
MCInit ==
    /\ part \in {"signd", "daemon", "chronyc", "nts"}
    /\ Init
    /\ part = "daemon" \/ (conf = (CHOOSE x \in Conf : TRUE) /\ drift = NoFile)
    /\ DaemonInit
    /\ part = "chronyc" \/ (cm_job = (CHOOSE j \in Cmd!ChronycCodes : TRUE))
    /\ Cmd!CmdInit
    /\ Nts!NtsInit /\ nt_real = FALSE

mcvars == <<part, signdvars, daemonvars, chronycVars, ntsVars>>

MCNext ==
    \/ part = "signd" /\ Next /\ UNCHANGED <<part, daemonvars, chronycVars, ntsVars>>
    \/ part = "daemon" /\ DaemonNext /\ UNCHANGED <<part, signdvars, chronycVars, ntsVars>>
    \/ part = "chronyc" /\ Cmd!CmdNext /\ UNCHANGED <<part, signdvars, daemonvars, ntsVars>>
    \/ part = "nts" /\ Nts!NtsNext /\ UNCHANGED <<part, signdvars, daemonvars, chronycVars>>

\* The fairness of each component, for the component that runs.
MCFairness ==
    /\ WF_signdvars(part = "signd" /\ Send)
    /\ WF_signdvars(part = "signd" /\ Read)
    /\ WF_signdvars(part = "signd" /\ Answers)
    /\ WF_daemonvars(part = "daemon" /\ Finish)
    /\ WF_daemonvars(part = "daemon" /\ PollTimer("s", TRUE))
    /\ WF_daemonvars(part = "daemon" /\ \E f \in {0, 5}, big \in BOOLEAN : ReceiveHandler(f, big))
    /\ WF_chronycVars(part = "chronyc" /\ Cmd!Start)
    /\ WF_chronycVars(part = "chronyc" /\ Cmd!Timeout)
    /\ WF_chronycVars(part = "chronyc" /\ Cmd!Lose)
    /\ WF_ntsVars(part = "nts" /\ Nts!Poll /\ UNCHANGED nt_real)
    /\ WF_ntsVars(part = "nts" /\ Nts!Second /\ UNCHANGED nt_real)
    /\ SF_ntsVars(part = "nts" /\ (\E o \in {"active", "ok"} : Nts!PollStarts(o)) /\ UNCHANGED nt_real)
    /\ SF_ntsVars(part = "nts" /\ Nts!KeEnds("ok") /\ UNCHANGED nt_real)
    /\ SF_ntsVars(part = "nts" /\ (\E r \in nt_reqs : r.cur /\ Nts!Serve(r, 0)) /\ UNCHANGED nt_real)
    /\ SF_ntsVars(part = "nts" /\ (\E r \in nt_resps : r.cur /\ Nts!Respond(r, FALSE)) /\ UNCHANGED nt_real)
MCSpec == MCInit /\ [][MCNext]_mcvars /\ MCFairness

------------------------------------------------------------------------------
\* CmdMon: The packets and the state of the exchange are well formed: a command in flight is one
\* chronyc can send or one of the two its loops add, and every packet fits its envelope.
\* CmdMon: query_daemon_raw's padding does what its comment says ("so the server's validate_request
\* accepts it"): no request of chronyc is dropped or found too short, so the user sees the daemon's
\* verdict; exactly the commands that have no length in the tables are answered as invalid.
\* CmdMon: The reports that take no argument show what the daemon encoded: chronyc's decoder for
\* the command agrees with the encoder the dispatch chose, and never runs off the end of the body.
ReportsExact ==
    /\ (part = "chronyc" => Cmd!CmdTypeOK)
    /\ (part = "chronyc" => Cmd!CmdRequestsAccepted)
    /\ (part = "chronyc" => Cmd!CmdReportsExact)
\* Daemon: Every variable keeps its range over any number of lives.
\* Daemon: A daemon that is not killed and whose loop does not end hears each of its sources again
\* and again: the handlers neither stop polling nor stop reading (initstepslew aside: it blocks the
\* start, and its answers are read outside the loop).
DaemonHearsPlain ==
    /\ [](part = "daemon" => DaemonTypeOK)
    /\ (part = "daemon" => HearsPlain)
\* SigndQueue: A queued packet leaves the queue: answered, or dropped with the connection.
\* CmdMon: In the reports that go on after an error a lost or refused datagram costs that source's
\* row and nothing else: once the count is known the command does not fail.
\* CmdMon: Whatever the network and the daemon do, a chronyc command ends.
ConversationsEnd ==
    /\ SigndServed
    /\ Cmd!CmdLossCostsOneRow
    /\ (part = "chronyc" => Cmd!CmdEnds)
\* NtsClient: The association recovers: with a client that can open a session again, under
\* NtsFairness, and with the restarts, expiries and address changes at an end, it has an
\* authenticated answer and a pool again and again.
NtsRecovers == part = "nts" => Nts!NtsRecovers
==============================================================================
