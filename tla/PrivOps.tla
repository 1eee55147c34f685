------------------------------ MODULE PrivOps ------------------------------
(***************************************************************************)
(* The privileged helper: core privops.rs (PrivClient, dispatch) and       *)
(* io/privops.rs (PrivHelper, helper_main): a forked process that serves   *)
(* one request at a time over a SOCK_SEQPACKET pair.  A name stands for    *)
(* its length and its addresses: Names maps it to [len, addrs]; resolving  *)
(* (the C library) may also fail.  The helper may be killed at any time    *)
(* and so may the daemon.                                                  *)
(***************************************************************************)
EXTENDS Integers, Sequences, FiniteSets

CONSTANTS Names,                \* name -> [len, addrs]
          NameLen,              \* NAME_LEN
          DnsMaxAddresses,      \* DNS_MAX_ADDRESSES
          AllowedPorts,         \* allowed_ports: NTP, acquisition and PTP
          MaxCalls              \* bound: requests of the daemon

VARIABLES daemon,       \* the caller: "run", "wait" (in recv), "reap", "done", "dead"
          helper,       \* "none", "recv", "work", "dead" (exited, not reaped), "reaped"
          asked,        \* the request the daemon waits on
          held,         \* the request the helper works on
          toHelper, toDaemon,   \* the two directions of the pair
          answer,       \* what the last call returned
          calls

privvars == <<daemon, helper, asked, held, toHelper, toDaemon, answer, calls>>

NoName == ""
Request(op, name) == [op |-> op, name |-> name]
Nothing == Request("none", NoName)
Failure(r) == [to |-> r, rc |-> "failure", addrs |-> 0]
Min2(a, b) == IF a < b THEN a ELSE b

PrivInit ==
    /\ daemon = "run" /\ helper = "none"
    /\ asked = Nothing /\ held = Nothing /\ toHelper = <<>> /\ toDaemon = <<>>
    /\ answer = Failure(Nothing) /\ calls = 0

\* PrivHelper::start: the pair and the fork; each end keeps its own socket.
StartHelper ==
    /\ daemon = "run" /\ helper = "none"
    /\ helper' = "recv"
    /\ UNCHANGED <<daemon, asked, held, toHelper, toDaemon, answer, calls>>

HelperOpen == helper \in {"recv", "work"}

\* send(2) to a peer that is gone fails, which send_request does not report.
Sent(r) == toHelper' = IF HelperOpen THEN Append(toHelper, r) ELSE toHelper

\* Mutant: a refused name is sent all the same.
RefuseLongSent(n) ==
    /\ daemon = "run" /\ helper # "none" /\ calls < MaxCalls
    /\ Names[n].len >= NameLen
    /\ Sent(Request("name", n))
    /\ answer' = Failure(Request("name", n)) /\ calls' = calls + 1
    /\ UNCHANGED <<daemon, helper, asked, held, toDaemon>>

\* name_to_ipaddress for a name that does not fit: refused at once.
RefuseLong(n) ==
    /\ daemon = "run" /\ helper # "none" /\ calls < MaxCalls
    /\ Names[n].len >= NameLen
    /\ answer' = Failure(Request("name", n)) /\ calls' = calls + 1
    /\ UNCHANGED <<daemon, helper, asked, held, toHelper, toDaemon>>

\* submit_request: the request is sent, and the daemon blocks in recv.
Submit(r) ==
    /\ daemon = "run" /\ helper # "none" /\ calls < MaxCalls
    /\ Sent(r)
    /\ daemon' = "wait" /\ asked' = r /\ calls' = calls + 1
    /\ UNCHANGED <<helper, held, toDaemon, answer>>

NameToIpAddress(n) == Names[n].len < NameLen /\ Submit(Request("name", n))
ReloadDns == Submit(Request("reload", NoName))

\* receive_response: the next message, or the end of the stream.
ReceiveResponse ==
    /\ daemon = "wait"
    /\ \/ toDaemon # <<>> /\ answer' = Head(toDaemon) /\ toDaemon' = Tail(toDaemon)
       \/ toDaemon = <<>> /\ ~HelperOpen /\ answer' = Failure(asked) /\ UNCHANGED toDaemon
    /\ daemon' = "run" /\ asked' = Nothing
    /\ UNCHANGED <<helper, held, toHelper, calls>>

\* stop: OP_QUIT, then waitpid, then the socket is closed.
Stop ==
    /\ daemon = "run" /\ helper # "none"
    /\ Sent(Request("quit", NoName))
    /\ daemon' = "reap"
    /\ UNCHANGED <<helper, asked, held, toDaemon, answer, calls>>

Reap ==
    /\ daemon = "reap" /\ helper = "dead"
    /\ daemon' = "done" /\ helper' = "reaped"
    /\ toHelper' = <<>> /\ toDaemon' = <<>>
    /\ UNCHANGED <<asked, held, answer, calls>>

\* helper_main: receive_from_daemon; OP_QUIT ends the loop and the process.
HelperTake ==
    /\ helper = "recv" /\ toHelper # <<>>
    /\ held' = Head(toHelper) /\ toHelper' = Tail(toHelper)
    /\ helper' = IF Head(toHelper).op = "quit" THEN "dead" ELSE "work"
    /\ UNCHANGED <<daemon, asked, toDaemon, answer, calls>>

\* do_name_to_ipaddress, do_reload_dns and send_response: at most
\* DnsMaxAddresses addresses travel.
HelperAnswer ==
    /\ helper = "work"
    /\ \E rc \in {"success", "failure"} :
         /\ held.op # "name" => rc = "success"
         /\ toDaemon' = IF daemon \in {"done", "dead"} THEN toDaemon
                        ELSE Append(toDaemon,
                               [to |-> held, rc |-> rc,
                                addrs |-> IF held.op = "name" /\ rc = "success"
                                          THEN Min2(Names[held.name].addrs, DnsMaxAddresses) ELSE 0])
    /\ helper' = "recv" /\ held' = Nothing
    /\ UNCHANGED <<daemon, asked, toHelper, answer, calls>>

\* The daemon's end is closed: recv returns 0 and the helper exits.
HelperEof ==
    /\ helper = "recv" /\ toHelper = <<>> /\ daemon \in {"done", "dead"}
    /\ helper' = "dead"
    /\ UNCHANGED <<daemon, asked, held, toHelper, toDaemon, answer, calls>>

\* Faults: either process is killed.
KillHelper ==
    /\ HelperOpen
    /\ helper' = "dead" /\ held' = Nothing /\ toHelper' = <<>>
    /\ UNCHANGED <<daemon, asked, toDaemon, answer, calls>>

KillDaemon ==
    /\ daemon \notin {"done", "dead"} /\ daemon' = "dead"
    /\ UNCHANGED <<helper, asked, held, toHelper, toDaemon, answer, calls>>

PrivSteps == ReceiveResponse \/ Reap \/ HelperTake \/ HelperAnswer \/ HelperEof

PrivNext == \/ StartHelper \/ ReloadDns \/ Stop \/ PrivSteps \/ KillHelper \/ KillDaemon
            \/ \E n \in DOMAIN Names : RefuseLong(n) \/ NameToIpAddress(n)

PrivSpec == PrivInit /\ [][PrivNext]_privvars

\* Both processes keep running what they are not blocked in.
PrivFairSpec == PrivSpec /\ WF_privvars(ReceiveResponse) /\ WF_privvars(Reap)
                /\ WF_privvars(HelperTake) /\ WF_privvars(HelperAnswer) /\ WF_privvars(HelperEof)

----------------------------------------------------------------------------
(* Properties *)

\* Every call gets the answer to its own request, whenever the helper dies and
\* whichever names are refused before: the answers never run one call behind.
PrivAnswersOwn == [][daemon = "wait" /\ daemon' = "run" => answer'.to = asked]_privvars

\* No one waits for ever: a call returns, stop returns (or the daemon dies),
\* though the helper may be killed at any point of the exchange.
PrivReturns == (daemon \in {"wait", "reap"}) ~> (daemon \notin {"wait", "reap"})

\* The helper never outlives the daemon, whether it stopped or was killed.
PrivHelperEnds == (daemon \in {"done", "dead"}) ~> (helper \notin {"recv", "work"})

-----------------------------------------------------------------------------
(***************************************************************************)
(* The privileged operations (core privops.rs): what PrivClient asks for,  *)
(* with or without a helper, and what the helper's dispatch makes of a     *)
(* request.  A request is [op, arg, port]; the system call behind it is    *)
(* external: it gives a result b = [rc, data], and for a name data is the  *)
(* sequence of its addresses.  A step's "did" lists the system calls made. *)
(***************************************************************************)

NoData == <<>>
Ops == {"adjust_time", "adjust_timex", "set_time", "bind", "name", "reload"}

\* PrivResponse: what a request comes back with, and what was done for it.
Response(fatal, rc, data, did) == [fatal |-> fatal, rc |-> rc, data |-> data, did |-> did, quit |-> FALSE]
Fatal(did) == Response(TRUE, 0, NoData, did)

PortOk(port) == port = 0 \/ port \in AllowedPorts

\* do_bind_socket: the helper's copy of the socket is closed on every path.
DoBindSocket(req, b) ==
    IF ~PortOk(req.port) THEN Fatal(<<"close">>)
    ELSE Response(FALSE, b.rc, NoData, <<"bind", "close">>)

\* dispatch: one request in the helper.  Values the call writes travel back.
Dispatch(req, b) ==
    CASE req.op \in {"adjust_time", "adjust_timex", "name"} -> Response(FALSE, b.rc, b.data, <<req.op>>)
      [] req.op = "set_time" -> Response(FALSE, b.rc, NoData, <<req.op>>)
      [] req.op = "bind"     -> DoBindSocket(req, b)
      [] req.op = "reload"   -> Response(FALSE, 0, NoData, <<req.op>>)
      [] req.op = "quit"     -> [Response(FALSE, 0, NoData, <<>>) EXCEPT !.quit = TRUE]
      [] OTHER               -> Fatal(<<>>)

First(s, n) == SubSeq(s, 1, IF Len(s) < n THEN Len(s) ELSE n)

\* What a call of PrivClient returns (refused: bind_socket's Err) and what was
\* done for it in this process and in the helper.
Returned(refused, rc, data, here, there) ==
    [refused |-> refused, rc |-> rc, data |-> data, here |-> here, there |-> there]

\* The call made in the daemon itself.
Direct(req, b) ==
    Returned(FALSE, IF req.op = "reload" THEN 0 ELSE b.rc,
             IF req.op \in {"adjust_time", "adjust_timex", "name"} THEN b.data ELSE NoData, <<req.op>>, <<>>)

\* PrivClient::adjust_time, adjust_timex, set_time, bind_socket, reload_dns and
\* name_to_ipaddress.  A query of the remaining adjustment has no argument.
Call(req, has_helper, b, max_addrs) ==
    IF req.op = "bind" /\ ~PortOk(req.port) THEN Returned(TRUE, 0, NoData, <<>>, <<>>)
    ELSE IF ~has_helper \/ (req.op = "adjust_time" /\ req.arg = NoData) THEN Direct(req, b)
    ELSE LET res == Dispatch(req, b)
         IN  Returned(FALSE, IF req.op = "reload" THEN 0 ELSE res.rc,
                      IF req.op = "name"
                      THEN First(res.data, IF max_addrs < DnsMaxAddresses THEN max_addrs ELSE DnsMaxAddresses)
                      ELSE res.data, <<>>, res.did)

-----------------------------------------------------------------------------
\* A daemon that gave its privileges away gets from the helper what it would
\* have got from the system call: the same return code and the values the call
\* wrote (of addresses as many as it wants and a response holds), and the call
\* is made once, in one of the two processes (PrivClient, dispatch).
PrivTransparent(req, b, max_addrs) ==
    LET far  == Call(req, TRUE, b, max_addrs)
        near == Call(req, FALSE, b, max_addrs)
        made(c) == Len(SelectSeq(c.here \o c.there, LAMBDA o : o = req.op))
    IN  req.op \in Ops =>
        /\ far.refused = near.refused /\ far.rc = near.rc
        /\ made(far) = made(near) /\ made(far) = IF far.refused THEN 0 ELSE 1
        /\ IF req.op = "name"
           THEN far.data = First(near.data, Len(far.data)) /\ Len(far.data) <= max_addrs
           ELSE far.data = near.data

\* Whatever request reaches it, the helper binds a socket only to a port the
\* configuration allows, and closes the copy it was sent exactly once.
PrivBindGuarded(req, b) ==
    LET did == Dispatch(req, b).did
        count(o) == Len(SelectSeq(did, LAMBDA x : x = o))
    IN  /\ count("bind") > 0 => req.op = "bind" /\ (req.port = 0 \/ req.port \in AllowedPorts)
        /\ count("close") = IF req.op = "bind" THEN 1 ELSE 0
=============================================================================
