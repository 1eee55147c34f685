----------------------------- MODULE NtpManager -----------------------------
(***************************************************************************)
(* The NTP exchange of the daemon: NtpSourceManager::poll_source sends a   *)
(* request and remembers its transmit time T1, NtpSourceManager::          *)
(* receive_all drains the socket and hands responses to the measurement    *)
(* (SourceInstance::handle_response).  The network between the daemon and  *)
(* its sources may lose, delay, reorder and duplicate packets; a source    *)
(* itself is honest.                                                       *)
(*                                                                         *)
(* A packet is [from, mode, origin, good]: origin is the request it        *)
(* answers (0 where the field is empty), good says that it decodes,        *)
(* parses, authenticates and is within the delay limits of test A, the     *)
(* checks of handle_response that look at one packet alone (a good one has *)
(* stratum 1, another 16).                                                 *)
(* Times are poll-interval ticks, so two requests to a source never share  *)
(* a T1.                                                                   *)
(***************************************************************************)
EXTENDS Integers, Sequences, FiniteSetsExt

CONSTANTS Srcs,         \* the configured sources
          ReachBits,    \* REACH_BITS
          MaxTime,      \* bound: the last tick
          NetCap        \* bound: packets in flight

ASSUME NtpAssumption ==
    MaxTime \in Nat \ {0} /\ ReachBits \in Nat /\ 2^ReachBits \in Nat \ {0}

VARIABLES mode,         \* the mode a source is polled in
          Denied,       \* the sources the NTP access table refuses
          now,          \* the system clock
          entry,        \* sources: per-source poll state
          requests,     \* requests on their way to a source
          net,          \* packets on their way to the socket
          drain,        \* receive_all is running with this `now`, 0 when not
          handed,       \* the responses of this drain that handle_response was called with
          results,      \* the samples receive_all returns
          log           \* history: polls sent and responses read, per source

ntpvars == <<mode, Denied, now, entry, requests, net, drain, handed, results, log>>

confvars == <<mode, Denied>>
None == 0               \* Option::None of a timestamp; ticks start at 1

Packets == [from : Srcs, mode : {"server", "active", "passive", "broadcast"},
            origin : 0..MaxTime, good : BOOLEAN]

\* A call of handle_response: t1 is saved_t1, t4 the time of the drain, first
\* says that no response of the source was saved before.
Calls == [src : Srcs, t1 : 0..MaxTime, t4 : 1..MaxTime, origin : 0..MaxTime,
          first : BOOLEAN, good : BOOLEAN]

Samples == [src : Srcs, t1 : 0..MaxTime, t4 : 1..MaxTime, broadcast : BOOLEAN]

Entries == [t1 : 0..MaxTime, polled : 0..MaxTime, saved_rx : BOOLEAN, got : BOOLEAN,
            reach : 0..(2^ReachBits - 1), reach_size : 0..ReachBits, stratum : {1, 16}]

\* NtpSourceManager::new: nothing sent, nothing heard.
NtpInit ==
    /\ mode \in [Srcs -> {"client", "active"}]
    /\ Denied \in SUBSET Srcs
    /\ now = 1
    /\ entry = [i \in Srcs |-> [t1 |-> None, polled |-> None, saved_rx |-> FALSE,
                                got |-> FALSE, reach |-> 0, reach_size |-> 0, stratum |-> 16]]
    /\ requests = {}
    /\ net = {}
    /\ drain = None
    /\ handed = <<>>
    /\ results = <<>>
    /\ log = [i \in Srcs |-> <<>>]

\* The register takes the answer to the previous poll in.
Shifted(e) ==
    [e EXCEPT !.got = FALSE,
              !.reach = (2 * e.reach + (IF e.got THEN 1 ELSE 0)) % 2^ReachBits,
              !.reach_size = IF e.reach_size < ReachBits THEN e.reach_size + 1 ELSE e.reach_size]

Polled(e, sent) == IF sent THEN [Shifted(e) EXCEPT !.t1 = now] ELSE Shifted(e)

\* poll_source: T1 is kept only when the socket took the packet.
PollSource(i, sent) ==
    /\ drain = None
    /\ entry[i].polled < now
    /\ entry' = [entry EXCEPT ![i] = [Polled(@, sent) EXCEPT !.polled = now]]
    /\ requests' = IF sent THEN requests \cup {[to |-> i, t1 |-> now]} ELSE requests
    /\ log' = [log EXCEPT ![i] = Append(@, "poll")]
    /\ UNCHANGED <<confvars, now, net, drain, handed, results>>

Tick == now < MaxTime /\ now' = now + 1 /\ UNCHANGED <<confvars, entry, requests, net, drain, handed, results, log>>

\* The sources and the network (external).
Emit(p) == Cardinality(net) < NetCap /\ net' = net \cup {p}

SourceAnswers(r, good) ==
    /\ r \in requests
    /\ \E m \in IF mode[r.to] = "active" THEN {"passive"} ELSE {"server"} :
          Emit([from |-> r.to, mode |-> m, origin |-> r.t1, good |-> good])
    /\ requests' = requests \ {r}
    /\ UNCHANGED <<confvars, now, entry, drain, handed, results, log>>

\* A peer polls on its own schedule: before it has heard us its origin is empty.
PeerPolls(i) ==
    /\ mode[i] = "active"
    /\ Emit([from |-> i, mode |-> "active", origin |-> None, good |-> TRUE])
    /\ UNCHANGED <<confvars, now, entry, requests, drain, handed, results, log>>

Broadcasts(i) ==
    /\ mode[i] = "client"
    /\ Emit([from |-> i, mode |-> "broadcast", origin |-> None, good |-> TRUE])
    /\ UNCHANGED <<confvars, now, entry, requests, drain, handed, results, log>>

Lose ==
    /\ \/ \E r \in requests : requests' = requests \ {r} /\ net' = net
       \/ \E p \in net : net' = net \ {p} /\ requests' = requests
    /\ UNCHANGED <<confvars, now, entry, drain, handed, results, log>>

\* The receive handler reads the clock once and starts the drain.
ReceiveAll ==
    /\ drain = None
    /\ net # {}
    /\ drain' = now
    /\ handed' = <<>>
    /\ results' = <<>>
    /\ UNCHANGED <<confvars, now, entry, requests, net, log>>

Wanted(i, m) == IF mode[i] = "active" THEN m \in {"active", "passive"} ELSE m = "server"

\* Mutant of OriginAccepted: no check.
OriginIgnored(e, p) == TRUE

\* Origin timestamp enforcement: skipped once a response has been saved.
OriginAccepted(e, p) == p.origin \in {None, e.t1} \/ e.saved_rx

Call(i, e, p) == [src |-> i, t1 |-> e.t1, t4 |-> drain, origin |-> p.origin,
                  first |-> ~e.saved_rx, good |-> p.good]

\* passes_test_a_client, the part of it that is not about the packet.
PassesTestA(presend_done) == presend_done <= 0

\* handle_response: the sample, if there is one; it runs test A with presend_done 1.
HandleResponse(c) ==
    IF c.good /\ c.t1 # None /\ PassesTestA(1)
    THEN <<[src |-> c.src, t1 |-> c.t1, t4 |-> c.t4, broadcast |-> FALSE]>> ELSE <<>>

\* The body of the loop for one packet of a source in the table.
Heard(e, p) == [e EXCEPT !.got = TRUE, !.stratum = IF p.good THEN 1 ELSE 16]

AddLog(s, x) == IF x = "rx" /\ s # <<>> /\ s[Len(s)] = "rx" THEN s ELSE Append(s, x)

Process(p) ==
    LET i == p.from
        e == entry[i]
        h == Heard(e, p)
    IN IF i \in Denied THEN UNCHANGED <<entry, handed, results, log>>
       ELSE IF p.mode = "broadcast"
       THEN /\ results' = Append(results, [src |-> i, t1 |-> None, t4 |-> drain, broadcast |-> TRUE])
            /\ UNCHANGED <<entry, handed, log>>
       ELSE IF ~Wanted(i, p.mode) THEN UNCHANGED <<entry, handed, results, log>>
       ELSE /\ log' = [log EXCEPT ![i] = AddLog(@, "rx")]
            /\ IF OriginAccepted(e, p)
               THEN /\ entry' = [entry EXCEPT ![i] = [h EXCEPT !.saved_rx = TRUE]]
                    /\ handed' = Append(handed, Call(i, e, p))
                    /\ results' = results \o HandleResponse(Call(i, e, p))
               ELSE entry' = [entry EXCEPT ![i] = h] /\ UNCHANGED <<handed, results>>

\* recv_from returned a packet; the network may still hold a copy of it.
Receive(p, copy) ==
    /\ drain # None
    /\ Len(results) + Len(handed) < NetCap
    /\ p \in net
    /\ net' = IF copy THEN net ELSE net \ {p}
    /\ Process(p)
    /\ UNCHANGED <<confvars, now, requests, drain>>

\* recv_from would block: the samples go to the registry (Daemon).
DrainEnds ==
    /\ drain # None
    /\ drain' = None
    /\ handed' = <<>>
    /\ results' = <<>>
    /\ UNCHANGED <<confvars, now, entry, requests, net, log>>

NtpNext ==
    \/ \E i \in Srcs, sent \in BOOLEAN : PollSource(i, sent)
    \/ Tick
    \/ \E r \in requests, g \in BOOLEAN : SourceAnswers(r, g)
    \/ \E i \in Srcs : PeerPolls(i) \/ Broadcasts(i)
    \/ Lose
    \/ ReceiveAll
    \/ \E p \in net, copy \in BOOLEAN : Receive(p, copy)
    \/ DrainEnds

NtpSpec == NtpInit /\ [][NtpNext]_ntpvars

----------------------------------------------------------------------------
(* Properties *)

\* Every per-source field keeps its range: the register never leaves its
\* REACH_BITS bits, and no timestamp lies in the future.
NtpTypeOK ==
    /\ now \in 1..MaxTime /\ drain \in 0..now
    /\ entry \in [Srcs -> Entries] /\ \A i \in Srcs : entry[i].t1 <= now
    /\ net \subseteq Packets
    /\ \A k \in DOMAIN results : results[k] \in Samples
    /\ \A k \in DOMAIN handed : handed[k] \in Calls

\* The reachability register of a source is exactly its recent history: bit k
\* (counted from the newest) says whether anything acceptable by mode arrived
\* between the poll k+1 back and the one after it, however many copies came,
\* and reachability_size counts the polls up to REACH_BITS.
NtpReachExact ==
    \A i \in Srcs :
      LET polls == {k \in DOMAIN log[i] : log[i][k] = "poll"}
          Back(k) == Cardinality({j \in polls : j > k})     \* polls after the one at k
          Answered(k) == k > 1 /\ log[i][k - 1] = "rx"       \* before the poll at k
          bit(k) == IF Answered(k) THEN 2^Back(k) ELSE 0
      IN /\ entry[i].reach = FoldSet(LAMBDA k, s : s + bit(k), 0, {k \in polls : Back(k) < ReachBits})
         /\ entry[i].reach_size = IF Cardinality(polls) < ReachBits THEN Cardinality(polls) ELSE ReachBits
         /\ entry[i].got <=> (log[i] # <<>> /\ log[i][Len(log[i])] = "rx")

\* A response is never measured against a request it cannot belong to: the T1
\* that handle_response is called with was recorded no later than the receive
\* time, and the first response of a source is the answer to the latest request
\* that was sent to it, whatever the network lost, delayed or copied; a source
\* the access table refuses is never measured and never reachable.
NtpMeasuredSound ==
    /\ \A k \in DOMAIN handed :
          LET c == handed[k]
          IN c.src \notin Denied /\ c.t1 <= c.t4 /\ (c.first => c.origin \in {None, c.t1})
    /\ \A k \in DOMAIN results : results[k].src \notin Denied
    /\ \A i \in Denied : entry[i].reach = 0

\* "Returns the response sample if accepted, None if rejected": an answer to the
\* latest request that passes every check of the packet becomes a sample.
NtpAnswersMeasured ==
    \A k \in DOMAIN handed :
      LET c == handed[k]
      IN c.good /\ c.t1 # None /\ c.origin = c.t1
         => \E j \in DOMAIN results : results[j].src = c.src /\ results[j].t1 = c.t1

=============================================================================
