----------------------------- MODULE NtpInstance -----------------------------
(***************************************************************************)
(* The state of one NTP association and the functions of the library that  *)
(* change it: its configuration (ntp/create.rs, ntp/params.rs), the online *)
(* and burst modes (ntp/opmode.rs, ntp/lifecycle.rs), the poll interval    *)
(* (ntp/poll.rs, ntp/instance.rs), the transmit timestamp of the latest    *)
(* request (ntp/local_ts.rs), and the monotonic correction of the server   *)
(* (ntp/mono_root.rs, ntp/support.rs).  The host that calls them is        *)
(* external: it may call any of them at any time.  Then, servers that      *)
(* follow one another, with the test that refuses a loop (ntp/sync.rs).    *)
(*                                                                         *)
(* poll_score is counted in units of 1/Unit.  Local timestamps are         *)
(* [at, shift]: the request they belong to and the clock correction they   *)
(* are expressed in; 0 stands for an unset one.                            *)
(***************************************************************************)
EXTENDS Integers

CONSTANTS MinPoll, MaxPoll,     \* MIN_POLL, MAX_POLL
          DefaultMin, DefaultMax,  \* SRC_DEFAULT_MINPOLL, SRC_DEFAULT_MAXPOLL
          Unit,                 \* poll_score 1.0
          Adjustments,          \* what get_poll_adj may give, in 1/Unit
          MaxDoffset,           \* MAX_MONO_DOFFSET
          ServerSlews,          \* corrections of the server's clock
          MaxSent,              \* bound: requests sent
          MaxShift,             \* bound: size of a clock's correction
          MaxSlews              \* bound: corrections of the server's clock

ASSUME InstAssumption ==
    /\ MinPoll \in Int /\ MaxPoll \in Int
    /\ DefaultMin \in MinPoll..MaxPoll /\ DefaultMax \in MinPoll..MaxPoll
    /\ Unit \in Nat \ {0} /\ Adjustments \subseteq Int /\ MaxDoffset \in Int
    /\ ServerSlews \subseteq Int
    /\ MaxSent \in Nat /\ MaxShift \in 0..99 /\ MaxSlews \in Nat

VARIABLES par,          \* SourceParams and the mode
          opmode,       \* OperatingMode
          poll,         \* local_poll, poll_score
          tx,           \* local_tx and local_ntp_tx of the latest request
          mono,         \* MonoState, and inst.remote_ntp_rx
          srv,          \* the server: its clock's error, mono offset and epoch
          shift,        \* total correction of the local clock
          hist          \* history: last connectivity asked for, requests sent, the
                        \* server's corrections since the last response kept (moved)
                        \* the sum of those that lie within one epoch (due), their number

instvars == <<par, opmode, poll, tx, mono, srv, shift, hist>>

Trunc(x) == IF x >= 0 THEN x \div Unit ELSE -((-x) \div Unit)

\* create_instance_config: out of range below means the default.
CreateConfig(minpoll, maxpoll, assoc, nonlan) ==
    LET min == IF minpoll < MinPoll THEN DefaultMin ELSE IF minpoll > MaxPoll THEN MaxPoll ELSE minpoll
        max == IF maxpoll < MinPoll THEN DefaultMax ELSE IF maxpoll > MaxPoll THEN MaxPoll ELSE maxpoll
    IN [minpoll |-> min, maxpoll |-> IF max < min THEN min ELSE max, mode |-> assoc, nonlan |-> nonlan]

NoMono == [epoch |-> 0, monorx |-> 0, rx |-> 0, doffset |-> 0]

InstInit ==
    /\ \E lo, hi \in (MinPoll - 1)..(MaxPoll + 1), m \in {"client", "active"}, nonlan \in BOOLEAN :
          par = CreateConfig(lo, hi, m, nonlan)
    /\ opmode \in {"Offline", "Online"}
    /\ poll = [local |-> par.minpoll, score |-> 0]
    /\ tx = [local |-> 0, shift |-> 0, ntp |-> 0]
    /\ mono = NoMono
    /\ srv = [clock |-> 0, offset |-> 0, epoch |-> 1]
    /\ shift = 0
    /\ hist = [online |-> opmode = "Online", sent |-> 0, moved |-> 0, due |-> 0, slews |-> 0]

----------------------------------------------------------------------------
(* Parameters and polling *)

\* modify_minpoll, modify_maxpoll: each drags the other along.
ModifyMinpoll(p, new) ==
    IF new \notin MinPoll..MaxPoll THEN p
    ELSE [p EXCEPT !.minpoll = new, !.maxpoll = IF @ < new THEN new ELSE @]

ModifyMaxpoll(p, new) ==
    IF new \notin MinPoll..MaxPoll THEN p
    ELSE [p EXCEPT !.maxpoll = new, !.minpoll = IF @ > new THEN new ELSE @]

Modify(new, which) ==
    /\ par' = IF which = "min" THEN ModifyMinpoll(par, new) ELSE ModifyMaxpoll(par, new)
    /\ UNCHANGED <<opmode, poll, tx, mono, srv, shift, hist>>

\* adjust_poll.
AdjustPoll(p, adj) ==
    LET s0 == p.score + adj
        up == IF s0 >= Unit THEN Trunc(s0) ELSE 0
        s1 == s0 - Unit * up
        down == IF s1 < 0 THEN Trunc(s1 - Unit) ELSE 0
        l == p.local + up + down
        s == s1 - Unit * down
        q == IF l < par.minpoll THEN [local |-> par.minpoll, score |-> 0]
             ELSE IF l > par.maxpoll THEN [local |-> par.maxpoll, score |-> Unit]
             ELSE [local |-> l, score |-> s]
    IN IF q.local < 0 /\ par.nonlan THEN [q EXCEPT !.local = 0] ELSE q

\* A sample was processed: process_sample_poll_adjustment, get_poll_adj.
ProcessSample(adj) ==
    /\ poll' = AdjustPoll(poll, adj)
    /\ UNCHANGED <<par, opmode, tx, mono, srv, shift, hist>>

\* reset_poll.
ResetPoll ==
    /\ poll' = [local |-> par.minpoll, score |-> 0]
    /\ UNCHANGED <<par, opmode, tx, mono, srv, shift, hist>>

\* get_transmit_poll: a peer is polled no slower than it polls us.
TransmitPoll(local_poll, remote_poll, reachable) ==
    IF par.mode = "active" /\ local_poll > remote_poll /\ reachable
    THEN IF remote_poll > par.minpoll THEN remote_poll ELSE par.minpoll
    ELSE local_poll

----------------------------------------------------------------------------
(* Connectivity and bursts *)

\* set_connectivity: a burst goes on and remembers what to return to.
SetConnectivity(om, online) ==
    CASE om = "Offline" /\ online -> "Online"
      [] om = "Online" /\ ~online -> "Offline"
      [] om = "BurstWasOffline" /\ online -> "BurstWasOnline"
      [] om = "BurstWasOnline" /\ ~online -> "BurstWasOffline"
      [] OTHER -> om

Connect(online) ==
    /\ opmode' = SetConnectivity(opmode, online)
    /\ hist' = [hist EXCEPT !.online = online]
    /\ UNCHANGED <<par, poll, tx, mono, srv, shift>>

\* initiate_sample_burst: clients only, and not again during a burst.
InitiateSampleBurst ==
    /\ par.mode = "client"
    /\ opmode \in {"Online", "Offline"}
    /\ opmode' = IF opmode = "Online" THEN "BurstWasOnline" ELSE "BurstWasOffline"
    /\ UNCHANGED <<par, poll, tx, mono, srv, shift, hist>>

\* The host ends a burst (external).
BurstEnds ==
    /\ opmode \in {"BurstWasOnline", "BurstWasOffline"}
    /\ opmode' = IF opmode = "BurstWasOnline" THEN "Online" ELSE "Offline"
    /\ UNCHANGED <<par, poll, tx, mono, srv, shift, hist>>

IsOnline(om) == om \in {"Online", "BurstWasOnline"}

\* InstanceResetState::reset.
Reset ==
    /\ tx' = [local |-> 0, shift |-> 0, ntp |-> 0]
    /\ mono' = NoMono
    /\ hist' = [hist EXCEPT !.moved = 0, !.due = 0]
    /\ UNCHANGED <<par, opmode, poll, srv, shift>>

----------------------------------------------------------------------------
(* Timestamps *)

\* A request goes out with the daemon's timestamp.
Transmit ==
    /\ hist.sent < MaxSent
    /\ hist' = [hist EXCEPT !.sent = @ + 1]
    /\ tx' = [local |-> hist.sent + 1, shift |-> shift, ntp |-> hist.sent + 1]
    /\ UNCHANGED <<par, opmode, poll, mono, srv, shift>>

\* Mutant: the packet the timestamp is of is not compared.
UpdateTxAny(t, req, new) ==
    IF t.local = 0 THEN t ELSE [t EXCEPT !.local = req, !.shift = new]

\* update_tx_timestamp: a timestamp of the kernel or the card replaces the
\* daemon's if it is of the same packet and plausible.
UpdateTx(t, req, new) ==
    IF t.local = 0 \/ req # t.ntp THEN t ELSE [t EXCEPT !.local = req, !.shift = new]

\* The timestamp of an earlier request may come late; it is expressed in the
\* clock as it is now.
TxTimestamp(req) ==
    /\ req \in 1..hist.sent
    /\ tx' = UpdateTx(tx, req, shift)
    /\ UNCHANGED <<par, opmode, poll, mono, srv, shift, hist>>

\* slew_times: every timestamp that is set moves with the clock.
SlewTimes(t, d) == IF t.local = 0 THEN t ELSE [t EXCEPT !.shift = @ + d]

LocalSlew(d) ==
    /\ shift + d \in -MaxShift..MaxShift
    /\ shift' = shift + d
    /\ tx' = SlewTimes(tx, d)
    /\ UNCHANGED <<par, opmode, poll, mono, srv, hist>>

----------------------------------------------------------------------------
(* The server's monotonic time *)

\* handle_slew on the server: doffset is what the clock is set back by.
ServerHandleSlew(s, kind, d) ==
    IF kind = "Adjust" THEN [s EXCEPT !.clock = @ - d, !.offset = @ + d]
    ELSE [s EXCEPT !.clock = @ - d, !.offset = 0, !.epoch = @ + 1]

ServerSlew(kind, d) ==
    /\ srv.clock - d \in -MaxShift..MaxShift
    /\ hist.slews < MaxSlews
    /\ srv' = ServerHandleSlew(srv, kind, d)
    /\ hist' = [hist EXCEPT !.moved = @ + d, !.slews = @ + 1]
    /\ UNCHANGED <<par, opmode, poll, tx, mono, shift>>

\* compute_mono_doffset: what the server's clock was set back by between the two
\* receive timestamps; the time that passed between them cancels out.
MonoDoffset(rx, monorx, epoch) ==
    LET d == (monorx - mono.monorx) - (rx - mono.rx)
    IN IF epoch = mono.epoch /\ mono.monorx # 0 /\ d <= MaxDoffset /\ -d <= MaxDoffset THEN d ELSE 0

\* A response with the extension field: compute_mono_doffset, update_mono_state.
\* The time of the exchange is Base, in which both clocks count.
Base == 100

Response ==
    LET rx == Base + srv.clock
        monorx == rx + srv.offset
    IN /\ mono' = [epoch |-> srv.epoch, monorx |-> monorx, rx |-> rx,
                   doffset |-> mono.doffset + MonoDoffset(rx, monorx, srv.epoch)]
       /\ hist' = [hist EXCEPT !.moved = 0,
                               !.due = @ + IF srv.epoch = mono.epoch /\ hist.moved <= MaxDoffset
                                             /\ -hist.moved <= MaxDoffset THEN hist.moved ELSE 0]
       /\ UNCHANGED <<par, opmode, poll, tx, srv, shift>>

\* A response without it: update_mono_state starts anew.
PlainResponse ==
    /\ mono' = [NoMono EXCEPT !.rx = Base + srv.clock]
    /\ hist' = [hist EXCEPT !.moved = 0, !.due = 0]
    /\ UNCHANGED <<par, opmode, poll, tx, srv, shift>>

\* The four groups of operations touch disjoint state, Reset aside.
PollNext ==
    \/ \E new \in (MinPoll - 1)..(MaxPoll + 1), which \in {"min", "max"} : Modify(new, which)
    \/ \E adj \in Adjustments : ProcessSample(adj)
    \/ ResetPoll

ModeNext ==
    \/ \E online \in BOOLEAN : Connect(online)
    \/ InitiateSampleBurst
    \/ BurstEnds

TxNext ==
    \/ Transmit
    \/ \E req \in 1..MaxSent : TxTimestamp(req)
    \/ \E d \in ServerSlews : LocalSlew(d)
    \/ Reset

MonoNext ==
    \/ \E d \in ServerSlews, kind \in {"Adjust", "Step"} : ServerSlew(kind, d)
    \/ Response
    \/ PlainResponse
    \/ Reset

InstNext == PollNext \/ ModeNext \/ TxNext \/ MonoNext

InstSpec == InstInit /\ [][InstNext]_instvars

----------------------------------------------------------------------------
(* Properties *)

\* The limits stay a range whatever was configured and modified in whatever
\* order, and the score stays a fraction.
InstTypeOK ==
    /\ par.minpoll \in MinPoll..MaxPoll /\ par.maxpoll \in par.minpoll..MaxPoll
    /\ opmode \in {"Offline", "Online", "BurstWasOffline", "BurstWasOnline"}
    /\ poll.score \in 0..Unit
    /\ tx.local \in 0..MaxSent /\ shift \in -MaxShift..MaxShift

\* adjust_poll and reset_poll leave the interval inside the limits of that
\* moment, however far the limits were moved since the last time (the floor for
\* sources that are not on the local network excepted), and a peer is never
\* polled faster than minpoll because of its own interval.
InstPollInLimits ==
    [][(poll' # poll)
       => /\ (poll'.local \in par.minpoll..par.maxpoll \/ (par.nonlan /\ poll'.local = 0))
          /\ \A rp \in (MinPoll - 1)..(MaxPoll + 1) :
                TransmitPoll(poll'.local, rp, TRUE) >= par.minpoll]_instvars

\* Going online or offline is never lost to a burst: whatever the order of
\* set_connectivity, initiate_sample_burst and the end of a burst, the mode says
\* what was asked for last.
InstConnectivityKept == IsOnline(opmode) <=> hist.online

\* The transmit timestamp is that of the latest request, in the clock as it is
\* now: timestamps of earlier requests that the kernel reports late change
\* nothing, and corrections of the clock move it along.
InstTxOfLatest == tx.local # 0 => tx.local = tx.ntp /\ tx.shift = shift

\* The monotonic correction is exact: mono_doffset is the sum of what the
\* server's clock was set back by between responses of one epoch, whatever steps,
\* responses without the field and resets came between.
InstMonoExact == mono.doffset = hist.due

\* What an association keeps: its limits are a range and the poll interval stays in it
\* (adjust_poll, reset_poll, modify_minpoll, modify_maxpoll), connectivity survives bursts
\* (set_connectivity, initiate_sample_burst), the transmit timestamp is the latest request's
\* (update_tx_timestamp, slew_times), and the monotonic correction is exact (compute_mono_doffset).
AssociationSound ==
    [](InstTypeOK /\ InstConnectivityKept /\ InstTxOfLatest /\ InstMonoExact) /\ InstPollInLimits

-----------------------------------------------------------------------------
(***************************************************************************)
(* Nodes that serve time to one another: what each of them tells of its    *)
(* reference (reference.rs get_reference_params), and the test by which it *)
(* refuses to follow itself or a node that follows it (ntp/sync.rs).  A    *)
(* node has one address, which is its reference id.  Dispersions, root     *)
(* delays and the distance beyond which a synchronised node falls back to  *)
(* its local reference are left out.                                       *)
(***************************************************************************)
CONSTANTS Nodes,
          LocalStratum,     \* local_stratum of the nodes in LocalNodes
          LocalNodes,       \* nodes with enable_local_stratum
          MaxStratum,       \* NTP_MAX_STRATUM
          LocalUpdate,      \* LOCAL_REF_UPDATE_INTERVAL
          MaxClock           \* bound: the last second looked at

VARIABLES ref,          \* node -> are_we_synchronised, our_stratum, our_ref_id, our_ref_time
          local_time,   \* node -> local_ref_time
          clock
syncvars == <<ref, local_time, clock>>

NoTime == 0
Clock == "clock"            \* reference id of a reference clock
LocalId == "local"          \* NTP_REFID_LOCAL
UnsyncId == "unsync"        \* NTP_REFID_UNSYNC

\* A local reference has stratum 1 or more, and ids of clocks are no addresses.
ASSUME SyncAssumption ==
    /\ LocalStratum \in Nat \ {0} /\ LocalUpdate \in Nat \ {0}
    /\ LocalNodes \subseteq Nodes /\ {Clock, LocalId, UnsyncId} \cap Nodes = {}

SyncInit ==
    /\ ref = [n \in Nodes |-> [synced |-> FALSE, stratum |-> 0, id |-> UnsyncId, time |-> NoTime]]
    /\ local_time = [n \in Nodes |-> NoTime]
    /\ clock = LocalUpdate + 1

\* The local reference time is renewed when it is too old, or in the future.
LocalTime(n) ==
    IF clock - local_time[n] \in 1..LocalUpdate THEN local_time[n] ELSE clock - 1

\* get_reference_params of a node, at this time.
ReferenceParams(n) ==
    IF ref[n].synced
    THEN [leap |-> "normal", stratum |-> ref[n].stratum, id |-> ref[n].id, time |-> ref[n].time]
    ELSE IF n \in LocalNodes
    THEN [leap |-> "normal", stratum |-> LocalStratum, id |-> LocalId, time |-> LocalTime(n)]
    ELSE [leap |-> "unsync", stratum |-> MaxStratum, id |-> UnsyncId, time |-> NoTime]

\* Mutant: only the node's own address is looked for.
CheckSyncLoopAddress(n, msg) == ~(msg.stratum > 1 /\ msg.id = n)

\* check_sync_loop: the server follows this node, or is this node.
CheckSyncLoop(n, msg) ==
    LET our == ReferenceParams(n)
    IN  /\ ~(msg.stratum > 1 /\ msg.id = n)
        /\ ~(msg.stratum = our.stratum /\ msg.id = our.id /\ msg.time # NoTime /\ msg.time = our.time)

\* set_reference: the node follows id, which has this stratum.
Follow(n, id, stratum) ==
    ref' = [ref EXCEPT ![n] = [synced |-> TRUE, stratum |-> stratum + 1, id |-> id, time |-> clock]]

\* A node hears a reference clock.
HearClock(n) == Follow(n, Clock, 0) /\ UNCHANGED <<local_time, clock>>

\* A node asks another node, or unknowingly itself; the answer is one of a
\* synchronised server (the other tests of a response are left out).
Exchange(n, server) ==
    LET msg == ReferenceParams(server)
    IN  /\ msg.leap # "unsync" /\ msg.stratum < MaxStratum - 1
        /\ CheckSyncLoop(n, msg)
        /\ Follow(n, server, msg.stratum)
        /\ local_time' = [m \in Nodes |-> IF m \in {n, server} \cap LocalNodes /\ ~ref[m].synced
                                          THEN LocalTime(m) ELSE local_time[m]]
        /\ UNCHANGED clock

\* set_unsynchronised.
SetUnsynchronised(n) ==
    /\ ref' = [ref EXCEPT ![n].synced = FALSE, ![n].stratum = 0]
    /\ UNCHANGED <<local_time, clock>>

SyncTick == clock < MaxClock /\ clock' = clock + 1 /\ UNCHANGED <<ref, local_time>>

SyncNext == \/ \E n \in Nodes : HearClock(n) \/ SetUnsynchronised(n)
            \/ \E n, server \in Nodes : Exchange(n, server)
            \/ SyncTick

SyncSpec == SyncInit /\ [][SyncNext]_syncvars

-----------------------------------------------------------------------------
\* No node follows itself, and no two nodes follow each other, in any order of
\* exchanges, losses of synchronisation and fallbacks to the local reference.
SyncNoLoop ==
    \A a, b \in Nodes : ~(ref[a].synced /\ ref[a].id = b /\ ref[b].synced /\ ref[b].id = a)
=============================================================================
