------------------------------- MODULE Sockets -------------------------------
(***************************************************************************)
(* io/socket.rs: how descriptors are opened, configured, handed to callers *)
(* and closed, one system call a step, each of which may fail.  Descriptor *)
(* numbers are the lowest free ones; those of Inherited are open when the  *)
(* process starts (LISTEN_FDS) and "reusable".  A Unix socket also makes a *)
(* node in the file system when it is bound.                               *)
(***************************************************************************)
EXTENDS Integers, Sequences, FiniteSets, FiniteSetsExt

CONSTANTS Inherited,    \* descriptors passed by the service manager: 3..n
          SckMaxFd,     \* bound: descriptors of the process are below this
          Paths         \* the Unix socket paths

ASSUME SckAssumption == IsFiniteSet(Inherited) /\ SckMaxFd \in Nat

VARIABLES supported,    \* supported_socket_flags, as a set of names
          fds,          \* the open descriptors: flags and the bound path
          nodes,        \* the paths that exist in the file system
          owned,        \* the descriptors that callers hold
          call          \* the call in progress

sckvars == <<supported, fds, nodes, owned, call>>

NoPath == "none"
Idle == [kind |-> "idle", block |-> FALSE, path |-> NoPath, got |-> <<>>, todo |-> <<>>]

IsReusable(fd) == fd \in Inherited

\* The descriptor the kernel gives out next.
Free(k) == CHOOSE s \in [1..k -> 3..(SckMaxFd + 2)] :
              /\ \A i \in 1..k : s[i] \notin DOMAIN fds
              /\ \A i, j \in 1..k : i < j => s[i] < s[j]
              /\ \A n \in 3..s[k] : n \in DOMAIN fds \/ \E i \in 1..k : s[i] = n

SckInit ==
    /\ supported \in SUBSET {"cloexec", "nonblock"}
    /\ fds = [fd \in Inherited |-> [cloexec |-> FALSE, nonblock |-> FALSE, path |-> NoPath]]
    /\ nodes \in SUBSET Paths
    /\ owned = {}
    /\ call = Idle

\* get_open_flags, and what socket(2), socketpair(2) and accept(2) make of it.
OpenFlags(block) ==
    [cloexec |-> "cloexec" \in supported, nonblock |-> "nonblock" \in supported /\ ~block, path |-> NoPath]

Opened(new, flags) == [fd \in DOMAIN fds \cup {new[i] : i \in DOMAIN new} |->
                         IF fd \in DOMAIN fds THEN fds[fd] ELSE flags]

\* set_socket_flags, for the k-th descriptor of the call: the fcntl calls that
\* the flags of socket(2) could not replace.
FlagSteps(k, block) ==
    (IF "cloexec" \notin supported THEN <<<<"cloexec", k>>>> ELSE <<>>)
    \o (IF ~block /\ "nonblock" \notin supported THEN <<<<"nonblock", k>>>> ELSE <<>>)

\* open_ip_socket: the steps after the descriptor is there that may fail
\* (IPV6_V6ONLY, SO_BINDTODEVICE, bind, connect); those of set_socket_options
\* and the best-effort options cannot fail the call.
IpSteps(v6, device, local, remote) ==
    (IF v6 THEN <<<<"v6only", 1>>>> ELSE <<>>) \o (IF device THEN <<<<"device", 1>>>> ELSE <<>>)
    \o (IF local THEN <<<<"bind", 1>>>> ELSE <<>>) \o (IF remote THEN <<<<"connect", 1>>>> ELSE <<>>)

\* open_unix_socket.
UnixSteps(local, permissions, remote) ==
    (IF local THEN <<<<"bind_unix", 1>>>> \o (IF permissions THEN <<<<"chmod", 1>>>> ELSE <<>>) ELSE <<>>)
    \o (IF remote THEN <<<<"connect", 1>>>> ELSE <<>>)

Room(k) == Cardinality(DOMAIN fds) + k < SckMaxFd

\* The call starts with socket(2), socketpair(2) or accept(2).
Begin(kind, k, block, path, flags, rest) ==
    /\ call.kind = "idle" /\ Room(k)
    /\ fds' = Opened(Free(k), flags)
    /\ call' = [kind |-> kind, block |-> block, path |-> path, got |-> Free(k), todo |-> rest]
    /\ UNCHANGED <<supported, nodes, owned>>

OpenIpSocket == \E block, v6, device, local, remote \in BOOLEAN :
    Begin("ip", 1, block, NoPath, OpenFlags(block), FlagSteps(1, block) \o IpSteps(v6, device, local, remote))

OpenUnixSocket == \E block, local, permissions, remote \in BOOLEAN, path \in Paths :
    /\ \A fd \in DOMAIN fds : fds[fd].path # path
    /\ Begin("unix", 1, block, path, OpenFlags(block), FlagSteps(1, block) \o UnixSteps(local, permissions, remote))

OpenUnixSocketPair == \E block \in BOOLEAN :
    Begin("pair", 2, block, NoPath, OpenFlags(block), FlagSteps(1, block) \o FlagSteps(2, block))

AcceptConnection ==
    Begin("accept", 1, FALSE, NoPath, [cloexec |-> FALSE, nonblock |-> FALSE, path |-> NoPath],
          <<<<"cloexec", 1>>, <<"nonblock", 1>>>>)

\* A step of the call that succeeds.
StepDone ==
    /\ call.todo # <<>>
    /\ LET step == Head(call.todo)
           fd   == call.got[step[2]]
       IN /\ fds' = [fds EXCEPT ![fd] =
                       CASE step[1] = "cloexec" -> [@ EXCEPT !.cloexec = TRUE]
                         [] step[1] = "nonblock" -> [@ EXCEPT !.nonblock = TRUE]
                         [] step[1] = "bind_unix" -> [@ EXCEPT !.path = call.path]
                         [] OTHER -> @]
          /\ nodes' = IF step[1] = "bind_unix" THEN nodes \cup {call.path} ELSE nodes
    /\ call' = [call EXCEPT !.todo = Tail(@)]
    /\ UNCHANGED <<supported, owned>>

\* Mutant: the first descriptor only is closed.
ClosedOnFailureFirst == {call.got[1]}

\* The descriptors closed on the failure path, which are all of the call.
ClosedOnFailure == {call.got[i] : i \in DOMAIN call.got}

\* remove_socket on the failure path of open_unix_socket: the path the
\* descriptor is bound to, which is none before bind(2).
RemovedOnFailure == IF call.kind = "unix" THEN {fds[call.got[1]].path} ELSE {}

\* A step that fails: the descriptors are closed and the caller gets
\* INVALID_SOCK_FD.  bind_unix_address removes a stale node before bind(2).
StepFailed ==
    /\ call.todo # <<>>
    /\ nodes' = (nodes \ RemovedOnFailure) \ (IF Head(call.todo)[1] = "bind_unix" THEN {call.path} ELSE {})
    /\ fds' = [fd \in DOMAIN fds \ ClosedOnFailure |-> fds[fd]]
    /\ call' = Idle
    /\ UNCHANGED <<supported, owned>>

\* The call returns its descriptors.
Return ==
    /\ call.kind # "idle" /\ call.todo = <<>>
    /\ owned' = owned \cup {call.got[i] : i \in DOMAIN call.got}
    /\ call' = Idle
    /\ UNCHANGED <<supported, fds, nodes>>

\* remove_socket and close_socket by the holder (or of an inherited one).
CloseSocket(fd) ==
    /\ call.kind = "idle" /\ fd \in owned \cup Inherited
    /\ nodes' = nodes \ {fds[fd].path}
    /\ fds' = IF IsReusable(fd) THEN fds ELSE [f \in DOMAIN fds \ {fd} |-> fds[f]]
    /\ owned' = owned \ {fd}
    /\ UNCHANGED <<supported, call>>

SckNext == \/ OpenIpSocket \/ OpenUnixSocket \/ OpenUnixSocketPair \/ AcceptConnection
           \/ StepDone \/ StepFailed \/ Return
           \/ \E fd \in owned \cup Inherited : CloseSocket(fd)

SckSpec == SckInit /\ [][SckNext]_sckvars

----------------------------------------------------------------------------
(* Properties *)

\* Whatever step of whichever open fails, no descriptor is left behind and none
\* is closed that the call did not open: between calls the descriptors of the
\* process are the inherited ones and those that callers hold.
SckNoLeak == call.kind = "idle" => DOMAIN fds = owned \cup Inherited

\* A descriptor that a caller holds is closed on exec, and it is non-blocking
\* unless the caller asked for a blocking one, on systems with and without
\* SOCK_CLOEXEC and SOCK_NONBLOCK (a fault left the fallback half done if not).
SckFlagsSet ==
    /\ \A fd \in owned : fds[fd].cloexec
    /\ call.kind # "idle" /\ call.todo = <<>> =>
         \A i \in DOMAIN call.got : fds[call.got[i]].nonblock = ~call.block

\* A failed open leaves no node of its own in the file system: the node of a
\* path that this process bound is there exactly while the socket is open.
SckNodesOwned ==
    [][call.kind = "unix" /\ call'.kind = "idle" /\ owned' = owned =>
         (nodes' \ nodes = {}) /\ (fds[call.got[1]].path = call.path => call.path \notin nodes')]_sckvars

----------------------------------------------------------------------------
(***************************************************************************)
(* io/ntp_io.rs: the server and client sockets of the NTP layer, one of    *)
(* each family, counted (server), shared or separate (client), and their   *)
(* read handlers in the scheduler.  Descriptors are numbers, the lowest    *)
(* free one first, so that a number is used again after a close.  The PTP  *)
(* sockets are never opened by this code and left out.                     *)
(***************************************************************************)
CONSTANTS Families, IoMaxFd,    \* address families; bound on descriptors
          IoMaxRefs             \* bound: times a caller opens the server socket

\* server_sock_fd4/6 and client_sock_fd4/6: there are no other families.
ASSUME IoAssumption == Families \subseteq {4, 6} /\ IoMaxFd \in Nat /\ IoMaxRefs \in Nat

NoFd == 0

VARIABLES ioconf,       \* separate_client_sockets, permanent_server_sockets, and
                        \* whether the two ports are one / the server port is 0
          server,       \* server_sock_fd4/6
          refs,         \* server_sock_ref4/6
          client,       \* client_sock_fd4/6
          socks,        \* the open descriptors: connected or not
          handlers,     \* the descriptors with a read handler
          in_use,       \* the callers: server sockets held, separate sockets held
          up            \* initialised, and not panicked

iovars == <<ioconf, server, refs, client, socks, handlers, in_use, up>>

FreeFd(s) == Min((1..IoMaxFd) \ DOMAIN s)
Fits(s) == Cardinality(DOMAIN s) < IoMaxFd

\* open_socket: the descriptor and its handler, or nothing when the family is
\* off or three attempts fail.
Open(s, connected) == [fd \in DOMAIN s \cup {FreeFd(s)} |-> IF fd \in DOMAIN s THEN s[fd] ELSE connected]

\* initialise, for the family's sockets that open (the others fail).
Confs == {[separate |-> FALSE, shared |-> TRUE, permanent |-> TRUE, zero |-> FALSE],
          [separate |-> FALSE, shared |-> FALSE, permanent |-> FALSE, zero |-> FALSE],
          [separate |-> FALSE, shared |-> FALSE, permanent |-> TRUE, zero |-> TRUE],
          [separate |-> TRUE, shared |-> FALSE, permanent |-> FALSE, zero |-> FALSE],
          [separate |-> TRUE, shared |-> FALSE, permanent |-> TRUE, zero |-> TRUE]}

Initialise ==
    /\ ioconf \in Confs
    /\ \E ok \in SUBSET Families :
         LET Rank(f) == Cardinality({g \in ok : g <= f})
             fd == [f \in Families |-> IF f \in ok THEN Rank(f) ELSE NoFd]
             none == [f \in Families |-> NoFd]
         IN /\ server = IF ioconf.permanent /\ ~ioconf.zero THEN fd ELSE none
            /\ client = IF ioconf.separate THEN none ELSE fd
            /\ socks = IF ioconf.separate THEN <<>> ELSE [n \in 1..Cardinality(ok) |-> FALSE]
    /\ handlers = DOMAIN socks
    /\ refs = [f \in Families |-> 0]
    /\ in_use = [server |-> [f \in Families |-> 0], separate |-> {}]
    /\ up = TRUE

\* open_server_socket, when it gives the caller a counted descriptor.  (With
\* permanent sockets, and when the open fails, nothing changes.)
OpenServerSocket(f) ==
    /\ up /\ ~ioconf.permanent /\ in_use.server[f] < IoMaxRefs
    /\ \/ /\ server[f] = NoFd /\ Fits(socks)
          /\ server' = [server EXCEPT ![f] = FreeFd(socks)]
          /\ socks' = Open(socks, FALSE) /\ handlers' = handlers \cup {FreeFd(socks)}
       \/ /\ server[f] # NoFd
          /\ UNCHANGED <<server, socks, handlers>>
    /\ refs' = [refs EXCEPT ![f] = @ + 1]
    /\ in_use' = [in_use EXCEPT !.server[f] = @ + 1]
    /\ UNCHANGED <<ioconf, client, up>>

\* close_socket: remove_file_handler panics without a handler; then close.
Closed(s, fd) == [n \in DOMAIN s \ {fd} |-> s[n]]
IoCloseSocket(fd) ==
    /\ up' = (fd = NoFd \/ fd \in handlers)
    /\ handlers' = handlers \ {fd}
    /\ socks' = Closed(socks, fd)

\* close_server_socket by a caller that holds one.
CloseServerSocket(f) ==
    /\ up /\ in_use.server[f] > 0
    /\ in_use' = [in_use EXCEPT !.server[f] = @ - 1]
    /\ refs' = [refs EXCEPT ![f] = @ - 1]
    /\ IF refs[f] <= 1
       THEN IoCloseSocket(server[f]) /\ server' = [server EXCEPT ![f] = NoFd]
       ELSE UNCHANGED <<up, handlers, socks, server>>
    /\ UNCHANGED <<ioconf, client>>

\* open_client_socket with separate sockets; a shared one changes nothing.
OpenClientSocket ==
    /\ up /\ ioconf.separate /\ Fits(socks)
    /\ socks' = Open(socks, TRUE) /\ handlers' = handlers \cup {FreeFd(socks)}
    /\ in_use' = [in_use EXCEPT !.separate = @ \cup {FreeFd(socks)}]
    /\ UNCHANGED <<ioconf, server, refs, client, up>>

\* close_client_socket: of a separate socket, or of a shared one (kept open).
CloseClientSocket(fd) ==
    /\ up
    /\ IF ioconf.separate THEN IoCloseSocket(fd) ELSE UNCHANGED <<up, handlers, socks>>
    /\ in_use' = [in_use EXCEPT !.separate = @ \ {fd}]
    /\ UNCHANGED <<ioconf, server, refs, client>>

\* is_server_connectable opens a connected socket and closes it again: what
\* is left is what was there.
IsServerConnectable ==
    /\ up /\ Fits(socks)
    /\ LET s == Open(socks, TRUE) IN socks' = Closed(s, FreeFd(socks))
    /\ UNCHANGED <<ioconf, server, refs, client, handlers, in_use, up>>

NtpSocks == ({server[f] : f \in Families} \cup {client[f] : f \in Families}) \ {NoFd}

\* finalise, after the callers of separate sockets have closed theirs: a
\* socket that is both server and client is closed once.
Finalise ==
    /\ up /\ in_use.separate = {}
    /\ socks' = [n \in DOMAIN socks \ NtpSocks |-> socks[n]] /\ handlers' = handlers \ NtpSocks
    /\ server' = [f \in Families |-> NoFd] /\ client' = [f \in Families |-> NoFd]
    /\ in_use' = [in_use EXCEPT !.server = [f \in Families |-> 0]]
    /\ up' = FALSE
    /\ UNCHANGED <<ioconf, refs>>

IoNext == \/ \E f \in Families : OpenServerSocket(f) \/ CloseServerSocket(f)
          \/ OpenClientSocket \/ IsServerConnectable \/ Finalise
          \/ \E fd \in in_use.separate \cup ({client[f] : f \in Families} \ {NoFd}) : CloseClientSocket(fd)

IoSpec == Initialise /\ [][IoNext]_iovars

\* is_server_socket, and the condition of send_packet for naming the receiver.
IsServerSocket(fd) == fd # NoFd /\ \E f \in Families : server[f] = fd
NamesRemote(fd) == IsServerSocket(fd) \/ ~ioconf.separate

----------------------------------------------------------------------------
(* Properties *)

\* The read handlers are exactly those of the open sockets, and every socket
\* that someone holds is open: no close takes a socket away from another
\* holder, and none leaves a handler on a number the kernel gives out again.
IoSocketsHeld ==
    /\ handlers = DOMAIN socks
    /\ \A f \in Families : in_use.server[f] > 0 => server[f] \in DOMAIN socks
    /\ in_use.separate \subseteq DOMAIN socks
    /\ DOMAIN socks = in_use.separate \cup NtpSocks

\* The server socket closes with its last holder: it is open exactly while
\* someone holds it, unless it is permanent.
IoServerCounted == up /\ ~ioconf.permanent => \A f \in Families : (server[f] # NoFd) = (in_use.server[f] > 0)

\* send_packet names the receiver exactly on sockets that are not connected,
\* for every descriptor that is open: a number reused by a socket of the other
\* kind is not taken for the old one.
IoReceiverNamed == up => \A fd \in DOMAIN socks : NamesRemote(fd) = ~socks[fd]

\* What the socket layers keep, whichever call fails and whoever closes first: no
\* descriptor or node of the file system is left behind, the flags are set
\* (open_ip_socket, open_unix_socket, open_socket_pair, accept_connection), and the
\* NTP sockets are open, handled and addressed as their holders expect
\* (open_server_socket, close_server_socket, close_client_socket, send_packet).
SocketsSound ==
    /\ [](SckNoLeak /\ SckFlagsSet) /\ SckNodesOwned
    /\ [](IoSocketsHeld /\ IoServerCounted /\ IoReceiverNamed)

=============================================================================
