----------------------------- MODULE SigndQueue -----------------------------
(***************************************************************************)
(* The bridge to the MS-SNTP signing daemon (ntp_signd.rs): packets wait   *)
(* in a ring, one request at a time is written to a stream socket, and the *)
(* response to it is read, both possibly in pieces.  A request is          *)
(* ReqLen units long, a response RespLen units; the first unit of a        *)
(* response holds its length.  The signing daemon is external.             *)
(***************************************************************************)
EXTENDS Integers
CONSTANTS
  Clients,      \* who waits for a signed packet (the remote address)
  QueueLength,  \* MAX_QUEUE_LENGTH
  ReqLen, RespLen
ASSUME SigndAssumption == {QueueLength, ReqLen, RespLen} \subseteq Nat \ {0}

VARIABLES
  head, tail, queue,  \* SigndBridge: indices and entries [client, id, sent, received]
  sock_open, output,  \* the socket, and whether its writable event is enabled
  signer,             \* the request the daemon has read entirely, or NoRequest
  reply,              \* the response on its way, or NoReply
  delivered           \* the last packet sent out: its receiver and whose packet was signed
signdvars == <<head, tail, queue, sock_open, output, signer, reply, delivered>>

Indices == 0..(QueueLength - 1)
NoClient == "none"
NoRequest == [client |-> NoClient, id |-> 0]
NoReply == [client |-> NoClient, id |-> 0, ok |-> FALSE, fits |-> FALSE, left |-> 0]
Blank == [client |-> NoClient, id |-> 0, sent |-> 0, received |-> 0]
NothingSent == [to |-> NoClient, signed |-> NoClient]

NextIndex(i) == (i + 1) % QueueLength
Queued == {i \in Indices : (i - head) % QueueLength < (tail - head) % QueueLength}
Waiting == {queue[i].client : i \in Queued}

Init ==
  /\ head = 0 /\ tail = 0 /\ queue = [i \in Indices |-> Blank]
  /\ sock_open = FALSE /\ output = FALSE
  /\ signer = NoRequest /\ reply = NoReply
  /\ delivered = NothingSent

\* close_socket: what is queued is dropped, and the stream with what was on it.
Close ==
  /\ sock_open' = FALSE /\ output' = FALSE
  /\ head' = 0 /\ tail' = 0 /\ queue' = [i \in Indices |-> Blank]
  /\ signer' = NoRequest /\ reply' = NoReply
  /\ UNCHANGED delivered

\* sign_and_send_packet: refused when the ring is full or the socket cannot be
\* opened; the writable event is enabled only for the first packet of the queue.
SignAndSend(c) ==
  /\ c \notin Waiting
  /\ head # NextIndex(tail)
  /\ sock_open' = TRUE
  /\ queue' = [queue EXCEPT ![tail] = [client |-> c, id |-> tail, sent |-> 0, received |-> 0]]
  /\ output' = (output \/ head = tail)
  /\ tail' = NextIndex(tail)
  /\ UNCHANGED <<head, signer, reply, delivered>>

\* read_write_socket on a writable socket, n units written
SendSome(n) ==
  /\ sock_open /\ output
  /\ n \in 0..(ReqLen - queue[head].sent)
  /\ LET done == queue[head].sent + n = ReqLen IN
       /\ queue' = [queue EXCEPT ![head].sent = @ + n]
       /\ output' = ~done
       /\ signer' = IF done THEN [client |-> queue[head].client, id |-> queue[head].id] ELSE signer
  /\ UNCHANGED <<head, tail, sock_open, reply, delivered>>
SendFails == sock_open /\ output /\ Close

\* process_response
ProcessUnchecked(e, serving) ==
  IF reply.ok /\ serving THEN [to |-> e.client, signed |-> reply.client] ELSE delivered
ProcessResponse(e, serving) ==
  IF e.id = reply.id /\ reply.ok /\ serving THEN [to |-> e.client, signed |-> reply.client] ELSE delivered

\* read_write_socket on a readable socket, n units read
ReadSome(n, serving) ==
  /\ sock_open /\ head # tail
  /\ n \in 1..reply.left
  /\ LET received == queue[head].received + n IN
       IF ~reply.fits THEN Close
       ELSE IF received < RespLen
       THEN /\ queue' = [queue EXCEPT ![head].received = received]
            /\ reply' = [reply EXCEPT !.left = @ - n]
            /\ UNCHANGED <<head, tail, sock_open, output, signer, delivered>>
       ELSE /\ delivered' = ProcessResponse(queue[head], serving)
            /\ queue' = [queue EXCEPT ![head] = Blank]
            /\ head' = NextIndex(head)
            /\ output' = (output \/ NextIndex(head) # tail)
            /\ reply' = NoReply
            /\ UNCHANGED <<tail, sock_open, signer>>
\* The daemon closed the stream, or it is readable with nothing queued.
ReadFails == sock_open /\ Close

\* The signing daemon answers the request it has read: with its id and the
\* packet signed, or refusing it, or with another id, or with a length that
\* does not fit.
Answer(id, c, ok, fits) ==
  /\ signer # NoRequest
  /\ (id = signer.id) = (c = signer.client)
  /\ reply' = [client |-> c, id |-> id, ok |-> ok, fits |-> fits, left |-> RespLen]
  /\ signer' = NoRequest
  /\ UNCHANGED <<head, tail, queue, sock_open, output, delivered>>

Send == \E n \in 1..ReqLen : SendSome(n)
Read == \E n \in 1..RespLen, serving \in BOOLEAN : ReadSome(n, serving)
Answers == \E id \in Indices, c \in Clients, ok, fits \in BOOLEAN : Answer(id, c, ok, fits)
Next ==
  \/ \E c \in Clients : SignAndSend(c)
  \/ SendSome(0) \/ Send \/ SendFails
  \/ Read \/ ReadFails
  \/ Answers

\* The loop serves a ready socket, the socket takes data in the end, and the
\* daemon answers what it has read.
SigndFairness == WF_signdvars(Send) /\ WF_signdvars(Read) /\ WF_signdvars(Answers)
Spec == Init /\ [][Next]_signdvars /\ SigndFairness
-----------------------------------------------------------------------------
\* Type invariant: the indices stay in the ring and the lengths within a message.
SigndTypeOK ==
  /\ head \in Indices /\ tail \in Indices
  /\ queue \in [Indices -> [client : Clients \union {NoClient}, id : Indices, sent : 0..ReqLen, received : 0..RespLen]]
  /\ sock_open \in BOOLEAN /\ output \in BOOLEAN
  /\ signer \in [client : Clients \union {NoClient}, id : Indices]
  /\ reply \in [client : Clients \union {NoClient}, id : Indices, ok : BOOLEAN, fits : BOOLEAN, left : 0..RespLen]
  /\ delivered \in [to : Clients \union {NoClient}, signed : Clients \union {NoClient}]

\* A packet goes out only to the client whose packet was signed, whatever the
\* daemon answers and however requests and responses are cut in pieces.
SigndRightClient == delivered.to = delivered.signed

\* At most the packet at the head has been written to the socket, and the
\* writable event is enabled exactly while that packet is still to be written:
\* a request can neither be forgotten nor be written twice.
SigndOutputExact ==
  /\ \A i \in Queued \ {head} : queue[i].sent = 0
  /\ output <=> head # tail /\ queue[head].sent < ReqLen
  /\ head # tail => sock_open

\* What the ring promises a client and the loop: indices in range, no packet to
\* the wrong client, and the event on for exactly the unwritten head.
SigndSound == SigndTypeOK /\ SigndRightClient /\ SigndOutputExact

\* A queued packet leaves the queue: answered, or dropped with the connection.
SigndServed == \A c \in Clients : c \in Waiting ~> c \notin Waiting
=============================================================================
