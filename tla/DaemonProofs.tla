--------------------------- MODULE DaemonProofs ---------------------------
(***************************************************************************)
(* Proofs about the processes of the daemon.                               *)
(* The signing queue, for every length of the ring and of the messages:    *)
(* which client a response is for follows from a statement about the one   *)
(* request that is out: it is the packet at the head of the ring, it has   *)
(* been written entirely, and it is either with the signing daemon or      *)
(* answered, never both.                                                   *)
(* The privileged helper, for every table of names and any number of       *)
(* calls: a call returns the answer to its own request. The daemon and the *)
(* helper share no identifier of a request, so the pairing rests on there  *)
(* being one message between them (OneExchange).                           *)
(* The start and the end of the daemon, for every configuration: makestep  *)
(* is counted against its limit, and the drift file is never left half     *)
(* written.                                                                *)
(***************************************************************************)
EXTENDS SigndQueue, PrivOps, Daemon, TLAPS


-----------------------------------------------------------------------------
(* The signing queue (ntp_signd.rs).                                       *)

\* The ring beyond its head is unwritten, and so is the head of an empty one.
RingFresh ==
  /\ \A i \in Indices : i # head => queue[i].sent = 0
  /\ head = tail => queue[head].sent = 0

\* The writable event and the socket.
Wiring ==
  /\ output <=> head # tail /\ queue[head].sent < ReqLen
  /\ head # tail => sock_open

\* The request the daemon has is the one at the head.
AtSigner ==
  signer # NoRequest =>
    /\ head # tail /\ queue[head].sent = ReqLen
    /\ signer.client = queue[head].client /\ signer.id = queue[head].id
    /\ reply.left = 0

\* A response under way is for the head, or names another request.
OnItsWay ==
  reply.left # 0 =>
    /\ head # tail /\ queue[head].sent = ReqLen
    /\ signer = NoRequest
    /\ reply.id = queue[head].id => reply.client = queue[head].client

IInv == SigndTypeOK /\ RingFresh /\ Wiring /\ AtSigner /\ OnItsWay /\ SigndRightClient

-----------------------------------------------------------------------------
\* next_index stays in the ring.
LEMMA NextIndexType == \A i \in Indices : NextIndex(i) \in Indices
  BY SigndAssumption DEF NextIndex, Indices

\* The entries of the ring in their types.
Entry == [client : Clients \union {NoClient}, id : Indices, sent : 0..ReqLen, received : 0..RespLen]

\* An empty entry, and no request and no response, have their types.
LEMMA BlankType ==
  /\ 0 \in Indices /\ Blank \in Entry
  /\ NoRequest \in [client : Clients \union {NoClient}, id : Indices]
  /\ NoReply \in [client : Clients \union {NoClient}, id : Indices, ok : BOOLEAN, fits : BOOLEAN, left : 0..RespLen]
  /\ Blank.sent = 0 /\ NoReply.left = 0
  BY SigndAssumption DEF Indices, Blank, Entry, NoRequest, NoReply

\* The bridge starts in the invariant.
LEMMA InitIInv == Init => IInv
<1> SUFFICES ASSUME Init PROVE IInv
  OBVIOUS
<1>1. queue \in [Indices -> Entry] /\ \A i \in Indices : queue[i].sent = 0
  BY BlankType DEF Init
<1>2. SigndTypeOK
  BY <1>1, BlankType, Zenon DEF Init, SigndTypeOK, Entry, NothingSent
<1>3. RingFresh /\ Wiring /\ AtSigner /\ OnItsWay /\ SigndRightClient
  BY <1>1, BlankType DEF Init, RingFresh, Wiring, AtSigner, OnItsWay, SigndRightClient, NothingSent
<1>4. QED
  BY <1>2, <1>3 DEF IInv

\* close_socket returns to a state like the first one.
LEMMA CloseKeeps == IInv /\ Close => IInv'
<1> SUFFICES ASSUME IInv, Close PROVE IInv'
  OBVIOUS
<1>1. queue' \in [Indices -> Entry] /\ \A i \in Indices : queue'[i].sent = 0
  BY BlankType DEF Close
<1>2. SigndTypeOK'
  BY <1>1, BlankType, Zenon DEF Close, SigndTypeOK, Entry, IInv
<1>3. (RingFresh /\ Wiring /\ AtSigner /\ OnItsWay /\ SigndRightClient)'
  BY <1>1, BlankType DEF IInv, Close, RingFresh, Wiring, AtSigner, OnItsWay, SigndRightClient
<1>4. QED
  BY <1>2, <1>3 DEF IInv

\* A new packet goes behind the others and disturbs none of them.
LEMMA SignAndSendKeeps == ASSUME NEW c \in Clients PROVE IInv /\ SignAndSend(c) => IInv'
<1> SUFFICES ASSUME IInv, SignAndSend(c) PROVE IInv'
  OBVIOUS
<1> DEFINE e == [client |-> c, id |-> tail, sent |-> 0, received |-> 0]
<1>1. head \in Indices /\ tail \in Indices /\ queue \in [Indices -> Entry]
  BY DEF IInv, SigndTypeOK, Entry
<1>2. e \in Entry /\ e.sent = 0
  BY <1>1, SigndAssumption DEF Entry
<1>3. queue' = [queue EXCEPT ![tail] = e] /\ head' = head /\ tail' = NextIndex(tail) /\ head' # tail'
  BY DEF SignAndSend
<1>4. queue' \in [Indices -> Entry] /\ tail' \in Indices
  BY <1>1, <1>2, <1>3, NextIndexType
<1>5. SigndTypeOK'
  BY <1>1, <1>3, <1>4 DEF IInv, SigndTypeOK, SignAndSend, Entry
<1>6. head # tail => queue'[head] = queue[head]
  BY <1>1, <1>3
<1>7. head = tail => queue'[head].sent = 0
  BY <1>1, <1>2, <1>3
<1>8. RingFresh'
  BY <1>1, <1>2, <1>3 DEF IInv, RingFresh
<1>9. Wiring'
  <2>1. head = tail => queue'[head].sent < ReqLen
    BY <1>7, SigndAssumption
  <2>2. output <=> head # tail /\ queue[head].sent < ReqLen
    BY DEF IInv, Wiring
  <2>3. output' = (output \/ head = tail) /\ sock_open'
    BY DEF SignAndSend
  <2>4. output' <=> queue'[head'].sent < ReqLen
    BY <1>3, <1>6, <2>1, <2>2, <2>3, Zenon
  <2>5. QED
    BY <1>3, <2>3, <2>4, Zenon DEF Wiring
<1>10. (AtSigner /\ OnItsWay)'
  BY <1>3, <1>6 DEF IInv, AtSigner, OnItsWay, SignAndSend
<1>11. SigndRightClient'
  BY DEF IInv, SigndRightClient, SignAndSend
<1>12. QED
  BY <1>5, <1>8, <1>9, <1>10, <1>11 DEF IInv

\* Writing a part of the head, or the last of it, which hands it over.
LEMMA SendKeeps == ASSUME NEW n \in Nat PROVE IInv /\ SendSome(n) => IInv'
<1> SUFFICES ASSUME IInv, SendSome(n) PROVE IInv'
  OBVIOUS
<1> DEFINE done == queue[head].sent + n = ReqLen
<1>1. head \in Indices /\ tail \in Indices /\ queue \in [Indices -> Entry]
  BY DEF IInv, SigndTypeOK, Entry
<1>2. queue[head] \in Entry
  BY <1>1
<1>3. queue[head].sent \in 0..ReqLen /\ queue[head].sent + n \in 0..ReqLen
  BY <1>2, SigndAssumption DEF SendSome, Entry
<1>4. queue' = [queue EXCEPT ![head] = [queue[head] EXCEPT !.sent = queue[head].sent + n]]
  BY DEF SendSome
<1>5. /\ queue'[head].sent = queue[head].sent + n /\ queue'[head].client = queue[head].client
      /\ queue'[head].id = queue[head].id
      /\ \A i \in Indices : i # head => queue'[i] = queue[i]
  BY <1>1, <1>2, <1>4 DEF Entry
<1>6. [queue[head] EXCEPT !.sent = queue[head].sent + n] \in Entry
  BY <1>2, <1>3 DEF Entry
<1>7. queue' \in [Indices -> Entry]
  BY <1>1, <1>4, <1>6
<1>8. /\ output /\ head # tail /\ queue[head].sent < ReqLen
      /\ head' = head /\ tail' = tail /\ sock_open' = sock_open /\ reply' = reply /\ delivered' = delivered
      /\ output' = ~done
      /\ signer' = IF done THEN [client |-> queue[head].client, id |-> queue[head].id] ELSE signer
  BY DEF IInv, Wiring, SendSome
<1>9. signer = NoRequest /\ reply.left = 0
  BY <1>3, <1>8, SigndAssumption DEF IInv, AtSigner, OnItsWay
<1>10. signer' \in [client : Clients \union {NoClient}, id : Indices]
  BY <1>2, <1>8 DEF IInv, SigndTypeOK, Entry
<1>11. SigndTypeOK'
  BY <1>1, <1>7, <1>8, <1>10 DEF IInv, SigndTypeOK, Entry
<1>12. RingFresh'
  BY <1>1, <1>5, <1>8 DEF IInv, RingFresh
<1>13. Wiring'
  <2>1. ~done <=> queue'[head].sent < ReqLen
    BY <1>3, <1>5, SigndAssumption
  <2>2. output' <=> queue'[head'].sent < ReqLen
    BY <2>1, <1>8, Zenon
  <2>3. head' # tail' /\ sock_open'
    BY <1>8 DEF SendSome
  <2>4. QED
    BY <2>2, <2>3, Zenon DEF Wiring
<1>14. AtSigner'
  BY <1>5, <1>8, <1>9 DEF IInv, AtSigner
<1>15. OnItsWay'
  BY <1>8, <1>9 DEF OnItsWay
<1>16. SigndRightClient'
  BY <1>8 DEF IInv, SigndRightClient
<1>17. QED
  BY <1>11, <1>12, <1>13, <1>14, <1>15, <1>16 DEF IInv

\* A response read to its end frees the head, and the next packet is unwritten.
LEMMA ReadKeeps ==
  ASSUME NEW n \in Nat, NEW serving \in BOOLEAN PROVE IInv /\ ReadSome(n, serving) => IInv'
<1> SUFFICES ASSUME IInv, ReadSome(n, serving) PROVE IInv'
  OBVIOUS
<1> DEFINE received == queue[head].received + n
<1>1. head \in Indices /\ tail \in Indices /\ queue \in [Indices -> Entry]
  BY DEF IInv, SigndTypeOK, Entry
<1>2. queue[head] \in Entry
  BY <1>1
<1>3. reply.left \in 0..RespLen /\ n \in 1..reply.left /\ reply.left # 0 /\ head # tail /\ sock_open
  BY SigndAssumption DEF IInv, SigndTypeOK, ReadSome
<1>4. /\ queue[head].sent = ReqLen /\ signer = NoRequest
      /\ reply.id = queue[head].id => reply.client = queue[head].client
  BY <1>3 DEF IInv, OnItsWay
<1>5. ~output
  BY <1>4, SigndAssumption DEF IInv, Wiring
<1>6. CASE ~reply.fits
  BY <1>6, CloseKeeps DEF ReadSome
<1>7. CASE reply.fits /\ received < RespLen
  <2> DEFINE e == [queue[head] EXCEPT !.received = received]
  <2>1. queue' = [queue EXCEPT ![head] = e] /\ reply' = [reply EXCEPT !.left = reply.left - n]
    BY <1>7 DEF ReadSome
  <2>2. received \in 0..RespLen
    BY <1>2, <1>7, SigndAssumption DEF Entry
  <2>3. /\ e \in Entry /\ e.sent = queue[head].sent /\ e.client = queue[head].client
        /\ e.id = queue[head].id
    BY <1>2, <2>2 DEF Entry
  <2>4. queue' \in [Indices -> Entry]
    BY <1>1, <2>1, <2>3
  <2>5. queue'[head] = e /\ \A i \in Indices : i # head => queue'[i] = queue[i]
    BY <1>1, <2>1
  <2>6. /\ head' = head /\ tail' = tail /\ sock_open' = sock_open /\ output' = output
        /\ signer' = signer /\ delivered' = delivered
    BY <1>7 DEF ReadSome
  <2>7. reply.left - n \in 0..RespLen
    BY <1>3, SigndAssumption
  <2>8. /\ reply' \in [client : Clients \union {NoClient}, id : Indices, ok : BOOLEAN, fits : BOOLEAN,
                       left : 0..RespLen]
        /\ reply'.id = reply.id /\ reply'.client = reply.client
    BY <2>1, <2>7 DEF IInv, SigndTypeOK
  <2>9. SigndTypeOK'
    BY <2>4, <2>6, <2>8 DEF IInv, SigndTypeOK, Entry
  <2>10. RingFresh'
    BY <1>1, <1>3, <2>5, <2>6 DEF IInv, RingFresh
  <2>11. Wiring'
    BY <2>3, <2>5, <2>6, Zenon DEF IInv, Wiring
  <2>12. (AtSigner /\ OnItsWay)'
    BY <1>3, <1>4, <2>3, <2>5, <2>6, <2>8, Zenon DEF AtSigner, OnItsWay
  <2>13. SigndRightClient'
    BY <2>6 DEF IInv, SigndRightClient
  <2>14. QED
    BY <2>9, <2>10, <2>11, <2>12, <2>13 DEF IInv
<1>8. CASE reply.fits /\ ~(received < RespLen)
  <2>1. /\ delivered' = ProcessResponse(queue[head], serving)
        /\ queue' = [queue EXCEPT ![head] = Blank] /\ head' = NextIndex(head)
        /\ output' = (output \/ NextIndex(head) # tail)
        /\ reply' = NoReply /\ tail' = tail /\ sock_open' = sock_open /\ signer' = signer
    BY <1>8 DEF ReadSome
  <2>2. queue' \in [Indices -> Entry] /\ head' \in Indices
    BY <1>1, <2>1, BlankType, NextIndexType
  <2>3. \A i \in Indices : queue'[i].sent = 0
    BY <1>1, <2>1, BlankType DEF IInv, RingFresh
  <2>4. delivered'.to = delivered'.signed
    BY <1>4, <2>1 DEF ProcessResponse, IInv, SigndRightClient
  <2>5. delivered' \in [to : Clients \union {NoClient}, signed : Clients \union {NoClient}]
    BY <1>2, <2>1 DEF ProcessResponse, IInv, SigndTypeOK, Entry
  <2>6. SigndTypeOK'
    BY <2>1, <2>2, <2>5, BlankType DEF IInv, SigndTypeOK, Entry
  <2>7. RingFresh'
    BY <2>2, <2>3 DEF RingFresh
  <2>8. Wiring'
    <3>1. queue'[head'].sent < ReqLen
      BY <2>2, <2>3, SigndAssumption
    <3>2. output' <=> head' # tail'
      BY <1>5, <2>1, Zenon
    <3>3. sock_open'
      BY <1>3, <2>1
    <3>4. QED
      BY <3>1, <3>2, <3>3, Zenon DEF Wiring
  <2>9. (AtSigner /\ OnItsWay)'
    BY <1>4, <2>1, BlankType DEF AtSigner, OnItsWay
  <2>10. QED
    BY <2>4, <2>6, <2>7, <2>8, <2>9 DEF IInv, SigndRightClient
<1>9. QED
  BY <1>6, <1>7, <1>8

\* Whatever the daemon answers, its answer is about the request at the head.
LEMMA SigndAnswerKeeps ==
  ASSUME NEW id \in Indices, NEW c \in Clients, NEW ok \in BOOLEAN, NEW fits \in BOOLEAN
  PROVE  IInv /\ Answer(id, c, ok, fits) => IInv'
<1> SUFFICES ASSUME IInv, Answer(id, c, ok, fits) PROVE IInv'
  BY SMTT(30)
<1>1. /\ head # tail /\ queue[head].sent = ReqLen
      /\ signer.client = queue[head].client /\ signer.id = queue[head].id
  BY DEF IInv, AtSigner, Answer
<1>2. /\ reply' = [client |-> c, id |-> id, ok |-> ok, fits |-> fits, left |-> RespLen]
      /\ signer' = NoRequest
      /\ UNCHANGED <<head, tail, queue, sock_open, output, delivered>>
      /\ (id = signer.id) = (c = signer.client)
  BY DEF Answer
<1>3. SigndTypeOK'
  BY <1>2, BlankType, SigndAssumption DEF IInv, SigndTypeOK
<1>4. (RingFresh /\ Wiring /\ SigndRightClient)'
  BY <1>2 DEF IInv, RingFresh, Wiring, SigndRightClient
<1>5. (AtSigner /\ OnItsWay)'
  BY <1>1, <1>2 DEF AtSigner, OnItsWay
<1>6. QED
  BY <1>3, <1>4, <1>5 DEF IInv

\* Every step of the bridge, the socket and the daemon keeps the invariant.
LEMMA NextIInv == IInv /\ [Next]_signdvars => IInv'
<1> SUFFICES ASSUME IInv, [Next]_signdvars PROVE IInv'
  OBVIOUS
<1>1. ASSUME NEW c \in Clients, SignAndSend(c) PROVE IInv'
  BY <1>1, SignAndSendKeeps
<1>2. CASE SendSome(0) \/ Send
  <2>1. PICK n \in Nat : SendSome(n)
    BY <1>2, SigndAssumption DEF Send
  <2>2. QED
    BY <2>1, SendKeeps
<1>3. CASE SendFails \/ ReadFails
  BY <1>3, CloseKeeps DEF SendFails, ReadFails
<1>4. CASE Read
  <2>1. PICK n \in Nat, serving \in BOOLEAN : ReadSome(n, serving)
    BY <1>4, SigndAssumption DEF Read
  <2>2. QED
    BY <2>1, ReadKeeps
<1>5. CASE Answers
  BY <1>5, SigndAnswerKeeps DEF Answers
<1>6. CASE UNCHANGED signdvars
  BY <1>6 DEF signdvars, IInv, SigndTypeOK, RingFresh, Wiring, AtSigner, OnItsWay, SigndRightClient
<1>7. QED
  BY <1>1, <1>2, <1>3, <1>4, <1>5, <1>6 DEF Next

\* The invariant is one of the whole specification.
LEMMA SigndInvariant == Spec => []IInv
  BY InitIInv, NextIInv, PTL DEF Spec

\* Type correctness, for every length of the ring and of the messages.
THEOREM SigndTypeTheorem == Spec => []SigndTypeOK
<1>1. IInv => SigndTypeOK
  BY DEF IInv
<1>2. QED
  BY <1>1, SigndInvariant, PTL

\* A packet goes out only to the client whose packet was signed: a late,
\* refused or mismatched response never shifts the pairing of those behind it.
THEOREM RightClientTheorem == Spec => []SigndRightClient
<1>1. IInv => SigndRightClient
  BY DEF IInv
<1>2. QED
  BY <1>1, SigndInvariant, PTL

\* Exactly the unwritten head keeps the writable event on: no packet is
\* forgotten in the ring and none is written twice.
THEOREM OutputTheorem == Spec => []SigndOutputExact
<1>1. IInv => SigndOutputExact
  BY DEF IInv, SigndOutputExact, RingFresh, Wiring, Queued
<1>2. QED
  BY <1>1, SigndInvariant, PTL

\* The three together: sign_and_send, read_write_socket and process_response
\* keep the ring sound for every length of it, every number of clients and
\* every way messages are cut.
THEOREM SigndTheorem == Spec => []SigndSound
<1>1. SigndTypeOK /\ SigndRightClient /\ SigndOutputExact => SigndSound
  BY Zenon DEF SigndSound
<1>2. QED
  BY <1>1, SigndTypeTheorem, RightClientTheorem, OutputTheorem, PTL

-----------------------------------------------------------------------------
(* The privileged helper (privops.rs).                                     *)

\* Nothing is in either direction of the pair and nothing is being worked on.
Quiet == toHelper = <<>> /\ toDaemon = <<>> /\ helper # "work"

\* The one exchange a waiting daemon takes part in: its request is on its way,
\* with the helper, or answered; or the helper is gone and it is lost.
Exchange ==
    \/ Quiet /\ ~HelperOpen
    \/ toHelper = <<asked>> /\ toDaemon = <<>> /\ helper = "recv"
    \/ toHelper = <<>> /\ toDaemon = <<>> /\ helper = "work" /\ held = asked
    \/ /\ toHelper = <<>> /\ helper # "work"
       /\ \E rc, n : toDaemon = <<[to |-> asked, rc |-> rc, addrs |-> n]>>

\* The inductive invariant.
OneExchange == (daemon = "run" => Quiet) /\ (daemon = "wait" => Exchange)

\* What the pair's sequences of at most one message do.
LEMMA OneMessage ==
    ASSUME NEW m PROVE /\ Append(<<>>, m) = <<m>> /\ Head(<<m>>) = m /\ Tail(<<m>>) = <<>>
                       /\ <<m>> # <<>>
  OBVIOUS

\* Before the fork nothing is on its way.
LEMMA InitExchange == PrivInit => OneExchange
  BY DEF PrivInit, OneExchange, Quiet

\* A request enters an empty pair, or is lost when the helper is gone.
LEMMA SubmitKeeps == ASSUME NEW r PROVE OneExchange /\ Submit(r) => OneExchange'
<1> SUFFICES ASSUME OneExchange, Submit(r) PROVE OneExchange'
  OBVIOUS
<1>1. Quiet /\ daemon' = "wait" /\ asked' = r /\ helper' = helper /\ toDaemon' = toDaemon
  BY DEF OneExchange, Submit
<1>2. CASE HelperOpen
  <2>1. helper' = "recv" /\ toHelper' = <<asked'>> /\ toDaemon' = <<>>
    BY <1>1, <1>2, OneMessage DEF Submit, Sent, Quiet, HelperOpen
  <2>2. QED
    BY <1>1, <2>1 DEF OneExchange, Exchange
<1>3. CASE ~HelperOpen
  <2>1. toHelper' = toHelper
    BY <1>3 DEF Submit, Sent
  <2>2. QED
    BY <1>1, <1>3, <2>1 DEF OneExchange, Exchange, Quiet, HelperOpen
<1>4. QED
  BY <1>2, <1>3

\* The daemon takes the only answer there is, or meets the end of the stream.
LEMMA ReceiveKeeps == OneExchange /\ ReceiveResponse => OneExchange' /\ answer'.to = asked
<1> SUFFICES ASSUME OneExchange, ReceiveResponse PROVE OneExchange' /\ answer'.to = asked
  OBVIOUS
<1>1. /\ Exchange /\ daemon' = "run" /\ helper' = helper /\ toHelper' = toHelper
  BY DEF OneExchange, ReceiveResponse
<1>2. CASE toDaemon # <<>>
  <2>1. toHelper = <<>> /\ helper # "work"
    BY <1>1, <1>2 DEF Exchange, Quiet
  <2>2. PICK rc, n : toDaemon = <<[to |-> asked, rc |-> rc, addrs |-> n]>>
    BY <1>1, <1>2 DEF Exchange, Quiet
  <2>3. answer' = Head(toDaemon) /\ toDaemon' = Tail(toDaemon)
    BY <1>2 DEF ReceiveResponse
  <2>4. answer'.to = asked /\ toDaemon' = <<>>
    BY <2>2, <2>3, OneMessage
  <2>5. QED
    BY <1>1, <2>1, <2>4 DEF OneExchange, Quiet
<1>3. CASE toDaemon = <<>>
  <2>1. ~HelperOpen /\ answer' = Failure(asked) /\ toDaemon' = <<>>
    BY <1>3 DEF ReceiveResponse
  <2>2. Quiet
    BY <1>1, <1>3, <2>1, OneMessage DEF Exchange, HelperOpen
  <2>3. QED
    BY <1>1, <2>1, <2>2 DEF OneExchange, Quiet, Failure
<1>4. QED
  BY <1>2, <1>3

\* The helper takes a request only from a daemon that waits on it.
LEMMA TakeKeeps == OneExchange /\ HelperTake => OneExchange'
<1> SUFFICES ASSUME OneExchange, HelperTake PROVE OneExchange'
  OBVIOUS
<1>1. /\ helper = "recv" /\ toHelper # <<>> /\ daemon' = daemon /\ asked' = asked /\ toDaemon' = toDaemon
      /\ held' = Head(toHelper) /\ toHelper' = Tail(toHelper) /\ helper' \in {"dead", "work"}
  BY DEF HelperTake
<1>2. daemon # "run"
  BY <1>1 DEF OneExchange, Quiet
<1>3. CASE daemon = "wait"
  <2>1. toHelper = <<asked>> /\ toDaemon = <<>>
    BY <1>1, <1>3 DEF OneExchange, Exchange, Quiet
  <2>2. held' = asked' /\ toHelper' = <<>> /\ toDaemon' = <<>>
    BY <1>1, <2>1, OneMessage
  <2>3. QED
    BY <1>1, <1>2, <2>2 DEF OneExchange, Exchange, Quiet, HelperOpen
<1>4. QED
  BY <1>1, <1>2, <1>3 DEF OneExchange

\* Its answer is to the request it holds, and the only one on its way.
LEMMA HelperAnswerKeeps == OneExchange /\ HelperAnswer => OneExchange'
<1> SUFFICES ASSUME OneExchange, HelperAnswer PROVE OneExchange'
  OBVIOUS
<1>1. /\ helper = "work" /\ helper' = "recv" /\ daemon' = daemon /\ asked' = asked /\ toHelper' = toHelper
  BY DEF HelperAnswer
<1>2. daemon # "run"
  BY <1>1 DEF OneExchange, Quiet
<1>3. CASE daemon = "wait"
  <2>1. toHelper = <<>> /\ toDaemon = <<>> /\ held = asked
    BY <1>1, <1>3 DEF OneExchange, Exchange, Quiet
  <2>2. PICK rc, n : toDaemon' = Append(toDaemon, [to |-> held, rc |-> rc, addrs |-> n])
    BY <1>3, Zenon DEF HelperAnswer
  <2>3. toDaemon' = <<[to |-> asked', rc |-> rc, addrs |-> n]>>
    BY <1>1, <2>1, <2>2, OneMessage
  <2>4. QED
    BY <1>1, <1>2, <2>1, <2>3, Zenon DEF OneExchange, Exchange
<1>4. QED
  BY <1>1, <1>2, <1>3 DEF OneExchange

\* A killed helper takes its request with it; an answer already sent stays.
LEMMA KillHelperKeeps == OneExchange /\ KillHelper => OneExchange'
<1> SUFFICES ASSUME OneExchange, KillHelper PROVE OneExchange'
  OBVIOUS
<1>1. /\ helper' = "dead" /\ toHelper' = <<>> /\ daemon' = daemon /\ asked' = asked /\ toDaemon' = toDaemon
  BY DEF KillHelper
<1>2. QED
  BY <1>1 DEF OneExchange, Exchange, Quiet, HelperOpen

\* Every step of the two processes keeps the invariant, and the step in which
\* a call returns returns the answer to it.
LEMMA NextExchange ==
    OneExchange /\ [PrivNext]_privvars =>
        OneExchange' /\ (daemon = "wait" /\ daemon' = "run" => answer'.to = asked)
<1> SUFFICES ASSUME OneExchange, [PrivNext]_privvars
             PROVE  OneExchange' /\ (daemon = "wait" /\ daemon' = "run" => answer'.to = asked)
  OBVIOUS
<1>1. CASE StartHelper
  BY <1>1 DEF StartHelper, OneExchange, Quiet
<1>2. CASE ReloadDns \/ \E n \in DOMAIN Names : NameToIpAddress(n)
  <2>1. PICK r : Submit(r)
    BY <1>2 DEF ReloadDns, NameToIpAddress
  <2>2. daemon' = "wait"
    BY <2>1 DEF Submit
  <2>3. QED
    BY <2>1, <2>2, SubmitKeeps
<1>3. CASE Stop
  BY <1>3 DEF Stop, OneExchange
<1>4. CASE Reap
  BY <1>4 DEF Reap, OneExchange
<1>5. CASE ReceiveResponse
  BY <1>5, ReceiveKeeps
<1>6. CASE HelperTake
  BY <1>6, TakeKeeps DEF HelperTake
<1>7. CASE HelperAnswer
  BY <1>7, HelperAnswerKeeps DEF HelperAnswer
<1>8. CASE HelperEof
  BY <1>8 DEF HelperEof, OneExchange
<1>9. CASE KillHelper
  BY <1>9, KillHelperKeeps DEF KillHelper
<1>10. CASE KillDaemon
  BY <1>10 DEF KillDaemon, OneExchange
<1>11. CASE \E n \in DOMAIN Names : RefuseLong(n)
  BY <1>11 DEF RefuseLong, OneExchange, Quiet
<1>12. CASE UNCHANGED privvars
  BY <1>12 DEF privvars, OneExchange, Exchange, Quiet, HelperOpen
<1>13. QED
  BY <1>1, <1>2, <1>3, <1>4, <1>5, <1>6, <1>7, <1>8, <1>9, <1>10, <1>11, <1>12 DEF PrivNext, PrivSteps

\* At most one message is ever between the two processes.
LEMMA ExchangeInvariant == PrivSpec => []OneExchange
  BY InitExchange, NextExchange, PTL DEF PrivSpec

\* Every call of PrivClient gets the answer to its own request, although the
\* messages carry no identifier and the helper may be killed at any point.
THEOREM PrivAnswersTheorem == PrivSpec => PrivAnswersOwn
<1>1. OneExchange /\ [PrivNext]_privvars =>
          [daemon = "wait" /\ daemon' = "run" => answer'.to = asked]_privvars
  BY NextExchange
<1>2. QED
  BY <1>1, ExchangeInvariant, PTL DEF PrivSpec, PrivAnswersOwn

-----------------------------------------------------------------------------
(* The life of the daemon.                                                 *)

DaemonInv ==
    /\ conf \in Conf /\ steps \in Nat /\ step_count \in Nat
    /\ conf.limit # -1 => steps = step_count
    /\ stage \in {"sources", "drift"} /\ conf.cap => kfreq = 0
    /\ stage = "save" => touched
    /\ DaemonSound

LEMMA DaemonStart ==
  ASSUME DaemonInit
  PROVE  DaemonInv
<1>1. conf \in Conf /\ stage = "down" /\ steps = 0 /\ step_count = 0
  BY DEF DaemonInit
<1>2. conf.limit \in Nat \cup {-1}
  BY <1>1, DaemonAssumption, Zenon DEF Conf
<1>3. drift # Part
  BY DEF DaemonInit, NoFile, Part, Holds
<1>4. DaemonSound
  BY <1>1, <1>2, <1>3
     DEF DaemonSound, DaemonDriftWhole, DaemonPollsArmed, DaemonStepBound, DaemonDriftRestored
<1> QED BY <1>1, <1>4 DEF DaemonInv

\* The steps makestep counts are the steps it makes, as long as there is a limit.
LEMMA MakeStepBounded ==
  ASSUME DaemonInv, NEW big \in BOOLEAN, MakeStep(big), conf' = conf
  PROVE  /\ steps' \in Nat /\ step_count' \in Nat
         /\ conf.limit # -1 => steps' = step_count'
         /\ DaemonStepBound'
<1>1. conf.limit \in Nat \cup {-1}
  BY DaemonAssumption, Zenon DEF DaemonInv, Conf
<1> QED
  BY <1>1 DEF MakeStep, DaemonInv, DaemonSound, DaemonStepBound

LEMMA DaemonStep ==
  ASSUME DaemonInv, [DaemonNext]_daemonvars
  PROVE  DaemonInv'
<1> USE DaemonAssumption
<1> USE DEF DaemonInv, DaemonSound, DaemonDriftWhole, DaemonPollsArmed, DaemonStepBound,
            DaemonDriftRestored
<1>1. CASE UNCHANGED daemonvars
  BY <1>1, SMTT(30) DEF daemonvars
<1>2. CASE StartUp
  <2>1. ASSUME NEW reset \in BOOLEAN, Start(reset) PROVE DaemonInv'
    <3>1. conf' \in Conf /\ stage' = "config" /\ steps' = 0 /\ step_count' = 0 /\ drift' = drift
      BY <2>1 DEF Start, diskvars
    <3>2. conf'.limit \in Nat \cup {-1}
      BY <3>1, Zenon DEF Conf
    <3> QED BY <3>1, <3>2
  <2>2. CASE WritePid
    BY <2>2 DEF WritePid, runvars
  <2>3. ASSUME NEW ok \in BOOLEAN, DropPrivileges(ok) PROVE DaemonInv'
    BY <2>3 DEF DropPrivileges, diskvars, runvars
  <2>4. CASE NewState
    BY <2>4 DEF NewState, SetFreq, diskvars, runvars
  <2>5. ASSUME NEW ok \in BOOLEAN, NewSources(ok) PROVE DaemonInv'
    BY <2>5 DEF NewSources, diskvars
  <2>6. CASE ApplyDrift
    BY <2>6 DEF ApplyDrift, SetFreq, diskvars
  <2> QED BY <1>2, <2>1, <2>2, <2>3, <2>4, <2>5, <2>6 DEF StartUp
<1>3. ASSUME NEW i \in Srcs, NEW a \in BOOLEAN, PollTimer(i, a) PROVE DaemonInv'
  BY <1>3 DEF PollTimer, diskvars
<1>4. ASSUME NEW i \in Srcs, Broadcast(i) PROVE DaemonInv'
  BY <1>4 DEF Broadcast, diskvars
<1>5. ASSUME NEW x \in Oneshot, OneshotTimer(x) PROVE DaemonInv'
  BY <1>5 DEF OneshotTimer, diskvars, Oneshot, Periodic, Polls
<1>6. ASSUME NEW f, NEW big \in BOOLEAN, ReceiveHandler(f, big) PROVE DaemonInv'
  <2>1. CASE UNCHANGED <<steps, step_count>> /\ (touched' \/ UNCHANGED <<kfreq, touched>>)
    BY <1>6, <2>1 DEF ReceiveHandler, diskvars
  <2>2. CASE MakeStep(big) /\ touched' = TRUE /\ stage' = stage
    BY <1>6, <2>2, MakeStepBounded DEF ReceiveHandler, diskvars
  <2> QED BY <1>6, <2>1, <2>2, Zenon DEF ReceiveHandler, Disciplined
<1>7. ASSUME NEW from, NEW to, NEW cut \in BOOLEAN, WriteTmp(from, to, cut),
             <<from, to>> \in {<<"loop", "save">>, <<"joined", "exitsave">>}
      PROVE  DaemonInv'
  <2>1. tmp' # Part \/ stage' = "down"
    BY <1>7 DEF WriteTmp, Holds, Part
  <2> QED BY <1>7, <2>1 DEF WriteTmp, Polls, Periodic
<1>8. CASE LoopEnds
  BY <1>8 DEF LoopEnds, diskvars, runvars
<1>9. ASSUME NEW ok \in BOOLEAN, Rename("save", "loop", ok) \/ Rename("exitsave", "exit", ok)
      PROVE  DaemonInv'
  BY <1>9 DEF Rename, NoFile, Part, runvars
<1>10. CASE Exit
  BY <1>10 DEF Exit, runvars
<1>11. CASE Kill
  BY <1>11 DEF Kill, diskvars, runvars
<1> QED
  BY <1>1, <1>2, <1>3, <1>4, <1>5, <1>6, <1>7, <1>8, <1>9, <1>10, <1>11, Zenon
     DEF DaemonNext, PeriodicTimer, DriftTimer, Joined, Finish

\* Of every installation and over any number of lives of the daemon.
THEOREM DaemonTheorem == DaemonSpec => []DaemonSound
<1>1. DaemonInv => DaemonSound
  BY DEF DaemonInv
<1> QED BY DaemonStart, DaemonStep, <1>1, PTL DEF DaemonSpec
=============================================================================
