----------------------------- MODULE TimerQueue -----------------------------
(***************************************************************************)
(* The timeout queue of the scheduler (sched.rs): a vector of entries kept *)
(* ascending by time, the allocation of timeout ids, and the separation of *)
(* timeouts of one class.  A handler runs with the scheduler in its hands, *)
(* so between two dispatches any of the operations below may happen.       *)
(*                                                                         *)
(* A Timespec is an integer number of ticks of the raw clock; the rounding *)
(* of seconds held as f64 to nanoseconds is left out.                      *)
(***************************************************************************)
EXTENDS Integers, Sequences

CONSTANTS
  Classes,      \* the timeout classes other than Reserved
  Reserved,     \* the class of a plain timeout (TimeoutClass::Reserved)
  IdMod,        \* number of values of a timeout id (2^32 in the code)
  Separation,   \* the least separation asked for a class timeout
  MaxDelay,     \* bound: delays asked for are 0..MaxDelay
  MaxScale,     \* bound: the random factor r is 1..MaxScale
  MaxQueue,     \* bound: entries pending at a time
  StartTime,    \* the raw clock when the scheduler is created
  MaxTime       \* bound: every time is in -MaxTime..MaxTime

AllClasses == Classes \cup {Reserved}

Times == (-MaxTime)..MaxTime

\* Allocations before a released id can come back, at the least.
ReuseWindow == IdMod - 1 - MaxQueue

ASSUME ConstantsAssumption ==
  /\ Reserved \notin Classes
  /\ IdMod \in Nat /\ MaxQueue \in Nat \ {0} /\ MaxQueue < IdMod - 1
  /\ Separation \in Nat /\ MaxDelay \in Nat /\ MaxScale \in Nat \ {0}
  /\ StartTime \in Nat /\ MaxTime \in Nat /\ StartTime <= MaxTime

VARIABLES
  now,                  \* the raw clock
  queue,                \* timer_queue
  next_tqe_id,          \* the id given out last
  last_class_dispatch,  \* [AllClasses -> time of the last dispatch]
  older,                \* history: <<a, b>> when pending a was added before b
  age                   \* history: allocations since an id was given out

vars == <<now, queue, next_tqe_id, last_class_dispatch, older, age>>

Ids == 1..(IdMod - 1)

Entries == [ts : Int, id : Ids, class : AllClasses]

\* Type invariant of the queue and of the per-class times of the last dispatch.
TypeOK ==
  /\ now \in Int
  /\ queue \in Seq(Entries)
  /\ next_tqe_id \in 0..(IdMod - 1)
  /\ last_class_dispatch \in [AllClasses -> Int]
  /\ older \subseteq Ids \X Ids
  /\ age \in [Ids -> Nat]

PendingIds == {queue[i].id : i \in 1..Len(queue)}

Init ==
  /\ now = StartTime
  /\ queue = << >>
  /\ next_tqe_id = 0
  /\ last_class_dispatch = [c \in AllClasses |-> 0]
  /\ older = {}
  /\ age = [n \in Ids |-> ReuseWindow]

-----------------------------------------------------------------------------
(* Ids. *)

\* get_new_tqe_id: count up from the last id, modulo the width, past zero
\* and past the ids still pending.
IsNewId(n) ==
  /\ n \notin PendingIds
  /\ \E k \in 1..IdMod :
       /\ n = (next_tqe_id + k) % IdMod
       /\ \A j \in 1..(k - 1) : (next_tqe_id + j) % IdMod \in PendingIds \cup {0}

\* What an allocation does to next_tqe_id and to the history variables.
Allocate(n) ==
  /\ next_tqe_id' = n
  /\ older' = older \cup {<<queue[i].id, n>> : i \in 1..Len(queue)}
  /\ age' = [m \in Ids |-> IF m = n THEN 0
                           ELSE IF age[m] < ReuseWindow THEN age[m] + 1 ELSE age[m]]

Release(n) ==
  /\ older' = {p \in older : p[1] # n /\ p[2] # n}
  /\ UNCHANGED <<next_tqe_id, age>>

-----------------------------------------------------------------------------
(* Adding and removing timeouts. *)

\* Mutant: the new entry goes before the entries of its own time.
IsInsertPosBefore(pos, ts) ==
  /\ \A i \in 1..(pos - 1) : queue[i].ts < ts
  /\ pos <= Len(queue) => queue[pos].ts >= ts

\* Vec::insert and Vec::remove.
InsertAt(s, i, e) == SubSeq(s, 1, i - 1) \o <<e>> \o SubSeq(s, i, Len(s))
RemoveAt(s, i) == SubSeq(s, 1, i - 1) \o SubSeq(s, i + 1, Len(s))

\* The position of the first entry later than ts (insert_entry).
IsInsertPos(pos, ts) ==
  /\ \A i \in 1..(pos - 1) : queue[i].ts <= ts
  /\ pos <= Len(queue) => queue[pos].ts > ts

\* allocate_tqe and the splice: an entry with a new id goes in at its place.
Insert(ts, class) ==
  /\ Len(queue) < MaxQueue /\ ts \in Times
  /\ \E n \in Ids, pos \in 1..(Len(queue) + 1) :
       /\ IsNewId(n)
       /\ IsInsertPos(pos, ts)
       /\ queue' = InsertAt(queue, pos, [ts |-> ts, id |-> n, class |-> class])
       /\ Allocate(n)
  /\ UNCHANGED <<now, last_class_dispatch>>

\* add_timeout: any time, the past included.
AddTimeout(ts) == Insert(ts, Reserved)

\* add_timeout_by_delay
AddTimeoutByDelay(delay) == AddTimeout(now + delay)

\* Mutant: only entries before the new one push it on.
SeparateFromEarlier(delay, diff, separation) ==
  IF delay > diff /\ delay - diff < separation THEN diff + separation ELSE delay

\* One turn of the loop of add_timeout_in_class over the entries of the class.
SeparateFrom(delay, diff, separation) ==
  IF delay > diff
  THEN IF delay - diff < separation THEN diff + separation ELSE delay
  ELSE IF diff - delay < separation THEN diff + separation ELSE delay

\* The delay add_timeout_in_class settles on: away from the last dispatch of
\* the class, then away from each pending entry of the class in queue order.
ClassDelay(min_delay, separation, class) ==
  LET diff  == now - last_class_dispatch[class]
      first == IF diff < separation /\ diff >= 0 /\ diff + min_delay < separation
               THEN separation - diff ELSE min_delay
      after[i \in 0..Len(queue)] ==
        IF i = 0 THEN first
        ELSE IF queue[i].class = class THEN SeparateFrom(after[i - 1], queue[i].ts - now, separation)
        ELSE after[i - 1]
  IN after[Len(queue)]

\* add_timeout_in_class: the random factor scales delay and separation alike.
AddTimeoutInClass(min_delay, r, class) ==
  \E delay \in 0..(2 * MaxTime) :
    /\ delay = ClassDelay(min_delay * r, Separation * r, class)
    /\ Insert(now + delay, class)

\* remove_timeout: zero and ids that are not pending are ignored.
RemoveTimeout(n) ==
  \/ \E i \in 1..Len(queue) :
       /\ queue[i].id = n
       /\ queue' = RemoveAt(queue, i)
       /\ Release(n)
       /\ UNCHANGED <<now, last_class_dispatch>>
  \/ n \notin PendingIds /\ UNCHANGED vars

-----------------------------------------------------------------------------
(* Dispatching, and the clock. *)

\* One turn of dispatch_timeouts up to the call of the handler: the head is
\* due, its class is stamped, and it leaves the queue before it runs.
DispatchHead ==
  /\ queue # << >>
  /\ now >= Head(queue).ts
  /\ last_class_dispatch' = [last_class_dispatch EXCEPT ![Head(queue).class] = now]
  /\ queue' = Tail(queue)
  /\ Release(Head(queue).id)
  /\ UNCHANGED now

\* Bound: the times a step leaves are in range.
InRange(doffset) ==
  /\ now - doffset \in Times
  /\ \A i \in 1..Len(queue) : queue[i].ts - doffset \in Times
  /\ \A c \in AllClasses : last_class_dispatch[c] - doffset \in Times

\* Mutant: the step does not reach the queue.
HandleStepClockOnly(doffset) ==
  /\ InRange(doffset)
  /\ now' = now - doffset
  /\ last_class_dispatch' = [c \in AllClasses |-> last_class_dispatch[c] - doffset]
  /\ UNCHANGED <<queue, next_tqe_id, older, age>>

\* handle_slew for a step: the clock moves by -doffset, and so does every
\* time held in raw time.
HandleStep(doffset) ==
  /\ InRange(doffset)
  /\ now' = now - doffset
  /\ queue' = [i \in 1..Len(queue) |-> [queue[i] EXCEPT !.ts = @ - doffset]]
  /\ last_class_dispatch' = [c \in AllClasses |-> last_class_dispatch[c] - doffset]
  /\ UNCHANGED <<next_tqe_id, older, age>>

\* The raw clock runs.
Tick ==
  /\ now < MaxTime
  /\ now' = now + 1
  /\ UNCHANGED <<queue, next_tqe_id, last_class_dispatch, older, age>>

\* The operations a client or a handler may call.
ClientCall ==
  \/ \E ts \in 0..MaxTime : AddTimeout(ts)
  \/ \E delay \in 0..MaxDelay : AddTimeoutByDelay(delay)
  \/ \E delay \in 0..MaxDelay, r \in 1..MaxScale, c \in Classes :
       AddTimeoutInClass(delay, r, c)
  \/ \E n \in 0..(IdMod - 1) : RemoveTimeout(n)

Next ==
  \/ ClientCall
  \/ DispatchHead
  \/ \E doffset \in {-1, 1} : HandleStep(doffset)
  \/ Tick

Spec == Init /\ [][Next]_vars

-----------------------------------------------------------------------------
(* Properties. *)

\* The queue is ascending by time, and entries of one time stand in the order
\* they were added: dispatch_timeouts, which only looks at the head, fires in
\* order of time and first come first served among equals (insert_entry,
\* add_timeout_in_class, handle_slew).
QueueOrdered ==
  \A i, j \in 1..Len(queue) : i < j =>
    \/ queue[i].ts < queue[j].ts
    \/ queue[i].ts = queue[j].ts /\ <<queue[i].id, queue[j].id>> \in older

\* No two pending timeouts share an id, across any number of wraps of the
\* counter: remove_timeout(id) can only hit the timeout it was given for
\* while that one is pending (get_new_tqe_id).
IdsUnique ==
  \A i, j \in 1..Len(queue) : i # j => queue[i].id # queue[j].id

\* Pending timeouts of one class are at least the separation apart, whatever
\* the order of their additions, dispatches, removals and clock steps
\* (add_timeout_in_class, "keeping at least separation from other timeouts").
ClassSeparated ==
  \A i, j \in 1..Len(queue) :
    (i < j /\ queue[i].class = queue[j].class /\ queue[i].class # Reserved)
      => queue[j].ts - queue[i].ts >= Separation

\* A delay that keeps the separation from the pending entries of the class
\* and, unless the clock went back behind it, from its last dispatch.
Separated(delay, min_delay, separation, class) ==
  LET diff == now - last_class_dispatch[class] IN
  /\ delay >= min_delay
  /\ diff >= 0 => delay + diff >= separation
  /\ \A i \in 1..Len(queue) : queue[i].class = class =>
       \/ delay - (queue[i].ts - now) >= separation
       \/ (queue[i].ts - now) - delay >= separation

\* The single pass of add_timeout_in_class over the queue finds the least
\* delay that is separated from everything: no timeout of a class is pushed
\* further into the future than the separation demands.
ClassDelayLeast ==
  \A d \in 0..MaxDelay, r \in 1..MaxScale, c \in Classes :
    LET delay == ClassDelay(d * r, Separation * r, c) IN
    /\ Separated(delay, d * r, Separation * r, c)
    /\ \A x \in (d * r)..(delay - 1) : ~ Separated(x, d * r, Separation * r, c)

\* What is left of a pending timeout changes only as the clock runs: neither
\* a step of the clock nor an operation on another timeout moves it
\* (handle_slew, remove_timeout, insert_entry).
RemainingKept ==
  [][\A i \in 1..Len(queue), j \in 1..Len(queue') :
       queue[i].id = queue'[j].id
         => queue'[j].ts - now' \in {queue[i].ts - now, queue[i].ts - now - 1}]_vars

\* An id given up by one timeout is not given to another until ReuseWindow
\* others have been: a caller that removes a timeout that has already fired
\* does not hit a timeout that was armed a moment ago (get_new_tqe_id; the
\* comment in remove_timeout on unknown ids).
IdNotReusedEarly ==
  [][\A n \in PendingIds' \ PendingIds : age[n] = ReuseWindow]_vars

\* What the queue promises of its timeouts: types, unique ids, the separation of
\* a class reached with the least delay, and no id that comes back early
\* (get_new_tqe_id, add_timeout_in_class).
TimeoutsSound ==
  /\ [](TypeOK /\ IdsUnique /\ ClassSeparated /\ ClassDelayLeast)
  /\ IdNotReusedEarly
=============================================================================
