---------------------------- MODULE FileHandlers ----------------------------
(***************************************************************************)
(* The table of file-descriptor handlers of the scheduler (sched.rs) and   *)
(* the round of calls that follows a select().  A handler is taken out of  *)
(* the table while it runs and may add handlers, change events and, where  *)
(* InCallback allows it, remove handlers; it is put back when it returns.  *)
(***************************************************************************)
EXTENDS Integers, Sequences

CONSTANTS
  MaxFd,        \* bound: descriptors are 0..(MaxFd - 1)
  Handlers,     \* the handlers (closures) registered with the table
  None,         \* no handler: Option::None
  Events,       \* events used, a subset of AllEvents
  InCallback    \* removals a running handler makes: a subset of {"self", "other"}

Fds == 0..(MaxFd - 1)
AllEvents == {"exception", "input", "output"}

VARIABLES
  handler,          \* [Fds -> handler or None]
  events,           \* [Fds -> set of events asked for]
  one_highest_fd,   \* one more than the highest descriptor dispatched
  ready,            \* <<fd, event>> pairs the kernel has something for
  todo,             \* what is left of the round: <<fd, event, handler at select>>
  running,          \* the call whose handler is out of the table: at most one
  panicked          \* an assertion failed

vars == <<handler, events, one_highest_fd, ready, todo, running, panicked>>

Calls == [fd : Fds, event : AllEvents, handler : Handlers]

\* Type invariant of the table and of a round of dispatch_filehandlers.
TypeOK ==
  /\ handler \in [Fds -> Handlers \cup {None}]
  /\ events \in [Fds -> SUBSET AllEvents]
  /\ one_highest_fd \in 0..MaxFd
  /\ ready \subseteq Fds \X AllEvents
  /\ todo \in Seq(Calls)
  /\ running = {} \/ \E c \in Calls : running = {c}
  /\ panicked \in BOOLEAN

Init ==
  /\ handler = [fd \in Fds |-> None]
  /\ events = [fd \in Fds |-> {}]
  /\ one_highest_fd = 0
  /\ ready = {}
  /\ todo = << >>
  /\ running = {}
  /\ panicked = FALSE

\* The owner of a descriptor has registered it and not removed it since.
Registered(fd) == handler[fd] # None \/ \E c \in running : c.fd = fd

-----------------------------------------------------------------------------
(* The operations of the owners of descriptors. *)

\* Mutant: the bound follows the descriptor added last.
AddFileHandlerLast(fd, ev, h) ==
  /\ handler[fd] = None
  /\ handler' = [handler EXCEPT ![fd] = h]
  /\ events' = [events EXCEPT ![fd] = ev]
  /\ one_highest_fd' = fd + 1
  /\ UNCHANGED <<ready, todo, running, panicked>>

\* add_file_handler: the slot is empty (asserted).
AddFileHandler(fd, ev, h) ==
  /\ handler[fd] = None
  /\ handler' = [handler EXCEPT ![fd] = h]
  /\ events' = [events EXCEPT ![fd] = ev]
  /\ one_highest_fd' = IF one_highest_fd < fd + 1 THEN fd + 1 ELSE one_highest_fd
  /\ UNCHANGED <<ready, todo, running, panicked>>

\* The bound after the loop of remove_file_handler.
IsLowered(k, hs) ==
  /\ k > 0 => hs[k - 1] # None
  /\ \A j \in k..(one_highest_fd - 1) : hs[j] = None

\* remove_file_handler: panics when the slot is empty; otherwise empties it,
\* lowers the bound past empty slots, and the owner closes the descriptor.
RemoveFileHandler(fd) ==
  \/ /\ handler[fd] = None
     /\ panicked' = TRUE
     /\ UNCHANGED <<handler, events, one_highest_fd, ready, todo, running>>
  \/ /\ handler[fd] # None
     /\ handler' = [handler EXCEPT ![fd] = None]
     /\ events' = [events EXCEPT ![fd] = {}]
     /\ \E k \in 0..one_highest_fd : IsLowered(k, handler') /\ one_highest_fd' = k
     /\ ready' = {p \in ready : p[1] # fd}
     /\ UNCHANGED <<todo, running, panicked>>

\* set_file_handler_event
SetFileHandlerEvent(fd, ev, enable) ==
  /\ events' = [events EXCEPT ![fd] = IF enable THEN @ \cup {ev} ELSE @ \ {ev}]
  /\ UNCHANGED <<handler, one_highest_fd, ready, todo, running, panicked>>

\* What an owner does, outside a callback or inside one.  The comment of
\* add_file_handler forbids a second registration without a removal.
OwnerCall ==
  \E fd \in Fds :
    \/ ~ Registered(fd) /\ \E ev \in SUBSET Events \ {{}}, h \in Handlers : AddFileHandler(fd, ev, h)
    \/ /\ Registered(fd)
       /\ \/ running = {} /\ todo = << >>
          \/ \E c \in running : c.fd = fd /\ "self" \in InCallback
          \/ \E c \in running : c.fd # fd /\ "other" \in InCallback
       /\ RemoveFileHandler(fd)
    \/ Registered(fd) /\ \E ev \in Events, on \in BOOLEAN : SetFileHandlerEvent(fd, ev, on)

-----------------------------------------------------------------------------
(* select() and the round of calls. *)

\* The kernel has something for a registered descriptor.
Arrive(fd, ev) ==
  /\ Registered(fd) /\ <<fd, ev>> \notin ready
  /\ ready' = ready \cup {<<fd, ev>>}
  /\ UNCHANGED <<handler, events, one_highest_fd, todo, running, panicked>>

\* The pairs select() reports for the sets of fill_fd_sets, which goes over
\* the whole table.
Reported == {p \in ready : p[2] \in events[p[1]]}

\* The calls of dispatch_filehandlers for one descriptor: the exception
\* first, and then no read.
CallsOf(fd) ==
  LET has(ev) == <<fd, ev>> \in Reported IN
  SelectSeq(<<"exception", "input", "output">>,
            LAMBDA ev : has(ev) /\ ~ (ev = "input" /\ has("exception")))

\* A select() that reports something: the round is fixed here, from the
\* result and the bound one_highest_fd of this moment.
Select ==
  /\ running = {} /\ todo = << >> /\ Reported # {}
  /\ LET calls(fd) == [i \in 1..Len(CallsOf(fd)) |->
                         [fd |-> fd, event |-> CallsOf(fd)[i], handler |-> handler[fd]]]
         below[k \in 0..one_highest_fd] == IF k = 0 THEN << >> ELSE below[k - 1] \o calls(k - 1)
     IN todo' = below[one_highest_fd]
  /\ UNCHANGED <<handler, events, one_highest_fd, ready, running, panicked>>

\* dispatch_one up to the call: the handler is taken out of its slot.  What
\* the call deals with is gone from the kernel once it is made.
CallHandler ==
  /\ running = {} /\ todo # << >>
  /\ LET c == Head(todo) IN
     /\ handler[c.fd] # None
     /\ running' = {[fd |-> c.fd, event |-> c.event, handler |-> handler[c.fd]]}
     /\ handler' = [handler EXCEPT ![c.fd] = None]
     /\ ready' = ready \ {<<c.fd, c.event>>}
  /\ todo' = Tail(todo)
  /\ UNCHANGED <<events, one_highest_fd, panicked>>

\* dispatch_one for a slot that is empty by now.
SkipCall ==
  /\ running = {} /\ todo # << >>
  /\ handler[Head(todo).fd] = None
  /\ todo' = Tail(todo)
  /\ UNCHANGED <<handler, events, one_highest_fd, ready, running, panicked>>

\* Mutant: the handler is not put back.
ReturnDropped ==
  /\ running # {}
  /\ running' = {}
  /\ UNCHANGED <<handler, events, one_highest_fd, ready, todo, panicked>>

\* dispatch_one after the call: put the handler back unless the slot is taken.
Return ==
  /\ \E c \in running :
       handler' = [handler EXCEPT ![c.fd] = IF @ = None THEN c.handler ELSE @]
  /\ running' = {}
  /\ UNCHANGED <<events, one_highest_fd, ready, todo, panicked>>

Round == Select \/ CallHandler \/ SkipCall \/ Return

Next ==
  /\ ~ panicked
  /\ \/ OwnerCall
     \/ \E fd \in Fds, ev \in Events : Arrive(fd, ev)
     \/ Round

Spec == Init /\ [][Next]_vars /\ WF_vars(~ panicked /\ Round)

-----------------------------------------------------------------------------
(* Properties. *)

\* Every registered descriptor is below one_highest_fd, also the one whose
\* handler is out of the table for a call: dispatch_filehandlers, which stops
\* at that bound, reaches every descriptor fill_fd_sets passes to select()
\* (add_file_handler, remove_file_handler, dispatch_one).
HighestCoversRegistered ==
  \A fd \in Fds : Registered(fd) => fd < one_highest_fd

\* The bound is never left above the highest registered descriptor, so a
\* round does not go over a tail of dead slots (remove_file_handler).
HighestTight ==
  one_highest_fd > 0 => Registered(one_highest_fd - 1)

\* Events are asked for on registered descriptors only: a closed descriptor
\* does not stay in the sets given to select(), where it would fail every
\* later call (remove_file_handler).
NoEventsWithoutHandler ==
  \A fd \in Fds : events[fd] # {} => Registered(fd)

\* The calls left of a round go to descriptors in ascending order, a
\* descriptor that reported an exception is not read from in that round, and
\* each goes to the handler that was registered at the select(), although
\* handlers add descriptors meanwhile (dispatch_filehandlers).
RoundSound ==
  /\ \A i, j \in 1..Len(todo) : i < j =>
       /\ todo[i].fd <= todo[j].fd
       /\ (todo[i].fd = todo[j].fd /\ todo[i].event = "exception") => todo[j].event # "input"
  /\ \A i \in 1..Len(todo) :
       LET c == todo[i] IN
       \/ handler[c.fd] = c.handler
       \/ handler[c.fd] = None /\ \E r \in running : r.fd = c.fd /\ r.handler = c.handler

\* An event of a registered descriptor is handled sooner or later, unless its
\* owner removes the descriptor or stops asking for the event, or an
\* exception reported meanwhile holds back the read (dispatch_filehandlers).
ReadyHandled ==
  \A fd \in Fds, ev \in Events :
    <<fd, ev>> \in Reported ~>
      \/ <<fd, ev>> \notin Reported \/ panicked
      \/ ev = "input" /\ <<fd, "exception">> \in Reported
=============================================================================
