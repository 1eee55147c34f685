-------------------------- MODULE SchedulerProofs --------------------------
(***************************************************************************)
(* Proofs about the main loop of the scheduler, for every number of        *)
(* timeouts and descriptors: it keeps the invariants of the queue, its     *)
(* monotonic time follows real time when the clock is not stepped, select  *)
(* is never armed with a timeout that has passed unless the loop gave up   *)
(* on a flood of timeouts, and what select was asked to watch is what the  *)
(* handlers are registered for.                                            *)
(***************************************************************************)
EXTENDS MainLoop, TimerProofs

-----------------------------------------------------------------------------
(* The main loop.                                                          *)

\* What every step of the loop keeps: the queue of TimerQueue, and that the raw
\* times and the two clocks are numbers.
LoopInv ==
  /\ IInv
  /\ saved_now \in Int /\ last_select_ts_raw \in Int /\ mono \in Int /\ real \in Int

LEMMA LoopQueue ==
  ASSUME IInv, [MainNext]_mainVars
  PROVE  IInv'
<1> USE LoopAssumption
<1>1. CASE UNCHANGED vars
  BY <1>1 DEF vars, IInv, TypeOK, QueueOrdered, IdsUnique
<1>2. CASE DispatchHead
  BY <1>2, DispatchHeadInv
<1>3. ASSUME NEW delay \in MinDelay..MaxDelay, AddTimeoutByDelay(delay) PROVE IInv'
  BY <1>3, InsertInv DEF AddTimeoutByDelay, AddTimeout, AllClasses
<1>4. ASSUME NEW n, RemoveTimeout(n) PROVE IInv'
  BY <1>4, RemoveTimeoutInv
<1>5. ASSUME NEW doffset \in Steps, HandleStep(doffset) PROVE IInv'
  BY <1>5, HandleStepInv
<1>6. CASE Tick
  BY <1>6 DEF Tick, IInv, TypeOK, QueueOrdered, IdsUnique
<1>7. ASSUME NEW doffset \in Jumps, Jump(doffset) PROVE IInv'
  BY <1>7 DEF Jump, IInv, TypeOK, QueueOrdered, IdsUnique
<1>8. CASE Loop
  BY <1>8, <1>1, <1>2, Zenon
     DEF Loop, LoopTop, DispatchTimeout, TimeoutHandlerReturns, NothingDue, Arm, SelectReturns,
         FileCall, FilesDone, queueVars
<1>9. CASE MainTick
  BY <1>9, <1>1, <1>6 DEF MainTick, queueVars
<1>10. CASE TimerCall \/ FileHandlerCall \/ QuitProgram \/ Arrive
  BY <1>10, <1>1, <1>3, <1>4 DEF TimerCall, FileHandlerCall, QuitProgram, Arrive, queueVars
<1>11. ASSUME NEW doffset \in Steps, HandleSlew(doffset) PROVE IInv'
  BY <1>11, <1>5 DEF HandleSlew
<1> QED
  BY <1>1, <1>7, <1>8, <1>9, <1>10, <1>11 DEF MainNext, mainVars, queueVars

LEMMA LoopTypes ==
  ASSUME LoopInv, [MainNext]_mainVars
  PROVE  LoopInv'
<1> USE LoopAssumption DEF LoopInv
<1>1. IInv' /\ now \in Int /\ now' \in Int
  BY LoopQueue DEF IInv, TypeOK
<1>2. CASE UNCHANGED mainVars
  BY <1>1, <1>2, SMTT(30) DEF mainVars, loopVars
<1>3. CASE Loop
  <2>1. CASE SelectReturns
    BY <1>1, <2>1 DEF SelectReturns, UpdateMonotonicTime, Abs
  <2>2. CASE DispatchTimeout \/ NothingDue
    BY <1>1, <2>2 DEF DispatchTimeout, NothingDue
  <2>3. CASE UNCHANGED <<saved_now, last_select_ts_raw, mono, real>>
    BY <1>1, <2>3
  <2> QED
    BY <1>3, <2>1, <2>2, <2>3
       DEF Loop, LoopTop, TimeoutHandlerReturns, Arm, FileCall, FilesDone, loopVars
<1>4. CASE MainTick
  BY <1>1, <1>4 DEF MainTick
<1>5. CASE TimerCall \/ FileHandlerCall \/ QuitProgram \/ Arrive
  BY <1>1, <1>5 DEF TimerCall, FileHandlerCall, QuitProgram, Arrive, loopVars
<1>6. ASSUME NEW doffset \in Steps, HandleSlew(doffset) PROVE LoopInv'
  BY <1>1, <1>6 DEF HandleSlew
<1>7. ASSUME NEW doffset \in Jumps, Jump(doffset) PROVE LoopInv'
  BY <1>1, <1>7 DEF Jump, loopVars
<1> QED
  BY <1>2, <1>3, <1>4, <1>5, <1>6, <1>7 DEF MainNext

LEMMA LoopStart ==
  ASSUME MainInit
  PROVE  LoopInv
BY QueueStart, ConstantsAssumption DEF MainInit, LoopInv

\* The queue of the running loop, dispatched, filled by handlers, stepped and
\* left behind by jumps of the clock, keeps its order and its ids.
THEOREM LoopQueueTheorem == MainSpec => [](QueueOrdered /\ IdsUnique)
<1>1. LoopInv => QueueOrdered /\ IdsUnique
  BY DEF LoopInv, IInv
<1> QED BY LoopStart, LoopTypes, <1>1, PTL DEF MainSpec

-----------------------------------------------------------------------------
\* The raw clock is not behind the last select(), so that what
\* update_monotonic_time adds is what has passed since.
MonoInv == LoopInv /\ MonoTracksReal /\ last_select_ts_raw <= now

\* The monotonic time is the real time when the clock changes only through
\* handle_slew.
THEOREM MonoTheorem ==
  ASSUME Jumps = {}
  PROVE  MainSpec => []MonoTracksReal
<1>1. MainInit => MonoInv
  <2> SUFFICES ASSUME MainInit PROVE MonoInv
    OBVIOUS
  <2>1. now = StartTime /\ last_select_ts_raw = StartTime /\ mono = 0 /\ real = 0 /\ StartTime \in Nat
    BY ConstantsAssumption DEF MainInit, Init
  <2> QED BY <2>1, LoopStart DEF MonoInv, MonoTracksReal
<1>2. MonoInv /\ [MainNext]_mainVars => MonoInv'
  <2> SUFFICES ASSUME MonoInv, [MainNext]_mainVars PROVE MonoInv'
    OBVIOUS
  <2> USE LoopAssumption DEF MonoInv, MonoTracksReal
  <2>1. LoopInv'
    BY LoopTypes
  <2>2. /\ now \in Int /\ last_select_ts_raw \in Int /\ mono \in Int /\ real \in Int
        /\ now' \in Int
    BY <2>1 DEF LoopInv, IInv, TypeOK
  <2>3. CASE UNCHANGED <<now, last_select_ts_raw, mono, real>>
    BY <2>1, <2>3
  <2>4. CASE SelectReturns
    BY <2>1, <2>2, <2>4 DEF SelectReturns, UpdateMonotonicTime, Abs, queueVars, vars
  <2>5. CASE MainTick
    BY <2>1, <2>2, <2>5 DEF MainTick, Tick, queueVars, vars
  <2>6. ASSUME NEW doffset \in Steps, HandleSlew(doffset) PROVE MonoInv'
    BY <2>1, <2>2, <2>6, SMTT(30) DEF HandleSlew, HandleStep
  <2>7. CASE Loop
    BY <2>3, <2>4, <2>7, ZenonT(60)
       DEF Loop, LoopTop, DispatchTimeout, DispatchHead, TimeoutHandlerReturns, NothingDue, Arm,
           FileCall, FilesDone, loopVars, queueVars, vars
  <2>8. CASE TimerCall \/ FileHandlerCall \/ QuitProgram \/ Arrive
    BY <2>3, <2>8
       DEF TimerCall, AddTimeoutByDelay, AddTimeout, Insert, RemoveTimeout, FileHandlerCall,
           QuitProgram, Arrive, loopVars, queueVars, vars
  <2> QED
    BY <2>3, <2>5, <2>6, <2>7, <2>8 DEF MainNext, mainVars, loopVars, queueVars, vars
<1>3. MonoInv => MonoTracksReal
  BY DEF MonoInv
<1> QED BY <1>1, <1>2, <1>3, PTL DEF MainSpec

-----------------------------------------------------------------------------
\* At most one handler is out of the table for a call.
OneRunning == \A c, d \in running : c = d

\* What dispatch_timeouts leaves is in the future of the time it read last.
ArmInv ==
  /\ LoopInv /\ SelectTimeoutPositive
  /\ OneRunning
  /\ pc = "arm" /\ queue # << >> => saved_now < Head(queue).ts

\* A handler that is out of the table is not removed by its own callback, so
\* remove_file_handler finds a handler in the slot.
LEMMA OwnerCallSafe ==
  ASSUME "self" \notin InCallback, ~ panicked, FH!OwnerCall, OneRunning
  PROVE  ~ panicked' /\ running' = running
BY SMTT(30) DEF OneRunning, FH!OwnerCall, FH!Registered, FH!AddFileHandler, FH!RemoveFileHandler, FH!SetFileHandlerEvent

LEMMA ArmStep ==
  ASSUME "self" \notin InCallback, ArmInv, NotFlooded, [MainNext]_mainVars
  PROVE  ArmInv'
<1> USE LoopAssumption DEF ArmInv, SelectTimeoutPositive, OneRunning
<1>1. LoopInv'
  BY LoopTypes
<1>2. /\ now \in Int /\ saved_now \in Int
      /\ queue # << >> => Head(queue).ts \in Int
  <2>1. queue # << >> => 1 \in 1..Len(queue) /\ Head(queue) = queue[1]
    BY EmptySeq DEF LoopInv, IInv, TypeOK
  <2> QED BY <2>1, EntryType DEF LoopInv, IInv, TypeOK
<1>3. CASE UNCHANGED mainVars
  BY <1>1, <1>3 DEF mainVars, fdVars, loopVars, queueVars, vars
<1>4. CASE LoopTop
  BY <1>1, <1>4 DEF LoopTop, fdVars
<1>5. CASE DispatchTimeout
  BY <1>1, <1>5 DEF DispatchTimeout, fdVars
<1>6. CASE TimeoutHandlerReturns
  BY <1>1, <1>6 DEF TimeoutHandlerReturns, NotFlooded, fdVars
<1>7. CASE NothingDue
  BY <1>1, <1>7 DEF NothingDue, fdVars, queueVars, vars
<1>8. CASE Arm
  <2>1. ~ (queue # << >> /\ Head(queue).ts - saved_now <= 0)
    BY <1>2, <1>8 DEF Arm
  <2>2. panicked' = panicked /\ pc' # "arm" /\ running' = running
    BY <2>1, <1>8, SMTT(30) DEF Arm
  <2> QED BY <1>1, <2>2
<1>9. CASE SelectReturns \/ FileCall \/ FilesDone
  <2>1. CASE SelectReturns
    BY <1>1, <2>1 DEF SelectReturns, fdVars, FH!Select
  <2>2. CASE FileCall
    BY <1>1, <2>2 DEF FileCall, loopVars, FH!CallHandler, FH!SkipCall, FH!Return
  <2>3. CASE FilesDone
    BY <1>1, <2>3 DEF FilesDone, fdVars, loopVars, FH!Return
  <2> QED BY <1>9, <2>1, <2>2, <2>3, Zenon
<1>10. ASSUME InHandler, pc' = pc, panicked' = panicked, running' = running PROVE ArmInv'
  BY <1>1, <1>10 DEF InHandler
<1>11. CASE TimerCall \/ QuitProgram
  BY <1>10, <1>11 DEF TimerCall, QuitProgram, fdVars, loopVars
<1>12. CASE FileHandlerCall
  BY <1>1, <1>12, OwnerCallSafe DEF FileHandlerCall, InHandler, loopVars
<1>13. ASSUME NEW doffset \in Steps, HandleSlew(doffset) PROVE ArmInv'
  BY <1>10, <1>13 DEF HandleSlew, fdVars
<1>14. CASE MainTick
  BY <1>1, <1>14 DEF MainTick, Tick, fdVars, queueVars, vars
<1>15. CASE Arrive
  BY <1>1, <1>15 DEF Arrive, FH!Arrive, queueVars, vars, loopVars
<1>16. ASSUME NEW doffset \in Jumps, Jump(doffset) PROVE ArmInv'
  BY <1>1, <1>16 DEF Jump, fdVars, loopVars
<1> QED
  BY <1>3, <1>4, <1>5, <1>6, <1>7, <1>8, <1>9, <1>11, <1>12, <1>13, <1>14, <1>15, <1>16
     DEF MainNext, Loop

\* The timeout main_loop passes to select() is positive as long as the
\* infinite-loop check of dispatch_timeouts does not break out, whatever the
\* handlers add or remove and however the clock is stepped or set.
THEOREM ArmTheorem ==
  ASSUME "self" \notin InCallback
  PROVE  MainSpec /\ []NotFlooded => []SelectTimeoutPositive
<1>1. MainInit => ArmInv
  BY LoopStart, Zenon DEF MainInit, ArmInv, SelectTimeoutPositive, OneRunning, FH!Init
<1>2. ArmInv /\ NotFlooded /\ [MainNext]_mainVars => ArmInv'
  BY ArmStep
<1>3. ArmInv => SelectTimeoutPositive
  BY DEF ArmInv
<1> QED BY <1>1, <1>2, <1>3, PTL DEF MainSpec

-----------------------------------------------------------------------------
\* A step of the loop is a step of the table of file handlers or leaves it alone.
LEMMA FilesStep ==
  ASSUME "self" \notin InCallback, ArmInv, [MainNext]_mainVars
  PROVE  [FH!Next]_(FH!vars)
<1> USE DEF fdVars, FH!vars
<1>1. CASE UNCHANGED fdVars
  BY <1>1, SMTT(30)
<1>2. CASE Arm
  <2>1. queue # << >> => Head(queue).ts \in Int
    <3>1. queue # << >> => 1 \in 1..Len(queue) /\ Head(queue) = queue[1]
      BY EmptySeq DEF ArmInv, LoopInv, IInv, TypeOK
    <3> QED BY <3>1, EntryType DEF ArmInv, LoopInv, IInv
  <2>2. ~ (queue # << >> /\ Head(queue).ts - saved_now <= 0)
    BY <1>2, <2>1 DEF Arm, ArmInv, LoopInv
  <2>3. panicked' = panicked
    BY <1>2, <2>2 DEF Arm
  <2> QED BY <1>2, <2>3, Zenon DEF Arm
<1>3. ASSUME FH!OwnerCall \/ FH!Round, ~ panicked PROVE FH!Next
  BY <1>3 DEF FH!Next
<1>4. CASE Loop /\ ~ panicked
  BY <1>1, <1>2, <1>3, <1>4, ZenonT(60)
     DEF Loop, LoopTop, DispatchTimeout, TimeoutHandlerReturns, NothingDue, SelectReturns, FileCall,
         FilesDone, FH!Round
<1>5. CASE (TimerCall \/ FileHandlerCall \/ QuitProgram \/ MainTick) /\ ~ panicked
  BY <1>1, <1>3, <1>5 DEF TimerCall, FileHandlerCall, QuitProgram, MainTick
<1>6. CASE Arrive /\ ~ panicked
  BY <1>6 DEF Arrive, FH!Next
<1>7. ASSUME NEW doffset, HandleSlew(doffset) \/ Jump(doffset) PROVE UNCHANGED fdVars
  BY <1>7 DEF HandleSlew, Jump
<1> QED BY <1>1, <1>4, <1>5, <1>6, <1>7 DEF MainNext, Alive, mainVars

\* The loop implements the table of file handlers, as far as safety goes: what
\* the table promises of a round holds of the rounds main_loop makes.
THEOREM FilesTheorem ==
  ASSUME "self" \notin InCallback
  PROVE  MainSpec /\ []NotFlooded => FH!Init /\ [][FH!Next]_(FH!vars)
<1>1. MainInit => ArmInv /\ FH!Init
  BY LoopStart, Zenon DEF MainInit, ArmInv, SelectTimeoutPositive, OneRunning, FH!Init
<1>2. ArmInv /\ NotFlooded /\ [MainNext]_mainVars => ArmInv'
  BY ArmStep
<1>3. ArmInv /\ [MainNext]_mainVars => [FH!Next]_(FH!vars)
  BY FilesStep
<1> QED BY <1>1, <1>2, <1>3, PTL DEF MainSpec

-----------------------------------------------------------------------------
\* The table of file handlers: a handler that is out for a call is a handler,
\* and goes back into its slot.
TableInv ==
  /\ handler = [fd \in FH!Fds |-> handler[fd]]
  /\ events = [fd \in FH!Fds |-> events[fd]]
  /\ one_highest_fd \in 0..MaxFd
  /\ OneRunning /\ \A c \in running : c.handler # None
  /\ FH!HighestTight /\ FH!NoEventsWithoutHandler

\* A step that only takes a handler out for a call, or puts it back, leaves
\* every descriptor registered that was.
LEMMA CallKeepsRegistered ==
  ASSUME TableInv, FH!CallHandler \/ FH!Return, NEW fd \in FH!Fds
  PROVE  FH!Registered(fd)' = FH!Registered(fd)
<1>1. CASE FH!CallHandler
  <2> DEFINE c == Head(todo)
  <2>1. /\ handler[c.fd] # None /\ running = {}
        /\ running' = {[fd |-> c.fd, event |-> c.event, handler |-> handler[c.fd]]}
        /\ handler' = [handler EXCEPT ![c.fd] = None]
    BY <1>1 DEF FH!CallHandler
  <2>2. PICK r : r = [fd |-> c.fd, event |-> c.event, handler |-> handler[c.fd]]
    BY ZenonT(60)
  <2>3. r.fd = c.fd /\ running' = {r}
    BY <2>1, <2>2
  <2> HIDE DEF c
  <2>4. CASE fd = c.fd
    BY <2>1, <2>3, <2>4 DEF FH!Registered
  <2>5. CASE fd # c.fd
    <3>1. handler'[fd] = handler[fd]
      BY <2>1, <2>5 DEF TableInv
    <3> QED BY <2>1, <2>3, <2>5, <3>1 DEF FH!Registered
  <2> QED BY <2>4, <2>5, SMTT(30)
<1>2. CASE FH!Return
  <2>1. PICK c \in running : handler' = [handler EXCEPT ![c.fd] = IF @ = None THEN c.handler ELSE @]
    BY <1>2, Zenon DEF FH!Return
  <2>2. running' = {} /\ c.handler # None
    BY <1>2, <2>1 DEF FH!Return, TableInv
  <2>3. CASE fd = c.fd
    <3>1. handler'[fd] # None
      BY <2>1, <2>2, <2>3 DEF TableInv
    <3> QED BY <2>1, <2>3, <3>1 DEF FH!Registered
  <2>4. CASE fd # c.fd
    <3>1. handler'[fd] = handler[fd]
      BY <2>1, <2>4 DEF TableInv
    <3> QED BY <2>1, <2>2, <2>4, <3>1 DEF TableInv, OneRunning, FH!Registered
  <2> QED BY <2>3, <2>4
<1> QED BY <1>1, <1>2
\* The bound on the descriptors after remove_file_handler.
LEMMA LoweredTight ==
  ASSUME TableInv, NEW fd \in FH!Fds, FH!RemoveFileHandler(fd)
  PROVE  TableInv'
<1> USE LoopAssumption DEF TableInv, FH!Fds
<1>1. CASE UNCHANGED <<handler, events, one_highest_fd, running>>
  BY <1>1, SMTT(30) DEF OneRunning, FH!HighestTight, FH!NoEventsWithoutHandler, FH!Registered
<1>2. CASE ~ UNCHANGED <<handler, events, one_highest_fd, running>>
  <2>1. /\ handler' = [handler EXCEPT ![fd] = None]
        /\ events' = [events EXCEPT ![fd] = {}]
        /\ running' = running
    BY <1>2 DEF FH!RemoveFileHandler
  <2>2. PICK k \in 0..one_highest_fd : FH!IsLowered(k, handler') /\ one_highest_fd' = k
    BY <1>2 DEF FH!RemoveFileHandler
  <2>3. FH!HighestTight'
    BY <2>2 DEF FH!IsLowered, FH!HighestTight, FH!Registered
  <2>4. ASSUME NEW x \in FH!Fds, events'[x] # {} PROVE FH!Registered(x)'
    <3>1. x # fd /\ events'[x] = events[x] /\ handler'[x] = handler[x]
      BY <2>1, <2>4
    <3> QED BY <2>1, <2>4, <3>1, Zenon DEF FH!NoEventsWithoutHandler, FH!Registered
  <2>5. handler' = [x \in FH!Fds |-> handler'[x]]
    BY <2>1, Zenon
  <2>6. events' = [x \in FH!Fds |-> events'[x]]
    BY <2>1, Zenon
  <2>7. one_highest_fd' \in 0..MaxFd
    BY <2>2
  <2> QED BY <2>1, <2>3, <2>4, <2>5, <2>6, <2>7, Zenon DEF OneRunning, FH!NoEventsWithoutHandler
<1> QED BY <1>1, <1>2

LEMMA TableStep ==
  ASSUME TableInv, [FH!Next]_(FH!vars)
  PROVE  TableInv'
<1> USE LoopAssumption DEF TableInv, FH!Fds
<1>1. CASE UNCHANGED <<handler, events, one_highest_fd, running>>
  BY <1>1 DEF OneRunning, FH!HighestTight, FH!NoEventsWithoutHandler, FH!Registered
<1>2. ASSUME NEW fd \in FH!Fds, NEW ev, NEW h \in Handlers, FH!AddFileHandler(fd, ev, h)
      PROVE  TableInv'
  <2>1. /\ handler' = [handler EXCEPT ![fd] = h]
        /\ events' = [events EXCEPT ![fd] = ev]
        /\ running' = running
    BY <1>2 DEF FH!AddFileHandler
  <2>2. \A x \in FH!Fds : x # fd => handler'[x] = handler[x] /\ events'[x] = events[x]
    BY <2>1
  <2>3. FH!Registered(fd)' /\ \A x \in FH!Fds : FH!Registered(x) => FH!Registered(x)'
    BY <2>1, <2>2 DEF FH!Registered
  <2>4. one_highest_fd' \in {one_highest_fd, fd + 1} /\ one_highest_fd' \in 0..MaxFd
    BY <1>2 DEF FH!AddFileHandler
  <2>5. FH!HighestTight'
    BY <2>3, <2>4 DEF FH!HighestTight
  <2>6. FH!NoEventsWithoutHandler'
    BY <2>2, <2>3 DEF FH!NoEventsWithoutHandler
  <2> QED BY <2>1, <2>4, <2>5, <2>6, Zenon DEF OneRunning
<1>3. ASSUME NEW fd \in FH!Fds, NEW ev, NEW on, FH!Registered(fd), FH!SetFileHandlerEvent(fd, ev, on)
      PROVE  TableInv'
  <2>1. /\ events' = [x \in FH!Fds |-> events'[x]] /\ \A x \in FH!Fds : x # fd => events'[x] = events[x]
        /\ handler' = handler /\ running' = running /\ one_highest_fd' = one_highest_fd
    BY <1>3, Zenon DEF FH!SetFileHandlerEvent
  <2> QED BY <1>3, <2>1, SMTT(30) DEF OneRunning, FH!HighestTight, FH!NoEventsWithoutHandler, FH!Registered
<1>4. CASE FH!CallHandler \/ FH!Return
  <2>1. /\ events' = events /\ one_highest_fd' = one_highest_fd
        /\ OneRunning' /\ \A c \in running' : c.handler # None
    <3>1. CASE FH!CallHandler
      <4> DEFINE h == handler[Head(todo).fd]
                 c == [fd |-> Head(todo).fd, event |-> Head(todo).event, handler |-> h]
      <4>1. h # None /\ running' = {c} /\ events' = events /\ one_highest_fd' = one_highest_fd
        BY <3>1 DEF FH!CallHandler
      <4>2. c.handler = h
        OBVIOUS
      <4> HIDE DEF c, h
      <4> QED BY <4>1, <4>2 DEF OneRunning
    <3>2. CASE FH!Return
      BY <3>2 DEF FH!Return, OneRunning
    <3> QED BY <1>4, <3>1, <3>2
  <2>2. \A x \in FH!Fds : FH!Registered(x)' = FH!Registered(x)
    BY <1>4, CallKeepsRegistered
  <2>3. handler' = [x \in FH!Fds |-> handler'[x]]
    <3>1. CASE FH!CallHandler
      BY <3>1, Zenon DEF FH!CallHandler
    <3>2. CASE FH!Return
      BY <3>2 DEF FH!Return
    <3> QED BY <1>4, <3>1, <3>2
  <2> QED BY <2>1, <2>2, <2>3 DEF FH!HighestTight, FH!NoEventsWithoutHandler
<1>5. CASE FH!OwnerCall
  BY <1>2, <1>3, <1>5, LoweredTight DEF FH!OwnerCall
<1> QED BY <1>1, <1>4, <1>5, Zenon DEF FH!Next, FH!Round, FH!Select, FH!SkipCall, FH!Arrive, FH!vars

LEMMA TableStart ==
  ASSUME FH!Init
  PROVE  TableInv
BY LoopAssumption
   DEF FH!Init, TableInv, OneRunning, FH!HighestTight, FH!NoEventsWithoutHandler

\* The bound of dispatch_filehandlers is never above the highest registered
\* descriptor, and events are asked for on registered descriptors only,
\* whatever owners and callbacks add, change and remove.
THEOREM TableTheorem ==
  FH!Init /\ [][FH!Next]_(FH!vars) => [](FH!HighestTight /\ FH!NoEventsWithoutHandler)
<1>1. TableInv => FH!HighestTight /\ FH!NoEventsWithoutHandler
  BY DEF TableInv
<1> QED BY TableStart, TableStep, <1>1, PTL

\* While no callback removes a handler, every registered descriptor is below
\* the bound, the one whose handler is out for a call included.
THEOREM CoversTheorem ==
  ASSUME InCallback = {}
  PROVE  FH!Init /\ [][FH!Next]_(FH!vars) => []FH!HighestCoversRegistered
<1>1. FH!Init => FH!HighestCoversRegistered
  BY DEF FH!Init, FH!HighestCoversRegistered, FH!Registered
<1>2. ASSUME TableInv, FH!HighestCoversRegistered, [FH!Next]_(FH!vars)
      PROVE  FH!HighestCoversRegistered'
  <2> USE <1>2, LoopAssumption DEF FH!HighestCoversRegistered, FH!Fds
  <2>1. CASE UNCHANGED <<handler, one_highest_fd, running>>
    BY <2>1 DEF FH!Registered
  <2>2. ASSUME NEW fd \in FH!Fds, NEW ev, NEW h \in Handlers, FH!AddFileHandler(fd, ev, h)
        PROVE  FH!HighestCoversRegistered'
    <3>1. /\ handler' = [handler EXCEPT ![fd] = h] /\ running' = running
          /\ one_highest_fd' = IF one_highest_fd < fd + 1 THEN fd + 1 ELSE one_highest_fd
      BY <2>2 DEF FH!AddFileHandler
    <3>2. \A x \in FH!Fds : x # fd => handler'[x] = handler[x]
      BY <3>1 DEF TableInv
    <3>3. \A x \in FH!Fds : FH!Registered(x)' => x = fd \/ FH!Registered(x)
      BY <3>1, <3>2 DEF FH!Registered
    <3> QED BY <3>1, <3>3 DEF TableInv
  <2>3. ASSUME NEW fd \in FH!Fds, running = {}, FH!RemoveFileHandler(fd)
        PROVE  FH!HighestCoversRegistered'
    <3> SUFFICES ASSUME handler' = [handler EXCEPT ![fd] = None], running' = {},
                        NEW k \in 0..one_highest_fd,
                        FH!IsLowered(k, handler'), one_highest_fd' = k,
                        NEW x \in FH!Fds, FH!Registered(x)'
                 PROVE  x < k
      BY <2>1, <2>3 DEF FH!RemoveFileHandler
    <3>1. handler'[x] # None
      BY DEF FH!Registered
    <3>2. x # fd /\ handler[x] # None
      BY <3>1 DEF TableInv
    <3>3. x < one_highest_fd
      BY <3>2 DEF FH!Registered
    <3> QED BY <3>1, <3>3 DEF FH!IsLowered, TableInv
  <2>4. CASE FH!CallHandler \/ FH!Return
    <3>1. one_highest_fd' = one_highest_fd
      BY <2>4 DEF FH!CallHandler, FH!Return
    <3> QED BY <2>4, <3>1, CallKeepsRegistered, SMTT(30)
  <2>5. CASE FH!OwnerCall
    BY <2>1, <2>2, <2>3, <2>5 DEF FH!OwnerCall, FH!SetFileHandlerEvent
  <2> QED BY <2>1, <2>4, <2>5, Zenon DEF FH!Next, FH!Round, FH!Select, FH!SkipCall, FH!Arrive, FH!vars
<1>3. TableInv /\ FH!HighestCoversRegistered /\ [FH!Next]_(FH!vars) => FH!HighestCoversRegistered'
  BY <1>2
<1> QED BY <1>1, <1>3, TableStart, TableStep, PTL
=============================================================================
