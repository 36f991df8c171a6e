---------------------------- MODULE LogPipeline ----------------------------
(***************************************************************************)
(* The log pipeline of the Orthrus runtime (include/log.hpp, queue.hpp,    *)
(* scee.cpp, thread.hpp): an application thread runs closures, each writes *)
(* a log into a buffer of its own, commits it and hands it over a bounded  *)
(* single-producer queue to the one validator thread that serves it; the   *)
(* validator replays the log, counts it as reclaimed, and gives a buffer   *)
(* whose logs are all reclaimed back to the global list of free buffers.   *)
(*                                                                         *)
(* Space is counted in cache lines.  What a log says is abstracted away    *)
(* (module HashMap is about that); closure_start_log is abstracted to the   *)
(* number of closures it counts (module ClosureGC is about its ticks).     *)
(***************************************************************************)
EXTENDS Integers, Sequences, FiniteSets, SequencesExt

CONSTANTS
  Thread,      \* application threads, each with a validator thread
  Buffer,      \* the buffers aligned_alloc can return (bounds the heap)
  MaxSize,     \* MAX_LOG_BUFFER_SIZE
  HeadSize,    \* sizeof(LogBufferHead)
  MinSize,     \* MIN_LOG_BUFFER_SIZE, what one log may use
  Lengths,     \* aligned lengths a closure's log can have
  QCap,        \* LOG_QUEUE_CAPACITY
  MaxDepth,    \* how deep closures nest: 1 when none calls another
  MaxStash,    \* where the count of stashed logs saturates (it is never read)
  NoBuffer,    \* the null address
  NoThread     \* no thread holds the buffer

ASSUME SizesAssumption ==
  /\ MaxSize \in Nat /\ HeadSize \in Nat /\ MinSize \in Nat
  /\ HeadSize + MinSize <= MaxSize
  /\ Lengths \subseteq Nat \ {0}
ASSUME LimitsAssumption ==
  QCap \in Nat \ {0} /\ MaxDepth \in Nat /\ MaxStash \in Nat
ASSUME NullsAssumption == NoThread \notin Thread /\ NoBuffer \notin Buffer

VARIABLES
  appPc,        \* where the application thread is
  frames,       \* the logs that the closures it is inside of began with
  cur,          \* thread_log_manager.current_log
  stashed,      \* thread_log_manager.caller_logs.size()
  stack,        \* thread_log_manager.allocator.buffers
  queue,        \* log_queue
  stop,         \* stop_validation
  valPc,        \* where the validator thread is
  valLog,       \* the log it is working on
  nrLogs, inUse, nrReclaimed,  \* the head of each buffer
  freeBuffers,  \* GlobalLogBufferAllocator::free_buffers
  fresh,        \* buffers the heap has not handed out yet
  holder,       \* auxiliary: the thread whose allocator took the buffer
  closureCount, \* closure_start_log: closures counted and not validated
  aborted       \* std::abort was called

appVars  == <<appPc, frames, cur, stashed, stack>>
valVars  == <<valPc, valLog>>
bufVars  == <<nrLogs, inUse, nrReclaimed>>
poolVars == <<freeBuffers, fresh, holder>>
vars == <<appVars, queue, stop, valVars, bufVars, poolVars, closureCount,
          aborted>>

\* A log: the buffer, the line its head is at, its length in lines (0 until
\* it is committed), and which log of its buffer it is (auxiliary).
Log  == [buf : Buffer, start : Nat, len : Nat, idx : Nat]
Addr == [buf : Buffer, start : Nat]
NoLog == [buf |-> NoBuffer, start |-> 0, len |-> 0, idx |-> 0]
AddrOf(l) == [buf |-> l.buf, start |-> l.start]

Init ==
  /\ appPc = [t \in Thread |-> "unborn"]
  /\ frames = [t \in Thread |-> << >>]
  /\ cur = [t \in Thread |-> NoLog]
  /\ stashed = [t \in Thread |-> 0]
  /\ stack = [t \in Thread |-> << >>]
  /\ queue = [t \in Thread |-> << >>]
  /\ stop = [t \in Thread |-> FALSE]
  /\ valPc = [t \in Thread |-> "off"]
  /\ valLog = [t \in Thread |-> NoLog]
  /\ nrLogs = [b \in Buffer |-> 0]
  /\ inUse = [b \in Buffer |-> 0]
  /\ nrReclaimed = [b \in Buffer |-> 0]
  /\ freeBuffers = << >>
  /\ fresh = Buffer
  /\ holder = [b \in Buffer |-> NoThread]
  /\ closureCount = 0
  /\ aborted = FALSE

-----------------------------------------------------------------------------
(* The application thread. *)

\* AppThread's body starts with register_queue(): the validator thread runs.
Register(t) ==
  /\ appPc[t] = "unborn"
  /\ appPc' = [appPc EXCEPT ![t] = "app"]
  /\ valPc' = [valPc EXCEPT ![t] = "check"]
  /\ UNCHANGED <<frames, cur, stashed, stack, queue, stop, valLog, bufVars,
                 poolVars, closureCount, aborted>>

\* new_log() once the allocator has found the address `a`: the log that was
\* current is stashed, the closure is counted, the new log becomes current.
StartLog(t, a) ==
  /\ cur' = [cur EXCEPT ![t] = [buf |-> a.buf, start |-> a.start,
                                len |-> 0, idx |-> 0]]
  /\ frames' = [frames EXCEPT ![t] = Append(@, a)]
  /\ stashed' = [stashed EXCEPT ![t] = IF cur[t] # NoLog /\ @ < MaxStash
                                       THEN @ + 1 ELSE @]
  /\ closureCount' = closureCount + 1
  /\ UNCHANGED <<appPc, queue, stop, valVars, aborted>>

CanStart(t) == appPc[t] = "app" /\ Len(frames[t]) < MaxDepth

\* allocate(): continue in the buffer on top of the thread's stack ...
NewLogSameBuffer(t) ==
  /\ CanStart(t)
  /\ stack[t] # << >>
  /\ StartLog(t, Last(stack[t]))
  /\ stack' = [stack EXCEPT ![t] = Front(@)]
  /\ UNCHANGED <<bufVars, poolVars>>

\* ... or reset the head of buffer `b` and start behind it.
TakeBuffer(t, b) ==
  /\ CanStart(t)
  /\ stack[t] = << >>
  /\ nrLogs' = [nrLogs EXCEPT ![b] = 0]
  /\ inUse' = [inUse EXCEPT ![b] = 1]
  /\ nrReclaimed' = [nrReclaimed EXCEPT ![b] = 0]
  /\ holder' = [holder EXCEPT ![b] = t]
  /\ StartLog(t, [buf |-> b, start |-> HeadSize])
  /\ UNCHANGED stack

\* allocate_log_buffer() with a free buffer in the global list ...
NewLogFreeBuffer(t) ==
  /\ freeBuffers # << >>
  /\ TakeBuffer(t, Head(freeBuffers))
  /\ freeBuffers' = Tail(freeBuffers)
  /\ UNCHANGED fresh

\* ... and with none: aligned_alloc.
NewLogFreshBuffer(t) ==
  /\ freeBuffers = << >>
  /\ \E b \in fresh : TakeBuffer(t, b) /\ fresh' = fresh \ {b}
  /\ UNCHANGED freeBuffers

NewLog(t) ==
  NewLogSameBuffer(t) \/ NewLogFreeBuffer(t) \/ NewLogFreshBuffer(t)

\* commit_log() of a log that came out longer than one log may be.
CommitTooLong(t) ==
  /\ appPc[t] = "app" /\ frames[t] # << >>
  /\ \E n \in Lengths : n > MinSize
  /\ aborted' = TRUE
  /\ UNCHANGED <<appVars, queue, stop, valVars, bufVars, poolVars,
                 closureCount>>

\* commit_log() as far as nr_logs++ in ThreadLogAllocator::commit.
CommitCount(t) ==
  /\ appPc[t] = "app" /\ frames[t] # << >>
  /\ LET b == cur[t].buf
     IN /\ nrLogs' = [nrLogs EXCEPT ![b] = @ + 1]
        /\ \E n \in Lengths :
             /\ n <= MinSize
             /\ cur' = [cur EXCEPT ![t] = [@ EXCEPT !.len = n,
                                                    !.idx = nrLogs[b] + 1]]
  /\ appPc' = [appPc EXCEPT ![t] = "place"]
  /\ UNCHANGED <<frames, stashed, stack, queue, stop, valVars, inUse,
                 nrReclaimed, poolVars, closureCount, aborted>>

\* Mutant: the check that another log fits forgets MIN_LOG_BUFFER_SIZE.
CommitPlaceNoReserve(t) ==
  /\ appPc[t] = "place"
  /\ LET next == cur[t].start + cur[t].len
         b    == cur[t].buf
     IN IF next < MaxSize
        THEN /\ stack' = [stack EXCEPT ![t] = Append(@, [buf |-> b,
                                                         start |-> next])]
             /\ UNCHANGED inUse
        ELSE /\ inUse' = [inUse EXCEPT ![b] = 0]
             /\ UNCHANGED stack
  /\ appPc' = [appPc EXCEPT ![t] = "enqueue"]
  /\ UNCHANGED <<frames, cur, stashed, queue, stop, valVars, nrLogs,
                 nrReclaimed, poolVars, closureCount, aborted>>

\* The rest of commit: keep the buffer while another log fits, else retire it.
CommitPlace(t) ==
  /\ appPc[t] = "place"
  /\ LET next == cur[t].start + cur[t].len
         b    == cur[t].buf
     IN IF next <= MaxSize - MinSize
        THEN /\ stack' = [stack EXCEPT ![t] = Append(@, [buf |-> b,
                                                         start |-> next])]
             /\ UNCHANGED inUse
        ELSE /\ inUse' = [inUse EXCEPT ![b] = 0]
             /\ UNCHANGED stack
  /\ appPc' = [appPc EXCEPT ![t] = "enqueue"]
  /\ UNCHANGED <<frames, cur, stashed, queue, stop, valVars, nrLogs,
                 nrReclaimed, poolVars, closureCount, aborted>>

\* log_enqueue() spins until the queue has room; then the closure returns.
\* current_log keeps pointing at the committed log.
Enqueue(t) ==
  /\ appPc[t] = "enqueue"
  /\ Len(queue[t]) < QCap
  /\ queue' = [queue EXCEPT ![t] = Append(@, cur[t])]
  /\ frames' = [frames EXCEPT ![t] = Front(@)]
  /\ appPc' = [appPc EXCEPT ![t] = "app"]
  /\ UNCHANGED <<cur, stashed, stack, stop, valVars, bufVars, poolVars,
                 closureCount, aborted>>

\* Mutant: stop_validation is not set before the join.
UnregisterNoStop(t) ==
  /\ appPc[t] = "app" /\ frames[t] = << >>
  /\ appPc' = [appPc EXCEPT ![t] = "join"]
  /\ UNCHANGED <<frames, cur, stashed, stack, queue, stop, valVars, bufVars,
                 poolVars, closureCount, aborted>>

\* unregister_queue(): ask the validator to stop ...
Unregister(t) ==
  /\ appPc[t] = "app" /\ frames[t] = << >>
  /\ stop' = [stop EXCEPT ![t] = TRUE]
  /\ appPc' = [appPc EXCEPT ![t] = "join"]
  /\ UNCHANGED <<frames, cur, stashed, stack, queue, valVars, bufVars,
                 poolVars, closureCount, aborted>>

\* ... join it, and end: the thread_local queue and allocator are destroyed.
Join(t) ==
  /\ appPc[t] = "join" /\ valPc[t] = "exited"
  /\ appPc' = [appPc EXCEPT ![t] = "exited"]
  /\ queue' = [queue EXCEPT ![t] = << >>]
  /\ stack' = [stack EXCEPT ![t] = << >>]
  /\ UNCHANGED <<frames, cur, stashed, stop, valVars, bufVars, poolVars,
                 closureCount, aborted>>

-----------------------------------------------------------------------------
(* The validator thread: validate(), validate_one(), reclaim_log(). *)

\* while (!stop)
CheckStop(t) ==
  /\ valPc[t] = "check"
  /\ valPc' = [valPc EXCEPT ![t] = IF stop[t] THEN "exited" ELSE "dequeue"]
  /\ UNCHANGED <<appVars, queue, stop, valLog, bufVars, poolVars,
                 closureCount, aborted>>

\* Mutant: an empty queue ends the validator.
DequeueNothingExits(t) ==
  /\ valPc[t] = "dequeue" /\ queue[t] = << >>
  /\ valPc' = [valPc EXCEPT ![t] = "exited"]
  /\ UNCHANGED <<appVars, queue, stop, valLog, bufVars, poolVars,
                 closureCount, aborted>>

\* log_dequeue(): nullptr sends the loop round again.
DequeueNothing(t) ==
  /\ valPc[t] = "dequeue" /\ queue[t] = << >>
  /\ valPc' = [valPc EXCEPT ![t] = "check"]
  /\ UNCHANGED <<appVars, queue, stop, valLog, bufVars, poolVars,
                 closureCount, aborted>>

\* Mutant: the log is read at the front of the queue and left there.
DequeuePeeks(t) ==
  /\ valPc[t] = "dequeue" /\ queue[t] # << >>
  /\ valLog' = [valLog EXCEPT ![t] = Head(queue[t])]
  /\ valPc' = [valPc EXCEPT ![t] = "validate"]
  /\ UNCHANGED <<appVars, queue, stop, bufVars, poolVars, closureCount,
                 aborted>>

Dequeue(t) ==
  /\ valPc[t] = "dequeue" /\ queue[t] # << >>
  /\ valLog' = [valLog EXCEPT ![t] = Head(queue[t])]
  /\ queue' = [queue EXCEPT ![t] = Tail(@)]
  /\ valPc' = [valPc EXCEPT ![t] = "validate"]
  /\ UNCHANGED <<appVars, stop, bufVars, poolVars, closureCount, aborted>>

\* Mutants: nr_reclaimed is counted down; validated_closure is not called.
ReclaimSubtracts(t) ==
  /\ valPc[t] = "validate"
  /\ closureCount' = closureCount - 1
  /\ nrReclaimed' = [nrReclaimed EXCEPT ![valLog[t].buf] = @ - 1]
  /\ valPc' = [valPc EXCEPT ![t] = "inUse"]
  /\ UNCHANGED <<appVars, queue, stop, valLog, nrLogs, inUse, poolVars,
                 aborted>>
ReclaimUncounted(t) ==
  /\ valPc[t] = "validate"
  /\ nrReclaimed' = [nrReclaimed EXCEPT ![valLog[t].buf] = @ + 1]
  /\ valPc' = [valPc EXCEPT ![t] = "inUse"]
  /\ UNCHANGED <<appVars, queue, stop, valLog, nrLogs, inUse, poolVars,
                 closureCount, aborted>>

\* The replay has ended: validated_closure(), then nr_reclaimed.fetch_add.
Reclaim(t) ==
  /\ valPc[t] = "validate"
  /\ closureCount' = closureCount - 1
  /\ nrReclaimed' = [nrReclaimed EXCEPT ![valLog[t].buf] = @ + 1]
  /\ valPc' = [valPc EXCEPT ![t] = "inUse"]
  /\ UNCHANGED <<appVars, queue, stop, valLog, nrLogs, inUse, poolVars,
                 aborted>>

\* Mutant: in_use is not looked at.
ReadInUseSkipped(t) ==
  /\ valPc[t] = "inUse"
  /\ valPc' = [valPc EXCEPT ![t] = "nrLogs"]
  /\ UNCHANGED <<appVars, queue, stop, valLog, bufVars, poolVars,
                 closureCount, aborted>>

\* buffer->in_use == 0 is read while the application thread may clear it.
ReadInUse(t) ==
  /\ valPc[t] = "inUse"
  /\ valPc' = [valPc EXCEPT ![t] = IF inUse[valLog[t].buf] = 0
                                   THEN "nrLogs" ELSE "check"]
  /\ UNCHANGED <<appVars, queue, stop, valLog, bufVars, poolVars,
                 closureCount, aborted>>

\* Mutant: the last log of the buffer is not counted.
ReadNrLogsOffByOne(t) ==
  /\ valPc[t] = "nrLogs"
  /\ LET b == valLog[t].buf
     IN IF nrReclaimed[b] = nrLogs[b] + 1
        THEN /\ freeBuffers' = Append(freeBuffers, b)
             /\ holder' = [holder EXCEPT ![b] = NoThread]
        ELSE UNCHANGED <<freeBuffers, holder>>
  /\ valPc' = [valPc EXCEPT ![t] = "check"]
  /\ UNCHANGED <<appVars, queue, stop, valLog, bufVars, fresh, closureCount,
                 aborted>>

\* nr_reclaimed == nr_logs: the buffer goes to the end of the global list.
ReadNrLogs(t) ==
  /\ valPc[t] = "nrLogs"
  /\ LET b == valLog[t].buf
     IN IF nrReclaimed[b] = nrLogs[b]
        THEN /\ freeBuffers' = Append(freeBuffers, b)
             /\ holder' = [holder EXCEPT ![b] = NoThread]
        ELSE UNCHANGED <<freeBuffers, holder>>
  /\ valPc' = [valPc EXCEPT ![t] = "check"]
  /\ UNCHANGED <<appVars, queue, stop, valLog, bufVars, fresh, closureCount,
                 aborted>>

-----------------------------------------------------------------------------
Commit(t)    == CommitCount(t) \/ CommitPlace(t) \/ Enqueue(t)
Validator(t) == \/ CheckStop(t) \/ DequeueNothing(t) \/ Dequeue(t)
                \/ Reclaim(t) \/ ReadInUse(t) \/ ReadNrLogs(t)
App(t)       == \/ Register(t) \/ NewLog(t) \/ CommitTooLong(t) \/ Commit(t)
                \/ Unregister(t) \/ Join(t)

\* The process has ended: nothing more happens.
Ended == aborted \/ \A t \in Thread : appPc[t] = "exited"

Next ==
  \/ ~aborted /\ \E t \in Thread : App(t) \/ Validator(t)
  \/ Ended /\ UNCHANGED vars

Spec == Init /\ [][Next]_vars

\* The operating system runs every thread that can run.  An application thread
\* may stay between closures, or inside one, for ever.
Fairness ==
  \A t \in Thread :
    /\ WF_vars(~aborted /\ (CommitPlace(t) \/ Enqueue(t) \/ Join(t)))
    /\ WF_vars(~aborted /\ Validator(t))
FairSpec == Spec /\ Fairness

-----------------------------------------------------------------------------
(* Properties. *)

\* The logs of thread t whose closure is open or not yet reclaimed, oldest
\* first: in the validator's hands, in the queue, the application's own.
Slots(t) ==
  {i \in 0 .. Len(queue[t]) + 1 :
     /\ i = 0 => valPc[t] = "validate"
     /\ i = Len(queue[t]) + 1 => frames[t] # << >>}
LogAt(t, i) ==
  IF i = 0 THEN valLog[t]
  ELSE IF i <= Len(queue[t]) THEN queue[t][i] ELSE cur[t]
HasLogIn(t, b) == \E i \in Slots(t) : LogAt(t, i).buf = b
StackedIn(t, b) == \E i \in DOMAIN stack[t] : stack[t][i].buf = b

\* The lines a log may be written to or read from: an open log may still grow.
EndOf(l) == l.start + (IF l.len = 0 THEN MinSize ELSE l.len)

TypeOK ==
  /\ appPc \in [Thread -> {"unborn", "app", "place", "enqueue", "join",
                           "exited"}]
  /\ frames \in [Thread -> Seq(Addr)]
  /\ cur \in [Thread -> Log \cup {NoLog}]
  /\ stashed \in [Thread -> 0 .. MaxStash]
  /\ stack \in [Thread -> Seq(Addr)]
  /\ queue \in [Thread -> Seq(Log)]
  /\ stop \in [Thread -> BOOLEAN]
  /\ valPc \in [Thread -> {"off", "check", "dequeue", "validate", "inUse",
                           "nrLogs", "exited"}]
  /\ valLog \in [Thread -> Log \cup {NoLog}]
  /\ nrLogs \in [Buffer -> Nat]
  /\ inUse \in [Buffer -> {0, 1}]
  /\ nrReclaimed \in [Buffer -> Nat]
  /\ freeBuffers \in Seq(Buffer)
  /\ fresh \subseteq Buffer
  /\ holder \in [Buffer -> Thread \cup {NoThread}]
  /\ closureCount \in Int
  /\ aborted \in BOOLEAN

\* No line of a log is reused while its validation may still read it: logs
\* that are not reclaimed lie apart, inside their buffers, behind the head.
\* (allocate, commit and reclaim_log decide this together, on two threads.)
LogsDisjoint ==
  /\ \A t \in Thread : \A i \in Slots(t) :
       LogAt(t, i).start >= HeadSize /\ EndOf(LogAt(t, i)) <= MaxSize
  /\ \A t, u \in Thread : \A i \in Slots(t), j \in Slots(u) :
       /\ <<t, i>> # <<u, j>>
       /\ LogAt(t, i).buf = LogAt(u, j).buf
       => \/ EndOf(LogAt(t, i)) <= LogAt(u, j).start
          \/ EndOf(LogAt(u, j)) <= LogAt(t, i).start

\* A buffer reaches the global free list only once nothing refers to it: no
\* log in it awaits validation, no allocator will continue in it, and it is
\* in the list once (reclaim_log's reads of in_use and nr_logs race commit).
FreeBuffersUnused ==
  /\ \A b \in Range(freeBuffers) \cup fresh : \A t \in Thread :
       ~HasLogIn(t, b) /\ ~StackedIn(t, b)
  /\ \A i, j \in DOMAIN freeBuffers :
       freeBuffers[i] = freeBuffers[j] => i = j

\* The other half of that race: a buffer that is held is never stranded. One
\* in use will be continued; an exhausted one still has a log to reclaim or is
\* being examined by the validator (until its thread stops validating).
NoBufferStranded ==
  \A b \in Buffer :
    holder[b] # NoThread /\ ~stop[holder[b]] =>
      LET t == holder[b]
      IN IF inUse[b] = 1
         THEN StackedIn(t, b) \/ (frames[t] # << >> /\ cur[t].buf = b)
         ELSE \/ HasLogIn(t, b)
              \/ valPc[t] \in {"inUse", "nrLogs"} /\ valLog[t].buf = b

\* What the garbage collector relies on: a closure stays counted from before
\* its first access until it has been validated.  The logs a stopped validator
\* leaves behind stay counted for good.
Outstanding == UNION {{t} \X Slots(t) : t \in Thread}
ClosuresCounted ==
  /\ closureCount >= Cardinality(Outstanding)
  /\ (\A t \in Thread : appPc[t] # "exited") =>
       closureCount = Cardinality(Outstanding)

\* An application thread that spins on a full queue gets through.
EnqueueCompletes ==
  \A t \in Thread : appPc[t] = "enqueue" ~> (appPc[t] = "app" \/ aborted)

\* An exhausted buffer returns to the free list unless its thread stops.
BufferRecycled ==
  \A b \in Buffer :
    (inUse[b] = 0 /\ holder[b] # NoThread)
      ~> (holder[b] = NoThread \/ stop[holder[b]] \/ aborted)

\* A thread that asks its validator to stop can be joined.
JoinReturns ==
  \A t \in Thread : appPc[t] = "join" ~> (appPc[t] = "exited" \/ aborted)
=============================================================================
