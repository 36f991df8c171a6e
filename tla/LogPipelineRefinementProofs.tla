-------------------- MODULE LogPipelineRefinementProofs --------------------
(***************************************************************************)
(* Proofs about LogPipeline when closures do not nest.                     *)
(*                                                                         *)
(* First its counters: nr_logs, nr_reclaimed and in_use never strand a     *)
(* buffer, and the number of counted closures is that of the logs that are *)
(* not yet reclaimed.  IInv says that a log's number lies above            *)
(* nr_reclaimed and not above nr_logs.  The converse is needed here: every *)
(* number in that range is some log's, so that a validator that finds the  *)
(* two different leaves the buffer to a log that is still to come.         *)
(*                                                                         *)
(* Then LogStore: each step of the pipeline is a step of the store or      *)
(* leaves its state as it is.                                              *)
(***************************************************************************)
EXTENDS LogPipelineRefinement, LogPipelineProofs, FiniteSetTheorems

NumberedIn(t, b) ==
  \A k \in nrReclaimed[b] + 1 .. nrLogs[b] : \E i \in Slots(t) :
    Committed(t, i) /\ LogAt(t, i).buf = b /\ LogAt(t, i).idx = k

\* A buffer in use is continued or written to; an exhausted one has a log or
\* is under examination.
Continued(t, b) ==
  IF inUse[b] = 1
  THEN StackedIn(t, b) \/ (frames[t] # << >> /\ cur[t].buf = b)
  ELSE \/ HasLogIn(t, b)
       \/ valPc[t] \in {"inUse", "nrLogs"} /\ valLog[t].buf = b

LeftAt(t) ==
  /\ appPc[t] = "unborn" => valPc[t] = "off"
  /\ appPc[t] \in {"join", "exited"} => stop[t]
  /\ appPc[t] = "enqueue" /\ inUse[cur[t].buf] = 1
       => StackedIn(t, cur[t].buf)
  /\ ~stop[t] => \A b \in Buffer : holder[b] = t => /\ Continued(t, b)
                                                    /\ NumberedIn(t, b)
LeftInv == \A t \in Thread : LeftAt(t)

-----------------------------------------------------------------------------
\* A step of t's two threads does not touch the other threads, nor the heads
\* of the buffers they hold.
LocalTo(t) ==
  /\ \A u \in Thread \ {t} :
       /\ appPc'[u] = appPc[u] /\ frames'[u] = frames[u]
       /\ cur'[u] = cur[u] /\ stack'[u] = stack[u]
       /\ queue'[u] = queue[u] /\ stop'[u] = stop[u]
       /\ valPc'[u] = valPc[u] /\ valLog'[u] = valLog[u]
  /\ \A b \in Buffer :
       /\ holder[b] \in Thread \ {t} => /\ nrLogs'[b] = nrLogs[b]
                                        /\ inUse'[b] = inUse[b]
                                        /\ nrReclaimed'[b] = nrReclaimed[b]
       /\ holder'[b] \in Thread \ {t} => holder[b] = holder'[b]

\* A step writes its own thread's variables, and the head of a buffer only
\* while it holds it or takes it from the pool.
LEMMA StepsAreLocal ==
  ASSUME IInv, NEW t \in Thread, App(t) \/ Validator(t)
  PROVE  LocalTo(t)
  <1> USE DEF IInv, TypeInv, TypeOK
  <1>0. /\ appPc[t] \in {"app", "place"} /\ frames[t] # << >>
             => cur[t].buf \in Buffer /\ holder[cur[t].buf] = t
        /\ valPc[t] = "validate"
             => valLog[t].buf \in Buffer /\ holder[valLog[t].buf] = t
        /\ valPc[t] = "nrLogs"
             => valLog[t].buf \in Buffer /\ holder[valLog[t].buf] = t
    <2>1. frames[t] # << >> => /\ Len(queue[t]) + 1 \in Slots(t)
                               /\ LogAt(t, Len(queue[t]) + 1) = cur[t]
      BY DEF Slots, LogAt
    <2>2. valPc[t] = "validate" => /\ 0 \in Slots(t)
                                   /\ LogAt(t, 0) = valLog[t]
      BY DEF Slots, LogAt
    <2> QED
      BY <2>1, <2>2 DEF HolderInv, HasLog, Log
  <1>1. CASE \/ Register(t) \/ CommitTooLong(t) \/ Enqueue(t)
             \/ Unregister(t) \/ Join(t) \/ CheckStop(t)
             \/ DequeueNothing(t) \/ Dequeue(t) \/ ReadInUse(t)
    <2>1. UNCHANGED <<bufVars, poolVars>>
      BY <1>1 DEF Register, CommitTooLong, Enqueue, Unregister, Join,
                  CheckStop, DequeueNothing, Dequeue, ReadInUse
    <2>2. ASSUME NEW u \in Thread \ {t}
          PROVE  /\ appPc'[u] = appPc[u] /\ frames'[u] = frames[u]
                 /\ cur'[u] = cur[u] /\ stack'[u] = stack[u]
                 /\ queue'[u] = queue[u] /\ stop'[u] = stop[u]
                 /\ valPc'[u] = valPc[u] /\ valLog'[u] = valLog[u]
      BY <1>1 DEF Register, CommitTooLong, Enqueue, Unregister, Join,
                  CheckStop, DequeueNothing, Dequeue, ReadInUse, appVars,
                  valVars
    <2> QED
      BY <2>1, <2>2 DEF LocalTo, bufVars, poolVars
  <1>2. ASSUME NEW b \in Buffer, TakeBuffer(t, b), holder[b] = NoThread
        PROVE  LocalTo(t)
    <2>1. ASSUME NEW u \in Thread \ {t}
          PROVE  /\ appPc'[u] = appPc[u] /\ frames'[u] = frames[u]
                 /\ cur'[u] = cur[u] /\ stack'[u] = stack[u]
                 /\ queue'[u] = queue[u] /\ stop'[u] = stop[u]
                 /\ valPc'[u] = valPc[u] /\ valLog'[u] = valLog[u]
      BY <1>2 DEF TakeBuffer, StartLog, valVars
    <2>2. \A c \in Buffer : holder[c] \in Thread => c # b
      BY <1>2, Constants
    <2> QED
      BY <1>2, <2>1, <2>2 DEF LocalTo, TakeBuffer
  <1>3. CASE NewLogFreeBuffer(t)
    <2>1. freeBuffers # << >> /\ freeBuffers \in Seq(Buffer)
      BY <1>3 DEF NewLogFreeBuffer
    <2>2. 1 \in DOMAIN freeBuffers /\ Head(freeBuffers) = freeBuffers[1]
      BY <2>1
    <2>3. Head(freeBuffers) \in Buffer /\ holder[Head(freeBuffers)] = NoThread
      BY <2>1, <2>2 DEF PoolInv
    <2> QED
      BY <1>2, <1>3, <2>3 DEF NewLogFreeBuffer
  <1>4. CASE NewLogFreshBuffer(t)
    BY <1>2, <1>4 DEF NewLogFreshBuffer, PoolInv
  <1>5. CASE NewLogSameBuffer(t)
    BY <1>5
    DEF LocalTo, NewLogSameBuffer, StartLog, valVars, bufVars, poolVars
  <1>6. CASE CommitCount(t)
    <2>1. \A u \in Thread \ {t} : cur'[u] = cur[u]
      BY <1>6 DEF CommitCount
    <2>2. \A c \in Buffer : c # cur[t].buf => nrLogs'[c] = nrLogs[c]
      BY <1>6 DEF CommitCount
    <2>3. /\ appPc' = [appPc EXCEPT ![t] = "place"]
          /\ UNCHANGED <<frames, stack, queue, stop, valPc, valLog, inUse,
                         nrReclaimed, holder>>
      BY <1>6 DEF CommitCount, valVars, poolVars
    <2>4. holder[cur[t].buf] = t
      BY <1>0, <1>6 DEF CommitCount
    <2> QED
      BY <2>1, <2>2, <2>3, <2>4 DEF LocalTo
  <1>7. CASE CommitPlace(t)
    <2>1. holder[cur[t].buf] = t
      BY <1>0, <1>7 DEF CommitPlace, HasLog
    <2>2. \A c \in Buffer : c # cur[t].buf => inUse'[c] = inUse[c]
      BY <1>7 DEF CommitPlace
    <2>3. \A u \in Thread \ {t} : stack'[u] = stack[u]
      BY <1>7 DEF CommitPlace
    <2> QED
      BY <1>7, <2>1, <2>2, <2>3 DEF LocalTo, CommitPlace, valVars, poolVars
  <1>8. CASE Reclaim(t)
    <2>1. holder[valLog[t].buf] = t
      BY <1>0, <1>8 DEF Reclaim
    <2> QED
      BY <1>8, <2>1 DEF LocalTo, Reclaim, appVars, poolVars
  <1>9. CASE ReadNrLogs(t)
    <2>1. holder[valLog[t].buf] = t
      BY <1>0, <1>9 DEF ReadNrLogs
    <2>2. \A c \in Buffer : holder'[c] = holder[c] \/ holder'[c] = NoThread
      BY <1>9 DEF ReadNrLogs
    <2> QED
      BY <1>9, <2>1, <2>2, Constants DEF LocalTo, ReadNrLogs, appVars, bufVars
  <1> QED
    BY <1>1, <1>3, <1>4, <1>5, <1>6, <1>7, <1>8, <1>9
    DEF App, Validator, NewLog, Commit

\* So only what LeftInv says of t itself has to be shown again.
LEMMA LeftElsewhere ==
  ASSUME IInv, LeftInv, NEW t \in Thread, LocalTo(t), NEW u \in Thread \ {t}
  PROVE  LeftAt(u)'
  <1>1. /\ appPc'[u] = appPc[u] /\ frames'[u] = frames[u]
        /\ cur'[u] = cur[u] /\ stack'[u] = stack[u]
        /\ queue'[u] = queue[u] /\ stop'[u] = stop[u]
        /\ valPc'[u] = valPc[u] /\ valLog'[u] = valLog[u]
    BY DEF LocalTo
  <1>2. \A i : LogAt(u, i)' = LogAt(u, i)
    BY <1>1 DEF LogAt
  <1>3. Slots(u)' = Slots(u)
    BY <1>1 DEF Slots
  <1>4. \A i : Committed(u, i)' <=> Committed(u, i)
    BY <1>1 DEF Committed
  <1>5. \A b : StackedIn(u, b)' <=> StackedIn(u, b)
    BY <1>1 DEF StackedIn
  <1>6. \A b : HasLogIn(u, b)' <=> HasLogIn(u, b)
    BY <1>2, <1>3 DEF HasLogIn
  <1>7. LeftAt(u)
    BY DEF LeftInv
  <1>8. ASSUME NEW b \in Buffer, ~stop'[u], holder'[b] = u
        PROVE  Continued(u, b)' /\ NumberedIn(u, b)'
    <2>1. /\ holder[b] = u /\ nrLogs'[b] = nrLogs[b]
          /\ inUse'[b] = inUse[b] /\ nrReclaimed'[b] = nrReclaimed[b]
      BY <1>8 DEF LocalTo
    <2>2. Continued(u, b) /\ NumberedIn(u, b)
      BY <1>1, <1>7, <1>8, <2>1 DEF LeftAt
    <2> QED
      BY <1>1, <1>2, <1>3, <1>4, <1>5, <1>6, <2>1, <2>2
      DEF Continued, NumberedIn
  <1>9. appPc[u] = "enqueue" => inUse'[cur[u].buf] = inUse[cur[u].buf]
    <2>1. SUFFICES ASSUME appPc[u] = "enqueue"
          PROVE  inUse'[cur[u].buf] = inUse[cur[u].buf]
      OBVIOUS
    <2>2. frames[u] # << >> /\ cur[u] \in Log /\ queue[u] \in Seq(Log)
      BY <2>1 DEF IInv, TypeInv, TypeOK, HasLog
    <2>3. /\ Len(queue[u]) + 1 \in Slots(u)
          /\ LogAt(u, Len(queue[u]) + 1) = cur[u]
      BY <2>2 DEF Slots, LogAt
    <2>4. cur[u].buf \in Buffer /\ holder[cur[u].buf] = u
      BY <2>2, <2>3 DEF IInv, HolderInv, Log
    <2> QED
      BY <2>4 DEF LocalTo
  <1> QED
    BY <1>1, <1>5, <1>7, <1>8, <1>9 DEF LeftAt

\* The logs of t that a step keeps, each d slots further down.
Keeps(t, d) ==
  \A i \in Slots(t) : /\ i - d \in Slots(t)'
                      /\ LogAt(t, i - d)' = LogAt(t, i)
                      /\ Committed(t, i) => Committed(t, i - d)'

\* A buffer's logs stay its logs, whichever slots they move to.
LEMMA KeepsLogs ==
  ASSUME NEW t, NEW d, Keeps(t, d), NEW b
  PROVE  /\ HasLogIn(t, b) => HasLogIn(t, b)'
         /\ NumberedIn(t, b) /\ UNCHANGED <<nrLogs, nrReclaimed>>
              => NumberedIn(t, b)'
  <1>1. ASSUME HasLogIn(t, b) PROVE HasLogIn(t, b)'
    <2>1. PICK i \in Slots(t) : LogAt(t, i).buf = b
      BY <1>1 DEF HasLogIn
    <2>2. i - d \in Slots(t)' /\ LogAt(t, i - d)' = LogAt(t, i)
      BY DEF Keeps
    <2>3. PICK j : j = i - d
      OBVIOUS
    <2> QED
      BY <2>1, <2>2, <2>3 DEF HasLogIn
  <1>2. ASSUME NumberedIn(t, b), UNCHANGED <<nrLogs, nrReclaimed>>,
               NEW k \in (nrReclaimed[b] + 1 .. nrLogs[b])'
        PROVE  (\E i \in Slots(t) : /\ Committed(t, i)
                                    /\ LogAt(t, i).buf = b
                                    /\ LogAt(t, i).idx = k)'
    <2>1. PICK i \in Slots(t) : /\ Committed(t, i) /\ LogAt(t, i).buf = b
                                /\ LogAt(t, i).idx = k
      BY <1>2 DEF NumberedIn
    <2>2. /\ i - d \in Slots(t)' /\ LogAt(t, i - d)' = LogAt(t, i)
          /\ Committed(t, i - d)'
      BY <2>1 DEF Keeps
    <2>3. PICK j : j = i - d
      OBVIOUS
    <2> QED
      BY <2>1, <2>2, <2>3
  <1> QED
    BY <1>1, <1>2 DEF NumberedIn

\* A thread whose queue, log and validator's log did not change.
LEMMA SameKeeps ==
  ASSUME NEW t,
         queue'[t] = queue[t], cur'[t] = cur[t], valLog'[t] = valLog[t],
         valPc[t] = "validate" => valPc'[t] = "validate",
         frames[t] # << >> => frames'[t] # << >>,
         appPc[t] \in {"place", "enqueue"}
           => appPc'[t] \in {"place", "enqueue"}
  PROVE  Keeps(t, 0)
  <1>1. \A i \in Slots(t) : i \in Slots(t)' /\ i - 0 = i
    BY DEF Slots
  <1>2. \A i : LogAt(t, i)' = LogAt(t, i)
    BY DEF LogAt
  <1>3. \A i : Committed(t, i) => Committed(t, i)'
    BY DEF Committed
  <1> QED
    BY <1>1, <1>2, <1>3 DEF Keeps

\* log_enqueue keeps them, ...
LEMMA EnqueueKeeps ==
  ASSUME IInv, NEW t \in Thread, Enqueue(t)
  PROVE  Keeps(t, 0)
  <1> DEFINE n == Len(queue[t])
  <1>1. /\ queue[t] \in Seq(Log) /\ n \in Nat /\ cur[t] \in Log
        /\ queue'[t] = Append(queue[t], cur[t])
        /\ cur'[t] = cur[t] /\ valLog'[t] = valLog[t] /\ valPc'[t] = valPc[t]
    BY DEF Enqueue, IInv, TypeInv, TypeOK, HasLog, valVars
  <1>2. /\ Len(queue'[t]) = n + 1 /\ queue'[t][n + 1] = cur[t]
        /\ \A i \in 1 .. n : queue'[t][i] = queue[t][i]
    BY <1>1
  <1>3. ASSUME NEW i \in Slots(t)
        PROVE  /\ i - 0 = i /\ i \in Slots(t)'
               /\ LogAt(t, i)' = LogAt(t, i)
               /\ Committed(t, i)'
    <2>1. i \in 0 .. n + 1 /\ (i = 0 => valPc[t] = "validate")
      BY DEF Slots
    <2>2. i \in Slots(t)'
      BY <1>1, <1>2, <2>1 DEF Slots
    <2>3. LogAt(t, i)' = LogAt(t, i)
      BY <1>1, <1>2, <2>1 DEF LogAt
    <2>4. Committed(t, i)'
      BY <1>2, <2>1 DEF Committed
    <2> QED
      BY <2>1, <2>2, <2>3, <2>4
  <1> QED
    BY <1>3 DEF Keeps

\* ... and so does log_dequeue, when the validator is idle.
LEMMA DequeueKeeps ==
  ASSUME IInv, NEW t \in Thread, Dequeue(t)
  PROVE  Keeps(t, 1)
  <1> DEFINE n == Len(queue[t])
  <1>1. queue[t] \in Seq(Log) /\ queue[t] # << >> /\ n \in Nat \ {0}
    BY DEF Dequeue, IInv, TypeInv, TypeOK
  <1>2. /\ queue'[t] = Tail(queue[t]) /\ valLog'[t] = Head(queue[t])
        /\ valPc'[t] = "validate" /\ cur'[t] = cur[t]
        /\ frames'[t] = frames[t] /\ appPc'[t] = appPc[t]
        /\ valPc[t] = "dequeue"
    BY DEF Dequeue, appVars, IInv, TypeInv, TypeOK
  <1>3. /\ Len(queue'[t]) = n - 1 /\ valLog'[t] = queue[t][1]
        /\ \A i \in 1 .. n - 1 : queue'[t][i] = queue[t][i + 1]
    BY <1>1, <1>2
  <1>4. ASSUME NEW i \in Slots(t)
        PROVE  /\ i - 1 \in Slots(t)'
               /\ LogAt(t, i - 1)' = LogAt(t, i)
               /\ Committed(t, i) => Committed(t, i - 1)'
    <2>1. i \in 1 .. n + 1 /\ (i = n + 1 => frames[t] # << >>)
      BY <1>1, <1>2 DEF Slots
    <2>2. i - 1 \in Slots(t)'
      BY <1>1, <1>2, <1>3, <2>1 DEF Slots
    <2>3. LogAt(t, i - 1)' = LogAt(t, i)
      BY <1>1, <1>2, <1>3, <2>1 DEF LogAt
    <2>4. Committed(t, i) => Committed(t, i - 1)'
      BY <1>1, <1>2, <1>3, <2>1 DEF Committed
    <2> QED
      BY <2>2, <2>3, <2>4
  <1> QED
    BY <1>4 DEF Keeps

-----------------------------------------------------------------------------
(* What LeftInv says of t, after a step of t's threads. *)

\* The steps that keep heads, pool and stack, and all logs.
LEMMA LeftMoves ==
  ASSUME IInv, NEW t \in Thread, LeftAt(t), NEW d, Keeps(t, d),
         UNCHANGED <<bufVars, holder>>, stack'[t] = stack[t],
         appPc'[t] # "unborn", stop[t] => stop'[t],
         appPc'[t] \in {"join", "exited"} => stop'[t],
         appPc'[t] = "enqueue" => appPc[t] = "enqueue" /\ cur'[t] = cur[t],
         \A b \in Buffer :
           /\ inUse[b] = 1 /\ frames[t] # << >> /\ cur[t].buf = b
                => \/ StackedIn(t, b)
                   \/ frames'[t] # << >> /\ cur'[t] = cur[t]
           /\ inUse[b] = 0 /\ valPc[t] \in {"inUse", "nrLogs"}
                           /\ valLog[t].buf = b
                => \/ HasLogIn(t, b)
                   \/ /\ valPc'[t] \in {"inUse", "nrLogs"}
                      /\ valLog'[t] = valLog[t]
  PROVE  LeftAt(t)'
  <1>1. \A b : StackedIn(t, b)' <=> StackedIn(t, b)
    BY DEF StackedIn
  <1>2. ASSUME NEW b \in Buffer, ~stop'[t], holder'[b] = t
        PROVE  Continued(t, b)' /\ NumberedIn(t, b)'
    <2>1. /\ holder[b] = t /\ inUse'[b] = inUse[b] /\ inUse[b] \in {0, 1}
          /\ UNCHANGED <<nrLogs, nrReclaimed>>
      BY <1>2 DEF bufVars, IInv, TypeInv, TypeOK
    <2>2. Continued(t, b) /\ NumberedIn(t, b)
      BY <1>2, <2>1 DEF LeftAt
    <2>3. NumberedIn(t, b)' /\ (HasLogIn(t, b) => HasLogIn(t, b)')
      BY <2>1, <2>2, KeepsLogs
    <2> QED
      BY <1>1, <2>1, <2>2, <2>3 DEF Continued
  <1> QED
    BY <1>1, <1>2 DEF LeftAt, bufVars

\* Registering, queueing, dequeueing and ending are such steps.
LEMMA LeftMovingSteps ==
  ASSUME IInv, NEW t \in Thread, LeftAt(t),
         \/ Register(t) \/ CommitTooLong(t) \/ Enqueue(t) \/ Unregister(t)
         \/ Join(t) \/ CheckStop(t) \/ DequeueNothing(t) \/ Dequeue(t)
         \/ ReadInUse(t)
  PROVE  LeftAt(t)'
  <1>0. /\ stop \in [Thread -> BOOLEAN] /\ inUse \in [Buffer -> {0, 1}]
        /\ DOMAIN appPc = Thread /\ DOMAIN valPc = Thread
        /\ DOMAIN stack = Thread
    BY DEF IInv, TypeInv, TypeOK
  <1>1. CASE Register(t)
    <2>1. Keeps(t, 0)
      BY <1>1, SameKeeps DEF Register, LeftAt
    <2> QED
      BY <1>0, <1>1, <2>1, LeftMoves DEF Register, bufVars, poolVars, LeftAt
  <1>2. CASE CommitTooLong(t)
    <2>1. Keeps(t, 0)
      BY <1>2, SameKeeps DEF CommitTooLong, appVars, valVars
    <2> QED
      BY <1>0, <1>2, <2>1, LeftMoves
      DEF CommitTooLong, appVars, valVars, bufVars, poolVars, LeftAt
  <1>3. CASE Enqueue(t)
    <2>1. Keeps(t, 0)
      BY <1>3, EnqueueKeeps
    <2> QED
      BY <1>0, <1>3, <2>1, LeftMoves
      DEF Enqueue, valVars, bufVars, poolVars, LeftAt
  <1>4. CASE Unregister(t)
    <2>1. Keeps(t, 0)
      BY <1>4, SameKeeps DEF Unregister, valVars
    <2> QED
      BY <1>0, <1>4 DEF Unregister, LeftAt
  <1>5. CASE Join(t)
    BY <1>0, <1>5 DEF Join, LeftAt
  <1>6. CASE CheckStop(t)
    <2>1. Keeps(t, 0)
      BY <1>6, SameKeeps DEF CheckStop, appVars
    <2> QED
      BY <1>0, <1>6, <2>1, LeftMoves
      DEF CheckStop, appVars, bufVars, poolVars, LeftAt
  <1>7. CASE DequeueNothing(t)
    <2>1. Keeps(t, 0)
      BY <1>7, SameKeeps DEF DequeueNothing, appVars
    <2> QED
      BY <1>0, <1>7, <2>1, LeftMoves
      DEF DequeueNothing, appVars, bufVars, poolVars, LeftAt
  <1>8. CASE Dequeue(t)
    <2>1. Keeps(t, 1)
      BY <1>8, DequeueKeeps
    <2> QED
      BY <1>0, <1>8, <2>1, LeftMoves
      DEF Dequeue, appVars, bufVars, poolVars, LeftAt
  <1>9. CASE ReadInUse(t)
    <2>1. Keeps(t, 0)
      BY <1>9, SameKeeps DEF ReadInUse, appVars
    <2> QED
      BY <1>0, <1>9, <2>1, LeftMoves
      DEF ReadInUse, appVars, bufVars, poolVars, LeftAt
  <1> QED
    BY <1>1, <1>2, <1>3, <1>4, <1>5, <1>6, <1>7, <1>8, <1>9

\* allocate: the buffer of the new log was on the stack, or is new to t.
LEMMA LeftNewLog ==
  ASSUME IInv, NEW t \in Thread, LeftAt(t), NewLog(t), MaxDepth = 1
  PROVE  LeftAt(t)'
  <1>0. /\ stack[t] \in Seq(Addr) /\ frames[t] \in Seq(Addr)
        /\ inUse \in [Buffer -> {0, 1}] /\ nrLogs \in [Buffer -> Nat]
        /\ nrReclaimed \in [Buffer -> Nat] /\ DOMAIN stack = Thread
        /\ DOMAIN frames = Thread /\ DOMAIN cur = Thread
        /\ DOMAIN holder = Buffer
    BY DEF IInv, TypeInv, TypeOK
  <1>1. PICK a : StartLog(t, a)
    BY DEF NewLog, NewLogSameBuffer, NewLogFreeBuffer, NewLogFreshBuffer,
           TakeBuffer
  <1>2. /\ cur'[t].buf = a.buf /\ appPc'[t] = appPc[t]
        /\ queue'[t] = queue[t] /\ stop'[t] = stop[t]
        /\ valPc'[t] = valPc[t] /\ valLog'[t] = valLog[t]
        /\ frames'[t] = Append(frames[t], a)
    BY <1>0, <1>1 DEF StartLog, valVars
  <1>3. appPc[t] = "app" /\ frames[t] = << >>
    <2>1. appPc[t] = "app" /\ Len(frames[t]) < 1
      BY DEF NewLog, NewLogSameBuffer, NewLogFreeBuffer, NewLogFreshBuffer,
             TakeBuffer, CanStart
    <2> QED
      BY <1>0, <2>1
  <1>4. frames'[t] # << >>
    BY <1>0, <1>2
  <1>5. \A i \in Slots(t) : /\ i \in Slots(t)' /\ i - 0 = i
                            /\ LogAt(t, i)' = LogAt(t, i)
                            /\ Committed(t, i)'
    <2>1. \A i \in Slots(t) : i <= Len(queue[t])
      BY <1>3 DEF Slots
    <2> QED
      BY <1>2, <2>1 DEF Slots, LogAt, Committed
  <1>6. Keeps(t, 0)
    BY <1>5 DEF Keeps
  <1>7. CASE NewLogSameBuffer(t)
    <2>1. /\ stack[t] # << >> /\ stack' = [stack EXCEPT ![t] = Front(@)]
          /\ UNCHANGED <<bufVars, poolVars>>
          /\ StartLog(t, Last(stack[t]))
      BY <1>7 DEF NewLogSameBuffer
    <2>2. cur'[t].buf = Last(stack[t]).buf
      BY <1>0, <2>1 DEF StartLog
    <2>3. Len(stack[t]) = 1 /\ Last(stack[t]) = stack[t][1]
      <3>1. Len(stack[t]) <= 1
        BY DEF IInv, StackInv
      <3>2. Len(stack[t]) \in Nat \ {0}
        BY <1>0, <2>1
      <3>3. Len(stack[t]) = 1
        <4>1. \A m \in Nat \ {0} : m <= 1 => m = 1
          OBVIOUS
        <4> QED
          BY <3>1, <3>2, <4>1, Zenon
      <3> QED
        BY <3>3 DEF Last
    <2>4. \A b : StackedIn(t, b) => b = cur'[t].buf
      BY <2>2, <2>3, <1>0 DEF StackedIn
    <2>5. ASSUME NEW b \in Buffer, ~stop'[t], holder'[b] = t
          PROVE  Continued(t, b)' /\ NumberedIn(t, b)'
      <3>1. /\ holder[b] = t /\ inUse'[b] = inUse[b]
            /\ UNCHANGED <<nrLogs, nrReclaimed>>
        BY <2>1, <2>5 DEF bufVars, poolVars
      <3>2. Continued(t, b) /\ NumberedIn(t, b)
        BY <1>2, <2>5, <3>1 DEF LeftAt
      <3>3. NumberedIn(t, b)' /\ (HasLogIn(t, b) => HasLogIn(t, b)')
        BY <1>6, <3>1, <3>2, KeepsLogs
      <3> QED
        BY <1>2, <1>3, <1>4, <2>4, <3>1, <3>2, <3>3 DEF Continued
    <2> QED
      BY <1>2, <1>3, <2>5 DEF LeftAt
  <1>8. ASSUME NEW c \in Buffer, TakeBuffer(t, c) PROVE LeftAt(t)'
    <2>1. /\ stack[t] = << >> /\ stack' = stack
          /\ nrLogs' = [nrLogs EXCEPT ![c] = 0]
          /\ inUse' = [inUse EXCEPT ![c] = 1]
          /\ nrReclaimed' = [nrReclaimed EXCEPT ![c] = 0]
          /\ holder' = [holder EXCEPT ![c] = t]
          /\ StartLog(t, [buf |-> c, start |-> HeadSize])
      BY <1>8 DEF TakeBuffer
    <2>2. cur'[t].buf = c
      BY <1>0, <2>1 DEF StartLog
    <2>3. ASSUME NEW b \in Buffer, b # c, ~stop'[t], holder'[b] = t
          PROVE  Continued(t, b)' /\ NumberedIn(t, b)'
      <3>1. /\ holder[b] = t /\ inUse'[b] = inUse[b]
            /\ nrLogs'[b] = nrLogs[b] /\ nrReclaimed'[b] = nrReclaimed[b]
        BY <1>0, <2>1, <2>3
      <3>2. Continued(t, b) /\ NumberedIn(t, b)
        BY <1>2, <2>3, <3>1 DEF LeftAt
      <3>3. ~StackedIn(t, b)
        BY <2>1 DEF StackedIn
      <3>4. NumberedIn(t, b)'
        BY <1>5, <3>1, <3>2 DEF NumberedIn
      <3>5. HasLogIn(t, b) => HasLogIn(t, b)'
        BY <1>6, KeepsLogs
      <3> QED
        BY <1>2, <1>3, <3>1, <3>2, <3>3, <3>4, <3>5 DEF Continued
    <2>4. Continued(t, c)' /\ NumberedIn(t, c)'
      <3>1. inUse'[c] = 1 /\ nrLogs'[c] = 0 /\ nrReclaimed'[c] = 0
        BY <1>0, <2>1
      <3> QED
        BY <1>4, <2>2, <3>1 DEF Continued, NumberedIn
    <2> QED
      BY <1>2, <1>3, <2>3, <2>4 DEF LeftAt
  <1>9. CASE NewLogFreeBuffer(t)
    <2>1. freeBuffers # << >> /\ freeBuffers \in Seq(Buffer)
      BY <1>9 DEF NewLogFreeBuffer, IInv, TypeInv, TypeOK
    <2>2. Head(freeBuffers) \in Buffer
      BY <2>1
    <2> QED
      BY <1>8, <1>9, <2>2 DEF NewLogFreeBuffer
  <1>10. CASE NewLogFreshBuffer(t)
    BY <1>8, <1>10 DEF NewLogFreshBuffer, IInv, TypeInv, TypeOK
  <1> QED
    BY <1>7, <1>9, <1>10 DEF NewLog

\* commit_log, as far as nr_logs++: the newest log gets the newest number.
LEMMA LeftCommitCount ==
  ASSUME IInv, NEW t \in Thread, LeftAt(t), CommitCount(t)
  PROVE  LeftAt(t)'
  <1> DEFINE b == cur[t].buf
  <1>n. PICK n : n = Len(queue[t]) + 1
    OBVIOUS
  <1>0. /\ cur \in [Thread -> Log \cup {NoLog}] /\ nrLogs \in [Buffer -> Nat]
        /\ nrReclaimed \in [Buffer -> Nat] /\ queue[t] \in Seq(Log)
        /\ inUse \in [Buffer -> {0, 1}] /\ DOMAIN appPc = Thread
        /\ frames[t] # << >> /\ cur[t] \in Log /\ b \in Buffer
    BY DEF CommitCount, IInv, TypeInv, TypeOK, HasLog, Log
  <1>1. /\ appPc'[t] = "place" /\ appPc[t] = "app"
        /\ nrLogs' = [nrLogs EXCEPT ![b] = nrLogs[b] + 1]
        /\ UNCHANGED <<frames, stack, queue, stop, valPc, valLog, inUse,
                       nrReclaimed, holder>>
    BY <1>0 DEF CommitCount, valVars, poolVars
  <1>2. cur'[t].buf = b /\ cur'[t].idx = nrLogs[b] + 1
    <2>1. PICK m \in Lengths :
            cur' = [cur EXCEPT ![t] = [cur[t] EXCEPT !.len = m,
                                                     !.idx = nrLogs[b] + 1]]
      BY DEF CommitCount
    <2>2. cur'[t] = [cur[t] EXCEPT !.len = m, !.idx = nrLogs[b] + 1]
      BY <1>0, <2>1
    <2> QED
      BY <1>0, <2>2 DEF Log
  <1>3. Slots(t)' = Slots(t)
    BY <1>1 DEF Slots
  <1>4. /\ n \in Slots(t)' /\ LogAt(t, n)' = cur'[t] /\ Committed(t, n)'
    BY <1>0, <1>1, <1>n DEF Slots, LogAt, Committed
  <1>5. \A i \in Slots(t) : /\ LogAt(t, i)'.buf = LogAt(t, i).buf
                            /\ Committed(t, i)'
    BY <1>0, <1>1, <1>2 DEF Slots, LogAt, Committed
  <1>6. \A i \in Slots(t) : Committed(t, i) => LogAt(t, i)' = LogAt(t, i)
    BY <1>0, <1>1 DEF Slots, LogAt, Committed
  <1>7. ASSUME NEW c \in Buffer, ~stop'[t], holder'[c] = t
        PROVE  Continued(t, c)' /\ NumberedIn(t, c)'
    <2>1. Continued(t, c) /\ NumberedIn(t, c)
      BY <1>1, <1>7 DEF LeftAt
    <2>2. StackedIn(t, c)' <=> StackedIn(t, c)
      BY <1>1 DEF StackedIn
    <2>3. HasLogIn(t, c)' <=> HasLogIn(t, c)
      BY <1>3, <1>5 DEF HasLogIn
    <2>4. Continued(t, c)'
      BY <1>1, <1>2, <2>1, <2>2, <2>3 DEF Continued
    <2>5. ASSUME NEW k \in (nrReclaimed[c] + 1 .. nrLogs[c])'
          PROVE  (\E i \in Slots(t) : /\ Committed(t, i)
                                      /\ LogAt(t, i).buf = c
                                      /\ LogAt(t, i).idx = k)'
      <3>1. CASE c = b /\ k = nrLogs[b] + 1
        BY <1>2, <1>4, <3>1
      <3>2. CASE ~(c = b /\ k = nrLogs[b] + 1)
        <4>1. k \in nrReclaimed[c] + 1 .. nrLogs[c]
          BY <1>0, <1>1, <2>5, <3>2
        <4>2. PICK i \in Slots(t) : /\ Committed(t, i) /\ LogAt(t, i).buf = c
                                    /\ LogAt(t, i).idx = k
          BY <2>1, <4>1 DEF NumberedIn
        <4> QED
          BY <1>3, <1>5, <1>6, <4>2
      <3> QED
        BY <3>1, <3>2
    <2> QED
      BY <2>4, <2>5 DEF NumberedIn
  <1> QED
    BY <1>1, <1>7 DEF LeftAt

\* ThreadLogAllocator::commit: the buffer is stacked again, or exhausted with
\* the log just written in it.
LEMMA LeftCommitPlace ==
  ASSUME IInv, NEW t \in Thread, LeftAt(t), CommitPlace(t)
  PROVE  LeftAt(t)'
  <1>b. PICK b : b = cur[t].buf
    OBVIOUS
  <1> DEFINE a == [buf |-> b, start |-> cur[t].start + cur[t].len]
  <1>0. /\ inUse \in [Buffer -> {0, 1}] /\ DOMAIN appPc = Thread
        /\ DOMAIN stack = Thread /\ stack[t] \in Seq(Addr)
        /\ frames[t] # << >> /\ cur[t] \in Log /\ b \in Buffer
        /\ queue[t] \in Seq(Log)
    BY <1>b DEF CommitPlace, IInv, TypeInv, TypeOK, HasLog, Log
  <1>1. /\ appPc'[t] = "enqueue" /\ appPc[t] = "place"
        /\ UNCHANGED <<frames, cur, queue, stop, valPc, valLog, nrLogs,
                       nrReclaimed, holder>>
    BY <1>0 DEF CommitPlace, valVars, poolVars
  <1>2. Keeps(t, 0)
    BY <1>1, SameKeeps
  <1>3. HasLogIn(t, b)'
    <2>1. Len(queue[t]) + 1 \in Slots(t)
      BY <1>0 DEF Slots
    <2>2. LogAt(t, Len(queue[t]) + 1) = cur[t]
      BY <1>0 DEF LogAt
    <2>3. HasLogIn(t, b)
      BY <1>b, <2>1, <2>2 DEF HasLogIn
    <2> QED
      BY <1>2, <2>3, KeepsLogs
  <1>4. \/ inUse' = inUse /\ StackedIn(t, b)'
        \/ inUse' = [inUse EXCEPT ![b] = 0]
    <2>1. CASE cur[t].start + cur[t].len <= MaxSize - MinSize
      <3>1. stack'[t] = Append(stack[t], a) /\ inUse' = inUse
        BY <1>0, <1>b, <2>1 DEF CommitPlace
      <3>2. a.buf = b
        OBVIOUS
      <3> HIDE DEF a
      <3>3. PICK k : k = Len(stack[t]) + 1
        OBVIOUS
      <3>4. k \in DOMAIN stack'[t] /\ stack'[t][k] = a
        BY <1>0, <3>1, <3>3
      <3> QED
        BY <3>1, <3>2, <3>4 DEF StackedIn
    <2>2. CASE ~(cur[t].start + cur[t].len <= MaxSize - MinSize)
      BY <1>b, <2>2 DEF CommitPlace
    <2> QED
      BY <2>1, <2>2
  <1>5. stack[t] = << >>
    BY <1>0, <1>1, <1>b DEF IInv, StackInv
  <1>6. ASSUME NEW c \in Buffer, ~stop'[t], holder'[c] = t
        PROVE  Continued(t, c)' /\ NumberedIn(t, c)'
    <2>1. Continued(t, c) /\ NumberedIn(t, c)
      BY <1>1, <1>6 DEF LeftAt
    <2>2. NumberedIn(t, c)' /\ (HasLogIn(t, c) => HasLogIn(t, c)')
      BY <1>1, <1>2, <2>1, KeepsLogs
    <2>3. c # b => inUse'[c] = inUse[c]
      BY <1>0, <1>4
    <2>4. ~StackedIn(t, c)
      BY <1>5 DEF StackedIn
    <2>5. CASE c = b
      <3>1. HasLogIn(t, c)' /\ (StackedIn(t, b)' => StackedIn(t, c)')
        BY <1>3, <2>5 DEF HasLogIn, StackedIn
      <3> QED
        BY <1>0, <1>4, <2>2, <2>5, <3>1 DEF Continued
    <2>6. CASE c # b
      BY <1>1, <1>b, <2>1, <2>2, <2>3, <2>4, <2>6 DEF Continued
    <2> QED
      BY <2>2, <2>5, <2>6
  <1>7. inUse'[cur'[t].buf] = 1 => StackedIn(t, b)'
    BY <1>0, <1>1, <1>4, <1>b
  <1>8. StackedIn(t, b)' => StackedIn(t, cur[t].buf)'
    BY <1>1, <1>b DEF StackedIn
  <1> QED
    BY <1>1, <1>6, <1>8, <1>7 DEF LeftAt

\* reclaim_log: the log it counts is the oldest of its buffer.
LEMMA LeftReclaim ==
  ASSUME IInv, NEW t \in Thread, LeftAt(t), Reclaim(t)
  PROVE  LeftAt(t)'
  <1> DEFINE b == valLog[t].buf
  <1>0. /\ nrLogs \in [Buffer -> Nat] /\ nrReclaimed \in [Buffer -> Nat]
        /\ DOMAIN valPc = Thread /\ valLog[t] \in Log /\ b \in Buffer
        /\ inUse \in [Buffer -> {0, 1}]
    BY DEF Reclaim, IInv, TypeInv, TypeOK, HasLog, Log
  <1>1. /\ valPc'[t] = "inUse" /\ valPc[t] = "validate"
        /\ nrReclaimed' = [nrReclaimed EXCEPT ![b] = nrReclaimed[b] + 1]
        /\ UNCHANGED <<appPc, frames, cur, stack, queue, stop, valLog, nrLogs,
                       inUse, holder>>
    BY <1>0 DEF Reclaim, appVars, poolVars
  <1>2. \A i \in Slots(t) : /\ i \in Int
                            /\ i # 0 => i \in Slots(t)'
                            /\ LogAt(t, i)' = LogAt(t, i)
                            /\ Committed(t, i)' <=> Committed(t, i)
    BY <1>1 DEF Slots, LogAt, Committed
  <1>3. /\ 0 \in Slots(t) /\ LogAt(t, 0) = valLog[t] /\ Committed(t, 0)
        /\ \A i \in Slots(t) : i >= 0
    BY <1>1 DEF Slots, LogAt, Committed
  <1>4. \A i \in Slots(t) :
          i # 0 /\ Committed(t, i) /\ LogAt(t, i).buf = b
            => LogAt(t, i).idx > valLog[t].idx
    BY <1>2, <1>3, SlotFacts DEF IInv, CountInv
  <1>5. ASSUME NEW c \in Buffer, ~stop'[t], holder'[c] = t
        PROVE  Continued(t, c)' /\ NumberedIn(t, c)'
    <2>1. Continued(t, c) /\ NumberedIn(t, c)
      BY <1>1, <1>5 DEF LeftAt
    <2>2. StackedIn(t, c)' <=> StackedIn(t, c)
      BY <1>1 DEF StackedIn
    <2>3. c # b /\ HasLogIn(t, c) => HasLogIn(t, c)'
      <3>1. SUFFICES ASSUME c # b, HasLogIn(t, c) PROVE HasLogIn(t, c)'
        OBVIOUS
      <3>2. PICK i \in Slots(t) : LogAt(t, i).buf = c
        BY <3>1 DEF HasLogIn
      <3> QED
        BY <1>2, <1>3, <3>1, <3>2 DEF HasLogIn
    <2>4. Continued(t, c)'
      <3>1. CASE c = b
        <4>1. \/ StackedIn(t, c)
              \/ frames[t] # << >> /\ cur[t].buf = c
              \/ inUse[c] # 1
          BY <2>1 DEF Continued
        <4> QED
          BY <1>1, <2>2, <3>1, <4>1 DEF Continued
      <3>2. CASE c # b
        BY <1>1, <2>1, <2>2, <2>3, <3>2 DEF Continued
      <3> QED
        BY <3>1, <3>2
    <2>5. ASSUME NEW k \in (nrReclaimed[c] + 1 .. nrLogs[c])'
          PROVE  (\E i \in Slots(t) : /\ Committed(t, i)
                                      /\ LogAt(t, i).buf = c
                                      /\ LogAt(t, i).idx = k)'
      <3>1. /\ k \in nrReclaimed[c] + 1 .. nrLogs[c] /\ k \in Int
            /\ c = b => k > nrReclaimed[b] + 1
        BY <1>0, <1>1, <2>5
      <3>2. PICK i \in Slots(t) : /\ Committed(t, i) /\ LogAt(t, i).buf = c
                                  /\ LogAt(t, i).idx = k
        BY <2>1, <3>1 DEF NumberedIn
      <3>3. i # 0
        <4>1. SUFFICES ASSUME i = 0, c = b PROVE FALSE
          BY <1>3, <3>2
        <4>2. nrReclaimed[b] + 1 \in nrReclaimed[c] + 1 .. nrLogs[c]
          BY <1>0, <3>1, <4>1
        <4>3. PICK j \in Slots(t) : /\ Committed(t, j) /\ LogAt(t, j).buf = c
                                    /\ LogAt(t, j).idx = nrReclaimed[b] + 1
          BY <2>1, <4>2 DEF NumberedIn
        <4>4. j # 0 => LogAt(t, j).idx > k
          BY <1>3, <1>4, <3>2, <4>1, <4>3
        <4> QED
          BY <1>0, <3>1, <3>2, <4>1, <4>3, <4>4
      <3> QED
        BY <1>2, <3>2, <3>3
    <2> QED
      BY <2>4, <2>5 DEF NumberedIn
  <1>6. StackedIn(t, cur[t].buf)' <=> StackedIn(t, cur[t].buf)
    BY <1>1 DEF StackedIn
  <1> QED
    BY <1>1, <1>5, <1>6 DEF LeftAt

\* reclaim_log's test: if the counts differ, a log of the buffer is left.
LEMMA LeftReadNrLogs ==
  ASSUME IInv, NEW t \in Thread, LeftAt(t), ReadNrLogs(t)
  PROVE  LeftAt(t)'
  <1> DEFINE b == valLog[t].buf
  <1>0. /\ nrLogs \in [Buffer -> Nat] /\ nrReclaimed \in [Buffer -> Nat]
        /\ DOMAIN valPc = Thread /\ valLog[t] \in Log /\ b \in Buffer
        /\ inUse[b] = 0 /\ holder \in [Buffer -> Thread \cup {NoThread}]
        /\ nrReclaimed[b] <= nrLogs[b]
    BY DEF ReadNrLogs, IInv, TypeInv, TypeOK, HasLog, Log, HolderInv, HeadInv
  <1>1. /\ valPc'[t] = "check" /\ valPc[t] = "nrLogs"
        /\ UNCHANGED <<appPc, frames, cur, stack, queue, stop, valLog, nrLogs,
                       inUse, nrReclaimed>>
    BY <1>0 DEF ReadNrLogs, appVars, bufVars
  <1>2. Keeps(t, 0)
    BY <1>1, SameKeeps
  <1>3. ASSUME NEW c \in Buffer, ~stop'[t], holder'[c] = t
        PROVE  Continued(t, c)' /\ NumberedIn(t, c)'
    <2>1. /\ holder[c] = t
          /\ c = b => nrReclaimed[b] # nrLogs[b]
      BY <1>0, <1>3, Constants DEF ReadNrLogs
    <2>2. Continued(t, c) /\ NumberedIn(t, c)
      BY <1>1, <1>3, <2>1 DEF LeftAt
    <2>3. NumberedIn(t, c)' /\ (HasLogIn(t, c) => HasLogIn(t, c)')
      BY <1>1, <1>2, <2>2, KeepsLogs
    <2>4. c = b => HasLogIn(t, c)
      <3>1. SUFFICES ASSUME c = b PROVE HasLogIn(t, c)
        OBVIOUS
      <3>2. nrLogs[b] \in nrReclaimed[c] + 1 .. nrLogs[c]
        BY <1>0, <2>1, <3>1
      <3> QED
        BY <2>2, <3>2 DEF NumberedIn, HasLogIn
    <2>5. StackedIn(t, c)' <=> StackedIn(t, c)
      BY <1>1 DEF StackedIn
    <2>6. CASE c = b
      BY <1>0, <1>1, <2>3, <2>4, <2>6 DEF Continued
    <2>7. CASE c # b
      BY <1>1, <2>2, <2>3, <2>5, <2>7 DEF Continued
    <2> QED
      BY <2>3, <2>6, <2>7
  <1>4. StackedIn(t, cur[t].buf)' <=> StackedIn(t, cur[t].buf)
    BY <1>1 DEF StackedIn
  <1> QED
    BY <1>1, <1>3, <1>4 DEF LeftAt

\* At first no thread holds a buffer.
LEMMA LeftInit == Init => LeftInv
  BY Constants DEF Init, LeftInv, LeftAt

\* LeftInv is inductive, over IInv.
LEMMA LeftNext ==
  ASSUME IInv, LeftInv, MaxDepth = 1, [Next]_vars
  PROVE  LeftInv'
  <1>1. ASSUME NEW t \in Thread, App(t) \/ Validator(t)
        PROVE  LeftInv'
    <2>1. \A u \in Thread \ {t} : LeftAt(u)'
      BY <1>1, StepsAreLocal, LeftElsewhere
    <2>2. LeftAt(t)
      BY DEF LeftInv
    <2>3. LeftAt(t)'
      BY <1>1, <2>2, LeftMovingSteps, LeftNewLog, LeftCommitCount,
         LeftCommitPlace, LeftReclaim, LeftReadNrLogs
      DEF App, Validator, Commit
    <2> QED
      BY <2>1, <2>3 DEF LeftInv
  <1>2. CASE UNCHANGED vars
    BY <1>2
    DEF vars, appVars, valVars, bufVars, poolVars, LeftInv, LeftAt, Continued,
        NumberedIn, Committed, HasLogIn, StackedIn, Slots, LogAt
  <1> QED
    BY <1>1, <1>2 DEF Next

\* A held buffer comes back: one in use will be continued, an exhausted one
\* has a log to reclaim or is being examined, until its thread stops
\* validating (reclaim_log's reads of in_use and nr_logs against commit_log's
\* writes).
THEOREM NoBufferIsStranded ==
  ASSUME MaxDepth = 1
  PROVE  Spec => []NoBufferStranded
  <1>1. Init => IInv /\ LeftInv
    BY IInvInit, LeftInit
  <1>2. IInv /\ LeftInv /\ [Next]_vars => (IInv /\ LeftInv)'
    BY IInvNext, LeftNext
  <1>3. IInv /\ LeftInv => NoBufferStranded
    <2>1. SUFFICES ASSUME IInv, LeftInv, NEW b \in Buffer,
                          holder[b] # NoThread, ~stop[holder[b]]
          PROVE  Continued(holder[b], b)
      BY DEF NoBufferStranded, Continued
    <2>2. holder[b] \in Thread
      BY <2>1 DEF IInv, TypeInv, TypeOK
    <2> QED
      BY <2>1, <2>2 DEF LeftInv, LeftAt
  <1> QED
    BY <1>1, <1>2, <1>3, PTL DEF Spec

-----------------------------------------------------------------------------
(* The number of counted closures. *)

OutstandingInv == IsFiniteSet(Outstanding) /\ ClosuresCounted

\* A step adds a log of one thread, drops one, renames one, or ends the thread.
LEMMA OutstandingCounts ==
  ASSUME OutstandingInv, NEW t \in Thread,
         \A u \in Thread : appPc[u] = "exited" => appPc'[u] = "exited",
         closureCount \in Int,
         \A u \in Thread \ {t} : Slots(u)' = Slots(u),
         \/ Slots(t)' = Slots(t) /\ closureCount' = closureCount
         \/ \E x \in Slots(t) : \E y :
              /\ y \notin Slots(t)
              /\ Slots(t)' = (Slots(t) \ {x}) \cup {y}
              /\ closureCount' = closureCount
         \/ \E y : /\ y \notin Slots(t) /\ Slots(t)' = Slots(t) \cup {y}
                   /\ closureCount' = closureCount + 1
         \/ \E x \in Slots(t) : /\ Slots(t)' = Slots(t) \ {x}
                                /\ closureCount' = closureCount - 1
         \/ /\ Slots(t)' \subseteq Slots(t)
            /\ closureCount' = closureCount /\ appPc'[t] = "exited"
  PROVE  OutstandingInv'
  <1> DEFINE C == Cardinality(Outstanding)
  <1>0. \A u, i : <<u, i>> \in Outstanding <=> u \in Thread /\ i \in Slots(u)
    BY DEF Outstanding
  <1>1. /\ IsFiniteSet(Outstanding) /\ C \in Nat /\ closureCount >= C
        /\ (\A u \in Thread : appPc[u] # "exited") => closureCount = C
    BY FS_CardinalityType DEF OutstandingInv, ClosuresCounted
  <1>3. CASE Slots(t)' = Slots(t) /\ closureCount' = closureCount
    <2>1. Outstanding' = Outstanding
      BY <1>3 DEF Outstanding
    <2> QED
      BY <1>1, <1>3, <2>1 DEF OutstandingInv, ClosuresCounted
  <1>4. ASSUME NEW x \in Slots(t), NEW y, y \notin Slots(t),
               Slots(t)' = (Slots(t) \ {x}) \cup {y},
               closureCount' = closureCount
        PROVE  OutstandingInv'
    <2> DEFINE D == Outstanding \ {<<t, x>>}
    <2>1. Outstanding' = D \cup {<<t, y>>}
      <3>1. ASSUME NEW u \in Thread, NEW i
            PROVE  <<u, i>> \in Outstanding'
                     <=> <<u, i>> \in D \cup {<<t, y>>}
        <4>1. <<u, i>> \in Outstanding' <=> i \in Slots(u)'
          BY DEF Outstanding
        <4>2. CASE u = t
          BY <1>0, <1>4, <4>1, <4>2
        <4>3. CASE u # t
          BY <1>0, <4>1, <4>3
        <4> QED
          BY <4>2, <4>3
      <3>2. /\ \A p \in Outstanding' : p[1] \in Thread /\ p = <<p[1], p[2]>>
            /\ \A p \in Outstanding : p[1] \in Thread /\ p = <<p[1], p[2]>>
        BY DEF Outstanding
      <3> QED
        BY <3>1, <3>2
    <2>2. IsFiniteSet(D) /\ Cardinality(D) = C - 1
      BY <1>0, <1>1, FS_RemoveElement
    <2>3. <<t, y>> \notin D
      BY <1>0, <1>4
    <2> HIDE DEF D
    <2>4. IsFiniteSet(Outstanding') /\ Cardinality(Outstanding') = (C - 1) + 1
      BY <2>1, <2>2, <2>3, FS_AddElement
    <2> QED
      BY <1>1, <1>4, <2>4 DEF OutstandingInv, ClosuresCounted
  <1>5. ASSUME NEW y, y \notin Slots(t), Slots(t)' = Slots(t) \cup {y},
               closureCount' = closureCount + 1
        PROVE  OutstandingInv'
    <2>1. Outstanding' = Outstanding \cup {<<t, y>>}
      BY <1>5 DEF Outstanding
    <2>2. IsFiniteSet(Outstanding') /\ Cardinality(Outstanding') = C + 1
      BY <1>0, <1>1, <1>5, <2>1, FS_AddElement
    <2> QED
      BY <1>1, <1>5, <2>2 DEF OutstandingInv, ClosuresCounted
  <1>6. ASSUME NEW x \in Slots(t), Slots(t)' = Slots(t) \ {x},
               closureCount' = closureCount - 1
        PROVE  OutstandingInv'
    <2>1. Outstanding' = Outstanding \ {<<t, x>>}
      BY <1>6 DEF Outstanding
    <2>2. IsFiniteSet(Outstanding') /\ Cardinality(Outstanding') = C - 1
      BY <1>0, <1>1, <1>6, <2>1, FS_RemoveElement
    <2> QED
      BY <1>1, <1>6, <2>2 DEF OutstandingInv, ClosuresCounted
  <1>7. CASE /\ Slots(t)' \subseteq Slots(t)
             /\ closureCount' = closureCount /\ appPc'[t] = "exited"
    <2>1. Outstanding' \in SUBSET Outstanding
      BY <1>7 DEF Outstanding
    <2>2. /\ IsFiniteSet(Outstanding') /\ Cardinality(Outstanding') <= C
          /\ Cardinality(Outstanding') \in Nat
      BY <1>1, <2>1, FS_Subset, FS_CardinalityType
    <2> QED
      BY <1>1, <1>7, <2>2 DEF OutstandingInv, ClosuresCounted
  <1> QED
    BY <1>3, <1>4, <1>5, <1>6, <1>7

\* Where the slots of t do not change.
LEMMA SameOutstanding ==
  ASSUME IInv, NEW t \in Thread, LeftAt(t),
         \/ Register(t) \/ CommitTooLong(t) \/ CommitCount(t)
         \/ CommitPlace(t) \/ Enqueue(t) \/ Unregister(t) \/ CheckStop(t)
         \/ DequeueNothing(t) \/ ReadInUse(t) \/ ReadNrLogs(t)
  PROVE  Slots(t)' = Slots(t) /\ closureCount' = closureCount
  <1>0. /\ DOMAIN valPc = Thread /\ DOMAIN frames = Thread
        /\ DOMAIN queue = Thread /\ queue[t] \in Seq(Log)
        /\ frames[t] \in Seq(Addr)
    BY DEF IInv, TypeInv, TypeOK
  <1>1. CASE Enqueue(t)
    <2>1. /\ queue'[t] = Append(queue[t], cur[t]) /\ cur[t] \in Log
          /\ valPc'[t] = valPc[t] /\ closureCount' = closureCount
          /\ appPc[t] = "enqueue"
      BY <1>0, <1>1 DEF Enqueue, valVars, IInv, TypeInv, HasLog
    <2>2. Len(queue'[t]) = Len(queue[t]) + 1 /\ Len(queue[t]) \in Nat
      BY <1>0, <2>1
    <2>3. frames'[t] = << >> /\ frames[t] # << >>
      BY <1>1, <2>1, EnqueueSlots DEF IInv, TypeInv, HasLog
    <2> QED
      BY <2>1, <2>2, <2>3 DEF Slots
  <1>2. CASE ~Enqueue(t)
    <2>1. /\ frames'[t] = frames[t] /\ queue'[t] = queue[t]
          /\ closureCount' = closureCount
          /\ valPc'[t] = "validate" <=> valPc[t] = "validate"
      BY <1>0, <1>2
      DEF Register, CommitTooLong, CommitCount, CommitPlace, Unregister,
          CheckStop, DequeueNothing, ReadInUse, ReadNrLogs, appVars, valVars,
          LeftAt
    <2> QED
      BY <2>1 DEF Slots
  <1> QED
    BY <1>1, <1>2

\* log_dequeue: the validator's slot fills, the last one of the queue goes.
LEMMA DequeueOutstanding ==
  ASSUME IInv, NEW t \in Thread, Dequeue(t)
  PROVE  \E x \in Slots(t) : \E y :
           /\ y \notin Slots(t) /\ Slots(t)' = (Slots(t) \ {x}) \cup {y}
           /\ closureCount' = closureCount
  <1>n. PICK n : n = Len(queue[t])
    OBVIOUS
  <1>1. /\ queue[t] \in Seq(Log) /\ queue[t] # << >> /\ n \in Nat \ {0}
        /\ queue'[t] = Tail(queue[t]) /\ frames'[t] = frames[t]
        /\ valPc'[t] = "validate" /\ valPc[t] = "dequeue"
        /\ closureCount' = closureCount
    BY <1>n DEF Dequeue, appVars, IInv, TypeInv, TypeOK
  <1>2. Len(queue'[t]) = n - 1
    BY <1>1, <1>n
  <1>3. \A i : i \in Slots(t) <=> /\ i \in 1 .. n + 1
                                  /\ i = n + 1 => frames[t] # << >>
    BY <1>1, <1>n DEF Slots
  <1>4. \A i : i \in Slots(t)' <=> /\ i \in 0 .. n
                                   /\ i = n => frames[t] # << >>
    BY <1>1, <1>2 DEF Slots
  <1>5. CASE frames[t] # << >>
    <2>1. n + 1 \in Slots(t) /\ 0 \notin Slots(t)
      BY <1>1, <1>3, <1>5
    <2>2. Slots(t)' = (Slots(t) \ {n + 1}) \cup {0}
      BY <1>1, <1>3, <1>4, <1>5
    <2> QED
      BY <1>1, <2>1, <2>2
  <1>6. CASE frames[t] = << >>
    <2>1. n \in Slots(t) /\ 0 \notin Slots(t)
      BY <1>1, <1>3, <1>6
    <2>2. Slots(t)' = (Slots(t) \ {n}) \cup {0}
      BY <1>1, <1>3, <1>4, <1>6
    <2> QED
      BY <1>1, <2>1, <2>2
  <1> QED
    BY <1>5, <1>6

\* Every step does one of these: new_log adds a log and counts it, reclaim_log
\* drops one and counts it out, join drops what is left in the queue.
LEMMA OutstandingNext ==
  ASSUME IInv, LeftInv, OutstandingInv, MaxDepth = 1, [Next]_vars
  PROVE  OutstandingInv'
  <1>0. closureCount \in Int
    BY DEF IInv, TypeInv, TypeOK
  <1>1. ASSUME NEW t \in Thread, App(t) \/ Validator(t)
        PROVE  OutstandingInv'
    <2>1. \A u \in Thread \ {t} : Slots(u)' = Slots(u)
      BY <1>1, StepsAreLocal DEF LocalTo, Slots
    <2>2. ASSUME NEW u \in Thread, appPc[u] = "exited"
          PROVE  appPc'[u] = "exited"
      <3>1. CASE u # t
        BY <1>1, <2>2, <3>1, StepsAreLocal DEF LocalTo
      <3>2. CASE u = t
        <4>1. ~App(t)
          <5>1. frames[t] = << >>
            BY <2>2, <3>2 DEF IInv, PcInv
          <5> QED
            BY <2>2, <3>2
            DEF App, Register, NewLog, NewLogSameBuffer, NewLogFreeBuffer,
                NewLogFreshBuffer, TakeBuffer, CanStart, CommitTooLong,
                Commit, CommitCount, CommitPlace, Enqueue, Unregister, Join
        <4>2. appPc' = appPc
          BY <1>1, <4>1
          DEF Validator, CheckStop, DequeueNothing, Dequeue, Reclaim,
              ReadInUse, ReadNrLogs, appVars
        <4> QED
          BY <2>2, <4>2
      <3> QED
        BY <3>1, <3>2
    <2>3. CASE \/ Register(t) \/ CommitTooLong(t) \/ CommitCount(t)
               \/ CommitPlace(t) \/ Enqueue(t) \/ Unregister(t)
               \/ CheckStop(t) \/ DequeueNothing(t) \/ ReadInUse(t)
               \/ ReadNrLogs(t)
      <3>1. Slots(t)' = Slots(t) /\ closureCount' = closureCount
        BY <2>3, SameOutstanding DEF LeftInv
      <3> QED
        BY <1>0, <2>1, <2>2, <3>1, OutstandingCounts
    <2>4. CASE Dequeue(t)
      BY <1>0, <2>1, <2>2, <2>4, DequeueOutstanding, OutstandingCounts
    <2>5. CASE NewLog(t)
      <3>n. PICK n : n = Len(queue[t]) + 1
        OBVIOUS
      <3>1. PICK a : StartLog(t, a)
        BY <2>5 DEF NewLog, NewLogSameBuffer, NewLogFreeBuffer,
                    NewLogFreshBuffer, TakeBuffer
      <3>2. frames[t] \in Seq(Addr) /\ Len(frames[t]) < 1
        BY <2>5 DEF NewLog, NewLogSameBuffer, NewLogFreeBuffer,
                    NewLogFreshBuffer, TakeBuffer, CanStart, IInv, TypeInv,
                    TypeOK
      <3>3. /\ queue'[t] = queue[t] /\ valPc'[t] = valPc[t]
            /\ frames'[t] = Append(frames[t], a)
            /\ closureCount' = closureCount + 1
        BY <3>1 DEF StartLog, valVars, IInv, TypeInv, TypeOK
      <3>4. frames[t] = << >> /\ frames'[t] # << >> /\ n \in Nat \ {0}
        <4>1. Len(queue[t]) \in Nat
          BY DEF IInv, TypeInv, TypeOK
        <4>2. frames[t] = << >>
          BY <3>2
        <4>3. Append(frames[t], a) # << >>
          BY <4>2
        <4> QED
          BY <3>3, <3>n, <4>1, <4>2, <4>3
      <3>5. n \notin Slots(t) /\ Slots(t)' = Slots(t) \cup {n}
        BY <3>3, <3>4, <3>n DEF Slots
      <3> QED
        BY <1>0, <2>1, <2>2, <3>3, <3>5, OutstandingCounts
    <2>6. CASE Reclaim(t)
      <3>1. /\ queue'[t] = queue[t] /\ frames'[t] = frames[t]
            /\ valPc[t] = "validate" /\ valPc'[t] = "inUse"
            /\ closureCount' = closureCount - 1
        BY <2>6 DEF Reclaim, appVars, IInv, TypeInv, TypeOK
      <3>2. 0 \in Slots(t) /\ Slots(t)' = Slots(t) \ {0}
        BY <3>1 DEF Slots, IInv, TypeInv, TypeOK
      <3> QED
        BY <1>0, <2>1, <2>2, <3>1, <3>2, OutstandingCounts
    <2>7. CASE Join(t)
      <3>1. /\ queue'[t] = << >> /\ frames'[t] = frames[t]
            /\ valPc'[t] = "exited" /\ appPc[t] = "join"
            /\ appPc'[t] = "exited" /\ closureCount' = closureCount
        BY <2>7 DEF Join, valVars, IInv, TypeInv, TypeOK
      <3>2. frames[t] = << >> /\ Len(queue'[t]) = 0
        BY <3>1 DEF IInv, PcInv
      <3>3. Slots(t)' \subseteq Slots(t)
        BY <3>1, <3>2 DEF Slots
      <3> QED
        BY <1>0, <2>1, <2>2, <3>1, <3>3, OutstandingCounts
    <2> QED
      BY <1>1, <2>3, <2>4, <2>5, <2>6, <2>7 DEF App, Validator, Commit
  <1>2. CASE UNCHANGED vars
    <2>1. Outstanding' = Outstanding
      BY <1>2 DEF Outstanding, Slots, vars, appVars, valVars
    <2> QED
      BY <1>2, <2>1 DEF OutstandingInv, ClosuresCounted, vars, appVars
  <1> QED
    BY <1>1, <1>2 DEF Next

\* A closure stays counted from new_log until reclaim_log has counted its log,
\* exactly until a thread ends with logs left in its queue, and those stay
\* counted (closure_start_log, between run2 and the validator threads).
THEOREM ClosuresStayCounted ==
  ASSUME MaxDepth = 1
  PROVE  Spec => []ClosuresCounted
  <1>1. Init => IInv /\ LeftInv /\ OutstandingInv
    <2>1. SUFFICES ASSUME Init PROVE OutstandingInv
      BY IInvInit, LeftInit
    <2>2. \A t \in Thread : /\ Len(queue[t]) = 0 /\ frames[t] = << >>
                            /\ valPc[t] = "off"
      BY <2>1 DEF Init
    <2>3. Outstanding = {}
      BY <2>2 DEF Outstanding, Slots
    <2> QED
      BY <2>1, <2>3, FS_EmptySet DEF Init, OutstandingInv, ClosuresCounted
  <1>2. IInv /\ LeftInv /\ OutstandingInv /\ [Next]_vars
          => (IInv /\ LeftInv /\ OutstandingInv)'
    BY IInvNext, LeftNext, OutstandingNext
  <1>3. OutstandingInv => ClosuresCounted
    BY DEF OutstandingInv
  <1> QED
    BY <1>1, <1>2, <1>3, PTL DEF Spec

-----------------------------------------------------------------------------
(***************************************************************************)
(* LogPipeline implements LogStore.  The logs in flight are numbered from  *)
(* 1; slot 0 is the validator's, so the i-th log in flight is in slot      *)
(* i - 1 while the validator replays one, and in slot i otherwise.         *)
(***************************************************************************)

ValSlot(t) == IF valPc[t] = "validate" THEN 1 ELSE 0
AppSlot(t) == IF frames[t] # << >> THEN 1 ELSE 0
NrInFlight(t) == ValSlot(t) + Len(queue[t]) + AppSlot(t)

\* What is in flight, by its slots.
LEMMA InFlightSlots ==
  ASSUME IInv, NEW t \in Thread
  PROVE  /\ InFlight(t) \in Seq(Log)
         /\ NrInFlight(t) \in Nat
         /\ Len(InFlight(t)) = NrInFlight(t)
         /\ \A i \in 1 .. NrInFlight(t) :
              /\ i - ValSlot(t) \in Slots(t)
              /\ InFlight(t)[i] = LogAt(t, i - ValSlot(t))
  <1> DEFINE v == IF valPc[t] = "validate" THEN <<valLog[t]>> ELSE << >>
  <1> DEFINE a == IF frames[t] # << >> THEN <<cur[t]>> ELSE << >>
  <1> DEFINE q == queue[t]
  <1> DEFINE n == Len(q)
  <1>1. /\ q \in Seq(Log) /\ n \in Nat
        /\ valPc[t] = "validate" => valLog[t] \in Log
        /\ frames[t] # << >> => cur[t] \in Log
    BY DEF IInv, TypeInv, TypeOK, HasLog
  <1>2. v \in Seq(Log) /\ Len(v) = ValSlot(t) /\ ValSlot(t) \in {0, 1}
    BY <1>1 DEF ValSlot
  <1>3. a \in Seq(Log) /\ Len(a) = AppSlot(t) /\ AppSlot(t) \in {0, 1}
    BY <1>1 DEF AppSlot
  <1>4. /\ valPc[t] = "validate" => v[1] = valLog[t]
        /\ frames[t] # << >> => a[1] = cur[t]
    OBVIOUS
  <1>5. InFlight(t) = (v \o q) \o a
    BY DEF InFlight
  <1> HIDE DEF v, a, q
  <1>6. /\ v \o q \in Seq(Log) /\ Len(v \o q) = Len(v) + n
        /\ \A i \in 1 .. Len(v) + n :
             (v \o q)[i] = IF i <= Len(v) THEN v[i] ELSE q[i - Len(v)]
    BY <1>1, <1>2, ConcatProperties
  <1> DEFINE w == v \o q
  <1> HIDE DEF w
  <1>7. /\ w \o a \in Seq(Log) /\ Len(w \o a) = Len(w) + Len(a)
        /\ \A i \in 1 .. Len(w) + Len(a) :
             (w \o a)[i] = IF i <= Len(w) THEN w[i] ELSE a[i - Len(w)]
    BY <1>3, <1>6, ConcatProperties DEF w
  <1>8. NrInFlight(t) \in Nat /\ Len(w) + Len(a) = NrInFlight(t)
    BY <1>1, <1>2, <1>3, <1>6 DEF NrInFlight, w, q
  <1>9. ASSUME NEW i \in 1 .. NrInFlight(t)
        PROVE  /\ i - ValSlot(t) \in Slots(t)
               /\ InFlight(t)[i] = LogAt(t, i - ValSlot(t))
    <2>1. i - ValSlot(t) \in 0 .. n + 1
      BY <1>1, <1>2, <1>3 DEF NrInFlight, q
    <2>2. i - ValSlot(t) \in Slots(t)
      <3>1. i - ValSlot(t) = 0 => valPc[t] = "validate"
        BY <1>2 DEF ValSlot
      <3>2. i - ValSlot(t) = n + 1 => frames[t] # << >>
        <4>1. i - ValSlot(t) = n + 1 => AppSlot(t) = 1
          BY <1>1, <1>2, <1>3 DEF NrInFlight, q
        <4> QED
          BY <4>1 DEF AppSlot
      <3> QED
        BY <2>1, <3>1, <3>2 DEF Slots, q
    <2>3. InFlight(t)[i] = IF i <= ValSlot(t) THEN v[i]
                           ELSE IF i <= ValSlot(t) + n THEN q[i - ValSlot(t)]
                           ELSE a[i - (ValSlot(t) + n)]
      <3>1. InFlight(t)[i] = IF i <= Len(w) THEN w[i] ELSE a[i - Len(w)]
        BY <1>5, <1>7, <1>8 DEF w
      <3>2. Len(w) = ValSlot(t) + n
        BY <1>2, <1>6 DEF w
      <3>3. i <= ValSlot(t) + n
              => w[i] = IF i <= ValSlot(t) THEN v[i] ELSE q[i - ValSlot(t)]
        BY <1>1, <1>2, <1>6 DEF w
      <3> QED
        BY <1>1, <1>2, <3>1, <3>2, <3>3
    <2>4. CASE i <= ValSlot(t)
      <3>1. valPc[t] = "validate" /\ i = 1 /\ i - ValSlot(t) = 0
        BY <1>2, <2>4 DEF ValSlot
      <3> QED
        BY <1>4, <2>2, <2>3, <2>4, <3>1 DEF LogAt
    <2>5. CASE ~(i <= ValSlot(t)) /\ i <= ValSlot(t) + n
      <3>1. InFlight(t)[i] = q[i - ValSlot(t)]
        BY <2>3, <2>5
      <3>2. i - ValSlot(t) # 0 /\ i - ValSlot(t) <= n
        BY <1>1, <1>2, <2>5
      <3> QED
        BY <2>2, <3>1, <3>2 DEF LogAt, q
    <2>6. CASE ~(i <= ValSlot(t)) /\ ~(i <= ValSlot(t) + n)
      <3>1. AppSlot(t) = 1 /\ i = ValSlot(t) + n + 1
        BY <1>1, <1>2, <1>3, <2>6 DEF NrInFlight, q
      <3>2. InFlight(t)[i] = cur[t]
        BY <1>1, <1>2, <1>4, <2>3, <2>6, <3>1 DEF AppSlot
      <3>3. LogAt(t, i - ValSlot(t)) = cur[t]
        BY <1>1, <1>2, <3>1 DEF LogAt, q
      <3> QED
        BY <2>2, <3>2, <3>3
    <2> QED
      BY <2>2, <2>4, <2>5, <2>6
  <1> QED
    BY <1>5, <1>7, <1>8, <1>9 DEF w

\* The rooms of a thread, by its slots.
LEMMA LiveSlots ==
  ASSUME IInv, NEW t \in Thread
  PROVE  /\ NrInFlight(t) \in Nat
         /\ liveMapped[t] \in Seq({Room(l) : l \in Log})
         /\ DOMAIN liveMapped[t] = 1 .. NrInFlight(t)
         /\ Len(liveMapped[t]) = NrInFlight(t)
         /\ \A i \in 1 .. NrInFlight(t) :
              /\ i - ValSlot(t) \in Slots(t)
              /\ liveMapped[t][i] = Room(LogAt(t, i - ValSlot(t)))
  <1>1. /\ InFlight(t) \in Seq(Log) /\ NrInFlight(t) \in Nat
        /\ Len(InFlight(t)) = NrInFlight(t)
        /\ \A i \in 1 .. NrInFlight(t) :
             /\ i - ValSlot(t) \in Slots(t)
             /\ InFlight(t)[i] = LogAt(t, i - ValSlot(t))
    BY InFlightSlots
  <1>2. DOMAIN InFlight(t) = 1 .. NrInFlight(t)
    BY <1>1
  <1>3. liveMapped[t] = [i \in 1 .. NrInFlight(t) |-> Room(InFlight(t)[i])]
    BY <1>2 DEF liveMapped
  <1>4. \A i \in 1 .. NrInFlight(t) : InFlight(t)[i] \in Log
    BY <1>1
  <1>5. \A i \in 1 .. NrInFlight(t) :
          Room(InFlight(t)[i]) \in {Room(l) : l \in Log}
    BY <1>4
  <1>6. liveMapped[t] \in Seq({Room(l) : l \in Log})
    BY <1>1, <1>3, <1>5
  <1> QED
    BY <1>1, <1>3, <1>6

-----------------------------------------------------------------------------
(* Steps the store does not see. *)

\* Logs that only move to another slot are in flight as before.
LEMMA SameLive ==
  ASSUME IInv, IInv', NEW t \in Thread, NEW d \in {0, 1}, Shrunk(t, d),
         ValSlot(t)' = ValSlot(t) + d, NrInFlight(t)' = NrInFlight(t)
  PROVE  liveMapped'[t] = liveMapped[t]
  <1>1. /\ liveMapped[t] \in Seq({Room(l) : l \in Log})
        /\ NrInFlight(t) \in Nat /\ Len(liveMapped[t]) = NrInFlight(t)
        /\ \A i \in 1 .. NrInFlight(t) :
             liveMapped[t][i] = Room(LogAt(t, i - ValSlot(t)))
    BY LiveSlots
  <1>2. /\ liveMapped'[t] \in Seq({Room(l) : l \in Log})
        /\ Len(liveMapped'[t]) = NrInFlight(t)
        /\ \A i \in 1 .. NrInFlight(t) :
             /\ (i - ValSlot(t) \in Slots(t))'
             /\ liveMapped'[t][i] = Room(LogAt(t, i - ValSlot(t)))'
    <2>1. /\ (liveMapped[t] \in Seq({Room(l) : l \in Log}))'
          /\ (Len(liveMapped[t]) = NrInFlight(t))'
          /\ (\A i \in 1 .. NrInFlight(t) :
                /\ i - ValSlot(t) \in Slots(t)
                /\ liveMapped[t][i] = Room(LogAt(t, i - ValSlot(t))))'
      BY LiveSlots, PTL
    <2> QED
      BY <2>1 DEF Room, EndOf
  <1>3. ASSUME NEW i \in 1 .. NrInFlight(t)
        PROVE  liveMapped'[t][i] = liveMapped[t][i]
    <2>1. PICK j : j = i - ValSlot(t)'
      OBVIOUS
    <2>2. j + d = i - ValSlot(t) /\ j = (i - ValSlot(t))'
      <3>1. ValSlot(t) \in {0, 1}
        BY DEF ValSlot
      <3> QED
        BY <1>1, <2>1, <3>1
    <2>3. j \in Slots(t)' /\ liveMapped'[t][i] = Room(LogAt(t, j))'
      BY <1>2, <2>1, <2>2
    <2>4. LogAt(t, j)' = LogAt(t, j + d)
      BY <2>3 DEF Shrunk
    <2>5. Room(LogAt(t, j))' = Room(LogAt(t, j + d))
      BY <2>4 DEF Room, EndOf
    <2> QED
      BY <1>1, <2>2, <2>3, <2>5
  <1> QED
    BY <1>1, <1>2, <1>3

\* The threads a step does not touch.
LEMMA ElsewhereLive ==
  ASSUME NEW t \in Thread, LocalTo(t), NEW u \in Thread \ {t}
  PROVE  liveMapped'[u] = liveMapped[u] /\ openMapped'[u] = openMapped[u]
  <1>1. /\ frames'[u] = frames[u] /\ cur'[u] = cur[u]
        /\ queue'[u] = queue[u] /\ valPc'[u] = valPc[u]
        /\ valLog'[u] = valLog[u]
    BY DEF LocalTo
  <1>2. InFlight(u)' = InFlight(u)
    BY <1>1 DEF InFlight
  <1>3. \A i : Room(InFlight(u)[i])' = Room(InFlight(u)[i])
    BY <1>2 DEF Room, EndOf
  <1> QED
    BY <1>1, <1>2, <1>3 DEF liveMapped, openMapped

\* A thread has ended when it was joined, and stays so.
LEMMA EndedMapped ==
  ASSUME IInv, NEW t \in Thread, App(t) \/ Validator(t)
  PROVE  /\ Join(t) => /\ ~endedMapped[t]
                      /\ endedMapped' = [endedMapped EXCEPT ![t] = TRUE]
         /\ ~Join(t) => endedMapped' = endedMapped
         /\ NewLog(t) => ~endedMapped[t]
  <1>1. DOMAIN appPc = Thread
    BY DEF IInv, TypeInv, TypeOK
  <1>2. CASE Join(t)
    <2>1. appPc[t] = "join" /\ appPc' = [appPc EXCEPT ![t] = "exited"]
      BY <1>2 DEF Join
    <2>2. ~NewLog(t)
      BY <2>1 DEF NewLog, NewLogSameBuffer, NewLogFreeBuffer,
                  NewLogFreshBuffer, TakeBuffer, CanStart
    <2> QED
      BY <1>1, <1>2, <2>1, <2>2 DEF endedMapped
  <1>3. CASE ~Join(t)
    <2>1. CASE NewLog(t)
      <3>1. appPc[t] = "app" /\ appPc' = appPc
        BY <2>1 DEF NewLog, NewLogSameBuffer, NewLogFreeBuffer,
                    NewLogFreshBuffer, TakeBuffer, CanStart, StartLog
      <3> QED
        BY <1>3, <3>1 DEF endedMapped
    <2>2. CASE Validator(t)
      <3>1. appPc' = appPc
        BY <2>2 DEF Validator, CheckStop, DequeueNothing, Dequeue, Reclaim,
                    ReadInUse, ReadNrLogs, appVars
      <3>2. CASE NewLog(t)
        BY <2>1, <3>2
      <3> QED
        BY <1>3, <3>1, <2>1 DEF endedMapped
    <2>3. CASE App(t) /\ ~NewLog(t)
      <3>1. \/ appPc' = appPc
            \/ \E pc : /\ appPc[t] # "exited" /\ pc # "exited"
                      /\ appPc' = [appPc EXCEPT ![t] = pc]
        <4>1. CASE CommitTooLong(t)
          BY <4>1 DEF CommitTooLong, appVars
        <4>2. CASE Register(t)
          <5>1. appPc[t] = "unborn" /\ appPc' = [appPc EXCEPT ![t] = "app"]
            BY <4>2 DEF Register
          <5> QED
            BY <5>1
        <4>3. CASE CommitCount(t)
          <5>1. appPc[t] = "app" /\ appPc' = [appPc EXCEPT ![t] = "place"]
            BY <4>3 DEF CommitCount
          <5> QED
            BY <5>1
        <4>4. CASE CommitPlace(t)
          <5>1. appPc[t] = "place" /\ appPc' = [appPc EXCEPT ![t] = "enqueue"]
            BY <4>4 DEF CommitPlace
          <5> QED
            BY <5>1
        <4>5. CASE Enqueue(t)
          <5>1. appPc[t] = "enqueue" /\ appPc' = [appPc EXCEPT ![t] = "app"]
            BY <4>5 DEF Enqueue
          <5> QED
            BY <5>1
        <4>6. CASE Unregister(t)
          <5>1. appPc[t] = "app" /\ appPc' = [appPc EXCEPT ![t] = "join"]
            BY <4>6 DEF Unregister
          <5> QED
            BY <5>1
        <4> QED
          BY <1>3, <2>3, <4>1, <4>2, <4>3, <4>4, <4>5, <4>6 DEF App, Commit
      <3> QED
        BY <1>1, <1>3, <2>3, <3>1 DEF endedMapped
    <2> QED
      BY <2>1, <2>2, <2>3
  <1> QED
    BY <1>2, <1>3

\* The store's state is that of its threads.
LEMMA MappedEqual ==
  ASSUME \A u \in Thread : /\ liveMapped'[u] = liveMapped[u]
                           /\ openMapped'[u] = openMapped[u],
         UNCHANGED endedMapped
  PROVE  UNCHANGED Store!lsVars
  <1>1. liveMapped' = liveMapped
    BY DEF liveMapped
  <1>2. openMapped' = openMapped
    BY DEF openMapped
  <1> QED
    BY <1>1, <1>2 DEF Store!lsVars

\* Enqueueing, dequeueing and placing move logs along; so does a step that
\* changes neither queue nor frames.
LEMMA StutterSteps ==
  ASSUME IInv, IInv', NEW t \in Thread, LeftAt(t),
         \/ Register(t) \/ CommitTooLong(t) \/ CommitPlace(t) \/ Enqueue(t)
         \/ Unregister(t) \/ CheckStop(t) \/ DequeueNothing(t) \/ Dequeue(t)
         \/ ReadInUse(t) \/ ReadNrLogs(t)
  PROVE  liveMapped'[t] = liveMapped[t] /\ openMapped'[t] = openMapped[t]
  <1>0. /\ DOMAIN valPc = Thread /\ DOMAIN frames = Thread
        /\ DOMAIN queue = Thread /\ queue[t] \in Seq(Log)
        /\ DOMAIN valLog = Thread /\ DOMAIN appPc = Thread
    BY DEF IInv, TypeInv, TypeOK
  <1>1. CASE Enqueue(t)
    <2>1. Shrunk(t, 0) /\ frames'[t] = << >>
      BY <1>1, EnqueueSlots
    <2>2. /\ queue'[t] = Append(queue[t], cur[t]) /\ cur[t] \in Log
          /\ frames[t] # << >> /\ valPc'[t] = valPc[t]
          /\ appPc[t] = "enqueue"
      BY <1>0, <1>1 DEF Enqueue, valVars, IInv, TypeInv, HasLog
    <2>3. Len(queue'[t]) = Len(queue[t]) + 1 /\ Len(queue[t]) \in Nat
      BY <1>0, <2>2
    <2>4. ValSlot(t)' = ValSlot(t) + 0 /\ ValSlot(t) \in {0, 1}
      BY <2>2 DEF ValSlot
    <2>5. NrInFlight(t)' = NrInFlight(t)
      BY <2>1, <2>2, <2>3, <2>4 DEF NrInFlight, AppSlot
    <2>6. liveMapped'[t] = liveMapped[t]
      BY <2>1, <2>4, <2>5, SameLive
    <2>7. cur[t].len # 0
      <3>1. PICK i : i = Len(queue[t]) + 1
        OBVIOUS
      <3>2. i \in Slots(t) /\ LogAt(t, i) = cur[t] /\ Committed(t, i)
        BY <2>2, <2>3, <3>1 DEF Slots, LogAt, Committed
      <3> QED
        BY <3>2, Constants DEF IInv, RoomInv
    <2> QED
      BY <2>1, <2>2, <2>6, <2>7 DEF openMapped
  <1>2. CASE Dequeue(t)
    <2>1. Shrunk(t, 1)
      BY <1>2, DequeueSlots
    <2>2. /\ queue'[t] = Tail(queue[t]) /\ queue[t] # << >>
          /\ frames'[t] = frames[t] /\ cur'[t] = cur[t]
          /\ valPc'[t] = "validate" /\ valPc[t] = "dequeue"
      BY <1>0, <1>2 DEF Dequeue, appVars
    <2>3. Len(queue'[t]) = Len(queue[t]) - 1 /\ Len(queue[t]) \in Nat
      BY <1>0, <2>2
    <2>4. ValSlot(t)' = ValSlot(t) + 1 /\ ValSlot(t) = 0
      BY <2>2 DEF ValSlot
    <2>5. AppSlot(t)' = AppSlot(t) /\ AppSlot(t) \in {0, 1}
      BY <2>2 DEF AppSlot
    <2>6. NrInFlight(t)' = NrInFlight(t)
      BY <2>3, <2>4, <2>5 DEF NrInFlight
    <2> QED
      BY <2>1, <2>2, <2>4, <2>6, SameLive DEF openMapped
  <1>3. CASE ~Enqueue(t) /\ ~Dequeue(t)
    <2>1. /\ frames'[t] = frames[t] /\ queue'[t] = queue[t]
          /\ cur'[t] = cur[t] /\ valLog'[t] = valLog[t]
          /\ valPc'[t] = "validate" <=> valPc[t] = "validate"
      BY <1>0, <1>3
      DEF Register, CommitTooLong, CommitPlace, Unregister, CheckStop,
          DequeueNothing, ReadInUse, ReadNrLogs, appVars, valVars, LeftAt
    <2>2. InFlight(t)' = InFlight(t)
      BY <2>1 DEF InFlight
    <2>3. \A i : Room(InFlight(t)[i])' = Room(InFlight(t)[i])
      BY <2>2 DEF Room, EndOf
    <2> QED
      BY <2>1, <2>2, <2>3 DEF liveMapped, openMapped
  <1> QED
    BY <1>1, <1>2, <1>3

-----------------------------------------------------------------------------
(* Steps of the store. *)

\* reclaim_log counts the oldest log.
LEMMA ReclaimValidates ==
  ASSUME IInv, IInv', NEW t \in Thread, Reclaim(t), LocalTo(t)
  PROVE  Store!Validated(t)
  <1>1. /\ valPc[t] = "validate" /\ valPc'[t] = "inUse"
        /\ queue'[t] = queue[t] /\ frames'[t] = frames[t]
        /\ cur'[t] = cur[t]
    BY DEF Reclaim, appVars, IInv, TypeInv, TypeOK
  <1>3. /\ NrInFlight(t)' = NrInFlight(t) - 1
        /\ ValSlot(t) = 1 /\ ValSlot(t)' = 0
        /\ AppSlot(t) \in {0, 1} /\ Len(queue[t]) \in Nat
        /\ NrInFlight(t) = 1 + Len(queue[t]) + AppSlot(t)
    BY <1>1 DEF NrInFlight, ValSlot, AppSlot, IInv, TypeInv, TypeOK
  <1>4. /\ liveMapped[t] \in Seq({Room(l) : l \in Log})
        /\ NrInFlight(t) \in Nat /\ Len(liveMapped[t]) = NrInFlight(t)
        /\ \A i \in 1 .. NrInFlight(t) :
             liveMapped[t][i] = Room(LogAt(t, i - 1))
    BY <1>3, LiveSlots
  <1>5. /\ liveMapped'[t] \in Seq({Room(l) : l \in Log})
        /\ Len(liveMapped'[t]) = NrInFlight(t) - 1
        /\ \A i \in 1 .. NrInFlight(t) - 1 :
             liveMapped'[t][i] = Room(LogAt(t, i))'
    <2>1. /\ (liveMapped[t] \in Seq({Room(l) : l \in Log}))'
          /\ (Len(liveMapped[t]) = NrInFlight(t))'
          /\ (\A i \in 1 .. NrInFlight(t) :
                /\ i - ValSlot(t) \in Slots(t)
                /\ liveMapped[t][i] = Room(LogAt(t, i - ValSlot(t))))'
      BY LiveSlots, PTL
    <2>2. NrInFlight(t)' = NrInFlight(t) - 1 /\ ValSlot(t)' = 0
      BY <1>3
    <2>3. ASSUME NEW i \in 1 .. NrInFlight(t) - 1
          PROVE  liveMapped'[t][i] = Room(LogAt(t, i))'
      <3>1. i = (i - ValSlot(t))'
        BY <2>2
      <3> QED
        BY <2>1, <2>2, <3>1
    <2>4. liveMapped'[t] \in Seq({Room(l) : l \in Log})
      BY <2>1 DEF Room, EndOf
    <2> QED
      BY <2>1, <2>2, <2>3, <2>4
  <1>6. \A i \in 1 .. NrInFlight(t) - 1 :
          liveMapped'[t][i] = liveMapped[t][i + 1]
    <2>1. SUFFICES ASSUME NEW i \in 1 .. NrInFlight(t) - 1
          PROVE  liveMapped'[t][i] = liveMapped[t][i + 1]
      OBVIOUS
    <2>2. i + 1 \in 1 .. NrInFlight(t) /\ (i + 1) - 1 = i
      BY <1>4
    <2>3. LogAt(t, i)' = LogAt(t, i)
      BY <1>1 DEF LogAt
    <2> QED
      BY <1>4, <1>5, <2>2, <2>3 DEF Room, EndOf
  <1>7. liveMapped[t] # << >> /\ liveMapped'[t] = Tail(liveMapped[t])
    <2>1. Len(liveMapped[t]) # 0
      BY <1>3, <1>4
    <2>2. Tail(liveMapped[t]) \in Seq({Room(l) : l \in Log})
      BY <1>4, <2>1
    <2>3. /\ Len(Tail(liveMapped[t])) = NrInFlight(t) - 1
          /\ \A i \in 1 .. NrInFlight(t) - 1 :
               Tail(liveMapped[t])[i] = liveMapped[t][i + 1]
      BY <1>4, <2>1
    <2>4. \A i \in 1 .. NrInFlight(t) - 1 :
            liveMapped'[t][i] = Tail(liveMapped[t])[i]
      BY <1>6, <2>3
    <2>5. liveMapped'[t] = Tail(liveMapped[t])
      BY <1>5, <2>2, <2>3, <2>4, SeqEqual
    <2> QED
      BY <2>1, <2>5
  <1>8. liveMapped' = [liveMapped EXCEPT ![t] = Tail(liveMapped[t])]
    <2>1. \A u \in Thread \ {t} : liveMapped'[u] = liveMapped[u]
      BY ElsewhereLive
    <2> QED
      BY <1>7, <2>1 DEF liveMapped
  <1>9. UNCHANGED openMapped
    BY <1>1, ElsewhereLive DEF openMapped
  <1>10. openMapped[t] => Len(liveMapped[t]) > 1
    <2>1. openMapped[t] => AppSlot(t) = 1
      BY DEF openMapped, AppSlot
    <2> QED
      BY <1>3, <1>4, <2>1
  <1>e. App(t) \/ Validator(t)
    BY DEF Validator
  <1>g. ~Join(t)
    BY DEF Join, Reclaim
  <1>f. endedMapped' = endedMapped
    BY <1>e, <1>g, EndedMapped
  <1> QED
    BY <1>7, <1>8, <1>9, <1>10, <1>f DEF Store!Validated

\* The thread_local queue goes with its thread.
LEMMA JoinEnds ==
  ASSUME IInv, NEW t \in Thread, Join(t), LocalTo(t)
  PROVE  Store!ThreadEnds(t)
  <1>1. /\ valPc'[t] = "exited" /\ queue'[t] = << >> /\ appPc[t] = "join"
        /\ frames'[t] = frames[t] /\ cur'[t] = cur[t]
    BY DEF Join, valVars, IInv, TypeInv, TypeOK
  <1>2. frames[t] = << >>
    BY <1>1 DEF IInv, PcInv
  <1>3. InFlight(t)' = << >>
    BY <1>1, <1>2 DEF InFlight
  <1>4. liveMapped'[t] = << >>
    <2>1. DOMAIN InFlight(t)' = {}
      BY <1>3
    <2> QED
      BY <2>1 DEF liveMapped
  <1>5. liveMapped' = [liveMapped EXCEPT ![t] = << >>]
    <2>1. \A u \in Thread \ {t} : liveMapped'[u] = liveMapped[u]
      BY ElsewhereLive
    <2> QED
      BY <1>4, <2>1 DEF liveMapped
  <1>6. UNCHANGED openMapped
    BY <1>1, ElsewhereLive DEF openMapped
  <1>7. ~openMapped[t]
    BY <1>2 DEF openMapped
  <1>e. App(t) \/ Validator(t)
    BY DEF App
  <1>f. ~endedMapped[t] /\ endedMapped' = [endedMapped EXCEPT ![t] = TRUE]
    BY <1>e, EndedMapped
  <1> QED
    BY <1>5, <1>6, <1>7, <1>f DEF Store!ThreadEnds

\* commit_log gives the log its length.
LEMMA CommitCountFinishes ==
  ASSUME IInv, IInv', NEW t \in Thread, CommitCount(t), LocalTo(t)
  PROVE  Store!Finish(t)
  <1>n. PICK n : n = NrInFlight(t)
    OBVIOUS
  <1>q. PICK q : q = Len(queue[t]) + 1
    OBVIOUS
  <1>0. /\ cur \in [Thread -> Log \cup {NoLog}] /\ cur[t] \in Log
        /\ frames[t] # << >> /\ appPc[t] = "app" /\ queue[t] \in Seq(Log)
    BY DEF CommitCount, IInv, TypeInv, TypeOK, HasLog
  <1>1. /\ valPc'[t] = valPc[t] /\ queue'[t] = queue[t]
        /\ frames'[t] = frames[t] /\ valLog'[t] = valLog[t]
    BY DEF CommitCount, valVars
  <1>2. PICK m \in Lengths :
          /\ m <= MinSize
          /\ cur' = [cur EXCEPT ![t] = [cur[t] EXCEPT !.len = m,
                                          !.idx = nrLogs[cur[t].buf] + 1]]
    BY DEF CommitCount
  <1>3. /\ cur'[t].buf = cur[t].buf /\ cur'[t].start = cur[t].start
        /\ cur'[t].len = m /\ m \in 1 .. MinSize
    <2>1. cur'[t] = [cur[t] EXCEPT !.len = m,
                                   !.idx = nrLogs[cur[t].buf] + 1]
      BY <1>0, <1>2
    <2>2. m \in 1 .. MinSize
      BY <1>2, Constants
    <2> QED
      BY <1>0, <2>1, <2>2 DEF Log
  <1>4. /\ n \in Nat /\ NrInFlight(t)' = n /\ ValSlot(t)' = ValSlot(t)
        /\ n = ValSlot(t) + q /\ ValSlot(t) \in {0, 1} /\ q \in Nat \ {0}
    <2>1. ValSlot(t)' = ValSlot(t) /\ ValSlot(t) \in {0, 1}
      BY <1>1 DEF ValSlot
    <2>2. AppSlot(t)' = 1 /\ AppSlot(t) = 1
      BY <1>0, <1>1 DEF AppSlot
    <2>3. q \in Nat \ {0} /\ Len(queue'[t]) = Len(queue[t])
      BY <1>0, <1>1, <1>q
    <2> QED
      BY <1>0, <1>n, <1>q, <2>1, <2>2, <2>3 DEF NrInFlight
  <1>5. cur[t].len = 0
    <2>1. q \in Slots(t) /\ LogAt(t, q) = cur[t] /\ ~Committed(t, q)
      BY <1>0, <1>4, <1>q DEF Slots, LogAt, Committed
    <2> QED
      BY <2>1 DEF IInv, RoomInv
  <1>6. /\ liveMapped[t] \in Seq({Room(l) : l \in Log})
        /\ Len(liveMapped[t]) = n /\ DOMAIN liveMapped[t] = 1 .. n
        /\ \A i \in 1 .. n : liveMapped[t][i] = Room(LogAt(t, i - ValSlot(t)))
    BY <1>n, LiveSlots
  <1>7. /\ Len(liveMapped'[t]) = n /\ DOMAIN liveMapped'[t] = 1 .. n
        /\ \A i \in 1 .. n :
             liveMapped'[t][i] = Room(LogAt(t, i - ValSlot(t)))'
    <2>1. /\ (DOMAIN liveMapped[t] = 1 .. NrInFlight(t))'
          /\ (Len(liveMapped[t]) = NrInFlight(t))'
          /\ (\A i \in 1 .. NrInFlight(t) :
                /\ i - ValSlot(t) \in Slots(t)
                /\ liveMapped[t][i] = Room(LogAt(t, i - ValSlot(t))))'
      BY LiveSlots, PTL
    <2> QED
      BY <1>4, <2>1
  <1>8. /\ Room(LogAt(t, q)) = Room(cur[t])
        /\ Room(LogAt(t, q))' = [Room(cur[t]) EXCEPT !.hi = cur[t].start + m]
        /\ Room(cur[t]).lo = cur[t].start
    <2>1. LogAt(t, q) = cur[t] /\ LogAt(t, q)' = cur'[t]
      BY <1>1, <1>4, <1>q DEF LogAt
    <2>2. Room(cur[t])' = [Room(cur[t]) EXCEPT !.hi = cur[t].start + m]
      BY <1>3 DEF Room, EndOf
    <2> QED
      BY <2>1, <2>2 DEF Room, EndOf
  <1>9. ASSUME NEW i \in 1 .. n
        PROVE  liveMapped'[t][i] =
                 IF i = n
                 THEN [liveMapped[t][n] EXCEPT !.hi = cur[t].start + m]
                 ELSE liveMapped[t][i]
    <2>1. PICK j : j = i - ValSlot(t)
      OBVIOUS
    <2>2. liveMapped[t][i] = Room(LogAt(t, j))
      BY <1>6, <2>1
    <2>3. liveMapped'[t][i] = Room(LogAt(t, j))'
      <3>1. j = (i - ValSlot(t))'
        BY <1>4, <2>1
      <3> QED
        BY <1>7, <3>1
    <2>4. CASE i = n
      BY <1>4, <1>8, <2>1, <2>2, <2>3, <2>4
    <2>5. CASE i # n
      <3>1. j < q /\ j \in Int
        BY <1>4, <2>1, <2>5
      <3>2. LogAt(t, j)' = LogAt(t, j)
        BY <1>0, <1>1, <1>q, <3>1 DEF LogAt
      <3> QED
        BY <2>2, <2>3, <2>5, <3>2 DEF Room, EndOf
    <2> QED
      BY <2>4, <2>5
  <1>10. n \in 1 .. n /\ Store!Last(liveMapped[t]).lo = cur[t].start
    <2>1. n \in 1 .. n /\ n - ValSlot(t) = q
      BY <1>4
    <2> QED
      BY <1>6, <1>8, <2>1 DEF Store!Last
  <1>11. liveMapped' = [liveMapped EXCEPT ![t][Len(liveMapped[t])].hi =
                          Store!Last(liveMapped[t]).lo + m]
    <2>1. \A u \in Thread \ {t} : liveMapped'[u] = liveMapped[u]
      BY ElsewhereLive
    <2> DEFINE s == [liveMapped[t] EXCEPT ![n].hi = cur[t].start + m]
    <2>2. liveMapped'[t] = s
      <3>1. \A i \in 1 .. n : liveMapped'[t][i] = s[i]
        BY <1>6, <1>9
      <3>2. DOMAIN s = 1 .. n
        BY <1>6
      <3>3. liveMapped'[t] = [i \in 1 .. n |-> liveMapped'[t][i]]
        BY <1>7 DEF liveMapped
      <3> HIDE DEF s
      <3>4. s = [i \in 1 .. n |-> s[i]]
        BY <3>2 DEF s
      <3> QED
        BY <3>1, <3>3, <3>4
    <2>3. liveMapped' = [liveMapped EXCEPT ![t] = s]
      <3> HIDE DEF s
      <3> QED
        BY <2>1, <2>2 DEF liveMapped
    <2> QED
      BY <1>6, <1>10, <2>3
  <1>12. openMapped[t]
    BY <1>0, <1>5 DEF openMapped
  <1>13. openMapped' = [openMapped EXCEPT ![t] = FALSE]
    <2>1. \A u \in Thread \ {t} : openMapped'[u] = openMapped[u]
      BY ElsewhereLive
    <2>2. ~openMapped'[t]
      <3>1. m # 0
        BY <1>3, Constants
      <3> QED
        BY <1>3, <3>1 DEF openMapped
    <2> QED
      BY <2>1, <2>2 DEF openMapped
  <1>e. App(t) \/ Validator(t)
    BY DEF App, Commit
  <1>g. ~Join(t)
    BY DEF Join, CommitCount
  <1>f. endedMapped' = endedMapped
    BY <1>e, <1>g, EndedMapped
  <1> QED
    BY <1>3, <1>11, <1>12, <1>13, <1>f DEF Store!Finish

\* new_log finds room that no log in flight uses, which is LogsDisjoint of the
\* state it leaves.
LEMMA NewLogBegins ==
  ASSUME IInv, IInv', NEW t \in Thread, NewLog(t), LocalTo(t), MaxDepth = 1
  PROVE  Store!Begin(t)
  <1>n. PICK n : n = NrInFlight(t)
    OBVIOUS
  <1>q. PICK q : q = Len(queue[t]) + 1
    OBVIOUS
  <1>1. PICK a : StartLog(t, a)
    BY DEF NewLog, NewLogSameBuffer, NewLogFreeBuffer, NewLogFreshBuffer,
           TakeBuffer
  <1>2. /\ queue[t] \in Seq(Log) /\ frames[t] \in Seq(Addr)
        /\ Len(frames[t]) < 1
    BY DEF NewLog, NewLogSameBuffer, NewLogFreeBuffer, NewLogFreshBuffer,
           TakeBuffer, CanStart, IInv, TypeInv, TypeOK
  <1>3. /\ frames[t] = << >> /\ frames'[t] # << >>
        /\ queue'[t] = queue[t] /\ valPc'[t] = valPc[t]
        /\ valLog'[t] = valLog[t] /\ cur'[t].len = 0
    <2>1. frames[t] = << >>
      BY <1>2
    <2>2. frames'[t] = Append(frames[t], a)
      BY <1>1 DEF StartLog, IInv, TypeInv, TypeOK
    <2>3. Append(frames[t], a) # << >>
      BY <2>1
    <2>4. cur'[t].len = 0
      BY <1>1 DEF StartLog, IInv, TypeInv, TypeOK
    <2> QED
      BY <1>1, <2>1, <2>2, <2>3, <2>4 DEF StartLog, valVars
  <1>4. /\ ValSlot(t)' = ValSlot(t) /\ ValSlot(t) \in {0, 1}
        /\ n = ValSlot(t) + q - 1 /\ NrInFlight(t)' = n + 1
        /\ q \in Nat \ {0} /\ n \in Nat
    <2>1. ValSlot(t)' = ValSlot(t) /\ ValSlot(t) \in {0, 1}
      BY <1>3 DEF ValSlot
    <2>2. AppSlot(t) = 0 /\ AppSlot(t)' = 1
      BY <1>3 DEF AppSlot
    <2>3. q \in Nat \ {0} /\ Len(queue'[t]) = Len(queue[t])
      BY <1>2, <1>3, <1>q
    <2> QED
      BY <1>2, <1>n, <1>q, <2>1, <2>2, <2>3 DEF NrInFlight
  <1> DEFINE r == Room(cur[t])'
  <1>5. /\ q \in Slots(t)' /\ LogAt(t, q)' = cur'[t] /\ cur'[t] \in Log
    <2>1. q \in Slots(t)' /\ LogAt(t, q)' = cur'[t]
      BY <1>2, <1>3, <1>4, <1>q DEF Slots, LogAt
    <2> QED
      BY <1>3, <2>1 DEF IInv, TypeInv, HasLog
  <1>6. LogsDisjoint'
    BY IInvDisjoint, PTL
  <1>7. r \in Store!Region /\ r.hi = r.lo + MinSize
    <2>1. /\ cur'[t].start >= HeadSize
          /\ cur'[t].start + MinSize <= MaxSize
          /\ cur'[t].buf \in Buffer /\ cur'[t].start \in Nat
      <3>1. PICK j : j = q
        OBVIOUS
      <3>2. /\ (LogAt(t, j).start >= HeadSize)'
            /\ (LogAt(t, j).start + MinSize <= MaxSize)'
        BY <1>5, <3>1 DEF IInv, RoomInv
      <3> QED
        BY <1>5, <3>1, <3>2 DEF Log
    <2>2. r = [buf |-> cur'[t].buf, lo |-> cur'[t].start,
               hi |-> cur'[t].start + MinSize]
      BY <1>3 DEF Room, EndOf
    <2>3. /\ cur'[t].start \in 0 .. MaxSize
          /\ cur'[t].start + MinSize \in 0 .. MaxSize
      BY <2>1, Constants
    <2> QED
      BY <2>1, <2>2, <2>3 DEF Store!Region
  <1>8. /\ liveMapped[t] \in Seq({Room(l) : l \in Log})
        /\ Len(liveMapped[t]) = n
        /\ \A i \in 1 .. n : liveMapped[t][i] = Room(LogAt(t, i - ValSlot(t)))
    BY <1>n, LiveSlots
  <1>9. /\ (liveMapped[t] \in Seq({Room(l) : l \in Log}))'
        /\ Len(liveMapped'[t]) = n + 1
        /\ \A i \in 1 .. n + 1 :
             /\ i - ValSlot(t) \in Slots(t)'
             /\ liveMapped'[t][i] = Room(LogAt(t, i - ValSlot(t)))'
    <2>1. /\ (liveMapped[t] \in Seq({Room(l) : l \in Log}))'
          /\ (Len(liveMapped[t]) = NrInFlight(t))'
          /\ (\A i \in 1 .. NrInFlight(t) :
                /\ i - ValSlot(t) \in Slots(t)
                /\ liveMapped[t][i] = Room(LogAt(t, i - ValSlot(t))))'
      BY LiveSlots, PTL
    <2> QED
      BY <1>4, <2>1
  <1>10. ASSUME NEW i \in 1 .. n
         PROVE  liveMapped'[t][i] = liveMapped[t][i]
    <2>1. PICK j : j = i - ValSlot(t)
      OBVIOUS
    <2>2. j < q /\ j \in Int
      BY <1>4, <2>1
    <2>3. LogAt(t, j)' = LogAt(t, j)
      BY <1>2, <1>3, <1>q, <2>2 DEF LogAt
    <2>4. liveMapped'[t][i] = Room(LogAt(t, j))'
      <3>1. i \in 1 .. n + 1 /\ j = (i - ValSlot(t))'
        BY <1>4, <2>1
      <3> QED
        BY <1>9, <3>1
    <2> QED
      BY <1>8, <2>1, <2>3, <2>4 DEF Room, EndOf
  <1>11. liveMapped'[t][n + 1] = r
    <2>1. /\ n + 1 \in 1 .. n + 1 /\ q = (n + 1) - ValSlot(t)
          /\ ((n + 1) - ValSlot(t))' = q
      BY <1>4
    <2>2. PICK j : j = q
      OBVIOUS
    <2>3. liveMapped'[t][n + 1] = Room(LogAt(t, j))'
      BY <1>9, <2>1, <2>2
    <2>4. LogAt(t, j)' = cur'[t]
      BY <1>5, <2>2
    <2> QED
      BY <2>3, <2>4 DEF Room, EndOf
  <1>12. liveMapped'[t] = Append(liveMapped[t], r)
    <2> DEFINE S == {Room(l) : l \in Log} \cup {r}
    <2>1. liveMapped[t] \in Seq(S) /\ r \in S
      BY <1>8
    <2>2. liveMapped'[t] \in Seq(S)
      <3>1. \A i \in 1 .. n + 1 : liveMapped'[t][i] \in S
        <4>1. SUFFICES ASSUME NEW i \in 1 .. n + 1
              PROVE  liveMapped'[t][i] \in S
          OBVIOUS
        <4>2. i \in 1 .. n \/ i = n + 1
          BY <1>4
        <4>3. \A j \in 1 .. n : liveMapped[t][j] \in S
          BY <1>8
        <4> HIDE DEF r
        <4> QED
          BY <1>10, <1>11, <4>2, <4>3
      <3>2. liveMapped'[t] = [i \in 1 .. n + 1 |-> liveMapped'[t][i]]
        BY <1>4, <1>9
      <3> DEFINE w == [i \in 1 .. n + 1 |-> liveMapped'[t][i]]
      <3> HIDE DEF S
      <3>3. w \in Seq(S)
        BY <1>4, <3>1
      <3> HIDE DEF w
      <3>4. liveMapped'[t] = w
        BY <3>2 DEF w
      <3> QED
        BY <3>3, <3>4
    <2> HIDE DEF S, r
    <2>3. /\ Append(liveMapped[t], r) \in Seq(S)
          /\ Len(Append(liveMapped[t], r)) = n + 1
          /\ \A i \in 1 .. n : Append(liveMapped[t], r)[i] = liveMapped[t][i]
          /\ Append(liveMapped[t], r)[n + 1] = r
      BY <1>8, <2>1, AppendProperties
    <2>4. \A i \in 1 .. n + 1 :
            liveMapped'[t][i] = Append(liveMapped[t], r)[i]
      <3>1. \A i \in 1 .. n + 1 : i \in 1 .. n \/ i = n + 1
        BY <1>4
      <3> QED
        BY <1>10, <1>11, <2>3, <3>1
    <2> QED
      BY <1>9, <2>2, <2>3, <2>4, SeqEqual
  <1>13. liveMapped' = [liveMapped EXCEPT ![t] = Append(liveMapped[t], r)]
    <2>1. \A u \in Thread \ {t} : liveMapped'[u] = liveMapped[u]
      BY ElsewhereLive
    <2> HIDE DEF r
    <2> QED
      BY <1>12, <2>1 DEF liveMapped
  <1>14. ~openMapped[t] /\ openMapped' = [openMapped EXCEPT ![t] = TRUE]
    <2>1. \A u \in Thread \ {t} : openMapped'[u] = openMapped[u]
      BY ElsewhereLive
    <2>2. openMapped'[t] = TRUE /\ openMapped[t] = FALSE
      BY <1>3 DEF openMapped
    <2> QED
      BY <2>1, <2>2 DEF openMapped
  <1>15. ASSUME NEW u \in Thread, NEW i \in DOMAIN liveMapped[u]
         PROVE  Store!Apart(r, liveMapped[u][i])
    <2>1. i \in 1 .. NrInFlight(u) /\ NrInFlight(u) \in Nat
      BY <1>15, LiveSlots
    <2>2. PICK j : j = i - ValSlot(u)
      OBVIOUS
    <2>3. /\ j \in Slots(u) /\ j \in Int
          /\ liveMapped[u][i] = Room(LogAt(u, j))
      <3>1. /\ i - ValSlot(u) \in Slots(u)
            /\ liveMapped[u][i] = Room(LogAt(u, i - ValSlot(u)))
        BY <2>1, LiveSlots
      <3>2. ValSlot(u) \in {0, 1}
        BY DEF ValSlot
      <3> QED
        BY <2>1, <2>2, <3>1, <3>2
    <2>4. /\ j \in Slots(u)' /\ LogAt(u, j)' = LogAt(u, j)
          /\ u = t => j < q
      <3>1. CASE u = t
        <4>1. j < q
          <5>1. i <= n /\ j = i - ValSlot(t) /\ i \in Int
            BY <1>n, <2>1, <2>2, <3>1
          <5> QED
            BY <1>4, <5>1
        <4> QED
          BY <1>2, <1>3, <1>q, <2>3, <3>1, <4>1 DEF Slots, LogAt
      <3>2. CASE u # t
        BY <2>3, <3>2 DEF LocalTo, Slots, LogAt
      <3> QED
        BY <3>1, <3>2
    <2>5. <<t, q>> # <<u, j>>
      BY <1>4, <2>3, <2>4
    <2>6. LogAt(t, q)'.buf = LogAt(u, j)'.buf
            => \/ EndOf(LogAt(t, q))' <= LogAt(u, j)'.start
               \/ EndOf(LogAt(u, j))' <= LogAt(t, q)'.start
      BY <1>5, <1>6, <2>4, <2>5 DEF LogsDisjoint
    <2> QED
      BY <1>5, <2>3, <2>4, <2>6 DEF Store!Apart, Room, EndOf
  <1>e. App(t) \/ Validator(t)
    BY DEF App
  <1>g. ~Join(t)
    BY DEF Join, NewLog, NewLogSameBuffer, NewLogFreeBuffer,
           NewLogFreshBuffer, TakeBuffer, CanStart
  <1>f. ~endedMapped[t] /\ endedMapped' = endedMapped
    BY <1>e, <1>g, EndedMapped
  <1> QED
    BY <1>7, <1>13, <1>14, <1>15, <1>f DEF Store!Begin

-----------------------------------------------------------------------------
\* At first nothing is in flight.
LEMMA MappedInit == Init => Store!LSInit
  <1> SUFFICES ASSUME Init PROVE Store!LSInit
    OBVIOUS
  <1>1. ASSUME NEW t \in Thread
        PROVE  /\ liveMapped[t] = << >> /\ openMapped[t] = FALSE
               /\ endedMapped[t] = FALSE
    <2>1. /\ queue[t] = << >> /\ frames[t] = << >> /\ valPc[t] = "off"
      BY DEF Init
    <2>2. InFlight(t) = << >>
      BY <2>1 DEF InFlight
    <2>3. DOMAIN InFlight(t) = {}
      BY <2>2
    <2>4. liveMapped[t] = << >>
      BY <2>3 DEF liveMapped
    <2> QED
      BY <2>1, <2>4 DEF openMapped, endedMapped, Init
  <1> QED
    BY <1>1 DEF Store!LSInit, liveMapped, openMapped, endedMapped

\* Each step of the pipeline is a step of the store, or none.
LEMMA MappedNext ==
  ASSUME IInv, IInv', LeftInv, MaxDepth = 1, [Next]_vars
  PROVE  [Store!LSNext]_(Store!lsVars)
  <1>1. ASSUME NEW t \in Thread, App(t) \/ Validator(t)
        PROVE  Store!LSNext \/ UNCHANGED Store!lsVars
    <2>1. LocalTo(t) /\ LeftAt(t)
      BY <1>1, StepsAreLocal DEF LeftInv
    <2>2. CASE NewLog(t)
      BY <2>1, <2>2, NewLogBegins DEF Store!LSNext
    <2>3. CASE CommitCount(t)
      BY <2>1, <2>3, CommitCountFinishes DEF Store!LSNext
    <2>4. CASE Reclaim(t)
      BY <2>1, <2>4, ReclaimValidates DEF Store!LSNext
    <2>5. CASE Join(t)
      BY <2>1, <2>5, JoinEnds DEF Store!LSNext
    <2>6. CASE \/ Register(t) \/ CommitTooLong(t) \/ CommitPlace(t)
               \/ Enqueue(t) \/ Unregister(t) \/ CheckStop(t)
               \/ DequeueNothing(t) \/ Dequeue(t) \/ ReadInUse(t)
               \/ ReadNrLogs(t)
      <3>1. liveMapped'[t] = liveMapped[t] /\ openMapped'[t] = openMapped[t]
        BY <2>1, <2>6, StutterSteps
      <3>2. \A u \in Thread \ {t} : /\ liveMapped'[u] = liveMapped[u]
                                    /\ openMapped'[u] = openMapped[u]
        BY <2>1, ElsewhereLive
      <3>3. ~Join(t)
        BY <2>6 DEF Join, Register, CommitTooLong, CommitPlace, Enqueue,
                    Unregister, CheckStop, DequeueNothing, Dequeue,
                    ReadInUse, ReadNrLogs, appVars
      <3>4. UNCHANGED endedMapped
        BY <1>1, <3>3, EndedMapped
      <3> QED
        BY <3>1, <3>2, <3>4, MappedEqual
    <2> QED
      BY <1>1, <2>2, <2>3, <2>4, <2>5, <2>6 DEF App, Validator, Commit
  <1>2. CASE UNCHANGED vars
    <2>1. \A u \in Thread : LocalTo(u) /\ InFlight(u)' = InFlight(u)
      BY <1>2
      DEF vars, appVars, valVars, bufVars, poolVars, LocalTo, InFlight
    <2>2. \A u \in Thread : /\ liveMapped'[u] = liveMapped[u]
                            /\ openMapped'[u] = openMapped[u]
      BY <1>2, <2>1
      DEF liveMapped, openMapped, Room, EndOf, vars, appVars
    <2>3. UNCHANGED endedMapped
      BY <1>2 DEF vars, appVars, endedMapped
    <2> QED
      BY <2>2, <2>3, MappedEqual
  <1> QED
    BY <1>1, <1>2 DEF Next

\* The pipeline gives every closure room of its own until the closure has been
\* validated, validates a thread's closures in order and once, and loses logs
\* only when their thread ends (log.hpp, queue.hpp and scee.cpp together).
THEOREM PipelineImplementsStore ==
  ASSUME MaxDepth = 1
  PROVE  Spec => ImplementsLogStore
  <1>1. Init => IInv /\ LeftInv /\ Store!LSInit
    BY IInvInit, LeftInit, MappedInit
  <1>2. IInv /\ LeftInv /\ [Next]_vars
          => (IInv /\ LeftInv)' /\ [Store!LSNext]_(Store!lsVars)
    BY IInvNext, LeftNext, MappedNext
  <1> QED
    BY <1>1, <1>2, PTL DEF Spec, ImplementsLogStore, Store!LSSpec
=============================================================================
