------------------------- MODULE LogPipelineProofs -------------------------
(***************************************************************************)
(* Proofs about LogPipeline: type correctness, and, when closures do not   *)
(* nest, that logs awaiting validation never share a line (LogsDisjoint)   *)
(* and that a free buffer is unused (FreeBuffersUnused).                   *)
(*                                                                         *)
(* The inductive invariant orders the logs of a thread, oldest first, as   *)
(* Slots does: within one buffer, both their places and their numbers      *)
(* (idx) grow.  Every number lies above nr_reclaimed and not above nr_logs,*)
(* so nr_reclaimed = nr_logs means that no committed log is left, and      *)
(* in_use = 0 that nothing further will be placed in the buffer.           *)
(***************************************************************************)
EXTENDS LogPipeline, SequenceTheorems, TLAPS

\* A thread inside a closure has a log; so has a validator at work; a thread
\* that commits is inside a closure.
HasLog ==
  /\ \A t \in Thread : frames[t] # << >> => cur[t] \in Log
  /\ \A t \in Thread : valPc[t] \in {"validate", "inUse", "nrLogs"} =>
                         valLog[t] \in Log
  /\ \A t \in Thread : appPc[t] \in {"place", "enqueue"} => frames[t] # << >>
TypeInv == TypeOK /\ HasLog

\* Control: closures do not nest, and only a running thread is inside one.
PcInv ==
  \A t \in Thread :
    frames[t] # << >> => /\ Len(frames[t]) = 1
                         /\ appPc[t] \in {"app", "place", "enqueue"}

Committed(t, i) == i <= Len(queue[t]) \/ appPc[t] \in {"place", "enqueue"}

\* Every log lies in its buffer; it has a length once it is committed.
RoomInv ==
  \A t \in Thread : \A i \in Slots(t) :
    /\ LogAt(t, i) \in Log
    /\ LogAt(t, i).start >= HeadSize
    /\ LogAt(t, i).start + MinSize <= MaxSize
    /\ IF Committed(t, i) THEN LogAt(t, i).len \in 1 .. MinSize
                          ELSE LogAt(t, i).len = 0

\* Within a buffer, logs are placed in their order.
OrderInv ==
  \A t \in Thread : \A i, j \in Slots(t) :
    i < j /\ LogAt(t, i).buf = LogAt(t, j).buf
      => EndOf(LogAt(t, i)) <= LogAt(t, j).start

\* They are numbered in their order, above nr_reclaimed, up to nr_logs.
CountInv ==
  \A t \in Thread : \A i \in Slots(t) : Committed(t, i) =>
    /\ nrReclaimed[LogAt(t, i).buf] < LogAt(t, i).idx
    /\ LogAt(t, i).idx <= nrLogs[LogAt(t, i).buf]
    /\ \A j \in Slots(t) :
         i < j /\ Committed(t, j) /\ LogAt(t, i).buf = LogAt(t, j).buf
           => LogAt(t, i).idx < LogAt(t, j).idx

\* A buffer never has more logs reclaimed than committed.
HeadInv == \A b \in Buffer : nrReclaimed[b] <= nrLogs[b]

\* The allocator will continue behind all logs of a buffer that is in use, and
\* only while no log is being written.
StackInv ==
  \A t \in Thread :
    /\ Len(stack[t]) <= 1
    /\ frames[t] # << >> /\ appPc[t] # "enqueue" => /\ stack[t] = << >>
                                                    /\ inUse[cur[t].buf] = 1
    /\ \A k \in DOMAIN stack[t] :
         /\ stack[t][k].start >= HeadSize
         /\ stack[t][k].start + MinSize <= MaxSize
         /\ inUse[stack[t][k].buf] = 1
         /\ holder[stack[t][k].buf] = t
         /\ \A i \in Slots(t) : LogAt(t, i).buf = stack[t][k].buf
              => EndOf(LogAt(t, i)) <= stack[t][k].start

\* Whatever a thread refers to is in a buffer it holds.
HolderInv ==
  \A t \in Thread :
    /\ \A i \in Slots(t) : holder[LogAt(t, i).buf] = t
    /\ valPc[t] \in {"inUse", "nrLogs"} => holder[valLog[t].buf] = t
    /\ valPc[t] = "nrLogs" => inUse[valLog[t].buf] = 0

\* Nobody holds a free buffer or one the heap still has.
PoolInv ==
  /\ \A b \in fresh : holder[b] = NoThread
  /\ \A k \in DOMAIN freeBuffers : /\ holder[freeBuffers[k]] = NoThread
                                   /\ freeBuffers[k] \notin fresh
  /\ \A k, l \in DOMAIN freeBuffers :
       freeBuffers[k] = freeBuffers[l] => k = l

IInv == /\ TypeInv /\ PcInv /\ RoomInv /\ OrderInv /\ CountInv /\ HeadInv
        /\ StackInv /\ HolderInv /\ PoolInv

-----------------------------------------------------------------------------
\* What Front and Last of a sequence that is not empty are.
LEMMA FrontLast ==
  ASSUME NEW S, NEW s \in Seq(S), s # << >>
  PROVE  /\ Front(s) \in Seq(S)
         /\ Len(Front(s)) = Len(s) - 1
         /\ \A i \in 1 .. Len(s) - 1 : Front(s)[i] = s[i]
         /\ Last(s) \in S
  <1>1. Len(s) \in Nat \ {0}
    OBVIOUS
  <1>2. Front(s) = [i \in 1 .. Len(s) - 1 |-> s[i]]
    BY <1>1 DEF Front
  <1>3. Front(s) \in Seq(S) /\ Len(Front(s)) = Len(s) - 1
    BY <1>1, <1>2
  <1> QED
    BY <1>1, <1>2, <1>3 DEF Last

\* The assumptions on the constants, as facts the steps below use.
LEMMA Constants ==
  /\ MaxSize \in Nat /\ HeadSize \in Nat /\ MinSize \in Nat
  /\ HeadSize + MinSize <= MaxSize
  /\ Lengths \subseteq Nat /\ 0 \notin Lengths
  /\ MaxStash \in Nat /\ QCap \in Nat
  /\ NoThread \notin Thread
  BY SizesAssumption, LimitsAssumption, NullsAssumption

-----------------------------------------------------------------------------
(* Type correctness. *)

\* Every variable starts in its type (the globals and thread_locals of
\* scee.cpp).
LEMMA TypeInit == Init => TypeInv
  <1> SUFFICES ASSUME Init PROVE TypeInv
    OBVIOUS
  <1>1. << >> \in Seq(Addr) /\ << >> \in Seq(Log) /\ << >> \in Seq(Buffer)
    OBVIOUS
  <1>2. 0 \in 0 .. MaxStash
    BY Constants
  <1>3. TypeOK
    <2>1. /\ appPc \in [Thread -> {"unborn", "app", "place", "enqueue",
                                   "join", "exited"}]
          /\ frames \in [Thread -> Seq(Addr)]
          /\ cur \in [Thread -> Log \cup {NoLog}]
          /\ stashed \in [Thread -> 0 .. MaxStash]
          /\ stack \in [Thread -> Seq(Addr)]
          /\ queue \in [Thread -> Seq(Log)]
          /\ stop \in [Thread -> BOOLEAN]
      BY <1>1, <1>2 DEF Init
    <2>2. /\ valPc \in [Thread -> {"off", "check", "dequeue", "validate",
                                   "inUse", "nrLogs", "exited"}]
          /\ valLog \in [Thread -> Log \cup {NoLog}]
          /\ nrLogs \in [Buffer -> Nat]
          /\ inUse \in [Buffer -> {0, 1}]
          /\ nrReclaimed \in [Buffer -> Nat]
      BY DEF Init
    <2>3. freeBuffers \in Seq(Buffer)
      BY <1>1 DEF Init
    <2>4. /\ fresh \subseteq Buffer
          /\ holder \in [Buffer -> Thread \cup {NoThread}]
      BY DEF Init
    <2>5. closureCount \in Int
      BY DEF Init
    <2>6. aborted \in BOOLEAN
      BY DEF Init
    <2> QED
      BY <2>1, <2>2, <2>3, <2>4, <2>5, <2>6 DEF TypeOK
  <1>4. HasLog
    BY DEF Init, HasLog
  <1> QED
    BY <1>3, <1>4 DEF TypeInv

\* The current log of a thread that starts a closure is a log.
LEMMA TypeStartLog ==
  ASSUME TypeInv, NEW t \in Thread, NEW a \in Addr, StartLog(t, a)
  PROVE  /\ frames' \in [Thread -> Seq(Addr)]
         /\ cur' \in [Thread -> Log \cup {NoLog}]
         /\ stashed' \in [Thread -> 0 .. MaxStash]
         /\ closureCount' \in Int
         /\ HasLog'
  <1> DEFINE l == [buf |-> a.buf, start |-> a.start, len |-> 0, idx |-> 0]
  <1>1. l \in Log
    BY DEF Log, Addr
  <1>2. cur' = [cur EXCEPT ![t] = l]
    BY DEF StartLog
  <1>3. frames' = [frames EXCEPT ![t] = Append(@, a)]
    BY DEF StartLog
  <1>4. frames' \in [Thread -> Seq(Addr)]
    BY <1>3 DEF TypeInv, TypeOK
  <1>5. cur' \in [Thread -> Log \cup {NoLog}]
    BY <1>1, <1>2 DEF TypeInv, TypeOK
  <1>6. stashed' \in [Thread -> 0 .. MaxStash] /\ closureCount' \in Int
    BY Constants DEF StartLog, TypeInv, TypeOK
  <1>7. \A u \in Thread : frames'[u] # << >> => cur'[u] \in Log
    BY <1>1, <1>2, <1>3 DEF TypeInv, TypeOK, HasLog
  <1>8. valPc' = valPc /\ valLog' = valLog /\ appPc' = appPc
    BY DEF StartLog, valVars
  <1>9. \A u \in Thread : frames[u] # << >> => frames'[u] # << >>
    <2>1. frames[t] \in Seq(Addr)
      BY DEF TypeInv, TypeOK
    <2>2. Append(frames[t], a) # << >>
      BY <2>1, AppendProperties
    <2> QED
      BY <1>3, <2>2 DEF TypeInv, TypeOK
  <1> QED
    BY <1>4, <1>5, <1>6, <1>7, <1>8, <1>9 DEF TypeInv, HasLog

\* Every step of either thread keeps the types.
LEMMA TypeNext == TypeInv /\ [Next]_vars => TypeInv'
  <1> SUFFICES ASSUME TypeInv, [Next]_vars PROVE TypeInv'
    OBVIOUS
  <1> USE Constants
  <1>1. ASSUME NEW t \in Thread, Register(t) PROVE TypeInv'
    BY <1>1 DEF Register, TypeInv, TypeOK, HasLog, bufVars, poolVars
  <1>2. ASSUME NEW t \in Thread, NewLogSameBuffer(t) PROVE TypeInv'
    <2>1. /\ stack[t] \in Seq(Addr) /\ stack[t] # << >>
          /\ StartLog(t, Last(stack[t]))
          /\ stack' = [stack EXCEPT ![t] = Front(stack[t])]
          /\ UNCHANGED <<bufVars, poolVars>>
      BY <1>2 DEF NewLogSameBuffer, TypeInv, TypeOK
    <2>2. Front(stack[t]) \in Seq(Addr) /\ Last(stack[t]) \in Addr
      BY <2>1, FrontLast
    <2>3. /\ frames' \in [Thread -> Seq(Addr)]
          /\ cur' \in [Thread -> Log \cup {NoLog}]
          /\ stashed' \in [Thread -> 0 .. MaxStash]
          /\ closureCount' \in Int
          /\ HasLog'
      BY <2>1, <2>2, TypeStartLog
    <2>4. stack' \in [Thread -> Seq(Addr)]
      BY <2>1, <2>2 DEF TypeInv, TypeOK
    <2> QED
      BY <2>1, <2>3, <2>4
      DEF StartLog, TypeInv, TypeOK, bufVars, poolVars, valVars
  <1>3. ASSUME NEW t \in Thread, NEW b \in Buffer, TakeBuffer(t, b),
               freeBuffers' \in Seq(Buffer), fresh' \subseteq Buffer
        PROVE  TypeInv'
    <2>1. [buf |-> b, start |-> HeadSize] \in Addr
      BY DEF Addr
    <2>2. StartLog(t, [buf |-> b, start |-> HeadSize])
      BY <1>3 DEF TakeBuffer
    <2>3. /\ frames' \in [Thread -> Seq(Addr)]
          /\ cur' \in [Thread -> Log \cup {NoLog}]
          /\ stashed' \in [Thread -> 0 .. MaxStash]
          /\ closureCount' \in Int
          /\ HasLog'
      BY <2>1, <2>2, TypeStartLog
    <2>4. /\ nrLogs' \in [Buffer -> Nat] /\ nrReclaimed' \in [Buffer -> Nat]
          /\ inUse' \in [Buffer -> {0, 1}]
          /\ holder' \in [Buffer -> Thread \cup {NoThread}]
      BY <1>3 DEF TakeBuffer, TypeInv, TypeOK
    <2> QED
      BY <1>3, <2>2, <2>3, <2>4
      DEF TakeBuffer, StartLog, TypeInv, TypeOK, valVars
  <1>4. ASSUME NEW t \in Thread, NewLogFreeBuffer(t) PROVE TypeInv'
    <2>1. freeBuffers \in Seq(Buffer) /\ freeBuffers # << >>
      BY <1>4 DEF NewLogFreeBuffer, TypeInv, TypeOK
    <2>2. Head(freeBuffers) \in Buffer /\ Tail(freeBuffers) \in Seq(Buffer)
      BY <2>1
    <2> QED
      BY <1>3, <1>4, <2>2 DEF NewLogFreeBuffer, TypeInv, TypeOK
  <1>5. ASSUME NEW t \in Thread, NewLogFreshBuffer(t) PROVE TypeInv'
    <2>1. PICK b \in fresh : TakeBuffer(t, b) /\ fresh' = fresh \ {b}
      BY <1>5 DEF NewLogFreshBuffer
    <2>2. b \in Buffer /\ fresh' \subseteq Buffer
      BY <2>1 DEF TypeInv, TypeOK
    <2>3. freeBuffers' \in Seq(Buffer)
      BY <1>5 DEF NewLogFreshBuffer, TypeInv, TypeOK
    <2> QED
      BY <1>3, <2>1, <2>2, <2>3
  <1>6. ASSUME NEW t \in Thread, CommitTooLong(t) PROVE TypeInv'
    BY <1>6 DEF CommitTooLong, TypeInv, TypeOK, HasLog, appVars, valVars,
                bufVars, poolVars
  <1>7. ASSUME NEW t \in Thread, CommitCount(t) PROVE TypeInv'
    <2>1. cur[t] \in Log /\ cur[t].buf \in Buffer /\ nrLogs[cur[t].buf] \in Nat
      BY <1>7 DEF CommitCount, TypeInv, TypeOK, HasLog, Log
    <2>2. PICK n \in Lengths :
            cur' = [cur EXCEPT ![t] = [cur[t] EXCEPT !.len = n,
                                         !.idx = nrLogs[cur[t].buf] + 1]]
      BY <1>7 DEF CommitCount
    <2> DEFINE k == nrLogs[cur[t].buf] + 1
    <2>n. n \in Nat /\ k \in Nat
      BY <2>1
    <2> HIDE DEF k
    <2>3. [cur[t] EXCEPT !.len = n, !.idx = k] \in Log
      BY <2>1, <2>n DEF Log
    <2>4. /\ cur' \in [Thread -> Log \cup {NoLog}]
          /\ \A u \in Thread : cur[u] \in Log => cur'[u] \in Log
      BY <2>2, <2>3 DEF TypeInv, TypeOK, k
    <2>4a. nrLogs' = [nrLogs EXCEPT ![cur[t].buf] = nrLogs[cur[t].buf] + 1]
      BY <1>7 DEF CommitCount
    <2>5. nrLogs' \in [Buffer -> Nat]
      BY <2>1, <2>4a DEF TypeInv, TypeOK
    <2>6. TypeOK'
      BY <1>7, <2>4, <2>5
      DEF CommitCount, TypeInv, TypeOK, valVars, poolVars
    <2> QED
      BY <1>7, <2>4, <2>6 DEF CommitCount, TypeInv, HasLog, valVars
  <1>8. ASSUME NEW t \in Thread, CommitPlace(t) PROVE TypeInv'
    <2> DEFINE a == [buf |-> cur[t].buf, start |-> cur[t].start + cur[t].len]
    <2>1. cur[t] \in Log /\ a \in Addr
      BY <1>8 DEF CommitPlace, TypeInv, HasLog, Log, Addr
    <2>2. CASE cur[t].start + cur[t].len <= MaxSize - MinSize
      <3>1. /\ stack' = [stack EXCEPT ![t] = Append(@, a)]
            /\ UNCHANGED inUse
        BY <1>8, <2>2 DEF CommitPlace
      <3>2. stack' \in [Thread -> Seq(Addr)]
        BY <2>1, <3>1 DEF TypeInv, TypeOK
      <3> QED
        BY <1>8, <3>1, <3>2
        DEF CommitPlace, TypeInv, TypeOK, HasLog, valVars, poolVars
    <2>3. CASE ~(cur[t].start + cur[t].len <= MaxSize - MinSize)
      BY <1>8, <2>3
      DEF CommitPlace, TypeInv, TypeOK, HasLog, valVars, poolVars
    <2> QED
      BY <2>2, <2>3
  <1>9. ASSUME NEW t \in Thread, Enqueue(t) PROVE TypeInv'
    <2>1. /\ frames[t] \in Seq(Addr) /\ queue[t] \in Seq(Log)
          /\ cur[t] \in Log /\ frames[t] # << >>
      BY <1>9 DEF Enqueue, TypeInv, TypeOK, HasLog
    <2>2. Front(frames[t]) \in Seq(Addr)
      BY <2>1, FrontLast
    <2>3. Append(queue[t], cur[t]) \in Seq(Log)
      BY <2>1
    <2>4. /\ frames' = [frames EXCEPT ![t] = Front(frames[t])]
          /\ queue' = [queue EXCEPT ![t] = Append(queue[t], cur[t])]
      BY <1>9 DEF Enqueue
    <2>5. frames' \in [Thread -> Seq(Addr)] /\ queue' \in [Thread -> Seq(Log)]
      BY <2>2, <2>3, <2>4 DEF TypeInv, TypeOK
    <2>6. \A u \in Thread : u # t => frames'[u] = frames[u]
      BY <2>4 DEF TypeInv, TypeOK
    <2> QED
      BY <1>9, <2>1, <2>5, <2>6
      DEF Enqueue, TypeInv, TypeOK, HasLog, valVars, bufVars, poolVars
  <1>10a. ASSUME NEW t \in Thread, Unregister(t) PROVE TypeInv'
    BY <1>10a DEF Unregister, TypeInv, TypeOK, HasLog, valVars, bufVars,
                  poolVars
  <1>10b. ASSUME NEW t \in Thread, Join(t) PROVE TypeInv'
    <2>1. << >> \in Seq(Addr) /\ << >> \in Seq(Log)
      OBVIOUS
    <2>2. queue' \in [Thread -> Seq(Log)] /\ stack' \in [Thread -> Seq(Addr)]
      BY <1>10b, <2>1 DEF Join, TypeInv, TypeOK
    <2> QED
      BY <1>10b, <2>2 DEF Join, TypeInv, TypeOK, HasLog, valVars, bufVars,
                          poolVars
  <1>11. ASSUME NEW t \in Thread,
                CheckStop(t) \/ DequeueNothing(t) \/ ReadInUse(t)
         PROVE  TypeInv'
    <2> DEFINE next == valPc'[t]
    <2>1. /\ valPc' = [valPc EXCEPT ![t] = next]
          /\ next \in {"check", "dequeue", "nrLogs", "exited"}
          /\ next = "nrLogs" => valPc[t] = "inUse"
          /\ UNCHANGED <<appVars, queue, stop, valLog, bufVars, poolVars,
                         closureCount, aborted>>
      BY <1>11 DEF CheckStop, DequeueNothing, ReadInUse, TypeInv, TypeOK
    <2> HIDE DEF next
    <2>2. valPc' \in [Thread -> {"off", "check", "dequeue", "validate",
                                 "inUse", "nrLogs", "exited"}]
      BY <2>1 DEF TypeInv, TypeOK
    <2>3. HasLog'
      BY <2>1 DEF TypeInv, TypeOK, HasLog, appVars
    <2> QED
      BY <2>1, <2>2, <2>3
      DEF TypeInv, TypeOK, appVars, bufVars, poolVars
  <1>12. ASSUME NEW t \in Thread, Dequeue(t) PROVE TypeInv'
    <2>1. /\ queue[t] \in Seq(Log) /\ queue[t] # << >>
          /\ valLog' = [valLog EXCEPT ![t] = Head(queue[t])]
          /\ queue' = [queue EXCEPT ![t] = Tail(queue[t])]
      BY <1>12 DEF Dequeue, TypeInv, TypeOK
    <2>2. Head(queue[t]) \in Log /\ Tail(queue[t]) \in Seq(Log)
      BY <2>1
    <2> QED
      BY <1>12, <2>1, <2>2
      DEF Dequeue, TypeInv, TypeOK, HasLog, appVars, bufVars, poolVars
  <1>13. ASSUME NEW t \in Thread, Reclaim(t) PROVE TypeInv'
    <2>1. valLog[t] \in Log /\ valLog[t].buf \in Buffer
      BY <1>13 DEF Reclaim, TypeInv, HasLog, Log
    <2>2. nrReclaimed' \in [Buffer -> Nat]
      BY <1>13, <2>1 DEF Reclaim, TypeInv, TypeOK
    <2>3. closureCount' \in Int
      BY <1>13 DEF Reclaim, TypeInv, TypeOK
    <2> QED
      BY <1>13, <2>1, <2>2, <2>3 DEF Reclaim, TypeInv, TypeOK, HasLog, appVars, poolVars
  <1>14. ASSUME NEW t \in Thread, ReadNrLogs(t) PROVE TypeInv'
    <2>1. valLog[t] \in Log /\ valLog[t].buf \in Buffer
      BY <1>14 DEF ReadNrLogs, TypeInv, HasLog, Log
    <2>2. freeBuffers' \in Seq(Buffer)
      <3>1. freeBuffers \in Seq(Buffer)
        BY DEF TypeInv, TypeOK
      <3>2. freeBuffers' \in {freeBuffers, Append(freeBuffers, valLog[t].buf)}
        BY <1>14 DEF ReadNrLogs
      <3> QED
        BY <2>1, <3>1, <3>2
    <2>3. holder' \in [Buffer -> Thread \cup {NoThread}]
      BY <1>14, <2>1 DEF ReadNrLogs, TypeInv, TypeOK
    <2> QED
      BY <1>14, <2>2, <2>3
      DEF ReadNrLogs, TypeInv, TypeOK, HasLog, appVars, bufVars
  <1>15. ASSUME UNCHANGED vars PROVE TypeInv'
    BY <1>15 DEF vars, appVars, valVars, bufVars, poolVars, TypeInv, TypeOK,
                 HasLog
  <1> QED
    BY <1>1, <1>2, <1>4, <1>5, <1>6, <1>7, <1>8, <1>9, <1>10a, <1>10b, <1>11, <1>12,
       <1>13, <1>14, <1>15
    DEF Next, App, Validator, NewLog, Commit

\* Type correctness of every reachable state, for any threads, buffers and
\* sizes, nesting included (the declarations of log.hpp and scee.cpp).
THEOREM TypeCorrect == Spec => []TypeOK
  <1>1. Spec => []TypeInv
    BY TypeInit, TypeNext, PTL DEF Spec
  <1>2. TypeInv => TypeOK
    BY DEF TypeInv
  <1> QED
    BY <1>1, <1>2, PTL

-----------------------------------------------------------------------------
(* The slots of a thread over a step.  A step that starts no log and       *)
(* commits none leaves each thread a part of the logs it had, in the same  *)
(* order: slot i was slot i + d, where d is 1 when the queue moved up.     *)

Shrunk(u, d) ==
  \A i \in Slots(u)' : /\ i + d \in Slots(u)
                       /\ LogAt(u, i)' = LogAt(u, i + d)
                       /\ Committed(u, i)' <=> Committed(u, i + d)

\* A thread whose queue, log and validator did not change keeps its slots.
LEMMA SameSlots ==
  ASSUME NEW u \in Thread,
         queue'[u] = queue[u], cur'[u] = cur[u], valLog'[u] = valLog[u],
         valPc'[u] = "validate" => valPc[u] = "validate",
         frames'[u] # << >> => frames[u] # << >>,
         appPc'[u] \in {"place", "enqueue"}
           <=> appPc[u] \in {"place", "enqueue"}
  PROVE  Shrunk(u, 0)
  <1>1. \A i \in Slots(u)' : i \in Slots(u) /\ i \in Int
    BY DEF Slots
  <1>2. \A i \in Int : i + 0 = i
    OBVIOUS
  <1>3. \A i : LogAt(u, i)' = LogAt(u, i)
    BY DEF LogAt
  <1>4. \A i : Committed(u, i)' <=> Committed(u, i)
    BY DEF Committed
  <1> QED
    BY <1>1, <1>2, <1>3, <1>4 DEF Shrunk

\* Then the logs that are left are still placed and numbered in order.
LEMMA ShrinkKeeps ==
  ASSUME RoomInv, OrderInv, CountInv,
         \A u \in Thread : Shrunk(u, 0) \/ Shrunk(u, 1),
         nrLogs' = nrLogs, nrReclaimed' = nrReclaimed
  PROVE  RoomInv' /\ OrderInv' /\ CountInv'
  <1>0. \A u \in Thread : \E d \in {0, 1} : Shrunk(u, d)
    OBVIOUS
  <1>2. RoomInv'
    <2>1. SUFFICES ASSUME NEW u \in Thread, NEW i \in Slots(u)'
          PROVE  (/\ LogAt(u, i) \in Log
                  /\ LogAt(u, i).start >= HeadSize
                  /\ LogAt(u, i).start + MinSize <= MaxSize
                  /\ IF Committed(u, i) THEN LogAt(u, i).len \in 1 .. MinSize
                     ELSE LogAt(u, i).len = 0)'
      BY DEF RoomInv
    <2>2. PICK d \in {0, 1} : Shrunk(u, d)
      BY <1>0
    <2>3. /\ i + d \in Slots(u) /\ LogAt(u, i)' = LogAt(u, i + d)
          /\ Committed(u, i)' <=> Committed(u, i + d)
      BY <2>2 DEF Shrunk
    <2> QED
      BY <2>3 DEF RoomInv
  <1>3. \A u \in Thread : \A i, j \in Slots(u)' : \A d \in {0, 1} :
          Shrunk(u, d) /\ i < j
            => /\ i + d \in Slots(u) /\ j + d \in Slots(u) /\ i + d < j + d
               /\ LogAt(u, i)' = LogAt(u, i + d)
               /\ LogAt(u, j)' = LogAt(u, j + d)
               /\ Committed(u, i)' <=> Committed(u, i + d)
               /\ Committed(u, j)' <=> Committed(u, j + d)
    <2>1. \A u : \A i \in Slots(u)' : i \in Int
      BY DEF Slots
    <2> QED
      BY <2>1 DEF Shrunk
  <1>4. OrderInv'
    <2>1. SUFFICES ASSUME NEW u \in Thread, NEW i \in Slots(u)',
                          NEW j \in Slots(u)', i < j,
                          (LogAt(u, i).buf = LogAt(u, j).buf)'
          PROVE  (EndOf(LogAt(u, i)) <= LogAt(u, j).start)'
      BY DEF OrderInv
    <2>2. PICK d \in {0, 1} : Shrunk(u, d)
      BY <1>0
    <2>3. /\ i + d \in Slots(u) /\ j + d \in Slots(u) /\ i + d < j + d
          /\ LogAt(u, i)' = LogAt(u, i + d)
          /\ LogAt(u, j)' = LogAt(u, j + d)
      BY <1>3, <2>1, <2>2
    <2>4. EndOf(LogAt(u, i))' = EndOf(LogAt(u, i + d))
      BY <2>3 DEF EndOf
    <2> QED
      BY <2>1, <2>3, <2>4 DEF OrderInv
  <1>5. CountInv'
    <2>1. SUFFICES ASSUME NEW u \in Thread, NEW i \in Slots(u)',
                          Committed(u, i)'
          PROVE  (/\ nrReclaimed[LogAt(u, i).buf] < LogAt(u, i).idx
                  /\ LogAt(u, i).idx <= nrLogs[LogAt(u, i).buf]
                  /\ \A j \in Slots(u) :
                       i < j /\ Committed(u, j)
                         /\ LogAt(u, i).buf = LogAt(u, j).buf
                       => LogAt(u, i).idx < LogAt(u, j).idx)'
      BY DEF CountInv
    <2>2. PICK d \in {0, 1} : Shrunk(u, d)
      BY <1>0
    <2>3. /\ i + d \in Slots(u) /\ LogAt(u, i)' = LogAt(u, i + d)
          /\ Committed(u, i + d)
      BY <2>1, <2>2 DEF Shrunk
    <2>4. (/\ nrReclaimed[LogAt(u, i).buf] < LogAt(u, i).idx
           /\ LogAt(u, i).idx <= nrLogs[LogAt(u, i).buf])'
      BY <2>3 DEF CountInv
    <2>5. ASSUME NEW j \in Slots(u)', i < j, Committed(u, j)',
                 (LogAt(u, i).buf = LogAt(u, j).buf)'
          PROVE  (LogAt(u, i).idx < LogAt(u, j).idx)'
      <3>1. /\ j + d \in Slots(u) /\ i + d < j + d
            /\ LogAt(u, j)' = LogAt(u, j + d) /\ Committed(u, j + d)
        BY <1>3, <2>2, <2>5
      <3> QED
        BY <2>3, <2>5, <3>1 DEF CountInv
    <2> QED
      BY <2>4, <2>5
  <1> QED
    BY <1>2, <1>4, <1>5

\* A step that moves logs along or drops them, and leaves the heads of the
\* buffers and the pool alone.
MovesOnly ==
  /\ \A u \in Thread : Shrunk(u, 0) \/ Shrunk(u, 1)
  /\ UNCHANGED <<bufVars, poolVars>>
  /\ \A u \in Thread :
       /\ stack'[u] = stack[u] \/ stack'[u] = << >>
       /\ frames'[u] # << >> => /\ frames'[u] = frames[u]
                                /\ appPc'[u] = appPc[u]
                                /\ cur'[u] = cur[u]
       /\ appPc'[u] \in {"place", "enqueue"} => appPc[u] = appPc'[u]
       /\ valPc'[u] \in {"inUse", "nrLogs"} =>
            /\ valPc[u] \in {"inUse", "nrLogs"}
            /\ valLog'[u] = valLog[u]
            /\ valPc'[u] = "nrLogs" /\ valPc[u] # "nrLogs"
                 => inUse[valLog[u].buf] = 0

LEMMA MovesKeep ==
  ASSUME IInv, TypeInv', MovesOnly
  PROVE  IInv'
  <1> USE DEF IInv
  <1>1. RoomInv' /\ OrderInv' /\ CountInv'
    BY ShrinkKeeps DEF MovesOnly, bufVars
  <1>2. PcInv'
    BY DEF MovesOnly, PcInv
  <1>3. StackInv'
    <2>1. ASSUME NEW u \in Thread
          PROVE  (/\ Len(stack[u]) <= 1
                  /\ frames[u] # << >> /\ appPc[u] # "enqueue"
                       => stack[u] = << >> /\ inUse[cur[u].buf] = 1)'
      <3>1. stack'[u] = stack[u] \/ stack'[u] = << >>
        BY DEF MovesOnly
      <3>2. Len(stack'[u]) <= 1
        BY <3>1 DEF StackInv
      <3>3. frames'[u] # << >> /\ appPc'[u] # "enqueue"
              => stack'[u] = << >> /\ inUse'[cur'[u].buf] = 1
        BY <3>1 DEF StackInv, MovesOnly, bufVars
      <3> QED
        BY <3>2, <3>3
    <2>2. ASSUME NEW u \in Thread, NEW k \in DOMAIN stack'[u]
          PROVE  (/\ stack[u][k].start >= HeadSize
                  /\ stack[u][k].start + MinSize <= MaxSize
                  /\ inUse[stack[u][k].buf] = 1
                  /\ holder[stack[u][k].buf] = u)'
      <3>1. stack'[u] = stack[u]
        BY <2>2 DEF MovesOnly
      <3> QED
        BY <2>2, <3>1 DEF StackInv, MovesOnly, bufVars, poolVars
    <2>3. ASSUME NEW u \in Thread, NEW k \in DOMAIN stack'[u],
                 NEW i \in Slots(u)', (LogAt(u, i).buf = stack[u][k].buf)'
          PROVE  (EndOf(LogAt(u, i)) <= stack[u][k].start)'
      <3>1. stack'[u] = stack[u]
        BY <2>3 DEF MovesOnly
      <3>2. PICK d \in {0, 1} : Shrunk(u, d)
        BY DEF MovesOnly
      <3>3. i + d \in Slots(u) /\ LogAt(u, i)' = LogAt(u, i + d)
        BY <3>2 DEF Shrunk
      <3>4. EndOf(LogAt(u, i))' = EndOf(LogAt(u, i + d))
        BY <3>3 DEF EndOf
      <3> QED
        BY <2>3, <3>1, <3>3, <3>4 DEF StackInv
    <2> QED
      BY <2>1, <2>2, <2>3 DEF StackInv
  <1>4. HolderInv'
    <2>1. ASSUME NEW u \in Thread, NEW i \in Slots(u)'
          PROVE  (holder[LogAt(u, i).buf] = u)'
      <3>1. PICK d \in {0, 1} : Shrunk(u, d)
        BY DEF MovesOnly
      <3>2. i + d \in Slots(u) /\ LogAt(u, i)' = LogAt(u, i + d)
        BY <3>1 DEF Shrunk
      <3> QED
        BY <3>2 DEF HolderInv, MovesOnly, poolVars
    <2>2. ASSUME NEW u \in Thread
          PROVE  (/\ valPc[u] \in {"inUse", "nrLogs"} =>
                       holder[valLog[u].buf] = u
                  /\ valPc[u] = "nrLogs" => inUse[valLog[u].buf] = 0)'
      BY DEF HolderInv, MovesOnly, bufVars, poolVars
    <2> QED
      BY <2>1, <2>2 DEF HolderInv
  <1>5. PoolInv' /\ HeadInv'
    BY DEF PoolInv, HeadInv, MovesOnly, poolVars, bufVars
  <1> QED
    BY <1>1, <1>2, <1>3, <1>4, <1>5

\* log_enqueue: the log keeps its slot, in the queue now.
LEMMA EnqueueSlots ==
  ASSUME IInv, NEW t \in Thread, Enqueue(t)
  PROVE  Shrunk(t, 0) /\ frames'[t] = << >>
  <1> DEFINE n == Len(queue[t])
  <1>1. /\ queue[t] \in Seq(Log) /\ frames[t] \in Seq(Addr) /\ n \in Nat
        /\ Len(frames[t]) = 1 /\ frames[t] # << >> /\ cur[t] \in Log
    BY DEF Enqueue, IInv, TypeInv, TypeOK, HasLog, PcInv
  <1>2. frames'[t] = << >>
    <2>1. frames' = [frames EXCEPT ![t] = Front(frames[t])]
      BY DEF Enqueue
    <2>2. Front(frames[t]) \in Seq(Addr) /\ Len(Front(frames[t])) = 0
      BY <1>1, FrontLast
    <2>3. Front(frames[t]) = << >>
      BY <2>2
    <2> QED
      BY <2>1, <2>3 DEF IInv, TypeInv, TypeOK
  <1>3. queue'[t] = Append(queue[t], cur[t])
    BY DEF Enqueue, IInv, TypeInv, TypeOK
  <1>4. /\ Len(queue'[t]) = n + 1 /\ queue'[t][n + 1] = cur[t]
        /\ \A i \in 1 .. n : queue'[t][i] = queue[t][i]
    BY <1>1, <1>3
  <1>5. cur'[t] = cur[t] /\ valLog'[t] = valLog[t] /\ valPc'[t] = valPc[t]
        /\ appPc[t] = "enqueue"
    BY DEF Enqueue, valVars
  <1>6. ASSUME NEW i \in Slots(t)'
        PROVE  /\ i \in Slots(t) /\ i + 0 = i
               /\ LogAt(t, i)' = LogAt(t, i)
               /\ Committed(t, i)' <=> Committed(t, i)
    <2>1. i \in 0 .. n + 1 /\ (i = 0 => valPc[t] = "validate")
      BY <1>1, <1>2, <1>4, <1>5 DEF Slots
    <2>2. i \in Slots(t)
      BY <1>1, <2>1 DEF Slots
    <2>3. LogAt(t, i)' = LogAt(t, i)
      BY <1>1, <1>4, <1>5, <2>1 DEF LogAt
    <2>4. Committed(t, i)' /\ Committed(t, i)
      BY <1>4, <1>5, <2>1 DEF Committed
    <2> QED
      BY <2>1, <2>2, <2>3, <2>4
  <1> QED
    BY <1>2, <1>6 DEF Shrunk

\* log_dequeue: every log moves down one slot, the oldest to the validator.
LEMMA DequeueSlots ==
  ASSUME IInv, NEW t \in Thread, Dequeue(t)
  PROVE  Shrunk(t, 1)
  <1> DEFINE n == Len(queue[t])
  <1>1. queue[t] \in Seq(Log) /\ queue[t] # << >> /\ n \in Nat \ {0}
    BY DEF Dequeue, IInv, TypeInv, TypeOK
  <1>2. /\ queue'[t] = Tail(queue[t]) /\ valLog'[t] = Head(queue[t])
        /\ valPc'[t] = "validate" /\ cur'[t] = cur[t]
        /\ frames'[t] = frames[t] /\ appPc'[t] = appPc[t]
    BY DEF Dequeue, appVars, IInv, TypeInv, TypeOK
  <1>3. /\ Len(queue'[t]) = n - 1 /\ valLog'[t] = queue[t][1]
        /\ \A i \in 1 .. n - 1 : queue'[t][i] = queue[t][i + 1]
    BY <1>1, <1>2
  <1>4. ASSUME NEW i \in Slots(t)'
        PROVE  /\ i + 1 \in Slots(t)
               /\ LogAt(t, i)' = LogAt(t, i + 1)
               /\ Committed(t, i)' <=> Committed(t, i + 1)
    <2>1. i \in 0 .. n /\ (i = n => frames[t] # << >>)
      BY <1>1, <1>2, <1>3 DEF Slots
    <2>2. i + 1 \in Slots(t)
      BY <1>1, <2>1 DEF Slots
    <2>3. LogAt(t, i)' = LogAt(t, i + 1)
      BY <1>1, <1>2, <1>3, <2>1 DEF LogAt
    <2>4. Committed(t, i)' <=> Committed(t, i + 1)
      BY <1>1, <1>2, <1>3, <2>1 DEF Committed
    <2> QED
      BY <2>2, <2>3, <2>4
  <1> QED
    BY <1>4 DEF Shrunk

\* The steps that move logs along, drop them, or do neither.
LEMMA MovingSteps ==
  ASSUME IInv, NEW t \in Thread,
         \/ Register(t) \/ CommitTooLong(t) \/ Enqueue(t) \/ Unregister(t)
         \/ Join(t) \/ CheckStop(t) \/ DequeueNothing(t) \/ Dequeue(t)
         \/ ReadInUse(t)
  PROVE  MovesOnly
  <1> USE DEF IInv, TypeInv, TypeOK
  <1>1. CASE Register(t)
    <2>1. \A u \in Thread : Shrunk(u, 0)
      BY <1>1, SameSlots DEF Register
    <2> QED
      BY <1>1, <2>1 DEF Register, MovesOnly, PcInv
  <1>2. CASE CommitTooLong(t)
    <2>1. \A u \in Thread : Shrunk(u, 0)
      BY <1>2, SameSlots DEF CommitTooLong, appVars, valVars
    <2> QED
      BY <1>2, <2>1 DEF CommitTooLong, MovesOnly, appVars, valVars
  <1>3. CASE Enqueue(t)
    <2>1. Shrunk(t, 0) /\ frames'[t] = << >>
      BY <1>3, EnqueueSlots
    <2>2. \A u \in Thread : u # t =>
            /\ queue'[u] = queue[u] /\ frames'[u] = frames[u]
            /\ appPc'[u] = appPc[u]
      BY <1>3 DEF Enqueue
    <2>3. \A u \in Thread : Shrunk(u, 0)
      BY <1>3, <2>1, <2>2, SameSlots DEF Enqueue, valVars
    <2> QED
      BY <1>3, <2>1, <2>2, <2>3 DEF Enqueue, MovesOnly, valVars
  <1>4. CASE Unregister(t)
    <2>1. \A u \in Thread : Shrunk(u, 0)
      BY <1>4, SameSlots DEF Unregister, valVars
    <2> QED
      BY <1>4, <2>1 DEF Unregister, MovesOnly, valVars
  <1>5. CASE Join(t)
    <2>1. frames[t] = << >>
      BY <1>5 DEF Join, PcInv
    <2>2. Shrunk(t, 0)
      <3>1. /\ queue'[t] = << >> /\ frames'[t] = << >>
            /\ valPc'[t] = "exited"
        BY <1>5, <2>1 DEF Join, valVars
      <3>2. Len(queue'[t]) = 0
        BY <3>1
      <3>3. \A i : i \notin Slots(t)'
        BY <3>1, <3>2 DEF Slots
      <3> QED
        BY <3>3 DEF Shrunk
    <2>3. \A u \in Thread : u # t => Shrunk(u, 0)
      BY <1>5, SameSlots DEF Join, valVars
    <2> QED
      BY <1>5, <2>1, <2>2, <2>3 DEF Join, MovesOnly, valVars
  <1>6. CASE CheckStop(t)
    <2>1. \A u \in Thread : Shrunk(u, 0)
      BY <1>6, SameSlots DEF CheckStop, appVars
    <2> QED
      BY <1>6, <2>1 DEF CheckStop, MovesOnly, appVars
  <1>7. CASE DequeueNothing(t)
    <2>1. \A u \in Thread : Shrunk(u, 0)
      BY <1>7, SameSlots DEF DequeueNothing, appVars
    <2> QED
      BY <1>7, <2>1 DEF DequeueNothing, MovesOnly, appVars
  <1>8. CASE Dequeue(t)
    <2>1. Shrunk(t, 1)
      BY <1>8, DequeueSlots
    <2>2. \A u \in Thread : u # t => Shrunk(u, 0)
      BY <1>8, SameSlots DEF Dequeue, appVars
    <2> QED
      BY <1>8, <2>1, <2>2 DEF Dequeue, MovesOnly, appVars
  <1>9. CASE ReadInUse(t)
    <2>1. \A u \in Thread : Shrunk(u, 0)
      BY <1>9, SameSlots DEF ReadInUse, appVars
    <2> QED
      BY <1>9, <2>1 DEF ReadInUse, MovesOnly, appVars
  <1> QED
    BY <1>1, <1>2, <1>3, <1>4, <1>5, <1>6, <1>7, <1>8, <1>9

-----------------------------------------------------------------------------
(* The remaining steps change buffer heads, the pool, or add a log. *)

\* What the invariant says of one log.
LEMMA SlotFacts ==
  ASSUME IInv, NEW u \in Thread, NEW i \in Slots(u)
  PROVE  /\ i \in Nat
         /\ LogAt(u, i) \in Log /\ LogAt(u, i).buf \in Buffer
         /\ LogAt(u, i).start \in Nat /\ LogAt(u, i).len \in Nat
         /\ LogAt(u, i).idx \in Nat
         /\ EndOf(LogAt(u, i)) \in Nat
         /\ holder[LogAt(u, i).buf] = u
  <1>1. i \in Nat
    BY DEF Slots
  <1>2. LogAt(u, i) \in Log /\ holder[LogAt(u, i).buf] = u
    BY DEF IInv, RoomInv, HolderInv
  <1>3. /\ LogAt(u, i).buf \in Buffer /\ LogAt(u, i).start \in Nat
        /\ LogAt(u, i).len \in Nat /\ LogAt(u, i).idx \in Nat
    BY <1>2 DEF Log
  <1>4. EndOf(LogAt(u, i)) \in Nat
    BY <1>3, Constants DEF EndOf
  <1> QED
    BY <1>1, <1>2, <1>3, <1>4

\* The current log of a thread inside a closure is its newest.
LEMMA NewestSlot ==
  ASSUME IInv, NEW u \in Thread, frames[u] # << >>,
         NEW n, n = Len(queue[u]) + 1
  PROVE  /\ n \in Slots(u) /\ LogAt(u, n) = cur[u]
         /\ \A i \in Slots(u) : i # n => i < n /\ i <= Len(queue[u])
  <1>1. Len(queue[u]) \in Nat
    <2>1. queue[u] \in Seq(Log)
      BY DEF IInv, TypeInv, TypeOK
    <2> QED
      BY <2>1
  <1> QED
    BY <1>1 DEF Slots, LogAt

\* What all of them keep of the slots: everything.
LEMMA SlotsSame ==
  ASSUME \A u \in Thread : Shrunk(u, 0)
  PROVE  \A u \in Thread : \A i \in Slots(u)' :
           /\ i \in Slots(u)
           /\ LogAt(u, i)' = LogAt(u, i)
           /\ Committed(u, i)' <=> Committed(u, i)
           /\ EndOf(LogAt(u, i))' = EndOf(LogAt(u, i))
  <1>1. \A u : \A i \in Slots(u)' : i + 0 = i
    BY DEF Slots
  <1> QED
    BY <1>1 DEF Shrunk, EndOf

\* The same for one thread.
LEMMA SlotElsewhere ==
  ASSUME NEW u, Shrunk(u, 0), NEW i \in Slots(u)'
  PROVE  /\ i \in Slots(u)
         /\ LogAt(u, i)' = LogAt(u, i)
         /\ Committed(u, i)' <=> Committed(u, i)
         /\ EndOf(LogAt(u, i))' = EndOf(LogAt(u, i))
  <1>1. i + 0 = i
    BY DEF Slots
  <1> QED
    BY <1>1 DEF Shrunk, EndOf

\* reclaim_log as far as fetch_add: the oldest log leaves, and nr_reclaimed
\* stays below the numbers of those that are left.
LEMMA ReclaimKeeps ==
  ASSUME IInv, TypeInv', NEW t \in Thread, Reclaim(t)
  PROVE  IInv'
  <1>0. /\ RoomInv /\ OrderInv /\ CountInv /\ HeadInv
        /\ PcInv /\ PoolInv /\ StackInv /\ HolderInv
        /\ nrReclaimed \in [Buffer -> Nat] /\ nrLogs \in [Buffer -> Nat]
        /\ valPc \in [Thread -> {"off", "check", "dequeue", "validate",
                                 "inUse", "nrLogs", "exited"}]
    BY DEF IInv, TypeInv, TypeOK
  <1> DEFINE b == valLog[t].buf
  <1>1. /\ valPc' = [valPc EXCEPT ![t] = "inUse"] /\ valPc[t] = "validate"
        /\ UNCHANGED <<appVars, queue, stop, valLog, nrLogs, inUse, poolVars>>
        /\ nrReclaimed' = [nrReclaimed EXCEPT ![b] = @ + 1]
    BY DEF Reclaim
  <1>2. 0 \in Slots(t) /\ LogAt(t, 0) = valLog[t] /\ Committed(t, 0)
    BY <1>1 DEF Slots, LogAt, Committed
  <1>3. b \in Buffer /\ holder[b] = t
    BY <1>0, <1>2 DEF RoomInv, HolderInv, Log
  <1>4. \A u \in Thread : Shrunk(u, 0)
    BY <1>0, <1>1, SameSlots DEF appVars
  <1>5. \A u \in Thread : \A i \in Slots(u)' : <<u, i>> # <<t, 0>>
    BY <1>0, <1>1 DEF Slots
  <1> HIDE DEF b
  <1>6. RoomInv' /\ OrderInv'
    <2>1. RoomInv'
      BY <1>0, <1>4, SlotsSame DEF RoomInv
    <2>2. OrderInv'
      BY <1>0, <1>4, SlotsSame DEF OrderInv
    <2> QED
      BY <2>1, <2>2
  <1>7. CountInv'
    <2>1. SUFFICES ASSUME NEW u \in Thread, NEW i \in Slots(u)',
                          Committed(u, i)'
          PROVE  (/\ nrReclaimed[LogAt(u, i).buf] < LogAt(u, i).idx
                  /\ LogAt(u, i).idx <= nrLogs[LogAt(u, i).buf]
                  /\ \A j \in Slots(u) :
                       i < j /\ Committed(u, j)
                         /\ LogAt(u, i).buf = LogAt(u, j).buf
                       => LogAt(u, i).idx < LogAt(u, j).idx)'
      BY DEF CountInv
    <2>2. /\ i \in Slots(u) /\ LogAt(u, i)' = LogAt(u, i) /\ Committed(u, i)
          /\ LogAt(u, i) \in Log
      BY <1>0, <1>4, <2>1, SlotsSame DEF RoomInv
    <2>3. nrReclaimed'[LogAt(u, i).buf] < LogAt(u, i).idx
      <3>1. CASE LogAt(u, i).buf # b
        BY <1>0, <1>1, <1>3, <2>2, <3>1 DEF CountInv, Log
      <3>2. CASE LogAt(u, i).buf = b
        <4>1. u = t
          BY <1>0, <1>3, <2>2, <3>2 DEF HolderInv
        <4>2. i \in Nat /\ 0 < i
          BY <1>5, <2>1, <4>1 DEF Slots
        <4>3. nrReclaimed[b] < valLog[t].idx /\ valLog[t].idx < LogAt(u, i).idx
          BY <1>0, <1>2, <2>2, <3>2, <4>1, <4>2 DEF CountInv, b
        <4>4. valLog[t].idx \in Nat /\ LogAt(u, i).idx \in Nat
              /\ nrReclaimed[b] \in Nat
          BY <1>0, <1>2, <1>3, <2>2 DEF RoomInv, Log
        <4>5. nrReclaimed'[b] = nrReclaimed[b] + 1
          BY <1>0, <1>1, <1>3
        <4>6. \A x, y, z \in Nat : x < y /\ y < z => x + 1 < z
          OBVIOUS
        <4>7. nrReclaimed'[b] < LogAt(u, i).idx
          BY <4>3, <4>4, <4>5, <4>6
        <4> QED
          BY <3>2, <4>7
      <3> QED
        BY <3>1, <3>2
    <2>4. ASSUME NEW j \in Slots(u)', i < j, Committed(u, j)',
                 (LogAt(u, i).buf = LogAt(u, j).buf)'
          PROVE  (LogAt(u, i).idx < LogAt(u, j).idx)'
      <3>1. j \in Slots(u) /\ LogAt(u, j)' = LogAt(u, j) /\ Committed(u, j)
        BY <1>4, <2>4, SlotsSame
      <3> QED
        BY <1>0, <2>2, <2>4, <3>1 DEF CountInv
    <2>5. LogAt(u, i)'.idx <= nrLogs'[LogAt(u, i)'.buf]
      BY <1>0, <1>1, <2>2 DEF CountInv
    <2> QED
      BY <2>2, <2>3, <2>4, <2>5
  <1>8. PcInv' /\ PoolInv'
    BY <1>0, <1>1 DEF PcInv, PoolInv, appVars, poolVars
  <1>8a. HeadInv'
    <2>1. /\ nrReclaimed[b] \in Nat /\ nrLogs[b] \in Nat
          /\ valLog[t].idx \in Nat
          /\ nrReclaimed[b] < valLog[t].idx /\ valLog[t].idx <= nrLogs[b]
      BY <1>0, <1>2, <1>3 DEF CountInv, RoomInv, Log, b
    <2>2. nrReclaimed[b] + 1 <= nrLogs[b]
      BY <2>1
    <2> QED
      BY <1>0, <1>1, <1>3, <2>2 DEF HeadInv
  <1>9. StackInv'
    <2>1. UNCHANGED <<appPc, frames, cur, stack, inUse, holder>>
      BY <1>1 DEF appVars, poolVars
    <2> QED
      BY <1>0, <1>4, <2>1, SlotsSame DEF StackInv
  <1>10. HolderInv'
    <2>1. holder' = holder /\ inUse' = inUse /\ valLog' = valLog
      BY <1>1 DEF poolVars
    <2>2. \A u \in Thread : \A i \in Slots(u)' : (holder[LogAt(u, i).buf] = u)'
      BY <1>0, <1>4, <2>1, SlotsSame DEF HolderInv
    <2>3. valPc'[t] = "inUse" /\ \A u \in Thread \ {t} : valPc'[u] = valPc[u]
      BY <1>0, <1>1
    <2>4. \A u \in Thread :
            (/\ valPc[u] \in {"inUse", "nrLogs"} => holder[valLog[u].buf] = u
             /\ valPc[u] = "nrLogs" => inUse[valLog[u].buf] = 0)'
      BY <1>0, <1>3, <2>1, <2>3 DEF HolderInv, b
    <2> QED
      BY <2>2, <2>4 DEF HolderInv
  <1> QED
    BY <1>6, <1>7, <1>8, <1>8a, <1>9, <1>10 DEF IInv

\* What StackInv says of one thread.
StackOK(u) ==
  /\ Len(stack[u]) <= 1
  /\ frames[u] # << >> /\ appPc[u] # "enqueue" => /\ stack[u] = << >>
                                                  /\ inUse[cur[u].buf] = 1
  /\ \A k \in DOMAIN stack[u] :
       /\ stack[u][k].start >= HeadSize
       /\ stack[u][k].start + MinSize <= MaxSize
       /\ inUse[stack[u][k].buf] = 1
       /\ holder[stack[u][k].buf] = u
       /\ \A i \in Slots(u) : LogAt(u, i).buf = stack[u][k].buf
            => EndOf(LogAt(u, i)) <= stack[u][k].start

\* It holds of a thread whose buffers the step leaves alone.
LEMMA StackElsewhere ==
  ASSUME IInv, NEW u \in Thread, Shrunk(u, 0),
         stack'[u] = stack[u], cur'[u] = cur[u], frames'[u] = frames[u],
         appPc'[u] = appPc[u],
         \A c \in Buffer : holder[c] = u => inUse'[c] = inUse[c]
                                            /\ holder'[c] = u
  PROVE  StackOK(u)'
  <1>1. StackOK(u)
    BY DEF IInv, StackInv, StackOK
  <1>2. frames[u] # << >> => cur[u].buf \in Buffer /\ holder[cur[u].buf] = u
    <2>1. SUFFICES ASSUME frames[u] # << >>
          PROVE  cur[u].buf \in Buffer /\ holder[cur[u].buf] = u
      OBVIOUS
    <2>2. PICK n : n = Len(queue[u]) + 1
      OBVIOUS
    <2>3. n \in Slots(u) /\ LogAt(u, n) = cur[u]
      BY <2>1, <2>2, NewestSlot
    <2> QED
      BY <2>3, SlotFacts
  <1>3. \A k \in DOMAIN stack[u] : stack[u][k].buf \in Buffer
    <2>1. stack[u] \in Seq(Addr)
      BY DEF IInv, TypeInv, TypeOK
    <2>2. \A k \in DOMAIN stack[u] : stack[u][k] \in Addr
      BY <2>1
    <2> QED
      BY <2>2 DEF Addr
  <1>4. \A i \in Slots(u)' : /\ i \in Slots(u)
                             /\ LogAt(u, i)' = LogAt(u, i)
                             /\ EndOf(LogAt(u, i))' = EndOf(LogAt(u, i))
    <2>1. \A i \in Slots(u)' : i + 0 = i
      BY DEF Slots
    <2> QED
      BY <2>1 DEF Shrunk, EndOf
  <1>5. (frames[u] # << >> /\ appPc[u] # "enqueue"
           => stack[u] = << >> /\ inUse[cur[u].buf] = 1)'
    BY <1>1, <1>2 DEF StackOK
  <1>6. ASSUME NEW k \in DOMAIN stack'[u]
        PROVE  (/\ stack[u][k].start >= HeadSize
                /\ stack[u][k].start + MinSize <= MaxSize
                /\ inUse[stack[u][k].buf] = 1
                /\ holder[stack[u][k].buf] = u
                /\ \A i \in Slots(u) : LogAt(u, i).buf = stack[u][k].buf
                     => EndOf(LogAt(u, i)) <= stack[u][k].start)'
    BY <1>1, <1>3, <1>4, <1>6 DEF StackOK
  <1> QED
    BY <1>1, <1>5, <1>6 DEF StackOK

\* The rest of ThreadLogAllocator::commit: the allocator will continue behind
\* the log just committed, or the buffer is retired.
LEMMA CommitPlaceKeeps ==
  ASSUME IInv, TypeInv', NEW t \in Thread, CommitPlace(t)
  PROVE  IInv'
  <1> DEFINE n == Len(queue[t]) + 1
  <1> DEFINE b == cur[t].buf
  <1> DEFINE e == cur[t].start + cur[t].len
  <1> DEFINE a == [buf |-> b, start |-> e]
  <1>0. /\ stack \in [Thread -> Seq(Addr)] /\ inUse \in [Buffer -> {0, 1}]
        /\ appPc \in [Thread -> {"unborn", "app", "place", "enqueue",
                                 "join", "exited"}]
        /\ frames[t] # << >>
    BY DEF CommitPlace, IInv, TypeInv, TypeOK, HasLog
  <1>1. /\ appPc' = [appPc EXCEPT ![t] = "enqueue"] /\ appPc[t] = "place"
        /\ UNCHANGED <<frames, cur, queue, valPc, valLog, nrLogs, nrReclaimed,
                       poolVars>>
    BY DEF CommitPlace, valVars
  <1>2. stack[t] = << >> /\ inUse[b] = 1
    BY <1>0, <1>1 DEF IInv, StackInv
  <1>3. /\ n \in Slots(t) /\ LogAt(t, n) = cur[t]
        /\ \A i \in Slots(t) : i # n => i < n
    BY <1>0, NewestSlot
  <1>4. /\ b \in Buffer /\ holder[b] = t /\ cur[t].start \in Nat
        /\ cur[t].len \in Nat /\ n \in Nat
    BY <1>3, SlotFacts
  <1>5. cur[t].start >= HeadSize /\ cur[t].len \in 1 .. MinSize
    <2>1. Committed(t, n)
      BY <1>1 DEF Committed
    <2> QED
      BY <1>3, <2>1 DEF IInv, RoomInv
  <1>6. /\ e \in Nat /\ e >= HeadSize /\ cur[t].start <= e
        /\ EndOf(cur[t]) = e
    BY <1>4, <1>5, Constants DEF EndOf
  <1> HIDE DEF n, e
  <1>7. \A u \in Thread : Shrunk(u, 0)
    BY <1>0, <1>1, SameSlots
  <1>8. RoomInv' /\ OrderInv' /\ CountInv'
    BY <1>1, <1>7, ShrinkKeeps DEF IInv
  <1>9. PcInv' /\ PoolInv' /\ HeadInv'
    BY <1>0, <1>1 DEF IInv, PcInv, PoolInv, HeadInv, poolVars
  <1>10. \/ /\ stack' = [stack EXCEPT ![t] = Append(<< >>, a)]
            /\ inUse' = inUse /\ e + MinSize <= MaxSize
         \/ stack' = stack /\ inUse' = [inUse EXCEPT ![b] = 0]
    BY <1>2, <1>6, Constants DEF CommitPlace, e
  <1>11. /\ \A c \in Buffer : c # b => inUse'[c] = inUse[c]
         /\ \A c \in Buffer : inUse[c] = 0 => inUse'[c] = 0
         /\ \A u \in Thread : u # t => stack'[u] = stack[u]
    BY <1>0, <1>10
  <1>12. HolderInv'
    <2>1. \A u \in Thread : \A i \in Slots(u)' : (holder[LogAt(u, i).buf] = u)'
      BY <1>1, <1>7, SlotsSame DEF IInv, HolderInv, poolVars
    <2>2. \A u \in Thread : valPc[u] = "nrLogs" => valLog[u].buf \in Buffer
      BY DEF IInv, TypeInv, HasLog, Log
    <2>3. \A u \in Thread :
            (/\ valPc[u] \in {"inUse", "nrLogs"} => holder[valLog[u].buf] = u
             /\ valPc[u] = "nrLogs" => inUse[valLog[u].buf] = 0)'
      BY <1>1, <1>11, <2>2 DEF IInv, HolderInv, poolVars
    <2> QED
      BY <2>1, <2>3 DEF HolderInv
  <1>13. ASSUME NEW i \in Slots(t), LogAt(t, i).buf = b
         PROVE  EndOf(LogAt(t, i)) <= e
    <2>1. CASE i = n
      BY <1>3, <1>6, <2>1
    <2>2. CASE i # n
      <3>1. EndOf(LogAt(t, i)) <= cur[t].start
        BY <1>3, <1>13, <2>2 DEF IInv, OrderInv
      <3>2. EndOf(LogAt(t, i)) \in Nat
        BY SlotFacts
      <3> QED
        BY <1>4, <1>6, <3>1, <3>2
    <2> QED
      BY <2>1, <2>2
  <1>14. ASSUME NEW u \in Thread, u # t
         PROVE  StackOK(u)'
    <2>1. /\ Shrunk(u, 0) /\ stack'[u] = stack[u] /\ cur'[u] = cur[u]
          /\ frames'[u] = frames[u] /\ appPc'[u] = appPc[u]
      BY <1>0, <1>1, <1>7, <1>11, <1>14
    <2>2. \A c \in Buffer : holder[c] = u => inUse'[c] = inUse[c]
                                             /\ holder'[c] = u
      BY <1>1, <1>4, <1>11, <1>14 DEF poolVars
    <2> QED
      BY <2>1, <2>2, StackElsewhere
  <1>15. StackOK(t)'
    <2>1. appPc'[t] = "enqueue"
      BY <1>0, <1>1
    <2>2. CASE stack' = stack
      BY <1>2, <2>1, <2>2 DEF StackOK
    <2>3. CASE /\ stack' = [stack EXCEPT ![t] = Append(<< >>, a)]
               /\ inUse' = inUse /\ e + MinSize <= MaxSize
      <3>1. stack'[t] = << a >>
        BY <1>0, <2>3
      <3>2. \A i \in Slots(t)' : i \in Slots(t)
                                 /\ LogAt(t, i)' = LogAt(t, i)
                                 /\ EndOf(LogAt(t, i))' = EndOf(LogAt(t, i))
        BY <1>7, SlotsSame
      <3>3. a.buf = b /\ a.start = e
        OBVIOUS
      <3> HIDE DEF a, b
      <3>4. Len(stack'[t]) = 1 /\ DOMAIN stack'[t] = {1} /\ stack'[t][1] = a
        BY <3>1
      <3>5. holder' = holder
        BY <1>1 DEF poolVars
      <3> QED
        BY <1>2, <1>4, <1>6, <1>13, <2>1, <2>3, <3>2, <3>3, <3>4, <3>5
        DEF StackOK
    <2> QED
      BY <1>10, <2>2, <2>3
  <1>16. StackInv'
    BY <1>14, <1>15 DEF StackOK, StackInv
  <1> QED
    BY <1>8, <1>9, <1>12, <1>16 DEF IInv

\* nr_reclaimed == nr_logs and in_use == 0: no log is left in the buffer.
LEMMA ExhaustedEmpty ==
  ASSUME IInv, NEW b \in Buffer, inUse[b] = 0, nrReclaimed[b] = nrLogs[b],
         NEW u \in Thread, NEW i \in Slots(u)
  PROVE  LogAt(u, i).buf # b
  <1> SUFFICES ASSUME LogAt(u, i).buf = b
      PROVE  FALSE
    OBVIOUS
  <1>1. CASE Committed(u, i)
    <2>1. nrReclaimed[b] < LogAt(u, i).idx /\ LogAt(u, i).idx <= nrLogs[b]
      BY <1>1 DEF IInv, CountInv
    <2>2. nrReclaimed[b] \in Nat /\ LogAt(u, i).idx \in Nat
      <3>1. nrReclaimed \in [Buffer -> Nat]
        BY DEF IInv, TypeInv, TypeOK
      <3> QED
        BY <3>1, SlotFacts
    <2> QED
      BY <2>1, <2>2
  <1>2. CASE ~Committed(u, i)
    <2>1. queue[u] \in Seq(Log)
      BY DEF IInv, TypeInv, TypeOK
    <2>2. Len(queue[u]) \in Nat
      BY <2>1
    <2>3. i = Len(queue[u]) + 1 /\ frames[u] # << >> /\ appPc[u] # "enqueue"
      BY <1>2, <2>2 DEF Slots, Committed
    <2>4. LogAt(u, i) = cur[u]
      BY <2>3, NewestSlot
    <2>5. inUse[cur[u].buf] = 1
      BY <2>3 DEF IInv, StackInv
    <2> QED
      BY <2>4, <2>5
  <1> QED
    BY <1>1, <1>2

\* reclaim_log's last test: the buffer it gives back is referred to by nobody.
LEMMA ReadNrLogsKeeps ==
  ASSUME IInv, TypeInv', NEW t \in Thread, ReadNrLogs(t)
  PROVE  IInv'
  <1> DEFINE b == valLog[t].buf
  <1>0. /\ valPc \in [Thread -> {"off", "check", "dequeue", "validate",
                                 "inUse", "nrLogs", "exited"}]
        /\ holder \in [Buffer -> Thread \cup {NoThread}]
        /\ freeBuffers \in Seq(Buffer)
    BY DEF IInv, TypeInv, TypeOK
  <1>1. /\ valPc[t] = "nrLogs" /\ valPc' = [valPc EXCEPT ![t] = "check"]
        /\ UNCHANGED <<appVars, queue, valLog, bufVars, fresh>>
        /\ \/ /\ nrReclaimed[b] = nrLogs[b]
              /\ freeBuffers' = Append(freeBuffers, b)
              /\ holder' = [holder EXCEPT ![b] = NoThread]
           \/ UNCHANGED <<freeBuffers, holder>>
    BY DEF ReadNrLogs
  <1>2. b \in Buffer /\ holder[b] = t /\ inUse[b] = 0
    BY <1>1 DEF IInv, TypeInv, HasLog, HolderInv, Log
  <1> HIDE DEF b
  <1>3. \A u \in Thread : valPc'[u] \in {"inUse", "nrLogs", "validate"} =>
          u # t /\ valPc'[u] = valPc[u]
    BY <1>0, <1>1
  <1>4. \A u \in Thread : Shrunk(u, 0)
    BY <1>1, <1>3, SameSlots DEF appVars
  <1>5. RoomInv' /\ OrderInv' /\ CountInv'
    BY <1>1, <1>4, ShrinkKeeps DEF IInv, bufVars
  <1>6. PcInv' /\ HeadInv'
    BY <1>1 DEF IInv, PcInv, HeadInv, appVars, bufVars
  <1>7. CASE UNCHANGED <<freeBuffers, holder>>
    <2>1. PoolInv'
      BY <1>1, <1>7 DEF IInv, PoolInv
    <2>2. StackInv'
      BY <1>1, <1>4, <1>7, SlotsSame DEF IInv, StackInv, appVars, bufVars
    <2>3. HolderInv'
      BY <1>1, <1>3, <1>4, <1>7, SlotsSame DEF IInv, HolderInv, bufVars
    <2> QED
      BY <1>5, <1>6, <2>1, <2>2, <2>3 DEF IInv
  <1>8. CASE /\ nrReclaimed[b] = nrLogs[b]
             /\ freeBuffers' = Append(freeBuffers, b)
             /\ holder' = [holder EXCEPT ![b] = NoThread]
    <2>1. \A u \in Thread : \A i \in Slots(u) : LogAt(u, i).buf # b
      BY <1>2, <1>8, ExhaustedEmpty
    <2>2. \A c : c # b => holder'[c] = holder[c]
      BY <1>0, <1>8
    <2>3. HolderInv'
      <3>1. \A u \in Thread : \A i \in Slots(u)' :
              (holder[LogAt(u, i).buf] = u)'
        BY <1>4, <2>1, <2>2, SlotsSame DEF IInv, HolderInv
      <3>2. \A u \in Thread : (valPc[u] \in {"inUse", "nrLogs"} =>
                                 holder[valLog[u].buf] = u)'
        <4>1. \A u \in Thread : valPc'[u] \in {"inUse", "nrLogs"} =>
                 u # t /\ holder[valLog[u].buf] = u /\ valLog'[u] = valLog[u]
          BY <1>1, <1>3 DEF IInv, HolderInv
        <4> QED
          BY <1>2, <2>2, <4>1
      <3>3. \A u \in Thread : (valPc[u] = "nrLogs" => inUse[valLog[u].buf] = 0)'
        BY <1>1, <1>3 DEF IInv, HolderInv, bufVars
      <3> QED
        BY <3>1, <3>2, <3>3 DEF HolderInv
    <2>4. StackInv'
      <3>1. \A u \in Thread :
              (/\ Len(stack[u]) <= 1
               /\ frames[u] # << >> /\ appPc[u] # "enqueue"
                    => stack[u] = << >> /\ inUse[cur[u].buf] = 1)'
        BY <1>1 DEF IInv, StackInv, appVars, bufVars
      <3>2. \A u \in Thread : \A k \in DOMAIN stack[u] : stack[u][k].buf # b
        BY <1>2 DEF IInv, StackInv
      <3>3. \A u \in Thread : \A k \in DOMAIN stack'[u] :
              (/\ stack[u][k].start >= HeadSize
               /\ stack[u][k].start + MinSize <= MaxSize
               /\ inUse[stack[u][k].buf] = 1
               /\ holder[stack[u][k].buf] = u)'
        BY <1>1, <2>2, <3>2 DEF IInv, StackInv, appVars, bufVars
      <3>4. \A u \in Thread : \A k \in DOMAIN stack'[u] : \A i \in Slots(u)' :
              (LogAt(u, i).buf = stack[u][k].buf
                 => EndOf(LogAt(u, i)) <= stack[u][k].start)'
        BY <1>1, <1>4, SlotsSame DEF IInv, StackInv, appVars
      <3> QED
        BY <3>1, <3>3, <3>4 DEF StackInv
    <2>5. PoolInv'
      <3>1. Len(freeBuffers) \in Nat
            /\ DOMAIN freeBuffers = 1 .. Len(freeBuffers)
        BY <1>0
      <3>2. /\ DOMAIN freeBuffers' = 1 .. Len(freeBuffers) + 1
            /\ freeBuffers'[Len(freeBuffers) + 1] = b
            /\ \A k \in DOMAIN freeBuffers : freeBuffers'[k] = freeBuffers[k]
        BY <1>0, <1>2, <1>8
      <3>3. b \notin fresh /\ \A k \in DOMAIN freeBuffers : freeBuffers[k] # b
        BY <1>2, Constants DEF IInv, PoolInv
      <3>4. holder'[b] = NoThread
        BY <1>0, <1>2, <1>8
      <3>5. \A c \in fresh' : holder'[c] = NoThread
        BY <1>1, <2>2, <3>3 DEF IInv, PoolInv
      <3>6. \A k \in DOMAIN freeBuffers' :
              holder'[freeBuffers'[k]] = NoThread /\ freeBuffers'[k] \notin fresh'
        BY <1>1, <2>2, <3>1, <3>2, <3>3, <3>4 DEF IInv, PoolInv
      <3>7. \A k, l \in DOMAIN freeBuffers' :
              freeBuffers'[k] = freeBuffers'[l] => k = l
        BY <3>1, <3>2, <3>3 DEF IInv, PoolInv
      <3> QED
        BY <3>5, <3>6, <3>7 DEF PoolInv
    <2> QED
      BY <1>5, <1>6, <2>3, <2>4, <2>5 DEF IInv
  <1> QED
    BY <1>1, <1>7, <1>8

\* nr_logs++: the current log is committed and gets the highest number of its
\* buffer.
LEMMA CommitCountKeeps ==
  ASSUME IInv, TypeInv', NEW t \in Thread, CommitCount(t)
  PROVE  IInv'
  <1>n. PICK n : n = Len(queue[t]) + 1
    OBVIOUS
  <1> DEFINE b == cur[t].buf
  <1> DEFINE k == nrLogs[b] + 1
  <1> DEFINE l == cur'[t]
  <1>0. /\ cur \in [Thread -> Log \cup {NoLog}] /\ nrLogs \in [Buffer -> Nat]
        /\ nrReclaimed \in [Buffer -> Nat] /\ queue[t] \in Seq(Log)
        /\ appPc \in [Thread -> {"unborn", "app", "place", "enqueue",
                                 "join", "exited"}]
        /\ frames[t] # << >> /\ cur[t] \in Log
    BY DEF CommitCount, IInv, TypeInv, TypeOK, HasLog
  <1>1. /\ appPc' = [appPc EXCEPT ![t] = "place"] /\ appPc[t] = "app"
        /\ nrLogs' = [nrLogs EXCEPT ![b] = k]
        /\ UNCHANGED <<frames, stack, queue, valPc, valLog, inUse,
                       nrReclaimed, poolVars>>
    BY DEF CommitCount, valVars
  <1>2. PICK m \in Lengths :
          /\ m <= MinSize
          /\ cur' = [cur EXCEPT ![t] = [cur[t] EXCEPT !.len = m, !.idx = k]]
    BY DEF CommitCount
  <1>3. m \in 1 .. MinSize
    BY <1>2, Constants
  <1>4. /\ l.buf = b /\ l.start = cur[t].start /\ l.len = m /\ l.idx = k
        /\ \A u \in Thread : u # t => cur'[u] = cur[u]
    BY <1>0, <1>2 DEF Log
  <1>5. l \in Log
    BY <1>0, <1>1 DEF TypeInv, HasLog
  <1>6. /\ n \in Slots(t) /\ LogAt(t, n) = cur[t] /\ Len(queue[t]) \in Nat
        /\ \A i \in Slots(t) : i # n => i < n /\ i <= Len(queue[t])
    BY <1>0, <1>n, NewestSlot
  <1>7. /\ b \in Buffer /\ holder[b] = t /\ n \in Nat /\ k \in Nat
        /\ nrLogs[b] \in Nat
    BY <1>0, <1>6, <1>n, SlotFacts
  <1>8. stack[t] = << >> /\ inUse[b] = 1
    BY <1>0, <1>1 DEF IInv, StackInv
  <1>9. \A u \in Thread : u # t => Shrunk(u, 0)
    BY <1>0, <1>1, <1>4, SameSlots
  <1>10. /\ Slots(t)' = Slots(t) /\ LogAt(t, n)' = l
         /\ \A i \in Slots(t) : Committed(t, i)'
         /\ \A i \in Slots(t) : i # n => LogAt(t, i)' = LogAt(t, i)
                                         /\ Committed(t, i)
    <2>1. Slots(t)' = Slots(t)
      BY <1>1 DEF Slots
    <2>2. LogAt(t, n)' = l
      BY <1>1, <1>6, <1>n DEF LogAt
    <2>3. \A i \in Slots(t) : Committed(t, i)'
      BY <1>0, <1>1 DEF Committed
    <2>4. \A i \in Slots(t) : i # n => LogAt(t, i)' = LogAt(t, i)
                                       /\ Committed(t, i)
      BY <1>1, <1>6, <1>n DEF LogAt, Committed
    <2> QED
      BY <2>1, <2>2, <2>3, <2>4
  <1> HIDE DEF b, k, l
  <1>11. \A i \in Slots(t)' :
            /\ i \in Slots(t) /\ LogAt(t, i)'.buf = LogAt(t, i).buf
            /\ LogAt(t, i)'.start = LogAt(t, i).start
            /\ LogAt(t, i)' \in Log
            /\ EndOf(LogAt(t, i))' <= EndOf(LogAt(t, i))
    <2>1. EndOf(l) <= EndOf(cur[t])
      <3>1. cur[t].len = 0
        <4>1. ~Committed(t, n)
          BY <1>1, <1>6, <1>n DEF Committed
        <4> QED
          BY <1>6, <4>1 DEF IInv, RoomInv
      <3>2. cur[t].start \in Nat
        BY <1>0 DEF Log
      <3> QED
        BY <1>3, <1>4, <3>1, <3>2, Constants DEF EndOf
    <2>2. EndOf(LogAt(t, n))' = EndOf(l) /\ EndOf(LogAt(t, n)) = EndOf(cur[t])
      BY <1>6, <1>10 DEF EndOf
    <2>3. ASSUME NEW i \in Slots(t), i # n
          PROVE  EndOf(LogAt(t, i))' = EndOf(LogAt(t, i))
      BY <1>10, <2>3 DEF EndOf
    <2> QED
      BY <1>4, <1>5, <1>6, <1>10, <2>1, <2>2, <2>3, SlotFacts DEF b
  <1>12. \A u \in Thread : \A i \in Slots(u)' :
            i \in Slots(u) /\ LogAt(u, i)'.buf = LogAt(u, i).buf
    BY <1>9, <1>11, SlotsSame, SlotElsewhere
  <1>13. RoomInv'
    <2>1. ASSUME NEW u \in Thread, NEW i \in Slots(u)'
          PROVE  (/\ LogAt(u, i) \in Log
                  /\ LogAt(u, i).start >= HeadSize
                  /\ LogAt(u, i).start + MinSize <= MaxSize
                  /\ IF Committed(u, i) THEN LogAt(u, i).len \in 1 .. MinSize
                     ELSE LogAt(u, i).len = 0)'
      <3>1. CASE u # t
        BY <1>9, <2>1, <3>1, SlotElsewhere DEF IInv, RoomInv
      <3>2. CASE u = t /\ i # n
        BY <1>10, <2>1, <3>2 DEF IInv, RoomInv
      <3>3. CASE u = t /\ i = n
        <4>1. l.start >= HeadSize /\ l.start + MinSize <= MaxSize
          BY <1>4, <1>6 DEF IInv, RoomInv
        <4> QED
          BY <1>3, <1>4, <1>5, <1>6, <1>10, <3>3, <4>1
      <3> QED
        BY <3>1, <3>2, <3>3
    <2> QED
      BY <2>1 DEF RoomInv
  <1>14. OrderInv'
    <2>1. ASSUME NEW u \in Thread, NEW i \in Slots(u)', NEW j \in Slots(u)',
                 i < j, (LogAt(u, i).buf = LogAt(u, j).buf)'
          PROVE  (EndOf(LogAt(u, i)) <= LogAt(u, j).start)'
      <3>1. CASE u # t
        BY <1>9, <2>1, <3>1, SlotElsewhere DEF IInv, OrderInv
      <3>2. CASE u = t
        <4>1. /\ i \in Slots(t) /\ j \in Slots(t)
              /\ LogAt(t, i).buf = LogAt(t, j).buf
              /\ LogAt(t, j)'.start = LogAt(t, j).start
              /\ i # n
          <5>1. i \in Nat /\ j \in Nat
            BY <1>11, <2>1, <3>2, SlotFacts
          <5> QED
            BY <1>6, <1>7, <1>11, <2>1, <3>2, <5>1
        <4>2. EndOf(LogAt(t, i)) <= LogAt(t, j).start
          BY <2>1, <4>1 DEF IInv, OrderInv
        <4>3. EndOf(LogAt(t, i))' = EndOf(LogAt(t, i))
          BY <1>10, <4>1 DEF EndOf
        <4> QED
          BY <3>2, <4>1, <4>2, <4>3
      <3> QED
        BY <3>1, <3>2
    <2> QED
      BY <2>1 DEF OrderInv
  <1>15. HeadInv'
    BY <1>0, <1>1, <1>7 DEF IInv, HeadInv, k
  <1>16. CountInv'
    <2>1. ASSUME NEW u \in Thread, NEW i \in Slots(u)', Committed(u, i)', u # t
          PROVE  (/\ nrReclaimed[LogAt(u, i).buf] < LogAt(u, i).idx
                  /\ LogAt(u, i).idx <= nrLogs[LogAt(u, i).buf]
                  /\ \A j \in Slots(u) :
                       i < j /\ Committed(u, j)
                         /\ LogAt(u, i).buf = LogAt(u, j).buf
                       => LogAt(u, i).idx < LogAt(u, j).idx)'
      <3>1. /\ i \in Slots(u) /\ LogAt(u, i)' = LogAt(u, i) /\ Committed(u, i)
        BY <1>9, <2>1, SlotElsewhere
      <3>2. LogAt(u, i).buf \in Buffer /\ LogAt(u, i).buf # b
        BY <1>7, <2>1, <3>1, SlotFacts
      <3>3. nrLogs'[LogAt(u, i).buf] = nrLogs[LogAt(u, i).buf]
        BY <1>0, <1>1, <3>2
      <3>4. \A j \in Slots(u)' : /\ j \in Slots(u)
                                 /\ LogAt(u, j)' = LogAt(u, j)
                                 /\ Committed(u, j)' <=> Committed(u, j)
        BY <1>9, <2>1, SlotElsewhere
      <3> QED
        BY <1>1, <3>1, <3>3, <3>4 DEF IInv, CountInv
    <2>2. ASSUME NEW i \in Slots(t), i # n
          PROVE  /\ nrReclaimed[LogAt(t, i).buf] < LogAt(t, i).idx
                 /\ LogAt(t, i).idx <= nrLogs[LogAt(t, i).buf]
                 /\ nrLogs[LogAt(t, i).buf] <= nrLogs'[LogAt(t, i).buf]
                 /\ LogAt(t, i).buf = b => LogAt(t, i).idx < k
      <3>1. /\ nrReclaimed[LogAt(t, i).buf] < LogAt(t, i).idx
            /\ LogAt(t, i).idx <= nrLogs[LogAt(t, i).buf]
        BY <1>10, <2>2 DEF IInv, CountInv
      <3>2. LogAt(t, i).buf \in Buffer /\ LogAt(t, i).idx \in Nat
        BY SlotFacts
      <3>3. nrLogs[LogAt(t, i).buf] \in Nat
        BY <1>0, <3>2
      <3> QED
        BY <1>0, <1>1, <1>7, <3>1, <3>2, <3>3 DEF k
    <2>3. ASSUME NEW i \in Slots(t)'
          PROVE  (/\ nrReclaimed[LogAt(t, i).buf] < LogAt(t, i).idx
                  /\ LogAt(t, i).idx <= nrLogs[LogAt(t, i).buf])'
      <3>1. CASE i = n
        <4>1. nrReclaimed[b] <= nrLogs[b] /\ nrReclaimed[b] \in Nat
          BY <1>0, <1>7 DEF IInv, HeadInv
        <4>2. nrLogs'[b] = k /\ nrReclaimed' = nrReclaimed
          BY <1>0, <1>1, <1>7
        <4>3. nrReclaimed[b] < k
          BY <1>7, <4>1 DEF k
        <4> QED
          BY <1>4, <1>7, <1>10, <3>1, <4>2, <4>3
      <3>2. CASE i # n
        <4>1. i \in Slots(t) /\ LogAt(t, i)' = LogAt(t, i)
          BY <1>10, <2>3, <3>2
        <4>2. /\ LogAt(t, i).idx \in Nat
              /\ nrLogs[LogAt(t, i).buf] \in Nat /\ nrLogs'[LogAt(t, i).buf] \in Nat
          BY <1>0, <4>1, SlotFacts DEF TypeInv, TypeOK
        <4>3. nrReclaimed' = nrReclaimed
          BY <1>1
        <4> QED
          BY <2>2, <3>2, <4>1, <4>2, <4>3
      <3> QED
        BY <3>1, <3>2
    <2>4. ASSUME NEW i \in Slots(t)', NEW j \in Slots(t)', i < j,
                 (LogAt(t, i).buf = LogAt(t, j).buf)'
          PROVE  (LogAt(t, i).idx < LogAt(t, j).idx)'
      <3>1. /\ i \in Slots(t) /\ j \in Slots(t) /\ i # n
            /\ LogAt(t, i).buf = LogAt(t, j).buf
            /\ LogAt(t, i)' = LogAt(t, i)
        <4>1. i \in Nat /\ j \in Nat
          BY <1>11, <2>4, SlotFacts
        <4> QED
          BY <1>6, <1>7, <1>10, <1>11, <2>4, <4>1
      <3>2. CASE j = n
        <4>1. LogAt(t, i).buf = b
          BY <1>6, <3>1, <3>2 DEF b
        <4> QED
          BY <1>4, <1>10, <2>2, <3>1, <3>2, <4>1
      <3>3. CASE j # n
        BY <1>10, <2>4, <3>1, <3>3 DEF IInv, CountInv
      <3> QED
        BY <3>2, <3>3
    <2> QED
      BY <2>1, <2>3, <2>4 DEF CountInv
  <1>17. PcInv'
    BY <1>0, <1>1 DEF IInv, PcInv
  <1>18. HolderInv' /\ PoolInv'
    BY <1>1, <1>12 DEF IInv, HolderInv, PoolInv, poolVars
  <1>19. StackInv'
    <2>1. ASSUME NEW u \in Thread, u # t
          PROVE  StackOK(u)'
      <3>1. \A c \in Buffer : holder[c] = u => inUse'[c] = inUse[c]
                                               /\ holder'[c] = u
        BY <1>1 DEF poolVars
      <3> QED
        BY <1>0, <1>1, <1>4, <1>9, <2>1, <3>1, StackElsewhere
    <2>2. StackOK(t)'
      <3>1. stack'[t] = << >> /\ inUse'[cur'[t].buf] = 1
        BY <1>1, <1>4, <1>8 DEF l
      <3> QED
        BY <3>1 DEF StackOK
    <2> QED
      BY <2>1, <2>2 DEF StackOK, StackInv
  <1> QED
    BY <1>13, <1>14, <1>15, <1>16, <1>17, <1>18, <1>19 DEF IInv

\* new_log: the closure's log becomes the newest slot; it is not committed.
LEMMA StartSlots ==
  ASSUME IInv, NEW t \in Thread, frames[t] = << >>, appPc[t] = "app",
         NEW a \in Addr, StartLog(t, a), NEW n, n = Len(queue[t]) + 1
  PROVE  /\ \A u \in Thread : u # t => Shrunk(u, 0)
         /\ n \in Nat
         /\ LogAt(t, n)' = [buf |-> a.buf, start |-> a.start,
                            len |-> 0, idx |-> 0]
         /\ ~Committed(t, n)'
         /\ \A i \in Slots(t)' : i # n => /\ i \in Slots(t) /\ i < n
                                          /\ LogAt(t, i)' = LogAt(t, i)
                                          /\ Committed(t, i)
                                          /\ EndOf(LogAt(t, i))' = EndOf(LogAt(t, i))
         /\ \A i \in Slots(t)' : i <= n
         /\ frames'[t] = << a >>
  <1>1. /\ cur \in [Thread -> Log \cup {NoLog}] /\ queue[t] \in Seq(Log)
        /\ frames \in [Thread -> Seq(Addr)]
    BY DEF IInv, TypeInv, TypeOK
  <1>2. /\ cur' = [cur EXCEPT ![t] = [buf |-> a.buf, start |-> a.start,
                                      len |-> 0, idx |-> 0]]
        /\ frames' = [frames EXCEPT ![t] = Append(@, a)]
        /\ UNCHANGED <<appPc, queue, valPc, valLog>>
    BY DEF StartLog, valVars
  <1>3. /\ cur'[t] = [buf |-> a.buf, start |-> a.start, len |-> 0, idx |-> 0]
        /\ \A u \in Thread : u # t => cur'[u] = cur[u]
                                      /\ frames'[u] = frames[u]
        /\ frames'[t] = << a >>
    BY <1>1, <1>2
  <1>4. \A u \in Thread : u # t => Shrunk(u, 0)
    BY <1>2, <1>3, SameSlots
  <1>5. n \in Nat /\ Len(queue[t]) \in Nat
    BY <1>1
  <1>6. LogAt(t, n)' = cur'[t] /\ ~Committed(t, n)'
    BY <1>2, <1>5 DEF LogAt, Committed
  <1>7. ASSUME NEW i \in Slots(t)', i # n
        PROVE  /\ i \in Slots(t) /\ i < n /\ LogAt(t, i)' = LogAt(t, i)
               /\ Committed(t, i)
               /\ EndOf(LogAt(t, i))' = EndOf(LogAt(t, i))
    <2>1. i \in 0 .. Len(queue[t]) /\ (i = 0 => valPc[t] = "validate")
      BY <1>2, <1>5, <1>7 DEF Slots
    <2>2. LogAt(t, i)' = LogAt(t, i)
      BY <1>2, <2>1 DEF LogAt
    <2> QED
      BY <1>5, <2>1, <2>2 DEF Slots, Committed, EndOf
  <1>8. \A i \in Slots(t)' : i <= n
    BY <1>2, <1>5 DEF Slots
  <1> QED
    BY <1>3, <1>4, <1>5, <1>6, <1>7, <1>8

\* A log may begin behind the logs of a buffer its thread holds, or anywhere
\* in one that nobody held.
LEMMA StartKeeps ==
  ASSUME IInv, TypeInv', NEW t \in Thread, frames[t] = << >>,
         appPc[t] = "app", NEW a \in Addr, StartLog(t, a),
         a.start >= HeadSize, a.start + MinSize <= MaxSize,
         \A i \in Slots(t) : LogAt(t, i).buf = a.buf
                               => EndOf(LogAt(t, i)) <= a.start,
         holder'[a.buf] = t, inUse'[a.buf] = 1,
         \A c \in Buffer : holder[c] \in Thread =>
           /\ holder'[c] = holder[c] /\ nrLogs'[c] = nrLogs[c]
           /\ inUse'[c] = inUse[c] /\ nrReclaimed'[c] = nrReclaimed[c],
         stack'[t] = << >>,
         \A u \in Thread : u # t => stack'[u] = stack[u],
         HeadInv', PoolInv'
  PROVE  IInv'
  <1>1. PICK n : n = Len(queue[t]) + 1
    OBVIOUS
  <1>2. /\ \A u \in Thread : u # t => Shrunk(u, 0)
        /\ n \in Nat
        /\ LogAt(t, n)' = [buf |-> a.buf, start |-> a.start,
                           len |-> 0, idx |-> 0]
        /\ ~Committed(t, n)'
        /\ \A i \in Slots(t)' : i # n => /\ i \in Slots(t) /\ i < n
                                         /\ LogAt(t, i)' = LogAt(t, i)
                                         /\ Committed(t, i)
                                         /\ EndOf(LogAt(t, i))' = EndOf(LogAt(t, i))
        /\ \A i \in Slots(t)' : i <= n
        /\ frames'[t] = << a >>
    BY <1>1, StartSlots
  <1>3. ASSUME NEW u \in Thread, NEW i \in Slots(u)', u # t \/ i # n
        PROVE  /\ i \in Slots(u) /\ LogAt(u, i)' = LogAt(u, i)
               /\ Committed(u, i)' => Committed(u, i)
               /\ Committed(u, i) => Committed(u, i)'
               /\ EndOf(LogAt(u, i))' = EndOf(LogAt(u, i))
               /\ LogAt(u, i).buf \in Buffer
               /\ holder[LogAt(u, i).buf] = u
    <2>1. CASE u # t
      BY <1>2, <1>3, <2>1, SlotElsewhere, SlotFacts
    <2>2. CASE u = t /\ i # n
      <3>1. /\ i \in Slots(t) /\ i < n /\ LogAt(t, i)' = LogAt(t, i)
            /\ EndOf(LogAt(t, i))' = EndOf(LogAt(t, i))
        BY <1>2, <1>3, <2>2
      <3>2. i <= Len(queue[t])
        <4>1. queue[t] \in Seq(Log)
          BY DEF IInv, TypeInv, TypeOK
        <4>2. i \in Nat /\ Len(queue[t]) \in Nat
          BY <3>1, <4>1, SlotFacts
        <4> QED
          BY <1>1, <3>1, <4>2
      <3>3. Committed(t, i) /\ Committed(t, i)'
        <4>1. queue' = queue
          BY DEF StartLog
        <4> QED
          BY <3>2, <4>1 DEF Committed
      <3> QED
        BY <2>2, <3>1, <3>3, SlotFacts
    <2> QED
      BY <1>3, <2>1, <2>2
  <1>4. a.buf \in Buffer /\ a.start \in Nat
    BY DEF Addr
  <1>5. ASSUME NEW u \in Thread, NEW i \in Slots(u)', NEW j \in Slots(u)',
               i < j
        PROVE  u # t \/ i # n
    BY <1>2, <1>5, SlotFacts
  <1>6. RoomInv'
    <2>1. ASSUME NEW u \in Thread, NEW i \in Slots(u)'
          PROVE  (/\ LogAt(u, i) \in Log
                  /\ LogAt(u, i).start >= HeadSize
                  /\ LogAt(u, i).start + MinSize <= MaxSize
                  /\ IF Committed(u, i) THEN LogAt(u, i).len \in 1 .. MinSize
                     ELSE LogAt(u, i).len = 0)'
      <3>1. CASE u # t \/ i # n
        BY <1>3, <2>1, <3>1 DEF IInv, RoomInv
      <3>2. CASE u = t /\ i = n
        BY <1>2, <1>4, <3>2 DEF Log
      <3> QED
        BY <3>1, <3>2
    <2> QED
      BY <2>1 DEF RoomInv
  <1>7. OrderInv'
    <2>1. ASSUME NEW u \in Thread, NEW i \in Slots(u)', NEW j \in Slots(u)',
                 i < j, (LogAt(u, i).buf = LogAt(u, j).buf)'
          PROVE  (EndOf(LogAt(u, i)) <= LogAt(u, j).start)'
      <3>1. u # t \/ i # n
        BY <1>5, <2>1
      <3>2. CASE u # t \/ j # n
        BY <1>3, <2>1, <3>1, <3>2 DEF IInv, OrderInv
      <3>3. CASE u = t /\ j = n
        <4>1. LogAt(t, j)'.start = a.start /\ LogAt(t, j)'.buf = a.buf
          BY <1>2, <3>3
        <4>2. /\ i \in Slots(t) /\ LogAt(t, i)' = LogAt(t, i)
              /\ EndOf(LogAt(t, i))' = EndOf(LogAt(t, i))
          BY <1>3, <2>1, <3>1, <3>3
        <4>3. EndOf(LogAt(t, i)) <= a.start
          BY <2>1, <3>3, <4>1, <4>2
        <4> QED
          BY <3>3, <4>1, <4>2, <4>3
      <3> QED
        BY <3>2, <3>3
    <2> QED
      BY <2>1 DEF OrderInv
  <1>8. CountInv'
    <2>1. ASSUME NEW u \in Thread, NEW i \in Slots(u)', Committed(u, i)'
          PROVE  (/\ nrReclaimed[LogAt(u, i).buf] < LogAt(u, i).idx
                  /\ LogAt(u, i).idx <= nrLogs[LogAt(u, i).buf]
                  /\ \A j \in Slots(u) :
                       i < j /\ Committed(u, j)
                         /\ LogAt(u, i).buf = LogAt(u, j).buf
                       => LogAt(u, i).idx < LogAt(u, j).idx)'
      <3>1. u # t \/ i # n
        BY <1>2, <2>1
      <3>2. \A j \in Slots(u)' : Committed(u, j)' => u # t \/ j # n
        BY <1>2
      <3>3. /\ nrReclaimed'[LogAt(u, i).buf] = nrReclaimed[LogAt(u, i).buf]
            /\ nrLogs'[LogAt(u, i).buf] = nrLogs[LogAt(u, i).buf]
        BY <1>3, <3>1
      <3>4. Committed(u, i) /\ LogAt(u, i)' = LogAt(u, i) /\ i \in Slots(u)
        BY <1>3, <2>1, <3>1
      <3>5. \A j \in Slots(u)' : Committed(u, j)' =>
               j \in Slots(u) /\ LogAt(u, j)' = LogAt(u, j) /\ Committed(u, j)
        BY <1>3, <3>2
      <3> QED
        BY <3>3, <3>4, <3>5 DEF IInv, CountInv
    <2> QED
      BY <2>1 DEF CountInv
  <1>9. PcInv'
    <2>1. frames \in [Thread -> Seq(Addr)]
      BY DEF IInv, TypeInv, TypeOK
    <2>2. appPc' = appPc /\ \A u \in Thread : u # t => frames'[u] = frames[u]
      BY <2>1 DEF StartLog
    <2>3. Len(frames'[t]) = 1
      BY <1>2
    <2> QED
      BY <2>2, <2>3 DEF IInv, PcInv
  <1>10. HolderInv'
    <2>1. \A u \in Thread : \A i \in Slots(u)' : (holder[LogAt(u, i).buf] = u)'
      <3>1. ASSUME NEW u \in Thread, NEW i \in Slots(u)'
            PROVE  (holder[LogAt(u, i).buf] = u)'
        <4>1. CASE u # t \/ i # n
          BY <1>3, <3>1, <4>1
        <4>2. CASE u = t /\ i = n
          BY <1>2, <4>2
        <4> QED
          BY <4>1, <4>2
      <3> QED
        BY <3>1
    <2>2. \A u \in Thread : valPc[u] \in {"inUse", "nrLogs"} =>
                              valLog[u].buf \in Buffer
      BY DEF IInv, TypeInv, HasLog, Log
    <2>3. valPc' = valPc /\ valLog' = valLog
      BY DEF StartLog, valVars
    <2>4. \A u \in Thread :
            (/\ valPc[u] \in {"inUse", "nrLogs"} => holder[valLog[u].buf] = u
             /\ valPc[u] = "nrLogs" => inUse[valLog[u].buf] = 0)'
      BY <2>2, <2>3 DEF IInv, HolderInv
    <2> QED
      BY <2>1, <2>4 DEF HolderInv
  <1>11. StackInv'
    <2>1. /\ cur \in [Thread -> Log \cup {NoLog}]
          /\ frames \in [Thread -> Seq(Addr)]
      BY DEF IInv, TypeInv, TypeOK
    <2>2. ASSUME NEW u \in Thread, u # t
          PROVE  StackOK(u)'
      <3>1. /\ cur'[u] = cur[u] /\ frames'[u] = frames[u]
            /\ appPc'[u] = appPc[u] /\ stack'[u] = stack[u]
        BY <2>1, <2>2 DEF StartLog
      <3>2. Shrunk(u, 0)
        BY <1>2, <2>2
      <3> QED
        BY <3>1, <3>2, StackElsewhere
    <2>3. StackOK(t)'
      <3>1. cur'[t].buf = a.buf
        BY <2>1 DEF StartLog
      <3> QED
        BY <3>1 DEF StackOK
    <2> QED
      BY <2>2, <2>3 DEF StackOK, StackInv
  <1> QED
    BY <1>6, <1>7, <1>8, <1>9, <1>10, <1>11 DEF IInv

\* allocate(): the three ways to find room for a log all meet StartKeeps.
LEMMA NewLogKeeps ==
  ASSUME IInv, TypeInv', MaxDepth = 1, NEW t \in Thread, NewLog(t)
  PROVE  IInv'
  <1>1. /\ frames[t] \in Seq(Addr) /\ stack \in [Thread -> Seq(Addr)]
        /\ freeBuffers \in Seq(Buffer) /\ fresh \subseteq Buffer
        /\ holder \in [Buffer -> Thread \cup {NoThread}]
        /\ nrLogs \in [Buffer -> Nat] /\ nrReclaimed \in [Buffer -> Nat]
        /\ inUse \in [Buffer -> {0, 1}]
    BY DEF IInv, TypeInv, TypeOK
  <1>2. frames[t] = << >> /\ appPc[t] = "app"
    <2>1. CanStart(t)
      BY DEF NewLog, NewLogSameBuffer, NewLogFreeBuffer, NewLogFreshBuffer,
             TakeBuffer
    <2>2. Len(frames[t]) < 1
      BY <2>1 DEF CanStart
    <2> QED
      BY <1>1, <2>1, <2>2 DEF CanStart
  <1>3. CASE NewLogSameBuffer(t)
    <2>1. /\ stack[t] # << >> /\ StartLog(t, Last(stack[t]))
          /\ stack' = [stack EXCEPT ![t] = Front(@)]
          /\ UNCHANGED <<bufVars, poolVars>>
      BY <1>3 DEF NewLogSameBuffer
    <2>2. stack[t] \in Seq(Addr) /\ Len(stack[t]) = 1
      <3>1. stack[t] \in Seq(Addr) /\ Len(stack[t]) <= 1
        BY <1>1 DEF IInv, StackInv
      <3>2. Len(stack[t]) \in Nat /\ Len(stack[t]) # 0
        BY <2>1, <3>1
      <3>3. \A m \in Nat : m <= 1 /\ m # 0 => m = 1
        OBVIOUS
      <3> QED
        BY <3>1, <3>2, <3>3, Zenon
    <2>3. Last(stack[t]) = stack[t][1] /\ 1 \in DOMAIN stack[t]
      BY <2>2 DEF Last
    <2>4. /\ stack'[t] = << >>
          /\ \A u \in Thread : u # t => stack'[u] = stack[u]
      <3>1. Front(stack[t]) \in Seq(Addr) /\ Len(Front(stack[t])) = 0
        BY <2>1, <2>2, FrontLast
      <3>2. Front(stack[t]) = << >>
        BY <3>1
      <3> QED
        BY <1>1, <2>1, <3>2
    <2>5. PICK a \in Addr : a = stack[t][1]
      BY <2>2, <2>3
    <2>6. /\ a.start >= HeadSize /\ a.start + MinSize <= MaxSize
          /\ inUse[a.buf] = 1 /\ holder[a.buf] = t
          /\ \A i \in Slots(t) : LogAt(t, i).buf = a.buf
               => EndOf(LogAt(t, i)) <= a.start
      BY <2>3, <2>5 DEF IInv, StackInv
    <2>7. HeadInv' /\ PoolInv'
      BY <2>1 DEF IInv, HeadInv, PoolInv, bufVars, poolVars
    <2>8. StartLog(t, a)
      BY <2>1, <2>3, <2>5
    <2> QED
      BY <1>2, <2>1, <2>4, <2>6, <2>7, <2>8, StartKeeps DEF bufVars, poolVars
  <1>4. ASSUME NEW b \in Buffer, TakeBuffer(t, b), holder[b] = NoThread,
               PoolInv'
        PROVE  IInv'
    <2>1. PICK a \in Addr : a = [buf |-> b, start |-> HeadSize]
      BY Constants DEF Addr
    <2>2. a.buf = b /\ a.start = HeadSize
      BY <2>1
    <2>3. StartLog(t, a)
      BY <1>4, <2>1 DEF TakeBuffer
    <2>4. /\ nrLogs' = [nrLogs EXCEPT ![b] = 0]
          /\ inUse' = [inUse EXCEPT ![b] = 1]
          /\ nrReclaimed' = [nrReclaimed EXCEPT ![b] = 0]
          /\ holder' = [holder EXCEPT ![b] = t]
          /\ stack[t] = << >> /\ stack' = stack
      BY <1>4 DEF TakeBuffer
    <2>5. a.start >= HeadSize /\ a.start + MinSize <= MaxSize
      BY <2>2, Constants
    <2>6. \A i \in Slots(t) : LogAt(t, i).buf # a.buf
      BY <1>4, <2>2, SlotFacts, Constants
    <2>7. holder'[a.buf] = t /\ inUse'[a.buf] = 1
      BY <1>1, <2>2, <2>4
    <2>8. \A c \in Buffer : holder[c] \in Thread =>
            /\ holder'[c] = holder[c] /\ nrLogs'[c] = nrLogs[c]
            /\ inUse'[c] = inUse[c] /\ nrReclaimed'[c] = nrReclaimed[c]
      BY <1>1, <1>4, <2>4, Constants
    <2>9. HeadInv'
      BY <1>1, <2>4 DEF IInv, HeadInv
    <2>10. stack'[t] = << >> /\ \A u \in Thread : u # t => stack'[u] = stack[u]
      BY <2>4
    <2> QED
      BY <1>2, <1>4, <2>3, <2>5, <2>6, <2>7, <2>8, <2>9, <2>10, StartKeeps
  <1>5. CASE NewLogFreeBuffer(t)
    <2>1. /\ freeBuffers # << >> /\ TakeBuffer(t, Head(freeBuffers))
          /\ freeBuffers' = Tail(freeBuffers) /\ fresh' = fresh
      BY <1>5 DEF NewLogFreeBuffer
    <2>2. PICK b \in Buffer : b = Head(freeBuffers)
      BY <1>1, <2>1
    <2>3. /\ Len(freeBuffers) \in Nat \ {0}
          /\ DOMAIN freeBuffers = 1 .. Len(freeBuffers)
          /\ DOMAIN freeBuffers' = 1 .. Len(freeBuffers) - 1
          /\ \A k \in DOMAIN freeBuffers' : /\ k + 1 \in DOMAIN freeBuffers
                                            /\ k + 1 # 1
                                            /\ freeBuffers'[k] = freeBuffers[k + 1]
          /\ b = freeBuffers[1] /\ 1 \in DOMAIN freeBuffers
      BY <1>1, <2>1, <2>2
    <2>4. holder[b] = NoThread /\ b \notin fresh
      BY <2>3 DEF IInv, PoolInv
    <2>5. holder' = [holder EXCEPT ![b] = t]
      BY <2>1, <2>2 DEF TakeBuffer
    <2>6. \A c : c # b => holder'[c] = holder[c]
      BY <1>1, <2>5
    <2>7. \A k \in DOMAIN freeBuffers' : freeBuffers'[k] # b
      BY <2>3 DEF IInv, PoolInv
    <2>8. \A c \in fresh' : holder'[c] = NoThread
      BY <2>1, <2>4, <2>6 DEF IInv, PoolInv
    <2>9. \A k \in DOMAIN freeBuffers' : /\ holder'[freeBuffers'[k]] = NoThread
                                         /\ freeBuffers'[k] \notin fresh'
      BY <2>1, <2>3, <2>6, <2>7 DEF IInv, PoolInv
    <2>10. \A k, l \in DOMAIN freeBuffers' :
             freeBuffers'[k] = freeBuffers'[l] => k = l
      <3>1. \A k, l \in DOMAIN freeBuffers' :
              freeBuffers'[k] = freeBuffers'[l] => k + 1 = l + 1
        BY <2>3 DEF IInv, PoolInv
      <3>2. \A k, l \in Int : k + 1 = l + 1 => k = l
        OBVIOUS
      <3>3. \A k \in DOMAIN freeBuffers' : k \in Int
        BY <2>3
      <3> QED
        BY <3>1, <3>2, <3>3
    <2>11. PoolInv'
      BY <2>8, <2>9, <2>10 DEF PoolInv
    <2> QED
      BY <1>4, <2>1, <2>2, <2>4, <2>11
  <1>6. CASE NewLogFreshBuffer(t)
    <2>1. PICK b \in fresh : TakeBuffer(t, b) /\ fresh' = fresh \ {b}
      BY <1>6 DEF NewLogFreshBuffer
    <2>2. freeBuffers = << >> /\ freeBuffers' = freeBuffers
      BY <1>6 DEF NewLogFreshBuffer
    <2>3. b \in Buffer /\ holder[b] = NoThread
      BY <1>1, <2>1 DEF IInv, PoolInv
    <2>4. \A c : c # b => holder'[c] = holder[c]
      BY <1>1, <2>1 DEF TakeBuffer
    <2>5. DOMAIN freeBuffers' = {}
      BY <2>2
    <2>6. PoolInv'
      BY <2>1, <2>4, <2>5 DEF IInv, PoolInv
    <2> QED
      BY <1>4, <2>1, <2>3, <2>6
  <1> QED
    BY <1>3, <1>5, <1>6 DEF NewLog

-----------------------------------------------------------------------------
(* The invariant, and what follows from it. *)

LEMMA IInvInit == Init => IInv
  <1> SUFFICES ASSUME Init
      PROVE  IInv
    OBVIOUS
  <1>1. TypeInv
    BY TypeInit
  <1>2. \A t \in Thread : /\ queue[t] = << >> /\ frames[t] = << >>
                          /\ valPc[t] = "off" /\ stack[t] = << >>
    BY DEF Init
  <1>3. \A t \in Thread : \A i : i \notin Slots(t)
    <2>1. \A t \in Thread : Len(queue[t]) = 0
      BY <1>2
    <2> QED
      BY <1>2, <2>1 DEF Slots
  <1>4. RoomInv /\ OrderInv /\ CountInv
    BY <1>3 DEF RoomInv, OrderInv, CountInv
  <1>5. HolderInv /\ PcInv
    BY <1>2, <1>3 DEF HolderInv, PcInv
  <1>6. StackInv
    <2>1. \A t \in Thread : Len(stack[t]) = 0 /\ DOMAIN stack[t] = {}
      BY <1>2
    <2> QED
      BY <1>2, <2>1 DEF StackInv
  <1>7. PoolInv
    <2>1. DOMAIN freeBuffers = {} /\ \A b \in Buffer : holder[b] = NoThread
      BY DEF Init
    <2> QED
      BY <2>1 DEF PoolInv, Init
  <1>8. HeadInv
    BY DEF Init, HeadInv
  <1> QED
    BY <1>1, <1>4, <1>5, <1>6, <1>7, <1>8 DEF IInv

LEMMA IInvNext == ASSUME IInv, MaxDepth = 1, [Next]_vars PROVE IInv'
  <1>1. TypeInv'
    BY TypeNext DEF IInv
  <1>2. ASSUME NEW t \in Thread, App(t) \/ Validator(t)
        PROVE  IInv'
    <2>1. CASE \/ Register(t) \/ CommitTooLong(t) \/ Enqueue(t)
               \/ Unregister(t) \/ Join(t) \/ CheckStop(t)
               \/ DequeueNothing(t) \/ Dequeue(t) \/ ReadInUse(t)
      BY <1>1, <2>1, MovingSteps, MovesKeep
    <2>2. CASE NewLog(t)
      BY <1>1, <2>2, NewLogKeeps
    <2>3. CASE CommitCount(t)
      BY <1>1, <2>3, CommitCountKeeps
    <2>4. CASE CommitPlace(t)
      BY <1>1, <2>4, CommitPlaceKeeps
    <2>5. CASE Reclaim(t)
      BY <1>1, <2>5, ReclaimKeeps
    <2>6. CASE ReadNrLogs(t)
      BY <1>1, <2>6, ReadNrLogsKeeps
    <2> QED
      BY <1>2, <2>1, <2>2, <2>3, <2>4, <2>5, <2>6 DEF App, Validator, Commit
  <1>3. CASE UNCHANGED vars
    <2>1. \A u \in Thread : Shrunk(u, 0)
      BY <1>3, SameSlots DEF vars, appVars, valVars
    <2>2. MovesOnly
      BY <1>3, <2>1 DEF MovesOnly, vars, appVars, valVars
    <2> QED
      BY <1>1, <2>2, MovesKeep
  <1> QED
    BY <1>2, <1>3 DEF Next

\* The invariant keeps logs apart: those of one thread by their order, those
\* of two because a buffer has one holder.
LEMMA IInvDisjoint == IInv => LogsDisjoint
  <1> SUFFICES ASSUME IInv
      PROVE  LogsDisjoint
    OBVIOUS
  <1>1. ASSUME NEW t \in Thread, NEW i \in Slots(t)
        PROVE  LogAt(t, i).start >= HeadSize /\ EndOf(LogAt(t, i)) <= MaxSize
    <2>1. /\ LogAt(t, i).start \in Nat /\ LogAt(t, i).len \in Nat
          /\ LogAt(t, i).start >= HeadSize
          /\ LogAt(t, i).start + MinSize <= MaxSize
          /\ LogAt(t, i).len = 0 \/ LogAt(t, i).len \in 1 .. MinSize
      BY SlotFacts DEF IInv, RoomInv
    <2> QED
      BY <2>1, Constants DEF EndOf
  <1>2. ASSUME NEW t \in Thread, NEW u \in Thread,
               NEW i \in Slots(t), NEW j \in Slots(u),
               <<t, i>> # <<u, j>>, LogAt(t, i).buf = LogAt(u, j).buf
        PROVE  \/ EndOf(LogAt(t, i)) <= LogAt(u, j).start
               \/ EndOf(LogAt(u, j)) <= LogAt(t, i).start
    <2>1. t = u
      BY <1>2, SlotFacts
    <2>2. i \in Nat /\ j \in Nat /\ i # j
      BY <1>2, <2>1, SlotFacts
    <2>3. i < j \/ j < i
      BY <2>2
    <2> QED
      BY <1>2, <2>1, <2>3 DEF IInv, OrderInv
  <1> QED
    BY <1>1, <1>2 DEF LogsDisjoint

\* It keeps free buffers unused: whatever refers to a buffer holds it.
LEMMA IInvFree == IInv => FreeBuffersUnused
  <1> SUFFICES ASSUME IInv
      PROVE  FreeBuffersUnused
    OBVIOUS
  <1>1. \A b \in Range(freeBuffers) \cup fresh : holder[b] = NoThread
    BY DEF IInv, PoolInv, Range
  <1>2. ASSUME NEW b, holder[b] = NoThread, NEW t \in Thread
        PROVE  ~HasLogIn(t, b) /\ ~StackedIn(t, b)
    BY <1>2, Constants DEF IInv, HolderInv, StackInv, HasLogIn, StackedIn
  <1> QED
    BY <1>1, <1>2 DEF FreeBuffersUnused, IInv, PoolInv

\* No two logs that are not reclaimed share a line, whatever the number of
\* threads, buffers and sizes, if closures do not nest (log.hpp: allocate,
\* commit and reclaim_log; no application here nests closures).
THEOREM LogsStayDisjoint ==
  ASSUME MaxDepth = 1
  PROVE  Spec => []LogsDisjoint
  <1>1. Init => IInv
    BY IInvInit
  <1>2. IInv /\ [Next]_vars => IInv'
    BY IInvNext
  <1>3. IInv => LogsDisjoint
    BY IInvDisjoint
  <1> QED
    BY <1>1, <1>2, <1>3, PTL DEF Spec

\* Nothing refers to a buffer in the global free list or one the heap has not
\* given out, and none is in the list twice, under the same assumption.
THEOREM FreeBuffersStayUnused ==
  ASSUME MaxDepth = 1
  PROVE  Spec => []FreeBuffersUnused
  <1>1. Init => IInv
    BY IInvInit
  <1>2. IInv /\ [Next]_vars => IInv'
    BY IInvNext
  <1>3. IInv => FreeBuffersUnused
    BY IInvFree
  <1> QED
    BY <1>1, <1>2, <1>3, PTL DEF Spec
=============================================================================
