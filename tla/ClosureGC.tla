----------------------------- MODULE ClosureGC -----------------------------
(***************************************************************************)
(* The garbage collector of the Orthrus runtime (include/free_log.hpp).    *)
(* A closure is registered in closure_start_log under the tick at which it *)
(* starts, until it has been validated.  A version that a store replaces   *)
(* is pushed to the free log of its thread with the tick of that moment,   *)
(* and freed once that tick lies before earliest_tsc, the tick of the      *)
(* earliest closure still registered, as last polled.                      *)
(*                                                                         *)
(* One shared pointer stands for the data: closures load it and replace    *)
(* what it points to, each under the lock the applications take for it.    *)
(* The log a closure leaves is abstracted to the versions it refers to,    *)
(* which its validation may read (modules LogPipeline and HashMap).         *)
(***************************************************************************)
EXTENDS Integers, Sequences, FiniteSets, SequencesExt

CONSTANTS
  App,             \* application threads, each with a validator thread
  Obj,             \* what the heap can allocate (bounds it)
  NoObj,           \* nullptr
  Slots,           \* ClosureStartLog::MAX_SIZE
  MaxInterval,     \* MAX_TSC_INTERVAL, compared with ticks
  RingSize,        \* FreeLog::MAX_SIZE
  GcThreshold,     \* free log size above which a validator collects
  FirstTick,       \* the tick at which the process starts
  MaxTick,         \* bound: the last tick
  MaxPending,      \* bound: closures of a thread that await validation
  IdleReturnsNow   \* the variant of poll_earliest_tsc_impl: see PollEnd

ASSUME SizesAssumption ==
  /\ Slots \in Nat \ {0} /\ RingSize \in Nat \ {0} /\ MaxInterval \in Nat
  /\ FirstTick \in Nat \ {0} /\ MaxTick \in Nat
  /\ GcThreshold \in Nat /\ MaxPending \in Nat
ASSUME VariantAssumption == IdleReturnsNow \in BOOLEAN
ASSUME NullAssumption == NoObj \notin Obj
ASSUME ThreadsAssumption == IsFiniteSet(App)

Kind == {"app", "val"}
Proc == App \X Kind      \* the threads: an application thread, its validator

VARIABLES
  now,        \* current_gc_tsc()
  earliest,   \* closure_start_log.earliest_tsc
  count,      \* closure_start_log.closure_count
  startLock,  \* closure_start_log.spin_lock
  cell,       \* the version the shared pointer points to
  heap,       \* objects that malloc may return
  freeLog,    \* free_log of each application thread, from front to back
  gcLock,     \* ThreadGC::spin_lock of each application thread
  appPc,      \* where the application thread is
  open,       \* the closure it is in
  retired,    \* the argument of the push it is in
  pending,    \* its closures that have committed and are not yet validated
  valPc,      \* where its validator is
  valTick,    \* the tick of the closure just validated
  gcPc,       \* where a thread is in thread_gc or poll_earliest_tsc
  scanAt, scanTo,  \* the loop of poll_earliest_tsc_impl
  bound,      \* thread_gc's copy of earliest_tsc
  spoilt,     \* auxiliary: versions that an overfull free log has dropped, or
              \* that were pushed once more because it was full
  aborted     \* std::abort was called

startVars == <<earliest, count, startLock>>
appVars   == <<appPc, open, retired, pending>>
valVars   == <<valPc, valTick>>
gcVars    == <<gcLock, gcPc, scanAt, scanTo, bound>>
vars == <<now, startVars, cell, heap, freeLog, appVars, valVars, gcVars,
          spoilt, aborted>>

Tick    == Nat
\* A closure: its tick, the versions its log refers to and, auxiliary, whether
\* it was counted late: with its tick already passed by a poll, or before the
\* first poll of the process, which looks at no count.
Closure == [tick : Tick, refs : SUBSET Obj, late : BOOLEAN]
Entry   == [ptr : Obj, tick : Tick]
Idle    == [tick |-> 0, refs |-> {}, late |-> FALSE]

Init ==
  /\ now = FirstTick /\ earliest = 0
  /\ count = [s \in 0 .. Slots - 1 |-> 0]
  /\ startLock = FALSE
  /\ cell = NoObj /\ heap = Obj
  /\ freeLog = [t \in App |-> << >>]
  /\ gcLock = [t \in App |-> FALSE]
  /\ appPc = [t \in App |-> "idle"]
  /\ open = [t \in App |-> Idle]
  /\ retired = [t \in App |-> NoObj]
  /\ pending = [t \in App |-> << >>]
  /\ valPc = [t \in App |-> "idle"]
  /\ valTick = [t \in App |-> 0]
  /\ gcPc = [p \in Proc |-> "off"]
  /\ scanAt = [p \in Proc |-> 0] /\ scanTo = [p \in Proc |-> 0]
  /\ bound = [p \in Proc |-> 0]
  /\ spoilt = {}
  /\ aborted = FALSE

\* full() of a free log: one place of the ring always stays empty.
Full(t) == Len(freeLog[t]) = RingSize - 1

-----------------------------------------------------------------------------
\* Time passes, wherever the threads are.
TickOn ==
  /\ now < MaxTick
  /\ now' = now + 1
  /\ UNCHANGED <<startVars, cell, heap, freeLog, appVars, valVars, gcVars,
                 spoilt, aborted>>

-----------------------------------------------------------------------------
(* The application thread. *)

\* new_closure() reads the tick; it polls if that is too far from earliest.
NewClosure(t) ==
  /\ appPc[t] = "idle" /\ Len(pending[t]) < MaxPending
  /\ open' = [open EXCEPT ![t] = [tick |-> now, refs |-> {},
                                  late |-> FALSE]]
  /\ IF now >= earliest + MaxInterval
     THEN /\ appPc' = [appPc EXCEPT ![t] = "start"]
          /\ gcPc' = [gcPc EXCEPT ![<<t, "app">>] = "poll"]
     ELSE /\ appPc' = [appPc EXCEPT ![t] = "register"]
          /\ UNCHANGED gcPc
  /\ UNCHANGED <<now, startVars, cell, heap, freeLog, retired, pending,
                 valVars, gcLock, scanAt, scanTo, bound, spoilt, aborted>>

\* After the poll: still too far is fatal.
CheckInterval(t) ==
  /\ appPc[t] = "start" /\ gcPc[<<t, "app">>] = "off"
  /\ IF open[t].tick >= earliest + MaxInterval
     THEN aborted' = TRUE /\ UNCHANGED appPc
     ELSE appPc' = [appPc EXCEPT ![t] = "register"] /\ UNCHANGED aborted
  /\ UNCHANGED <<now, startVars, cell, heap, freeLog, open, retired,
                 pending, valVars, gcVars, spoilt>>

\* A closure that has read tick x and is only now counted is late.
Late(x) == \/ earliest = 0 \/ earliest > x
           \/ \E p \in Proc : gcPc[p] = "scan" /\ scanAt[p] > x

\* Mutant: the slot is that of the current tick, not of the tick logged.
RegisterNow(t) ==
  /\ appPc[t] = "register"
  /\ count' = [count EXCEPT ![(open[t].tick + 1) % Slots] = @ + 1]
  /\ open' = [open EXCEPT ![t].late = Late(open[t].tick)]
  /\ appPc' = [appPc EXCEPT ![t] = "open"]
  /\ UNCHANGED <<now, earliest, startLock, cell, heap, freeLog, retired,
                 pending, valVars, gcVars, spoilt, aborted>>

\* closure_count[tsc % MAX_SIZE].fetch_add(1): the closure's body begins.
Register(t) ==
  /\ appPc[t] = "register"
  /\ count' = [count EXCEPT ![open[t].tick % Slots] = @ + 1]
  /\ open' = [open EXCEPT ![t].late = Late(open[t].tick)]
  /\ appPc' = [appPc EXCEPT ![t] = "open"]
  /\ UNCHANGED <<now, earliest, startLock, cell, heap, freeLog, retired,
                 pending, valVars, gcVars, spoilt, aborted>>

\* ptr_t::load in a closure.
Load(t) ==
  /\ appPc[t] = "open" /\ cell # NoObj
  /\ open' = [open EXCEPT ![t].refs = @ \cup {cell}]
  /\ UNCHANGED <<now, startVars, cell, heap, freeLog, appPc, retired,
                 pending, valVars, gcVars, spoilt, aborted>>

\* Mutant: the old version is not destroyed.
StoreForgets(t) ==
  /\ appPc[t] = "open"
  /\ \E o \in heap :
       /\ heap' = heap \ {o}
       /\ cell' = o
       /\ open' = [open EXCEPT ![t].refs = @ \cup ({o, cell} \ {NoObj})]
  /\ UNCHANGED <<now, startVars, freeLog, appPc, retired, pending, valVars,
                 gcVars, spoilt, aborted>>

\* ptr_t::store: the old version is read, a new one allocated and stored; the
\* old one, if there is one, is to be destroyed.
Store(t) ==
  /\ appPc[t] = "open"
  /\ \E o \in heap :
       /\ heap' = heap \ {o}
       /\ cell' = o
       /\ open' = [open EXCEPT ![t].refs = @ \cup ({o, cell} \ {NoObj})]
  /\ retired' = [retired EXCEPT ![t] = cell]
  /\ appPc' = [appPc EXCEPT ![t] = IF cell = NoObj THEN "open" ELSE "push"]
  /\ UNCHANGED <<now, startVars, freeLog, pending, valVars, gcVars, spoilt,
                 aborted>>

\* FreeLog::push, from `retry`: the entry is written, back moves on.  When it
\* meets front, all entries are lost: the log is taken for empty ...
Push(t) ==
  /\ appPc[t] = "push" /\ gcPc[<<t, "app">>] = "off"
  /\ LET log == Append(freeLog[t], [ptr |-> retired[t], tick |-> now])
     IN IF Len(log) = RingSize
        THEN /\ freeLog' = [freeLog EXCEPT ![t] = << >>]
             /\ spoilt' = spoilt \cup {e.ptr : e \in Range(log)}
        ELSE /\ freeLog' = [freeLog EXCEPT ![t] = log]
             /\ UNCHANGED spoilt
  /\ appPc' = [appPc EXCEPT ![t] = "pushed"]
  /\ UNCHANGED <<now, startVars, cell, heap, open, retired, pending,
                 valVars, gcVars, aborted>>

\* ... a log that is now full is collected, and the pointer pushed once more.
PushCheck(t) ==
  /\ appPc[t] = "pushed"
  /\ IF Full(t)
     THEN /\ appPc' = [appPc EXCEPT ![t] = "push"]
          /\ gcPc' = [gcPc EXCEPT ![<<t, "app">>] = "try"]
          /\ spoilt' = spoilt \cup {retired[t]}
          /\ UNCHANGED retired
     ELSE /\ appPc' = [appPc EXCEPT ![t] = "open"]
          /\ retired' = [retired EXCEPT ![t] = NoObj]
          /\ UNCHANGED <<gcPc, spoilt>>
  /\ UNCHANGED <<now, startVars, cell, heap, freeLog, open, pending, valVars,
                 gcLock, scanAt, scanTo, bound, aborted>>

\* commit_log(): the closure awaits validation.
Commit(t) ==
  /\ appPc[t] = "open"
  /\ pending' = [pending EXCEPT ![t] = Append(@, open[t])]
  /\ open' = [open EXCEPT ![t] = Idle]
  /\ appPc' = [appPc EXCEPT ![t] = "idle"]
  /\ UNCHANGED <<now, startVars, cell, heap, freeLog, retired, valVars,
                 gcVars, spoilt, aborted>>

-----------------------------------------------------------------------------
(* The validator thread. *)

\* Mutant: the slot of the current tick is counted down.
ValidatedNow(t) ==
  /\ valPc[t] = "idle" /\ gcPc[<<t, "val">>] = "off" /\ pending[t] # << >>
  /\ count' = [count EXCEPT ![now % Slots] = @ - 1]
  /\ valTick' = [valTick EXCEPT ![t] = Head(pending[t]).tick]
  /\ pending' = [pending EXCEPT ![t] = Tail(@)]
  /\ valPc' = [valPc EXCEPT ![t] = "decide"]
  /\ UNCHANGED <<now, earliest, startLock, cell, heap, freeLog, appPc, open,
                 retired, gcVars, spoilt, aborted>>

\* validated_closure(), once the oldest closure has been replayed: fetch_sub.
Validated(t) ==
  /\ valPc[t] = "idle" /\ gcPc[<<t, "val">>] = "off" /\ pending[t] # << >>
  /\ LET c == Head(pending[t])
     IN /\ count' = [count EXCEPT ![c.tick % Slots] = @ - 1]
        /\ valTick' = [valTick EXCEPT ![t] = c.tick]
  /\ pending' = [pending EXCEPT ![t] = Tail(@)]
  /\ valPc' = [valPc EXCEPT ![t] = "decide"]
  /\ UNCHANGED <<now, earliest, startLock, cell, heap, freeLog, appPc, open,
                 retired, gcVars, spoilt, aborted>>

\* It collects when that closure was the earliest or the free log is long.
Decide(t) ==
  /\ valPc[t] = "decide"
  /\ valPc' = [valPc EXCEPT ![t] = "idle"]
  /\ valTick' = [valTick EXCEPT ![t] = 0]
  /\ IF valTick[t] = earliest \/ Len(freeLog[t]) > GcThreshold
     THEN gcPc' = [gcPc EXCEPT ![<<t, "val">>] = "try"]
     ELSE UNCHANGED gcPc
  /\ UNCHANGED <<now, startVars, cell, heap, freeLog, appVars, gcLock, scanAt,
                 scanTo, bound, spoilt, aborted>>

-----------------------------------------------------------------------------
(* thread_gc() and poll_earliest_tsc(), run by thread p = <<t, kind>>. *)

\* Mutant: the collector does not take its lock.
TryGcUnlocked(p) ==
  /\ gcPc[p] = "try"
  /\ gcPc' = [gcPc EXCEPT ![p] = "poll"]
  /\ UNCHANGED <<now, startVars, cell, heap, freeLog, appVars, valVars,
                 gcLock, scanAt, scanTo, bound, spoilt, aborted>>

\* gc_instance->spin_lock.TryLock(): if another thread collects, return.
TryGc(p) ==
  /\ gcPc[p] = "try"
  /\ IF gcLock[p[1]]
     THEN gcPc' = [gcPc EXCEPT ![p] = "off"] /\ UNCHANGED gcLock
     ELSE /\ gcLock' = [gcLock EXCEPT ![p[1]] = TRUE]
          /\ gcPc' = [gcPc EXCEPT ![p] = "poll"]
  /\ UNCHANGED <<now, startVars, cell, heap, freeLog, appVars, valVars,
                 scanAt, scanTo, bound, spoilt, aborted>>

\* Where a poll that found tick `e` returns to: the rest of new_closure, which
\* reads earliest_tsc again, or the loop of thread_gc.
Return(p, e) ==
  IF p[2] = "app" /\ appPc[p[1]] = "start"
  THEN gcPc' = [gcPc EXCEPT ![p] = "off"] /\ UNCHANGED bound
  ELSE gcPc' = [gcPc EXCEPT ![p] = "sweep"] /\ bound' = [bound EXCEPT ![p] = e]

\* poll_earliest_tsc() while another thread polls: what it found before.
PollBusy(p) ==
  /\ gcPc[p] = "poll" /\ startLock
  /\ Return(p, earliest)
  /\ UNCHANGED <<now, startVars, cell, heap, freeLog, appVars, valVars,
                 gcLock, scanAt, scanTo, spoilt, aborted>>

\* Mutant: the scan begins behind the earliest tick.
PollBeginLate(p) ==
  /\ gcPc[p] = "poll" /\ ~startLock
  /\ startLock' = TRUE
  /\ scanAt' = [scanAt EXCEPT ![p] = IF earliest = 0 THEN now
                                     ELSE earliest + 1]
  /\ scanTo' = [scanTo EXCEPT ![p] = now]
  /\ gcPc' = [gcPc EXCEPT ![p] = "scan"]
  /\ UNCHANGED <<now, earliest, count, cell, heap, freeLog, appVars, valVars,
                 gcLock, bound, spoilt, aborted>>

\* The lock is taken, the current tick read, and the loop over the ticks from
\* earliest_tsc to that one begins.  The first poll of the process looks at no
\* count: it has nothing to scan ...
PollBegin(p) ==
  /\ gcPc[p] = "poll" /\ ~startLock
  /\ startLock' = TRUE
  /\ scanAt' = [scanAt EXCEPT ![p] = IF earliest = 0 THEN now ELSE earliest]
  /\ scanTo' = [scanTo EXCEPT ![p] = now]
  /\ gcPc' = [gcPc EXCEPT ![p] = "scan"]
  /\ UNCHANGED <<now, earliest, count, cell, heap, freeLog, appVars, valVars,
                 gcLock, bound, spoilt, aborted>>

\* ... passes a tick whose slot counts no closure ...
PollSkip(p) ==
  /\ gcPc[p] = "scan" /\ scanAt[p] < scanTo[p]
  /\ count[scanAt[p] % Slots] = 0
  /\ scanAt' = [scanAt EXCEPT ![p] = @ + 1]
  /\ UNCHANGED <<now, startVars, cell, heap, freeLog, appVars, valVars,
                 gcLock, gcPc, scanTo, bound, spoilt, aborted>>

\* Mutant: a poll that finds nothing forgets what was found before.
PollEndZero(p) ==
  /\ gcPc[p] = "scan"
  /\ scanAt[p] < scanTo[p] => count[scanAt[p] % Slots] # 0
  /\ LET found == IF scanAt[p] < scanTo[p] THEN scanAt[p]
                  ELSE IF earliest = 0 THEN scanTo[p] ELSE 0
     IN earliest' = found /\ Return(p, found)
  /\ startLock' = FALSE
  /\ scanAt' = [scanAt EXCEPT ![p] = 0] /\ scanTo' = [scanTo EXCEPT ![p] = 0]
  /\ UNCHANGED <<now, count, cell, heap, freeLog, appVars, valVars, gcLock,
                 spoilt, aborted>>

\* Mutant: the poll returns the current tick although it found an earlier one.
PollEndNow(p) ==
  /\ gcPc[p] = "scan"
  /\ scanAt[p] < scanTo[p] => count[scanAt[p] % Slots] # 0
  /\ earliest' = scanTo[p] /\ Return(p, scanTo[p])
  /\ startLock' = FALSE
  /\ scanAt' = [scanAt EXCEPT ![p] = 0] /\ scanTo' = [scanTo EXCEPT ![p] = 0]
  /\ UNCHANGED <<now, count, cell, heap, freeLog, appVars, valVars, gcLock,
                 spoilt, aborted>>

\* ... and ends at one that does, or at the current tick: then earliest_tsc
\* stays (memcached, masstree) or becomes that tick (lsmtree, all rbv, and
\* everywhere in the first poll).  earliest_tsc is set, the lock given up.
PollEnd(p) ==
  /\ gcPc[p] = "scan"
  /\ scanAt[p] < scanTo[p] => count[scanAt[p] % Slots] # 0
  /\ LET found == IF scanAt[p] < scanTo[p] THEN scanAt[p]
                  ELSE IF IdleReturnsNow \/ earliest = 0 THEN scanTo[p]
                  ELSE earliest
     IN earliest' = found /\ Return(p, found)
  /\ startLock' = FALSE
  /\ scanAt' = [scanAt EXCEPT ![p] = 0] /\ scanTo' = [scanTo EXCEPT ![p] = 0]
  /\ UNCHANGED <<now, count, cell, heap, freeLog, appVars, valVars, gcLock,
                 spoilt, aborted>>

\* Mutant: versions retired in the earliest tick are freed as well.
SweepFreeEqual(p) ==
  /\ gcPc[p] = "sweep" /\ freeLog[p[1]] # << >>
  /\ Head(freeLog[p[1]]).tick <= bound[p]
  /\ heap' = heap \cup {Head(freeLog[p[1]]).ptr}
  /\ freeLog' = [freeLog EXCEPT ![p[1]] = Tail(@)]
  /\ UNCHANGED <<now, startVars, cell, appVars, valVars, gcVars, spoilt,
                 aborted>>

\* Mutant: pop() is forgotten.
SweepKeeps(p) ==
  /\ gcPc[p] = "sweep" /\ freeLog[p[1]] # << >>
  /\ Head(freeLog[p[1]]).tick < bound[p]
  /\ heap' = heap \cup {Head(freeLog[p[1]]).ptr}
  /\ UNCHANGED <<now, startVars, cell, freeLog, appVars, valVars, gcVars,
                 spoilt, aborted>>

\* thread_gc's loop frees the entry at the front if it is older than that ...
SweepFree(p) ==
  /\ gcPc[p] = "sweep" /\ freeLog[p[1]] # << >>
  /\ Head(freeLog[p[1]]).tick < bound[p]
  /\ heap' = heap \cup {Head(freeLog[p[1]]).ptr}
  /\ freeLog' = [freeLog EXCEPT ![p[1]] = Tail(@)]
  /\ UNCHANGED <<now, startVars, cell, appVars, valVars, gcVars, spoilt,
                 aborted>>

\* ... or stops there and gives up its lock.
SweepEnd(p) ==
  /\ gcPc[p] = "sweep"
  /\ freeLog[p[1]] # << >> => Head(freeLog[p[1]]).tick >= bound[p]
  /\ gcLock' = [gcLock EXCEPT ![p[1]] = FALSE]
  /\ gcPc' = [gcPc EXCEPT ![p] = "off"]
  /\ bound' = [bound EXCEPT ![p] = 0]
  /\ UNCHANGED <<now, startVars, cell, heap, freeLog, appVars, valVars, scanAt,
                 scanTo, spoilt, aborted>>

-----------------------------------------------------------------------------
AppStep(t) == \/ NewClosure(t) \/ CheckInterval(t) \/ Register(t) \/ Load(t)
              \/ Store(t) \/ Push(t) \/ PushCheck(t) \/ Commit(t)
ValStep(t) == Validated(t) \/ Decide(t)
GcStep(p)  == \/ TryGc(p) \/ PollBusy(p) \/ PollBegin(p) \/ PollSkip(p)
              \/ PollEnd(p) \/ SweepFree(p) \/ SweepEnd(p)

Next ==
  \/ ~aborted /\ TickOn
  \/ ~aborted /\ \E t \in App : AppStep(t) \/ ValStep(t)
  \/ ~aborted /\ \E p \in Proc : GcStep(p)
  \/ aborted /\ UNCHANGED vars

Spec == Init /\ [][Next]_vars

-----------------------------------------------------------------------------
(* Properties. *)

\* The closures that are counted: a thread's own, and those to be validated.
Counted(t) ==
  {i \in 0 .. Len(pending[t]) :
     i = 0 => appPc[t] \in {"open", "push", "pushed"}}
ClosureAt(t, i) == IF i = 0 THEN open[t] ELSE pending[t][i]

TypeOK ==
  /\ now \in Tick /\ earliest \in Tick
  /\ count \in [0 .. Slots - 1 -> Nat]
  /\ startLock \in BOOLEAN
  /\ cell \in Obj \cup {NoObj} /\ heap \subseteq Obj
  /\ freeLog \in [App -> Seq(Entry)]
  /\ gcLock \in [App -> BOOLEAN]
  /\ appPc \in [App -> {"idle", "start", "register", "open", "push",
                        "pushed"}]
  /\ open \in [App -> Closure]
  /\ retired \in [App -> Obj \cup {NoObj}]
  /\ pending \in [App -> Seq(Closure)]
  /\ valPc \in [App -> {"idle", "decide"}]
  /\ valTick \in [App -> Tick]
  /\ gcPc \in [Proc -> {"off", "try", "poll", "scan", "sweep"}]
  /\ scanAt \in [Proc -> Tick] /\ scanTo \in [Proc -> Tick]
  /\ bound \in [Proc -> Tick]
  /\ spoilt \subseteq Obj
  /\ aborted \in BOOLEAN

\* What the collector's comparison rests on: earliest_tsc, and every copy a
\* collector works with, lies at or before the start of each closure that was
\* counted before a poll had passed its tick, although ticks share slots, polls
\* overlap, some return a stale value, and threads stay between reading a tick
\* and counting it for as long as they like.
EarliestBelowPending ==
  \A t \in App : \A i \in Counted(t) :
    ~ClosureAt(t, i).late =>
      /\ earliest <= ClosureAt(t, i).tick
      /\ \A p \in Proc : gcPc[p] = "sweep" => bound[p] <= ClosureAt(t, i).tick

\* No version is freed while a closure that refers to it is running or awaits
\* validation: neither reads memory malloc may have given out again.  What an
\* overfull free log has done to a version, and closures counted late, are the
\* only exceptions the code makes.
NothingPendingFreed ==
  \A t \in App : \A i \in Counted(t) :
    ~ClosureAt(t, i).late => (ClosureAt(t, i).refs \ spoilt) \cap heap = {}

\* A retired version is in one free log, once, and neither freed nor in use,
\* whatever else an overfull log drops or pushes again: it is freed once,
\* however pushes, two collectors and the ring's end meet.
RetiredOnce ==
  \A t, u \in App : \A i \in DOMAIN freeLog[t], j \in DOMAIN freeLog[u] :
    freeLog[t][i].ptr \notin spoilt =>
      /\ freeLog[t][i].ptr \notin heap \cup {cell}
      /\ freeLog[t][i].ptr = freeLog[u][j].ptr => <<t, i>> = <<u, j>>

\* Nothing is lost but by an overfull log: an object is free, current, about
\* to be pushed, or in a free log.
NoneLost ==
  \A o \in Obj \ spoilt :
    \/ o \in heap \cup {cell}
    \/ \E t \in App : \/ appPc[t] = "push" /\ retired[t] = o
                      \/ \E e \in Range(freeLog[t]) : e.ptr = o

\* closure_count is exact, slot by slot, over every interleaving of fetch_add
\* and fetch_sub of closures whose ticks share a slot.
InSlot(s) ==
  {c \in App \X (0 .. MaxPending) : /\ c[2] \in Counted(c[1])
                                    /\ ClosureAt(c[1], c[2]).tick % Slots = s}
CountsExact == \A s \in 0 .. Slots - 1 : count[s] = Cardinality(InSlot(s))

\* Entries of a free log are in the order of their ticks, so that thread_gc
\* may stop at the first that is too young; and one thread collects at a time.
CollectorOrdered ==
  \A t \in App :
    /\ \A i, j \in DOMAIN freeLog[t] :
         i < j => freeLog[t][i].tick <= freeLog[t][j].tick
    /\ Cardinality({k \in Kind : gcPc[<<t, k>>] = "sweep"}) <= 1

\* earliest_tsc never goes back: an entry found free stays free to free.
EarliestMonotone == [][earliest' >= earliest]_vars

(* What comments of the code say, and the code does not do. *)

\* ptr_t's access is safe (ptr.hpp:31): what a closure has loaded is not freed
\* before it has been validated, late or not.
LoadsSafe ==
  \A t \in App : \A i \in Counted(t) : ClosureAt(t, i).refs \cap heap = {}

\* No double free (lsmtree's free_log.hpp:32): what a free log holds, for
\* thread_gc to free, has not been freed, full or not.
NoDoubleFree ==
  \A t \in App : \A i \in DOMAIN freeLog[t] : freeLog[t][i].ptr \notin heap

\* The process gives up for a full closure start log only (free_log.hpp:85):
\* there is a closure whose slot is not free.
AbortOnlyWhenFull == aborted => \E s \in 0 .. Slots - 1 : count[s] # 0
=============================================================================
