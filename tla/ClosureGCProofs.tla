-------------------------- MODULE ClosureGCProofs --------------------------
(***************************************************************************)
(* Proofs about ClosureGC, for any constants: types, exact slot counts,    *)
(* ordered free logs with one collector each, and an earliest_tsc that     *)
(* never goes back and lies below every closure that was not counted late. *)
(* A version that no overfull log has dropped or taken twice is in one     *)
(* place, and then, but for late closures, nothing that a running or       *)
(* pending closure refers to is freed.                                     *)
(***************************************************************************)
EXTENDS ClosureGC, FiniteSetTheorems, SequenceTheorems, TLAPS

-----------------------------------------------------------------------------
(* The inductive invariants. *)

\* Control: an application thread is in the collector only from new_closure
\* and from push; it has a version to push exactly there; a closure that is
\* not open refers to nothing; commit_log finds room.
PcAt(t) ==
  /\ gcPc[<<t, "app">>] # "off" => appPc[t] \in {"start", "push"}
  /\ appPc[t] = "start" => gcPc[<<t, "app">>] \in {"off", "poll", "scan"}
  /\ appPc[t] \in {"push", "pushed"} => retired[t] # NoObj
  /\ appPc[t] \in {"idle", "start", "register"} => open[t].refs = {}
  /\ valPc[t] = "decide" => gcPc[<<t, "val">>] = "off"
  /\ Len(pending[t]) <= MaxPending
  /\ appPc[t] # "idle" => Len(pending[t]) < MaxPending
PcInv == \A t \in App : PcAt(t)

\* Who holds the lock of a free log, and who that of closure_start_log.
Collects(t, k) ==
  /\ gcPc[<<t, k>>] \in {"poll", "scan", "sweep"}
  /\ k = "app" => appPc[t] # "start"
LockInv ==
  /\ \A t \in App : /\ \A k \in Kind : Collects(t, k) => gcLock[t]
                    /\ ~(Collects(t, "app") /\ Collects(t, "val"))
  /\ \A p \in Proc : gcPc[p] = "scan" => startLock
  /\ \A p, q \in Proc : gcPc[p] = "scan" /\ gcPc[q] = "scan" => p = q

\* A poll scans from earliest_tsc up to the tick at which it began, no
\* collector works with a later tick than earliest_tsc, and that is not in the
\* future.
ScanInv ==
  /\ \A p \in Proc : gcPc[p] = "scan" => /\ earliest <= scanAt[p]
                                         /\ scanAt[p] <= scanTo[p]
                                         /\ scanTo[p] <= now
  /\ now > 0 /\ earliest <= now
  /\ \A p \in Proc : bound[p] <= earliest

\* Free logs are ordered by tick.
RingInv ==
  \A t \in App : \A i \in DOMAIN freeLog[t] :
    /\ freeLog[t][i].tick <= now
    /\ \A j \in DOMAIN freeLog[t] :
         i < j => freeLog[t][i].tick <= freeLog[t][j].tick

IInv == TypeOK /\ PcInv /\ CountsExact /\ LockInv /\ ScanInv /\ RingInv

\* No closure has a tick of the future, counted or not.
TickInv ==
  \A t \in App :
    /\ \A i \in Counted(t) : ClosureAt(t, i).tick <= now
    /\ appPc[t] \in {"start", "register"} => open[t].tick <= now

\* EarliestBelowPending, and the same for a scan that is under way: it has not
\* passed the tick of a closure that is counted in time.  There is none before
\* the first poll.
Below(c) ==
  /\ earliest > 0 /\ earliest <= c
  /\ \A p \in Proc : gcPc[p] = "scan" => scanAt[p] <= c
BelowInv ==
  \A t \in App : \A i \in Counted(t) :
    ~ClosureAt(t, i).late => Below(ClosureAt(t, i).tick)

OrderInv == IInv /\ TickInv /\ BelowInv

\* The version a thread is about to push is nowhere else, nor is the current
\* one free.
PushInv ==
  \A t \in App : appPc[t] = "push" /\ retired[t] \notin spoilt =>
    /\ retired[t] \notin heap \cup {cell}
    /\ \A u \in App :
         /\ \A i \in DOMAIN freeLog[u] : freeLog[u][i].ptr # retired[t]
         /\ appPc[u] = "push" /\ retired[u] = retired[t] => t = u
CellInv == cell \notin spoilt => cell \notin heap

AllocInv == RetiredOnce /\ NoneLost /\ PushInv /\ CellInv

\* What a counted closure refers to is not free, and was retired no earlier
\* than the closure has started.
RefAt(m, R) ==
  \A o \in R :
    /\ o \notin heap
    /\ \A u \in App : \A j \in DOMAIN freeLog[u] :
         freeLog[u][j].ptr = o => m <= freeLog[u][j].tick
RefInv ==
  \A t \in App : \A i \in Counted(t) :
    ~ClosureAt(t, i).late =>
      RefAt(ClosureAt(t, i).tick, ClosureAt(t, i).refs \ spoilt)

-----------------------------------------------------------------------------
LEMMA Constants ==
  /\ Slots \in Nat \ {0} /\ RingSize \in Nat \ {0} /\ MaxInterval \in Nat
  /\ FirstTick \in Nat \ {0} /\ MaxTick \in Nat
  /\ GcThreshold \in Nat /\ MaxPending \in Nat
  /\ NoObj \notin Obj /\ IsFiniteSet(App)
  BY SizesAssumption, NullAssumption, ThreadsAssumption

\* The types of what one step reads, for any thread.
LEMMA Types ==
  ASSUME TypeOK
  PROVE  /\ now \in Nat /\ earliest \in Nat /\ startLock \in BOOLEAN
         /\ \A t \in App :
              /\ <<t, "app">> \in Proc /\ <<t, "val">> \in Proc
              /\ open[t] \in Closure /\ open[t].tick \in Nat
              /\ pending[t] \in Seq(Closure) /\ Len(pending[t]) \in Nat
              /\ \A i \in 1 .. Len(pending[t]) :
                   pending[t][i] \in Closure /\ pending[t][i].tick \in Nat
              /\ freeLog[t] \in Seq(Entry) /\ Len(freeLog[t]) \in Nat
              /\ \A i \in 1 .. Len(freeLog[t]) :
                   /\ freeLog[t][i] \in Entry
                   /\ freeLog[t][i].tick \in Nat /\ freeLog[t][i].ptr \in Obj
         /\ \A p \in Proc : /\ p[1] \in App /\ p[2] \in Kind
                            /\ p = <<p[1], p[2]>>
                            /\ scanAt[p] \in Nat /\ scanTo[p] \in Nat
                            /\ bound[p] \in Nat
  <1>1. \A t \in App : <<t, "app">> \in Proc /\ <<t, "val">> \in Proc
    BY DEF Proc, Kind
  <1>2. \A t \in App : /\ open[t] \in Closure /\ pending[t] \in Seq(Closure)
                       /\ freeLog[t] \in Seq(Entry)
    BY DEF TypeOK
  <1>3. \A t \in App : open[t].tick \in Nat
    BY <1>2 DEF Closure, Tick
  <1>4. ASSUME NEW t \in App, NEW i \in 1 .. Len(pending[t])
        PROVE  pending[t][i] \in Closure /\ pending[t][i].tick \in Nat
    <2>1. pending[t][i] \in Closure
      BY <1>2, <1>4
    <2> QED
      BY <2>1 DEF Closure, Tick
  <1>5. ASSUME NEW t \in App, NEW i \in 1 .. Len(freeLog[t])
        PROVE  /\ freeLog[t][i] \in Entry
               /\ freeLog[t][i].tick \in Nat /\ freeLog[t][i].ptr \in Obj
    <2>1. freeLog[t][i] \in Entry
      BY <1>2, <1>5
    <2> QED
      BY <2>1 DEF Entry, Tick
  <1>6. \A t \in App : Len(pending[t]) \in Nat /\ Len(freeLog[t]) \in Nat
    BY <1>2
  <1>7. \A p \in Proc : /\ p[1] \in App /\ p[2] \in Kind
                        /\ p = <<p[1], p[2]>>
                        /\ scanAt[p] \in Nat /\ scanTo[p] \in Nat
                        /\ bound[p] \in Nat
    BY DEF Proc, TypeOK, Tick
  <1> QED
    BY <1>1, <1>2, <1>3, <1>4, <1>5, <1>6, <1>7 DEF TypeOK, Tick

-----------------------------------------------------------------------------
(* Control. *)

\* The steps of the collector: where they go from where.
LEMMA GcMoves ==
  ASSUME TypeOK, PcInv, NEW p \in Proc, GcStep(p)
  PROVE  /\ UNCHANGED <<appVars, valVars>>
         /\ gcPc[p] # "off"
         /\ \A q \in Proc : q # p => gcPc'[q] = gcPc[q]
         /\ p[2] = "app" /\ appPc[p[1]] = "start" =>
              gcPc'[p] \in {"off", "poll", "scan"}
  <1> USE DEF gcVars
  <1>1. gcPc \in [Proc -> {"off", "try", "poll", "scan", "sweep"}]
    BY DEF TypeOK
  <1>2. p[2] = "app" /\ appPc[p[1]] = "start" =>
          gcPc[p] \in {"off", "poll", "scan"}
    <2>1. p[1] \in App /\ p = <<p[1], p[2]>>
      BY Types
    <2> QED
      BY <2>1 DEF PcInv, PcAt
  <1>3. CASE TryGc(p)
    BY <1>1, <1>2, <1>3 DEF TryGc
  <1>4. CASE PollBusy(p)
    BY <1>1, <1>4 DEF PollBusy, Return
  <1>5. CASE PollBegin(p)
    BY <1>1, <1>5 DEF PollBegin
  <1>6. CASE PollSkip(p)
    BY <1>1, <1>2, <1>6 DEF PollSkip
  <1>7. CASE PollEnd(p)
    BY <1>1, <1>7 DEF PollEnd, Return
  <1>8. CASE SweepFree(p)
    BY <1>1, <1>2, <1>8 DEF SweepFree
  <1>9. CASE SweepEnd(p)
    BY <1>1, <1>9 DEF SweepEnd
  <1> QED
    BY <1>3, <1>4, <1>5, <1>6, <1>7, <1>8, <1>9 DEF GcStep

LEMMA PcGc ==
  ASSUME TypeOK, PcInv, NEW p \in Proc, GcStep(p)
  PROVE  PcInv'
  <1> SUFFICES ASSUME NEW t \in App
               PROVE  PcAt(t)'
    BY DEF PcInv
  <1>1. PcAt(t) /\ UNCHANGED <<appVars, valVars>>
    BY GcMoves DEF PcInv
  <1>2. CASE p = <<t, "app">>
    <2>1. gcPc'[<<t, "val">>] = gcPc[<<t, "val">>]
      BY <1>2, GcMoves, Types
    <2> QED
      BY <1>1, <1>2, <2>1, GcMoves DEF PcAt, appVars, valVars
  <1>3. CASE p = <<t, "val">>
    <2>1. gcPc'[<<t, "app">>] = gcPc[<<t, "app">>]
      BY <1>3, GcMoves, Types
    <2> QED
      BY <1>1, <1>3, <2>1, GcMoves DEF PcAt, appVars, valVars
  <1>4. CASE p # <<t, "app">> /\ p # <<t, "val">>
    <2>1. UNCHANGED <<gcPc[<<t, "app">>], gcPc[<<t, "val">>]>>
      BY <1>4, GcMoves, Types
    <2> QED
      BY <1>1, <2>1 DEF PcAt, appVars, valVars
  <1> QED
    BY <1>2, <1>3, <1>4

\* The steps of the application thread t.
LEMMA PcApp ==
  ASSUME TypeOK, PcInv, NEW t \in App, AppStep(t)
  PROVE  PcInv'
  <1> SUFFICES ASSUME NEW u \in App
               PROVE  PcAt(u)'
    BY DEF PcInv
  <1>0. PcAt(t) /\ PcAt(u)
    BY DEF PcInv
  <1> USE <1>0, Types DEF PcAt, TypeOK, valVars, gcVars
  <1>1. CASE NewClosure(t)
    BY <1>1 DEF NewClosure
  <1>2. CASE CheckInterval(t)
    BY <1>2 DEF CheckInterval
  <1>3. CASE Register(t)
    BY <1>3 DEF Register
  <1>4. CASE Load(t)
    BY <1>4 DEF Load
  <1>5. CASE Store(t)
    BY <1>5, Constants DEF Store
  <1>6. CASE Push(t)
    BY <1>6 DEF Push
  <1>7. CASE PushCheck(t)
    BY <1>7 DEF PushCheck
  <1>8. CASE Commit(t)
    <2>1. /\ pending[t] \in Seq(Closure) /\ open[t] \in Closure
          /\ pending' = [pending EXCEPT ![t] = Append(pending[t], open[t])]
      BY <1>8 DEF Commit
    <2>2. Len(pending'[t]) = Len(pending[t]) + 1
      BY <2>1
    <2> HIDE <1>0 DEF TypeOK
    <2>3. CASE u = t
      BY <1>0, <1>8, <2>2, <2>3, Constants DEF Commit, Idle, TypeOK
    <2>4. CASE u # t
      BY <1>0, <1>8, <2>4 DEF Commit, TypeOK
    <2> QED
      BY <2>3, <2>4
  <1> QED
    BY <1>1, <1>2, <1>3, <1>4, <1>5, <1>6, <1>7, <1>8 DEF AppStep

\* The steps of its validator, and of time.
LEMMA PcVal ==
  ASSUME TypeOK, PcInv, NEW t \in App, ValStep(t)
  PROVE  PcInv'
  <1> SUFFICES ASSUME NEW u \in App
               PROVE  PcAt(u)'
    BY DEF PcInv
  <1>0. PcAt(t) /\ PcAt(u)
    BY DEF PcInv
  <1> USE <1>0, Types DEF PcAt, TypeOK, appVars, gcVars
  <1>1. CASE Validated(t)
    <2>1. /\ pending[t] \in Seq(Closure) /\ pending[t] # << >>
          /\ pending' = [pending EXCEPT ![t] = Tail(pending[t])]
      BY <1>1 DEF Validated
    <2>2. Len(pending'[t]) = Len(pending[t]) - 1
      BY <2>1
    <2> HIDE <1>0 DEF TypeOK
    <2>3. CASE u = t
      BY <1>0, <1>1, <2>2, <2>3, Constants DEF Validated, TypeOK
    <2>4. CASE u # t
      BY <1>0, <1>1, <2>4 DEF Validated, TypeOK
    <2> QED
      BY <2>3, <2>4
  <1>2. CASE Decide(t)
    BY <1>2 DEF Decide
  <1> QED
    BY <1>1, <1>2 DEF ValStep

LEMMA PcStep ==
  ASSUME TypeOK, PcInv, [Next]_vars
  PROVE  PcInv'
  <1>1. CASE TickOn
    BY <1>1 DEF TickOn, PcInv, PcAt, appVars, valVars, gcVars
  <1>2. CASE UNCHANGED vars
    BY <1>2 DEF vars, PcInv, PcAt, appVars, valVars, gcVars
  <1> QED
    BY <1>1, <1>2, PcGc, PcApp, PcVal DEF Next

-----------------------------------------------------------------------------
(* Types. *)

\* A slot holds finitely many closures, and a pending one is in its slot.
LEMMA SlotFinite ==
  ASSUME NEW s
  PROVE  IsFiniteSet(InSlot(s)) /\ IsFiniteSet(InSlot(s)')
  <1>1. IsFiniteSet(0 .. MaxPending)
    BY Constants, FS_Interval
  <1>2. IsFiniteSet(App \X (0 .. MaxPending))
    BY <1>1, Constants, FS_Product
  <1>3. InSlot(s) \in SUBSET (App \X (0 .. MaxPending))
    BY DEF InSlot
  <1>4. InSlot(s)' \in SUBSET (App \X (0 .. MaxPending))
    BY DEF InSlot
  <1> QED
    BY <1>2, <1>3, <1>4, FS_Subset

LEMMA HeadCounted ==
  ASSUME TypeOK, PcInv, CountsExact, NEW t \in App, pending[t] # << >>
  PROVE  LET s == pending[t][1].tick % Slots
         IN  /\ s \in 0 .. Slots - 1 /\ count[s] \in Nat \ {0}
             /\ <<t, 1>> \in InSlot(s)
  <1> DEFINE s == pending[t][1].tick % Slots
  <1>1. Len(pending[t]) \in 1 .. MaxPending /\ pending[t][1].tick \in Nat
    <2>1. pending[t] \in Seq(Closure) /\ Len(pending[t]) <= MaxPending
      BY DEF TypeOK, PcInv, PcAt
    <2>2. Len(pending[t]) \in 1 .. MaxPending
      BY <2>1, Constants
    <2>3. 1 \in 1 .. Len(pending[t])
      BY <2>2
    <2> QED
      BY <2>2, <2>3, Types
  <1>2. s \in 0 .. Slots - 1
    BY <1>1, Constants
  <1>3. <<t, 1>> \in InSlot(s)
    BY <1>1, Constants DEF InSlot, Counted, ClosureAt
  <1>4. Cardinality(InSlot(s)) \in Nat \ {0}
    BY <1>3, SlotFinite, FS_CardinalityType, FS_EmptySet
  <1> QED
    BY <1>2, <1>3, <1>4 DEF CountsExact

LEMMA TypesApp ==
  ASSUME TypeOK, PcInv, NEW t \in App, AppStep(t)
  PROVE  TypeOK'
  <1> USE DEF TypeOK, startVars, appVars, valVars, gcVars
  <1>0. <<t, "app">> \in Proc
    BY DEF Proc, Kind
  <1>1. CASE NewClosure(t)
    BY <1>1, <1>0 DEF NewClosure, Closure, Tick
  <1>2. CASE CheckInterval(t)
    BY <1>2 DEF CheckInterval
  <1>3. CASE Register(t)
    <2> DEFINE s == open[t].tick % Slots
    <2>1. count' = [count EXCEPT ![s] = count[s] + 1]
      BY <1>3 DEF Register
    <2>2. s \in 0 .. Slots - 1
      <3>1. open[t].tick \in Nat
        BY DEF Closure, Tick
      <3> QED
        BY <3>1, Constants
    <2>3. count \in [0 .. Slots - 1 -> Nat]
      OBVIOUS
    <2> HIDE DEF s, TypeOK
    <2>4. count' \in [0 .. Slots - 1 -> Nat]
      BY <2>1, <2>2, <2>3
    <2> USE DEF TypeOK
    <2>5. open' \in [App -> Closure]
      <3>1. Late(open[t].tick) \in BOOLEAN
        BY DEF Late
      <3> QED
        BY <1>3, <3>1 DEF Register, Closure
    <2> QED
      BY <1>3, <2>4, <2>5 DEF Register
  <1>4. CASE Load(t)
    BY <1>4 DEF Load, Closure
  <1>5. CASE Store(t)
    <2>1. PICK o \in heap :
            /\ heap' = heap \ {o} /\ cell' = o
            /\ open' = [open EXCEPT ![t].refs = @ \cup ({o, cell} \ {NoObj})]
      BY <1>5 DEF Store
    <2>2. heap' \subseteq Obj /\ cell' \in Obj
      BY <2>1
    <2>3. open' \in [App -> Closure]
      BY <2>1 DEF Closure
    <2>4. retired' \in [App -> Obj \cup {NoObj}]
      BY <1>5 DEF Store
    <2> QED
      BY <1>5, <2>2, <2>3, <2>4 DEF Store
  <1>6. CASE Push(t)
    <2>1. retired[t] \in Obj
      <3>1. retired[t] # NoObj
        BY <1>6 DEF Push, PcInv, PcAt
      <3> QED
        BY <3>1
    <2>2. [ptr |-> retired[t], tick |-> now] \in Entry
      BY <2>1 DEF Entry
    <2>3. Append(freeLog[t], [ptr |-> retired[t], tick |-> now]) \in Seq(Entry)
      BY <2>2
    <2> DEFINE log == Append(freeLog[t], [ptr |-> retired[t], tick |-> now])
               ptrs == {e.ptr : e \in Range(log)}
    <2>4. /\ \/ freeLog' = [freeLog EXCEPT ![t] = << >>]
             \/ freeLog' = [freeLog EXCEPT ![t] = log]
          /\ spoilt' = spoilt \/ spoilt' = spoilt \cup ptrs
      BY <1>6 DEF Push
    <2>5. ptrs \subseteq Obj
      <3>1. \A e \in Range(log) : e \in Entry
        BY <2>3 DEF Range
      <3> QED
        BY <3>1 DEF Entry
    <2> HIDE DEF ptrs, log
    <2>6. freeLog' \in [App -> Seq(Entry)]
      <3>1. log \in Seq(Entry) /\ << >> \in Seq(Entry)
        BY <2>3 DEF log
      <3> QED
        BY <2>4, <3>1
    <2>7. spoilt' \subseteq Obj
      BY <2>4, <2>5
    <2> QED
      BY <1>6, <2>6, <2>7 DEF Push
  <1>7. CASE PushCheck(t)
    <2>1. retired[t] \in Obj
      <3>1. retired[t] # NoObj
        BY <1>7 DEF PushCheck, PcInv, PcAt
      <3> QED
        BY <3>1
    <2> QED
      BY <1>7, <1>0, <2>1 DEF PushCheck
  <1>8. CASE Commit(t)
    <2>1. Append(pending[t], open[t]) \in Seq(Closure)
      OBVIOUS
    <2>0. Idle \in Closure
      BY DEF Idle, Closure, Tick
    <2>2. /\ pending' \in [App -> Seq(Closure)]
          /\ open' \in [App -> Closure]
      BY <1>8, <2>0, <2>1 DEF Commit
    <2> QED
      BY <1>8, <2>2 DEF Commit
  <1> QED
    BY <1>1, <1>2, <1>3, <1>4, <1>5, <1>6, <1>7, <1>8 DEF AppStep

LEMMA TypesVal ==
  ASSUME TypeOK, PcInv, CountsExact, NEW t \in App, ValStep(t)
  PROVE  TypeOK'
  <1> USE DEF TypeOK, startVars, appVars, valVars, gcVars
  <1>0. <<t, "val">> \in Proc
    BY DEF Proc, Kind
  <1>1. CASE Validated(t)
    <2>1. LET s == pending[t][1].tick % Slots
          IN  s \in 0 .. Slots - 1 /\ count[s] \in Nat \ {0}
      BY <1>1, HeadCounted DEF Validated
    <2>2. count' \in [0 .. Slots - 1 -> Nat]
      <3> DEFINE s == pending[t][1].tick % Slots
      <3>1. count' = [count EXCEPT ![s] = count[s] - 1]
        BY <1>1 DEF Validated
      <3>2. count[s] - 1 \in Nat
        BY <2>1
      <3> HIDE DEF s
      <3> QED
        BY <3>1, <3>2
    <2>3. pending[t] \in Seq(Closure) /\ pending[t] # << >>
      BY <1>1 DEF Validated
    <2>4. Head(pending[t]) \in Closure /\ Tail(pending[t]) \in Seq(Closure)
      BY <2>3
    <2>5. pending' \in [App -> Seq(Closure)] /\ valTick' \in [App -> Tick]
      BY <1>1, <2>4 DEF Validated, Closure
    <2> QED
      BY <1>1, <2>2, <2>5 DEF Validated
  <1>2. CASE Decide(t)
    BY <1>2, <1>0 DEF Decide, Tick
  <1> QED
    BY <1>1, <1>2 DEF ValStep

LEMMA TypesGc ==
  ASSUME TypeOK, NEW p \in Proc, GcStep(p)
  PROVE  TypeOK'
  <1> USE DEF TypeOK, startVars, appVars, valVars, gcVars, Tick
  <1>0. p[1] \in App
    BY DEF Proc
  <1>1. CASE TryGc(p)
    BY <1>1, <1>0 DEF TryGc
  <1>2. CASE PollBusy(p)
    BY <1>2 DEF PollBusy, Return
  <1>3. CASE PollBegin(p)
    BY <1>3 DEF PollBegin
  <1>4. CASE PollSkip(p)
    BY <1>4 DEF PollSkip
  <1>5. CASE PollEnd(p)
    BY <1>5 DEF PollEnd, Return
  <1>6. CASE SweepFree(p)
    <2>1. freeLog[p[1]] \in Seq(Entry) /\ freeLog[p[1]] # << >>
      BY <1>6, <1>0 DEF SweepFree
    <2>2. /\ Head(freeLog[p[1]]) \in Entry
          /\ Tail(freeLog[p[1]]) \in Seq(Entry)
      BY <2>1
    <2> QED
      BY <1>6, <1>0, <2>2 DEF SweepFree, Entry
  <1>7. CASE SweepEnd(p)
    BY <1>7, <1>0 DEF SweepEnd
  <1> QED
    BY <1>1, <1>2, <1>3, <1>4, <1>5, <1>6, <1>7 DEF GcStep

LEMMA TypesStep ==
  ASSUME TypeOK, PcInv, CountsExact, [Next]_vars
  PROVE  TypeOK'
  <1> USE DEF TypeOK, startVars, appVars, valVars, gcVars, Tick
  <1>1. CASE TickOn
    BY <1>1 DEF TickOn
  <1>2. CASE UNCHANGED vars
    BY <1>2 DEF vars
  <1> HIDE DEF TypeOK
  <1> QED
    BY <1>1, <1>2, TypesApp, TypesVal, TypesGc DEF Next

-----------------------------------------------------------------------------
(* Counts: only Register, Commit and Validated touch what is counted. *)

\* The step leaves the counted closures, their places, ticks and lateness
\* alone.
SameClosures ==
  \A t \in App : /\ Counted(t)' = Counted(t)
                 /\ \A i \in Counted(t) :
                      /\ ClosureAt(t, i)'.tick = ClosureAt(t, i).tick
                      /\ ClosureAt(t, i)'.late = ClosureAt(t, i).late

LEMMA SameIf ==
  ASSUME UNCHANGED pending,
         \A t \in App :
           /\ appPc'[t] \in {"open", "push", "pushed"} <=>
                appPc[t] \in {"open", "push", "pushed"}
           /\ appPc[t] \in {"open", "push", "pushed"} =>
                open'[t].tick = open[t].tick /\ open'[t].late = open[t].late
  PROVE  SameClosures
  BY DEF SameClosures, Counted, ClosureAt

LEMMA SameApp ==
  ASSUME TypeOK, NEW t \in App, AppStep(t), ~Register(t), ~Commit(t)
  PROVE  SameClosures /\ UNCHANGED count
  <1> USE DEF TypeOK, Closure, startVars
  <1>1. CASE NewClosure(t)
    BY <1>1, SameIf DEF NewClosure
  <1>2. CASE CheckInterval(t)
    BY <1>2, SameIf DEF CheckInterval
  <1>3. CASE Load(t)
    BY <1>3, SameIf DEF Load
  <1>4. CASE Store(t)
    BY <1>4, SameIf DEF Store
  <1>5. CASE Push(t)
    BY <1>5, SameIf DEF Push
  <1>6. CASE PushCheck(t)
    BY <1>6, SameIf DEF PushCheck
  <1> QED
    BY <1>1, <1>2, <1>3, <1>4, <1>5, <1>6 DEF AppStep

LEMMA SameGc ==
  ASSUME TypeOK, PcInv, NEW p \in Proc, GcStep(p)
  PROVE  SameClosures /\ UNCHANGED count
  <1>1. UNCHANGED appVars
    BY GcMoves
  <1>2. SameClosures
    BY <1>1, SameIf DEF appVars
  <1>3. UNCHANGED count
    BY DEF GcStep, TryGc, PollBusy, PollBegin, PollSkip, PollEnd, SweepFree,
           SweepEnd, startVars
  <1> QED
    BY <1>2, <1>3

\* Every step other than the three.
LEMMA SameStep ==
  ASSUME TypeOK, PcInv, [Next]_vars,
         \A t \in App : ~Register(t) /\ ~Commit(t) /\ ~Validated(t)
  PROVE  SameClosures /\ UNCHANGED count
  <1>1. CASE TickOn
    BY <1>1, SameIf DEF TickOn, appVars, startVars
  <1>2. CASE UNCHANGED vars
    BY <1>2, SameIf DEF vars, appVars, startVars
  <1>3. ASSUME NEW t \in App, Decide(t)
        PROVE  SameClosures /\ UNCHANGED count
    BY <1>3, SameIf DEF Decide, appVars, startVars
  <1> QED
    BY <1>1, <1>2, <1>3, SameApp, SameGc DEF Next, ValStep

LEMMA CountsSame ==
  ASSUME CountsExact, SameClosures, UNCHANGED count
  PROVE  CountsExact'
  <1>1. ASSUME NEW s
        PROVE  InSlot(s)' = InSlot(s)
    BY DEF InSlot, SameClosures
  <1> QED
    BY <1>1 DEF CountsExact

\* What is in a slot, place by place.
LEMMA InSlotIs ==
  ASSUME TypeOK, PcInv, NEW s
  PROVE  /\ \A t \in App : \A i \in Counted(t) : i \in 0 .. MaxPending
         /\ \A t, i : <<t, i>> \in InSlot(s) <=>
              t \in App /\ i \in Counted(t) /\ ClosureAt(t, i).tick % Slots = s
         /\ \A c \in InSlot(s) : c = <<c[1], c[2]>>
  <1>1. ASSUME NEW t \in App, NEW i \in Counted(t)
        PROVE  i \in 0 .. MaxPending
    <2>1. Len(pending[t]) \in Nat /\ Len(pending[t]) <= MaxPending
      BY Types DEF PcInv, PcAt
    <2> QED
      BY <2>1, Constants DEF Counted
  <1> QED
    BY <1>1 DEF InSlot

LEMMA InSlotIsPrime ==
  ASSUME TypeOK', PcInv', NEW s
  PROVE  /\ \A t, i : <<t, i>> \in InSlot(s)' <=>
              /\ t \in App /\ i \in Counted(t)'
              /\ ClosureAt(t, i)'.tick % Slots = s
         /\ \A c \in InSlot(s)' : c = <<c[1], c[2]>>
  <1>1. ASSUME NEW t \in App, NEW i \in Counted(t)'
        PROVE  i \in 0 .. MaxPending
    <2>1. pending'[t] \in Seq(Closure) /\ Len(pending'[t]) <= MaxPending
      BY DEF TypeOK, PcInv, PcAt
    <2>2. Len(pending'[t]) \in Nat
      BY <2>1
    <2> QED
      BY <2>1, <2>2, Constants DEF Counted
  <1> QED
    BY <1>1 DEF InSlot

LEMMA SlotRange == \A n \in Nat : n % Slots \in 0 .. Slots - 1
  BY Constants

LEMMA SamePairs ==
  ASSUME NEW S, NEW T, \A c \in S : c = <<c[1], c[2]>>,
         \A c \in T : c = <<c[1], c[2]>>,
         \A u, i : <<u, i>> \in S <=> <<u, i>> \in T
  PROVE  S = T
  <1>1. \A c \in S : <<c[1], c[2]>> \in T
    OBVIOUS
  <1>2. \A c \in T : <<c[1], c[2]>> \in S
    OBVIOUS
  <1> QED
    BY <1>1, <1>2

\* fetch_add: the thread's own closure is counted from now on.
LEMMA CountsRegister ==
  ASSUME TypeOK, PcInv, CountsExact, TypeOK', PcInv', NEW t \in App, Register(t)
  PROVE  CountsExact'
  <1> DEFINE k == open[t].tick % Slots
  <1>0. k \in 0 .. Slots - 1
    BY Types, SlotRange
  <1>1. \A s \in 0 .. Slots - 1 :
          count'[s] = IF s = k THEN count[s] + 1 ELSE count[s]
    BY DEF Register, TypeOK
  <1>2. \A u \in App : Counted(u)' = IF u = t THEN Counted(u) \cup {0}
                                     ELSE Counted(u)
    BY Types DEF Counted, Register, TypeOK
  <1>3. 0 \notin Counted(t)
    BY DEF Counted, Register
  <1>4. \A u \in App : \A i : ClosureAt(u, i)'.tick = ClosureAt(u, i).tick
    BY DEF ClosureAt, Register, TypeOK, Closure
  <1>5. ClosureAt(t, 0) = open[t]
    BY DEF ClosureAt
  <1> SUFFICES ASSUME NEW s \in 0 .. Slots - 1
               PROVE  count'[s] = Cardinality(InSlot(s)')
    BY DEF CountsExact
  <1>8. \A u, i : <<u, i>> \in InSlot(s) <=>
          u \in App /\ i \in Counted(u) /\ ClosureAt(u, i).tick % Slots = s
    BY InSlotIs
  <1>9. \A u, i : <<u, i>> \in InSlot(s)' <=>
          u \in App /\ i \in Counted(u)' /\ ClosureAt(u, i)'.tick % Slots = s
    BY InSlotIsPrime
  <1>6. CASE s = k
    <2>1. ASSUME NEW u, NEW i
          PROVE  <<u, i>> \in InSlot(s)' <=>
                   <<u, i>> \in InSlot(s) \cup {<<t, 0>>}
      BY <1>2, <1>4, <1>5, <1>6, <1>8, <1>9
    <2>2. \A c \in InSlot(s) \cup {<<t, 0>>} : c = <<c[1], c[2]>>
      BY InSlotIs
    <2>0. InSlot(s)' = InSlot(s) \cup {<<t, 0>>}
      BY <2>1, <2>2, InSlotIsPrime, SamePairs
    <2>3. <<t, 0>> \notin InSlot(s)
      BY <1>3, InSlotIs
    <2> QED
      BY <1>1, <1>6, <2>0, <2>3, SlotFinite, FS_AddElement DEF CountsExact
  <1>7. CASE s # k
    <2>1. ASSUME NEW u, NEW i
          PROVE  <<u, i>> \in InSlot(s)' <=> <<u, i>> \in InSlot(s)
      BY <1>2, <1>4, <1>5, <1>7, <1>8, <1>9
    <2>2. InSlot(s)' = InSlot(s)
      BY <2>1, InSlotIs, InSlotIsPrime, SamePairs
    <2> QED
      BY <1>1, <1>7, <2>2 DEF CountsExact
  <1> QED
    BY <1>6, <1>7

\* commit_log: the closure keeps its slot and moves to the end of the queue.
LEMMA CountsCommit ==
  ASSUME TypeOK, PcInv, CountsExact, TypeOK', PcInv', NEW t \in App, Commit(t)
  PROVE  CountsExact'
  <1> DEFINE k == open[t].tick % Slots
  <1>0. PICK n \in Nat \ {0} : n = Len(pending[t]) + 1
    <2>1. Len(pending[t]) \in Nat
      BY Types
    <2> QED
      BY <2>1
  <1>1. UNCHANGED count /\ appPc[t] = "open"
    BY DEF Commit, startVars
  <1>2. /\ n \in Nat \ {0} /\ pending[t] \in Seq(Closure)
        /\ open[t] \in Closure
    BY Types
  <1>3. /\ Len(pending'[t]) = n /\ pending'[t][n] = open[t]
        /\ \A i \in 1 .. n - 1 : pending'[t][i] = pending[t][i]
        /\ \A u \in App : u # t => /\ pending'[u] = pending[u]
                                   /\ open'[u] = open[u] /\ appPc'[u] = appPc[u]
        /\ appPc'[t] = "idle"
    <2>1. pending'[t] = Append(pending[t], open[t])
      BY DEF Commit, TypeOK
    <2> QED
      BY <1>0, <1>2, <2>1 DEF Commit, TypeOK
  <1>4. /\ Counted(t)' = (1 .. n - 1) \cup {n}
        /\ Counted(t) = (1 .. n - 1) \cup {0}
        /\ n # 0 /\ n \notin 1 .. n - 1 /\ 0 \notin 1 .. n - 1
        /\ \A u \in App : u # t => Counted(u)' = Counted(u)
    BY <1>0, <1>1, <1>2, <1>3 DEF Counted
  <1>5. /\ ClosureAt(t, n)' = open[t]
        /\ \A u \in App : \A i :
             u # t \/ i \in 1 .. n - 1 => ClosureAt(u, i)' = ClosureAt(u, i)
    <2>1. n # 0 /\ \A i \in 1 .. n - 1 : i # 0
      BY <1>2
    <2>2. ClosureAt(t, n)' = open[t]
      BY <1>3, <2>1 DEF ClosureAt
    <2>3. ASSUME NEW i \in 1 .. n - 1
          PROVE  ClosureAt(t, i)' = ClosureAt(t, i)
      BY <1>3, <2>1 DEF ClosureAt
    <2>4. ASSUME NEW u \in App, u # t, NEW i
          PROVE  ClosureAt(u, i)' = ClosureAt(u, i)
      BY <1>3, <2>4 DEF ClosureAt
    <2> QED
      BY <2>2, <2>3, <2>4
  <1>6. ClosureAt(t, 0) = open[t]
    BY DEF ClosureAt
  <1> SUFFICES ASSUME NEW s \in 0 .. Slots - 1
               PROVE  Cardinality(InSlot(s)') = Cardinality(InSlot(s))
    BY <1>1 DEF CountsExact
  <1>8. \A u, i : <<u, i>> \in InSlot(s) <=>
          u \in App /\ i \in Counted(u) /\ ClosureAt(u, i).tick % Slots = s
    BY InSlotIs
  <1>9. \A u, i : <<u, i>> \in InSlot(s)' <=>
          u \in App /\ i \in Counted(u)' /\ ClosureAt(u, i)'.tick % Slots = s
    BY InSlotIsPrime
  <1>10. CASE s = k
    <2> DEFINE Rest == InSlot(s) \ {<<t, 0>>}
    <2>1. ASSUME NEW u, NEW i
          PROVE  <<u, i>> \in InSlot(s)' <=> <<u, i>> \in Rest \cup {<<t, n>>}
      <3>1. CASE u = t
        <4>1. /\ i \in Counted(t)' <=> i \in 1 .. n - 1 \/ i = n
              /\ i \in Counted(t) <=> i \in 1 .. n - 1 \/ i = 0
          BY <1>4
        <4>2. CASE i = n
          BY <1>5, <1>9, <1>10, <3>1, <4>1, <4>2
        <4>3. CASE i # n
          BY <1>4, <1>5, <1>8, <1>9, <3>1, <4>1, <4>3
        <4> QED
          BY <4>2, <4>3
      <3>2. CASE u # t
        BY <1>2, <1>4, <1>5, <1>10, <1>8, <1>9, <3>2
      <3> QED
        BY <3>1, <3>2
    <2>2. \A c \in Rest \cup {<<t, n>>} : c = <<c[1], c[2]>>
      BY InSlotIs
    <2>3. InSlot(s)' = Rest \cup {<<t, n>>}
      BY <2>1, <2>2, InSlotIsPrime, SamePairs
    <2>4. <<t, 0>> \in InSlot(s)
      BY <1>2, <1>4, <1>6, <1>8, <1>10
    <2>5. <<t, n>> \notin Rest
      BY <1>2, <1>4, <1>8
    <2>6. /\ IsFiniteSet(Rest)
          /\ Cardinality(Rest) = Cardinality(InSlot(s)) - 1
      BY <2>4, SlotFinite, FS_RemoveElement
    <2>7. Cardinality(InSlot(s)) \in Nat
      BY SlotFinite, FS_CardinalityType
    <2>8. Cardinality(Rest \cup {<<t, n>>}) = Cardinality(Rest) + 1
      BY <2>5, <2>6, FS_AddElement
    <2> QED
      BY <2>3, <2>6, <2>7, <2>8
  <1>11. CASE s # k
    <2>1. ASSUME NEW u, NEW i
          PROVE  <<u, i>> \in InSlot(s)' <=> <<u, i>> \in InSlot(s)
      <3>1. CASE u = t
        <4>1. /\ i \in Counted(t)' <=> i \in 1 .. n - 1 \/ i = n
              /\ i \in Counted(t) <=> i \in 1 .. n - 1 \/ i = 0
          BY <1>4
        <4>2. CASE i = n
          BY <1>4, <1>5, <1>8, <1>9, <1>11, <3>1, <4>1, <4>2
        <4>3. CASE i # n
          BY <1>4, <1>5, <1>6, <1>8, <1>9, <1>11, <3>1, <4>1, <4>3
        <4> QED
          BY <4>2, <4>3
      <3>2. CASE u # t
        BY <1>2, <1>4, <1>5, <1>6, <1>11, <1>8, <1>9, <3>2
      <3> QED
        BY <3>1, <3>2
    <2>2. InSlot(s)' = InSlot(s)
      BY <2>1, InSlotIs, InSlotIsPrime, SamePairs
    <2> QED
      BY <2>2
  <1> QED
    BY <1>10, <1>11

\* What Validated does to the places of the closures.
LEMMA ShiftPlaces ==
  ASSUME TypeOK, NEW t \in App, Validated(t)
  PROVE  /\ \A u \in App \ {t} :
              /\ Counted(u)' = Counted(u)
              /\ \A i \in Counted(u) : ClosureAt(u, i)' = ClosureAt(u, i)
         /\ Counted(t) \subseteq Nat /\ Counted(t)' \subseteq Nat
         /\ 0 \in Counted(t)' <=> 0 \in Counted(t)
         /\ ClosureAt(t, 0)' = ClosureAt(t, 0)
         /\ \A i \in Nat \ {0} : /\ i \in Counted(t)' <=> i + 1 \in Counted(t)
                                 /\ i + 1 \in Counted(t) =>
                                      ClosureAt(t, i)' = ClosureAt(t, i + 1)
         /\ 1 \in Counted(t) /\ ClosureAt(t, 1) = pending[t][1]
  <1> DEFINE q == pending[t]
             r == pending'[t]
  <1>1. q \in Seq(Closure) /\ q # << >> /\ r = Tail(q)
    BY DEF Validated, TypeOK
  <1>2. /\ Len(q) \in Nat \ {0} /\ Len(r) = Len(q) - 1
        /\ \A i \in 1 .. Len(q) - 1 : r[i] = q[i + 1]
    BY <1>1
  <1>3. UNCHANGED <<appPc, open>> /\ \A u \in App \ {t} : pending'[u] = pending[u]
    BY DEF Validated, TypeOK
  <1> HIDE DEF q, r
  <1>4. /\ Counted(t) = {i \in 0 .. Len(q) :
                           i = 0 => appPc[t] \in {"open", "push", "pushed"}}
        /\ Counted(t)' = {i \in 0 .. Len(r) :
                            i = 0 => appPc[t] \in {"open", "push", "pushed"}}
    BY <1>3 DEF Counted, q, r
  <1>5. \A i : /\ ClosureAt(t, i) = IF i = 0 THEN open[t] ELSE q[i]
               /\ ClosureAt(t, i)' = IF i = 0 THEN open[t] ELSE r[i]
    BY <1>3 DEF ClosureAt, q, r
  <1>6. \A u \in App \ {t} :
          /\ Counted(u)' = Counted(u)
          /\ \A i \in Counted(u) : ClosureAt(u, i)' = ClosureAt(u, i)
    BY <1>3 DEF Counted, ClosureAt
  <1>7. ASSUME NEW i \in Nat \ {0}
        PROVE  /\ i \in Counted(t)' <=> i + 1 \in Counted(t)
               /\ i + 1 \in Counted(t) => ClosureAt(t, i)' = ClosureAt(t, i + 1)
    BY <1>2, <1>4, <1>5
  <1>8. 1 \in Counted(t) /\ ClosureAt(t, 1) = pending[t][1]
    BY <1>2, <1>4, <1>5 DEF q
  <1>9. /\ Counted(t) \subseteq Nat /\ Counted(t)' \subseteq Nat
        /\ 0 \in Counted(t)' <=> 0 \in Counted(t)
    BY <1>2, <1>4
  <1> QED
    BY <1>5, <1>6, <1>7, <1>8, <1>9

\* fetch_sub: the oldest closure leaves its slot, the others move up one place.
LEMMA CountsValidated ==
  ASSUME TypeOK, PcInv, CountsExact, TypeOK', PcInv', NEW t \in App, Validated(t)
  PROVE  CountsExact'
  <1> DEFINE k == pending[t][1].tick % Slots
  <1>1. /\ k \in 0 .. Slots - 1
        /\ \A s \in 0 .. Slots - 1 :
             count'[s] = IF s = k THEN count[s] - 1 ELSE count[s]
    <2>1. pending[t] # << >>
      BY DEF Validated
    <2>2. k \in 0 .. Slots - 1
      BY <2>1, HeadCounted
    <2>3. count' = [count EXCEPT ![k] = count[k] - 1]
      BY DEF Validated
    <2>4. count \in [0 .. Slots - 1 -> Nat]
      BY DEF TypeOK
    <2> HIDE DEF k
    <2> QED
      BY <2>2, <2>3, <2>4
  <1> SUFFICES ASSUME NEW s \in 0 .. Slots - 1
               PROVE  count'[s] = Cardinality(InSlot(s)')
    BY DEF CountsExact
  <1> DEFINE T == InSlot(s) \ {<<t, 1>>}
             up(c) == IF c[1] = t /\ c[2] # 0 THEN <<t, c[2] + 1>> ELSE c
             f == [c \in InSlot(s)' |-> up(c)]
  <1>2. \A u, i : <<u, i>> \in InSlot(s) <=>
          u \in App /\ i \in Counted(u) /\ ClosureAt(u, i).tick % Slots = s
    BY InSlotIs
  <1>3. \A u, i : <<u, i>> \in InSlot(s)' <=>
          u \in App /\ i \in Counted(u)' /\ ClosureAt(u, i)'.tick % Slots = s
    BY InSlotIsPrime
  <1>4. ASSUME NEW c \in InSlot(s)'
        PROVE  up(c) \in T /\ c = <<c[1], c[2]>> /\ (c[1] = t => c[2] \in Nat)
    <2>1. /\ c = <<c[1], c[2]>> /\ c[1] \in App /\ c[2] \in Counted(c[1])'
          /\ ClosureAt(c[1], c[2])'.tick % Slots = s
      BY <1>3, InSlotIsPrime
    <2>2. CASE c[1] = t /\ c[2] # 0
      <3>1. /\ c[2] \in Nat \ {0} /\ c[2] + 1 \in Counted(t)
            /\ ClosureAt(t, c[2] + 1).tick % Slots = s
        BY <2>1, <2>2, ShiftPlaces
      <3>2. <<t, c[2] + 1>> \in T
        BY <1>2, <3>1
      <3> QED
        BY <2>1, <2>2, <3>1, <3>2
    <2>3. CASE c[1] = t /\ c[2] = 0
      <3>1. 0 \in Counted(t) /\ ClosureAt(t, 0).tick % Slots = s
        BY <2>1, <2>3, ShiftPlaces
      <3> QED
        BY <1>2, <2>1, <2>3, <3>1
    <2>4. CASE c[1] # t
      <3>1. /\ c[2] \in Counted(c[1])
            /\ ClosureAt(c[1], c[2]).tick % Slots = s
        BY <2>1, <2>4, ShiftPlaces
      <3> QED
        BY <1>2, <2>1, <2>4, <3>1
    <2> QED
      BY <2>2, <2>3, <2>4
  <1>5. ASSUME NEW b \in T
        PROVE  \E c \in InSlot(s)' : up(c) = b
    <2>1. /\ b = <<b[1], b[2]>> /\ b[1] \in App /\ b[2] \in Counted(b[1])
          /\ ClosureAt(b[1], b[2]).tick % Slots = s /\ b # <<t, 1>>
      BY <1>2, InSlotIs
    <2>2. CASE b[1] = t /\ b[2] # 0
      <3> DEFINE i == b[2] - 1
      <3>1. i \in Nat \ {0} /\ b[2] = i + 1
        BY <2>1, <2>2, ShiftPlaces
      <3>2. i \in Counted(t)' /\ ClosureAt(t, i)'.tick % Slots = s
        BY <2>1, <2>2, <3>1, ShiftPlaces
      <3>3. <<t, i>> \in InSlot(s)'
        BY <1>3, <3>2
      <3>4. up(<<t, i>>) = b
        BY <2>1, <2>2, <3>1
      <3> QED
        BY <3>3, <3>4
    <2>3. CASE b[1] = t /\ b[2] = 0
      <3>1. 0 \in Counted(t)' /\ ClosureAt(t, 0)'.tick % Slots = s
        BY <2>1, <2>3, ShiftPlaces
      <3>2. b \in InSlot(s)' /\ up(b) = b
        BY <1>3, <2>1, <2>3, <3>1
      <3> QED
        BY <3>2
    <2>4. CASE b[1] # t
      <3>1. /\ b[2] \in Counted(b[1])'
            /\ ClosureAt(b[1], b[2])'.tick % Slots = s
        BY <2>1, <2>4, ShiftPlaces
      <3>2. b \in InSlot(s)' /\ up(b) = b
        BY <1>3, <2>1, <2>4, <3>1
      <3> QED
        BY <3>2
    <2> QED
      BY <2>2, <2>3, <2>4
  <1>6. ASSUME NEW c \in InSlot(s)', NEW d \in InSlot(s)', up(c) = up(d)
        PROVE  c = d
    <2>1. /\ c = <<c[1], c[2]>> /\ (c[1] = t => c[2] \in Nat)
          /\ d = <<d[1], d[2]>> /\ (d[1] = t => d[2] \in Nat)
      BY <1>4
    <2>2. up(c)[1] = c[1] /\ up(d)[1] = d[1]
      BY <2>1
    <2>3. c[1] = d[1]
      BY <1>6, <2>2
    <2>4. c[2] = d[2]
      BY <1>6, <2>1, <2>3
    <2> QED
      BY <2>1, <2>3, <2>4
  <1> HIDE DEF up, T
  <1>7. f \in Bijection(InSlot(s)', T)
    <2>1. f \in [InSlot(s)' -> T]
      BY <1>4
    <2>2. \A c, d \in InSlot(s)' : f[c] = f[d] => c = d
      BY <1>6
    <2>3. \A b \in T : \E c \in InSlot(s)' : f[c] = b
      BY <1>5
    <2> HIDE DEF f
    <2> QED
      BY <2>1, <2>2, <2>3 DEF Bijection, Injection, Surjection, IsInjective
  <1>8. Cardinality(T) = Cardinality(InSlot(s)')
    BY <1>7, SlotFinite, FS_Bijection DEF ExistsBijection
  <1>9. CASE s = k
    <2>1. <<t, 1>> \in InSlot(s)
      BY <1>9, HeadCounted DEF Validated
    <2>2. Cardinality(T) = Cardinality(InSlot(s)) - 1
      BY <2>1, SlotFinite, FS_RemoveElement DEF T
    <2>3. count[s] = Cardinality(InSlot(s))
      BY DEF CountsExact
    <2> QED
      BY <1>1, <1>8, <1>9, <2>2, <2>3
  <1>10. CASE s # k
    <2>1. <<t, 1>> \notin InSlot(s)
      BY <1>2, <1>10, ShiftPlaces
    <2>2. Cardinality(T) = Cardinality(InSlot(s))
      BY <2>1, SlotFinite, FS_RemoveElement DEF T
    <2>3. count[s] = Cardinality(InSlot(s))
      BY DEF CountsExact
    <2> QED
      BY <1>1, <1>8, <1>10, <2>2, <2>3
  <1> QED
    BY <1>9, <1>10

LEMMA CountsStep ==
  ASSUME TypeOK, PcInv, CountsExact, [Next]_vars
  PROVE  CountsExact'
  <1>1. TypeOK' /\ PcInv'
    BY TypesStep, PcStep
  <1> QED
    BY <1>1, SameStep, CountsSame, CountsRegister, CountsCommit,
       CountsValidated

-----------------------------------------------------------------------------
(* The two locks. *)

LEMMA LockFrame ==
  ASSUME LockInv, UNCHANGED <<gcLock, startLock>>,
         \A t \in App : \A k \in Kind : Collects(t, k)' => Collects(t, k),
         \A p \in Proc : gcPc'[p] = "scan" => gcPc[p] = "scan"
  PROVE  LockInv'
  BY DEF LockInv, Kind

LEMMA LockApp ==
  ASSUME TypeOK, PcInv, LockInv, NEW t \in App, AppStep(t)
  PROVE  LockInv'
  <1>1. UNCHANGED <<gcLock, startLock>>
    BY DEF AppStep, NewClosure, CheckInterval, Register, Load, Store, Push,
           PushCheck, Commit, startVars, gcVars
  <1>2. /\ \A q \in Proc : q # <<t, "app">> => gcPc'[q] = gcPc[q]
        /\ \A u \in App : u # t => appPc'[u] = appPc[u]
    BY DEF AppStep, NewClosure, CheckInterval, Register, Load, Store, Push,
           PushCheck, Commit, startVars, gcVars, TypeOK
  <1>3. /\ gcPc'[<<t, "app">>] = "scan" => gcPc[<<t, "app">>] = "scan"
        /\ Collects(t, "app")' => Collects(t, "app")
    <2> USE DEF Collects, PcInv, PcAt, TypeOK, gcVars
    <2>0. <<t, "app">> \in Proc
      BY DEF Proc, Kind
    <2>1. CASE NewClosure(t)
      BY <2>0, <2>1 DEF NewClosure
    <2>2. CASE CheckInterval(t)
      BY <2>0, <2>2 DEF CheckInterval
    <2>3. CASE Register(t)
      BY <2>0, <2>3 DEF Register
    <2>4. CASE Load(t)
      BY <2>0, <2>4 DEF Load
    <2>5. CASE Store(t)
      BY <2>0, <2>5 DEF Store
    <2>6. CASE Push(t)
      BY <2>0, <2>6 DEF Push
    <2>7. CASE PushCheck(t)
      BY <2>0, <2>7 DEF PushCheck
    <2>8. CASE Commit(t)
      BY <2>0, <2>8 DEF Commit
    <2> QED
      BY <2>1, <2>2, <2>3, <2>4, <2>5, <2>6, <2>7, <2>8 DEF AppStep
  <1>4. ASSUME NEW u \in App, NEW k \in Kind
        PROVE  Collects(u, k)' => Collects(u, k)
    <2>1. CASE <<u, k>> = <<t, "app">>
      BY <1>3, <2>1
    <2>2. CASE <<u, k>> # <<t, "app">>
      BY <1>2, <2>2 DEF Collects, Proc, Kind
    <2> QED
      BY <2>1, <2>2
  <1>5. \A q \in Proc : gcPc'[q] = "scan" => gcPc[q] = "scan"
    BY <1>2, <1>3
  <1> QED
    BY <1>1, <1>4, <1>5, LockFrame

LEMMA LockVal ==
  ASSUME TypeOK, PcInv, LockInv, NEW t \in App, ValStep(t)
  PROVE  LockInv'
  <1>0. <<t, "val">> \in Proc
    BY DEF Proc, Kind
  <1>1. /\ UNCHANGED <<gcLock, startLock, appPc>>
        /\ \A q \in Proc : gcPc'[q] = gcPc[q] \/ gcPc'[q] = "try"
    BY <1>0 DEF ValStep, Validated, Decide, startVars, gcVars, appVars, TypeOK
  <1>2. \A u \in App : \A k \in Kind : Collects(u, k)' => Collects(u, k)
    BY <1>1 DEF Collects, Proc
  <1> QED
    BY <1>1, <1>2, LockFrame

LEMMA LockGc ==
  ASSUME TypeOK, PcInv, LockInv, NEW p \in Proc, GcStep(p)
  PROVE  LockInv'
  <1>0. PICK t \in App, k \in Kind : p = <<t, k>>
    BY DEF Proc
  <1>1. /\ UNCHANGED appPc
        /\ \A q \in Proc : q # p => gcPc'[q] = gcPc[q]
        /\ gcPc \in [Proc -> {"off", "try", "poll", "scan", "sweep"}]
        /\ gcLock \in [App -> BOOLEAN]
    BY GcMoves DEF appVars, TypeOK
  <1>2. \A u \in App : \A l \in Kind :
          <<u, l>> # p => Collects(u, l)' = Collects(u, l)
    BY <1>1 DEF Collects, Proc
  <1>3. p[1] = t /\ p[2] = k
    BY <1>0
  <1> USE DEF startVars, gcVars
  <1>4. CASE PollBusy(p) \/ PollSkip(p) \/ SweepFree(p)
    <2>1. UNCHANGED <<gcLock, startLock>>
      BY <1>4 DEF PollBusy, PollSkip, SweepFree
    <2>2. /\ Collects(t, k)' => Collects(t, k)
          /\ gcPc'[p] = "scan" => gcPc[p] = "scan"
      BY <1>0, <1>1, <1>3, <1>4
         DEF PollBusy, PollSkip, SweepFree, Return, Collects
    <2>3. \A u \in App : \A l \in Kind : Collects(u, l)' => Collects(u, l)
      BY <1>0, <1>2, <2>2
    <2>4. \A q \in Proc : gcPc'[q] = "scan" => gcPc[q] = "scan"
      BY <1>1, <2>2
    <2> QED
      BY <2>1, <2>3, <2>4, LockFrame
  <1>5. CASE TryGc(p)
    <2>1. UNCHANGED startLock /\ gcPc[p] = "try" /\ gcPc'[p] \in {"off", "poll"}
      BY <1>1, <1>5 DEF TryGc
    <2>2. \A q \in Proc : gcPc'[q] = "scan" => gcPc[q] = "scan"
      BY <1>1, <2>1
    <2>3. CASE gcLock[t]
      <3>1. UNCHANGED gcLock /\ gcPc'[p] = "off"
        BY <1>1, <1>3, <1>5, <2>3 DEF TryGc
      <3>2. ~Collects(t, k)'
        BY <1>0, <3>1 DEF Collects
      <3>3. \A u \in App : \A l \in Kind : Collects(u, l)' => Collects(u, l)
        BY <1>0, <1>2, <3>2
      <3> QED
        BY <2>1, <2>2, <3>1, <3>3, LockFrame
    <2>4. CASE ~gcLock[t]
      <3>1. gcLock'[t] /\ \A u \in App : u # t => gcLock'[u] = gcLock[u]
        BY <1>1, <1>3, <1>5, <2>4 DEF TryGc
      <3>2. \A l \in Kind : l # k => ~Collects(t, l)'
        BY <1>0, <1>2, <2>4 DEF LockInv
      <3>3. ASSUME NEW u \in App
            PROVE  /\ \A l \in Kind : Collects(u, l)' => gcLock'[u]
                   /\ ~(Collects(u, "app")' /\ Collects(u, "val")')
        <4>1. CASE u = t
          BY <3>1, <3>2, <4>1 DEF Kind
        <4>2. CASE u # t
          BY <1>0, <1>2, <3>1, <4>2 DEF LockInv, Kind
        <4> QED
          BY <4>1, <4>2
      <3> QED
        BY <2>1, <2>2, <3>3 DEF LockInv
    <2> QED
      BY <2>3, <2>4
  <1>6. CASE PollBegin(p)
    <2>1. /\ UNCHANGED gcLock /\ ~startLock /\ startLock'
          /\ gcPc[p] = "poll" /\ gcPc'[p] = "scan"
      BY <1>1, <1>6 DEF PollBegin
    <2>2. Collects(t, k)' => Collects(t, k)
      BY <1>0, <1>1, <2>1 DEF Collects
    <2>3. \A u \in App : \A l \in Kind : Collects(u, l)' => Collects(u, l)
      BY <1>0, <1>2, <2>2
    <2>4. \A q \in Proc : gcPc'[q] = "scan" => q = p
      BY <1>1, <2>1 DEF LockInv
    <2> QED
      BY <2>1, <2>3, <2>4 DEF LockInv, Kind
  <1>7. CASE PollEnd(p)
    <2>1. /\ UNCHANGED gcLock
          /\ gcPc[p] = "scan" /\ gcPc'[p] \in {"off", "sweep"}
          /\ p[2] = "app" /\ appPc[p[1]] = "start" => gcPc'[p] = "off"
      BY <1>1, <1>7 DEF PollEnd, Return
    <2>2. Collects(t, k)' => Collects(t, k)
      BY <1>0, <1>1, <1>3, <2>1 DEF Collects
    <2>3. \A u \in App : \A l \in Kind : Collects(u, l)' => Collects(u, l)
      BY <1>0, <1>2, <2>2
    <2>4. \A q \in Proc : gcPc'[q] # "scan"
      BY <1>1, <2>1 DEF LockInv
    <2> QED
      BY <2>1, <2>3, <2>4 DEF LockInv, Kind
  <1>8. CASE SweepEnd(p)
    <2>1. /\ UNCHANGED startLock
          /\ gcPc[p] = "sweep" /\ gcPc'[p] = "off"
          /\ \A u \in App : u # t => gcLock'[u] = gcLock[u]
      BY <1>1, <1>3, <1>8 DEF SweepEnd
    <2>2. Collects(t, k) /\ ~Collects(t, k)'
      BY <1>0, <2>1 DEF Collects, PcInv, PcAt, Kind
    <2>3. \A l \in Kind : ~Collects(t, l)'
      BY <1>0, <1>2, <2>2 DEF LockInv, Kind
    <2>4. \A q \in Proc : gcPc'[q] = "scan" => gcPc[q] = "scan"
      BY <1>1, <2>1
    <2>5. ASSUME NEW u \in App
          PROVE  /\ \A l \in Kind : Collects(u, l)' => gcLock'[u]
                 /\ ~(Collects(u, "app")' /\ Collects(u, "val")')
      <3>1. CASE u = t
        BY <2>3, <3>1 DEF Kind
      <3>2. CASE u # t
        BY <1>0, <1>2, <2>1, <3>2 DEF LockInv, Kind
      <3> QED
        BY <3>1, <3>2
    <2> QED
      BY <2>1, <2>4, <2>5 DEF LockInv
  <1> QED
    BY <1>4, <1>5, <1>6, <1>7, <1>8 DEF GcStep

LEMMA LockStep ==
  ASSUME TypeOK, PcInv, LockInv, [Next]_vars
  PROVE  LockInv'
  <1>1. CASE TickOn
    BY <1>1, LockFrame DEF TickOn, startVars, gcVars, appVars, Collects
  <1>2. CASE UNCHANGED vars
    BY <1>2, LockFrame DEF vars, startVars, gcVars, appVars, Collects
  <1> QED
    BY <1>1, <1>2, LockApp, LockVal, LockGc DEF Next

-----------------------------------------------------------------------------
(* The polls. *)

LEMMA ScanFrame ==
  ASSUME ScanInv, UNCHANGED <<earliest, startLock, scanAt, scanTo, bound, now>>,
         \A p \in Proc : gcPc'[p] = "scan" => gcPc[p] = "scan"
  PROVE  ScanInv'
  BY DEF ScanInv

\* A poll returns e: what it leaves earliest_tsc at, or an older value.
LEMMA ReturnMoves ==
  ASSUME TypeOK, NEW p \in Proc, NEW e \in Nat, Return(p, e)
  PROVE  /\ gcPc'[p] \in {"off", "sweep"}
         /\ \A q \in Proc : q # p => gcPc'[q] = gcPc[q] /\ bound'[q] = bound[q]
         /\ bound'[p] \in {bound[p], e}
         /\ gcPc'[p] = "sweep" => bound'[p] = e
  BY DEF Return, TypeOK

\* What a poll ends with.
Found(p) == IF scanAt[p] < scanTo[p] THEN scanAt[p]
            ELSE IF IdleReturnsNow \/ earliest = 0 THEN scanTo[p] ELSE earliest

LEMMA FoundBetween ==
  ASSUME TypeOK, ScanInv, NEW p \in Proc, gcPc[p] = "scan"
  PROVE  Found(p) \in Nat /\ earliest <= Found(p) /\ Found(p) <= now
  BY Types DEF Found, ScanInv

LEMMA ScanGc ==
  ASSUME TypeOK, LockInv, ScanInv, NEW p \in Proc, GcStep(p)
  PROVE  ScanInv' /\ earliest' >= earliest
  <1>0. /\ now \in Nat /\ earliest \in Nat
        /\ \A q \in Proc : /\ scanAt[q] \in Nat /\ scanTo[q] \in Nat
                           /\ bound[q] \in Nat
    BY Types
  <1>1. /\ gcPc \in [Proc -> {"off", "try", "poll", "scan", "sweep"}]
        /\ scanAt \in [Proc -> Nat] /\ scanTo \in [Proc -> Nat]
        /\ bound \in [Proc -> Nat]
    BY DEF TypeOK, Tick
  <1> USE DEF startVars, gcVars
  <1>2. CASE TryGc(p)
    BY <1>0, <1>1, <1>2, ScanFrame DEF TryGc
  <1>3. CASE PollBusy(p)
    <2>1. /\ Return(p, earliest)
          /\ UNCHANGED <<earliest, startLock, scanAt, scanTo, now>>
      BY <1>3 DEF PollBusy
    <2> QED
      BY <1>0, <2>1, ReturnMoves DEF ScanInv
  <1>4. CASE PollBegin(p)
    <2>1. /\ UNCHANGED <<earliest, bound, now>> /\ ~startLock
          /\ scanAt'[p] = (IF earliest = 0 THEN now ELSE earliest)
          /\ scanTo'[p] = now
      BY <1>1, <1>4 DEF PollBegin
    <2>2. \A q \in Proc : gcPc'[q] = "scan" => q = p
      BY <1>1, <1>4, <2>1 DEF PollBegin, LockInv
    <2> QED
      BY <1>0, <2>1, <2>2 DEF ScanInv
  <1>5. CASE PollSkip(p)
    <2>1. /\ UNCHANGED <<earliest, startLock, bound, scanTo, now, gcPc>>
          /\ gcPc[p] = "scan" /\ scanAt[p] < scanTo[p]
          /\ scanAt' = [scanAt EXCEPT ![p] = scanAt[p] + 1]
      BY <1>5 DEF PollSkip
    <2>2. \A q \in Proc : scanAt'[q] = IF q = p THEN scanAt[p] + 1 ELSE scanAt[q]
      BY <1>1, <2>1
    <2> QED
      BY <1>0, <2>1, <2>2 DEF ScanInv
  <1>6. CASE PollEnd(p)
    <2>1. /\ Return(p, Found(p)) /\ UNCHANGED now
          /\ earliest' = Found(p) /\ ~startLock' /\ gcPc[p] = "scan"
      BY <1>6 DEF PollEnd, Found
    <2>2. Found(p) \in Nat /\ earliest <= Found(p) /\ Found(p) <= now
      BY <2>1, FoundBetween
    <2>3. \A q \in Proc : gcPc'[q] # "scan"
      BY <2>1, <2>2, ReturnMoves DEF LockInv
    <2>4. \A q \in Proc : bound'[q] <= Found(p)
      BY <1>0, <2>1, <2>2, ReturnMoves DEF ScanInv
    <2>5. now' > 0
      BY <2>1 DEF ScanInv
    <2> QED
      BY <1>0, <2>1, <2>2, <2>3, <2>4, <2>5 DEF ScanInv
  <1>7. CASE SweepFree(p)
    BY <1>0, <1>7, ScanFrame DEF SweepFree
  <1>8. CASE SweepEnd(p)
    <2>1. /\ UNCHANGED <<earliest, startLock, scanAt, scanTo, now>>
          /\ \A q \in Proc : bound'[q] = IF q = p THEN 0 ELSE bound[q]
          /\ \A q \in Proc : gcPc'[q] = "scan" => gcPc[q] = "scan"
      BY <1>1, <1>8 DEF SweepEnd
    <2> QED
      BY <1>0, <2>1 DEF ScanInv
  <1> QED
    BY <1>2, <1>3, <1>4, <1>5, <1>6, <1>7, <1>8 DEF GcStep

LEMMA ScanStep ==
  ASSUME TypeOK, LockInv, ScanInv, [Next]_vars
  PROVE  ScanInv' /\ earliest' >= earliest
  <1>0. /\ now \in Nat /\ earliest \in Nat
        /\ \A p \in Proc : bound[p] \in Nat /\ scanTo[p] \in Nat
    BY Types
  <1> USE DEF startVars, gcVars
  <1>1. CASE TickOn
    BY <1>0, <1>1 DEF TickOn, ScanInv
  <1>2. CASE UNCHANGED vars
    BY <1>0, <1>2, ScanFrame DEF vars
  <1>3. ASSUME NEW t \in App, AppStep(t) \/ ValStep(t)
        PROVE  ScanInv' /\ earliest' >= earliest
    <2>1. UNCHANGED <<earliest, startLock, scanAt, scanTo, bound, now>>
      BY <1>3 DEF AppStep, NewClosure, CheckInterval, Register, Load, Store, Push,
                  PushCheck, Commit, ValStep, Validated, Decide
    <2>2. \A q \in Proc : gcPc'[q] = "scan" => gcPc[q] = "scan"
      BY <1>3 DEF AppStep, NewClosure, CheckInterval, Register, Load, Store, Push,
                  PushCheck, Commit, ValStep, Validated, Decide, TypeOK
    <2> QED
      BY <1>0, <2>1, <2>2, ScanFrame
  <1> QED
    BY <1>1, <1>2, <1>3, ScanGc DEF Next

-----------------------------------------------------------------------------
(* The free logs. *)

RingAt(log, m) ==
  \A i \in DOMAIN log : /\ log[i].tick <= m
                        /\ \A j \in DOMAIN log : i < j => log[i].tick <= log[j].tick

LEMMA RingOf == RingInv <=> \A t \in App : RingAt(freeLog[t], now)
  BY DEF RingInv, RingAt

LEMMA RingAppend ==
  ASSUME NEW log \in Seq(Entry), NEW e \in Entry, NEW m \in Nat, e.tick = m,
         RingAt(log, m)
  PROVE  RingAt(Append(log, e), m)
  <1> DEFINE n == Len(log)
             a == Append(log, e)
  <1>1. /\ n \in Nat /\ DOMAIN log = 1 .. n /\ DOMAIN a = 1 .. n + 1
        /\ \A i \in 1 .. n : a[i] = log[i]
        /\ a[n + 1] = e
    OBVIOUS
  <1>2. \A i \in 1 .. n : log[i].tick \in Nat
    <2>1. \A i \in 1 .. n : log[i] \in Entry
      OBVIOUS
    <2> QED
      BY <2>1 DEF Entry, Tick
  <1> HIDE DEF n, a
  <1> QED
    BY <1>1, <1>2 DEF RingAt

LEMMA RingTail ==
  ASSUME NEW log \in Seq(Entry), NEW m \in Nat, log # << >>, RingAt(log, m)
  PROVE  RingAt(Tail(log), m)
  <1> DEFINE n == Len(log)
             a == Tail(log)
  <1>1. /\ n \in Nat \ {0} /\ DOMAIN log = 1 .. n /\ DOMAIN a = 1 .. n - 1
        /\ \A i \in 1 .. n - 1 : a[i] = log[i + 1]
    OBVIOUS
  <1> HIDE DEF n, a
  <1> QED
    BY <1>1 DEF RingAt

LEMMA RingStep ==
  ASSUME TypeOK, PcInv, RingInv, [Next]_vars
  PROVE  RingInv'
  <1>0. /\ now \in Nat /\ freeLog \in [App -> Seq(Entry)]
        /\ \A t \in App : RingAt(freeLog[t], now)
    BY RingOf, Types DEF TypeOK
  <1>1. CASE UNCHANGED <<freeLog, now>>
    BY <1>1 DEF RingInv
  <1>2. CASE TickOn
    <2>1. now' = now + 1 /\ UNCHANGED freeLog
      BY <1>2 DEF TickOn
    <2>2. \A t \in App : \A i \in DOMAIN freeLog[t] : freeLog[t][i].tick \in Nat
      <3>1. \A t \in App : DOMAIN freeLog[t] = 1 .. Len(freeLog[t])
        BY <1>0
      <3> QED
        BY <3>1, Types
    <2> QED
      BY <1>0, <2>1, <2>2 DEF RingInv
  <1>3. ASSUME NEW t \in App, Push(t)
        PROVE  RingInv'
    <2> DEFINE e == [ptr |-> retired[t], tick |-> now]
               log == Append(freeLog[t], e)
    <2>1. retired[t] \in Obj
      <3>1. retired[t] # NoObj
        BY <1>3 DEF Push, PcInv, PcAt
      <3> QED
        BY <3>1 DEF TypeOK
    <2>2. e \in Entry /\ e.tick = now
      BY <1>0, <2>1 DEF Entry, Tick
    <2>3. /\ UNCHANGED now
          /\ \A u \in App : \/ freeLog'[u] = freeLog[u]
                            \/ freeLog'[u] = << >>
                            \/ u = t /\ freeLog'[u] = log
      <3> DEFINE l == IF Len(log) = RingSize THEN << >> ELSE log
      <3>1. UNCHANGED now /\ freeLog' = [freeLog EXCEPT ![t] = l]
        BY <1>3 DEF Push
      <3>2. l = << >> \/ l = log
        OBVIOUS
      <3> HIDE DEF e, log, l
      <3> QED
        BY <1>0, <3>1, <3>2
    <2>4. RingAt(log, now) /\ RingAt(<< >>, now)
      <3> HIDE DEF e
      <3> QED
        BY <1>0, <2>2, RingAppend DEF RingAt
    <2> QED
      BY <1>0, <2>3, <2>4 DEF RingInv, RingAt
  <1>4. ASSUME NEW p \in Proc, SweepFree(p)
        PROVE  RingInv'
    <2>1. /\ freeLog[p[1]] # << >> /\ UNCHANGED now /\ p[1] \in App
          /\ \A u \in App :
               freeLog'[u] = IF u = p[1] THEN Tail(freeLog[u]) ELSE freeLog[u]
      BY <1>0, <1>4, Types DEF SweepFree
    <2>2. RingAt(Tail(freeLog[p[1]]), now)
      BY <1>0, <2>1, RingTail
    <2> QED
      BY <1>0, <2>1, <2>2 DEF RingInv, RingAt
  <1>5. ASSUME NEW t \in App, AppStep(t) \/ ValStep(t), ~Push(t)
        PROVE  UNCHANGED <<freeLog, now>>
    BY <1>5 DEF AppStep, NewClosure, CheckInterval, Register, Load, Store,
                PushCheck, Commit, ValStep, Validated, Decide
  <1>6. ASSUME NEW p \in Proc, GcStep(p), ~SweepFree(p)
        PROVE  UNCHANGED <<freeLog, now>>
    BY <1>6 DEF GcStep, TryGc, PollBusy, PollBegin, PollSkip, PollEnd,
                SweepEnd
  <1> QED
    BY <1>1, <1>2, <1>3, <1>4, <1>5, <1>6 DEF Next, vars

-----------------------------------------------------------------------------
(* The theorems that hold for any constants. *)

LEMMA InitIInv == Init => IInv
  <1> SUFFICES ASSUME Init
               PROVE  IInv
    OBVIOUS
  <1> USE DEF Init
  <1>1. TypeOK
    <2>1. Idle \in Closure /\ << >> \in Seq(Closure) /\ << >> \in Seq(Entry)
      BY DEF Idle, Closure, Tick
    <2> QED
      BY <2>1, Constants DEF TypeOK, Tick
  <1>2. PcInv
    BY Constants DEF PcInv, PcAt, Idle, Proc, Kind
  <1>3. CountsExact
    <2>1. \A s : InSlot(s) = {}
      BY DEF InSlot, Counted
    <2> QED
      BY <2>1, FS_EmptySet DEF CountsExact
  <1>4. LockInv
    BY DEF LockInv, Collects, Proc, Kind
  <1>5. ScanInv
    BY Constants DEF ScanInv
  <1>6. RingInv
    BY DEF RingInv
  <1> QED
    BY <1>1, <1>2, <1>3, <1>4, <1>5, <1>6 DEF IInv

LEMMA StepIInv == IInv /\ [Next]_vars => IInv'
  BY TypesStep, PcStep, CountsStep, LockStep, ScanStep, RingStep DEF IInv

\* The invariant the theorems below rest on, for any constants.
THEOREM Invariance == Spec => []IInv
  BY InitIInv, StepIInv, PTL DEF Spec

\* Types.
THEOREM TypeCorrect == Spec => []TypeOK
  <1>1. IInv => TypeOK
    BY DEF IInv
  <1> QED
    BY <1>1, Invariance, PTL

\* closure_count: fetch_add in new_closure and fetch_sub in validated_closure
\* leave each slot at the number of running and pending closures whose tick
\* falls into it.
THEOREM CountsStayExact == Spec => []CountsExact
  <1>1. IInv => CountsExact
    BY DEF IInv
  <1> QED
    BY <1>1, Invariance, PTL

\* thread_gc: a free log is in the order of its ticks, and the application
\* thread and its validator never sweep it together.
THEOREM CollectorStaysOrdered == Spec => []CollectorOrdered
  <1>1. ASSUME IInv
        PROVE  CollectorOrdered
    <2> SUFFICES ASSUME NEW t \in App
                 PROVE  Cardinality({k \in Kind : gcPc[<<t, k>>] = "sweep"}) <= 1
      BY <1>1 DEF CollectorOrdered, IInv, RingInv
    <2> DEFINE S == {k \in Kind : gcPc[<<t, k>>] = "sweep"}
    <2>1. ~("app" \in S /\ "val" \in S)
      BY <1>1 DEF IInv, LockInv, Collects, PcInv, PcAt, Kind
    <2>2. S = {} \/ S = {"app"} \/ S = {"val"}
      BY <2>1 DEF Kind
    <2> HIDE DEF S
    <2> QED
      <3>1. /\ Cardinality({}) = 0 /\ Cardinality({"app"}) = 1
            /\ Cardinality({"val"}) = 1
        BY FS_EmptySet, FS_Singleton
      <3>2. Cardinality(S) = 0 \/ Cardinality(S) = 1
        BY <2>2, <3>1
      <3> QED
        BY <3>2 DEF S
  <1> QED
    BY <1>1, Invariance, PTL

\* poll_earliest_tsc: earliest_tsc never goes back.
THEOREM EarliestNeverBack == Spec => EarliestMonotone
  <1>1. IInv /\ [Next]_vars => [earliest' >= earliest]_vars
    BY ScanStep DEF IInv
  <1> QED
    BY <1>1, Invariance, PTL DEF Spec, EarliestMonotone

-----------------------------------------------------------------------------
(* earliest_tsc stays below what is pending and was counted in time. *)

\* A counted closure was counted before, or is the one just registered.
LEMMA Origins ==
  ASSUME TypeOK, NEW t \in App, Commit(t) \/ Validated(t)
  PROVE  \A u \in App : \A i \in Counted(u)' :
           \E j \in Counted(u) : ClosureAt(u, i)' = ClosureAt(u, j)
  <1> SUFFICES ASSUME NEW u \in App, NEW i \in Counted(u)'
               PROVE  \E j \in Counted(u) : ClosureAt(u, i)' = ClosureAt(u, j)
    OBVIOUS
  <1>1. CASE Commit(t)
    <2>1. CASE u = t
      <3>1. /\ pending[t] \in Seq(Closure) /\ appPc[t] = "open"
            /\ pending'[t] = Append(pending[t], open[t]) /\ appPc'[t] = "idle"
        BY <1>1 DEF Commit, TypeOK
      <3>2. i \in 1 .. Len(pending[t]) + 1
        BY <2>1, <3>1 DEF Counted
      <3>3. CASE i = Len(pending[t]) + 1
        <4>1. ClosureAt(t, i)' = ClosureAt(t, 0) /\ 0 \in Counted(t)
          BY <3>1, <3>2, <3>3 DEF ClosureAt, Counted
        <4> QED
          BY <2>1, <4>1
      <3>4. CASE i # Len(pending[t]) + 1
        <4>1. ClosureAt(t, i)' = ClosureAt(t, i) /\ i \in Counted(t)
          BY <3>1, <3>2, <3>4 DEF ClosureAt, Counted
        <4> QED
          BY <2>1, <4>1
      <3> QED
        BY <3>3, <3>4
    <2>2. CASE u # t
      <3>1. Counted(u)' = Counted(u) /\ ClosureAt(u, i)' = ClosureAt(u, i)
        BY <1>1, <2>2 DEF Commit, Counted, ClosureAt, TypeOK
      <3> QED
        BY <3>1
    <2> QED
      BY <2>1, <2>2
  <1>2. CASE Validated(t)
    <2>1. CASE u = t /\ i # 0
      <3>1. i \in Nat \ {0}
        BY <1>2, <2>1, ShiftPlaces
      <3>2. i + 1 \in Counted(t) /\ ClosureAt(t, i)' = ClosureAt(t, i + 1)
        BY <1>2, <2>1, <3>1, ShiftPlaces
      <3> QED
        BY <2>1, <3>2
    <2>2. CASE u = t /\ i = 0
      BY <1>2, <2>2, ShiftPlaces
    <2>3. CASE u # t
      BY <1>2, <2>3, ShiftPlaces
    <2> QED
      BY <2>1, <2>2, <2>3
  <1> QED
    BY <1>1, <1>2

\* The closure that is registered keeps its tick, and refers to nothing yet.
LEMMA RegisterPlaces ==
  ASSUME TypeOK, PcInv, NEW t \in App, Register(t)
  PROVE  /\ \A u \in App : \A i \in Counted(u) :
              ClosureAt(u, i)' = ClosureAt(u, i)
         /\ \A u \in App : \A i \in Counted(u)' :
              i \in Counted(u) \/ (u = t /\ i = 0)
         /\ ClosureAt(t, 0)'.tick = open[t].tick
         /\ ClosureAt(t, 0)'.late = Late(open[t].tick)
         /\ ClosureAt(t, 0)'.refs = {}
  <1>1. /\ UNCHANGED pending /\ appPc[t] = "register" /\ open[t].refs = {}
        /\ \A u \in App : u # t => appPc'[u] = appPc[u] /\ open'[u] = open[u]
        /\ open' = [open EXCEPT ![t].late = Late(open[t].tick)]
    BY DEF Register, TypeOK, PcInv, PcAt
  <1>2. open[t] \in Closure /\ open \in [App -> Closure]
    BY DEF TypeOK
  <1>3. /\ open'[t].tick = open[t].tick /\ open'[t].refs = {}
        /\ open'[t].late = Late(open[t].tick)
    BY <1>1, <1>2 DEF Closure
  <1>4. \A u \in App : \A i \in Counted(u) : ClosureAt(u, i)' = ClosureAt(u, i)
    BY <1>1 DEF ClosureAt, Counted
  <1>5. \A u \in App : \A i \in Counted(u)' :
          i \in Counted(u) \/ (u = t /\ i = 0)
    BY <1>1 DEF Counted
  <1> QED
    BY <1>3, <1>4, <1>5 DEF ClosureAt

\* So far as ticks and lateness go.
LEMMA OldOrNew ==
  ASSUME TypeOK, PcInv, [Next]_vars
  PROVE  \A u \in App : \A i \in Counted(u)' :
           \/ \E j \in Counted(u) :
                /\ ClosureAt(u, i)'.tick = ClosureAt(u, j).tick
                /\ ClosureAt(u, i)'.late = ClosureAt(u, j).late
           \/ /\ Register(u)
              /\ ClosureAt(u, i)'.tick = open[u].tick
              /\ ClosureAt(u, i)'.late = Late(open[u].tick)
  <1>1. CASE \E t \in App : Register(t)
    <2>1. PICK t \in App : Register(t)
      BY <1>1
    <2> SUFFICES ASSUME NEW u \in App, NEW i \in Counted(u)'
                 PROVE  \/ i \in Counted(u) /\ ClosureAt(u, i)' = ClosureAt(u, i)
                        \/ /\ u = t
                           /\ ClosureAt(u, i)'.tick = open[t].tick
                           /\ ClosureAt(u, i)'.late = Late(open[t].tick)
      BY <2>1
    <2>2. i \in Counted(u) \/ (u = t /\ i = 0)
      BY <2>1, RegisterPlaces
    <2> QED
      BY <2>1, <2>2, RegisterPlaces
  <1>2. CASE \E t \in App : Commit(t) \/ Validated(t)
    <2>1. \A u \in App : \A i \in Counted(u)' :
            \E j \in Counted(u) : ClosureAt(u, i)' = ClosureAt(u, j)
      BY <1>2, Origins
    <2> QED
      BY <2>1
  <1>3. CASE \A t \in App : ~Register(t) /\ ~Commit(t) /\ ~Validated(t)
    BY <1>3, SameStep DEF SameClosures
  <1> QED
    BY <1>1, <1>2, <1>3

LEMMA CountedTicks ==
  ASSUME TypeOK, NEW t \in App, NEW i \in Counted(t)
  PROVE  ClosureAt(t, i).tick \in Nat
  <1>1. i = 0 \/ i \in 1 .. Len(pending[t])
    <2>1. Len(pending[t]) \in Nat
      BY Types
    <2> QED
      BY <2>1 DEF Counted
  <1> QED
    BY <1>1, Types DEF ClosureAt

\* Time does not go back.
LEMMA TimeStep ==
  ASSUME TypeOK, [Next]_vars
  PROVE  now \in Nat /\ now' \in Nat /\ now <= now'
  <1>0. now \in Nat
    BY Types
  <1>1. CASE TickOn
    BY <1>0, <1>1 DEF TickOn
  <1>2. CASE ~TickOn
    <2>1. UNCHANGED now
      BY <1>2 DEF Next, vars, AppStep, NewClosure, CheckInterval, Register,
         Load, Store, Push, PushCheck, Commit, ValStep, Validated, Decide,
         GcStep, TryGc, PollBusy, PollBegin, PollSkip, PollEnd, SweepFree,
         SweepEnd
    <2> QED
      BY <1>0, <2>1
  <1> QED
    BY <1>1, <1>2

LEMMA TickStep ==
  ASSUME IInv, TickInv, [Next]_vars
  PROVE  TickInv'
  <1>0. TypeOK /\ PcInv /\ now \in Nat /\ now' \in Nat /\ now <= now'
    BY TimeStep DEF IInv
  <1>1. ASSUME NEW u \in App, NEW i \in Counted(u)'
        PROVE  ClosureAt(u, i)'.tick <= now'
    <2>1. PICK c \in Nat : c = ClosureAt(u, i)'.tick /\ c <= now
      <3>1. CASE \E j \in Counted(u) : ClosureAt(u, i)'.tick = ClosureAt(u, j).tick
        BY <1>0, <3>1, CountedTicks DEF TickInv
      <3>2. CASE Register(u) /\ ClosureAt(u, i)'.tick = open[u].tick
        BY <1>0, <3>2, Types DEF TickInv, Register
      <3> QED
        BY <1>0, <3>1, <3>2, OldOrNew
    <2> QED
      BY <1>0, <2>1
  <1>2. ASSUME NEW u \in App, appPc'[u] \in {"start", "register"}
        PROVE  open'[u].tick <= now'
    <2>1. PICK c \in Nat : c = open'[u].tick /\ c <= now
      <3>1. CASE UNCHANGED <<appPc[u], open[u]>>
        BY <1>0, <1>2, <3>1, Types DEF TickInv
      <3>2. ASSUME NEW t \in App, AppStep(t), ~(UNCHANGED <<appPc[u], open[u]>>)
            PROVE  open'[u].tick \in Nat /\ open'[u].tick <= now
        <4>1. CASE NewClosure(t)
          BY <1>0, <1>2, <3>2, <4>1 DEF NewClosure, TypeOK
        <4>2. CASE CheckInterval(t)
          BY <1>0, <1>2, <3>2, <4>2, Types DEF CheckInterval, TypeOK, TickInv
        <4>3. CASE ~NewClosure(t) /\ ~CheckInterval(t)
          <5>1. appPc'[t] \notin {"start", "register"}
            BY <1>0, <3>2, <4>3 DEF AppStep, Register, Load, Store, Push,
               PushCheck, Commit, TypeOK
          <5>2. \A v \in App : v # t => UNCHANGED <<appPc[v], open[v]>>
            BY <1>0, <3>2, <4>3 DEF AppStep, Register, Load, Store, Push,
               PushCheck, Commit, TypeOK
          <5> QED
            BY <1>2, <3>2, <5>1, <5>2
        <4> QED
          BY <4>1, <4>2, <4>3
      <3>3. ASSUME NEW p \in Proc, GcStep(p)
            PROVE  UNCHANGED <<appPc, open>>
        BY <1>0, <3>3, GcMoves DEF appVars
      <3>4. ASSUME TickOn \/ UNCHANGED vars \/ \E t \in App : ValStep(t)
            PROVE  UNCHANGED <<appPc, open>>
        BY <3>4 DEF TickOn, vars, appVars, ValStep, Validated, Decide
      <3> QED
        BY <3>1, <3>2, <3>3, <3>4 DEF Next
    <2> QED
      BY <1>0, <2>1
  <1> QED
    BY <1>1, <1>2 DEF TickInv

\* The tick a scan passes is the tick of no counted closure.
LEMMA SkipsNone ==
  ASSUME IInv, NEW p \in Proc, gcPc[p] = "scan", count[scanAt[p] % Slots] = 0,
         NEW t \in App, NEW i \in Counted(t)
  PROVE  ClosureAt(t, i).tick # scanAt[p]
  <1> SUFFICES ASSUME ClosureAt(t, i).tick = scanAt[p]
               PROVE  FALSE
    OBVIOUS
  <1> DEFINE s == scanAt[p] % Slots
  <1>1. s \in 0 .. Slots - 1
    BY Types, SlotRange DEF IInv
  <1>2. <<t, i>> \in InSlot(s)
    BY InSlotIs DEF IInv
  <1>3. Cardinality(InSlot(s)) = 0
    BY <1>1 DEF IInv, CountsExact
  <1> QED
    BY <1>2, <1>3, SlotFinite, FS_EmptySet

\* A step of the collector keeps below what it was below ...
LEMMA BelowGc ==
  ASSUME IInv, BelowInv, NEW p \in Proc, GcStep(p),
         NEW t \in App, NEW i \in Counted(t), ~ClosureAt(t, i).late
  PROVE  Below(ClosureAt(t, i).tick)'
  <1>1. PICK c \in Nat : c = ClosureAt(t, i).tick
    BY CountedTicks DEF IInv
  <1> SUFFICES /\ earliest' > 0 /\ earliest' <= c
               /\ \A q \in Proc : gcPc'[q] = "scan" => scanAt'[q] <= c
    <2>1. ClosureAt(t, i)'.tick = c
      BY <1>1, SameGc DEF SameClosures, IInv
    <2> QED
      BY <2>1 DEF Below
  <1>2. /\ earliest > 0 /\ earliest <= c
        /\ \A q \in Proc : gcPc[q] = "scan" => scanAt[q] <= c
    BY <1>1 DEF BelowInv, Below
  <1>3. /\ TypeOK /\ ScanInv /\ LockInv /\ now \in Nat /\ earliest \in Nat
        /\ \A q \in Proc : scanAt[q] \in Nat /\ scanTo[q] \in Nat
        /\ \A q \in Proc : q # p => gcPc'[q] = gcPc[q]
    BY Types, GcMoves DEF IInv
  <1>4. /\ gcPc \in [Proc -> {"off", "try", "poll", "scan", "sweep"}]
        /\ scanAt \in [Proc -> Nat] /\ scanTo \in [Proc -> Nat]
    BY <1>3 DEF TypeOK, Tick
  <1> USE DEF startVars, gcVars
  <1>5. CASE TryGc(p)
    BY <1>2, <1>4, <1>5 DEF TryGc
  <1>6. CASE PollBusy(p)
    <2>1. Return(p, earliest) /\ UNCHANGED <<earliest, scanAt>>
      BY <1>6 DEF PollBusy
    <2> QED
      BY <1>2, <1>3, <2>1, ReturnMoves
  <1>7. CASE PollBegin(p)
    <2>1. /\ UNCHANGED earliest
          /\ \A q \in Proc : scanAt'[q] = IF q = p THEN earliest ELSE scanAt[q]
      BY <1>2, <1>4, <1>7 DEF PollBegin
    <2> QED
      BY <1>2, <1>3, <2>1
  <1>8. CASE PollSkip(p)
    <2>1. /\ UNCHANGED <<earliest, gcPc>> /\ gcPc[p] = "scan"
          /\ \A q \in Proc :
               scanAt'[q] = IF q = p THEN scanAt[p] + 1 ELSE scanAt[q]
      BY <1>4, <1>8 DEF PollSkip
    <2>2. c # scanAt[p]
      BY <1>1, <1>8, SkipsNone DEF PollSkip
    <2>3. scanAt[p] + 1 <= c
      BY <1>2, <1>3, <2>1, <2>2
    <2> QED
      BY <1>2, <2>1, <2>3
  <1>9. CASE PollEnd(p)
    <2>1. /\ Return(p, Found(p)) /\ earliest' = Found(p) /\ gcPc[p] = "scan"
      BY <1>9 DEF PollEnd, Found
    <2>2. Found(p) \in Nat /\ Found(p) <= c /\ Found(p) > 0
      BY <1>2, <1>3, <2>1 DEF Found, ScanInv
    <2>3. \A q \in Proc : gcPc'[q] # "scan"
      BY <1>3, <2>1, <2>2, ReturnMoves DEF LockInv
    <2> QED
      BY <2>1, <2>2, <2>3
  <1>10. CASE SweepFree(p)
    BY <1>2, <1>10 DEF SweepFree
  <1>11. CASE SweepEnd(p)
    BY <1>2, <1>4, <1>11 DEF SweepEnd
  <1> QED
    BY <1>5, <1>6, <1>7, <1>8, <1>9, <1>10, <1>11 DEF GcStep

\* ... and no other step moves it.
LEMMA BelowOther ==
  ASSUME IInv, NEW c, Below(c), [Next]_vars, \A p \in Proc : ~GcStep(p)
  PROVE  /\ earliest' > 0 /\ earliest' <= c
         /\ \A p \in Proc : gcPc'[p] = "scan" => scanAt'[p] <= c
  <1>1. UNCHANGED <<earliest, scanAt>>
    BY DEF Next, vars, startVars, gcVars, TickOn, AppStep, NewClosure, CheckInterval,
       Register, Load, Store, Push, PushCheck, Commit, ValStep, Validated, Decide
  <1>2. \A p \in Proc : gcPc'[p] = "scan" => gcPc[p] = "scan"
    <2>1. CASE UNCHANGED gcPc
      BY <2>1
    <2>2. gcPc \in [Proc -> {"off", "try", "poll", "scan", "sweep"}]
      BY DEF IInv, TypeOK
    <2>3. CASE \E t \in App : NewClosure(t) \/ PushCheck(t) \/ Decide(t)
      BY <2>2, <2>3 DEF NewClosure, PushCheck, Decide
    <2> QED
      BY <2>1, <2>3 DEF Next, vars, gcVars, TickOn, AppStep, CheckInterval,
         Register, Load, Store, Push, Commit, ValStep, Validated
  <1> QED
    BY <1>1, <1>2 DEF Below

\* A closure is late unless its tick is below nothing when it is counted.
LEMMA InTime ==
  ASSUME TypeOK, NEW x \in Nat, ~Late(x)
  PROVE  Below(x)
  <1>1. /\ earliest \in Nat /\ \A p \in Proc : scanAt[p] \in Nat
    BY Types
  <1> QED
    BY <1>1 DEF Late, Below

LEMMA BelowStep ==
  ASSUME IInv, BelowInv, [Next]_vars
  PROVE  BelowInv'
  <1> SUFFICES ASSUME NEW t \in App, NEW i \in Counted(t)',
                      ~ClosureAt(t, i)'.late
               PROVE  Below(ClosureAt(t, i).tick)'
    BY DEF BelowInv
  <1>0. /\ TypeOK /\ PcInv
        /\ \A j \in Counted(t) : ~ClosureAt(t, j).late =>
                                   Below(ClosureAt(t, j).tick)
    BY DEF BelowInv, IInv
  <1>1. CASE \E p \in Proc : GcStep(p)
    <2>1. PICK p \in Proc : GcStep(p)
      BY <1>1
    <2>2. i \in Counted(t) /\ ~ClosureAt(t, i).late
      BY <1>0, <2>1, SameGc DEF SameClosures
    <2> QED
      BY <2>1, <2>2, BelowGc
  <1>2. CASE \A p \in Proc : ~GcStep(p)
    <2>1. PICK c : c = ClosureAt(t, i)'.tick
      OBVIOUS
    <2>2. Below(c)
      <3>1. CASE \E j \in Counted(t) : /\ c = ClosureAt(t, j).tick
                                       /\ ~ClosureAt(t, j).late
        BY <1>0, <3>1
      <3>2. CASE c = open[t].tick /\ ~Late(open[t].tick)
        BY <1>0, <3>2, Types, InTime
      <3> QED
        BY <1>0, <2>1, <3>1, <3>2, OldOrNew
    <2> QED
      BY <1>2, <2>1, <2>2, BelowOther DEF Below
  <1> QED
    BY <1>1, <1>2

LEMMA InitOrder == Init => OrderInv
  <1> SUFFICES ASSUME Init
               PROVE  TickInv /\ BelowInv
    BY InitIInv DEF OrderInv
  <1>1. \A t \in App : Counted(t) = {} /\ appPc[t] = "idle"
    BY DEF Init, Counted
  <1> QED
    BY <1>1 DEF TickInv, BelowInv

LEMMA StepOrder == OrderInv /\ [Next]_vars => OrderInv'
  BY StepIInv, TickStep, BelowStep DEF OrderInv

\* poll_earliest_tsc: earliest_tsc and the collectors' copies of it lie at or
\* before the tick of every closure that runs or awaits validation, except for
\* those that were counted only after a poll had passed their tick, or before
\* the first poll.
THEOREM EarliestStaysBelow == Spec => []EarliestBelowPending
  <1>1. ASSUME OrderInv
        PROVE  EarliestBelowPending
    <2> SUFFICES ASSUME NEW t \in App, NEW i \in Counted(t),
                        ~ClosureAt(t, i).late
                 PROVE  /\ earliest <= ClosureAt(t, i).tick
                        /\ \A p \in Proc : bound[p] <= ClosureAt(t, i).tick
      BY DEF EarliestBelowPending
    <2>1. PICK c \in Nat : c = ClosureAt(t, i).tick
      BY <1>1, CountedTicks DEF OrderInv, IInv
    <2>2. earliest \in Nat /\ \A p \in Proc : bound[p] \in Nat
      BY <1>1, Types DEF OrderInv, IInv
    <2>3. earliest <= c /\ \A p \in Proc : bound[p] <= earliest
      BY <1>1, <2>1 DEF OrderInv, IInv, ScanInv, BelowInv, Below
    <2> QED
      BY <2>1, <2>2, <2>3
  <1> QED
    BY <1>1, InitOrder, StepOrder, PTL DEF Spec

-----------------------------------------------------------------------------
(* Every version is in one place, but for those an overfull log spoils. *)

\* A thread that pushes a version once more has spoilt it.
LEMMA AllocFrame ==
  ASSUME AllocInv, UNCHANGED <<heap, cell, freeLog>>, spoilt \subseteq spoilt',
         \A t \in App :
           /\ appPc[t] = "push" => /\ appPc'[t] = "push"
                                   /\ retired'[t] = retired[t]
           /\ appPc'[t] = "push" => appPc[t] = "push" \/ retired'[t] \in spoilt'
  PROVE  AllocInv'
  <1>1. RetiredOnce' /\ CellInv'
    BY DEF AllocInv, RetiredOnce, CellInv
  <1>2. NoneLost'
    BY DEF AllocInv, NoneLost
  <1>3. PushInv'
    BY DEF AllocInv, PushInv
  <1> QED
    BY <1>1, <1>2, <1>3 DEF AllocInv

\* ptr_t::store: the new version leaves the heap, the old one is to be pushed.
LEMMA AllocStore ==
  ASSUME TypeOK, AllocInv, NEW t \in App, Store(t)
  PROVE  AllocInv'
  <1>1. PICK o \in heap : heap' = heap \ {o} /\ cell' = o
    BY DEF Store
  <1>2. /\ UNCHANGED <<freeLog, spoilt>> /\ appPc[t] = "open"
        /\ \A u \in App : u # t => appPc'[u] = appPc[u] /\ retired'[u] = retired[u]
        /\ appPc'[t] = "push" <=> cell # NoObj
        /\ retired'[t] = cell /\ o \in Obj /\ cell \in Obj \cup {NoObj}
    BY <1>1 DEF Store, TypeOK
  <1>3. heap' \cup {cell'} = heap
    BY <1>1
  <1>4. RetiredOnce'
    BY <1>2, <1>3 DEF AllocInv, RetiredOnce
  <1>5. CellInv'
    BY <1>1 DEF CellInv
  <1>6. NoneLost'
    <2> SUFFICES ASSUME NEW x \in Obj \ spoilt, x \notin heap
                 PROVE  \E u \in App : \/ appPc'[u] = "push" /\ retired'[u] = x
                                       \/ \E e \in Range(freeLog'[u]) : e.ptr = x
      BY <1>2, <1>3 DEF NoneLost
    <2>1. CASE x = cell
      BY <1>2, <2>1, Constants
    <2>2. CASE x # cell
      BY <1>2, <2>2 DEF AllocInv, NoneLost
    <2> QED
      BY <2>1, <2>2
  <1>7. PushInv'
    <2>1. /\ cell \notin spoilt =>
               /\ cell \notin heap
               /\ \A u \in App : \A i \in DOMAIN freeLog[u] :
                    freeLog[u][i].ptr # cell
          /\ \A u \in App : appPc[u] = "push" /\ retired[u] \notin spoilt =>
               /\ retired[u] \notin heap /\ retired[u] # cell
               /\ \A v \in App :
                    /\ \A i \in DOMAIN freeLog[v] : freeLog[v][i].ptr # retired[u]
                    /\ appPc[v] = "push" /\ retired[v] = retired[u] => u = v
      BY DEF AllocInv, CellInv, RetiredOnce, PushInv
    <2> QED
      BY <1>2, <1>3, <2>1 DEF PushInv
  <1> QED
    BY <1>4, <1>5, <1>6, <1>7 DEF AllocInv

\* FreeLog::push of a log that has room: the version moves into the log.
LEMMA AllocPush ==
  ASSUME TypeOK, PcInv, AllocInv, NEW t \in App, Push(t),
         Len(Append(freeLog[t], [ptr |-> retired[t], tick |-> now])) # RingSize
  PROVE  AllocInv'
  <1> DEFINE log == freeLog[t]
             n == Len(freeLog[t])
             e == [ptr |-> retired[t], tick |-> now]
  <1>1. log \in Seq(Entry) /\ n \in Nat
    BY Types
  <1>2. retired[t] \in Obj
    <2>1. retired[t] # NoObj
      BY DEF Push, PcInv, PcAt
    <2> QED
      BY <2>1 DEF TypeOK
  <1>3. e \in Entry /\ e.ptr = retired[t]
    BY <1>2, Types DEF Entry, Tick
  <1>4. freeLog' = [freeLog EXCEPT ![t] = Append(log, e)] /\ UNCHANGED spoilt
    BY DEF Push
  <1> HIDE DEF e
  <1>5. /\ DOMAIN freeLog'[t] = 1 .. n + 1 /\ DOMAIN freeLog[t] = 1 .. n
        /\ \A i \in 1 .. n : freeLog'[t][i] = freeLog[t][i]
        /\ freeLog'[t][n + 1] = e
        /\ \A u \in App : u # t => freeLog'[u] = freeLog[u]
    <2>1. freeLog'[t] = Append(log, e)
      BY <1>4 DEF TypeOK
    <2> QED
      BY <1>1, <1>3, <1>4, <2>1 DEF TypeOK
  <1>6. /\ UNCHANGED <<heap, cell, retired, spoilt>>
        /\ appPc[t] = "push" /\ appPc'[t] = "pushed"
        /\ \A u \in App : u # t => appPc'[u] = appPc[u]
    BY <1>4 DEF Push, TypeOK
  <1> HIDE DEF n, log
  <1>7. \A u \in App : \A i \in DOMAIN freeLog'[u] :
          \/ i \in DOMAIN freeLog[u] /\ freeLog'[u][i] = freeLog[u][i]
          \/ u = t /\ i = n + 1 /\ freeLog'[u][i].ptr = retired[t]
    <2>1. \A i \in 1 .. n + 1 : i \in 1 .. n \/ i = n + 1
      BY <1>1
    <2>2. ASSUME NEW u \in App, NEW i \in DOMAIN freeLog'[u], u = t
          PROVE  \/ i \in DOMAIN freeLog[u] /\ freeLog'[u][i] = freeLog[u][i]
                 \/ i = n + 1 /\ freeLog'[u][i].ptr = retired[t]
      BY <1>3, <1>5, <2>1, <2>2
    <2>3. ASSUME NEW u \in App, u # t
          PROVE  freeLog'[u] = freeLog[u]
      BY <1>5, <2>3
    <2> QED
      BY <2>2, <2>3
  <1>8. retired[t] \notin spoilt =>
        /\ retired[t] \notin heap \cup {cell}
        /\ \A u \in App : /\ \A i \in DOMAIN freeLog[u] :
                               freeLog[u][i].ptr # retired[t]
                          /\ appPc[u] = "push" /\ retired[u] = retired[t] => t = u
    BY <1>6 DEF AllocInv, PushInv
  <1>9. RetiredOnce'
    <2> SUFFICES ASSUME NEW u \in App, NEW v \in App,
                        NEW i \in DOMAIN freeLog'[u],
                        NEW j \in DOMAIN freeLog'[v],
                        freeLog'[u][i].ptr \notin spoilt
                 PROVE  /\ freeLog'[u][i].ptr \notin heap \cup {cell}
                        /\ freeLog'[u][i].ptr = freeLog'[v][j].ptr =>
                             <<u, i>> = <<v, j>>
      BY <1>6 DEF RetiredOnce
    <2> QED
      BY <1>7, <1>8 DEF AllocInv, RetiredOnce
  <1>10. CellInv'
    BY <1>6 DEF AllocInv, CellInv
  <1>11. NoneLost'
    <2> SUFFICES ASSUME NEW x \in Obj \ spoilt, x \notin heap \cup {cell}
                 PROVE  \E u \in App :
                          \/ appPc'[u] = "push" /\ retired'[u] = x
                          \/ \E i \in DOMAIN freeLog'[u] : freeLog'[u][i].ptr = x
      BY <1>6 DEF NoneLost, Range
    <2>1. PICK u \in App : \/ appPc[u] = "push" /\ retired[u] = x
                           \/ \E i \in DOMAIN freeLog[u] : freeLog[u][i].ptr = x
      BY DEF AllocInv, NoneLost, Range
    <2>2. CASE u = t /\ retired[u] = x
      <3>1. n + 1 \in DOMAIN freeLog'[t] /\ freeLog'[t][n + 1].ptr = x
        BY <1>1, <1>3, <1>5, <2>2
      <3> QED
        BY <3>1
    <2>3. CASE u # t /\ appPc[u] = "push" /\ retired[u] = x
      BY <1>6, <2>3
    <2>4. ASSUME NEW i \in DOMAIN freeLog[u], freeLog[u][i].ptr = x
          PROVE  i \in DOMAIN freeLog'[u] /\ freeLog'[u][i].ptr = x
      <3>1. CASE u = t
        <4>1. i \in 1 .. n /\ i \in 1 .. n + 1
          BY <1>1, <1>5, <3>1
        <4> QED
          BY <1>5, <2>4, <3>1, <4>1
      <3>2. CASE u # t
        BY <1>5, <2>4, <3>2
      <3> QED
        BY <3>1, <3>2
    <2> QED
      BY <2>1, <2>2, <2>3, <2>4
  <1>12. PushInv'
    <2> SUFFICES ASSUME NEW u \in App, appPc'[u] = "push",
                        retired[u] \notin spoilt
                 PROVE  /\ retired[u] \notin heap \cup {cell}
                        /\ \A v \in App :
                             /\ \A i \in DOMAIN freeLog'[v] :
                                  freeLog'[v][i].ptr # retired[u]
                             /\ appPc'[v] = "push" /\ retired[v] = retired[u] =>
                                  u = v
      BY <1>6 DEF PushInv
    <2>1. u # t /\ appPc[u] = "push"
      BY <1>6
    <2>2. retired[u] # retired[t]
      BY <1>8, <2>1
    <2> QED
      BY <1>6, <1>7, <2>1, <2>2 DEF AllocInv, PushInv
  <1> QED
    BY <1>9, <1>10, <1>11, <1>12 DEF AllocInv

\* FreeLog::push of the last place: the log's versions are lost, and spoilt.
LEMMA AllocOverflow ==
  ASSUME TypeOK, PcInv, AllocInv, NEW t \in App, Push(t),
         Len(Append(freeLog[t], [ptr |-> retired[t], tick |-> now])) = RingSize
  PROVE  AllocInv'
  <1> DEFINE e == [ptr |-> retired[t], tick |-> now]
             log == Append(freeLog[t], e)
             lost == {x.ptr : x \in Range(log)}
  <1>1. freeLog' = [freeLog EXCEPT ![t] = << >>] /\ spoilt' = spoilt \cup lost
    BY DEF Push
  <1>2. /\ UNCHANGED <<heap, cell, retired>>
        /\ appPc[t] = "push" /\ appPc'[t] = "pushed"
        /\ \A u \in App : u # t => appPc'[u] = appPc[u]
    BY DEF Push, TypeOK
  <1>3. /\ \A i \in DOMAIN freeLog[t] : freeLog[t][i].ptr \in lost
        /\ retired[t] \in lost
    <2>0. e.ptr = retired[t]
      OBVIOUS
    <2> HIDE DEF e
    <2>1. freeLog[t] \in Seq(Entry)
      BY DEF TypeOK
    <2>2. /\ \A i \in DOMAIN freeLog[t] :
               i \in DOMAIN log /\ log[i] = freeLog[t][i]
          /\ \E i \in DOMAIN log : log[i] = e
      <3>1. /\ Len(freeLog[t]) \in Nat
            /\ DOMAIN freeLog[t] = 1 .. Len(freeLog[t])
            /\ DOMAIN log = 1 .. Len(freeLog[t]) + 1
            /\ \A i \in 1 .. Len(freeLog[t]) : log[i] = freeLog[t][i]
            /\ log[Len(freeLog[t]) + 1] = e
        BY <2>1
      <3> HIDE DEF log
      <3> QED
        BY <3>1
    <2> HIDE DEF log
    <2>3. \A i \in DOMAIN log : log[i].ptr \in lost
      BY DEF Range
    <2> QED
      BY <2>0, <2>2, <2>3
  <1> HIDE DEF lost, log, e
  <1>4. \A u \in App : /\ u # t => freeLog'[u] = freeLog[u]
                       /\ u = t => DOMAIN freeLog'[u] = {}
    BY <1>1 DEF TypeOK
  <1>5. RetiredOnce'
    BY <1>1, <1>2, <1>4 DEF AllocInv, RetiredOnce
  <1>6. CellInv'
    BY <1>1, <1>2 DEF AllocInv, CellInv
  <1>7. NoneLost'
    <2> SUFFICES ASSUME NEW x \in Obj \ spoilt, x \notin lost,
                        x \notin heap \cup {cell}
                 PROVE  \E u \in App :
                          \/ appPc'[u] = "push" /\ retired'[u] = x
                          \/ \E i \in DOMAIN freeLog'[u] : freeLog'[u][i].ptr = x
      BY <1>1, <1>2 DEF NoneLost, Range
    <2>1. PICK u \in App : \/ appPc[u] = "push" /\ retired[u] = x
                           \/ \E i \in DOMAIN freeLog[u] : freeLog[u][i].ptr = x
      BY DEF AllocInv, NoneLost, Range
    <2>2. u # t
      BY <1>3, <2>1
    <2> QED
      BY <1>2, <1>4, <2>1, <2>2
  <1>8. PushInv'
    <2> SUFFICES ASSUME NEW u \in App, appPc'[u] = "push",
                        retired[u] \notin spoilt
                 PROVE  /\ retired[u] \notin heap \cup {cell}
                        /\ \A v \in App :
                             /\ \A i \in DOMAIN freeLog'[v] :
                                  freeLog'[v][i].ptr # retired[u]
                             /\ appPc'[v] = "push" /\ retired[v] = retired[u] =>
                                  u = v
      BY <1>1, <1>2 DEF PushInv
    <2>1. u # t /\ appPc[u] = "push"
      BY <1>2
    <2> QED
      BY <1>2, <1>4, <2>1 DEF AllocInv, PushInv
  <1> QED
    BY <1>5, <1>6, <1>7, <1>8 DEF AllocInv

\* peek, free, pop: the version moves from the log into the heap.
LEMMA AllocFree ==
  ASSUME TypeOK, AllocInv, NEW p \in Proc, SweepFree(p)
  PROVE  AllocInv'
  <1>1. PICK t \in App : t = p[1]
    BY DEF Proc
  <1> DEFINE n == Len(freeLog[t])
             x == freeLog[t][1].ptr
  <1>2. /\ freeLog[t] \in Seq(Entry) /\ freeLog[t] # << >>
        /\ freeLog' = [freeLog EXCEPT ![t] = Tail(freeLog[t])]
        /\ heap' = heap \cup {Head(freeLog[t]).ptr}
        /\ UNCHANGED <<cell, retired, appPc, spoilt>>
    BY <1>1 DEF SweepFree, TypeOK, appVars
  <1>3. /\ n \in Nat \ {0} /\ DOMAIN freeLog[t] = 1 .. n
        /\ DOMAIN freeLog'[t] = 1 .. n - 1
        /\ \A i \in 1 .. n - 1 : freeLog'[t][i] = freeLog[t][i + 1]
        /\ \A u \in App : u # t => freeLog'[u] = freeLog[u]
        /\ heap' = heap \cup {x}
    <2>1. freeLog'[t] = Tail(freeLog[t])
      BY <1>2 DEF TypeOK
    <2> QED
      BY <1>2, <2>1 DEF TypeOK
  <1>4. 1 \in DOMAIN freeLog[t]
    BY <1>3
  <1> HIDE DEF n
  \* Entry i of u was entry at(u, i), and not the one that has been freed.
  <1> DEFINE at(u, i) == IF u = t THEN i + 1 ELSE i
  <1>5. ASSUME NEW u \in App, NEW i \in DOMAIN freeLog'[u]
        PROVE  /\ at(u, i) \in DOMAIN freeLog[u]
               /\ freeLog'[u][i] = freeLog[u][at(u, i)]
               /\ <<u, at(u, i)>> # <<t, 1>>
    BY <1>3, <1>5
  <1>6. ASSUME NEW u \in App, NEW i \in DOMAIN freeLog[u], <<u, i>> # <<t, 1>>
        PROVE  \E k \in DOMAIN freeLog'[u] : freeLog'[u][k] = freeLog[u][i]
    <2>1. CASE u = t
      <3>1. i - 1 \in 1 .. n - 1 /\ (i - 1) + 1 = i
        BY <1>3, <1>6, <2>1
      <3> QED
        BY <1>3, <2>1, <3>1
    <2>2. CASE u # t
      BY <1>3, <2>2
    <2> QED
      BY <2>1, <2>2
  <1>7. x \notin spoilt =>
        /\ x \notin heap \cup {cell}
        /\ \A u \in App : \A i \in DOMAIN freeLog[u] :
             freeLog[u][i].ptr = x => <<u, i>> = <<t, 1>>
        /\ \A u \in App : appPc[u] = "push" => retired[u] # x
    BY <1>4 DEF AllocInv, RetiredOnce, PushInv
  <1> HIDE DEF x
  <1>8. RetiredOnce'
    <2> SUFFICES ASSUME NEW u \in App, NEW v \in App,
                        NEW i \in DOMAIN freeLog'[u],
                        NEW j \in DOMAIN freeLog'[v],
                        freeLog'[u][i].ptr \notin spoilt
                 PROVE  /\ freeLog'[u][i].ptr \notin heap' \cup {cell'}
                        /\ freeLog'[u][i].ptr = freeLog'[v][j].ptr =>
                             <<u, i>> = <<v, j>>
      BY <1>2 DEF RetiredOnce
    <2>1. /\ freeLog[u][at(u, i)].ptr \notin heap \cup {cell}
          /\ freeLog[u][at(u, i)].ptr = freeLog[v][at(v, j)].ptr =>
               <<u, at(u, i)>> = <<v, at(v, j)>>
      BY <1>5 DEF AllocInv, RetiredOnce
    <2>2. freeLog[u][at(u, i)].ptr # x
      BY <1>5, <1>7
    <2>3. i \in Int /\ j \in Int
      <3>1. \A w \in App : \A k \in DOMAIN freeLog'[w] : k \in Int
        <4>1. \A w \in App : \A k \in DOMAIN freeLog[w] : k \in Int
          BY Types DEF TypeOK
        <4> QED
          BY <1>3, <4>1
      <3> QED
        BY <3>1
    <2>4. <<u, at(u, i)>> = <<v, at(v, j)>> => <<u, i>> = <<v, j>>
      BY <2>3
    <2> QED
      BY <1>2, <1>3, <1>5, <2>1, <2>2, <2>4
  <1>9. CellInv'
    BY <1>2, <1>3, <1>7 DEF AllocInv, CellInv
  <1>10. NoneLost'
    <2> SUFFICES ASSUME NEW o \in Obj \ spoilt, o \notin heap \cup {cell},
                        o # x
                 PROVE  \E u \in App :
                          \/ appPc[u] = "push" /\ retired[u] = o
                          \/ \E i \in DOMAIN freeLog'[u] : freeLog'[u][i].ptr = o
      BY <1>2, <1>3 DEF NoneLost, Range
    <2>1. PICK u \in App : \/ appPc[u] = "push" /\ retired[u] = o
                           \/ \E i \in DOMAIN freeLog[u] : freeLog[u][i].ptr = o
      BY DEF AllocInv, NoneLost, Range
    <2>2. ASSUME NEW i \in DOMAIN freeLog[u], freeLog[u][i].ptr = o
          PROVE  \E k \in DOMAIN freeLog'[u] : freeLog'[u][k].ptr = o
      <3>1. <<u, i>> # <<t, 1>>
        BY <2>2 DEF x
      <3> QED
        BY <1>6, <2>2, <3>1
    <2> QED
      BY <2>1, <2>2
  <1>11. PushInv'
    <2> SUFFICES ASSUME NEW u \in App, appPc[u] = "push",
                        retired[u] \notin spoilt
                 PROVE  /\ retired[u] \notin heap' \cup {cell}
                        /\ \A v \in App :
                             /\ \A i \in DOMAIN freeLog'[v] :
                                  freeLog'[v][i].ptr # retired[u]
                             /\ appPc[v] = "push" /\ retired[v] = retired[u] =>
                                  u = v
      BY <1>2 DEF PushInv
    <2> QED
      BY <1>3, <1>5, <1>7 DEF AllocInv, PushInv
  <1> QED
    BY <1>8, <1>9, <1>10, <1>11 DEF AllocInv

LEMMA AllocStep ==
  ASSUME TypeOK, PcInv, AllocInv, [Next]_vars
  PROVE  AllocInv'
  <1>1. CASE \E t \in App : Store(t) \/ Push(t)
    BY <1>1, AllocStore, AllocPush, AllocOverflow
  <1>2. CASE \E p \in Proc : SweepFree(p)
    BY <1>2, AllocFree
  <1>3. CASE TickOn \/ UNCHANGED vars \/ \E t \in App : ValStep(t)
    <2>1. UNCHANGED <<heap, cell, freeLog, appPc, retired, spoilt>>
      BY <1>3 DEF TickOn, vars, appVars, ValStep, Validated, Decide
    <2> QED
      BY <2>1, AllocFrame
  <1>4. ASSUME NEW p \in Proc, GcStep(p), ~SweepFree(p)
        PROVE  AllocInv'
    <2>1. UNCHANGED <<heap, cell, freeLog, appPc, retired, spoilt>>
      BY <1>4 DEF GcStep, TryGc, PollBusy, PollBegin, PollSkip, PollEnd,
         SweepEnd, appVars
    <2> QED
      BY <2>1, AllocFrame
  <1>5. ASSUME NEW t \in App, AppStep(t), ~Store(t), ~Push(t), ~PushCheck(t)
        PROVE  AllocInv'
    <2>1. UNCHANGED <<heap, cell, freeLog, retired, spoilt>>
      BY <1>5 DEF AppStep, NewClosure, CheckInterval, Register, Load, Commit
    <2>2. \A u \in App : appPc'[u] = "push" <=> appPc[u] = "push"
      BY <1>5 DEF AppStep, NewClosure, CheckInterval, Register, Load, Commit,
         TypeOK
    <2> QED
      BY <2>1, <2>2, AllocFrame
  <1>6. ASSUME NEW t \in App, PushCheck(t)
        PROVE  AllocInv'
    <2>1. UNCHANGED <<heap, cell, freeLog>> /\ spoilt \subseteq spoilt'
      BY <1>6 DEF PushCheck
    <2>2. /\ appPc[t] = "pushed"
          /\ appPc'[t] = "push" => retired'[t] \in spoilt'
          /\ \A u \in App : u # t => /\ appPc'[u] = appPc[u]
                                     /\ retired'[u] = retired[u]
      BY <1>6 DEF PushCheck, TypeOK
    <2> QED
      BY <2>1, <2>2, AllocFrame
  <1> QED
    BY <1>1, <1>2, <1>3, <1>4, <1>5, <1>6 DEF Next

\* What happens to the heap and the free logs leaves RefAt true.
LEMMA RefMemory ==
  ASSUME TypeOK, PcInv, [Next]_vars, NEW m \in Nat, NEW R, RefAt(m, R),
         m <= now, \A p \in Proc : gcPc[p] = "sweep" => bound[p] <= m
  PROVE  \A o \in R :
           /\ o \notin heap'
           /\ \A u \in App : \A j \in DOMAIN freeLog'[u] :
                freeLog'[u][j].ptr = o => m <= freeLog'[u][j].tick
  <1>1. CASE UNCHANGED <<heap, freeLog>>
    BY <1>1 DEF RefAt
  <1>2. ASSUME NEW t \in App, Store(t)
        PROVE  heap' \subseteq heap /\ UNCHANGED freeLog
    BY <1>2 DEF Store
  <1>3. ASSUME NEW t \in App, Push(t), NEW o \in R
        PROVE  /\ o \notin heap'
               /\ \A u \in App : \A j \in DOMAIN freeLog'[u] :
                    freeLog'[u][j].ptr = o => m <= freeLog'[u][j].tick
    <2> DEFINE e == [ptr |-> retired[t], tick |-> now]
               log == Append(freeLog[t], e)
               l == IF Len(log) = RingSize THEN << >> ELSE log
    <2>1. UNCHANGED heap /\ freeLog' = [freeLog EXCEPT ![t] = l]
      BY <1>3 DEF Push
    <2>2. l = << >> \/ l = log
      OBVIOUS
    <2>3. e.tick = now
      OBVIOUS
    <2> HIDE DEF e
    <2>4. /\ freeLog[t] \in Seq(Entry)
          /\ \A j \in DOMAIN log : \/ j \in DOMAIN freeLog[t] /\ log[j] = freeLog[t][j]
                                   \/ log[j] = e
      <3>1. freeLog[t] \in Seq(Entry)
        BY DEF TypeOK
      <3>2. /\ Len(freeLog[t]) \in Nat
            /\ DOMAIN freeLog[t] = 1 .. Len(freeLog[t])
            /\ DOMAIN log = 1 .. Len(freeLog[t]) + 1
            /\ \A j \in 1 .. Len(freeLog[t]) : log[j] = freeLog[t][j]
            /\ log[Len(freeLog[t]) + 1] = e
        BY <3>1
      <3> QED
        BY <3>1, <3>2
    <2> HIDE DEF log
    <2>5. \A j \in DOMAIN l : \/ j \in DOMAIN freeLog[t] /\ l[j] = freeLog[t][j]
                              \/ l[j] = e
      BY <2>2, <2>4
    <2> HIDE DEF l
    <2>6. \A u \in App : freeLog'[u] = IF u = t THEN l ELSE freeLog[u]
      BY <2>1 DEF TypeOK
    <2>7. /\ o \notin heap
          /\ \A u \in App : \A j \in DOMAIN freeLog[u] :
               freeLog[u][j].ptr = o => m <= freeLog[u][j].tick
      BY DEF RefAt
    <2> QED
      BY <2>1, <2>3, <2>5, <2>6, <2>7
  <1>4. ASSUME NEW p \in Proc, SweepFree(p), NEW o \in R
        PROVE  /\ o \notin heap'
               /\ \A u \in App : \A j \in DOMAIN freeLog'[u] :
                    freeLog'[u][j].ptr = o => m <= freeLog'[u][j].tick
    <2>0. PICK t \in App : t = p[1]
      BY DEF Proc
    <2>1. /\ freeLog[t] \in Seq(Entry) /\ freeLog[t] # << >>
          /\ gcPc[p] = "sweep" /\ Head(freeLog[t]).tick < bound[p]
          /\ heap' = heap \cup {Head(freeLog[t]).ptr}
          /\ \A u \in App :
               freeLog'[u] = IF u = t THEN Tail(freeLog[t]) ELSE freeLog[u]
      BY <1>4, <2>0 DEF SweepFree, TypeOK
    <2>2. /\ 1 \in DOMAIN freeLog[t] /\ Head(freeLog[t]) = freeLog[t][1]
          /\ \A j \in DOMAIN Tail(freeLog[t]) :
               /\ j + 1 \in DOMAIN freeLog[t]
               /\ Tail(freeLog[t])[j] = freeLog[t][j + 1]
      BY <2>1
    <2>3. /\ o \notin heap
          /\ \A u \in App : \A j \in DOMAIN freeLog[u] :
               freeLog[u][j].ptr = o => m <= freeLog[u][j].tick
      BY DEF RefAt
    <2>4. o # freeLog[t][1].ptr
      <3>1. bound[p] \in Nat /\ freeLog[t][1].tick \in Nat
        <4>1. freeLog[t][1] \in Entry
          BY <2>1
        <4> QED
          BY <4>1, Types DEF Entry, Tick
      <3>2. bound[p] <= m /\ freeLog[t][1].tick < bound[p]
        BY <2>1, <2>2
      <3> QED
        BY <2>2, <2>3, <3>1, <3>2
    <2>5. o \notin heap'
      BY <2>1, <2>2, <2>3, <2>4
    <2>6. ASSUME NEW u \in App, NEW j \in DOMAIN freeLog'[u],
                 freeLog'[u][j].ptr = o
          PROVE  m <= freeLog'[u][j].tick
      <3>1. CASE u = t
        <4>1. freeLog'[u] = Tail(freeLog[t])
          BY <2>1, <3>1
        <4>2. j + 1 \in DOMAIN freeLog[t] /\ freeLog'[u][j] = freeLog[t][j + 1]
          BY <2>2, <2>6, <4>1
        <4> QED
          BY <2>3, <2>6, <4>2
      <3>2. CASE u # t
        BY <2>1, <2>3, <2>6, <3>2
      <3> QED
        BY <3>1, <3>2
    <2> QED
      BY <2>5, <2>6
  <1>5. ASSUME NEW t \in App, AppStep(t) \/ ValStep(t), ~Store(t), ~Push(t)
        PROVE  UNCHANGED <<heap, freeLog>>
    BY <1>5 DEF AppStep, NewClosure, CheckInterval, Register, Load, PushCheck,
       Commit, ValStep, Validated, Decide
  <1>6. ASSUME NEW p \in Proc, GcStep(p), ~SweepFree(p)
        PROVE  UNCHANGED <<heap, freeLog>>
    BY <1>6 DEF GcStep, TryGc, PollBusy, PollBegin, PollSkip, PollEnd,
       SweepEnd
  <1>7. CASE TickOn \/ UNCHANGED vars
    BY <1>1, <1>7 DEF TickOn, vars
  <1>8. CASE \E t \in App : Store(t)
    BY <1>2, <1>8 DEF RefAt
  <1> QED
    BY <1>1, <1>3, <1>4, <1>5, <1>6, <1>7, <1>8 DEF Next

\* A closure that is counted after a step refers to what it referred to
\* before, and to versions that are neither free nor retired.
LEMMA RefClosures ==
  ASSUME TypeOK, PcInv, AllocInv, [Next]_vars,
         NEW u \in App, NEW i \in Counted(u)'
  PROVE  \/ ClosureAt(u, i)'.refs = {}
         \/ \E j \in Counted(u) :
              /\ ClosureAt(u, i)'.tick = ClosureAt(u, j).tick
              /\ ClosureAt(u, i)'.late = ClosureAt(u, j).late
              /\ \A o \in ClosureAt(u, i)'.refs \ spoilt :
                   \/ o \in ClosureAt(u, j).refs
                   \/ /\ o \notin heap'
                      /\ \A v \in App : \A k \in DOMAIN freeLog'[v] :
                           freeLog'[v][k].ptr # o
  <1>1. CASE \E t \in App : Register(t)
    <2>1. PICK t \in App : Register(t)
      BY <1>1
    <2>2. i \in Counted(u) \/ (u = t /\ i = 0)
      BY <2>1, RegisterPlaces
    <2>3. CASE i \in Counted(u)
      <3>1. ClosureAt(u, i)' = ClosureAt(u, i)
        BY <2>1, <2>3, RegisterPlaces
      <3> QED
        BY <2>3, <3>1
    <2>4. CASE u = t /\ i = 0
      BY <2>1, <2>4, RegisterPlaces
    <2> QED
      BY <2>2, <2>3, <2>4
  <1>2. CASE \E t \in App : Commit(t) \/ Validated(t)
    BY <1>2, Origins
  <1>3. CASE \E t \in App : Load(t) \/ Store(t)
    <2>1. PICK t \in App : Load(t) \/ Store(t)
      BY <1>3
    <2>2. /\ UNCHANGED <<pending, freeLog>> /\ heap' \subseteq heap
          /\ appPc[t] = "open" /\ appPc'[t] \in {"open", "push"}
          /\ \A v \in App : v # t => appPc'[v] = appPc[v] /\ open'[v] = open[v]
      BY <2>1 DEF Load, Store, TypeOK
    <2>3. /\ open'[t].tick = open[t].tick /\ open'[t].late = open[t].late
          /\ \A o \in open'[t].refs \ spoilt :
               \/ o \in open[t].refs
               \/ o \notin heap' /\ o \in heap \cup {cell}
      BY <2>1 DEF Load, Store, TypeOK, Closure, AllocInv, CellInv
    <2>4. Counted(u)' = Counted(u)
      BY <2>2 DEF Counted
    <2>5. CASE u = t /\ i = 0
      BY <2>2, <2>3, <2>4, <2>5 DEF ClosureAt, AllocInv, RetiredOnce
    <2>6. CASE u # t \/ i # 0
      <3>1. ClosureAt(u, i)' = ClosureAt(u, i)
        BY <2>2, <2>6 DEF ClosureAt
      <3> QED
        BY <2>4, <3>1
    <2> QED
      BY <2>5, <2>6
  <1>4. CASE UNCHANGED pending /\ \A v \in App :
               /\ appPc'[v] \in {"open", "push", "pushed"} <=>
                    appPc[v] \in {"open", "push", "pushed"}
               /\ appPc[v] \in {"open", "push", "pushed"} => open'[v] = open[v]
    <2>1. Counted(u)' = Counted(u) /\ ClosureAt(u, i)' = ClosureAt(u, i)
      BY <1>4 DEF Counted, ClosureAt
    <2> QED
      BY <2>1
  <1>5. ASSUME NEW t \in App, AppStep(t), ~Register(t), ~Commit(t), ~Load(t),
               ~Store(t)
        PROVE  UNCHANGED pending /\ \A v \in App :
               /\ appPc'[v] \in {"open", "push", "pushed"} <=>
                    appPc[v] \in {"open", "push", "pushed"}
               /\ appPc[v] \in {"open", "push", "pushed"} => open'[v] = open[v]
    BY <1>5 DEF AppStep, NewClosure, CheckInterval, Push, PushCheck, TypeOK
  <1>6. CASE UNCHANGED appVars
    BY <1>4, <1>6 DEF appVars
  <1>7. CASE \/ TickOn \/ UNCHANGED vars
             \/ \E t \in App : Decide(t)
             \/ \E p \in Proc : GcStep(p)
    BY <1>6, <1>7, GcMoves DEF TickOn, vars, Decide
  <1> QED
    BY <1>1, <1>2, <1>3, <1>4, <1>5, <1>7 DEF Next, ValStep

LEMMA SpoiltGrows ==
  ASSUME [Next]_vars
  PROVE  spoilt \subseteq spoilt'
  <1>1. ASSUME NEW t \in App, Push(t) \/ PushCheck(t)
        PROVE  spoilt \subseteq spoilt'
    <2>1. CASE Push(t)
      BY <2>1 DEF Push
    <2>2. CASE PushCheck(t)
      BY <2>2 DEF PushCheck
    <2> QED
      BY <1>1, <2>1, <2>2
  <1>2. ASSUME NEW t \in App, AppStep(t) \/ ValStep(t), ~Push(t), ~PushCheck(t)
        PROVE  UNCHANGED spoilt
    BY <1>2 DEF AppStep, NewClosure, CheckInterval, Register, Load, Store,
                Commit, ValStep, Validated, Decide
  <1>3. ASSUME NEW p \in Proc, GcStep(p)
        PROVE  UNCHANGED spoilt
    BY <1>3 DEF GcStep, TryGc, PollBusy, PollBegin, PollSkip, PollEnd,
                SweepFree, SweepEnd
  <1>4. ASSUME TickOn \/ UNCHANGED vars
        PROVE  UNCHANGED spoilt
    BY <1>4 DEF TickOn, vars
  <1> QED
    BY <1>1, <1>2, <1>3, <1>4 DEF Next

LEMMA RefStep ==
  ASSUME OrderInv, AllocInv, RefInv, [Next]_vars
  PROVE  RefInv'
  <1> SUFFICES ASSUME NEW u \in App, NEW i \in Counted(u)',
                      ~ClosureAt(u, i)'.late,
                      NEW o \in ClosureAt(u, i)'.refs \ spoilt'
               PROVE  /\ o \notin heap'
                      /\ \A v \in App : \A k \in DOMAIN freeLog'[v] :
                           freeLog'[v][k].ptr = o =>
                             ClosureAt(u, i)'.tick <= freeLog'[v][k].tick
    BY DEF RefInv, RefAt
  <1>1. TypeOK /\ PcInv /\ o \notin spoilt
    <2>1. spoilt \subseteq spoilt'
      BY SpoiltGrows
    <2> QED
      BY <2>1 DEF OrderInv, IInv
  <1>2. PICK j \in Counted(u) :
          /\ ClosureAt(u, i)'.tick = ClosureAt(u, j).tick
          /\ ~ClosureAt(u, j).late
          /\ \/ o \in ClosureAt(u, j).refs
             \/ /\ o \notin heap'
                /\ \A v \in App : \A k \in DOMAIN freeLog'[v] : freeLog'[v][k].ptr # o
    BY <1>1, RefClosures
  <1>3. PICK m \in Nat : m = ClosureAt(u, j).tick
    BY <1>1, CountedTicks
  <1>4. m <= now /\ \A p \in Proc : bound[p] <= m
    <2>1. /\ m <= now /\ earliest <= m /\ earliest \in Nat
          /\ \A p \in Proc : bound[p] \in Nat /\ bound[p] <= earliest
      BY <1>1, <1>2, <1>3, Types
         DEF OrderInv, IInv, ScanInv, TickInv, BelowInv, Below
    <2> QED
      BY <2>1
  <1>5. RefAt(m, ClosureAt(u, j).refs \ spoilt)
    BY <1>2, <1>3 DEF RefInv
  <1>6. CASE o \in ClosureAt(u, j).refs
    BY <1>1, <1>2, <1>3, <1>4, <1>5, <1>6, RefMemory
  <1> QED
    BY <1>2, <1>6

LEMMA InitAlloc == Init => AllocInv /\ RefInv
  <1> SUFFICES ASSUME Init
               PROVE  AllocInv /\ RefInv
    OBVIOUS
  <1>1. \A t \in App : Counted(t) = {}
    BY DEF Init, Counted
  <1>2. RetiredOnce /\ NoneLost /\ PushInv /\ CellInv
    BY Constants DEF Init, RetiredOnce, NoneLost, PushInv, CellInv
  <1> QED
    BY <1>1, <1>2 DEF AllocInv, RefInv

\* push and thread_gc: a retired version that no overfull log has dropped or
\* taken twice is in one free log, once, and neither free nor current.
THEOREM RetiredStaysOnce == Spec => []RetiredOnce
  <1>1. IInv /\ AllocInv /\ [Next]_vars => AllocInv'
    BY AllocStep DEF IInv
  <1>2. AllocInv => RetiredOnce
    BY DEF AllocInv
  <1> QED
    BY <1>1, <1>2, InitAlloc, Invariance, PTL DEF Spec

\* ... an overfull log apart, no version is lost between the store that
\* replaces it and the free.
THEOREM NoneIsLost == Spec => []NoneLost
  <1>1. IInv /\ AllocInv /\ [Next]_vars => AllocInv'
    BY AllocStep DEF IInv
  <1>2. AllocInv => NoneLost
    BY DEF AllocInv
  <1> QED
    BY <1>1, <1>2, InitAlloc, Invariance, PTL DEF Spec

\* thread_gc frees nothing that a running closure or one that awaits
\* validation refers to, unless it was counted late, or an overfull log has
\* dropped the version or taken it twice.
THEOREM NothingPendingIsFreed == Spec => []NothingPendingFreed
  <1>1. Init => OrderInv /\ AllocInv /\ RefInv
    BY InitOrder, InitAlloc
  <1>2. OrderInv /\ AllocInv /\ RefInv /\ [Next]_vars =>
          OrderInv' /\ AllocInv' /\ RefInv'
    BY StepOrder, AllocStep, RefStep DEF OrderInv, IInv
  <1>3. RefInv => NothingPendingFreed
    BY DEF RefInv, RefAt, NothingPendingFreed
  <1> QED
    BY <1>1, <1>2, <1>3, PTL DEF Spec
=============================================================================
