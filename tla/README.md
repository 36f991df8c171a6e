# Orthrus: TLA+ models of the runtime and its fault-injection targets

This directory holds TLA+ models of the C++ programs under `src/fj_targets`,
TLC configurations that check them on small instances, and TLAPS proofs.
Paths are relative to `src/fj_targets/memcached_orthrus` unless they begin with
another directory.

Contents: [system](#the-system) · [hard parts](#what-is-hard) ·
[modules](#modules) · [runs](#runs) · [proofs](#proofs) ·
[disagreements](#where-code-and-comments-disagree) ·
[not modelled](#what-is-not-modelled) · [plan](#plan)

## The system

Orthrus detects silent data corruption. An application runs *closures* with
`run2`; the runtime logs what a closure loads, stores and allocates. Each
application thread has a *validator thread* that runs every closure again from
its log, in order, and compares. Objects are immutable: a store makes a new
version, and a *garbage collector* keeps the old one until no closure that may
refer to it awaits validation. The targets are fault-injected by a compiler
pass; a campaign in `src/fw` runs them and counts what was detected.

| component | state | operations | correct when | modules |
|---|---|---|---|---|
| log pipeline (`include/log.hpp`, `queue.hpp`, `thread.hpp`, `scee.cpp`) | log buffers and their heads, free list, per-thread queue, current and stashed log | `new_log`, `commit_log`, `log_enqueue`, `log_dequeue`, `reclaim_log`, register, unregister | no log is overwritten before it was validated; buffers come back once; validation in order | LogPipeline, LogStore, LogPipelineRefinement, and the proofs in LogPipelineProofs, LogPipelineRefinementProofs |
| garbage collector (`include/free_log.hpp`) | counts per start tick, `earliest_tsc`, a ring of retired versions per thread | `new_closure`, `validated_closure`, `poll_earliest_tsc`, `push`, `thread_gc` | nothing a pending closure refers to is freed; everything retired is freed once | ClosureGC, ClosureGCProofs |
| contexts and replay (`include/context/*.hpp`, `ptr.hpp`, `assertion.hpp`) | log words, versions and checksums | `load_ptr`, `store_ptr`, `alloc_*`, `make_obj`, `validate_one` | no false alarm; a fault that matters is reported | HashMap, HashMapProofs, HashMapDetectProofs |
| hash map (`benchmarks/redis/closure.cpp`) | bucket cells, chains of entries, a mutex per bucket | `hashmap_get`, `hashmap_set` | linearizable | HashMap, AtomicMap, HashMapRefinement, HashMapProofs, HashMapDetectProofs |
| masstree (`src/fj_targets/masstree_orthrus/benchmarks/masstree`) | nodes with optimistic version words, links to parents and neighbours | read, update, insert, splits of leaves, interior nodes and the root | linearizable; no key lost; splits get through | Masstree, SharedMap, and the proofs in MasstreeProofs, MasstreeOrderProofs |
| rbv primary and replica (`src/fj_targets/memcached_rbv/ae`) | chains, a mutex and an order counter per bucket, a hash record per operation, a connection per group | `checkorder`, `finalize`, `hashmap_get`, `_set`, `_del`, framing | a replica can follow the records, and does | Rbv, RbvProofs |
| lsmtree (`src/fj_targets/lsmtree_orthrus/lib/lsmtree`) | memtable, skip list, write-ahead log | put, get | acknowledged data survives | not modelled |
| word count (`src/fj_targets/wordcount_orthrus`) | chunks per thread | map, sort, reduce | — | not modelled |
| campaign (`src/fw`), servers, clients, benchmarks | files, processes, sockets | — | — | not modelled |

How they interact: `run2` begins a log (pipeline) and registers the closure
with the collector; the closure calls the app context, which appends to the
log and pushes replaced versions to the thread's free log; `commit_log`
enqueues it; the validator dequeues it, replays the closure in the validator
context, reclaims the log's room and counts the closure out of the collector,
which may then free versions on the validator's or the application's thread.

## What is hard

- The validator frees a log buffer by looking at two plain fields the
  application thread writes (`in_use`, `nr_logs`), in the other order.
- Both threads of a pair collect the same free log, with `TryLock`s that make
  one of them go on with an old `earliest_tsc`.
- A closure's start tick is read, and counted some time later; ticks share
  slots; the first poll and an idle poll return a tick they did not scan for;
  a free log that fills up has a pointer twice, or loses what it holds.
- Closures of many threads interleave, but each is replayed alone, any time
  later, when the memory it read holds something else.
- A fault may hit any step; later closures build on the damage before the
  closure that did it is validated.
- A thread stops its validator while logs are queued.
- Masstree's readers hold no locks while nodes are filled, split and replaced
  under them; a split locks its left neighbour and its parent while those
  split too; what a split leaves behind is reachable only once the node above
  has linked it.
- Rbv's primary sends its records after it has released the bucket, over
  connections that know nothing of each other's order, in lines that both
  sides must count alike.

`PROJECT.json` lists each at its line, with the property aimed at it.

## Modules

### LogPipeline

One action per step that another thread can see. An application thread:
`Register`, `NewLog` (stash, allocate, `new_closure`'s count, as one step),
`CommitCount` (the length, `nr_logs++`), `CommitPlace` (the next log in the
same buffer, or `in_use = 0`), `Enqueue` (spins on a full queue), `Unregister`
(sets `stop`), `Join`. A validator: `CheckStop`, `Dequeue`, `Reclaim`
(`validate_one` and `nr_reclaimed++`), `ReadInUse`, `ReadNrLogs`. A log is a
place in a buffer and a length; lengths are in cache lines, `MinSize` standing
for `MIN_LOG_BUFFER_SIZE` and `MaxSize` for the buffer. `CommitTooLong` is the
abort for a log that outgrew its limit. The x86 store order is assumed for
`nr_logs++` before `in_use = 0`; the code uses plain fields. `frames`,
`stashed` (up to `MaxStash`), `holder` and the index in a log are auxiliary.
The heap is bounded by the set `Buffer`: a thread that finds no free buffer and
nothing fresh waits, which the code never does.

`LogStore` is what the pipeline promises: exclusive room for each closure until
it is validated, in order, once. A thread ends once, when it is joined
(`ended`): then, and only then, the logs it still has are dropped, and it runs
no closure after that. `LogPipelineRefinement` maps the pipeline's logs to it,
and the threads that have `"exited"` to `ended`.

### ClosureGC

The data is one shared pointer whose versions closures load and replace; a
pending closure is its start tick and the versions it refers to. `NewClosure`,
`CheckInterval` and `Register` are `new_closure` up to its first read, its
second test and its `fetch_add`; `Push` and `PushCheck` one turn of `push`'s
retry loop; `TryGc`, `Poll*` and `Sweep*` are `thread_gc` and
`poll_earliest_tsc`, the scan slot by slot. `PollBegin` takes the lock and reads
the tick, `PollEnd` sets `earliest_tsc` and gives the lock up; between them the
lock is held, in the first poll of the process too, which has nothing to scan.
Time is the tick counter. `TickOn` is always enabled: any step may be separated
from the next by ticks, reading the tick in `new_closure` from counting it as
well. `IdleReturnsNow` selects the poll of lsmtree and the rbv targets. The real
sizes (256 slots, rings of 1024 to 4096, 64 entries before collecting) are
constants, and so is `MAX_TSC_INTERVAL`: 2^28 in the code, in cycles by the way
it is computed, but compared with ticks, which makes it about a day. The ring is
a sequence that becomes empty when its end meets its front, as the indices
make it; `peek` and `pop` are one step.

The code does not keep what it is meant to keep in every case, and two
auxiliaries name the cases. A closure is `late` when it is counted after a
poll has passed its tick, or before the first poll of the process. A version is
`spoilt` when a free log that met its own front dropped it, or `push` found the
log full and pushed it once more. `EarliestBelowPending`, `NothingPendingFreed`,
`RetiredOnce` and `NoneLost` say that these are all the cases: nothing goes
wrong but for a late closure or with a spoilt version, while other closures are
late and other entries of the same logs spoilt. `LoadsSafe` and `NoDoubleFree`
are the same without exceptions; they fail.

Objects named in `Obj` bound the heap; `MaxTick` and `MaxPending` bound time
and the queue.

### HashMap, AtomicMap, HashMapRefinement

The closure code is compiled once in namespace `app` and once in `validator`,
so the model has one action for a step of either, taken by `<<t, "app">>` or
`<<t, "val">>`; `Loaded`, `Allocated` and `Logged` are the two contexts.
`Passes` is every `validator_assert` of the next step: the logged words, and
the checksum where `make_obj` compares it. `Store` covers the cell write of
`ptr_t::store` and `create`; the old version goes to ClosureGC. Words of a log
are addresses, sizes and return codes; the closure object at its start is
`call`. Left out: the load of `hmap` itself, the same in every closure, and
everything `make` and `destroy` do before and after the threads.

A fault replaces what one step of the application computes: another hash
(`"hash"`), branch, field (`"address"`), object (`"value"`), checksum
(`"sum"`), return value, load, store or memory copy. At most one strikes.
`spec`, `owed`, `wrong`, `hit` and `struck` are auxiliary: what the map and the
answers should be, and which closure the fault hit.

`AtomicMap` is a map whose operations take effect at once between call and
return: `asked` is the operation of each client, `answer` what it will be told.
In the refinement `map` is what the chains lead to and `asked` the closure. A
get takes effect at the step that reads the cell of its key (`Load`) or finds
that there is none (`Miss`), a set at its `Store` into that cell or the `Link`
of its new entry, all while the bucket is locked; `answer` is set from then on.
`TypesAssumption` (a value is no entry) and `NoAnswerAssumption` name what the
C++ types tell apart.

### Masstree, SharedMap

One action per access to shared memory that another thread can tell from the
next. `LoadRoot` to `Recheck` are `reach_leaf`: it reads a version, the child,
the child's version, and then the version again (`CheckSame`, `CheckChanged`).
`LockToRead` is `read`, which locks whatever leaf it has reached; `LockToWrite`
and `LocateAgain` are `locate_locked`, which checks it. `BeginInsert`, `Insert`,
`EndInsert` add an entry to a leaf or an interior node; `SplitLeaf`, `LinkNext`,
`LoadPrev`, `LinkPrev`, `LoadParent`, `LockParent` and `Replace` split a leaf,
link its halves left and right and go on at its parent; `SplitInterior`,
`NewRoot`, `OpenRoot`, `ReplaceRoot` do so upwards. The version words keep their
bits and count, so that lost or doubled bits would show; they are integers, for
a 60-bit count does not wrap. A node's arrays are one sorted sequence; the
value pointer of a key moves with it from leaf to leaf and is `cell`. The
insertion's new value pointer and nodes nobody can reach yet are filled in by
the step that creates them. Left out: `destroy`, which no closure calls.

`Replay` is what a validator does of a closure before anything else: the test
in `stable_version`.

`LocateFinds` is the test in `Node::Data::locate` that aborts the process, made
where a thread is about to call it: at each node of a descent, at the leaf, and
at the node above a split one.

`SharedMap` is what the tree promises: changes and answers take effect at one
moment between call and return, with one exception the code makes (see below),
an insertion that is promised first and joins the map with a later step.
`ImplementsSharedMap` maps the tree to what an undisturbed descent finds.

### Rbv

`Enter`, `Operate`, `Leave` are an operation under the bucket's mutex with a
stamp at each end; `Reply` makes the answer, after the mutex was released, from
the pointer the operation returned; `Send` writes record and packet to the
replica, `Answer` answers the client. `ReadRecord`, `ReadLine`, `Validate` are
the replica's loop. Hashes are the sequences of what was combined, so that they
are equal only when the operations saw the same; connections are FIFOs of
lines. The framing is kept line by line, for that is what fails.

What the replica would do with a packet it understood (the table, waiting for
its turn in `checkorder`) is not modelled: `Framed` says that it never gets
one. `RecordsReplayable` says that the records would be good for it.

### MC modules

`MCLogPipeline`, `MCClosureGC` and `MCHashMap` add symmetry sets (threads,
buffers, objects, keys, values, all interchangeable in the runs that use them)
and the hash function `OneBucket`. `MCMasstree` gives each thread its calls,
`MCRbv` each group its packets.

## Runs

| run | checks | instance |
|---|---|---|
| LogPipeline_safety | TypeOK, LogsDisjoint, FreeBuffersUnused, NoBufferStranded, ClosuresCounted, ImplementsLogStore | 2 threads, 3 buffers of 4 lines, the first for the head, logs of 1, 2 or 3 lines (1 and 2 may be committed, 3 aborts), a queue of 1 |
| LogPipeline_live | EnqueueCompletes, BufferRecycled, JoinReturns | 2 threads, 2 buffers, logs that may be too long |
| ClosureGC_safety | NothingPendingFreed, EarliestBelowPending | 2 threads, 2 versions, ticks 2 to 5, 1 slot, an interval of 3, free logs of 3 |
| ClosureGC_variant | TypeOK, CountsExact, CollectorOrdered, EarliestBelowPending, NothingPendingFreed, RetiredOnce, NoneLost, EarliestMonotone | `IdleReturnsNow`, 1 thread and its validator, 3 versions, 2 slots, ticks 2 to 6, free logs of 3 |
| ClosureGC_late | LoadsSafe, violated | 2 threads, up for the interval, free logs with room |
| HashMap_refines | TypeOK, NoFalseAlarm, ImplementsAtomicMap | 2 threads, 3 operations, 1 bucket, no fault |
| HashMap_detect | Contained, FaultReported | 2 threads, 2 operations, 2 buckets, six kinds of fault |
| HashMap_store | NoUndetectedSDC, violated | the fault `"store"` |
| Masstree_safety | TypeOK, LocksOwned, LocateFinds, TreeChecks, ImplementsSharedMap, CallsReturn | a tree of 3 levels, fanout 3, whose root, last interior node and last leaves are full; 3 threads, one call each |
| Masstree_own | FindsOwn, violated | the same tree, 2 threads, one inserts and reads |
| Rbv_safety | TypeOK, RecordsReplayable, AnswersRecorded, Framed, AllFinalized | 2 groups, 2 keys of one bucket, 3 and 4 packets |
| Rbv_follows | ReplicaExecutes, violated | the same |

More of what the code does not keep can be looked at in the same way, with
configurations that are not listed as runs (`tlc -config X.cfg`, with the MC
module of X); TLC finds each violated:

| configuration | violates | instance |
|---|---|---|
| ClosureGC_start | LoadsSafe | 1 thread, up for less than the interval, free logs with room |
| ClosureGC_full | NoDoubleFree | 1 thread, free logs of 3 |
| ClosureGC_idle | AbortOnlyWhenFull | 1 thread, an interval of 3, ticks 3 to 7 |
| ClosureGC_race | AbortOnlyWhenFull | 2 threads that start at one tick |
| HashMap_copy | NoUndetectedSDC | the fault `"copy"` |
| HashMap_load | NoUndetectedSDC | the fault `"load"` |
| Masstree_alarm | ReplayPasses | as Masstree_safety |

Why the bounds are enough to be interesting: three buffers for two threads let
one thread move on while both buffers it left are being reclaimed. Of the logs,
one of 1 line lets the next one into the same buffer, one of 2 lines forces a
move, as does a second one of either length; one of 3 lines is longer than
`MinSize` and aborts.

In the runs of ClosureGC time passes anywhere, and the process starts before
`MAX_TSC_INTERVAL` has passed: it may poll first when a closure starts, as it
does after a day, or when a validator collects with closures pending. Four ticks
let a closure start, be overtaken by a retired version, and still be pending
when a poll finds a later tick; one slot makes all ticks alias, two make some
alias. In ClosureGC_safety two threads lag behind each other's polls and their
free logs do not fill. In ClosureGC_variant the free log of 3 is full with 2
entries and empty again with the third, while both threads of the pair collect
it. Two threads whose logs overflow have too many states; a free log belongs to
one pair, and the proofs are for any number of them.

Three operations of HashMap on one bucket are an insertion, an update that races
with it, and a read that finds either; two operations with a fault are one that
damages and one that builds on it. Masstree's tree is one insertion away from every kind of
split at once, and the two inserts are into neighbouring leaves below the same
full node; its third thread reads what one of them inserts or inserts what the
other does. Updates and the first fifteen inserts are the loader's, which runs
alone. Rbv's packets let every operation find a key that is there, gone, or
being replaced.

### Fairness

`LogPipeline!FairSpec`: weak fairness of an application thread in the middle of
`commit_log` and in `join`, and of each validator: these are runnable threads
of the operating system. An application may stay in or between closures for
ever. `HashMap!FairSpec`: weak fairness of a thread's steps within a closure
and of a validator's steps; clients need not ask. A lock that is waited for is
released by its holder and at most two threads wait for it, and the number of
operations is bounded, so weak fairness suffices there.
`Masstree!FairSpec`: weak fairness of each thread's steps, running threads
again; there are finitely many calls, so a thread that retries because others
change the tree retries finitely often, and a spinning `lock` is waited for by
at most two threads. `Rbv!FairSpec`: weak fairness of each group's thread in
primary and replica, for finitely many packets.

### Where code and comments disagree

- `ClosureGC_late`: a closure's tick is read at `free_log.hpp:81` and counted at
  `:90`. A poll in between does not see the closure, and `earliest_tsc` comes to
  lie behind its start: what another thread then retires is freed while the
  closure uses it, where `ptr.hpp:34` promises safe access.
- `ClosureGC_start`: the first poll of the process returns the current tick
  unscanned (`free_log.hpp:98`). On a machine up for less than the interval it
  comes from a collection, with closures pending.
- `ClosureGC_full`: `push` has written the pointer when it finds the log full,
  and pushes it again after it has tried to make room (`free_log.hpp:49`). It is
  freed twice. Lsmtree's copy enlarged the log "to avoid double-free".
- `ClosureGC_idle`: the poll of memcached and masstree leaves `earliest_tsc`
  where it is when nothing is pending. After an idle interval `new_closure` calls
  that a full log and aborts (`free_log.hpp:84`).
- `ClosureGC_race`: the same abort when two threads start their first closures at
  once, on a machine up for longer than the interval: one is in the first poll,
  the other finds the lock taken and reads `earliest_tsc` as 0.
- `HashMap_store`: the comment on `ptr_t` says the stored value is verified
  after the store; it is not.
- `HashMap_copy`: `memmgr.hpp:24` says the checksum guards an object. It is taken
  of what was to be copied, compared with that again by the replay, and no load
  looks at it: a copy that went wrong stays unnoticed.
- `HashMap_load`: `ptr.hpp:53` says the checksum of the object also guards the
  load of its pointer. The replay takes the pointer from the log and compares
  nothing: a load of another pointer stays unnoticed.
- `Masstree_own`: `insert_interior` of a full node that is not the root unlocks
  the node it replaces and the halves before it links them to the node above
  (`closure.cpp:416-427` of masstree). Meanwhile a leaf below them can be split: its
  `insert` links to a half and returns 1, and no descent finds the key, for
  they go through the deleted node, whose `DELETED` bit is looked at only when
  a version changes during the descent. `read` then answers `nullptr` to the
  thread that has just inserted. The key is found once the node above is
  linked; `TreeChecks` says that it always is in the end.
- `Masstree_alarm`: `validator_assert(v & (INSERT | SPLIT) == 0)` is
  `v & (... == 0)`, always 0: each replay of a masstree closure fails.
- `Rbv_follows`: the primary ends the packet with a second newline. The replica
  skips the packet and dispatches on the empty line: it executes nothing,
  compares nothing with nothing, and every operation validates.

Without a run of their own: `new_log` takes any log with a head for a caller's
and stashes it, and `commit_log` never clears or pops (`log.hpp:217`): `stashed`
of LogPipeline grows by one log per closure, and a caller would not get its own
log back (no application nests).

## Proofs

`LogPipelineProofs` and `LogPipelineRefinementProofs` prove of `LogPipeline`, for
any sets and sizes that meet the named assumptions of the module:

| theorem | states |
|---|---|
| TypeCorrect | `Spec => []TypeOK`, for any nesting depth |
| LogsStayDisjoint | `MaxDepth = 1 => (Spec => []LogsDisjoint)` |
| FreeBuffersStayUnused | `MaxDepth = 1 => (Spec => []FreeBuffersUnused)` |
| NoBufferIsStranded | `MaxDepth = 1 => (Spec => []NoBufferStranded)` |
| ClosuresStayCounted | `MaxDepth = 1 => (Spec => []ClosuresCounted)` |
| PipelineImplementsStore | `MaxDepth = 1 => (Spec => ImplementsLogStore)` |

`LogsDisjoint` is not inductive: that the next log does not overlap one still
to be validated depends on when a buffer is given out. `IInv` adds, part by
part: where each thread can be and which logs it has then (`PcInv`); that a
thread's logs in a buffer lie one after another in the order they were written,
the allocator's next place behind them (`RoomInv`, `OrderInv`); that the
numbers of a buffer's unreclaimed logs lie above `nr_reclaimed` and up to
`nr_logs`, so that equal counts mean no log is left (`CountInv`, `HeadInv`);
that a thread's allocator, logs and validator only refer to buffers it holds
(`StackInv`, `HolderInv`) and that free and fresh buffers are held by nobody
and listed once (`PoolInv`). The race of `reclaim_log` with `commit_log` is the
case `ReadNrLogs`: once `in_use` was read as 0, `nr_logs` no longer grows.
`MaxDepth = 1` is needed: a nested closure leaves its caller with its own,
committed log. No application in the repository nests closures.

`IInv` bounds the numbers of a buffer's logs from both sides but lets numbers
be missing. That suffices for what is overwritten or freed too early, and not
for what comes back: `LeftInv` adds that every number above `nr_reclaimed` and
up to `nr_logs` is that of a log still in the thread's queue or its hands, so a
validator that reads two different counts leaves the buffer to a log that will
be reclaimed later; that an exhausted buffer has a log left or is being
examined; and that a thread that waits in `join` has set `stop`. A step only
touches its own thread and the buffers that thread holds or takes
(`StepsAreLocal`), so `LeftInv` is shown for one thread at a time.
`ClosuresCounted` follows from counting pairs of a thread and a slot: a step
adds one pair (`new_log`), drops one (`reclaim_log`), renames one
(`log_dequeue`) or drops all of a thread that has ended.

For the refinement, `new_log` is the store's `Begin`: the room it takes is apart
from every room in flight because `LogsDisjoint` holds of the state it leaves.
`nr_logs++` is `Finish`, which makes the room as long as the log; `reclaim_log`
is `Validated`, of the oldest log, and `join` is `ThreadEnds`, which a thread
takes once and outside a closure, and no other step drops a log: what the store
does not allow at any other moment, the pipeline does not do. All other steps
leave the store's state as it is: they move a log from the thread to the queue
or from the queue to the validator, at the same place in the thread's order.

`ClosureGCProofs` proves every property of `ClosureGC`, for any sets, sizes and
ticks that meet the module's assumptions (`App` finite among them: threads are
counted):

| theorem | states |
|---|---|
| TypeCorrect | `Spec => []TypeOK` |
| CountsStayExact | `Spec => []CountsExact` |
| CollectorStaysOrdered | `Spec => []CollectorOrdered` |
| EarliestNeverBack | `Spec => EarliestMonotone` |
| EarliestStaysBelow | `Spec => []EarliestBelowPending` |
| RetiredStaysOnce | `Spec => []RetiredOnce` |
| NoneIsLost | `Spec => []NoneLost` |
| NothingPendingIsFreed | `Spec => []NothingPendingFreed` |

None has a hypothesis: threads may start at any tick, stay anywhere for any
time, and fill their free logs. What is left out is in the properties, as
`late` closures and `spoilt` versions, and the violated ones (`LoadsSafe`,
`NoDoubleFree`) show that it cannot be taken back in. The argument has four layers, each an inductive invariant over
the one before.

1. `IInv`: control (`PcInv`), which thread has the lock of a free log and which
   scans (`LockInv`, `ScanInv`), that free logs are ordered (`RingInv`), and
   `CountsExact` itself. A slot's count is the size of a set of closures;
   `fetch_add` adds one, `validated_closure` takes the first off the queue, and
   the rest moves up, which is a bijection.
2. `OrderInv`: `earliest_tsc`, the copies the collectors work with and the tick a
   scan has reached lie at or before every counted closure that is not late
   (`BelowInv`). A poll may pass a slot only if its count is zero, and a zero
   count means, by layer 1, that no closure is counted there (`PollSkip`). A
   closure that is only now counted is below the scan or was looked for too
   early, which is what `Late` decides at that moment; the first poll scans
   nothing, and everything counted before it is late.
3. `AllocInv`: a version is free, current, about to be pushed or in one free log,
   once, unless it is spoilt. A version is spoilt for good (`SpoiltGrows`), so
   each step is a matter of the versions that are not; `AllocOverflow` is the
   step that empties a log, which makes all of its entries spoilt.
4. `RefInv`: what a closure that is not late refers to is, unless spoilt, not free
   and was retired no earlier than the closure began; a collector frees only what
   was retired before its copy of `earliest_tsc`, which by layer 2 lies at or
   before that start.

`MasstreeProofs` and `MasstreeOrderProofs` prove of `Masstree`, for any threads,
calls and keys, any odd fanout above 1 and any number of nodes:

| theorem | states |
|---|---|
| TypeCorrect | `Spec => []TypeOK` |
| LocksStayOwned | `Spec => []LocksOwned` |
| LocateNeverFails | `Spec => []LocateFinds` |

None of the three can be shown without the others: a thread that found no entry
would follow a link that is not there, and a node changes under a thread that
does not own it. The invariant, `OrderInv`, has two halves.

1. `IInv`: nodes only refer to nodes that exist (`NodesInv`); at each label,
   which locals a thread has (`LocalsAt`) and what the bits of the versions are
   that it has locked (`BitsAt`), so that the toggles of `OCCControl` undo what
   was done; two splits have different halves (`HalvesApart`), and nobody else
   links to the left half through which `OpenRoot` finds the new root
   (`HalfAt`). A step only writes nodes its thread has locked or has made, so
   what the others know of theirs is kept (`OthersKeep`). Every step keeps
   `IInv` if `LocateFinds` holds before it (`NextIInv`).
2. `TreeInv(rg)`: each node is for a range of keys, `rg[n]`, that never changes:
   a split makes two nodes for the parts of the range and deletes the old one,
   which still leads to where it led. The ranges are nowhere in the code. The
   invariant says that there are some: `build_tree`'s two nodes are for all
   keys, and each split and each new root extends them (`SplitShapes`,
   `NewRootTree`). A node's keys are sorted, lie in its range and leave none of
   it below them, and its links share the range out (`Shaped`), which `extend`
   and `divide` keep (`Inserted`, `RoutesInserted`, `HalvesCover`,
   `HalvesRoute`). So the child for a key has the key in its range, and it does
   not matter how old a link is (`PathAt`): a descent may be in deleted nodes.
   What a split needs on its way up is more: that the node above still links
   the node it replaces, or one already deleted with the same two halves
   (`SplitAt`), for which a node in use is linked by its parent (`UpAt`) and
   the nodes it links have it as their parent (`DownAt`), but for the halves a
   thread is about to link (`Loose`) and nodes being split (`Splitting`); the
   root is of type `ROOT` (`TopInv`).

This bounds what the disagreement of `Masstree_own` can do: an insertion below
halves that the node above does not link yet is not found for a while, but
neither it nor a descent beside it can come to a node its key is not for.

`RbvProofs` proves every safety property of `Rbv` that holds, for any threads,
packets, keys and buckets (`RbvAssumption`: packets name keys, keys hash to
buckets, and no thread is called `Free`):

| theorem | states |
|---|---|
| TypeCorrect | `Spec => []TypeOK` |
| FramesKept | `Spec => []Framed` |
| RecordsReplay | `Spec => []RecordsReplayable` |
| AnswersReplay | `Spec => []AnswersRecorded` |

1. `ControlInv` and `DataInv`: a thread in a bucket holds its mutex and has
   stamped its record once; a chain holds a key once, with a value set for that
   key by an operation that has taken effect, so that the value of a new `set`
   is not there yet. `OutcomeDoes` says what `get`, `set` and `del` do to a chain.
2. `FrameInv`: the lines of a connection cycle through record, packet and empty
   line from the one the replica is to read next; three lines are sent at once.
3. `LogInv(L, A)`: `L[b]` is the list of the operations on bucket `b` in the
   order in which they took effect and `A[b]` what each did. The code keeps no
   such list; the invariant says that there is one, empty at first, which an
   operation on a bucket extends (`LogOperate`) and every other step keeps
   (`LogQuiet`, `LogIdle`). All operations but one that is still in the bucket
   have left a record, in the thread's hands or sent, with the stamps `2n - 2` and
   `2n - 1` if it is the `n`th (`StampInv`); the one in the bucket has the first
   stamp (`InBucket`). The chain is what the last one left (`StateInv`), and an
   answer is what its operation found, or garbage when its value has been freed,
   which only a later `set` of its key does (`AnswerInv`, `FreedLater`).

`Replay` is a recursive function, and what it computes cannot be proved by
induction here. `RunInv` says instead that a function which starts from the
empty bucket and goes on as the log says up to `k` has the value `A[b][k]`
there. That is kept when the log grows by one (`Extend`), and `Replay` is such a
function because `A[b]` shows that there is one (`ReplayRuns`).

`HashMapProofs` and `HashMapDetectProofs` prove of `HashMap` and
`HashMapRefinement`, for any threads, keys, values, buckets, hash function and
number of operations:

| theorem | states |
|---|---|
| FaultsExplainAlarms | `Spec => []NoFalseAlarm`, whatever `Faults` are |
| TypeCorrect | `Faults = {} => (Spec => []TypeOK)` |
| MapImplementsAtomic | `Faults = {} => (Spec => ImplementsAtomicMap)` |
| DamageContained | `Faults \subseteq Detectable => (Spec => []Contained)` |
| NoSilentCorruption | `Faults \subseteq Detectable => (Spec => []NoUndetectedSDC)` |

A validator may replay a log long after the closure ran, against a heap that
has changed since, so that no assertion fails is not inductive. The invariant
`Inv` is `hit \/ RightInv`, and `RightInv` says that logs agree with objects.
Objects are immutable and only come (`Grows`), so that what a log says of the
entry or value it names stays true, however much later it is read
(`FoundKept`); cells and bucket heads do change, but a validator takes those
from the log. `WroteAt` is what the application has logged at each label,
`Full` a committed log, `LeftAt` what is left of it at each label of the
validator; each step of the closure leads from one to the next, and each
comparison passes (`ValPasses`). For the application to log such things it must
be alone in its bucket (`HoldsAt`, `Apart`), and a new cell must belong to one
closure until its entry is there (`Owns`). `Look` is the search of a chain as a
recursive function of the entry where it starts: that there is exactly one such
function is kept when an entry is added in front (`AddEntry`), which needs no
induction.

For the refinement, `MapIs` shows that what the chain and the cell of a key
lead to is `Holds`. Other closures' steps change neither the bucket nor the
cells of a key that is being worked on, so that the step of `Gets` or `Sets` is
the operation of AtomicMap and all others are unseen (`Unseen`).

`HashMapDetectProofs` is about what happens when faults do strike. `Detectable`
are the six kinds of HashMap_detect: `"hash"`, `"branch"`, `"address"`, `"value"`,
`"sum"` and `"return"`. The hypothesis is needed: a fault in `"load"`, `"store"`
or `"copy"` spoils what the replay takes from the log or never looks at, and the
run HashMap_store and the configurations HashMap_load and HashMap_copy show the
corruption that nothing reports. `NoUndetectedSDC` is
what `final_check` asserts; under these faults it follows from the same invariant
as `Contained`. `SafeInv` has two halves.

1. Until a fault strikes, `RightInv` holds, nothing is `struck`, and the map is
   what it should be (`EffectInv`): the refinement's map is `spec`, and the answer
   a closure holds is the one the client is owed.
2. Afterwards little is known of what closures compute: the struck one may link
   a wrong entry, or a second one of its key, or store into another key's cell,
   and the others go on from there. `WildInv` keeps what they need: objects and
   cells have types, and chains end (an entry's `next` lies below it, so a search
   is finite even in a chain that is wrong). `DoomInv` follows the one log that the fault
   spoilt: `Bad(m, c, w, j)` says that word `j` of the log `w` is not what the
   replay of the call `c` compares it with, or names an object whose checksum is
   not the replay's. A struck closure is `Astray`: its log has a bad word, or
   where the closure is now will write one. A committed struck log is `Doomed`:
   it has a bad word. Its validator is at a word `i` that no bad word lies before
   (`ReadsAt`), and can neither pass one (`ReadsMakeVal` and its like, one lemma
   for each comparison) nor come to the end with one left (`Close`). So the
   fault stays suspect (`Suspect`) until a failed assertion reports it. At most
   one fault strikes in a run of the model.

The model's `Bad` looks words up in the heap as it is now, and the log was
written in an earlier one: as in `RightInv`, objects only come and stay what they
are, so a bad word stays bad (`Grows`) whatever the other threads do, with a map
that may by then be wrong.

Model-checked only: of HashMap, that a struck closure is reported in the end
(`FaultReported`); of Masstree, `TreeChecks` and the refinement of SharedMap,
which compare the tree with what a recursive descent finds, and induction over
the tree is out of the prover's reach; of Rbv, that the replica executes nothing
(`ReplicaExecutes` is violated) and that every record is finalized; and all
liveness (temporal properties under fairness are out of the prover's reach).

## What is not modelled

- The copies of the runtime in the other targets: masstree's is the one
  modelled; lsmtree's and the rbv targets' poll is a variant of ClosureGC;
  wordcount's keeps a closure start log per thread.
- Weak memory: steps are sequentially consistent.
- Between `run2` and the server's use of the version it returned: the server
  copies the value out after the closure committed, when nothing protects it.
- The raw context, `hashmap_del` (it aborts), lists and strings of
  `custom_stl.hpp`.
- `ctltypes.hpp` defines `mutex_t::lock` differently in each build of the
  closure code; the model is of the `-O3` build, where it is inlined.
- Lsmtree: only its in-memory skip list is live (flushing, sstables and the
  swap of memtables are disabled, `rt::fflush` is never called). Every program
  of the repository runs its closures from one thread, or its sets under one
  lock and no Get beside a Set, so nothing interleaves but the log pipeline.
  `SkipList::Get` reads `p->next[0]` twice (its `memtable.cpp:82` and `87`) and
  relies on that.
- Rbv's replica beyond its loop (see above), and the rbv servers of lsmtree and
  phoenix, which combine hashes without an order.
- Masstree's and lsmtree's replay word by word: HashMap models the contexts.
- Servers, clients, benchmarks, the campaign: input, output and processes.
- Word count: every closure works on data of its own.
- Vendored code (`third/`) and the `llvm` submodule.

## Plan

What is left is a proof: of Masstree, the parts of `TreeChecks` that need no
recursion, from `TreeInv` (`NodeChecks` of the nodes that a descent finds), and
the links between neighbouring leaves.
