------------------------------ MODULE Masstree ------------------------------
(***************************************************************************)
(* The B+ tree of benchmarks/masstree: descents without locks that check   *)
(* the versions of the nodes they pass, writers that lock leaves, splits   *)
(* that replace a node by two new ones and lock upwards.                   *)
(*                                                                         *)
(* One action per access to shared memory that another thread can tell     *)
(* apart from the next one.  Taking or dropping a lock is part of the      *)
(* neighbouring access, for descents do not look at the lock bit; a node   *)
(* is filled in by the step that creates it, for nobody knows it yet.      *)
(* A node's links, keys and sorted arrays are one sorted sequence of       *)
(* entries; the value pointer of a key, which moves with it from leaf to   *)
(* leaf, is the cell of the key.                                           *)
(***************************************************************************)
EXTENDS Integers, Sequences, FiniteSets

CONSTANTS
  Thread, Loader,  \* Loader fills the tree before the other threads start
  Key, Val, NoVal, \* keys are positive: build_tree holds key 0
  Fanout,          \* entries of a node: 29, or 7
  MaxNodes,        \* bound on the nodes ever created
  Work,            \* the n-th call of thread t is one of Work[t][n]
  Replayed         \* threads whose calls are validated, the others run raw

ASSUME MasstreeAssumption ==
  /\ Replayed \subseteq Thread /\ Key \subseteq Nat \ {0} /\ NoVal \notin Val /\ Loader \in Thread
  /\ Fanout \in Nat /\ Fanout > 1 /\ Fanout % 2 = 1
  /\ MaxNodes \in Nat /\ MaxNodes > 1
  /\ \A t \in Thread : Work[t] \in
       Seq(SUBSET [kind : {"read", "insert", "update"}, key : Key, val : Val])

VARIABLES
  root,                                 \* what root_ptr points to
  ver, type, data, parent, prev, next,  \* the nodes
  cell,                                 \* the value of each key
  used,                                 \* nodes created so far
  pc, at,                               \* program counter and locals
  done,                                 \* calls made
  map, due, call,                       \* see SharedMap; map follows Map
  alarm                                 \* a validator has called validation_failed

tree == <<root, ver, type, data, parent, prev, next, cell, used>>
vars == <<tree, pc, at, done, map, due, call, alarm>>

Node == 1..MaxNodes
NoNode == 0
Half == (Fanout + 1) \div 2

-----------------------------------------------------------------------------
(* Versions: OCCControl. *)

LOCK == 1
INSERT == 2
SPLIT == 4
DELETED == 8
INSERTCNT == 16

Has(v, bit) == (v \div bit) % 2 = 1
Toggle(v, bit) == IF Has(v, bit) THEN v - bit ELSE v + bit   \* ver ^= bit
Raise(v, bit) == IF Has(v, bit) THEN v ELSE v + bit          \* ver |= bit

Stable(v) == ~Has(v, INSERT) /\ ~Has(v, SPLIT)
SameButLock(v, w) == v \div INSERT = w \div INSERT           \* (v ^ w) <= LOCK

Unlocked(v) == Toggle(v, LOCK)
DoneInsert(v) == Toggle(v + INSERTCNT, INSERT)
\* Mutant: the count goes down.
DoneCreateDown(v) == Toggle(v - INSERTCNT, SPLIT)
DoneCreate(v) == Toggle(v + INSERTCNT, SPLIT)
DoneSplitAndDelete(v) == Toggle(Raise(v + INSERTCNT, DELETED), SPLIT)

\* The test of ooc_control_stable_version in the validator, where v is 0:
\* v & ((INSERT | SPLIT) == 0).
StableCheck ==
  LET v == 0
      mask == IF INSERT + SPLIT = 0 THEN 1 ELSE 0
  IN mask # 0 /\ Has(v, mask)

-----------------------------------------------------------------------------
(* Node data. *)

Entry(k, link) == [key |-> k, link |-> link]

\* Node::Data::locate: the last entry whose key is not above k; it aborts when
\* there is none.
Locate(d, k) == Cardinality({i \in DOMAIN d : d[i].key <= k})

First(n) == data[n][1].key
Child(n, k) == data[n][Locate(data[n], k)].link

\* extend: link the new entry behind entry i, whose link may be replaced.
Extended(d, i, new, relink) ==
  LET old == IF relink = NoNode THEN d ELSE [d EXCEPT ![i].link = relink]
  IN SubSeq(old, 1, i) \o <<new>> \o SubSeq(old, i + 1, Len(old))

\* divide: the halves of what extend would have made.
LeftHalf(d) == SubSeq(d, 1, Half)
RightHalf(d) == SubSeq(d, Half + 1, 2 * Half)

Holds(n, k) == LET i == Locate(data[n], k) IN i > 0 /\ data[n][i].key = k

\* What an undisturbed descent finds for each key.
Map ==
  [k \in Key |->
     LET below[n \in Node] == IF type[n] # "LEAF" THEN below[Child(n, k)]
                             ELSE IF Holds(n, k) THEN cell[k] ELSE NoVal
     IN below[root]]

S == INSTANCE SharedMap WITH Kinds <- {"read", "insert", "update"}

-----------------------------------------------------------------------------
(* Control. *)

NoLocals == [node |-> NoNode, v |-> 0, child |-> NoNode, vc |-> 0,
             left |-> NoNode, right |-> NoNode, near |-> NoNode, old |-> NoVal]
op(t) == call[t].op
Goto(t, l) == pc' = [pc EXCEPT ![t] = l]
Observe(t) == /\ map' = Map' /\ call' = S!Seen(t, map')
              /\ due' = [k \in Key |-> IF map'[k] = NoVal THEN due[k] ELSE NoVal]
              /\ UNCHANGED <<done, alarm>>
\* The entry went into a node that is not linked to the tree yet.
Promise(t) == /\ call' = [call EXCEPT ![t].took = "new"]
              /\ due' = [due EXCEPT ![op(t).key] = op(t).val]
              /\ UNCHANGED <<map, done, alarm>>
Quiet(t) == UNCHANGED <<map, due, call, done, alarm>>   \* the step leaves Map alone
Local(t) == UNCHANGED tree /\ Quiet(t)

\* The caller of thread t is told a.
Return(t, a) ==
  /\ pc' = [pc EXCEPT ![t] = "idle"]
  /\ at' = [at EXCEPT ![t] = NoLocals]
  /\ call' = [call EXCEPT ![t] = S!Told(a)]
  /\ UNCHANGED <<map, due, done, alarm>>

\* build_tree: a root over one leaf that holds key 0.
Init ==
  /\ root = 2 /\ used = 2
  /\ ver = [n \in Node |-> 0]
  /\ type = [n \in Node |-> IF n = 2 THEN "ROOT" ELSE "LEAF"]
  /\ data = [n \in Node |-> CASE n = 1 -> <<Entry(0, NoNode)>>
                              [] n = 2 -> <<Entry(0, 1)>>
                              [] OTHER -> <<>>]
  /\ parent = [n \in Node |-> IF n = 1 THEN 2 ELSE NoNode]
  /\ prev = [n \in Node |-> NoNode] /\ next = [n \in Node |-> NoNode]
  /\ cell = [k \in Key |-> NoVal]
  /\ pc = [t \in Thread |-> "idle"] /\ at = [t \in Thread |-> NoLocals]
  /\ done = [t \in Thread |-> 0]
  /\ map = [k \in Key |-> NoVal] /\ due = map /\ call = [t \in Thread |-> S!Told(NoVal)]
  /\ alarm = FALSE

Loaded == done[Loader] = Len(Work[Loader]) /\ pc[Loader] = "idle"

Start(t) ==
  /\ pc[t] = "idle" /\ done[t] < Len(Work[t])
  /\ t = Loader \/ Loaded
  /\ \E o \in Work[t][done[t] + 1] :
       call' = [call EXCEPT ![t] = S!Asked(o, map[o.key])]
  /\ done' = [done EXCEPT ![t] = @ + 1]
  /\ Goto(t, "root")
  /\ UNCHANGED <<tree, at, map, due, alarm>>

-----------------------------------------------------------------------------
(* reach_leaf: down from the root. *)

\* root->load()
LoadRoot(t) ==
  /\ pc[t] = "root"
  /\ at' = [at EXCEPT ![t] = [NoLocals EXCEPT !.node = root]]
  /\ Goto(t, "stable") /\ Local(t)

Enter(n) == IF type[n] = "LEAF" THEN "leaf" ELSE "down"

\* stable_version of the root
RootVersion(t) ==
  LET n == at[t].node
  IN /\ pc[t] = "stable" /\ Stable(ver[n])
     /\ at' = [at EXCEPT ![t].v = ver[n]]
     /\ Goto(t, Enter(n)) /\ Local(t)

\* Mutant: locate goes one entry too far.
DescendPast(t) ==
  LET d == data[at[t].node]  i == Locate(d, op(t).key)
  IN /\ pc[t] = "down"
     /\ at' = [at EXCEPT ![t].child = d[IF i < Len(d) THEN i + 1 ELSE i].link]
     /\ Goto(t, "child") /\ Local(t)

\* data->load(), locate and child
Descend(t) ==
  /\ pc[t] = "down"
  /\ at' = [at EXCEPT ![t].child = Child(at[t].node, op(t).key)]
  /\ Goto(t, "child") /\ Local(t)

\* stable_version of the child
ChildVersion(t) ==
  /\ pc[t] = "child" /\ Stable(ver[at[t].child])
  /\ at' = [at EXCEPT ![t].vc = ver[at[t].child]]
  /\ Goto(t, "check") /\ Local(t)

\* load of the node's version: it must not have changed under the descent
CheckSame(t) ==
  /\ pc[t] = "check" /\ SameButLock(ver[at[t].node], at[t].v)
  /\ at' = [at EXCEPT ![t] = [NoLocals EXCEPT !.node = at[t].child, !.v = at[t].vc]]
  /\ Goto(t, Enter(at[t].child)) /\ Local(t)

\* what to do with version v of a node that has changed
Resume(t, v) ==
  IF Has(v, DELETED) THEN Goto(t, "root") /\ at' = [at EXCEPT ![t] = NoLocals]
  ELSE /\ Goto(t, "down")
       /\ at' = [at EXCEPT ![t] = [NoLocals EXCEPT !.node = at[t].node, !.v = v]]

CheckChanged(t) ==
  LET v == ver[at[t].node]
  IN /\ pc[t] = "check" /\ ~SameButLock(v, at[t].v)
     /\ IF Stable(v) THEN Resume(t, v) ELSE Goto(t, "recheck") /\ UNCHANGED at
     /\ Local(t)

\* stable_version of a node that was being written
Recheck(t) ==
  LET v == ver[at[t].node]
  IN pc[t] = "recheck" /\ Stable(v) /\ Resume(t, v) /\ Local(t)

-----------------------------------------------------------------------------
(* At the leaf: read, locate_locked, update, insert. *)

\* Mutant: the lock is not waited for.
LockBlind(n) == ver' = [ver EXCEPT ![n] = Raise(@, LOCK)]
Lock(n) == ~Has(ver[n], LOCK) /\ ver' = [ver EXCEPT ![n] = Raise(@, LOCK)]
Unlock(n) == ver' = [ver EXCEPT ![n] = Unlocked(@)]

\* read locks the leaf it has reached, whatever became of it
LockToRead(t) ==
  /\ pc[t] = "leaf" /\ op(t).kind = "read"
  /\ Lock(at[t].node) /\ Goto(t, "act") /\ UNCHANGED at
  /\ UNCHANGED <<root, type, data, parent, prev, next, cell, used>> /\ Quiet(t)

\* Mutant: the leaf is not checked after it was locked.
LockToWriteBlind(t) ==
  LET n == at[t].node
  IN /\ pc[t] = "leaf" /\ op(t).kind # "read"
     /\ Lock(n) /\ Goto(t, "act") /\ UNCHANGED at
     /\ UNCHANGED <<root, type, data, parent, prev, next, cell, used>> /\ Quiet(t)

\* locate_locked: the leaf must still be what the descent has found
LockToWrite(t) ==
  LET n == at[t].node
  IN /\ pc[t] = "leaf" /\ op(t).kind # "read"
     /\ ~Has(at[t].v, DELETED) /\ SameButLock(ver[n], at[t].v)
     /\ Lock(n) /\ Goto(t, "act") /\ UNCHANGED at
     /\ UNCHANGED <<root, type, data, parent, prev, next, cell, used>> /\ Quiet(t)

LocateAgain(t) ==
  LET n == at[t].node
  IN /\ pc[t] = "leaf" /\ op(t).kind # "read"
     /\ \/ Has(at[t].v, DELETED)
        \/ ~Has(ver[n], LOCK) /\ ~SameButLock(ver[n], at[t].v)
     /\ Goto(t, "root") /\ at' = [at EXCEPT ![t] = NoLocals] /\ Local(t)

Read(t) ==
  LET n == at[t].node
  IN /\ pc[t] = "act" /\ op(t).kind = "read"
     /\ Unlock(n)
     /\ Return(t, IF Holds(n, op(t).key) THEN cell[op(t).key] ELSE NoVal)
     /\ UNCHANGED <<root, type, data, parent, prev, next, cell, used>>

\* update: load and reref of the value pointer
Update(t) ==
  LET n == at[t].node  k == op(t).key
  IN /\ pc[t] = "act" /\ op(t).kind = "update" /\ Holds(n, k)
     /\ at' = [at EXCEPT ![t] = [@ EXCEPT !.old = cell[k]]]
     /\ cell' = [cell EXCEPT ![k] = op(t).val]
     /\ Goto(t, "updated")
     /\ UNCHANGED <<root, ver, type, data, parent, prev, next, used>> /\ Observe(t)

UpdateReturns(t) ==
  /\ \/ pc[t] = "updated" /\ Return(t, at[t].old)
     \/ /\ pc[t] = "act" /\ op(t).kind = "update" /\ ~Holds(at[t].node, op(t).key)
        /\ Return(t, NoVal)
  /\ Unlock(at[t].node)
  /\ UNCHANGED <<root, type, data, parent, prev, next, cell, used>>

InsertFinds(t) ==
  /\ pc[t] = "act" /\ op(t).kind = "insert" /\ Holds(at[t].node, op(t).key)
  /\ Unlock(at[t].node) /\ Return(t, "old")
  /\ UNCHANGED <<root, type, data, parent, prev, next, cell, used>>

-----------------------------------------------------------------------------
(* insert and insert_interior: add an entry to the node, which is locked, or *)
(* split it first.                                                           *)

\* The key that finds the entry of the node that left and right replace.
SplitKey(t) == IF type[at[t].left] = "LEAF" THEN First(at[t].left)
               ELSE First(at[t].right)

\* Mutant: the parent keeps its link to the node that was split.
NewDataKeeps(t) ==
  LET n == at[t].node  d == data[n]  k == op(t).key
  IN IF type[n] = "LEAF" THEN Extended(d, Locate(d, k), Entry(k, NoNode), NoNode)
     ELSE Extended(d, Locate(d, SplitKey(t)),
                   Entry(First(at[t].right), at[t].right), NoNode)

\* What extend makes of the node's data, or divide the halves of.
NewData(t) ==
  LET n == at[t].node  d == data[n]  k == op(t).key
  IN IF type[n] = "LEAF" THEN Extended(d, Locate(d, k), Entry(k, NoNode), NoNode)
     ELSE Extended(d, Locate(d, SplitKey(t)),
                   Entry(First(at[t].right), at[t].right), at[t].left)

Inserting(t) == \/ pc[t] = "act" /\ op(t).kind = "insert" /\ ~Holds(at[t].node, op(t).key)
                \/ pc[t] = "interior"
Roomy(n) == Len(data[n]) < Fanout

\* divide, make_obj and do_split: two fresh nodes take the halves.
Split(t, kind) ==
  LET n == at[t].node  l == used + 1  r == used + 2  d == NewData(t)
  IN /\ r <= MaxNodes /\ used' = r
     /\ ver' = [ver EXCEPT ![n] = Raise(@, SPLIT), ![l] = LOCK + SPLIT, ![r] = LOCK + SPLIT]
     /\ type' = [type EXCEPT ![l] = kind, ![r] = kind]
     /\ data' = [data EXCEPT ![l] = LeftHalf(d), ![r] = RightHalf(d)]
     /\ at' = [at EXCEPT ![t] = [@ EXCEPT !.left = l, !.right = r]]

\* do_insert
BeginInsert(t) ==
  LET n == at[t].node
  IN /\ Inserting(t) /\ Roomy(n)
     /\ ver' = [ver EXCEPT ![n] = Raise(@, INSERT)]
     /\ cell' = IF type[n] = "LEAF" THEN [cell EXCEPT ![op(t).key] = op(t).val] ELSE cell
     /\ Goto(t, "insert") /\ UNCHANGED at
     /\ UNCHANGED <<root, type, data, parent, prev, next, used>> /\ Observe(t)

\* data->reref
Insert(t) ==
  /\ pc[t] = "insert"
  /\ data' = [data EXCEPT ![at[t].node] = NewData(t)]
  /\ Goto(t, "inserted") /\ UNCHANGED at
  /\ UNCHANGED <<root, ver, type, parent, prev, next, cell, used>>
  /\ IF Map'[op(t).key] = NoVal THEN Promise(t) ELSE Observe(t)

\* done_insert and unlock
EndInsert(t) ==
  /\ pc[t] = "inserted"
  /\ ver' = [ver EXCEPT ![at[t].node] = Unlocked(DoneInsert(@))]
  /\ Return(t, "new")
  /\ UNCHANGED <<root, type, data, parent, prev, next, cell, used>>

\* A full leaf: the new leaves lie between each other and the leaf's next.
SplitLeaf(t) ==
  LET n == at[t].node  l == used + 1  r == used + 2
  IN /\ Inserting(t) /\ type[n] = "LEAF" /\ ~Roomy(n)
     /\ Split(t, "LEAF")
     /\ next' = [next EXCEPT ![l] = r, ![r] = next[n]]
     /\ prev' = [prev EXCEPT ![r] = l]
     /\ cell' = [cell EXCEPT ![op(t).key] = op(t).val]
     /\ Goto(t, IF next[n] = NoNode THEN "prev" ELSE "next")
     /\ UNCHANGED <<root, parent>> /\ Observe(t)

\* next->prev->reref
LinkNext(t) ==
  /\ pc[t] = "next"
  /\ prev' = [prev EXCEPT ![next[at[t].right]] = at[t].right]
  /\ Goto(t, "prev") /\ UNCHANGED at
  /\ UNCHANGED <<root, ver, type, data, parent, next, cell, used>> /\ Quiet(t)

\* lock_prev: load of the neighbour to lock
LoadPrev(t) ==
  /\ pc[t] = "prev"
  /\ at' = [at EXCEPT ![t].near = prev[at[t].node]]
  /\ Goto(t, "lockprev") /\ Local(t)

\* Mutant: the neighbour is not checked after it was locked.
LinkPrevUnchecked(t) ==
  LET near == at[t].near  left == at[t].left
  IN /\ pc[t] = "lockprev"
     /\ near # NoNode => ~Has(ver[near], LOCK)
     /\ prev' = [prev EXCEPT ![left] = near]
     /\ next' = IF near = NoNode THEN next ELSE [next EXCEPT ![near] = left]
     /\ Goto(t, "parent") /\ UNCHANGED at
     /\ UNCHANGED <<root, ver, type, data, parent, cell, used>> /\ Quiet(t)

\* lock_prev: it still is the neighbour once it is locked; it is linked to left
LinkPrev(t) ==
  LET near == at[t].near  left == at[t].left
  IN /\ pc[t] = "lockprev" /\ near = prev[at[t].node]
     /\ near # NoNode => ~Has(ver[near], LOCK)
     /\ prev' = [prev EXCEPT ![left] = near]
     /\ next' = IF near = NoNode THEN next ELSE [next EXCEPT ![near] = left]
     /\ Goto(t, "parent") /\ UNCHANGED at
     /\ UNCHANGED <<root, ver, type, data, parent, cell, used>> /\ Quiet(t)

PrevAgain(t) ==
  /\ pc[t] = "lockprev" /\ at[t].near # prev[at[t].node]
  /\ at[t].near # NoNode => ~Has(ver[at[t].near], LOCK)
  /\ Goto(t, "prev") /\ UNCHANGED at /\ Local(t)

\* lock_parent: load of the parent to lock
LoadParent(t) ==
  /\ pc[t] = "parent" /\ parent[at[t].node] # NoNode
  /\ at' = [at EXCEPT ![t].near = parent[at[t].node]]
  /\ Goto(t, "lockparent") /\ Local(t)

\* lock_parent: it still is the parent once it is locked; the halves get it
LockParent(t) ==
  LET near == at[t].near
  IN /\ pc[t] = "lockparent" /\ near = parent[at[t].node]
     /\ Lock(near)
     /\ parent' = [parent EXCEPT ![at[t].left] = near, ![at[t].right] = near]
     /\ Goto(t, "replace") /\ UNCHANGED at
     /\ UNCHANGED <<root, type, data, prev, next, cell, used>> /\ Quiet(t)

ParentAgain(t) ==
  /\ pc[t] = "lockparent" /\ at[t].near # parent[at[t].node]
  /\ ~Has(ver[at[t].near], LOCK)
  /\ Goto(t, "parent") /\ UNCHANGED at /\ Local(t)

\* done_split_and_delete, done_create and unlock of the node and its halves
Replaced(t) ==
  [n \in Node |-> CASE n = at[t].node -> Unlocked(DoneSplitAndDelete(ver[n]))
                    [] n \in {at[t].left, at[t].right} -> Unlocked(DoneCreate(ver[n]))
                    [] OTHER -> ver[n]]

\* on to the parent with the halves
Replace(t) ==
  /\ pc[t] = "replace" /\ at[t].near # NoNode
  /\ ver' = Replaced(t)
  /\ at' = [at EXCEPT ![t] = [@ EXCEPT !.node = at[t].near, !.near = NoNode]]
  /\ Goto(t, "interior")
  /\ UNCHANGED <<root, type, data, parent, prev, next, cell, used>> /\ Quiet(t)

\* the node was the root
ReplaceRoot(t) ==
  /\ pc[t] = "replace" /\ at[t].near = NoNode
  /\ ver' = Replaced(t) /\ Return(t, "new")
  /\ UNCHANGED <<root, type, data, parent, prev, next, cell, used>>

\* A full interior node: the children learn their new parents.
Links(d) == {d[i].link : i \in DOMAIN d}
SplitInterior(t) ==
  LET n == at[t].node  l == used + 1  r == used + 2
  IN /\ Inserting(t) /\ type[n] # "LEAF" /\ ~Roomy(n)
     /\ Split(t, "INTERIOR")
     /\ parent' = [m \in Node |-> CASE m \in Links(data'[l]) -> l
                                    [] m \in Links(data'[r]) -> r
                                    [] OTHER -> parent[m]]
     /\ Goto(t, IF type[n] = "ROOT" THEN "newroot" ELSE "parent")
     /\ UNCHANGED <<root, prev, next, cell>> /\ Observe(t)

\* A new root over the halves of the old one: root_ptr->reref.
NewRoot(t) ==
  LET l == at[t].left  r == at[t].right  new == used + 1
  IN /\ pc[t] = "newroot" /\ new <= MaxNodes
     /\ used' = new /\ root' = new
     /\ ver' = [ver EXCEPT ![new] = LOCK + SPLIT]
     /\ type' = [type EXCEPT ![new] = "ROOT"]
     /\ data' = [data EXCEPT ![new] = <<Entry(First(l), l), Entry(First(r), r)>>]
     /\ parent' = [parent EXCEPT ![l] = new, ![r] = new]
     /\ Goto(t, "swapped") /\ UNCHANGED at
     /\ UNCHANGED <<prev, next, cell>> /\ Observe(t)

\* done_create and unlock of the new root
OpenRoot(t) ==
  /\ pc[t] = "swapped"
  /\ ver' = [ver EXCEPT ![parent[at[t].left]] = Unlocked(DoneCreate(@))]
  /\ at' = [at EXCEPT ![t].near = NoNode]
  /\ Goto(t, "replace")
  /\ UNCHANGED <<root, type, data, parent, prev, next, cell, used>> /\ Quiet(t)

-----------------------------------------------------------------------------
(* Replay, scheduling, and what must hold. *)

\* A validator replays a closure that is over: reach_leaf calls stable_version.
Replay(t) ==
  /\ t \in Replayed /\ done[t] > 0 /\ ~S!Pending(t)
  /\ alarm' = ~StableCheck
  /\ UNCHANGED <<tree, pc, at, done, map, due, call>>

Down(t) == LoadRoot(t) \/ RootVersion(t) \/ Descend(t) \/ ChildVersion(t)
           \/ CheckSame(t) \/ CheckChanged(t) \/ Recheck(t)
Leaf(t) == LockToRead(t) \/ LockToWrite(t) \/ LocateAgain(t) \/ Read(t) \/ Update(t)
           \/ UpdateReturns(t) \/ InsertFinds(t)
Grow(t) == BeginInsert(t) \/ Insert(t) \/ EndInsert(t) \/ SplitLeaf(t) \/ LinkNext(t)
           \/ LoadPrev(t) \/ LinkPrev(t) \/ PrevAgain(t) \/ LoadParent(t) \/ LockParent(t)
           \/ ParentAgain(t) \/ Replace(t) \/ ReplaceRoot(t) \/ SplitInterior(t)
           \/ NewRoot(t) \/ OpenRoot(t)
Act(t) == ~alarm /\ (Down(t) \/ Leaf(t) \/ Grow(t))

\* All calls have returned, or the process has aborted.
Stopped == /\ alarm \/ \A t \in Thread : pc[t] = "idle" /\ done[t] = Len(Work[t])
           /\ UNCHANGED vars

Next == (~alarm /\ \E t \in Thread : Act(t) \/ Start(t) \/ Replay(t)) \/ Stopped
Spec == Init /\ [][Next]_vars
FairSpec == Spec /\ \A t \in Thread : WF_vars(Act(t))

TypeOK ==
  /\ root \in Node /\ used \in Node /\ ver \in [Node -> Nat]
  /\ type \in [Node -> {"ROOT", "INTERIOR", "LEAF"}]
  /\ \A n \in Node : data[n] \in Seq([key : Key \cup {0}, link : 0..MaxNodes])
  /\ {parent, prev, next} \subseteq [Node -> 0..MaxNodes]
  /\ cell \in [Key -> Val \cup {NoVal}]
  /\ DOMAIN at = Thread /\ DOMAIN pc = Thread
  /\ done \in [Thread -> Nat] /\ alarm \in BOOLEAN

\* The nodes thread t has locked.
Held(t) ==
  (CASE pc[t] \in {"act", "updated", "interior", "insert", "inserted"} -> {at[t].node}
     [] pc[t] \in {"next", "prev", "lockprev", "parent", "lockparent", "newroot"} ->
          {at[t].node, at[t].left, at[t].right}
     [] pc[t] = "replace" -> {at[t].node, at[t].left, at[t].right, at[t].near}
     [] pc[t] = "swapped" -> {at[t].node, at[t].left, at[t].right, parent[at[t].left]}
     [] OTHER -> {}) \ {NoNode}

\* The lock bit of a node is set as long as one thread has it locked, and by
\* no more than one: no toggling of the bits (occ.hpp:42) loses it, and a
\* version never says that a node is written while nobody has locked it.
LocksOwned ==
  /\ \A t, u \in Thread : t # u => Held(t) \cap Held(u) = {}
  /\ \A n \in 1..used :
       /\ Has(ver[n], LOCK) <=> \E t \in Thread : n \in Held(t)
       /\ ~Has(ver[n], LOCK) => Stable(ver[n])

\* Node::Data::locate never aborts: whatever is split meanwhile, neither a
\* descent nor an operation at its leaf comes to a node whose keys all lie above
\* the one it looks for, and no split finds only higher keys in the node above.
LocateFinds ==
  \A t \in Thread :
    /\ pc[t] \in {"down", "act"} => First(at[t].node) <= op(t).key
    /\ pc[t] = "interior" => First(at[t].node) <= SplitKey(t)

\* final_check of faultinject.cpp: with no call going on, the nodes reached
\* from the root are alive, know their parents, carry their parents' keys in
\* order, the leaves among them are linked from left to right, and they hold
\* every key that was inserted.
Below(n) == IF type[n] = "LEAF" THEN {} ELSE Links(data[n])
Reachable ==
  LET under[n \in Node] == {n} \cup UNION {under[c] : c \in Below(n)}
  IN under[root]
NodeChecks(n) ==
  /\ ~Has(ver[n], DELETED)
  /\ \A i \in 1..Len(data[n]) - 1 : data[n][i].key < data[n][i + 1].key
  /\ type[n] # "LEAF" =>
       \A i \in DOMAIN data[n] : LET c == data[n][i].link
                                 IN First(c) = data[n][i].key /\ parent[c] = n
LeavesLinked ==
  LET leaves == {n \in Reachable : type[n] = "LEAF"}
      After(m) == {n \in leaves : First(n) > First(m)}
  IN \A m \in leaves :
       /\ After(m) = {} => next[m] = NoNode
       /\ After(m) # {} => /\ next[m] \in After(m) /\ prev[next[m]] = m
                           /\ \A n \in After(m) : First(next[m]) <= First(n)
       /\ leaves = {m} \cup After(m) => prev[m] = NoNode
TreeChecks ==
  (\A t \in Thread : pc[t] = "idle") =>
     /\ LeavesLinked /\ \A n \in Reachable : NodeChecks(n)
     /\ \A k \in Key : due[k] = NoVal

\* The tree is one map: reads, inserts and updates answer as if each took
\* effect at one moment, whatever splits they meet; but an insert may return
\* before that moment when the node above its leaf is being split.
ImplementsSharedMap == S!Spec

\* "If reads going down without ignoring a range, the result is correct"
\* (closure.hpp:18): a thread finds what it has just inserted.
FindsOwn ==
  \A t \in Thread :
    (done[t] > 1 /\ ~S!Pending(t)) =>
      \A o \in Work[t][done[t] - 1], p \in Work[t][done[t]] :
        (o.kind = "insert" /\ p.kind = "read" /\ o.key = p.key) => call[t].ret # NoVal

\* Every call returns: retries end and no chain of locks is closed.  (There
\* are finitely many calls.)
CallsReturn == []<>(alarm \/ \A t \in Thread : ~S!Pending(t))

\* A validator calls validation_failed only for what the application did
\* wrong, and here it does nothing wrong.
ReplayPasses == ~alarm
=============================================================================
