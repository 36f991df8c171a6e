--------------------------- MODULE HashMapProofs ---------------------------
(***************************************************************************)
(* Proofs about HashMap.                                                   *)
(*                                                                         *)
(* The invariant says, as long as no fault has struck, that every log      *)
(* agrees with the objects: it names an entry or a value where the closure *)
(* will find it again, however much later a validator reads it.  Objects   *)
(* are immutable and only come, so what is said of them stays true; cells  *)
(* and bucket heads do change, but a validator reads those from the log.   *)
(* For the application to log such things the buckets have to be locked,   *)
(* and a new cell to belong to one closure until its entry is there.       *)
(*                                                                         *)
(* Without faults the same invariant gives the types of all variables, and *)
(* that the map implements an atomic one: a get takes effect when it reads *)
(* the cell of its key or finds that there is none, a set when it stores   *)
(* into that cell or links a new entry; no other step is seen.             *)
(***************************************************************************)
EXTENDS HashMapRefinement, FiniteSetTheorems, SequenceTheorems, TLAPS

-----------------------------------------------------------------------------
(* Objects and cells.  The operators of this part are about a memory m of   *)
(* objects and a map q of cells, for steps compare two of them.              *)

ValuesIn(m)  == {a \in DOMAIN m : m[a].data \in Val}
EntriesIn(m) == DOMAIN m \ ValuesIn(m)
Places(m)    == EntriesIn(m) \cup {0}
CellOf(m, e) == m[e].data.cell

\* f tells of every place where a search for the key ends that starts there.
Walks(m, k, f) ==
  f = [a \in Places(m) |-> IF a = 0 THEN 0
                           ELSE IF m[a].data.key = k THEN a
                           ELSE f[m[a].data.next]]
Look(m, k) == CHOOSE f : Walks(m, k, f)

HeapInv(m, n) ==
  /\ n \in Nat /\ Buckets <= n /\ DOMAIN m \subseteq Buckets + 1 .. n
  /\ \A a \in DOMAIN m : m[a].data \in Val \cup Entry
  /\ \A e \in EntriesIn(m) : m[e].data.next \in Places(m) /\ m[e].data.next < e
  /\ \A k \in Key :
       /\ Walks(m, k, Look(m, k))
       /\ \A f : Walks(m, k, f) => f = Look(m, k)
       /\ \A a \in Places(m) :
            Look(m, k)[a] \in {0} \cup {e \in EntriesIn(m) : m[e].data.key = k}

Honest(m)    == \A a \in DOMAIN m : m[a].sum = m[a].data
ObjInv(m, n) == HeapInv(m, n) /\ Honest(m)

CellInv(q, m, n) ==
  /\ Bucket \subseteq DOMAIN q /\ DOMAIN q \subseteq 1 .. n
  /\ \A a \in DOMAIN q : q[a] \in Addr
  /\ \A b \in Bucket : q[b] \in Places(m)
  /\ \A e \in EntriesIn(m) : /\ CellOf(m, e) \in DOMAIN q \ Bucket
                             /\ q[CellOf(m, e)] \in ValuesIn(m)
  /\ \A d, e \in EntriesIn(m) : CellOf(m, d) = CellOf(m, e) => d = e

-----------------------------------------------------------------------------
(* A closure and its log. *)

Labels == {"idle", "lock", "head", "walk", "load", "newCell", "makeVal",
           "store", "makeEntry", "link", "unlock", "return"}
Asked  == {c \in Call : c.val = NoVal <=> c.op = "get"}
Locals == [hv : Word, head : Word, at : Word, dest : Word, made : Word, ret : Word]

\* The entry of the key in the chain that the closure has found at its head.
Found(m, c, l) == Look(m, c.key)[l.head]
Hit(m, c, l)   == Found(m, c, l) # 0
IsVal(m, c, v) == v \in ValuesIn(m) /\ m[v].data = c.val
IsEntry(m, c, d, h, e) ==
  e \in EntriesIn(m) /\ m[e].data = [key |-> c.key, cell |-> d, next |-> h]

\* What a closure has in its locals at label s.
LocalsAt(m, s, c, l) ==
  /\ s = "idle" => c = NoCall /\ l = Fresh
  /\ s # "idle" => c \in Asked
  /\ s = "lock" => l = Fresh
  /\ s \notin {"idle", "lock"} => l.hv = Hash[c.key]
  /\ s = "head" => l.ret = 0
  /\ s \notin {"idle", "lock", "head"} => l.head \in Places(m)
  /\ s = "walk" => /\ l.at \in Places(m) /\ l.ret = 0
                   /\ Look(m, c.key)[l.at] = Found(m, c, l)
  /\ s = "load" => Hit(m, c, l) /\ l.dest = CellOf(m, Found(m, c, l))
  /\ s = "newCell" => c.op = "set" /\ ~Hit(m, c, l)
  /\ s \in {"makeVal", "store"} =>
       /\ c.op = "set"
       /\ \/ l.ret = kStored /\ Hit(m, c, l) /\ l.dest = CellOf(m, Found(m, c, l))
          \/ l.ret = kCreated /\ ~Hit(m, c, l)
  /\ s \in {"makeEntry", "link"} => c.op = "set" /\ l.ret = kCreated /\ ~Hit(m, c, l)
  /\ s = "store" => IsVal(m, c, l.made)
  /\ s = "link" => IsEntry(m, c, l.dest, l.head, l.made)
  /\ s \in {"unlock", "return"} =>
       \/ c.op = "get" /\ Hit(m, c, l) /\ l.ret \in ValuesIn(m)
       \/ c.op = "get" /\ ~Hit(m, c, l) /\ l.ret = 0
       \/ c.op = "set" /\ Hit(m, c, l) /\ l.ret = kStored
       \/ c.op = "set" /\ ~Hit(m, c, l) /\ l.ret = kCreated

\* What the application has logged there.
WroteAt(m, s, c, l, w) ==
  LET h == l.head  b == l.hv  d == l.dest  f == CellOf(m, Found(m, c, l)) IN
  /\ s \in {"idle", "lock", "head"} => w = << >>
  /\ s \in {"walk", "load", "newCell"} => w = <<b, h>>
  /\ s = "makeVal" =>
       \/ l.ret = kStored /\ \E o \in Addr : w = <<b, h, d, o>>
       \/ l.ret = kCreated /\ w = <<b, h, d>>
  /\ s = "store" =>
       \/ l.ret = kStored /\ \E o \in Addr : w = <<b, h, d, o, SizeOfVal, l.made>>
       \/ l.ret = kCreated /\ w = <<b, h, d, SizeOfVal, l.made>>
  /\ s = "makeEntry" =>
       \E v \in ValuesIn(m) : IsVal(m, c, v) /\ w = <<b, h, d, SizeOfVal, v, d, v>>
  /\ s = "link" =>
       \E v \in ValuesIn(m) : /\ IsVal(m, c, v)
                         /\ w = <<b, h, d, SizeOfVal, v, d, v, SizeOfEntry, l.made>>
  /\ s \in {"unlock", "return"} =>
       \/ /\ c.op = "get" /\ Hit(m, c, l) /\ w = <<b, h, f, l.ret>>
       \/ /\ c.op = "get" /\ ~Hit(m, c, l) /\ w = <<b, h>>
       \/ /\ c.op = "set" /\ Hit(m, c, l)
          /\ \E o \in Addr, v \in ValuesIn(m) :
               IsVal(m, c, v) /\ w = <<b, h, f, o, SizeOfVal, v, f, v>>
       \/ /\ c.op = "set" /\ ~Hit(m, c, l)
          /\ \E n \in Addr, v \in ValuesIn(m), e \in EntriesIn(m) :
               /\ IsVal(m, c, v) /\ IsEntry(m, c, n, h, e)
               /\ w = <<b, h, n, SizeOfVal, v, n, v, SizeOfEntry, e, b, e>>

\* A log of a closure: what a validator has before it.
Full(m, c, w) ==
  \E h \in Places(m) :
    LET b == Hash[c.key]  r == Look(m, c.key)[h] IN
    \/ /\ c.op = "get" /\ r # 0
       /\ \E x \in ValuesIn(m) : w = <<b, h, CellOf(m, r), x, x, Magic>>
    \/ c.op = "get" /\ r = 0 /\ w = <<b, h, 0, Magic>>
    \/ /\ c.op = "set" /\ r # 0
       /\ \E o \in Addr, v \in ValuesIn(m) :
            /\ IsVal(m, c, v)
            /\ w = <<b, h, CellOf(m, r), o, SizeOfVal, v, CellOf(m, r), v, kStored, Magic>>
    \/ /\ c.op = "set" /\ r = 0
       /\ \E n \in Addr, v \in ValuesIn(m), e \in EntriesIn(m) :
            /\ IsVal(m, c, v) /\ IsEntry(m, c, n, h, e)
            /\ w = <<b, h, n, SizeOfVal, v, n, v, SizeOfEntry, e, b, e, kCreated, Magic>>

\* What is left of it at label s.
LeftAt(m, s, c, l, w) ==
  LET h == l.head  b == l.hv  d == l.dest  f == CellOf(m, Found(m, c, l)) IN
  /\ s = "idle" => w = << >>
  /\ s \in {"lock", "head"} => Full(m, c, w)
  /\ s \in {"walk", "load", "newCell"} =>
       \/ /\ c.op = "get" /\ Hit(m, c, l)
          /\ \E x \in ValuesIn(m) : w = <<f, x, x, Magic>>
       \/ c.op = "get" /\ ~Hit(m, c, l) /\ w = <<0, Magic>>
       \/ /\ c.op = "set" /\ Hit(m, c, l)
          /\ \E o \in Addr, v \in ValuesIn(m) :
               IsVal(m, c, v) /\ w = <<f, o, SizeOfVal, v, f, v, kStored, Magic>>
       \/ /\ c.op = "set" /\ ~Hit(m, c, l)
          /\ \E n \in Addr, v \in ValuesIn(m), e \in EntriesIn(m) :
               /\ IsVal(m, c, v) /\ IsEntry(m, c, n, h, e)
               /\ w = <<n, SizeOfVal, v, n, v, SizeOfEntry, e, b, e, kCreated, Magic>>
  /\ s = "makeVal" =>
       \/ /\ l.ret = kStored
          /\ \E v \in ValuesIn(m) :
               IsVal(m, c, v) /\ w = <<SizeOfVal, v, d, v, kStored, Magic>>
       \/ /\ l.ret = kCreated
          /\ \E v \in ValuesIn(m), e \in EntriesIn(m) :
               /\ IsVal(m, c, v) /\ IsEntry(m, c, d, h, e)
               /\ w = <<SizeOfVal, v, d, v, SizeOfEntry, e, b, e, kCreated, Magic>>
  /\ s = "store" =>
       \/ l.ret = kStored /\ w = <<d, l.made, kStored, Magic>>
       \/ /\ l.ret = kCreated
          /\ \E e \in EntriesIn(m) :
               /\ IsEntry(m, c, d, h, e)
               /\ w = <<d, l.made, SizeOfEntry, e, b, e, kCreated, Magic>>
  /\ s = "makeEntry" =>
       \E e \in EntriesIn(m) : /\ IsEntry(m, c, d, h, e)
                          /\ w = <<SizeOfEntry, e, b, e, kCreated, Magic>>
  /\ s = "link" => w = <<b, l.made, kCreated, Magic>>
  /\ s \in {"unlock", "return"} => w = <<l.ret, Magic>>

-----------------------------------------------------------------------------
(* The invariant. *)

Inside  == Labels \ {"idle", "lock", "return"}
Started == Inside \ {"head", "unlock"}

\* The thread has a cell that no entry has yet.
Owns(s, l) == s \in {"makeVal", "store", "makeEntry"} /\ l.ret = kCreated

HoldsAt(q, m, g, s, c, l, t) ==
  /\ s \in Inside => g[Hash[c.key]] = t
  /\ s \in Started => q[l.hv] = l.head
  /\ Owns(s, l) => /\ l.dest \in DOMAIN q \ Bucket
                   /\ \A e \in EntriesIn(m) : CellOf(m, e) # l.dest
  /\ s \in {"makeEntry", "link"} => IsVal(m, c, q[l.dest])

TypesInv ==
  /\ lock \in [Bucket -> App \cup {NoApp}]
  /\ pc \in [Proc -> Labels] /\ call \in [Proc -> Call \cup {NoCall}]
  /\ loc \in [Proc -> Locals] /\ log \in [Proc -> Seq(Word)]
  /\ pending \in [App -> Seq([call : Asked, struck : BOOLEAN, words : Seq(Word)])]
  /\ left \in 0 .. MaxOps /\ hit \in BOOLEAN /\ wrong \in BOOLEAN
  /\ struck \in [Proc -> BOOLEAN]
  /\ spec \in [Key -> Val \cup {NoVal}] /\ DOMAIN owed = App

A(t) == <<t, "app">>
V(t) == <<t, "val">>

RightInv ==
  /\ TypesInv /\ ~reported
  /\ ObjInv(obj, top) /\ CellInv(cell, obj, top)
  /\ \A p \in Proc : LocalsAt(obj, pc[p], call[p], loc[p])
  /\ \A t \in App :
       /\ WroteAt(obj, pc[A(t)], call[A(t)], loc[A(t)], log[A(t)])
       /\ HoldsAt(cell, obj, lock, pc[A(t)], call[A(t)], loc[A(t)], t)
       /\ LeftAt(obj, pc[V(t)], call[V(t)], loc[V(t)], log[V(t)])
       /\ \A i \in DOMAIN pending[t] : Full(obj, pending[t][i].call, pending[t][i].words)
  /\ \A t, u \in App :
       /\ Owns(pc[A(t)], loc[A(t)]) /\ Owns(pc[A(u)], loc[A(u)])
       /\ loc[A(t)].dest = loc[A(u)].dest
       => t = u
Inv == hit \/ RightInv

-----------------------------------------------------------------------------
(* Words, and the sequences of them that a step takes apart or puts together. *)

\* The words that are no addresses differ.
LEMMA WordsDiffer ==
  /\ kStored # kCreated
  /\ \A w \in {SizeOfVal, SizeOfEntry, kStored, kCreated, Magic} : w \notin Nat
<1>1. ASSUME kStored = kCreated PROVE FALSE
  <2>1. PICK a, b, c, d : a = SizeOfVal /\ b = SizeOfEntry /\ c = kStored /\ d = Magic
    OBVIOUS
  <2>2. {SizeOfVal, SizeOfEntry, kStored, kCreated, Magic} = (({a} \cup {b}) \cup {c}) \cup {d}
    BY <1>1, <2>1
  <2>3. IsFiniteSet({a}) /\ Cardinality({a}) = 1  BY FS_Singleton
  <2>4. /\ IsFiniteSet({a} \cup {b}) /\ Cardinality({a} \cup {b}) \in 1 .. 2
    BY <2>3, FS_AddElement
  <2>5. /\ IsFiniteSet(({a} \cup {b}) \cup {c})
        /\ Cardinality(({a} \cup {b}) \cup {c}) \in 1 .. 3
    BY <2>4, FS_AddElement
  <2>6. Cardinality((({a} \cup {b}) \cup {c}) \cup {d}) \in 1 .. 4
    BY <2>5, FS_AddElement
  <2> QED  BY <2>2, <2>6, WordsAssumption
<1>2. \A w \in {SizeOfVal, SizeOfEntry, kStored, kCreated, Magic} : w \notin Nat
  BY WordsAssumption
<1> QED  BY <1>1, <1>2

\* What a validator leaves of a sequence, given word by word.
LEMMA Rest ==
  ASSUME NEW S, NEW w \in Seq(S), NEW t \in Seq(S), NEW k \in 1 .. Len(w),
         Len(t) = Len(w) - k + 1, \A i \in 1 .. Len(t) : t[i] = w[i + k - 1]
  PROVE  SubSeq(w, k, Len(w)) = t
<1>1. k \in 1 .. Len(w) + 1 /\ Len(w) \in k - 1 .. Len(w)  OBVIOUS
<1>2. /\ SubSeq(w, k, Len(w)) \in Seq(S)
      /\ Len(SubSeq(w, k, Len(w))) = Len(w) - k + 1
      /\ \A i \in 1 .. Len(w) - k + 1 : SubSeq(w, k, Len(w))[i] = w[k + i - 1]
  BY <1>1, SubSeqProperties
<1> QED  BY <1>2, SeqEqual

\* A sequence put together of three, given word by word.
LEMMA Joined ==
  ASSUME NEW S, NEW w \in Seq(S), NEW x \in Seq(S), NEW y \in Seq(S), NEW t \in Seq(S),
         Len(t) = Len(w) + Len(x) + Len(y),
         \A i \in 1 .. Len(w) : t[i] = w[i],
         \A i \in 1 .. Len(x) : t[Len(w) + i] = x[i],
         \A i \in 1 .. Len(y) : t[Len(w) + Len(x) + i] = y[i]
  PROVE  w \o x \o y = t
<1>1. /\ w \o x \in Seq(S) /\ Len(w \o x) = Len(w) + Len(x)
      /\ \A i \in 1 .. Len(w) + Len(x) : (w \o x)[i] = IF i <= Len(w) THEN w[i] ELSE x[i - Len(w)]
  BY ConcatProperties
<1>2. PICK u : u = w \o x  OBVIOUS
<1>3. /\ u \o y \in Seq(S) /\ Len(u \o y) = Len(u) + Len(y)
      /\ \A i \in 1 .. Len(u) + Len(y) : (u \o y)[i] = IF i <= Len(u) THEN u[i] ELSE y[i - Len(u)]
  BY <1>1, <1>2, ConcatProperties
<1>4. Len(w) \in Nat /\ Len(x) \in Nat /\ Len(y) \in Nat OBVIOUS
<1>5. \A i \in 1 .. Len(u \o y) : (u \o y)[i] = t[i]
  <2> TAKE i \in 1 .. Len(u \o y)
  <2>1. CASE i \in 1 .. Len(w)  BY <1>1, <1>2, <1>3, <1>4, <2>1
  <2>2. CASE i - Len(w) \in 1 .. Len(x) 
    <3>1. t[Len(w) + (i - Len(w))] = x[i - Len(w)] BY <2>2
    <3>2. Len(w) + (i - Len(w)) = i BY <1>4, <2>2
    <3> QED  BY <1>1, <1>2, <1>3, <1>4, <2>2, <3>1, <3>2
  <2>3. CASE i - Len(u) \in 1 .. Len(y)
    <3>1. t[Len(w) + Len(x) + (i - Len(u))] = y[i - Len(u)] BY <2>3
    <3>2. Len(w) + Len(x) + (i - Len(u)) = i BY <1>1, <1>2, <1>4, <2>3
    <3> QED  BY <1>1, <1>2, <1>3, <1>4, <2>3, <3>1, <3>2
  <2> QED BY <1>1, <1>2, <1>3, <1>4, <2>1, <2>2, <2>3
<1> QED  BY <1>1, <1>2, <1>3, <1>5, SeqEqual

\* 4 words from word 3 on.
LEMMA Rest4_3 ==
  ASSUME NEW a, NEW b, NEW c, NEW d
  PROVE  SubSeq(<<a, b, c, d>>, 3, 4)
         = <<c, d>>
<1>1. PICK S, w, t : /\ S = {a, b, c, d}
                     /\ w = <<a, b, c, d>> /\ t = <<c, d>>
  OBVIOUS
<1>2. w \in Seq(S) /\ t \in Seq(S) /\ Len(w) = 4 /\ Len(t) = 2  BY <1>1
<1>3. \A i \in 1 .. 2 : t[i] = w[i + 3 - 1]  BY <1>1
<1>4. 3 \in 1 .. Len(w)  BY <1>2
<1>5. SubSeq(w, 3, Len(w)) = t  BY <1>2, <1>3, <1>4, Rest
<1> QED  BY <1>1, <1>2, <1>5

\* 6 words from word 3 on.
LEMMA Rest6_3 ==
  ASSUME NEW a, NEW b, NEW c, NEW d, NEW e, NEW f
  PROVE  SubSeq(<<a, b, c, d, e, f>>, 3, 6)
         = <<c, d, e, f>>
<1>1. PICK S, w, t : /\ S = {a, b, c, d, e, f}
                     /\ w = <<a, b, c, d, e, f>> /\ t = <<c, d, e, f>>
  OBVIOUS
<1>2. w \in Seq(S) /\ t \in Seq(S) /\ Len(w) = 6 /\ Len(t) = 4  BY <1>1
<1>3. \A i \in 1 .. 4 : t[i] = w[i + 3 - 1]  BY <1>1
<1>4. 3 \in 1 .. Len(w)  BY <1>2
<1>5. SubSeq(w, 3, Len(w)) = t  BY <1>2, <1>3, <1>4, Rest
<1> QED  BY <1>1, <1>2, <1>5

\* 8 words from word 3 on.
LEMMA Rest8_3 ==
  ASSUME NEW a, NEW b, NEW c, NEW d, NEW e, NEW f, NEW g, NEW h
  PROVE  SubSeq(<<a, b, c, d, e, f, g, h>>, 3, 8)
         = <<c, d, e, f, g, h>>
<1>1. PICK S, w, t : /\ S = {a, b, c, d, e, f, g, h}
                     /\ w = <<a, b, c, d, e, f, g, h>> /\ t = <<c, d, e, f, g, h>>
  OBVIOUS
<1>2. w \in Seq(S) /\ t \in Seq(S) /\ Len(w) = 8 /\ Len(t) = 6  BY <1>1
<1>3. \A i \in 1 .. 6 : t[i] = w[i + 3 - 1]  BY <1>1
<1>4. 3 \in 1 .. Len(w)  BY <1>2
<1>5. SubSeq(w, 3, Len(w)) = t  BY <1>2, <1>3, <1>4, Rest
<1> QED  BY <1>1, <1>2, <1>5

\* 10 words from word 3 on.
LEMMA Rest10_3 ==
  ASSUME NEW a, NEW b, NEW c, NEW d, NEW e, NEW f, NEW g, NEW h, NEW j, NEW k
  PROVE  SubSeq(<<a, b, c, d, e, f, g, h, j, k>>, 3, 10)
         = <<c, d, e, f, g, h, j, k>>
<1>1. PICK S, w, t : /\ S = {a, b, c, d, e, f, g, h, j, k}
                     /\ w = <<a, b, c, d, e, f, g, h, j, k>> /\ t = <<c, d, e, f, g, h, j, k>>
  OBVIOUS
<1>2. w \in Seq(S) /\ t \in Seq(S) /\ Len(w) = 10 /\ Len(t) = 8  BY <1>1
<1>3. \A i \in 1 .. 8 : t[i] = w[i + 3 - 1]  BY <1>1
<1>4. 3 \in 1 .. Len(w)  BY <1>2
<1>5. SubSeq(w, 3, Len(w)) = t  BY <1>2, <1>3, <1>4, Rest
<1> QED  BY <1>1, <1>2, <1>5

\* 13 words from word 3 on.
LEMMA Rest13_3 ==
  ASSUME NEW a, NEW b, NEW c, NEW d, NEW e, NEW f, NEW g, NEW h, NEW j, NEW k, NEW m, NEW p, NEW q
  PROVE  SubSeq(<<a, b, c, d, e, f, g, h, j, k, m, p, q>>, 3, 13)
         = <<c, d, e, f, g, h, j, k, m, p, q>>
<1>1. PICK S, w, t : /\ S = {a, b, c, d, e, f, g, h, j, k, m, p, q}
                     /\ w = <<a, b, c, d, e, f, g, h, j, k, m, p, q>> /\ t = <<c, d, e, f, g, h, j, k, m, p, q>>
  OBVIOUS
<1>2. w \in Seq(S) /\ t \in Seq(S) /\ Len(w) = 13 /\ Len(t) = 11  BY <1>1
<1>3. \A i \in 1 .. 11 : t[i] = w[i + 3 - 1]  BY <1>1
<1>4. 3 \in 1 .. Len(w)  BY <1>2
<1>5. SubSeq(w, 3, Len(w)) = t  BY <1>2, <1>3, <1>4, Rest
<1> QED  BY <1>1, <1>2, <1>5

\* 11 words from word 2 on.
LEMMA Rest11_2 ==
  ASSUME NEW a, NEW b, NEW c, NEW d, NEW e, NEW f, NEW g, NEW h, NEW j, NEW k, NEW m
  PROVE  SubSeq(<<a, b, c, d, e, f, g, h, j, k, m>>, 2, 11)
         = <<b, c, d, e, f, g, h, j, k, m>>
<1>1. PICK S, w, t : /\ S = {a, b, c, d, e, f, g, h, j, k, m}
                     /\ w = <<a, b, c, d, e, f, g, h, j, k, m>> /\ t = <<b, c, d, e, f, g, h, j, k, m>>
  OBVIOUS
<1>2. w \in Seq(S) /\ t \in Seq(S) /\ Len(w) = 11 /\ Len(t) = 10  BY <1>1
<1>3. \A i \in 1 .. 10 : t[i] = w[i + 2 - 1]  BY <1>1
<1>4. 2 \in 1 .. Len(w)  BY <1>2
<1>5. SubSeq(w, 2, Len(w)) = t  BY <1>2, <1>3, <1>4, Rest
<1> QED  BY <1>1, <1>2, <1>5

\* 0 words, then 1, then 1.
LEMMA Join0_1_1 ==
  ASSUME NEW a, NEW b
  PROVE  << >> \o <<a>> \o <<b>>
         = <<a, b>>
<1>1. PICK S, w, x, y, t :
        /\ S = {a, b} /\ w = << >>
        /\ x = <<a>> /\ y = <<b>> /\ t = <<a, b>>
  OBVIOUS
<1>2. Len(w) = 0 /\ Len(x) = 1 /\ Len(y) = 1 /\ Len(t) = 2  BY <1>1
<1>3. \A i \in 1 .. 0 : t[i] = w[i]  BY <1>1
<1>4. \A i \in 1 .. 1 : t[0 + i] = x[i]  BY <1>1
<1>5. \A i \in 1 .. 1 : t[0 + 1 + i] = y[i]  BY <1>1
<1>6. /\ \A i \in 1 .. Len(w) : t[i] = w[i]
      /\ \A i \in 1 .. Len(x) : t[Len(w) + i] = x[i]
      /\ \A i \in 1 .. Len(y) : t[Len(w) + Len(x) + i] = y[i]
      /\ Len(t) = Len(w) + Len(x) + Len(y)
  <2>1. \A i \in 1 .. Len(w) : t[i] = w[i]  BY <1>2, <1>3
  <2>2. \A i \in 1 .. Len(x) : t[Len(w) + i] = x[i]  BY <1>2, <1>4
  <2>3. \A i \in 1 .. Len(y) : t[Len(w) + Len(x) + i] = y[i]  BY <1>2, <1>5
  <2>4. Len(t) = Len(w) + Len(x) + Len(y)  BY <1>2
  <2> QED  BY <2>1, <2>2, <2>3, <2>4
<1>7. w \in Seq(S) /\ x \in Seq(S) /\ y \in Seq(S) /\ t \in Seq(S)  BY <1>1
<1>8. w \o x \o y = t  BY <1>6, <1>7, Joined
<1> QED  BY <1>1, <1>8

\* 2 words, then 1, then 1.
LEMMA Join2_1_1 ==
  ASSUME NEW a, NEW b, NEW c, NEW d
  PROVE  <<a, b>> \o <<c>> \o <<d>>
         = <<a, b, c, d>>
<1>1. PICK S, w, x, y, t :
        /\ S = {a, b, c, d} /\ w = <<a, b>>
        /\ x = <<c>> /\ y = <<d>> /\ t = <<a, b, c, d>>
  OBVIOUS
<1>2. Len(w) = 2 /\ Len(x) = 1 /\ Len(y) = 1 /\ Len(t) = 4  BY <1>1
<1>3. \A i \in 1 .. 2 : t[i] = w[i]  BY <1>1
<1>4. \A i \in 1 .. 1 : t[2 + i] = x[i]  BY <1>1
<1>5. \A i \in 1 .. 1 : t[2 + 1 + i] = y[i]  BY <1>1
<1>6. /\ \A i \in 1 .. Len(w) : t[i] = w[i]
      /\ \A i \in 1 .. Len(x) : t[Len(w) + i] = x[i]
      /\ \A i \in 1 .. Len(y) : t[Len(w) + Len(x) + i] = y[i]
      /\ Len(t) = Len(w) + Len(x) + Len(y)
  <2>1. \A i \in 1 .. Len(w) : t[i] = w[i]  BY <1>2, <1>3
  <2>2. \A i \in 1 .. Len(x) : t[Len(w) + i] = x[i]  BY <1>2, <1>4
  <2>3. \A i \in 1 .. Len(y) : t[Len(w) + Len(x) + i] = y[i]  BY <1>2, <1>5
  <2>4. Len(t) = Len(w) + Len(x) + Len(y)  BY <1>2
  <2> QED  BY <2>1, <2>2, <2>3, <2>4
<1>7. w \in Seq(S) /\ x \in Seq(S) /\ y \in Seq(S) /\ t \in Seq(S)  BY <1>1
<1>8. w \o x \o y = t  BY <1>6, <1>7, Joined
<1> QED  BY <1>1, <1>8

\* 2 words, then 0, then 1.
LEMMA Join2_0_1 ==
  ASSUME NEW a, NEW b, NEW c
  PROVE  <<a, b>> \o << >> \o <<c>>
         = <<a, b, c>>
<1>1. PICK S, w, x, y, t :
        /\ S = {a, b, c} /\ w = <<a, b>>
        /\ x = << >> /\ y = <<c>> /\ t = <<a, b, c>>
  OBVIOUS
<1>2. Len(w) = 2 /\ Len(x) = 0 /\ Len(y) = 1 /\ Len(t) = 3  BY <1>1
<1>3. \A i \in 1 .. 2 : t[i] = w[i]  BY <1>1
<1>4. \A i \in 1 .. 0 : t[2 + i] = x[i]  BY <1>1
<1>5. \A i \in 1 .. 1 : t[2 + 0 + i] = y[i]  BY <1>1
<1>6. /\ \A i \in 1 .. Len(w) : t[i] = w[i]
      /\ \A i \in 1 .. Len(x) : t[Len(w) + i] = x[i]
      /\ \A i \in 1 .. Len(y) : t[Len(w) + Len(x) + i] = y[i]
      /\ Len(t) = Len(w) + Len(x) + Len(y)
  <2>1. \A i \in 1 .. Len(w) : t[i] = w[i]  BY <1>2, <1>3
  <2>2. \A i \in 1 .. Len(x) : t[Len(w) + i] = x[i]  BY <1>2, <1>4
  <2>3. \A i \in 1 .. Len(y) : t[Len(w) + Len(x) + i] = y[i]  BY <1>2, <1>5
  <2>4. Len(t) = Len(w) + Len(x) + Len(y)  BY <1>2
  <2> QED  BY <2>1, <2>2, <2>3, <2>4
<1>7. w \in Seq(S) /\ x \in Seq(S) /\ y \in Seq(S) /\ t \in Seq(S)  BY <1>1
<1>8. w \o x \o y = t  BY <1>6, <1>7, Joined
<1> QED  BY <1>1, <1>8

\* 3 words, then 1, then 1.
LEMMA Join3_1_1 ==
  ASSUME NEW a, NEW b, NEW c, NEW d, NEW e
  PROVE  <<a, b, c>> \o <<d>> \o <<e>>
         = <<a, b, c, d, e>>
<1>1. PICK S, w, x, y, t :
        /\ S = {a, b, c, d, e} /\ w = <<a, b, c>>
        /\ x = <<d>> /\ y = <<e>> /\ t = <<a, b, c, d, e>>
  OBVIOUS
<1>2. Len(w) = 3 /\ Len(x) = 1 /\ Len(y) = 1 /\ Len(t) = 5  BY <1>1
<1>3. \A i \in 1 .. 3 : t[i] = w[i]  BY <1>1
<1>4. \A i \in 1 .. 1 : t[3 + i] = x[i]  BY <1>1
<1>5. \A i \in 1 .. 1 : t[3 + 1 + i] = y[i]  BY <1>1
<1>6. /\ \A i \in 1 .. Len(w) : t[i] = w[i]
      /\ \A i \in 1 .. Len(x) : t[Len(w) + i] = x[i]
      /\ \A i \in 1 .. Len(y) : t[Len(w) + Len(x) + i] = y[i]
      /\ Len(t) = Len(w) + Len(x) + Len(y)
  <2>1. \A i \in 1 .. Len(w) : t[i] = w[i]  BY <1>2, <1>3
  <2>2. \A i \in 1 .. Len(x) : t[Len(w) + i] = x[i]  BY <1>2, <1>4
  <2>3. \A i \in 1 .. Len(y) : t[Len(w) + Len(x) + i] = y[i]  BY <1>2, <1>5
  <2>4. Len(t) = Len(w) + Len(x) + Len(y)  BY <1>2
  <2> QED  BY <2>1, <2>2, <2>3, <2>4
<1>7. w \in Seq(S) /\ x \in Seq(S) /\ y \in Seq(S) /\ t \in Seq(S)  BY <1>1
<1>8. w \o x \o y = t  BY <1>6, <1>7, Joined
<1> QED  BY <1>1, <1>8

\* 4 words, then 1, then 1.
LEMMA Join4_1_1 ==
  ASSUME NEW a, NEW b, NEW c, NEW d, NEW e, NEW f
  PROVE  <<a, b, c, d>> \o <<e>> \o <<f>>
         = <<a, b, c, d, e, f>>
<1>1. PICK S, w, x, y, t :
        /\ S = {a, b, c, d, e, f} /\ w = <<a, b, c, d>>
        /\ x = <<e>> /\ y = <<f>> /\ t = <<a, b, c, d, e, f>>
  OBVIOUS
<1>2. Len(w) = 4 /\ Len(x) = 1 /\ Len(y) = 1 /\ Len(t) = 6  BY <1>1
<1>3. \A i \in 1 .. 4 : t[i] = w[i]  BY <1>1
<1>4. \A i \in 1 .. 1 : t[4 + i] = x[i]  BY <1>1
<1>5. \A i \in 1 .. 1 : t[4 + 1 + i] = y[i]  BY <1>1
<1>6. /\ \A i \in 1 .. Len(w) : t[i] = w[i]
      /\ \A i \in 1 .. Len(x) : t[Len(w) + i] = x[i]
      /\ \A i \in 1 .. Len(y) : t[Len(w) + Len(x) + i] = y[i]
      /\ Len(t) = Len(w) + Len(x) + Len(y)
  <2>1. \A i \in 1 .. Len(w) : t[i] = w[i]  BY <1>2, <1>3
  <2>2. \A i \in 1 .. Len(x) : t[Len(w) + i] = x[i]  BY <1>2, <1>4
  <2>3. \A i \in 1 .. Len(y) : t[Len(w) + Len(x) + i] = y[i]  BY <1>2, <1>5
  <2>4. Len(t) = Len(w) + Len(x) + Len(y)  BY <1>2
  <2> QED  BY <2>1, <2>2, <2>3, <2>4
<1>7. w \in Seq(S) /\ x \in Seq(S) /\ y \in Seq(S) /\ t \in Seq(S)  BY <1>1
<1>8. w \o x \o y = t  BY <1>6, <1>7, Joined
<1> QED  BY <1>1, <1>8

\* 5 words, then 2, then 0.
LEMMA Join5_2_0 ==
  ASSUME NEW a, NEW b, NEW c, NEW d, NEW e, NEW f, NEW g
  PROVE  <<a, b, c, d, e>> \o <<f, g>> \o << >>
         = <<a, b, c, d, e, f, g>>
<1>1. PICK S, w, x, y, t :
        /\ S = {a, b, c, d, e, f, g} /\ w = <<a, b, c, d, e>>
        /\ x = <<f, g>> /\ y = << >> /\ t = <<a, b, c, d, e, f, g>>
  OBVIOUS
<1>2. Len(w) = 5 /\ Len(x) = 2 /\ Len(y) = 0 /\ Len(t) = 7  BY <1>1
<1>3. \A i \in 1 .. 5 : t[i] = w[i]  BY <1>1
<1>4. \A i \in 1 .. 2 : t[5 + i] = x[i]  BY <1>1
<1>5. \A i \in 1 .. 0 : t[5 + 2 + i] = y[i]  BY <1>1
<1>6. /\ \A i \in 1 .. Len(w) : t[i] = w[i]
      /\ \A i \in 1 .. Len(x) : t[Len(w) + i] = x[i]
      /\ \A i \in 1 .. Len(y) : t[Len(w) + Len(x) + i] = y[i]
      /\ Len(t) = Len(w) + Len(x) + Len(y)
  <2>1. \A i \in 1 .. Len(w) : t[i] = w[i]  BY <1>2, <1>3
  <2>2. \A i \in 1 .. Len(x) : t[Len(w) + i] = x[i]  BY <1>2, <1>4
  <2>3. \A i \in 1 .. Len(y) : t[Len(w) + Len(x) + i] = y[i]  BY <1>2, <1>5
  <2>4. Len(t) = Len(w) + Len(x) + Len(y)  BY <1>2
  <2> QED  BY <2>1, <2>2, <2>3, <2>4
<1>7. w \in Seq(S) /\ x \in Seq(S) /\ y \in Seq(S) /\ t \in Seq(S)  BY <1>1
<1>8. w \o x \o y = t  BY <1>6, <1>7, Joined
<1> QED  BY <1>1, <1>8

\* 6 words, then 2, then 0.
LEMMA Join6_2_0 ==
  ASSUME NEW a, NEW b, NEW c, NEW d, NEW e, NEW f, NEW g, NEW h
  PROVE  <<a, b, c, d, e, f>> \o <<g, h>> \o << >>
         = <<a, b, c, d, e, f, g, h>>
<1>1. PICK S, w, x, y, t :
        /\ S = {a, b, c, d, e, f, g, h} /\ w = <<a, b, c, d, e, f>>
        /\ x = <<g, h>> /\ y = << >> /\ t = <<a, b, c, d, e, f, g, h>>
  OBVIOUS
<1>2. Len(w) = 6 /\ Len(x) = 2 /\ Len(y) = 0 /\ Len(t) = 8  BY <1>1
<1>3. \A i \in 1 .. 6 : t[i] = w[i]  BY <1>1
<1>4. \A i \in 1 .. 2 : t[6 + i] = x[i]  BY <1>1
<1>5. \A i \in 1 .. 0 : t[6 + 2 + i] = y[i]  BY <1>1
<1>6. /\ \A i \in 1 .. Len(w) : t[i] = w[i]
      /\ \A i \in 1 .. Len(x) : t[Len(w) + i] = x[i]
      /\ \A i \in 1 .. Len(y) : t[Len(w) + Len(x) + i] = y[i]
      /\ Len(t) = Len(w) + Len(x) + Len(y)
  <2>1. \A i \in 1 .. Len(w) : t[i] = w[i]  BY <1>2, <1>3
  <2>2. \A i \in 1 .. Len(x) : t[Len(w) + i] = x[i]  BY <1>2, <1>4
  <2>3. \A i \in 1 .. Len(y) : t[Len(w) + Len(x) + i] = y[i]  BY <1>2, <1>5
  <2>4. Len(t) = Len(w) + Len(x) + Len(y)  BY <1>2
  <2> QED  BY <2>1, <2>2, <2>3, <2>4
<1>7. w \in Seq(S) /\ x \in Seq(S) /\ y \in Seq(S) /\ t \in Seq(S)  BY <1>1
<1>8. w \o x \o y = t  BY <1>6, <1>7, Joined
<1> QED  BY <1>1, <1>8

\* 7 words, then 1, then 1.
LEMMA Join7_1_1 ==
  ASSUME NEW a, NEW b, NEW c, NEW d, NEW e, NEW f, NEW g, NEW h, NEW j
  PROVE  <<a, b, c, d, e, f, g>> \o <<h>> \o <<j>>
         = <<a, b, c, d, e, f, g, h, j>>
<1>1. PICK S, w, x, y, t :
        /\ S = {a, b, c, d, e, f, g, h, j} /\ w = <<a, b, c, d, e, f, g>>
        /\ x = <<h>> /\ y = <<j>> /\ t = <<a, b, c, d, e, f, g, h, j>>
  OBVIOUS
<1>2. Len(w) = 7 /\ Len(x) = 1 /\ Len(y) = 1 /\ Len(t) = 9  BY <1>1
<1>3. \A i \in 1 .. 7 : t[i] = w[i]  BY <1>1
<1>4. \A i \in 1 .. 1 : t[7 + i] = x[i]  BY <1>1
<1>5. \A i \in 1 .. 1 : t[7 + 1 + i] = y[i]  BY <1>1
<1>6. /\ \A i \in 1 .. Len(w) : t[i] = w[i]
      /\ \A i \in 1 .. Len(x) : t[Len(w) + i] = x[i]
      /\ \A i \in 1 .. Len(y) : t[Len(w) + Len(x) + i] = y[i]
      /\ Len(t) = Len(w) + Len(x) + Len(y)
  <2>1. \A i \in 1 .. Len(w) : t[i] = w[i]  BY <1>2, <1>3
  <2>2. \A i \in 1 .. Len(x) : t[Len(w) + i] = x[i]  BY <1>2, <1>4
  <2>3. \A i \in 1 .. Len(y) : t[Len(w) + Len(x) + i] = y[i]  BY <1>2, <1>5
  <2>4. Len(t) = Len(w) + Len(x) + Len(y)  BY <1>2
  <2> QED  BY <2>1, <2>2, <2>3, <2>4
<1>7. w \in Seq(S) /\ x \in Seq(S) /\ y \in Seq(S) /\ t \in Seq(S)  BY <1>1
<1>8. w \o x \o y = t  BY <1>6, <1>7, Joined
<1> QED  BY <1>1, <1>8

\* 9 words, then 2, then 0.
LEMMA Join9_2_0 ==
  ASSUME NEW a, NEW b, NEW c, NEW d, NEW e, NEW f, NEW g, NEW h, NEW j, NEW k, NEW m
  PROVE  <<a, b, c, d, e, f, g, h, j>> \o <<k, m>> \o << >>
         = <<a, b, c, d, e, f, g, h, j, k, m>>
<1>1. PICK S, w, x, y, t :
        /\ S = {a, b, c, d, e, f, g, h, j, k, m} /\ w = <<a, b, c, d, e, f, g, h, j>>
        /\ x = <<k, m>> /\ y = << >> /\ t = <<a, b, c, d, e, f, g, h, j, k, m>>
  OBVIOUS
<1>2. Len(w) = 9 /\ Len(x) = 2 /\ Len(y) = 0 /\ Len(t) = 11  BY <1>1
<1>3. \A i \in 1 .. 9 : t[i] = w[i]  BY <1>1
<1>4. \A i \in 1 .. 2 : t[9 + i] = x[i]  BY <1>1
<1>5. \A i \in 1 .. 0 : t[9 + 2 + i] = y[i]  BY <1>1
<1>6. /\ \A i \in 1 .. Len(w) : t[i] = w[i]
      /\ \A i \in 1 .. Len(x) : t[Len(w) + i] = x[i]
      /\ \A i \in 1 .. Len(y) : t[Len(w) + Len(x) + i] = y[i]
      /\ Len(t) = Len(w) + Len(x) + Len(y)
  <2>1. \A i \in 1 .. Len(w) : t[i] = w[i]  BY <1>2, <1>3
  <2>2. \A i \in 1 .. Len(x) : t[Len(w) + i] = x[i]  BY <1>2, <1>4
  <2>3. \A i \in 1 .. Len(y) : t[Len(w) + Len(x) + i] = y[i]  BY <1>2, <1>5
  <2>4. Len(t) = Len(w) + Len(x) + Len(y)  BY <1>2
  <2> QED  BY <2>1, <2>2, <2>3, <2>4
<1>7. w \in Seq(S) /\ x \in Seq(S) /\ y \in Seq(S) /\ t \in Seq(S)  BY <1>1
<1>8. w \o x \o y = t  BY <1>6, <1>7, Joined
<1> QED  BY <1>1, <1>8

\* 2 words, then 2, then 0.
LEMMA Join2_2_0 ==
  ASSUME NEW a, NEW b, NEW c, NEW d
  PROVE  <<a, b>> \o <<c, d>> \o << >>
         = <<a, b, c, d>>
<1>1. PICK S, w, x, y, t :
        /\ S = {a, b, c, d} /\ w = <<a, b>>
        /\ x = <<c, d>> /\ y = << >> /\ t = <<a, b, c, d>>
  OBVIOUS
<1>2. Len(w) = 2 /\ Len(x) = 2 /\ Len(y) = 0 /\ Len(t) = 4  BY <1>1
<1>3. \A i \in 1 .. 2 : t[i] = w[i]  BY <1>1
<1>4. \A i \in 1 .. 2 : t[2 + i] = x[i]  BY <1>1
<1>5. \A i \in 1 .. 0 : t[2 + 2 + i] = y[i]  BY <1>1
<1>6. /\ \A i \in 1 .. Len(w) : t[i] = w[i]
      /\ \A i \in 1 .. Len(x) : t[Len(w) + i] = x[i]
      /\ \A i \in 1 .. Len(y) : t[Len(w) + Len(x) + i] = y[i]
      /\ Len(t) = Len(w) + Len(x) + Len(y)
  <2>1. \A i \in 1 .. Len(w) : t[i] = w[i]  BY <1>2, <1>3
  <2>2. \A i \in 1 .. Len(x) : t[Len(w) + i] = x[i]  BY <1>2, <1>4
  <2>3. \A i \in 1 .. Len(y) : t[Len(w) + Len(x) + i] = y[i]  BY <1>2, <1>5
  <2>4. Len(t) = Len(w) + Len(x) + Len(y)  BY <1>2
  <2> QED  BY <2>1, <2>2, <2>3, <2>4
<1>7. w \in Seq(S) /\ x \in Seq(S) /\ y \in Seq(S) /\ t \in Seq(S)  BY <1>1
<1>8. w \o x \o y = t  BY <1>6, <1>7, Joined
<1> QED  BY <1>1, <1>8

\* 4 words, then 2, then 0.
LEMMA Join4_2_0 ==
  ASSUME NEW a, NEW b, NEW c, NEW d, NEW e, NEW f
  PROVE  <<a, b, c, d>> \o <<e, f>> \o << >>
         = <<a, b, c, d, e, f>>
<1>1. PICK S, w, x, y, t :
        /\ S = {a, b, c, d, e, f} /\ w = <<a, b, c, d>>
        /\ x = <<e, f>> /\ y = << >> /\ t = <<a, b, c, d, e, f>>
  OBVIOUS
<1>2. Len(w) = 4 /\ Len(x) = 2 /\ Len(y) = 0 /\ Len(t) = 6  BY <1>1
<1>3. \A i \in 1 .. 4 : t[i] = w[i]  BY <1>1
<1>4. \A i \in 1 .. 2 : t[4 + i] = x[i]  BY <1>1
<1>5. \A i \in 1 .. 0 : t[4 + 2 + i] = y[i]  BY <1>1
<1>6. /\ \A i \in 1 .. Len(w) : t[i] = w[i]
      /\ \A i \in 1 .. Len(x) : t[Len(w) + i] = x[i]
      /\ \A i \in 1 .. Len(y) : t[Len(w) + Len(x) + i] = y[i]
      /\ Len(t) = Len(w) + Len(x) + Len(y)
  <2>1. \A i \in 1 .. Len(w) : t[i] = w[i]  BY <1>2, <1>3
  <2>2. \A i \in 1 .. Len(x) : t[Len(w) + i] = x[i]  BY <1>2, <1>4
  <2>3. \A i \in 1 .. Len(y) : t[Len(w) + Len(x) + i] = y[i]  BY <1>2, <1>5
  <2>4. Len(t) = Len(w) + Len(x) + Len(y)  BY <1>2
  <2> QED  BY <2>1, <2>2, <2>3, <2>4
<1>7. w \in Seq(S) /\ x \in Seq(S) /\ y \in Seq(S) /\ t \in Seq(S)  BY <1>1
<1>8. w \o x \o y = t  BY <1>6, <1>7, Joined
<1> QED  BY <1>1, <1>8

\* 8 words, then 2, then 0.
LEMMA Join8_2_0 ==
  ASSUME NEW a, NEW b, NEW c, NEW d, NEW e, NEW f, NEW g, NEW h, NEW j, NEW k
  PROVE  <<a, b, c, d, e, f, g, h>> \o <<j, k>> \o << >>
         = <<a, b, c, d, e, f, g, h, j, k>>
<1>1. PICK S, w, x, y, t :
        /\ S = {a, b, c, d, e, f, g, h, j, k} /\ w = <<a, b, c, d, e, f, g, h>>
        /\ x = <<j, k>> /\ y = << >> /\ t = <<a, b, c, d, e, f, g, h, j, k>>
  OBVIOUS
<1>2. Len(w) = 8 /\ Len(x) = 2 /\ Len(y) = 0 /\ Len(t) = 10  BY <1>1
<1>3. \A i \in 1 .. 8 : t[i] = w[i]  BY <1>1
<1>4. \A i \in 1 .. 2 : t[8 + i] = x[i]  BY <1>1
<1>5. \A i \in 1 .. 0 : t[8 + 2 + i] = y[i]  BY <1>1
<1>6. /\ \A i \in 1 .. Len(w) : t[i] = w[i]
      /\ \A i \in 1 .. Len(x) : t[Len(w) + i] = x[i]
      /\ \A i \in 1 .. Len(y) : t[Len(w) + Len(x) + i] = y[i]
      /\ Len(t) = Len(w) + Len(x) + Len(y)
  <2>1. \A i \in 1 .. Len(w) : t[i] = w[i]  BY <1>2, <1>3
  <2>2. \A i \in 1 .. Len(x) : t[Len(w) + i] = x[i]  BY <1>2, <1>4
  <2>3. \A i \in 1 .. Len(y) : t[Len(w) + Len(x) + i] = y[i]  BY <1>2, <1>5
  <2>4. Len(t) = Len(w) + Len(x) + Len(y)  BY <1>2
  <2> QED  BY <2>1, <2>2, <2>3, <2>4
<1>7. w \in Seq(S) /\ x \in Seq(S) /\ y \in Seq(S) /\ t \in Seq(S)  BY <1>1
<1>8. w \o x \o y = t  BY <1>6, <1>7, Joined
<1> QED  BY <1>1, <1>8

\* 11 words, then 2, then 0.
LEMMA Join11_2_0 ==
  ASSUME NEW a, NEW b, NEW c, NEW d, NEW e, NEW f, NEW g, NEW h, NEW j, NEW k, NEW m, NEW p, NEW q
  PROVE  <<a, b, c, d, e, f, g, h, j, k, m>> \o <<p, q>> \o << >>
         = <<a, b, c, d, e, f, g, h, j, k, m, p, q>>
<1>1. PICK S, w, x, y, t :
        /\ S = {a, b, c, d, e, f, g, h, j, k, m, p, q} /\ w = <<a, b, c, d, e, f, g, h, j, k, m>>
        /\ x = <<p, q>> /\ y = << >> /\ t = <<a, b, c, d, e, f, g, h, j, k, m, p, q>>
  OBVIOUS
<1>2. Len(w) = 11 /\ Len(x) = 2 /\ Len(y) = 0 /\ Len(t) = 13  BY <1>1
<1>3. \A i \in 1 .. 11 : t[i] = w[i]  BY <1>1
<1>4. \A i \in 1 .. 2 : t[11 + i] = x[i]  BY <1>1
<1>5. \A i \in 1 .. 0 : t[11 + 2 + i] = y[i]  BY <1>1
<1>6. /\ \A i \in 1 .. Len(w) : t[i] = w[i]
      /\ \A i \in 1 .. Len(x) : t[Len(w) + i] = x[i]
      /\ \A i \in 1 .. Len(y) : t[Len(w) + Len(x) + i] = y[i]
      /\ Len(t) = Len(w) + Len(x) + Len(y)
  <2>1. \A i \in 1 .. Len(w) : t[i] = w[i]  BY <1>2, <1>3
  <2>2. \A i \in 1 .. Len(x) : t[Len(w) + i] = x[i]  BY <1>2, <1>4
  <2>3. \A i \in 1 .. Len(y) : t[Len(w) + Len(x) + i] = y[i]  BY <1>2, <1>5
  <2>4. Len(t) = Len(w) + Len(x) + Len(y)  BY <1>2
  <2> QED  BY <2>1, <2>2, <2>3, <2>4
<1>7. w \in Seq(S) /\ x \in Seq(S) /\ y \in Seq(S) /\ t \in Seq(S)  BY <1>1
<1>8. w \o x \o y = t  BY <1>6, <1>7, Joined
<1> QED  BY <1>1, <1>8

\* 2 words and two that end the log.
LEMMA Ends2 ==
  ASSUME NEW a, NEW b, NEW c, NEW d
  PROVE  <<a, b>> \o <<c, d>>
         = <<a, b, c, d>>
<1>1. PICK S, w, x : S = {a, b, c, d} /\ w = <<a, b>> /\ x = <<c, d>>  OBVIOUS
<1>2. w \in Seq(S) /\ x \in Seq(S)  BY <1>1
<1>3. w \o x \in Seq(S)  BY <1>2, ConcatProperties
<1>4. w \o x \o << >> = w \o x  BY <1>3, ConcatEmptySeq
<1>5. w \o x \o << >> = <<a, b, c, d>>  BY <1>1, Join2_2_0
<1> QED  BY <1>1, <1>4, <1>5

\* 4 words and two that end the log.
LEMMA Ends4 ==
  ASSUME NEW a, NEW b, NEW c, NEW d, NEW e, NEW f
  PROVE  <<a, b, c, d>> \o <<e, f>>
         = <<a, b, c, d, e, f>>
<1>1. PICK S, w, x : S = {a, b, c, d, e, f} /\ w = <<a, b, c, d>> /\ x = <<e, f>>  OBVIOUS
<1>2. w \in Seq(S) /\ x \in Seq(S)  BY <1>1
<1>3. w \o x \in Seq(S)  BY <1>2, ConcatProperties
<1>4. w \o x \o << >> = w \o x  BY <1>3, ConcatEmptySeq
<1>5. w \o x \o << >> = <<a, b, c, d, e, f>>  BY <1>1, Join4_2_0
<1> QED  BY <1>1, <1>4, <1>5

\* 8 words and two that end the log.
LEMMA Ends8 ==
  ASSUME NEW a, NEW b, NEW c, NEW d, NEW e, NEW f, NEW g, NEW h, NEW j, NEW k
  PROVE  <<a, b, c, d, e, f, g, h>> \o <<j, k>>
         = <<a, b, c, d, e, f, g, h, j, k>>
<1>1. PICK S, w, x : S = {a, b, c, d, e, f, g, h, j, k} /\ w = <<a, b, c, d, e, f, g, h>> /\ x = <<j, k>>  OBVIOUS
<1>2. w \in Seq(S) /\ x \in Seq(S)  BY <1>1
<1>3. w \o x \in Seq(S)  BY <1>2, ConcatProperties
<1>4. w \o x \o << >> = w \o x  BY <1>3, ConcatEmptySeq
<1>5. w \o x \o << >> = <<a, b, c, d, e, f, g, h, j, k>>  BY <1>1, Join8_2_0
<1> QED  BY <1>1, <1>4, <1>5

\* 11 words and two that end the log.
LEMMA Ends11 ==
  ASSUME NEW a, NEW b, NEW c, NEW d, NEW e, NEW f, NEW g, NEW h, NEW j, NEW k, NEW m, NEW p, NEW q
  PROVE  <<a, b, c, d, e, f, g, h, j, k, m>> \o <<p, q>>
         = <<a, b, c, d, e, f, g, h, j, k, m, p, q>>
<1>1. PICK S, w, x : S = {a, b, c, d, e, f, g, h, j, k, m, p, q} /\ w = <<a, b, c, d, e, f, g, h, j, k, m>> /\ x = <<p, q>>  OBVIOUS
<1>2. w \in Seq(S) /\ x \in Seq(S)  BY <1>1
<1>3. w \o x \in Seq(S)  BY <1>2, ConcatProperties
<1>4. w \o x \o << >> = w \o x  BY <1>3, ConcatEmptySeq
<1>5. w \o x \o << >> = <<a, b, c, d, e, f, g, h, j, k, m, p, q>>  BY <1>1, Join11_2_0
<1> QED  BY <1>1, <1>4, <1>5

-----------------------------------------------------------------------------
(* How objects come. *)

\* m2 has what m has, and searches that start in m end where they ended.
Grows(m, m2) ==
  /\ DOMAIN m \subseteq DOMAIN m2 /\ \A a \in DOMAIN m : m2[a] = m[a]
  /\ \A k \in Key : \A a \in Places(m) : Look(m2, k)[a] = Look(m, k)[a]

\* A search, step by step.
LEMMA HeapLook ==
  ASSUME NEW m, NEW n, HeapInv(m, n), NEW k \in Key
  PROVE  /\ Look(m, k)[0] = 0
         /\ \A a \in EntriesIn(m) :
              Look(m, k)[a] = IF m[a].data.key = k THEN a ELSE Look(m, k)[m[a].data.next]
         /\ \A a \in Places(m) : Look(m, k)[a] # 0 =>
              Look(m, k)[a] \in EntriesIn(m) /\ m[Look(m, k)[a]].data.key = k
<1>1. Walks(m, k, Look(m, k))  BY DEF HeapInv
<1>2. PICK f : f = Look(m, k)  OBVIOUS
<1>3. f = [a \in Places(m) |-> IF a = 0 THEN 0
                               ELSE IF m[a].data.key = k THEN a
                               ELSE f[m[a].data.next]]
  BY <1>1, <1>2 DEF Walks
<1>4. f[0] = 0  BY <1>3 DEF Places
<1>5. 0 \notin EntriesIn(m)  BY SizesAssumption DEF HeapInv, EntriesIn
<1>6. ASSUME NEW a \in EntriesIn(m)
      PROVE  f[a] = IF m[a].data.key = k THEN a ELSE f[m[a].data.next]
  <2>1. a \in Places(m) /\ a # 0  BY <1>5 DEF Places
  <2> QED  BY <1>3, <2>1
<1>7. \A a \in Places(m) : f[a] \in {0} \cup {e \in EntriesIn(m) : m[e].data.key = k}
  BY <1>2 DEF HeapInv
<1> QED  BY <1>2, <1>4, <1>6, <1>7

\* Entries have entries' data, and values Vals.
LEMMA HeapKinds ==
  ASSUME NEW m, NEW n, HeapInv(m, n)
  PROVE  /\ \A e \in EntriesIn(m) : /\ m[e].data \in Entry /\ m[e].data \notin Val
                                    /\ e \in Nat /\ e # 0 /\ e \in DOMAIN m
         /\ \A v \in ValuesIn(m) : m[v].data \in Val /\ v \in Nat /\ v # 0 /\ v \in DOMAIN m
         /\ \A a \in Places(m) : a \in Nat
         /\ n + 1 \notin DOMAIN m /\ n + 1 \in Nat /\ n + 1 # 0
<1>1. Buckets \in Nat /\ n \in Nat  BY SizesAssumption DEF HeapInv
<1>2. \A a \in DOMAIN m : a \in Nat /\ a # 0 /\ a <= n  BY <1>1 DEF HeapInv
<1>3. n + 1 \notin DOMAIN m  BY <1>1, <1>2
<1> QED  BY <1>1, <1>2, <1>3 DEF HeapInv, EntriesIn, ValuesIn, Places

\* Searches are determined by what they find step by step.
LEMMA LookIs ==
  ASSUME NEW m, NEW n, HeapInv(m, n), NEW k \in Key, NEW f, Walks(m, k, f)
  PROVE  f = Look(m, k)
BY DEF HeapInv

\* make_obj(val): a value at a new address.
LEMMA AddValue ==
  ASSUME NEW m, NEW n, HeapInv(m, n), NEW v \in Val, NEW x, NEW m2,
         m2 = Extend(m, n + 1, [data |-> v, sum |-> x])
  PROVE  /\ HeapInv(m2, n + 1) /\ Grows(m, m2)
         /\ Honest(m) /\ x = v => Honest(m2)
         /\ ValuesIn(m2) = ValuesIn(m) \cup {n + 1} /\ EntriesIn(m2) = EntriesIn(m)
         /\ m2[n + 1].data = v
<1>1. /\ DOMAIN m2 = DOMAIN m \cup {n + 1} /\ \A a \in DOMAIN m : m2[a] = m[a]
      /\ m2[n + 1] = [data |-> v, sum |-> x]
  BY HeapKinds DEF Extend
<1>2. m2[n + 1].data = v /\ m2[n + 1].sum = x  BY <1>1
<1>3. /\ ValuesIn(m2) = ValuesIn(m) \cup {n + 1} /\ EntriesIn(m2) = EntriesIn(m)
      /\ Places(m2) = Places(m)
  BY <1>1, <1>2, HeapKinds DEF ValuesIn, EntriesIn, Places
<1>4. \A a \in Places(m) : a # 0 => m2[a] = m[a]  BY <1>1 DEF Places, EntriesIn
<1>5. \A k, f : Walks(m2, k, f) <=> Walks(m, k, f)
  <2> TAKE k, f
  <2>1. [a \in Places(m2) |-> IF a = 0 THEN 0 ELSE IF m2[a].data.key = k THEN a
                              ELSE f[m2[a].data.next]]
        = [a \in Places(m) |-> IF a = 0 THEN 0 ELSE IF m[a].data.key = k THEN a
                               ELSE f[m[a].data.next]]
    BY <1>3, <1>4
  <2> QED  BY <2>1 DEF Walks
<1>6. ASSUME NEW k \in Key PROVE Look(m2, k) = Look(m, k) /\ Walks(m2, k, Look(m, k))
  <2>1. Walks(m2, k, Look(m, k))  BY <1>5 DEF HeapInv
  <2>2. Walks(m2, k, Look(m2, k))  BY <2>1 DEF Look
  <2>3. Walks(m, k, Look(m2, k))  BY <1>5, <2>2
  <2> QED  BY <2>1, <2>3 DEF HeapInv
<1>7. HeapInv(m2, n + 1)
  <2>1. n \in Nat /\ Buckets \in Nat /\ Buckets <= n  BY SizesAssumption DEF HeapInv
  <2>2. DOMAIN m2 \subseteq Buckets + 1 .. n + 1  BY <1>1, <2>1 DEF HeapInv
  <2>3. \A a \in DOMAIN m2 : m2[a].data \in Val \cup Entry
    BY <1>1, <1>2 DEF HeapInv
  <2>4. \A e \in EntriesIn(m2) : m2[e].data.next \in Places(m2) /\ m2[e].data.next < e
    BY <1>1, <1>3, HeapKinds DEF HeapInv
  <2>5. ASSUME NEW k \in Key
        PROVE  /\ Walks(m2, k, Look(m2, k)) /\ \A f : Walks(m2, k, f) => f = Look(m2, k)
               /\ \A a \in Places(m2) :
                    Look(m2, k)[a] \in {0} \cup {e \in EntriesIn(m2) : m2[e].data.key = k}
    <3>1. Walks(m2, k, Look(m2, k)) /\ \A f : Walks(m2, k, f) => f = Look(m2, k)
      BY <1>5, <1>6 DEF HeapInv
    <3>2. \A a \in Places(m) : Look(m, k)[a] # 0 =>
            Look(m, k)[a] \in EntriesIn(m) /\ m[Look(m, k)[a]].data.key = k
      BY HeapLook
    <3>3. \A e \in EntriesIn(m) : m2[e].data.key = m[e].data.key  BY <1>1, HeapKinds
    <3> QED  BY <1>3, <1>6, <3>1, <3>2, <3>3
  <2>6. n + 1 \in Nat /\ Buckets <= n + 1  BY <2>1
  <2> QED  BY <2>2, <2>3, <2>4, <2>5, <2>6 DEF HeapInv
<1>8. Grows(m, m2)  BY <1>1, <1>6 DEF Grows
<1>9. Honest(m) /\ x = v => Honest(m2)  BY <1>1, <1>2 DEF Honest
<1> QED  BY <1>2, <1>3, <1>7, <1>8, <1>9

\* make_obj(entry): an entry at a new address, before others or alone.
LEMMA AddEntry ==
  ASSUME NEW m, NEW n, HeapInv(m, n), NEW e \in Entry, e.next \in Places(m), NEW x,
         NEW m2, m2 = Extend(m, n + 1, [data |-> e, sum |-> x])
  PROVE  /\ HeapInv(m2, n + 1) /\ Grows(m, m2)
         /\ Honest(m) /\ x = e => Honest(m2)
         /\ ValuesIn(m2) = ValuesIn(m) /\ EntriesIn(m2) = EntriesIn(m) \cup {n + 1}
         /\ m2[n + 1].data = e
         /\ \A k \in Key : Look(m2, k)[n + 1] = IF e.key = k THEN n + 1 ELSE Look(m, k)[e.next]
<1>1. /\ DOMAIN m2 = DOMAIN m \cup {n + 1} /\ \A a \in DOMAIN m : m2[a] = m[a]
      /\ m2[n + 1] = [data |-> e, sum |-> x]
  BY HeapKinds DEF Extend
<1>2. m2[n + 1].data = e /\ m2[n + 1].sum = x /\ e \notin Val  BY <1>1, TypesAssumption
<1>3. /\ ValuesIn(m2) = ValuesIn(m) /\ EntriesIn(m2) = EntriesIn(m) \cup {n + 1}
      /\ Places(m2) = Places(m) \cup {n + 1} /\ n + 1 \notin Places(m)
  BY <1>1, <1>2, HeapKinds DEF ValuesIn, EntriesIn, Places
<1>4. \A a \in Places(m) : a # 0 => m2[a] = m[a] /\ m[a].data.next \in Places(m)
  BY <1>1 DEF Places, EntriesIn, HeapInv
<1>5. ASSUME NEW k \in Key
      PROVE  /\ Walks(m2, k, Look(m2, k))
             /\ \A f : Walks(m2, k, f) =>
                  f = [a \in Places(m2) |->
                         IF a = n + 1 THEN IF e.key = k THEN n + 1 ELSE Look(m, k)[e.next]
                         ELSE Look(m, k)[a]]
  <2>1. PICK L, N : L = Look(m, k) /\ N = n + 1  OBVIOUS
  <2>2. L = [a \in Places(m) |-> IF a = 0 THEN 0 ELSE IF m[a].data.key = k THEN a
                                 ELSE L[m[a].data.next]]
    BY <2>1 DEF HeapInv, Walks
  <2>3. N # 0 /\ 0 \in Places(m) /\ N \notin Places(m) /\ Places(m2) = Places(m) \cup {N}
        /\ m2[N].data = e
    BY <1>2, <1>3, <2>1, HeapKinds DEF Places
  <2>4. PICK F : F = [a \in Places(m2) |->
                        IF a = N THEN IF e.key = k THEN N ELSE L[e.next] ELSE L[a]]
    OBVIOUS
  <2>5. Walks(m2, k, F)
    <3>1. ASSUME NEW a \in Places(m2)
          PROVE  F[a] = IF a = 0 THEN 0 ELSE IF m2[a].data.key = k THEN a
                        ELSE F[m2[a].data.next]
      <4>1. CASE a = N
        <5>1. F[e.next] = L[e.next]  BY <2>3, <2>4
        <5> QED  BY <2>3, <2>4, <4>1, <5>1
      <4>2. CASE a = 0  BY <2>2, <2>3, <2>4, <4>2
      <4>3. CASE a # N /\ a # 0
        <5>1. a \in Places(m) /\ m2[a] = m[a] /\ m[a].data.next \in Places(m)
          BY <1>4, <2>3, <4>3
        <5>2. F[a] = L[a] /\ F[m[a].data.next] = L[m[a].data.next]  BY <2>3, <2>4, <5>1
        <5>3. L[a] = IF m[a].data.key = k THEN a ELSE L[m[a].data.next]
          BY <2>2, <4>3, <5>1
        <5> QED  BY <4>3, <5>1, <5>2, <5>3
      <4> QED  BY <4>1, <4>2, <4>3
    <3>2. F = [a \in Places(m2) |-> F[a]]  BY <2>4
    <3>3. F = [a \in Places(m2) |-> IF a = 0 THEN 0 ELSE IF m2[a].data.key = k THEN a
                                    ELSE F[m2[a].data.next]]
      BY <3>1, <3>2
    <3> QED  BY <3>3 DEF Walks
  <2>6. ASSUME NEW f, Walks(m2, k, f) PROVE f = F
    <3>1. f = [a \in Places(m2) |-> IF a = 0 THEN 0 ELSE IF m2[a].data.key = k THEN a
                                    ELSE f[m2[a].data.next]]
      BY <2>6 DEF Walks
    <3>2. PICK g : g = [a \in Places(m) |-> f[a]]  OBVIOUS
    <3>3. ASSUME NEW a \in Places(m)
          PROVE  g[a] = IF a = 0 THEN 0 ELSE IF m[a].data.key = k THEN a
                        ELSE g[m[a].data.next]
      <4>1. a \in Places(m2) /\ g[a] = f[a]  BY <2>3, <3>2
      <4>2. CASE a = 0  BY <3>1, <4>1, <4>2
      <4>3. CASE a # 0
        <5>1. m2[a] = m[a] /\ m[a].data.next \in Places(m)  BY <1>4, <4>3
        <5>2. g[m[a].data.next] = f[m[a].data.next]  BY <3>2, <5>1
        <5>3. f[a] = IF m2[a].data.key = k THEN a ELSE f[m2[a].data.next]
          BY <3>1, <4>1, <4>3
        <5> QED  BY <4>1, <4>3, <5>1, <5>2, <5>3
      <4> QED  BY <4>2, <4>3
    <3>4. g = [a \in Places(m) |-> g[a]]  BY <3>2
    <3>5. g = [a \in Places(m) |-> IF a = 0 THEN 0 ELSE IF m[a].data.key = k THEN a
                                   ELSE g[m[a].data.next]]
      BY <3>3, <3>4
    <3>6. g = L  BY <2>1, <3>5, LookIs DEF Walks
    <3>7. \A a \in Places(m) : f[a] = L[a]  BY <3>2, <3>6
    <3>8. f[N] = IF e.key = k THEN N ELSE L[e.next]  BY <2>3, <3>1, <3>7
    <3>9. f = [a \in Places(m2) |-> f[a]]  BY <3>1
    <3> QED  BY <2>3, <2>4, <3>7, <3>8, <3>9
  <2>7. Walks(m2, k, Look(m2, k))  BY <2>5 DEF Look
  <2> QED  BY <2>1, <2>4, <2>6, <2>7
<1>6. ASSUME NEW k \in Key
      PROVE  /\ Look(m2, k)[n + 1] = IF e.key = k THEN n + 1 ELSE Look(m, k)[e.next]
             /\ \A a \in Places(m) : Look(m2, k)[a] = Look(m, k)[a]
  BY <1>3, <1>5
<1>7. Grows(m, m2)  BY <1>1, <1>6 DEF Grows
<1>8. HeapInv(m2, n + 1)
  <2>1. n \in Nat /\ Buckets \in Nat /\ Buckets <= n  BY SizesAssumption DEF HeapInv
  <2>2. DOMAIN m2 \subseteq Buckets + 1 .. n + 1  BY <1>1, <2>1 DEF HeapInv
  <2>3. \A a \in DOMAIN m2 : m2[a].data \in Val \cup Entry
    BY <1>1, <1>2 DEF HeapInv
  <2>4. \A a \in EntriesIn(m2) : m2[a].data.next \in Places(m2) /\ m2[a].data.next < a
    <3>1. e.next < n + 1
      <4>1. \A a \in DOMAIN m : a \in Nat /\ a <= n  BY <2>1 DEF HeapInv
      <4> QED  BY <2>1, <4>1 DEF Places, EntriesIn
    <3>2. \A a \in EntriesIn(m) : m2[a] = m[a]  BY <1>1 DEF EntriesIn
    <3> QED  BY <1>2, <1>3, <3>1, <3>2 DEF HeapInv
  <2>5. ASSUME NEW k \in Key
        PROVE  /\ Walks(m2, k, Look(m2, k)) /\ \A f : Walks(m2, k, f) => f = Look(m2, k)
               /\ \A a \in Places(m2) :
                    Look(m2, k)[a] \in {0} \cup {d \in EntriesIn(m2) : m2[d].data.key = k}
    <3>1. Walks(m2, k, Look(m2, k)) /\ \A f : Walks(m2, k, f) => f = Look(m2, k)
      BY <1>5
    <3>2. \A a \in Places(m) : Look(m, k)[a] # 0 =>
            Look(m, k)[a] \in EntriesIn(m) /\ m[Look(m, k)[a]].data.key = k
      BY HeapLook
    <3>3. \A d \in EntriesIn(m) : m2[d].data.key = m[d].data.key  BY <1>1, HeapKinds
    <3> QED  BY <1>2, <1>3, <1>6, <3>1, <3>2, <3>3
  <2>6. n + 1 \in Nat /\ Buckets <= n + 1  BY <2>1
  <2> QED  BY <2>2, <2>3, <2>4, <2>5, <2>6 DEF HeapInv
<1>9. Honest(m) /\ x = e => Honest(m2)  BY <1>1, <1>2 DEF Honest
<1> QED  BY <1>2, <1>3, <1>6, <1>7, <1>8, <1>9

-----------------------------------------------------------------------------
(* What a closure and its log say of objects stays true when more come. *)

\* Values stay values, entries stay entries with the cell they had.
LEMMA Kept ==
  ASSUME NEW m, NEW m2, Grows(m, m2)
  PROVE  /\ ValuesIn(m) \subseteq ValuesIn(m2) /\ EntriesIn(m) \subseteq EntriesIn(m2)
         /\ Places(m) \subseteq Places(m2)
         /\ \A e \in EntriesIn(m) : CellOf(m2, e) = CellOf(m, e)
         /\ \A c, v : IsVal(m, c, v) => IsVal(m2, c, v)
         /\ \A c, d, h, e : IsEntry(m, c, d, h, e) => IsEntry(m2, c, d, h, e)
<1>1. /\ ValuesIn(m) \subseteq ValuesIn(m2) /\ EntriesIn(m) \subseteq EntriesIn(m2)
  BY DEF Grows, ValuesIn, EntriesIn
<1>2. \A a \in ValuesIn(m) \cup EntriesIn(m) : m2[a] = m[a]
  BY DEF Grows, ValuesIn, EntriesIn
<1> QED  BY <1>1, <1>2 DEF Places, CellOf, IsVal, IsEntry

\* A search finds what it found.
LEMMA HeapFound ==
  ASSUME NEW m, NEW n, HeapInv(m, n), NEW m2, Grows(m, m2), NEW c \in Asked,
         NEW l, l.head \in Places(m)
  PROVE  /\ Found(m2, c, l) = Found(m, c, l) /\ (Hit(m2, c, l) <=> Hit(m, c, l))
         /\ Hit(m, c, l) => /\ Found(m, c, l) \in EntriesIn(m)
                            /\ CellOf(m2, Found(m, c, l)) = CellOf(m, Found(m, c, l))
<1>1. c.key \in Key  BY DEF Asked, Call
<1>2. Found(m2, c, l) = Found(m, c, l)  BY <1>1 DEF Found, Grows
<1>3. Hit(m, c, l) => Found(m, c, l) \in EntriesIn(m)  BY <1>1, HeapLook DEF Hit, Found
<1>4. \A e \in EntriesIn(m) : CellOf(m2, e) = CellOf(m, e)  BY Kept
<1> QED  BY <1>2, <1>3, <1>4 DEF Hit

\* The same where checksums are right: a search, step by step.
LEMMA LookStep ==
  ASSUME NEW m, NEW n, ObjInv(m, n), NEW k \in Key
  PROVE  /\ Look(m, k)[0] = 0
         /\ \A a \in EntriesIn(m) :
              Look(m, k)[a] = IF m[a].data.key = k THEN a ELSE Look(m, k)[m[a].data.next]
         /\ \A a \in Places(m) : Look(m, k)[a] # 0 =>
              Look(m, k)[a] \in EntriesIn(m) /\ m[Look(m, k)[a]].data.key = k
BY HeapLook DEF ObjInv

\* The same where checksums are right.
LEMMA Kinds ==
  ASSUME NEW m, NEW n, ObjInv(m, n)
  PROVE  /\ \A e \in EntriesIn(m) : /\ m[e].data \in Entry /\ m[e].data \notin Val
                                    /\ e \in Nat /\ e # 0 /\ e \in DOMAIN m
         /\ \A v \in ValuesIn(m) : m[v].data \in Val /\ v \in Nat /\ v # 0 /\ v \in DOMAIN m
         /\ \A a \in Places(m) : a \in Nat
         /\ n + 1 \notin DOMAIN m /\ n + 1 \in Nat /\ n + 1 # 0
BY HeapKinds DEF ObjInv

\* The same where checksums are right.
LEMMA FoundKept ==
  ASSUME NEW m, NEW n, ObjInv(m, n), NEW m2, Grows(m, m2), NEW c \in Asked,
         NEW l, l.head \in Places(m)
  PROVE  /\ Found(m2, c, l) = Found(m, c, l) /\ (Hit(m2, c, l) <=> Hit(m, c, l))
         /\ Hit(m, c, l) => /\ Found(m, c, l) \in EntriesIn(m)
                            /\ CellOf(m2, Found(m, c, l)) = CellOf(m, Found(m, c, l))
BY HeapFound DEF ObjInv

\* A whole log stays a log of its closure.
LEMMA FullKept ==
  ASSUME NEW m, NEW n, ObjInv(m, n), NEW m2, Grows(m, m2), NEW c \in Asked, NEW w,
         Full(m, c, w)
  PROVE  Full(m2, c, w)
<1>1. c.key \in Key  BY DEF Asked, Call
<1>2. PICK h \in Places(m) :
        LET b == Hash[c.key]  r == Look(m, c.key)[h] IN
        \/ /\ c.op = "get" /\ r # 0
           /\ \E x \in ValuesIn(m) : w = <<b, h, CellOf(m, r), x, x, Magic>>
        \/ c.op = "get" /\ r = 0 /\ w = <<b, h, 0, Magic>>
        \/ /\ c.op = "set" /\ r # 0
           /\ \E o \in Addr, v \in ValuesIn(m) :
                /\ IsVal(m, c, v)
                /\ w = <<b, h, CellOf(m, r), o, SizeOfVal, v, CellOf(m, r), v, kStored, Magic>>
        \/ /\ c.op = "set" /\ r = 0
           /\ \E a \in Addr, v \in ValuesIn(m), e \in EntriesIn(m) :
                /\ IsVal(m, c, v) /\ IsEntry(m, c, a, h, e)
                /\ w = <<b, h, a, SizeOfVal, v, a, v, SizeOfEntry, e, b, e, kCreated, Magic>>
  BY DEF Full
<1>3. Look(m2, c.key)[h] = Look(m, c.key)[h]  BY <1>1 DEF Grows
<1>4. PICK r : r = Look(m, c.key)[h]  OBVIOUS
<1>5. r # 0 => CellOf(m2, r) = CellOf(m, r)  BY <1>1, <1>4, LookStep, Kept
<1>6. /\ ValuesIn(m) \subseteq ValuesIn(m2) /\ EntriesIn(m) \subseteq EntriesIn(m2)
      /\ h \in Places(m2)
      /\ \A v : IsVal(m, c, v) => IsVal(m2, c, v)
      /\ \A d, e : IsEntry(m, c, d, h, e) => IsEntry(m2, c, d, h, e)
  BY Kept
<1>7. CASE c.op = "get"  BY <1>2, <1>3, <1>4, <1>5, <1>6, <1>7 DEF Full
<1>8. CASE c.op = "set" /\ r # 0
  <2>1. PICK o \in Addr, v \in ValuesIn(m) :
          /\ IsVal(m, c, v)
          /\ w = <<Hash[c.key], h, CellOf(m, r), o, SizeOfVal, v, CellOf(m, r), v, kStored, Magic>>
    BY <1>2, <1>4, <1>8
  <2> QED  BY <1>3, <1>4, <1>5, <1>6, <1>8, <2>1 DEF Full
<1>9. CASE c.op = "set" /\ r = 0
  <2>1. PICK a \in Addr, v \in ValuesIn(m), e \in EntriesIn(m) :
          /\ IsVal(m, c, v) /\ IsEntry(m, c, a, h, e)
          /\ w = <<Hash[c.key], h, a, SizeOfVal, v, a, v, SizeOfEntry, e, Hash[c.key], e, kCreated, Magic>>
    BY <1>2, <1>4, <1>9
  <2> QED  BY <1>3, <1>4, <1>6, <1>9, <2>1 DEF Full
<1> QED  BY <1>2, <1>4, <1>7, <1>8, <1>9

\* The locals of a closure stay right.
LEMMA LocalsKept ==
  ASSUME NEW m, NEW n, ObjInv(m, n), NEW m2, Grows(m, m2),
         NEW s \in Labels, NEW c, NEW l, LocalsAt(m, s, c, l)
  PROVE  LocalsAt(m2, s, c, l)
<1>1. /\ ValuesIn(m) \subseteq ValuesIn(m2) /\ Places(m) \subseteq Places(m2)
      /\ \A v : IsVal(m, c, v) => IsVal(m2, c, v)
      /\ \A d, h, e : IsEntry(m, c, d, h, e) => IsEntry(m2, c, d, h, e)
  BY Kept
<1>2. CASE s \in {"idle", "lock", "head"}  BY <1>2 DEF LocalsAt
<1>3. CASE s \notin {"idle", "lock", "head"}
  <2>1. c \in Asked /\ l.head \in Places(m)  BY <1>3 DEF LocalsAt
  <2>2. c.key \in Key  BY <2>1 DEF Asked, Call
  <2>3. /\ Found(m2, c, l) = Found(m, c, l) /\ (Hit(m2, c, l) <=> Hit(m, c, l))
        /\ Hit(m, c, l) => CellOf(m2, Found(m, c, l)) = CellOf(m, Found(m, c, l))
    BY <2>1, FoundKept
  <2>4. s = "walk" => Look(m2, c.key)[l.at] = Look(m, c.key)[l.at]
    BY <2>2 DEF LocalsAt, Grows
  <2> QED  BY <1>1, <1>3, <2>1, <2>3, <2>4 DEF LocalsAt
<1> QED  BY <1>2, <1>3

\* So does what the application has logged.
LEMMA WroteKept ==
  ASSUME NEW m, NEW n, ObjInv(m, n), NEW m2, Grows(m, m2),
         NEW s \in Labels, NEW c, NEW l, NEW w, LocalsAt(m, s, c, l), WroteAt(m, s, c, l, w)
  PROVE  WroteAt(m2, s, c, l, w)
<1>1. /\ ValuesIn(m) \subseteq ValuesIn(m2) /\ EntriesIn(m) \subseteq EntriesIn(m2)
      /\ \A v : IsVal(m, c, v) => IsVal(m2, c, v)
      /\ \A d, h, e : IsEntry(m, c, d, h, e) => IsEntry(m2, c, d, h, e)
  BY Kept
<1>2. CASE s \in {"idle", "lock", "head"}  BY <1>2 DEF WroteAt
<1>3. CASE s \in {"walk", "load", "newCell", "makeVal", "store"}  BY <1>3 DEF WroteAt
<1>4. CASE s = "makeEntry"
  <2>1. PICK v \in ValuesIn(m) :
          IsVal(m, c, v) /\ w = <<l.hv, l.head, l.dest, SizeOfVal, v, l.dest, v>>
    BY <1>4 DEF WroteAt
  <2> QED  BY <1>1, <1>4, <2>1 DEF WroteAt
<1>5. CASE s = "link"
  <2>1. PICK v \in ValuesIn(m) :
          /\ IsVal(m, c, v)
          /\ w = <<l.hv, l.head, l.dest, SizeOfVal, v, l.dest, v, SizeOfEntry, l.made>>
    BY <1>5 DEF WroteAt
  <2> QED  BY <1>1, <1>5, <2>1 DEF WroteAt
<1>6. CASE s \in {"unlock", "return"}
  <2>1. c \in Asked /\ l.head \in Places(m)  BY <1>6 DEF LocalsAt
  <2>2. /\ Found(m2, c, l) = Found(m, c, l) /\ (Hit(m2, c, l) <=> Hit(m, c, l))
        /\ Hit(m, c, l) => CellOf(m2, Found(m, c, l)) = CellOf(m, Found(m, c, l))
    BY <2>1, FoundKept
  <2>3. PICK f : f = CellOf(m, Found(m, c, l))  OBVIOUS
  <2>4. Hit(m, c, l) => f = CellOf(m2, Found(m2, c, l))  BY <2>2, <2>3
  <2>5. CASE c.op = "get"  BY <1>6, <2>2, <2>3, <2>4, <2>5 DEF WroteAt
  <2>6. CASE c.op = "set" /\ Hit(m, c, l)
    <3>1. PICK o \in Addr, v \in ValuesIn(m) :
            IsVal(m, c, v) /\ w = <<l.hv, l.head, f, o, SizeOfVal, v, f, v>>
      BY <1>6, <2>3, <2>6 DEF WroteAt
    <3> QED  BY <1>1, <1>6, <2>2, <2>4, <2>6, <3>1 DEF WroteAt
  <2>7. CASE c.op = "set" /\ ~Hit(m, c, l)
    <3>1. PICK a \in Addr, v \in ValuesIn(m), e \in EntriesIn(m) :
            /\ IsVal(m, c, v) /\ IsEntry(m, c, a, l.head, e)
            /\ w = <<l.hv, l.head, a, SizeOfVal, v, a, v, SizeOfEntry, e, l.hv, e>>
      BY <1>6, <2>7 DEF WroteAt
    <3> QED  BY <1>1, <1>6, <2>2, <2>7, <3>1 DEF WroteAt
  <2>8. c.op \in {"get", "set"}  BY <2>1 DEF Asked, Call
  <2> QED  BY <2>5, <2>6, <2>7, <2>8
<1> QED  BY <1>2, <1>3, <1>4, <1>5, <1>6 DEF Labels

\* So does what a validator has still to read.
LEMMA LeftKept ==
  ASSUME NEW m, NEW n, ObjInv(m, n), NEW m2, Grows(m, m2),
         NEW s \in Labels, NEW c, NEW l, NEW w, LocalsAt(m, s, c, l), LeftAt(m, s, c, l, w)
  PROVE  LeftAt(m2, s, c, l, w)
<1>1. /\ ValuesIn(m) \subseteq ValuesIn(m2) /\ EntriesIn(m) \subseteq EntriesIn(m2)
      /\ \A v : IsVal(m, c, v) => IsVal(m2, c, v)
      /\ \A d, h, e : IsEntry(m, c, d, h, e) => IsEntry(m2, c, d, h, e)
  BY Kept
<1>2. CASE s = "idle"  BY <1>2 DEF LeftAt
<1>3. CASE s \in {"lock", "head"}
  <2>1. c \in Asked  BY <1>3 DEF LocalsAt
  <2>2. Full(m, c, w)  BY <1>3 DEF LeftAt
  <2>3. Full(m2, c, w)  BY <2>1, <2>2, FullKept
  <2> QED  BY <1>3, <2>3 DEF LeftAt
<1>4. CASE s \in {"walk", "load", "newCell"}
  <2>1. c \in Asked /\ l.head \in Places(m)  BY <1>4 DEF LocalsAt
  <2>2. /\ Found(m2, c, l) = Found(m, c, l) /\ (Hit(m2, c, l) <=> Hit(m, c, l))
        /\ Hit(m, c, l) => CellOf(m2, Found(m, c, l)) = CellOf(m, Found(m, c, l))
    BY <2>1, FoundKept
  <2>3. PICK f : f = CellOf(m, Found(m, c, l))  OBVIOUS
  <2>4. Hit(m, c, l) => f = CellOf(m2, Found(m2, c, l))  BY <2>2, <2>3
  <2>5. CASE c.op = "get"  BY <1>1, <1>4, <2>2, <2>3, <2>4, <2>5 DEF LeftAt
  <2>6. CASE c.op = "set" /\ Hit(m, c, l)
    <3>1. PICK o \in Addr, v \in ValuesIn(m) :
            IsVal(m, c, v) /\ w = <<f, o, SizeOfVal, v, f, v, kStored, Magic>>
      BY <1>4, <2>3, <2>6 DEF LeftAt
    <3> QED  BY <1>1, <1>4, <2>2, <2>4, <2>6, <3>1 DEF LeftAt
  <2>7. CASE c.op = "set" /\ ~Hit(m, c, l)
    <3>1. PICK a \in Addr, v \in ValuesIn(m), e \in EntriesIn(m) :
            /\ IsVal(m, c, v) /\ IsEntry(m, c, a, l.head, e)
            /\ w = <<a, SizeOfVal, v, a, v, SizeOfEntry, e, l.hv, e, kCreated, Magic>>
      BY <1>4, <2>7 DEF LeftAt
    <3> QED  BY <1>1, <1>4, <2>2, <2>7, <3>1 DEF LeftAt
  <2>8. c.op \in {"get", "set"}  BY <2>1 DEF Asked, Call
  <2> QED  BY <2>5, <2>6, <2>7, <2>8
<1>5. CASE s = "makeVal"
  <2>1. CASE l.ret = kStored
    <3>1. PICK v \in ValuesIn(m) :
            IsVal(m, c, v) /\ w = <<SizeOfVal, v, l.dest, v, kStored, Magic>>
      BY <1>5, <2>1, WordsDiffer DEF LeftAt
    <3> QED  BY <1>1, <1>5, <2>1, <3>1 DEF LeftAt
  <2>2. CASE l.ret = kCreated
    <3>1. PICK v \in ValuesIn(m), e \in EntriesIn(m) :
            /\ IsVal(m, c, v) /\ IsEntry(m, c, l.dest, l.head, e)
            /\ w = <<SizeOfVal, v, l.dest, v, SizeOfEntry, e, l.hv, e, kCreated, Magic>>
      BY <1>5, <2>2, WordsDiffer DEF LeftAt
    <3> QED  BY <1>1, <1>5, <2>2, <3>1 DEF LeftAt
  <2> QED  BY <1>5, <2>1, <2>2 DEF LeftAt
<1>6. CASE s = "store"
  <2>1. CASE l.ret = kStored  BY <1>6, <2>1, WordsDiffer DEF LeftAt
  <2>2. CASE l.ret = kCreated
    <3>1. PICK e \in EntriesIn(m) :
            /\ IsEntry(m, c, l.dest, l.head, e)
            /\ w = <<l.dest, l.made, SizeOfEntry, e, l.hv, e, kCreated, Magic>>
      BY <1>6, <2>2, WordsDiffer DEF LeftAt
    <3> QED  BY <1>1, <1>6, <2>2, <3>1 DEF LeftAt
  <2> QED  BY <1>6, <2>1, <2>2 DEF LeftAt
<1>7. CASE s = "makeEntry"
  <2>1. PICK e \in EntriesIn(m) :
          /\ IsEntry(m, c, l.dest, l.head, e)
          /\ w = <<SizeOfEntry, e, l.hv, e, kCreated, Magic>>
    BY <1>7 DEF LeftAt
  <2> QED  BY <1>1, <1>7, <2>1 DEF LeftAt
<1>8. CASE s \in {"link", "unlock", "return"}  BY <1>8 DEF LeftAt
<1> QED  BY <1>2, <1>3, <1>4, <1>5, <1>6, <1>7, <1>8 DEF Labels

-----------------------------------------------------------------------------
(* Steps of a closure, when no fault strikes. *)

\* p goes to label s with locals l and log w.
StepTo(p, s, l, w) ==
  /\ pc' = [pc EXCEPT ![p] = s] /\ loc' = [loc EXCEPT ![p] = l]
  /\ log' = [log EXCEPT ![p] = w] /\ UNCHANGED <<call, pending, left, reported>>

\* What is known of a process.
LEMMA ProcFacts ==
  ASSUME RightInv, NEW p \in Proc
  PROVE  /\ pc[p] \in Labels /\ call[p] \in Call \cup {NoCall}
         /\ loc[p] \in Locals /\ log[p] \in Seq(Word)
         /\ LocalsAt(obj, pc[p], call[p], loc[p])
         /\ p[1] \in App /\ p = <<p[1], p[2]>> /\ p[2] \in Side
         /\ p[2] = "app" => /\ WroteAt(obj, pc[p], call[p], loc[p], log[p])
                            /\ HoldsAt(cell, obj, lock, pc[p], call[p], loc[p], p[1])
         /\ p[2] = "val" => LeftAt(obj, pc[p], call[p], loc[p], log[p])
<1>1. p[1] \in App /\ p = <<p[1], p[2]>> /\ p[2] \in Side  BY DEF Proc
<1>2. PICK t \in App : t = p[1]  BY <1>1
<1>3. CASE p[2] = "app"
  <2>1. p = A(t)  BY <1>1, <1>2, <1>3 DEF A
  <2>2. WroteAt(obj, pc[p], call[p], loc[p], log[p])
        /\ HoldsAt(cell, obj, lock, pc[p], call[p], loc[p], t)
    BY <2>1 DEF RightInv
  <2> QED  BY <1>1, <1>2, <1>3, <2>2 DEF RightInv, TypesInv
<1>4. CASE p[2] = "val"
  <2>1. p = V(t)  BY <1>1, <1>2, <1>4 DEF V
  <2>2. LeftAt(obj, pc[p], call[p], loc[p], log[p])  BY <2>1 DEF RightInv
  <2> QED  BY <1>1, <1>4, <2>2 DEF RightInv, TypesInv
<1> QED  BY <1>1, <1>3, <1>4 DEF Side

\* A step computes the right value.
LEMMA Chosen ==
  ASSUME NEW p, NEW right, NEW wrongs, NEW o \in Outcomes(p, right, wrongs), ~o[2]
  PROVE  o[1] = right
<1>1. o = <<right, FALSE>> \/ o \in (wrongs \ {right}) \X {TRUE}  BY DEF Outcomes
<1>2. o \notin (wrongs \ {right}) \X {TRUE}  OBVIOUS
<1>3. o = <<right, FALSE>>  BY <1>1, <1>2
<1> QED  BY <1>3

\* A step that leaves the run without a fault is not struck.
LEMMA Quietly ==
  ASSUME RightInv, ~hit', NEW p \in Proc, NEW f, Note(p, f)
  PROVE  ~f /\ struck' \in [Proc -> BOOLEAN] /\ hit' = FALSE
<1>1. ~f /\ hit' = FALSE  BY DEF Note
<1>2. struck' = [struck EXCEPT ![p] = @ \/ f]  BY DEF Note
<1>3. struck \in [Proc -> BOOLEAN]  BY DEF RightInv, TypesInv
<1>4. (struck[p] \/ f) \in BOOLEAN  OBVIOUS
<1> QED  BY <1>1, <1>2, <1>3, <1>4

\* Words that a validator comes across.
LEMMA HeapWords ==
  ASSUME NEW m, NEW n, HeapInv(m, n)
  PROVE  /\ {SizeOfVal, SizeOfEntry, kStored, kCreated, Magic} \subseteq Word
         /\ ValuesIn(m) \subseteq Word /\ Places(m) \subseteq Word /\ Bucket \subseteq Word
         /\ Nat \subseteq Word /\ Addr \subseteq Word
         /\ EntriesIn(m) \subseteq Word /\ \A e \in EntriesIn(m) : CellOf(m, e) \in Nat
<1>1. Buckets \in Nat  BY SizesAssumption
<1>2. \A e \in EntriesIn(m) : CellOf(m, e) \in Nat  BY HeapKinds DEF Entry, CellOf, Addr
<1> QED  BY <1>1, <1>2, HeapKinds DEF Word, Addr, Bucket

\* The same where checksums are right.
LEMMA Words ==
  ASSUME NEW m, NEW n, ObjInv(m, n)
  PROVE  /\ {SizeOfVal, SizeOfEntry, kStored, kCreated, Magic} \subseteq Word
         /\ ValuesIn(m) \subseteq Word /\ Places(m) \subseteq Word /\ Bucket \subseteq Word
         /\ Nat \subseteq Word /\ Addr \subseteq Word
         /\ EntriesIn(m) \subseteq Word /\ \A e \in EntriesIn(m) : CellOf(m, e) \in Nat
BY HeapWords DEF ObjInv

\* What it writes or reads itself.
LEMMA ArgsAre ==
  ASSUME NEW p
  PROVE  /\ pc[p] = "head" => Args(p) = <<loc[p].hv>>
         /\ pc[p] = "load" => Args(p) = <<loc[p].dest>>
         /\ pc[p] = "makeVal" => Args(p) = <<SizeOfVal>>
         /\ pc[p] = "store" => Args(p) = <<loc[p].dest, loc[p].made>>
         /\ pc[p] = "makeEntry" => Args(p) = <<SizeOfEntry>>
         /\ pc[p] = "link" => Args(p) = <<loc[p].hv, loc[p].made>>
         /\ pc[p] = "return" => Args(p) = <<loc[p].ret>>
         /\ pc[p] = "newCell" => Args(p) = << >>
BY DEF Args

-----------------------------------------------------------------------------
(* The validator's steps. *)

ValMoves(p) ==
  \E s \in Labels, l \in Locals, w \in Seq(Word) :
    /\ StepTo(p, s, l, w) /\ LocalsAt(obj, s, call[p], l) /\ LeftAt(obj, s, call[p], l, w)
    /\ UNCHANGED <<memVars, lock, noteVars>> /\ struck' \in [Proc -> BOOLEAN] /\ hit' = FALSE

\* lock_guard_t: the validator takes the bucket of the key's hash.
LEMMA ValLock ==
  ASSUME RightInv, ~hit', NEW p \in Proc, p[2] = "val", Lock(p)
  PROVE  ValMoves(p)
<1> USE ProcFacts
<1>1. PICK o \in Outcomes(p, Hash[call[p].key], Wrong("hash", Bucket)) :
        /\ lock' = lock /\ loc' = [loc EXCEPT ![p].hv = o[1]] /\ Note(p, o[2])
  BY DEF Lock
<1>2. pc[p] = "lock" /\ pc' = [pc EXCEPT ![p] = "head"]
      /\ UNCHANGED <<memVars, call, log, pending, left, reported, noteVars>>
  BY DEF Lock, Goto
<1>3. ~o[2] /\ struck' \in [Proc -> BOOLEAN] /\ hit' = FALSE  BY <1>1, Quietly
<1>4. o[1] = Hash[call[p].key]  BY <1>3, Chosen
<1>5. PICK b, l : b = Hash[call[p].key] /\ l = [loc[p] EXCEPT !.hv = b]  OBVIOUS
<1>6. call[p] \in Asked /\ loc[p] = Fresh  BY <1>2 DEF LocalsAt
<1>7. b \in Bucket /\ b \in Word
  <2>1. call[p].key \in Key  BY <1>6 DEF Asked, Call
  <2> QED  BY <1>5, <2>1, HashAssumption, Words DEF RightInv
<1>8. l \in Locals  BY <1>5, <1>7 DEF Locals
<1>9. StepTo(p, "head", l, log[p])
  <2>1. log' = [log EXCEPT ![p] = log[p]]  BY <1>2 DEF RightInv, TypesInv
  <2>2. loc' = [loc EXCEPT ![p] = l]  BY <1>1, <1>4, <1>5
  <2> QED  BY <1>2, <2>1, <2>2 DEF StepTo
<1>10. LocalsAt(obj, "head", call[p], l)  BY <1>5, <1>6 DEF LocalsAt, Fresh
<1>11. LeftAt(obj, "head", call[p], l, log[p])  BY <1>2 DEF LeftAt
<1> QED  BY <1>1, <1>2, <1>3, <1>8, <1>9, <1>10, <1>11 DEF ValMoves, Labels

\* The head comes from the log.
LEMMA ValReadHead ==
  ASSUME RightInv, ~hit', NEW p \in Proc, p[2] = "val", ReadHead(p)
  PROVE  ValMoves(p)
<1> USE ProcFacts
<1>1. PICK o \in Loaded(p, loc[p].hv, Entries \cup {0}) :
        /\ Logged(p, <<o[1]>>) /\ loc' = [loc EXCEPT ![p].head = o[1], ![p].at = o[1]]
        /\ Note(p, o[2])
  BY DEF ReadHead
<1>2. pc[p] = "head" /\ pc' = [pc EXCEPT ![p] = "walk"]
      /\ UNCHANGED <<memVars, lock, call, pending, left, reported, noteVars>>
  BY DEF ReadHead, Goto
<1>3. struck' \in [Proc -> BOOLEAN] /\ hit' = FALSE  BY <1>1, Quietly
<1>4. Args(p) = <<loc[p].hv>>  BY <1>2, ArgsAre
<1>5. o[1] = log[p][2]
  <2>1. o \in {<<Fetched(p), FALSE>>}  BY <1>1 DEF Loaded
  <2>2. Fetched(p) = log[p][2]  BY <1>4 DEF Fetched
  <2> QED  BY <2>1, <2>2
<1>6. call[p] \in Asked /\ loc[p].hv = Hash[call[p].key] /\ loc[p].ret = 0
  BY <1>2 DEF LocalsAt
<1>7. call[p].key \in Key /\ call[p].op \in {"get", "set"}  BY <1>6 DEF Asked, Call
<1>8. PICK c, b, w : c = call[p] /\ b = Hash[c.key] /\ w = log[p]  OBVIOUS
<1>9. Full(obj, c, w)  BY <1>2, <1>8 DEF LeftAt
<1>10. PICK h \in Places(obj) :
         LET r == Look(obj, c.key)[h] IN
         \/ /\ c.op = "get" /\ r # 0
            /\ \E x \in ValuesIn(obj) : w = <<b, h, CellOf(obj, r), x, x, Magic>>
         \/ c.op = "get" /\ r = 0 /\ w = <<b, h, 0, Magic>>
         \/ /\ c.op = "set" /\ r # 0
            /\ \E a \in Addr, v \in ValuesIn(obj) :
                 /\ IsVal(obj, c, v)
                 /\ w = <<b, h, CellOf(obj, r), a, SizeOfVal, v, CellOf(obj, r), v, kStored, Magic>>
         \/ /\ c.op = "set" /\ r = 0
            /\ \E a \in Addr, v \in ValuesIn(obj), e \in EntriesIn(obj) :
                 /\ IsVal(obj, c, v) /\ IsEntry(obj, c, a, h, e)
                 /\ w = <<b, h, a, SizeOfVal, v, a, v, SizeOfEntry, e, b, e, kCreated, Magic>>
  BY <1>8, <1>9 DEF Full
<1>11. PICK l : l = [loc[p] EXCEPT !.head = h, !.at = h]  OBVIOUS
<1>12. l \in Locals /\ l.head = h /\ l.at = h /\ l.ret = 0 /\ l.hv = b
  <2>1. h \in Word  BY Words DEF RightInv
  <2> QED  BY <1>6, <1>8, <1>11, <2>1 DEF Locals
<1>13. Found(obj, c, l) = Look(obj, c.key)[h]  BY <1>12 DEF Found
<1>14. LocalsAt(obj, "walk", c, l)  BY <1>6, <1>8, <1>12, <1>13 DEF LocalsAt
<1>15. PICK r : r = Found(obj, c, l)  OBVIOUS
<1>16. Hit(obj, c, l) <=> r # 0  BY <1>15 DEF Hit
<1>17. PICK f : f = CellOf(obj, r)  OBVIOUS
<1>18. PICK w2 : w2 = SubSeq(w, 3, Len(w))  OBVIOUS
<1>19. log' = [log EXCEPT ![p] = w2]
  <2>1. log' = [log EXCEPT ![p] = SubSeq(w, Len(Args(p)) + Len(<<o[1]>>) + 1, Len(w))]
    BY <1>1, <1>8 DEF Logged
  <2> QED  BY <1>4, <1>18, <2>1
<1>20. h = w[2] /\ LeftAt(obj, "walk", c, l, w2)
  <2>1. CASE c.op = "get" /\ r # 0
    <3>1. PICK x \in ValuesIn(obj) : w = <<b, h, f, x, x, Magic>>
      BY <1>10, <1>13, <1>15, <1>17, <2>1
    <3>2. w2 = <<f, x, x, Magic>>  BY <1>18, <3>1, Rest6_3
    <3> QED  BY <1>15, <1>16, <1>17, <2>1, <3>1, <3>2 DEF LeftAt
  <2>2. CASE c.op = "get" /\ r = 0
    <3>1. w = <<b, h, 0, Magic>>  BY <1>10, <1>13, <1>15, <2>2
    <3>2. w2 = <<0, Magic>>  BY <1>18, <3>1, Rest4_3
    <3> QED  BY <1>16, <2>2, <3>1, <3>2 DEF LeftAt
  <2>3. CASE c.op = "set" /\ r # 0
    <3>1. PICK a \in Addr, v \in ValuesIn(obj) :
            IsVal(obj, c, v) /\ w = <<b, h, f, a, SizeOfVal, v, f, v, kStored, Magic>>
      BY <1>10, <1>13, <1>15, <1>17, <2>3
    <3>2. w2 = <<f, a, SizeOfVal, v, f, v, kStored, Magic>>  BY <1>18, <3>1, Rest10_3
    <3> QED  BY <1>15, <1>16, <1>17, <2>3, <3>1, <3>2 DEF LeftAt
  <2>4. CASE c.op = "set" /\ r = 0
    <3>1. PICK a \in Addr, v \in ValuesIn(obj), e \in EntriesIn(obj) :
            /\ IsVal(obj, c, v) /\ IsEntry(obj, c, a, h, e)
            /\ w = <<b, h, a, SizeOfVal, v, a, v, SizeOfEntry, e, b, e, kCreated, Magic>>
      BY <1>10, <1>13, <1>15, <2>4
    <3>2. w2 = <<a, SizeOfVal, v, a, v, SizeOfEntry, e, b, e, kCreated, Magic>>
      BY <1>18, <3>1, Rest13_3
    <3> QED  BY <1>12, <1>16, <2>4, <3>1, <3>2 DEF LeftAt
  <2> QED  BY <1>7, <1>8, <2>1, <2>2, <2>3, <2>4
<1>21. loc' = [loc EXCEPT ![p] = l]  BY <1>1, <1>5, <1>8, <1>11, <1>20
<1>22. w2 \in Seq(Word)
  <2>1. w \in Seq(Word) /\ Len(w) \in Nat  BY <1>8
  <2> QED  BY <1>18, <2>1
<1>23. StepTo(p, "walk", l, w2)  BY <1>2, <1>19, <1>21 DEF StepTo
<1> QED  BY <1>2, <1>3, <1>8, <1>12, <1>14, <1>20, <1>22, <1>23 DEF ValMoves, Labels

\* Find, Skip and Miss touch no memory and no log, on either side.
WalkMoves(p) ==
  \E s \in {"walk", "load", "newCell", "unlock"}, l \in Locals :
    /\ pc[p] = "walk" /\ StepTo(p, s, l, log[p]) /\ LocalsAt(obj, s, call[p], l)
    /\ l.hv = loc[p].hv /\ l.head = loc[p].head
    /\ s = "unlock" => call[p].op = "get" /\ ~Hit(obj, call[p], l) /\ l.ret = 0
    /\ UNCHANGED <<memVars, lock, noteVars>> /\ struck' \in [Proc -> BOOLEAN] /\ hit' = FALSE

\* The walk is about objects, that validators and applications see alike.
LEMMA WalkFacts ==
  ASSUME RightInv, NEW p \in Proc, pc[p] = "walk"
  PROVE  /\ call[p] \in Asked /\ call[p].key \in Key /\ loc[p].hv = Hash[call[p].key]
         /\ loc[p].head \in Places(obj) /\ loc[p].at \in Places(obj) /\ loc[p].ret = 0
         /\ Look(obj, call[p].key)[loc[p].at] = Found(obj, call[p], loc[p])
         /\ log' = log => log' = [log EXCEPT ![p] = log[p]]
<1>1. LocalsAt(obj, pc[p], call[p], loc[p])  BY ProcFacts
<1>2. log \in [Proc -> Seq(Word)]  BY DEF RightInv, TypesInv
<1> QED  BY <1>1, <1>2 DEF LocalsAt, Asked, Call

\* The entry has the key: the search ends at it.
LEMMA WalkFind ==
  ASSUME RightInv, ~hit', NEW p \in Proc, Find(p)
  PROVE  WalkMoves(p)
<1> USE ProcFacts, WalkFacts
<1>1. pc[p] = "walk" /\ loc[p].at # 0 /\ pc' = [pc EXCEPT ![p] = "load"]
      /\ UNCHANGED <<memVars, lock, call, log, pending, left, reported, noteVars>>
  BY DEF Find, Goto
<1>2. PICK e : e = obj[loc[p].at].data  OBVIOUS
<1>3. PICK b \in Outcomes(p, e.key = call[p].key, Wrong("branch", BOOLEAN)),
           o \in Outcomes(p, e.cell, Wrong("address", ValueCells)) :
        /\ b[1] /\ ~(b[2] /\ o[2])
        /\ loc' = [loc EXCEPT ![p].dest = o[1]]
        /\ Note(p, b[2] \/ o[2])
  BY <1>2 DEF Find
<1>4. ~(b[2] \/ o[2]) /\ struck' \in [Proc -> BOOLEAN] /\ hit' = FALSE  BY <1>3, Quietly
<1>5. o[1] = e.cell  BY <1>4, Chosen
<1>6. b[1] = (e.key = call[p].key)  BY <1>4, Chosen
<1>7. e.key = call[p].key  BY <1>3, <1>6
<1>8. loc[p].at \in EntriesIn(obj)  BY <1>1 DEF Places
<1>9. Found(obj, call[p], loc[p]) = loc[p].at
  BY <1>1, <1>2, <1>7, <1>8, LookStep DEF RightInv
<1>10. PICK l : l = [loc[p] EXCEPT !.dest = e.cell]  OBVIOUS
<1>11. e.cell \in Word  BY <1>2, <1>8, Words DEF RightInv, CellOf
<1>12. /\ l \in Locals /\ l.dest = e.cell /\ l.hv = loc[p].hv /\ l.head = loc[p].head
  BY <1>10, <1>11 DEF Locals
<1>13. Found(obj, call[p], l) = loc[p].at  BY <1>9, <1>12 DEF Found
<1>14. LocalsAt(obj, "load", call[p], l)
  BY <1>1, <1>2, <1>12, <1>13 DEF LocalsAt, Hit, CellOf
<1>15. loc' = [loc EXCEPT ![p] = l]  BY <1>3, <1>5, <1>10
<1>16. StepTo(p, "load", l, log[p])  BY <1>1, <1>15 DEF StepTo
<1> QED  BY <1>1, <1>4, <1>12, <1>14, <1>16 DEF WalkMoves

\* It has another key: the search goes on at the next.
LEMMA WalkSkip ==
  ASSUME RightInv, ~hit', NEW p \in Proc, Skip(p)
  PROVE  WalkMoves(p)
<1> USE ProcFacts, WalkFacts
<1>1. pc[p] = "walk" /\ loc[p].at # 0
      /\ UNCHANGED <<memVars, lock, pc, call, log, pending, left, reported, noteVars>>
  BY DEF Skip
<1>2. PICK e : e = obj[loc[p].at].data  OBVIOUS
<1>3. PICK b \in Outcomes(p, e.key = call[p].key, Wrong("branch", BOOLEAN)) :
        /\ ~b[1] /\ loc' = [loc EXCEPT ![p].at = e.next] /\ Note(p, b[2])
  BY <1>2 DEF Skip
<1>4. ~b[2] /\ struck' \in [Proc -> BOOLEAN] /\ hit' = FALSE  BY <1>3, Quietly
<1>5. b[1] = (e.key = call[p].key)  BY <1>4, Chosen
<1>6. e.key # call[p].key  BY <1>3, <1>5
<1>7. loc[p].at \in EntriesIn(obj)  BY <1>1 DEF Places
<1>8. e.next \in Places(obj)  BY <1>2, <1>7 DEF RightInv, ObjInv, HeapInv
<1>9. Look(obj, call[p].key)[e.next] = Found(obj, call[p], loc[p])
  BY <1>1, <1>2, <1>6, <1>7, LookStep DEF RightInv
<1>10. PICK l : l = [loc[p] EXCEPT !.at = e.next]  OBVIOUS
<1>11. e.next \in Word  BY <1>8, Words DEF RightInv
<1>12. /\ l \in Locals /\ l.at = e.next /\ l.hv = loc[p].hv /\ l.head = loc[p].head
       /\ l.ret = loc[p].ret
  BY <1>10, <1>11 DEF Locals
<1>13. Found(obj, call[p], l) = Found(obj, call[p], loc[p])  BY <1>12 DEF Found
<1>14. LocalsAt(obj, "walk", call[p], l)
  BY <1>1, <1>8, <1>9, <1>12, <1>13 DEF LocalsAt
<1>15. loc' = [loc EXCEPT ![p] = l]  BY <1>3, <1>10
<1>16. pc' = [pc EXCEPT ![p] = "walk"]  BY <1>1 DEF RightInv, TypesInv
<1>17. StepTo(p, "walk", l, log[p])  BY <1>1, <1>15, <1>16 DEF StepTo
<1> QED  BY <1>1, <1>4, <1>12, <1>14, <1>17 DEF WalkMoves

\* The chain ends: the search finds nothing.
LEMMA WalkMiss ==
  ASSUME RightInv, ~hit', NEW p \in Proc, Miss(p)
  PROVE  WalkMoves(p)
<1> USE ProcFacts, WalkFacts
<1>1. pc[p] = "walk" /\ loc[p].at = 0
      /\ pc' = [pc EXCEPT ![p] = IF call[p].op = "get" THEN "unlock" ELSE "newCell"]
      /\ UNCHANGED <<memVars, lock, call, loc, log, pending, left, reported, hit, struck, noteVars>>
  BY DEF Miss, Goto
<1>2. Found(obj, call[p], loc[p]) = 0 /\ ~Hit(obj, call[p], loc[p])
  BY <1>1, LookStep DEF RightInv, Hit
<1>3. hit' = FALSE /\ struck' \in [Proc -> BOOLEAN]  BY <1>1 DEF RightInv, TypesInv
<1>4. loc' = [loc EXCEPT ![p] = loc[p]]  BY <1>1 DEF RightInv, TypesInv
<1>5. call[p].op \in {"get", "set"}  BY <1>1 DEF Asked, Call
<1>6. CASE call[p].op = "get"
  <2>1. StepTo(p, "unlock", loc[p], log[p])  BY <1>1, <1>4, <1>6 DEF StepTo
  <2>2. LocalsAt(obj, "unlock", call[p], loc[p])  BY <1>1, <1>2, <1>6 DEF LocalsAt
  <2> QED  BY <1>1, <1>2, <1>3, <1>6, <2>1, <2>2 DEF WalkMoves
<1>7. CASE call[p].op = "set"
  <2>1. StepTo(p, "newCell", loc[p], log[p])  BY <1>1, <1>4, <1>7 DEF StepTo
  <2>2. LocalsAt(obj, "newCell", call[p], loc[p])  BY <1>1, <1>2, <1>7 DEF LocalsAt
  <2> QED  BY <1>1, <1>3, <2>1, <2>2 DEF WalkMoves
<1> QED  BY <1>5, <1>6, <1>7

\* The validator finds the entry that the application found.
LEMMA ValWalk ==
  ASSUME RightInv, NEW p \in Proc, p[2] = "val", WalkMoves(p)
  PROVE  ValMoves(p)
<1> USE ProcFacts
<1>1. PICK s \in {"walk", "load", "newCell", "unlock"}, l \in Locals :
        /\ pc[p] = "walk" /\ StepTo(p, s, l, log[p]) /\ LocalsAt(obj, s, call[p], l)
        /\ l.hv = loc[p].hv /\ l.head = loc[p].head
        /\ s = "unlock" => call[p].op = "get" /\ ~Hit(obj, call[p], l) /\ l.ret = 0
        /\ UNCHANGED <<memVars, lock, noteVars>> /\ struck' \in [Proc -> BOOLEAN] /\ hit' = FALSE
  BY DEF WalkMoves
<1>2. Found(obj, call[p], l) = Found(obj, call[p], loc[p])  BY <1>1 DEF Found
<1>3. Hit(obj, call[p], l) = Hit(obj, call[p], loc[p])  BY <1>2 DEF Hit
<1>4. LeftAt(obj, "walk", call[p], loc[p], log[p])  BY <1>1
<1>5. LeftAt(obj, s, call[p], l, log[p])
  <2>1. CASE s = "unlock"  BY <1>1, <1>3, <1>4, <2>1 DEF LeftAt
  <2>2. CASE s \in {"walk", "load", "newCell"}
    <3>1. LeftAt(obj, "walk", call[p], l, log[p])  BY <1>1, <1>2, <1>3, <1>4 DEF LeftAt
    <3> QED  BY <2>2, <3>1 DEF LeftAt
  <2> QED  BY <2>1, <2>2
<1> QED  BY <1>1, <1>5 DEF ValMoves, Labels

\* The value comes from the log.
LEMMA ValLoad ==
  ASSUME RightInv, ~hit', NEW p \in Proc, p[2] = "val", Load(p)
  PROVE  ValMoves(p)
<1> USE ProcFacts
<1>1. PICK o \in Loaded(p, loc[p].dest, Values) :
        /\ Logged(p, <<o[1]>>)
        /\ loc' = [loc EXCEPT ![p].ret = IF call[p].op = "get" THEN o[1] ELSE kStored]
        /\ Note(p, o[2])
  BY DEF Load
<1>2. pc[p] = "load"
      /\ pc' = [pc EXCEPT ![p] = IF call[p].op = "get" THEN "unlock" ELSE "makeVal"]
      /\ UNCHANGED <<memVars, lock, call, pending, left, reported, noteVars>>
  BY DEF Load, Goto
<1>3. struck' \in [Proc -> BOOLEAN] /\ hit' = FALSE  BY <1>1, Quietly
<1>4. Args(p) = <<loc[p].dest>>  BY <1>2, ArgsAre
<1>5. o[1] = log[p][2]
  <2>1. o \in {<<Fetched(p), FALSE>>}  BY <1>1 DEF Loaded
  <2>2. Fetched(p) = log[p][2]  BY <1>4 DEF Fetched
  <2> QED  BY <2>1, <2>2
<1>6. PICK c, k, w, w2 : c = call[p] /\ k = loc[p] /\ w = log[p] /\ w2 = SubSeq(w, 3, Len(w))
  OBVIOUS
<1>7. /\ c \in Asked /\ k.hv = Hash[c.key] /\ k.head \in Places(obj) /\ k \in Locals
      /\ Hit(obj, c, k) /\ k.dest = CellOf(obj, Found(obj, c, k))
  BY <1>2, <1>6 DEF LocalsAt
<1>8. log' = [log EXCEPT ![p] = w2]
  <2>1. log' = [log EXCEPT ![p] = SubSeq(w, Len(Args(p)) + Len(<<o[1]>>) + 1, Len(w))]
    BY <1>1, <1>6 DEF Logged
  <2> QED  BY <1>4, <1>6, <2>1
<1>9. LeftAt(obj, "load", c, k, w)  BY <1>2, <1>6
<1>10. w2 \in Seq(Word)  BY <1>6
<1>11. CASE c.op = "get"
  <2>1. PICK x \in ValuesIn(obj) : w = <<k.dest, x, x, Magic>>
    BY <1>7, <1>9, <1>11 DEF LeftAt
  <2>2. w2 = <<x, Magic>> /\ o[1] = x  BY <1>5, <1>6, <2>1, Rest4_3
  <2>3. PICK l : l = [k EXCEPT !.ret = x]  OBVIOUS
  <2>4. x \in Word  BY Words DEF RightInv
  <2>5. l \in Locals /\ l.ret = x /\ l.hv = k.hv /\ l.head = k.head
    BY <1>7, <2>3, <2>4 DEF Locals
  <2>6. Hit(obj, c, l)  BY <1>7, <2>5 DEF Hit, Found
  <2>7. LocalsAt(obj, "unlock", c, l)  BY <1>7, <1>11, <2>5, <2>6 DEF LocalsAt
  <2>8. LeftAt(obj, "unlock", c, l, w2)  BY <2>2, <2>5 DEF LeftAt
  <2>9. loc' = [loc EXCEPT ![p] = l]  BY <1>1, <1>6, <1>11, <2>2, <2>3
  <2>10. StepTo(p, "unlock", l, w2)  BY <1>2, <1>6, <1>8, <1>11, <2>9 DEF StepTo
  <2> QED  BY <1>2, <1>3, <1>6, <1>10, <2>5, <2>7, <2>8, <2>10 DEF ValMoves, Labels
<1>12. CASE c.op = "set"
  <2>1. PICK a \in Addr, v \in ValuesIn(obj) :
          IsVal(obj, c, v) /\ w = <<k.dest, a, SizeOfVal, v, k.dest, v, kStored, Magic>>
    BY <1>7, <1>9, <1>12 DEF LeftAt
  <2>2. w2 = <<SizeOfVal, v, k.dest, v, kStored, Magic>>  BY <1>6, <2>1, Rest8_3
  <2>3. PICK l : l = [k EXCEPT !.ret = kStored]  OBVIOUS
  <2>4. l \in Locals /\ l.ret = kStored /\ l.hv = k.hv /\ l.head = k.head /\ l.dest = k.dest
    BY <1>7, <2>3, Words DEF RightInv, Locals
  <2>5. Hit(obj, c, l) /\ Found(obj, c, l) = Found(obj, c, k)  BY <1>7, <2>4 DEF Hit, Found
  <2>6. LocalsAt(obj, "makeVal", c, l)  BY <1>7, <1>12, <2>4, <2>5 DEF LocalsAt
  <2>7. LeftAt(obj, "makeVal", c, l, w2)  BY <2>1, <2>2, <2>4 DEF LeftAt
  <2>8. loc' = [loc EXCEPT ![p] = l]  BY <1>1, <1>6, <1>12, <2>3
  <2>9. StepTo(p, "makeVal", l, w2)  BY <1>2, <1>6, <1>8, <1>12, <2>8 DEF StepTo
  <2> QED  BY <1>2, <1>3, <1>6, <1>10, <2>4, <2>6, <2>7, <2>9 DEF ValMoves, Labels
<1>13. c.op \in {"get", "set"}  BY <1>7 DEF Asked, Call
<1> QED  BY <1>11, <1>12, <1>13

\* The cell comes from the log.
LEMMA ValNewCell ==
  ASSUME RightInv, ~hit', NEW p \in Proc, p[2] = "val", NewCell(p)
  PROVE  ValMoves(p)
<1> USE ProcFacts
<1>1. PICK a : a = Allocated(p)  OBVIOUS
<1>2. /\ Logged(p, <<a>>) /\ loc' = [loc EXCEPT ![p].dest = a, ![p].ret = kCreated]
      /\ pc[p] = "newCell" /\ pc' = [pc EXCEPT ![p] = "makeVal"]
      /\ UNCHANGED <<memVars, lock, call, pending, left, reported, hit, struck, noteVars>>
  BY <1>1 DEF NewCell, Goto, memVars
<1>3. hit' = FALSE /\ struck' \in [Proc -> BOOLEAN]  BY <1>2 DEF RightInv, TypesInv
<1>4. Args(p) = << >>  BY <1>2, ArgsAre
<1>5. a = log[p][1]  BY <1>1, <1>4 DEF Allocated, Fetched
<1>6. PICK c, k, w, w2 : c = call[p] /\ k = loc[p] /\ w = log[p] /\ w2 = SubSeq(w, 2, Len(w))
  OBVIOUS
<1>7. /\ c \in Asked /\ k.hv = Hash[c.key] /\ k.head \in Places(obj) /\ k \in Locals
      /\ c.op = "set" /\ ~Hit(obj, c, k)
  BY <1>2, <1>6 DEF LocalsAt
<1>8. log' = [log EXCEPT ![p] = w2]
  <2>1. log' = [log EXCEPT ![p] = SubSeq(w, Len(Args(p)) + Len(<<a>>) + 1, Len(w))]
    BY <1>2, <1>6 DEF Logged
  <2> QED  BY <1>4, <1>6, <2>1
<1>9. LeftAt(obj, "newCell", c, k, w)  BY <1>2, <1>6
<1>10. PICK d \in Addr, v \in ValuesIn(obj), e \in EntriesIn(obj) :
         /\ IsVal(obj, c, v) /\ IsEntry(obj, c, d, k.head, e)
         /\ w = <<d, SizeOfVal, v, d, v, SizeOfEntry, e, k.hv, e, kCreated, Magic>>
  BY <1>7, <1>9 DEF LeftAt
<1>11. /\ w2 = <<SizeOfVal, v, d, v, SizeOfEntry, e, k.hv, e, kCreated, Magic>> /\ a = d
  BY <1>5, <1>6, <1>10, Rest11_2
<1>12. PICK l : l = [k EXCEPT !.dest = d, !.ret = kCreated]  OBVIOUS
<1>13. /\ l \in Locals /\ l.ret = kCreated /\ l.hv = k.hv /\ l.head = k.head /\ l.dest = d
  BY <1>7, <1>12, Words DEF RightInv, Locals
<1>14. ~Hit(obj, c, l)  BY <1>7, <1>13 DEF Hit, Found
<1>15. LocalsAt(obj, "makeVal", c, l)  BY <1>7, <1>13, <1>14 DEF LocalsAt
<1>16. LeftAt(obj, "makeVal", c, l, w2)  BY <1>10, <1>11, <1>13 DEF LeftAt
<1>17. loc' = [loc EXCEPT ![p] = l]  BY <1>2, <1>6, <1>11, <1>12
<1>18. StepTo(p, "makeVal", l, w2)  BY <1>2, <1>8, <1>17 DEF StepTo
<1>19. w2 \in Seq(Word)  BY <1>6
<1> QED  BY <1>2, <1>3, <1>6, <1>13, <1>15, <1>16, <1>18, <1>19 DEF ValMoves, Labels

\* The address of the value comes from the log, with the value of the call in it.
LEMMA ValMakeVal ==
  ASSUME RightInv, ~hit', NEW p \in Proc, p[2] = "val", MakeVal(p)
  PROVE  ValMoves(p)
<1> USE ProcFacts
<1>1. PICK a : a = Allocated(p)  OBVIOUS
<1>2. PICK o :
        /\ Logged(p, <<a>>) /\ loc' = [loc EXCEPT ![p].made = a] /\ Note(p, o[2])
        /\ pc[p] = "makeVal" /\ pc' = [pc EXCEPT ![p] = "store"]
        /\ UNCHANGED <<memVars, lock, call, pending, left, reported, noteVars>>
  BY <1>1 DEF MakeVal, Goto, memVars
<1>3. struck' \in [Proc -> BOOLEAN] /\ hit' = FALSE  BY <1>2, Quietly
<1>4. Args(p) = <<SizeOfVal>>  BY <1>2, ArgsAre
<1>5. a = log[p][2]  BY <1>1, <1>4 DEF Allocated, Fetched
<1>6. PICK c, k, w, w2 : c = call[p] /\ k = loc[p] /\ w = log[p] /\ w2 = SubSeq(w, 3, Len(w))
  OBVIOUS
<1>7. /\ c \in Asked /\ k.hv = Hash[c.key] /\ k.head \in Places(obj) /\ k \in Locals
      /\ c.op = "set"
      /\ \/ k.ret = kStored /\ Hit(obj, c, k) /\ k.dest = CellOf(obj, Found(obj, c, k))
         \/ k.ret = kCreated /\ ~Hit(obj, c, k)
  BY <1>2, <1>6 DEF LocalsAt
<1>8. log' = [log EXCEPT ![p] = w2]
  <2>1. log' = [log EXCEPT ![p] = SubSeq(w, Len(Args(p)) + Len(<<a>>) + 1, Len(w))]
    BY <1>2, <1>6 DEF Logged
  <2> QED  BY <1>4, <1>6, <2>1
<1>9. LeftAt(obj, "makeVal", c, k, w)  BY <1>2, <1>6
<1>10. PICK l : l = [k EXCEPT !.made = a]  OBVIOUS
<1>11. \/ /\ k.ret = kStored
          /\ \E v \in ValuesIn(obj) :
               IsVal(obj, c, v) /\ w = <<SizeOfVal, v, k.dest, v, kStored, Magic>>
       \/ /\ k.ret = kCreated
          /\ \E v \in ValuesIn(obj), e \in EntriesIn(obj) :
               /\ IsVal(obj, c, v) /\ IsEntry(obj, c, k.dest, k.head, e)
               /\ w = <<SizeOfVal, v, k.dest, v, SizeOfEntry, e, k.hv, e, kCreated, Magic>>
  BY <1>9 DEF LeftAt
<1>12. IsVal(obj, c, a) /\ LeftAt(obj, "store", c, l, w2)
  <2>1. l.dest = k.dest /\ l.made = a /\ l.ret = k.ret /\ l.head = k.head /\ l.hv = k.hv
    BY <1>7, <1>10 DEF Locals
  <2>2. CASE k.ret = kStored
    <3>1. PICK v \in ValuesIn(obj) :
            IsVal(obj, c, v) /\ w = <<SizeOfVal, v, k.dest, v, kStored, Magic>>
      BY <1>11, <2>2, WordsDiffer
    <3>2. w2 = <<k.dest, v, kStored, Magic>> /\ a = v  BY <1>5, <1>6, <3>1, Rest6_3
    <3> QED  BY <2>1, <2>2, <3>1, <3>2 DEF LeftAt
  <2>3. CASE k.ret = kCreated
    <3>1. PICK v \in ValuesIn(obj), e \in EntriesIn(obj) :
            /\ IsVal(obj, c, v) /\ IsEntry(obj, c, k.dest, k.head, e)
            /\ w = <<SizeOfVal, v, k.dest, v, SizeOfEntry, e, k.hv, e, kCreated, Magic>>
      BY <1>11, <2>3, WordsDiffer
    <3>2. w2 = <<k.dest, v, SizeOfEntry, e, k.hv, e, kCreated, Magic>> /\ a = v
      BY <1>5, <1>6, <3>1, Rest10_3
    <3> QED  BY <2>1, <2>3, <3>1, <3>2 DEF LeftAt
  <2> QED  BY <1>7, <2>2, <2>3
<1>13. a \in Word  BY <1>12, Words DEF RightInv, IsVal
<1>14. /\ l \in Locals /\ l.made = a /\ l.ret = k.ret /\ l.hv = k.hv /\ l.head = k.head
       /\ l.dest = k.dest
  BY <1>7, <1>10, <1>13 DEF Locals
<1>15. (Hit(obj, c, l) <=> Hit(obj, c, k)) /\ Found(obj, c, l) = Found(obj, c, k)
  BY <1>14 DEF Hit, Found
<1>16. LocalsAt(obj, "store", c, l)  BY <1>7, <1>12, <1>14, <1>15 DEF LocalsAt
<1>17. loc' = [loc EXCEPT ![p] = l]  BY <1>2, <1>6, <1>10
<1>18. StepTo(p, "store", l, w2)  BY <1>2, <1>8, <1>17 DEF StepTo
<1>19. w2 \in Seq(Word)  BY <1>6
<1> QED  BY <1>2, <1>3, <1>6, <1>12, <1>14, <1>16, <1>18, <1>19 DEF ValMoves, Labels

\* The validator compares what it would store.
LEMMA ValStore ==
  ASSUME RightInv, ~hit', NEW p \in Proc, p[2] = "val", Store(p)
  PROVE  ValMoves(p)
<1> USE ProcFacts
<1>1. PICK o : Note(p, o[2]) /\ cell' = cell
  BY DEF Store
<1>2. /\ Logged(p, << >>) /\ pc[p] = "store"
      /\ pc' = [pc EXCEPT ![p] = IF loc[p].ret = kStored THEN "unlock" ELSE "makeEntry"]
      /\ UNCHANGED <<memVars, lock, call, loc, pending, left, reported, noteVars>>
  BY <1>1 DEF Store, Goto, memVars
<1>3. struck' \in [Proc -> BOOLEAN] /\ hit' = FALSE  BY <1>1, Quietly
<1>4. Args(p) = <<loc[p].dest, loc[p].made>>  BY <1>2, ArgsAre
<1>5. PICK c, l, w, w2 : c = call[p] /\ l = loc[p] /\ w = log[p] /\ w2 = SubSeq(w, 3, Len(w))
  OBVIOUS
<1>6. LocalsAt(obj, "store", c, l) /\ LeftAt(obj, "store", c, l, w) /\ l \in Locals
  BY <1>2, <1>5
<1>7. log' = [log EXCEPT ![p] = w2]
  <2>1. log' = [log EXCEPT ![p] = SubSeq(w, Len(Args(p)) + Len(<< >>) + 1, Len(w))]
    BY <1>2, <1>5 DEF Logged
  <2> QED  BY <1>4, <1>5, <2>1
<1>8. loc' = [loc EXCEPT ![p] = l]  BY <1>2, <1>5 DEF RightInv, TypesInv
<1>9. w2 \in Seq(Word)  BY <1>5
<1>10. CASE l.ret = kStored
  <2>1. w = <<l.dest, l.made, kStored, Magic>>  BY <1>6, <1>10, WordsDiffer DEF LeftAt
  <2>2. w2 = <<kStored, Magic>>  BY <1>5, <2>1, Rest4_3
  <2>3. LocalsAt(obj, "unlock", c, l)  BY <1>6, <1>10, WordsDiffer DEF LocalsAt
  <2>4. LeftAt(obj, "unlock", c, l, w2)  BY <1>10, <2>2 DEF LeftAt
  <2>5. StepTo(p, "unlock", l, w2)  BY <1>2, <1>5, <1>7, <1>8, <1>10 DEF StepTo
  <2>6. "unlock" \in Labels /\ UNCHANGED <<memVars, lock, noteVars>>  BY <1>2 DEF Labels
  <2> QED  BY <1>3, <1>5, <1>6, <1>9, <2>3, <2>4, <2>5, <2>6 DEF ValMoves
<1>11. CASE l.ret # kStored
  <2>1. l.ret = kCreated  BY <1>6, <1>11 DEF LocalsAt
  <2>2. PICK e \in EntriesIn(obj) :
          /\ IsEntry(obj, c, l.dest, l.head, e)
          /\ w = <<l.dest, l.made, SizeOfEntry, e, l.hv, e, kCreated, Magic>>
    BY <1>6, <1>11 DEF LeftAt
  <2>3. w2 = <<SizeOfEntry, e, l.hv, e, kCreated, Magic>>  BY <1>5, <2>2, Rest8_3
  <2>4. LocalsAt(obj, "makeEntry", c, l)  BY <1>6, <1>11, <2>1 DEF LocalsAt
  <2>5. LeftAt(obj, "makeEntry", c, l, w2)  BY <2>2, <2>3 DEF LeftAt
  <2>6. StepTo(p, "makeEntry", l, w2)  BY <1>2, <1>5, <1>7, <1>8, <1>11 DEF StepTo
  <2>7. "makeEntry" \in Labels /\ UNCHANGED <<memVars, lock, noteVars>>  BY <1>2 DEF Labels
  <2> QED  BY <1>3, <1>5, <1>6, <1>9, <2>4, <2>5, <2>6, <2>7 DEF ValMoves
<1> QED  BY <1>10, <1>11

\* The address of the entry comes from the log.
LEMMA ValMakeEntry ==
  ASSUME RightInv, ~hit', NEW p \in Proc, p[2] = "val", MakeEntry(p)
  PROVE  ValMoves(p)
<1> USE ProcFacts
<1>1. PICK a : a = Allocated(p)  OBVIOUS
<1>2. PICK o :
        /\ Logged(p, <<a>>) /\ loc' = [loc EXCEPT ![p].made = a] /\ Note(p, o[2])
        /\ pc[p] = "makeEntry" /\ pc' = [pc EXCEPT ![p] = "link"]
        /\ UNCHANGED <<memVars, lock, call, pending, left, reported, noteVars>>
  BY <1>1 DEF MakeEntry, Goto, memVars
<1>3. struck' \in [Proc -> BOOLEAN] /\ hit' = FALSE  BY <1>2, Quietly
<1>4. Args(p) = <<SizeOfEntry>>  BY <1>2, ArgsAre
<1>5. a = log[p][2]  BY <1>1, <1>4 DEF Allocated, Fetched
<1>6. PICK c, k, w, w2 : c = call[p] /\ k = loc[p] /\ w = log[p] /\ w2 = SubSeq(w, 3, Len(w))
  OBVIOUS
<1>7. LocalsAt(obj, "makeEntry", c, k) /\ LeftAt(obj, "makeEntry", c, k, w) /\ k \in Locals
  BY <1>2, <1>6
<1>8. log' = [log EXCEPT ![p] = w2]
  <2>1. log' = [log EXCEPT ![p] = SubSeq(w, Len(Args(p)) + Len(<<a>>) + 1, Len(w))]
    BY <1>2, <1>6 DEF Logged
  <2> QED  BY <1>4, <1>6, <2>1
<1>9. PICK e \in EntriesIn(obj) :
        /\ IsEntry(obj, c, k.dest, k.head, e)
        /\ w = <<SizeOfEntry, e, k.hv, e, kCreated, Magic>>
  BY <1>7 DEF LeftAt
<1>10. w2 = <<k.hv, e, kCreated, Magic>> /\ a = e  BY <1>5, <1>6, <1>9, Rest6_3
<1>11. PICK l : l = [k EXCEPT !.made = e]  OBVIOUS
<1>12. e \in Word  BY Words DEF RightInv
<1>13. /\ l \in Locals /\ l.made = e /\ l.ret = k.ret /\ l.hv = k.hv /\ l.head = k.head
       /\ l.dest = k.dest
  BY <1>7, <1>11, <1>12 DEF Locals
<1>14. Hit(obj, c, l) <=> Hit(obj, c, k)  BY <1>13 DEF Hit, Found
<1>15. LocalsAt(obj, "link", c, l)  BY <1>7, <1>9, <1>13, <1>14 DEF LocalsAt
<1>16. LeftAt(obj, "link", c, l, w2)  BY <1>10, <1>13 DEF LeftAt
<1>17. loc' = [loc EXCEPT ![p] = l]  BY <1>2, <1>6, <1>10, <1>11
<1>18. StepTo(p, "link", l, w2)  BY <1>2, <1>8, <1>17 DEF StepTo
<1>19. w2 \in Seq(Word)  BY <1>6
<1> QED  BY <1>2, <1>3, <1>6, <1>13, <1>15, <1>16, <1>18, <1>19 DEF ValMoves, Labels

\* The validator compares what it would link.
LEMMA ValLink ==
  ASSUME RightInv, ~hit', NEW p \in Proc, p[2] = "val", Link(p)
  PROVE  ValMoves(p)
<1> USE ProcFacts
<1>1. PICK o : Note(p, o[2]) /\ cell' = cell
  BY DEF Link
<1>2. /\ Logged(p, << >>) /\ pc[p] = "link" /\ pc' = [pc EXCEPT ![p] = "unlock"]
      /\ UNCHANGED <<memVars, lock, call, loc, pending, left, reported, noteVars>>
  BY <1>1 DEF Link, Goto, memVars
<1>3. struck' \in [Proc -> BOOLEAN] /\ hit' = FALSE  BY <1>1, Quietly
<1>4. Args(p) = <<loc[p].hv, loc[p].made>>  BY <1>2, ArgsAre
<1>5. PICK c, l, w, w2 : c = call[p] /\ l = loc[p] /\ w = log[p] /\ w2 = SubSeq(w, 3, Len(w))
  OBVIOUS
<1>6. LocalsAt(obj, "link", c, l) /\ LeftAt(obj, "link", c, l, w) /\ l \in Locals
  BY <1>2, <1>5
<1>7. log' = [log EXCEPT ![p] = w2]
  <2>1. log' = [log EXCEPT ![p] = SubSeq(w, Len(Args(p)) + Len(<< >>) + 1, Len(w))]
    BY <1>2, <1>5 DEF Logged
  <2> QED  BY <1>4, <1>5, <2>1
<1>8. loc' = [loc EXCEPT ![p] = l]  BY <1>2, <1>5 DEF RightInv, TypesInv
<1>9. w2 \in Seq(Word)  BY <1>5
<1>10. w = <<l.hv, l.made, kCreated, Magic>>  BY <1>6 DEF LeftAt
<1>11. w2 = <<kCreated, Magic>>  BY <1>5, <1>10, Rest4_3
<1>12. LocalsAt(obj, "unlock", c, l) /\ l.ret = kCreated  BY <1>6 DEF LocalsAt
<1>13. LeftAt(obj, "unlock", c, l, w2)  BY <1>11, <1>12 DEF LeftAt
<1>14. StepTo(p, "unlock", l, w2)  BY <1>2, <1>7, <1>8 DEF StepTo
<1>15. "unlock" \in Labels /\ UNCHANGED <<memVars, lock, noteVars>>  BY <1>2 DEF Labels
<1> QED  BY <1>3, <1>5, <1>6, <1>9, <1>12, <1>13, <1>14, <1>15 DEF ValMoves

\* Nothing is read to leave the bucket.
LEMMA ValUnlock ==
  ASSUME RightInv, ~hit', NEW p \in Proc, p[2] = "val", Unlock(p)
  PROVE  ValMoves(p)
<1> USE ProcFacts
<1>1. /\ pc[p] = "unlock" /\ pc' = [pc EXCEPT ![p] = "return"]
      /\ UNCHANGED <<memVars, lock, call, loc, log, pending, left, reported, hit, struck, noteVars>>
  BY DEF Unlock, Goto, noteVars
<1>2. hit' = FALSE /\ struck' \in [Proc -> BOOLEAN]  BY <1>1 DEF RightInv, TypesInv
<1>3. PICK c, l, w : c = call[p] /\ l = loc[p] /\ w = log[p]  OBVIOUS
<1>4. LocalsAt(obj, "unlock", c, l) /\ LeftAt(obj, "unlock", c, l, w) /\ l \in Locals
      /\ w \in Seq(Word)
  BY <1>1, <1>3
<1>5. LocalsAt(obj, "return", c, l)  BY <1>4 DEF LocalsAt
<1>6. LeftAt(obj, "return", c, l, w)  BY <1>4 DEF LeftAt
<1>7. StepTo(p, "return", l, w)
  BY <1>1, <1>3 DEF StepTo, RightInv, TypesInv
<1> QED  BY <1>1, <1>2, <1>3, <1>4, <1>5, <1>6, <1>7 DEF ValMoves, Labels

-----------------------------------------------------------------------------
(* The validator's assertions hold. *)

\* A sequence begins with another when it has the same words there.
LEMMA Begins ==
  ASSUME NEW S, NEW x \in Seq(S), NEW w \in Seq(S), Len(x) <= Len(w),
         \A i \in 1 .. Len(x) : x[i] = w[i]
  PROVE  IsPrefix(x, w)
<1>1. Len(x) \in Nat /\ Len(w) \in Nat  OBVIOUS
<1>2. PICK n : n = Len(x)  OBVIOUS
<1>3. PICK y, z : y = SubSeq(x, 1, n) /\ z = SubSeq(w, 1, n)  OBVIOUS
<1>4. y \in Seq(S) /\ Len(y) = n /\ \A i \in 1 .. n : y[i] = x[i]  BY <1>1, <1>2, <1>3
<1>5. z \in Seq(S) /\ Len(z) = n /\ \A i \in 1 .. n : z[i] = w[i]  BY <1>1, <1>2, <1>3
<1>6. y = z  BY <1>1, <1>2, <1>4, <1>5, SeqEqual
<1> QED  BY <1>2, <1>3, <1>6 DEF IsPrefix

\* Where the invariant holds, no assertion of a validator fails.
LEMMA ValPasses ==
  ASSUME RightInv, NEW p \in Proc, p[2] = "val"
  PROVE  Passes(p)
<1> USE ProcFacts
<1>1. PICK s, c, l, w : s = pc[p] /\ c = call[p] /\ l = loc[p] /\ w = log[p]  OBVIOUS
<1>2. /\ s \in Labels /\ LocalsAt(obj, s, c, l) /\ LeftAt(obj, s, c, l, w)
      /\ l \in Locals /\ w \in Seq(Word)
  BY <1>1
<1>3. \A a \in DOMAIN obj : obj[a].sum = obj[a].data  BY DEF RightInv, ObjInv, HeapInv, Honest
<1>4. /\ l.hv \in Word /\ l.dest \in Word /\ l.made \in Word /\ l.ret \in Word
      /\ SizeOfVal \in Word /\ SizeOfEntry \in Word
  BY <1>2, Words DEF Locals, RightInv
<1>5. ASSUME NEW a \in Word, Len(w) >= 1, w[1] = a PROVE IsPrefix(<<a>>, w)
  <2>1. PICK x : x = <<a>>  OBVIOUS
  <2>2. x \in Seq(Word) /\ Len(x) = 1 /\ x[1] = a  BY <2>1
  <2>3. \A i \in 1 .. Len(x) : x[i] = w[i]  BY <1>5, <2>2
  <2> QED  BY <1>2, <1>5, <2>1, <2>2, <2>3, Begins
<1>6. ASSUME NEW a \in Word, NEW b \in Word, Len(w) >= 2, w[1] = a, w[2] = b
      PROVE  IsPrefix(<<a, b>>, w)
  <2>1. PICK x : x = <<a, b>>  OBVIOUS
  <2>2. x \in Seq(Word) /\ Len(x) = 2 /\ x[1] = a /\ x[2] = b  BY <2>1
  <2>3. \A i \in 1 .. Len(x) : x[i] = w[i]  BY <1>6, <2>2
  <2> QED  BY <1>2, <1>6, <2>1, <2>2, <2>3, Begins
<1>7. IsPrefix(<< >>, w)
  <2>1. PICK x : x = << >>  OBVIOUS
  <2>2. x \in Seq(Word) /\ Len(x) = 0  BY <2>1
  <2>3. Len(x) <= Len(w) /\ \A i \in 1 .. Len(x) : x[i] = w[i]  BY <1>2, <2>2
  <2> QED  BY <1>2, <2>1, <2>2, <2>3, Begins
<1>8. CASE s = "head"
  <2>1. Full(obj, c, w) /\ l.hv = Hash[c.key]  BY <1>2, <1>8 DEF LeftAt, LocalsAt
  <2>2. Len(w) >= 1 /\ w[1] = l.hv  BY <2>1 DEF Full
  <2>3. IsPrefix(<<l.hv>>, w)  BY <1>4, <1>5, <2>2
  <2> QED  BY <1>1, <1>8, <2>3, ArgsAre DEF Passes, Agrees
<1>9. CASE s = "load"
  <2>1. Hit(obj, c, l) /\ l.dest = CellOf(obj, Found(obj, c, l))  BY <1>2, <1>9 DEF LocalsAt
  <2>2. Len(w) >= 1 /\ w[1] = l.dest  BY <1>2, <1>9, <2>1 DEF LeftAt
  <2>3. IsPrefix(<<l.dest>>, w)  BY <1>4, <1>5, <2>2
  <2> QED  BY <1>1, <1>9, <2>3, ArgsAre DEF Passes, Agrees
<1>10. CASE s = "makeVal"
  <2>1. Len(w) >= 2 /\ w[1] = SizeOfVal /\ IsVal(obj, c, w[2])  BY <1>2, <1>10 DEF LeftAt
  <2>2. obj[w[2]].sum = c.val  BY <1>3, <2>1 DEF IsVal, ValuesIn
  <2>3. IsPrefix(<<SizeOfVal>>, w)  BY <1>4, <1>5, <2>1
  <2> QED  BY <1>1, <1>10, <2>2, <2>3, ArgsAre DEF Passes, Agrees
<1>11. CASE s = "store"
  <2>1. Len(w) >= 2 /\ w[1] = l.dest /\ w[2] = l.made  BY <1>2, <1>11 DEF LeftAt
  <2>2. IsPrefix(<<l.dest, l.made>>, w)  BY <1>4, <1>6, <2>1
  <2> QED  BY <1>1, <1>11, <2>2, ArgsAre DEF Passes, Agrees
<1>12. CASE s = "makeEntry"
  <2>1. Len(w) >= 2 /\ w[1] = SizeOfEntry /\ IsEntry(obj, c, l.dest, l.head, w[2])
    BY <1>2, <1>12 DEF LeftAt
  <2>2. obj[w[2]].sum = [key |-> c.key, cell |-> l.dest, next |-> l.head]
    BY <1>3, <2>1 DEF IsEntry, EntriesIn
  <2>3. IsPrefix(<<SizeOfEntry>>, w)  BY <1>4, <1>5, <2>1
  <2> QED  BY <1>1, <1>12, <2>2, <2>3, ArgsAre DEF Passes, Agrees, NewEntry
<1>13. CASE s = "link"
  <2>1. Len(w) >= 2 /\ w[1] = l.hv /\ w[2] = l.made  BY <1>2, <1>13 DEF LeftAt
  <2>2. IsPrefix(<<l.hv, l.made>>, w)  BY <1>4, <1>6, <2>1
  <2> QED  BY <1>1, <1>13, <2>2, ArgsAre DEF Passes, Agrees
<1>14. CASE s = "return"
  <2>1. w = <<l.ret, Magic>>  BY <1>2, <1>14 DEF LeftAt
  <2>2. IsPrefix(<<l.ret>>, w)  BY <1>4, <1>5, <2>1
  <2>3. Tail(w) = <<Magic>>  BY <2>1
  <2> QED  BY <1>1, <1>14, <2>2, <2>3, ArgsAre DEF Passes, Agrees
<1>15. CASE s \in {"idle", "lock", "walk", "newCell", "unlock"}
  <2>1. Args(p) = << >>  BY <1>1, <1>15 DEF Args
  <2> QED  BY <1>1, <1>7, <1>15, <2>1 DEF Passes, Agrees
<1> QED
  BY <1>2, <1>8, <1>9, <1>10, <1>11, <1>12, <1>13, <1>14, <1>15 DEF Labels

-----------------------------------------------------------------------------
(* From one process to the invariant. *)

\* p goes to label s with this closure, these locals and this log.
Moved(p, s, c, l, w) ==
  /\ pc' = [pc EXCEPT ![p] = s] /\ call' = [call EXCEPT ![p] = c]
  /\ loc' = [loc EXCEPT ![p] = l] /\ log' = [log EXCEPT ![p] = w]

\* The other variables keep their types.
Typed ==
  /\ lock' \in [Bucket -> App \cup {NoApp}]
  /\ pending' \in [App -> Seq([call : Asked, struck : BOOLEAN, words : Seq(Word)])]
  /\ left' \in 0 .. MaxOps /\ hit' = FALSE /\ wrong' \in BOOLEAN
  /\ struck' \in [Proc -> BOOLEAN] /\ reported' = reported
  /\ spec' \in [Key -> Val \cup {NoVal}] /\ DOMAIN owed' = App

\* A step moves one process: what the invariant says of the others is kept as
\* objects only come and the cells that others hold are theirs.
LEMMA Frame ==
  ASSUME RightInv, NEW p \in Proc,
         NEW s \in Labels, NEW c \in Call \cup {NoCall}, NEW l \in Locals, NEW w \in Seq(Word),
         Moved(p, s, c, l, w), Typed,
         ObjInv(obj', top'), CellInv(cell', obj', top'), Grows(obj, obj'),
         LocalsAt(obj', s, c, l),
         p[2] = "app" => /\ WroteAt(obj', s, c, l, w)
                         /\ HoldsAt(cell', obj', lock', s, c, l, p[1]),
         p[2] = "val" => LeftAt(obj', s, c, l, w),
         \A u \in App : A(u) # p =>
           /\ HoldsAt(cell', obj', lock', pc[A(u)], call[A(u)], loc[A(u)], u)
           /\ p[2] = "app" /\ Owns(s, l) /\ Owns(pc[A(u)], loc[A(u)])
              => l.dest # loc[A(u)].dest,
         \A u \in App : \A i \in DOMAIN pending'[u] :
           Full(obj', pending'[u][i].call, pending'[u][i].words)
  PROVE  RightInv'
<1> USE ProcFacts
<1>1. /\ pc'[p] = s /\ call'[p] = c /\ loc'[p] = l /\ log'[p] = w
      /\ \A q \in Proc \ {p} : /\ pc'[q] = pc[q] /\ call'[q] = call[q]
                               /\ loc'[q] = loc[q] /\ log'[q] = log[q]
  BY DEF Moved, RightInv, TypesInv
<1>2. TypesInv' /\ ~reported'
  <2>1. /\ pc' \in [Proc -> Labels] /\ call' \in [Proc -> Call \cup {NoCall}]
        /\ loc' \in [Proc -> Locals] /\ log' \in [Proc -> Seq(Word)]
    BY DEF Moved, RightInv, TypesInv
  <2> QED  BY <2>1 DEF RightInv, Typed, TypesInv
<1>3. \A u \in App : A(u) \in Proc /\ V(u) \in Proc /\ A(u)[2] = "app" /\ V(u)[2] = "val"
                     /\ A(u)[1] = u /\ V(u) # A(u)
  BY DEF A, V, Proc, Side
<1>4. \A u, v \in App : A(u) # V(v)  BY DEF A, V
<1>5. ObjInv(obj, top)  BY DEF RightInv
<1>6. ASSUME NEW q \in Proc PROVE LocalsAt(obj', pc'[q], call'[q], loc'[q])
  <2>1. CASE q = p  BY <1>1, <2>1
  <2>2. CASE q # p
    <3>1. LocalsAt(obj', pc[q], call[q], loc[q])  BY <1>5, LocalsKept
    <3> QED  BY <1>1, <2>2, <3>1
  <2> QED  BY <2>1, <2>2
<1>7. ASSUME NEW u \in App
      PROVE  /\ WroteAt(obj', pc'[A(u)], call'[A(u)], loc'[A(u)], log'[A(u)])
             /\ HoldsAt(cell', obj', lock', pc'[A(u)], call'[A(u)], loc'[A(u)], u)
  <2>1. CASE A(u) = p  BY <1>1, <1>3, <2>1
  <2>2. CASE A(u) # p
    <3>1. PICK q \in Proc : q = A(u)  BY <1>3
    <3>2. q[2] = "app" /\ q # p  BY <1>3, <2>2, <3>1
    <3>3. WroteAt(obj', pc[q], call[q], loc[q], log[q])
      BY <1>5, <3>2, WroteKept
    <3>4. HoldsAt(cell', obj', lock', pc[q], call[q], loc[q], u)
      BY <2>2, <3>1
    <3> QED  BY <1>1, <3>1, <3>2, <3>3, <3>4
  <2> QED  BY <2>1, <2>2
<1>8. ASSUME NEW u \in App
      PROVE  LeftAt(obj', pc'[V(u)], call'[V(u)], loc'[V(u)], log'[V(u)])
  <2>1. CASE V(u) = p  BY <1>1, <1>3, <2>1
  <2>2. CASE V(u) # p
    <3>1. PICK q \in Proc : q = V(u)  BY <1>3
    <3>2. q[2] = "val" /\ q # p  BY <1>3, <2>2, <3>1
    <3>3. LeftAt(obj', pc[q], call[q], loc[q], log[q])
      BY <1>5, <3>2, LeftKept
    <3> QED  BY <1>1, <3>1, <3>2, <3>3
  <2> QED  BY <2>1, <2>2
<1>9. ASSUME NEW t \in App, NEW u \in App,
             Owns(pc'[A(t)], loc'[A(t)]), Owns(pc'[A(u)], loc'[A(u)]),
             loc'[A(t)].dest = loc'[A(u)].dest
      PROVE  t = u
  <2>1. CASE A(t) # p /\ A(u) # p
    <3>1. Owns(pc[A(t)], loc[A(t)]) /\ Owns(pc[A(u)], loc[A(u)])
          /\ loc[A(t)].dest = loc[A(u)].dest
      BY <1>1, <1>3, <1>9, <2>1
    <3> QED  BY <3>1 DEF RightInv
  <2>2. CASE A(t) = p /\ A(u) # p
    <3>1. p[2] = "app" /\ Owns(s, l) /\ Owns(pc[A(u)], loc[A(u)])
          /\ l.dest = loc[A(u)].dest
      BY <1>1, <1>3, <1>9, <2>2
    <3> QED  BY <2>2, <3>1
  <2>3. CASE A(t) # p /\ A(u) = p
    <3>1. p[2] = "app" /\ Owns(s, l) /\ Owns(pc[A(t)], loc[A(t)])
          /\ l.dest = loc[A(t)].dest
      BY <1>1, <1>3, <1>9, <2>3
    <3> QED  BY <2>3, <3>1
  <2>4. CASE A(t) = p /\ A(u) = p  BY <1>3, <2>4
  <2> QED  BY <2>1, <2>2, <2>3, <2>4
<1> QED  BY <1>2, <1>6, <1>7, <1>8, <1>9 DEF RightInv

\* Memory, locks and logs that are left alone.
LEMMA Still ==
  ASSUME RightInv, UNCHANGED <<memVars, lock>>
  PROVE  /\ ObjInv(obj', top') /\ CellInv(cell', obj', top') /\ Grows(obj, obj')
         /\ \A u \in App : HoldsAt(cell', obj', lock', pc[A(u)], call[A(u)], loc[A(u)], u)
         /\ pending' = pending => \A u \in App : \A i \in DOMAIN pending'[u] :
              Full(obj', pending'[u][i].call, pending'[u][i].words)
<1>1. obj' = obj /\ top' = top /\ cell' = cell /\ lock' = lock  BY DEF memVars
<1>2. Grows(obj, obj')  BY <1>1 DEF Grows
<1> QED  BY <1>1, <1>2 DEF RightInv

\* A validator changes nothing but itself.
LEMMA ValFrame ==
  ASSUME RightInv, NEW p \in Proc, p[2] = "val", ValMoves(p)
  PROVE  RightInv'
<1> USE ProcFacts
<1>1. PICK s \in Labels, l \in Locals, w \in Seq(Word) :
        /\ StepTo(p, s, l, w) /\ LocalsAt(obj, s, call[p], l) /\ LeftAt(obj, s, call[p], l, w)
        /\ UNCHANGED <<memVars, lock, noteVars>> /\ struck' \in [Proc -> BOOLEAN] /\ hit' = FALSE
  BY DEF ValMoves
<1>2. Moved(p, s, call[p], l, w)  BY <1>1 DEF Moved, StepTo, RightInv, TypesInv
<1>3. Typed  BY <1>1 DEF Typed, StepTo, RightInv, TypesInv, noteVars
<1>4. obj' = obj /\ pending' = pending  BY <1>1 DEF StepTo, memVars
<1>5. LocalsAt(obj', s, call[p], l) /\ LeftAt(obj', s, call[p], l, w)  BY <1>1, <1>4
<1>6. /\ ObjInv(obj', top') /\ CellInv(cell', obj', top') /\ Grows(obj, obj')
      /\ \A u \in App : HoldsAt(cell', obj', lock', pc[A(u)], call[A(u)], loc[A(u)], u)
      /\ \A u \in App : \A i \in DOMAIN pending'[u] :
           Full(obj', pending'[u][i].call, pending'[u][i].words)
  BY <1>1, <1>4, Still
<1>7. p[2] # "app"  OBVIOUS
<1> QED  BY <1>2, <1>3, <1>5, <1>6, <1>7, Frame

\* validate_one: the oldest log becomes the one to read.
LEMMA ValOpen ==
  ASSUME RightInv, ~hit', NEW t \in App, Open(t)
  PROVE  RightInv'
<1> USE ProcFacts
<1>1. PICK p \in Proc : p = V(t)  BY DEF V, Proc, Side
<1>2. PICK c, w, f : c = Head(pending[t]).call /\ w = Head(pending[t]).words
                     /\ f = Head(pending[t]).struck
  OBVIOUS
<1>3. /\ pc[p] = "idle" /\ pending[t] # << >> /\ Moved(p, "lock", c, loc[p], w)
      /\ struck' = [struck EXCEPT ![p] = f]
      /\ pending' = [pending EXCEPT ![t] = Tail(@)]
      /\ UNCHANGED <<memVars, lock, left, reported, hit, noteVars>>
  <2>1. loc' = [loc EXCEPT ![p] = loc[p]]  BY DEF Open, RightInv, TypesInv
  <2> QED  BY <1>1, <1>2, <2>1 DEF Open, V, Goto, Moved
<1>4. PICK R : /\ R = [call : Asked, struck : BOOLEAN, words : Seq(Word)]
               /\ pending \in [App -> Seq(R)]
  BY DEF RightInv, TypesInv
<1>5. /\ Head(pending[t]) = pending[t][1] /\ 1 \in DOMAIN pending[t]
      /\ Head(pending[t]) \in R /\ Tail(pending[t]) \in Seq(R)
      /\ \A i \in DOMAIN Tail(pending[t]) :
           i + 1 \in DOMAIN pending[t] /\ Tail(pending[t])[i] = pending[t][i + 1]
  <2>1. PICK q : q = pending[t]  OBVIOUS
  <2>2. q \in Seq(R) /\ q # << >>  BY <1>3, <1>4, <2>1
  <2>3. /\ Head(q) \in R /\ Tail(q) \in Seq(R) /\ Len(Tail(q)) = Len(q) - 1
        /\ \A i \in 1 .. Len(Tail(q)) : Tail(q)[i] = q[i + 1]
    BY <2>2, HeadTailProperties
  <2>4. Head(q) = q[1] /\ Len(q) \in Nat /\ Len(q) # 0  BY <2>2, EmptySeq
  <2>5. DOMAIN q = 1 .. Len(q) /\ DOMAIN Tail(q) = 1 .. Len(Tail(q))  BY <2>2, <2>3
  <2> QED  BY <2>1, <2>3, <2>4, <2>5
<1>6. c \in Asked /\ w \in Seq(Word) /\ f \in BOOLEAN  BY <1>2, <1>4, <1>5
<1>7. Full(obj, c, w)  BY <1>2, <1>5 DEF RightInv
<1>8. p[2] = "val" /\ p[2] # "app"  BY <1>1 DEF V
<1>9. loc[p] = Fresh  BY <1>3 DEF LocalsAt
<1>10. obj' = obj  BY <1>3 DEF memVars
<1>11. LocalsAt(obj', "lock", c, loc[p]) /\ LeftAt(obj', "lock", c, loc[p], w)
  BY <1>6, <1>7, <1>9, <1>10 DEF LocalsAt, LeftAt
<1>12. Typed
  <2>1. pending' \in [App -> Seq(R)]  BY <1>3, <1>4, <1>5
  <2> QED  BY <1>3, <1>4, <1>6, <2>1 DEF Typed, RightInv, TypesInv, noteVars
<1>13. /\ ObjInv(obj', top') /\ CellInv(cell', obj', top') /\ Grows(obj, obj')
       /\ \A u \in App : HoldsAt(cell', obj', lock', pc[A(u)], call[A(u)], loc[A(u)], u)
  BY <1>3, Still
<1>14. ASSUME NEW u \in App, NEW i \in DOMAIN pending'[u]
       PROVE  Full(obj', pending'[u][i].call, pending'[u][i].words)
  <2>1. CASE u # t
    <3>1. pending'[u] = pending[u]  BY <1>3, <2>1
    <3> QED  BY <1>10, <1>14, <3>1 DEF RightInv
  <2>2. CASE u = t
    <3>1. pending'[u] = Tail(pending[t])  BY <1>3, <1>4, <2>2
    <3>2. i + 1 \in DOMAIN pending[t] /\ pending'[u][i] = pending[t][i + 1]
      BY <1>5, <1>14, <3>1
    <3> QED  BY <1>10, <3>2 DEF RightInv
  <2> QED  BY <2>1, <2>2
<1>15. "lock" \in Labels /\ c \in Call \cup {NoCall}  BY <1>6 DEF Labels, Asked
<1> QED  BY <1>3, <1>6, <1>8, <1>11, <1>12, <1>13, <1>14, <1>15, Frame

\* The validator is done with the log.
LEMMA ValClose ==
  ASSUME RightInv, ~hit', NEW t \in App, Close(t)
  PROVE  RightInv'
<1> USE ProcFacts
<1>1. PICK p \in Proc : p = V(t)  BY DEF V, Proc, Side
<1>2. /\ Moved(p, "idle", NoCall, Fresh, << >>) /\ struck' = [struck EXCEPT ![p] = FALSE]
      /\ UNCHANGED <<memVars, lock, pending, left, reported, hit, noteVars>>
  BY <1>1 DEF Close, V, Goto, Moved
<1>3. p[2] = "val" /\ p[2] # "app"  BY <1>1 DEF V
<1>4. Typed  BY <1>2 DEF Typed, RightInv, TypesInv, noteVars
<1>5. LocalsAt(obj', "idle", NoCall, Fresh) /\ LeftAt(obj', "idle", NoCall, Fresh, << >>)
  BY DEF LocalsAt, LeftAt
<1>6. /\ ObjInv(obj', top') /\ CellInv(cell', obj', top') /\ Grows(obj, obj')
      /\ \A u \in App : HoldsAt(cell', obj', lock', pc[A(u)], call[A(u)], loc[A(u)], u)
      /\ \A u \in App : \A i \in DOMAIN pending'[u] :
           Full(obj', pending'[u][i].call, pending'[u][i].words)
  BY <1>2, Still
<1>7. "idle" \in Labels /\ Fresh \in Locals /\ << >> \in Seq(Word)
  BY DEF Labels, Fresh, Locals, Word, Addr
<1> QED  BY <1>2, <1>3, <1>4, <1>5, <1>6, <1>7, Frame

\* Every step of a closure that is replayed is a step of that kind.
LEMMA ValClosure ==
  ASSUME RightInv, ~hit', NEW t \in App, ClosureStep(V(t))
  PROVE  ValMoves(V(t))
<1>1. V(t) \in Proc /\ V(t)[2] = "val"  BY DEF V, Proc, Side
<1> QED
  BY <1>1, ValLock, ValReadHead, WalkFind, WalkSkip, WalkMiss, ValWalk, ValLoad,
     ValNewCell, ValMakeVal, ValStore, ValMakeEntry, ValLink, ValUnlock
  DEF ClosureStep

\* No step of a validator breaks the invariant.
LEMMA ValSafe ==
  ASSUME RightInv, ~hit', NEW t \in App, ValStep(t)
  PROVE  RightInv'
<1>1. V(t) \in Proc /\ V(t)[2] = "val"  BY DEF V, Proc, Side
<1>2. CASE Open(t)  BY <1>2, ValOpen
<1>3. CASE Close(t)  BY <1>3, ValClose
<1>4. CASE Report(t)  BY <1>1, <1>4, ValPasses DEF Report, V
<1>5. CASE ClosureStep(V(t))
  <2>1. ValMoves(V(t))  BY <1>5, ValClosure
  <2> QED  BY <1>1, <2>1, ValFrame
<1> QED  BY <1>2, <1>3, <1>4, <1>5 DEF ValStep, V

-----------------------------------------------------------------------------
(* The application's steps. *)

\* Two closures inside work on different buckets.
LEMMA Apart ==
  ASSUME RightInv, NEW p \in Proc, p[2] = "app", NEW u \in App, A(u) # p
  PROVE  /\ u # p[1] /\ A(u) \in Proc /\ A(u)[2] = "app" /\ A(u)[1] = u
         /\ LocalsAt(obj, pc[A(u)], call[A(u)], loc[A(u)])
         /\ HoldsAt(cell, obj, lock, pc[A(u)], call[A(u)], loc[A(u)], u)
         /\ pc[A(u)] \in Inside => /\ loc[A(u)].hv = Hash[call[A(u)].key]
                                   /\ Hash[call[A(u)].key] \in Bucket
                                   /\ lock[Hash[call[A(u)].key]] = u
         /\ pc[p] \in Inside /\ pc[A(u)] \in Inside =>
              Hash[call[p].key] # Hash[call[A(u)].key]
         /\ Owns(pc[p], loc[p]) /\ Owns(pc[A(u)], loc[A(u)]) =>
              loc[p].dest # loc[A(u)].dest
<1> USE ProcFacts
<1>1. p = A(p[1]) /\ A(u) \in Proc /\ A(u)[2] = "app" /\ A(u)[1] = u
  BY DEF A, Proc, Side
<1>2. u # p[1]  BY <1>1
<1>3. PICK q \in Proc : q = A(u)  BY <1>1
<1>4. q[2] = "app" /\ q[1] = u  BY <1>1, <1>3
<1>5. LocalsAt(obj, pc[q], call[q], loc[q]) /\ HoldsAt(cell, obj, lock, pc[q], call[q], loc[q], u)
  BY <1>4
<1>6. HoldsAt(cell, obj, lock, pc[p], call[p], loc[p], p[1])  OBVIOUS
<1>7. pc[q] \in Inside => /\ loc[q].hv = Hash[call[q].key] /\ lock[Hash[call[q].key]] = u
                          /\ call[q].key \in Key
  BY <1>5 DEF LocalsAt, HoldsAt, Inside, Asked, Call
<1>8. pc[p] \in Inside => lock[Hash[call[p].key]] = p[1]  BY <1>6 DEF HoldsAt
<1>9. Owns(pc[p], loc[p]) /\ Owns(pc[q], loc[q]) => loc[p].dest # loc[q].dest
  BY <1>1, <1>2, <1>3 DEF RightInv
<1> QED  BY <1>1, <1>2, <1>3, <1>5, <1>7, <1>8, <1>9, HashAssumption

\* A step of the closure that writes no memory and takes or leaves no lock.
LEMMA AppQuiet ==
  ASSUME RightInv, NEW p \in Proc, p[2] = "app",
         NEW s \in Labels, NEW l \in Locals, NEW w \in Seq(Word),
         StepTo(p, s, l, w), LocalsAt(obj, s, call[p], l), WroteAt(obj, s, call[p], l, w),
         HoldsAt(cell, obj, lock, s, call[p], l, p[1]), ~Owns(s, l),
         UNCHANGED <<memVars, lock, noteVars>>, struck' \in [Proc -> BOOLEAN], hit' = FALSE
  PROVE  RightInv'
<1>1. Moved(p, s, call[p], l, w) /\ call[p] \in Call \cup {NoCall}
  BY ProcFacts DEF Moved, StepTo, RightInv, TypesInv
<1>2. Typed  BY DEF Typed, StepTo, RightInv, TypesInv, noteVars
<1>3. obj' = obj /\ cell' = cell /\ lock' = lock /\ pending' = pending  BY DEF StepTo, memVars
<1>4. /\ ObjInv(obj', top') /\ CellInv(cell', obj', top') /\ Grows(obj, obj')
      /\ \A u \in App : HoldsAt(cell', obj', lock', pc[A(u)], call[A(u)], loc[A(u)], u)
      /\ \A u \in App : \A i \in DOMAIN pending'[u] :
           Full(obj', pending'[u][i].call, pending'[u][i].words)
  BY <1>3, Still
<1>5. LocalsAt(obj', s, call[p], l) /\ WroteAt(obj', s, call[p], l, w)
      /\ HoldsAt(cell', obj', lock', s, call[p], l, p[1])
  BY <1>3
<1>6. p[2] # "val"  OBVIOUS
<1> QED  BY <1>1, <1>2, <1>4, <1>5, <1>6, Frame

\* The log that it writes.
LEMMA AppLogged ==
  ASSUME NEW p, p[2] = "app", NEW res, Logged(p, res)
  PROVE  log' = [log EXCEPT ![p] = log[p] \o Args(p) \o res]
BY DEF Logged

\* run2 begins the log of a closure.
LEMMA AppInvoke ==
  ASSUME RightInv, ~hit', NEW t \in App, Invoke(t)
  PROVE  RightInv'
<1> USE ProcFacts
<1>1. PICK p \in Proc : p = A(t)  BY DEF A, Proc, Side
<1>2. p[2] = "app" /\ p[2] # "val" /\ p[1] = t  BY <1>1 DEF A
<1>3. PICK c \in Call : (c.val = NoVal <=> c.op = "get") /\ call' = [call EXCEPT ![p] = c]
  BY <1>1 DEF Invoke, A
<1>4. /\ pc[p] = "idle" /\ left > 0 /\ left' = left - 1 /\ pc' = [pc EXCEPT ![p] = "lock"]
      /\ UNCHANGED <<memVars, lock, loc, log, pending, reported, hit, struck, noteVars>>
  BY <1>1 DEF Invoke, A, Goto
<1>5. c \in Asked /\ loc[p] = Fresh /\ log[p] = << >>  BY <1>2, <1>3, <1>4 DEF Asked, LocalsAt, WroteAt
<1>6. Moved(p, "lock", c, loc[p], log[p])  BY <1>3, <1>4 DEF Moved, RightInv, TypesInv
<1>7. Typed
  <2>1. left' \in 0 .. MaxOps  BY <1>4, SizesAssumption DEF RightInv, TypesInv
  <2> QED  BY <1>4, <2>1 DEF Typed, RightInv, TypesInv, noteVars
<1>8. LocalsAt(obj', "lock", c, loc[p]) /\ WroteAt(obj', "lock", c, loc[p], log[p])
  BY <1>5 DEF LocalsAt, WroteAt
<1>9. HoldsAt(cell', obj', lock', "lock", c, loc[p], p[1]) /\ ~Owns("lock", loc[p])
  BY DEF HoldsAt, Inside, Started, Owns
<1>10. /\ ObjInv(obj', top') /\ CellInv(cell', obj', top') /\ Grows(obj, obj')
       /\ \A u \in App : HoldsAt(cell', obj', lock', pc[A(u)], call[A(u)], loc[A(u)], u)
       /\ \A u \in App : \A i \in DOMAIN pending'[u] :
            Full(obj', pending'[u][i].call, pending'[u][i].words)
  BY <1>4, Still
<1>11. "lock" \in Labels  BY DEF Labels
<1> QED  BY <1>2, <1>3, <1>6, <1>7, <1>8, <1>9, <1>10, <1>11, Frame

\* The lock was free: no other closure is inside on that bucket.
LEMMA AppLock ==
  ASSUME RightInv, ~hit', NEW p \in Proc, p[2] = "app", Lock(p)
  PROVE  RightInv'
<1> USE ProcFacts
<1>1. PICK o \in Outcomes(p, Hash[call[p].key], Wrong("hash", Bucket)) :
        /\ lock[o[1]] = NoApp /\ lock' = [lock EXCEPT ![o[1]] = p[1]]
        /\ loc' = [loc EXCEPT ![p].hv = o[1]] /\ Note(p, o[2])
  BY DEF Lock
<1>2. pc[p] = "lock" /\ pc' = [pc EXCEPT ![p] = "head"]
      /\ UNCHANGED <<memVars, call, log, pending, left, reported, noteVars>>
  BY DEF Lock, Goto
<1>3. ~o[2] /\ struck' \in [Proc -> BOOLEAN] /\ hit' = FALSE  BY <1>1, Quietly
<1>4. o[1] = Hash[call[p].key]  BY <1>3, Chosen
<1>5. PICK b, l : b = Hash[call[p].key] /\ l = [loc[p] EXCEPT !.hv = b]  OBVIOUS
<1>6. call[p] \in Asked /\ loc[p] = Fresh /\ log[p] = << >>  BY <1>2 DEF LocalsAt, WroteAt
<1>7. b \in Bucket /\ b \in Word
  <2>1. call[p].key \in Key  BY <1>6 DEF Asked, Call
  <2> QED  BY <1>5, <2>1, HashAssumption, Words DEF RightInv
<1>8. l \in Locals  BY <1>5, <1>7 DEF Locals
<1>9. Moved(p, "head", call[p], l, log[p])
  <2>1. loc' = [loc EXCEPT ![p] = l]  BY <1>1, <1>4, <1>5
  <2> QED  BY <1>2, <2>1 DEF Moved, RightInv, TypesInv
<1>10. lock[b] = NoApp /\ lock' = [lock EXCEPT ![b] = p[1]]  BY <1>1, <1>4, <1>5
<1>11. Typed
  <2>1. lock' \in [Bucket -> App \cup {NoApp}]  BY <1>10 DEF RightInv, TypesInv
  <2> QED  BY <1>2, <1>3, <2>1 DEF Typed, RightInv, TypesInv, noteVars
<1>12. obj' = obj /\ cell' = cell /\ top' = top /\ pending' = pending  BY <1>2 DEF memVars
<1>13. LocalsAt(obj', "head", call[p], l) /\ WroteAt(obj', "head", call[p], l, log[p])
  BY <1>5, <1>6 DEF LocalsAt, WroteAt, Fresh
<1>14. HoldsAt(cell', obj', lock', "head", call[p], l, p[1]) /\ ~Owns("head", l)
  BY <1>5, <1>7, <1>10 DEF HoldsAt, Inside, Started, Owns, RightInv, TypesInv
<1>15. /\ ObjInv(obj', top') /\ CellInv(cell', obj', top') /\ Grows(obj, obj')
       /\ \A u \in App : \A i \in DOMAIN pending'[u] :
            Full(obj', pending'[u][i].call, pending'[u][i].words)
  BY <1>12 DEF RightInv, Grows
<1>16. ASSUME NEW u \in App, A(u) # p
       PROVE  HoldsAt(cell', obj', lock', pc[A(u)], call[A(u)], loc[A(u)], u)
  <2>1. PICK q : q = A(u)  OBVIOUS
  <2>2. /\ HoldsAt(cell, obj, lock, pc[q], call[q], loc[q], u)
        /\ pc[q] \in Inside => /\ Hash[call[q].key] \in Bucket
                               /\ lock[Hash[call[q].key]] = u
    BY <1>16, <2>1, Apart
  <2>3. pc[q] \in Inside => lock'[Hash[call[q].key]] = u
    BY <1>10, <2>2, NullsAssumption DEF RightInv, TypesInv
  <2> QED  BY <1>12, <2>1, <2>2, <2>3 DEF HoldsAt
<1>17. p[2] # "val" /\ "head" \in Labels  BY DEF Labels
<1> QED  BY <1>8, <1>9, <1>11, <1>13, <1>14, <1>15, <1>16, <1>17, Frame

\* The head of a bucket is read and logged under its lock.
LEMMA AppReadHead ==
  ASSUME RightInv, ~hit', NEW p \in Proc, p[2] = "app", ReadHead(p)
  PROVE  RightInv'
<1> USE ProcFacts
<1>1. PICK o \in Outcomes(p, cell[loc[p].hv], Wrong("load", Entries \cup {0})) :
        /\ Logged(p, <<o[1]>>) /\ loc' = [loc EXCEPT ![p].head = o[1], ![p].at = o[1]]
        /\ Note(p, o[2])
  BY DEF ReadHead, Loaded
<1>2. pc[p] = "head" /\ pc' = [pc EXCEPT ![p] = "walk"]
      /\ UNCHANGED <<memVars, lock, call, pending, left, reported, noteVars>>
  BY DEF ReadHead, Goto
<1>3. ~o[2] /\ struck' \in [Proc -> BOOLEAN] /\ hit' = FALSE  BY <1>1, Quietly
<1>4. Args(p) = <<loc[p].hv>>  BY <1>2, ArgsAre
<1>5. PICK c, b, h, l, w : /\ c = call[p] /\ b = loc[p].hv /\ h = cell[b]
                           /\ l = [loc[p] EXCEPT !.head = h, !.at = h] /\ w = <<b, h>>
  OBVIOUS
<1>6. o[1] = h  BY <1>3, <1>5, Chosen
<1>7. c \in Asked /\ b = Hash[c.key] /\ c.key \in Key /\ loc[p].ret = 0 /\ log[p] = << >>
  BY <1>2, <1>5 DEF LocalsAt, WroteAt, Asked, Call
<1>8. b \in Bucket /\ h \in Places(obj)  BY <1>5, <1>7, HashAssumption DEF RightInv, CellInv
<1>9. b \in Word /\ h \in Word  BY <1>8, Words DEF RightInv
<1>10. l \in Locals /\ l.head = h /\ l.at = h /\ l.ret = 0 /\ l.hv = b
  BY <1>5, <1>7, <1>9 DEF Locals
<1>11. log' = [log EXCEPT ![p] = w]
  <2>1. log' = [log EXCEPT ![p] = << >> \o <<b>> \o <<h>>]
    BY <1>1, <1>4, <1>5, <1>6, <1>7 DEF Logged
  <2> QED  BY <1>5, <2>1, Join0_1_1
<1>12. loc' = [loc EXCEPT ![p] = l]  BY <1>1, <1>5, <1>6
<1>13. StepTo(p, "walk", l, w)  BY <1>2, <1>11, <1>12 DEF StepTo
<1>14. LocalsAt(obj, "walk", c, l)  BY <1>7, <1>8, <1>10 DEF LocalsAt, Found
<1>15. WroteAt(obj, "walk", c, l, w)  BY <1>5, <1>10 DEF WroteAt
<1>16. HoldsAt(cell, obj, lock, "walk", c, l, p[1]) /\ ~Owns("walk", l)
  <2>1. lock[Hash[c.key]] = p[1]  BY <1>2, <1>5 DEF HoldsAt, Inside, Labels
  <2> QED  BY <1>5, <1>10, <2>1 DEF HoldsAt, Owns
<1>17. w \in Seq(Word)  BY <1>5, <1>9
<1>18. "walk" \in Labels  BY DEF Labels
<1> QED
  BY <1>2, <1>3, <1>5, <1>10, <1>13, <1>14, <1>15, <1>16, <1>17, <1>18, AppQuiet

\* The walk reads objects only.
LEMMA AppWalk ==
  ASSUME RightInv, NEW p \in Proc, p[2] = "app", WalkMoves(p)
  PROVE  RightInv'
<1> USE ProcFacts
<1>1. PICK s \in {"walk", "load", "newCell", "unlock"}, l \in Locals :
        /\ pc[p] = "walk" /\ StepTo(p, s, l, log[p]) /\ LocalsAt(obj, s, call[p], l)
        /\ l.hv = loc[p].hv /\ l.head = loc[p].head
        /\ s = "unlock" => call[p].op = "get" /\ ~Hit(obj, call[p], l) /\ l.ret = 0
        /\ UNCHANGED <<memVars, lock, noteVars>> /\ struck' \in [Proc -> BOOLEAN] /\ hit' = FALSE
  BY DEF WalkMoves
<1>2. log[p] = <<l.hv, l.head>>  BY <1>1 DEF WroteAt
<1>3. WroteAt(obj, s, call[p], l, log[p])  BY <1>1, <1>2 DEF WroteAt
<1>4. lock[Hash[call[p].key]] = p[1] /\ cell[l.hv] = l.head
  BY <1>1 DEF HoldsAt, Inside, Started, Labels
<1>5. HoldsAt(cell, obj, lock, s, call[p], l, p[1]) /\ ~Owns(s, l)
  BY <1>1, <1>4 DEF HoldsAt, Owns
<1>6. s \in Labels  BY DEF Labels
<1> QED  BY <1>1, <1>3, <1>5, <1>6, AppQuiet

\* The cell of the entry leads to a value.
LEMMA AppLoad ==
  ASSUME RightInv, ~hit', NEW p \in Proc, p[2] = "app", Load(p)
  PROVE  RightInv'
<1> USE ProcFacts
<1>1. PICK o \in Outcomes(p, cell[loc[p].dest], Wrong("load", Values)) :
        /\ Logged(p, <<o[1]>>)
        /\ loc' = [loc EXCEPT ![p].ret = IF call[p].op = "get" THEN o[1] ELSE kStored]
        /\ Note(p, o[2])
  BY DEF Load, Loaded
<1>2. pc[p] = "load"
      /\ pc' = [pc EXCEPT ![p] = IF call[p].op = "get" THEN "unlock" ELSE "makeVal"]
      /\ UNCHANGED <<memVars, lock, call, pending, left, reported, noteVars>>
  BY DEF Load, Goto
<1>3. ~o[2] /\ struck' \in [Proc -> BOOLEAN] /\ hit' = FALSE  BY <1>1, Quietly
<1>4. Args(p) = <<loc[p].dest>>  BY <1>2, ArgsAre
<1>5. PICK c, k, x, w : /\ c = call[p] /\ k = loc[p] /\ x = cell[k.dest]
                        /\ w = <<k.hv, k.head, k.dest, x>>
  OBVIOUS
<1>6. o[1] = x  BY <1>3, <1>5, Chosen
<1>7. /\ c \in Asked /\ k.hv = Hash[c.key] /\ k.head \in Places(obj) /\ k \in Locals
      /\ Hit(obj, c, k) /\ k.dest = CellOf(obj, Found(obj, c, k))
  BY <1>2, <1>5 DEF LocalsAt
<1>8. c.key \in Key /\ c.op \in {"get", "set"}  BY <1>7 DEF Asked, Call
<1>9. Found(obj, c, k) \in EntriesIn(obj)  BY <1>7, <1>8, LookStep DEF RightInv, Hit, Found
<1>10. x \in ValuesIn(obj)  BY <1>5, <1>7, <1>9 DEF RightInv, CellInv
<1>11. x \in Word /\ x \in Addr  BY <1>10, Words, Kinds DEF RightInv, Addr
<1>12. log[p] = <<k.hv, k.head>>  BY <1>2, <1>5 DEF WroteAt
<1>13. log' = [log EXCEPT ![p] = w]
  <2>1. PICK y1, y2, y3 : y1 = <<k.hv, k.head>> /\ y2 = <<k.dest>> /\ y3 = <<x>>
    OBVIOUS
  <2>2. log[p] = y1 /\ Args(p) = y2 /\ Logged(p, y3)  BY <1>1, <1>4, <1>5, <1>6, <1>12, <2>1
  <2>3. y1 \o y2 \o y3 = w  BY <1>5, <2>1, Join2_1_1
  <2> QED  BY <2>2, <2>3, AppLogged
<1>14. w \in Seq(Word)  BY <1>5, <1>7, <1>11 DEF Locals
<1>15. lock[Hash[c.key]] = p[1] /\ cell[k.hv] = k.head
  BY <1>2, <1>5 DEF HoldsAt, Inside, Started, Labels
<1>16. CASE c.op = "get"
  <2>1. PICK l : l = [k EXCEPT !.ret = x]  OBVIOUS
  <2>2. l \in Locals /\ l.ret = x /\ l.hv = k.hv /\ l.head = k.head /\ l.dest = k.dest
    BY <1>7, <1>11, <2>1 DEF Locals
  <2>3. Hit(obj, c, l) /\ Found(obj, c, l) = Found(obj, c, k)  BY <1>7, <2>2 DEF Hit, Found
  <2>4. LocalsAt(obj, "unlock", c, l)  BY <1>7, <1>10, <1>16, <2>2, <2>3 DEF LocalsAt
  <2>5. WroteAt(obj, "unlock", c, l, w)  BY <1>5, <1>7, <1>16, <2>2, <2>3 DEF WroteAt
  <2>6. loc' = [loc EXCEPT ![p] = l]  BY <1>1, <1>5, <1>6, <1>16, <2>1
  <2>7. StepTo(p, "unlock", l, w)  BY <1>2, <1>5, <1>13, <1>16, <2>6 DEF StepTo
  <2>8. HoldsAt(cell, obj, lock, "unlock", c, l, p[1]) /\ ~Owns("unlock", l)
    BY <1>15 DEF HoldsAt, Owns, Started
  <2>9. "unlock" \in Labels  BY DEF Labels
  <2> QED
    BY <1>2, <1>3, <1>5, <1>14, <2>2, <2>4, <2>5, <2>7, <2>8, <2>9, AppQuiet
<1>17. CASE c.op = "set"
  <2>1. PICK l : l = [k EXCEPT !.ret = kStored]  OBVIOUS
  <2>2. l \in Locals /\ l.ret = kStored /\ l.hv = k.hv /\ l.head = k.head /\ l.dest = k.dest
    BY <1>7, <2>1, Words DEF RightInv, Locals
  <2>3. Hit(obj, c, l) /\ Found(obj, c, l) = Found(obj, c, k)  BY <1>7, <2>2 DEF Hit, Found
  <2>4. LocalsAt(obj, "makeVal", c, l)  BY <1>7, <1>17, <2>2, <2>3 DEF LocalsAt
  <2>5. WroteAt(obj, "makeVal", c, l, w)  BY <1>5, <1>11, <2>2 DEF WroteAt
  <2>6. loc' = [loc EXCEPT ![p] = l]  BY <1>1, <1>5, <1>17, <2>1
  <2>7. StepTo(p, "makeVal", l, w)  BY <1>2, <1>5, <1>13, <1>17, <2>6 DEF StepTo
  <2>8. ~Owns("makeVal", l)  BY <2>2, WordsDiffer DEF Owns
  <2>9. HoldsAt(cell, obj, lock, "makeVal", c, l, p[1])
    BY <1>15, <2>2, <2>8 DEF HoldsAt
  <2>10. "makeVal" \in Labels  BY DEF Labels
  <2> QED
    BY <1>2, <1>3, <1>5, <1>14, <2>2, <2>4, <2>5, <2>7, <2>8, <2>9, <2>10, AppQuiet
<1> QED  BY <1>8, <1>16, <1>17

\* Fresh addresses leave the objects that are there alone.
LEMMA HeapUp ==
  ASSUME NEW m, NEW n, HeapInv(m, n)
  PROVE  HeapInv(m, n + 1)
<1>1. n \in Nat /\ Buckets \in Nat /\ Buckets <= n  BY SizesAssumption DEF HeapInv
<1>2. n + 1 \in Nat /\ Buckets <= n + 1 /\ Buckets + 1 .. n \subseteq Buckets + 1 .. n + 1
  BY <1>1
<1> QED  BY <1>2 DEF HeapInv

\* The cells that the closures of others are about stay apart from new ones.
LEMMA OthersCells ==
  ASSUME RightInv, NEW p \in Proc, p[2] = "app", NEW u \in App, A(u) # p
  PROVE  LET q == A(u) IN
         /\ pc[q] \in Started => loc[q].hv \in Bucket
         /\ Owns(pc[q], loc[q]) => loc[q].dest \in DOMAIN cell \ Bucket
         /\ pc[q] \in {"makeEntry", "link"} => loc[q].dest \in DOMAIN cell \ Bucket
         /\ pc[q] = "makeEntry" => Owns(pc[q], loc[q])
         /\ pc[q] = "link" => /\ loc[q].made \in EntriesIn(obj)
                              /\ CellOf(obj, loc[q].made) = loc[q].dest
                              /\ obj[loc[q].made].data.key = call[q].key
<1>1. PICK q : q = A(u)  OBVIOUS
<1>2. LocalsAt(obj, pc[q], call[q], loc[q]) /\ HoldsAt(cell, obj, lock, pc[q], call[q], loc[q], u)
      /\ (pc[q] \in Started => loc[q].hv \in Bucket)
  BY <1>1, Apart DEF Started, Inside
<1>3. Owns(pc[q], loc[q]) => loc[q].dest \in DOMAIN cell \ Bucket  BY <1>2 DEF HoldsAt
<1>4. pc[q] = "makeEntry" => Owns(pc[q], loc[q])  BY <1>2 DEF LocalsAt, Owns
<1>5. pc[q] = "link" => /\ loc[q].made \in EntriesIn(obj)
                        /\ CellOf(obj, loc[q].made) = loc[q].dest
                        /\ obj[loc[q].made].data.key = call[q].key
  BY <1>2 DEF LocalsAt, IsEntry, CellOf
<1>6. pc[q] = "link" => loc[q].dest \in DOMAIN cell \ Bucket
  BY <1>5 DEF RightInv, CellInv
<1> QED  BY <1>1, <1>2, <1>3, <1>4, <1>5, <1>6

\* A new cell is nobody else's.
LEMMA AppNewCell ==
  ASSUME RightInv, ~hit', NEW p \in Proc, p[2] = "app", NewCell(p)
  PROVE  RightInv'
<1> USE ProcFacts
<1>1. PICK c, k, a, l, w : /\ c = call[p] /\ k = loc[p] /\ a = top + 1
                           /\ l = [k EXCEPT !.dest = a, !.ret = kCreated]
                           /\ w = <<k.hv, k.head, a>>
  OBVIOUS
<1>2. /\ Logged(p, <<a>>) /\ loc' = [loc EXCEPT ![p] = l]
      /\ pc[p] = "newCell" /\ pc' = [pc EXCEPT ![p] = "makeVal"]
      /\ cell' = Extend(cell, a, 0) /\ top' = a
      /\ UNCHANGED <<obj, lock, call, pending, left, reported, hit, struck, noteVars>>
  BY <1>1 DEF NewCell, Goto, Allocated
<1>3. /\ c \in Asked /\ k.hv = Hash[c.key] /\ k.head \in Places(obj) /\ k \in Locals
      /\ c.op = "set" /\ ~Hit(obj, c, k) /\ log[p] = <<k.hv, k.head>>
  BY <1>1, <1>2 DEF LocalsAt, WroteAt
<1>4. ObjInv(obj, top) /\ CellInv(cell, obj, top) /\ top \in Nat /\ Buckets \in Nat
      /\ Buckets <= top
  BY SizesAssumption DEF RightInv, ObjInv, HeapInv
<1>5. a \in Nat /\ a \in Word /\ a \notin Bucket /\ a \notin DOMAIN cell /\ a \in 1 .. a
      /\ DOMAIN cell \subseteq 1 .. a
  <2>1. a \in Nat /\ a \in 1 .. a /\ a \notin 1 .. top /\ a \notin 1 .. Buckets
        /\ 1 .. top \subseteq 1 .. a
    BY <1>1, <1>4
  <2> QED  BY <1>4, <2>1, Words DEF Bucket, CellInv
<1>6. /\ DOMAIN cell' = DOMAIN cell \cup {a} /\ cell'[a] = 0
      /\ \A x \in DOMAIN cell : cell'[x] = cell[x]
  BY <1>2, <1>5 DEF Extend
<1>7. ObjInv(obj', top')  BY <1>1, <1>2, <1>4, HeapUp DEF ObjInv
<1>8. CellInv(cell', obj', top')
  BY <1>2, <1>4, <1>5, <1>6 DEF CellInv, Addr
<1>9. Grows(obj, obj')  BY <1>2 DEF Grows
<1>10. /\ l \in Locals /\ l.ret = kCreated /\ l.hv = k.hv /\ l.head = k.head /\ l.dest = a
  BY <1>1, <1>3, <1>4, <1>5, Words DEF Locals
<1>11. ~Hit(obj, c, l)  BY <1>3, <1>10 DEF Hit, Found
<1>12. LocalsAt(obj', "makeVal", c, l)  BY <1>2, <1>3, <1>10, <1>11 DEF LocalsAt
<1>13. WroteAt(obj', "makeVal", c, l, w)  BY <1>1, <1>10 DEF WroteAt
<1>14. log' = [log EXCEPT ![p] = w]
  <2>1. Args(p) = << >>  BY <1>2, ArgsAre
  <2>2. log' = [log EXCEPT ![p] = log[p] \o Args(p) \o <<a>>]  BY <1>2, AppLogged
  <2>3. log' = [log EXCEPT ![p] = <<k.hv, k.head>> \o << >> \o <<a>>]
    BY <1>3, <2>1, <2>2
  <2> QED  BY <1>1, <2>3, Join2_0_1
<1>15. w \in Seq(Word)  BY <1>1, <1>3, <1>5 DEF Locals
<1>16. \A e \in EntriesIn(obj) : CellOf(obj, e) \in DOMAIN cell /\ CellOf(obj, e) # a
  BY <1>4, <1>5 DEF CellInv
<1>17. k.hv \in Bucket
  <2>1. c.key \in Key  BY <1>3 DEF Asked, Call
  <2> QED  BY <1>3, <2>1, HashAssumption
<1>18. HoldsAt(cell', obj', lock', "makeVal", c, l, p[1])
  <2>1. lock[Hash[c.key]] = p[1] /\ cell[k.hv] = k.head
    BY <1>1, <1>2 DEF HoldsAt, Inside, Started, Labels
  <2>2. cell'[k.hv] = k.head  BY <1>4, <1>6, <1>17, <2>1 DEF CellInv
  <2> QED  BY <1>2, <1>5, <1>6, <1>10, <1>16, <2>1, <2>2 DEF HoldsAt
<1>19. ASSUME NEW u \in App, A(u) # p
       PROVE  /\ HoldsAt(cell', obj', lock', pc[A(u)], call[A(u)], loc[A(u)], u)
              /\ Owns(pc[A(u)], loc[A(u)]) => l.dest # loc[A(u)].dest
  <2>1. PICK q : q = A(u)  OBVIOUS
  <2>2. /\ HoldsAt(cell, obj, lock, pc[q], call[q], loc[q], u)
        /\ pc[q] \in Started => loc[q].hv \in Bucket
        /\ Owns(pc[q], loc[q]) => loc[q].dest \in DOMAIN cell \ Bucket
        /\ pc[q] \in {"makeEntry", "link"} => loc[q].dest \in DOMAIN cell \ Bucket
    BY <1>19, <2>1, Apart, OthersCells
  <2>3. pc[q] \in Started => loc[q].hv \in DOMAIN cell  BY <1>4, <2>2 DEF CellInv
  <2>4. Owns(pc[q], loc[q]) => l.dest # loc[q].dest  BY <1>5, <1>10, <2>2
  <2>5. HoldsAt(cell', obj', lock', pc[q], call[q], loc[q], u)
    BY <1>2, <1>6, <2>2, <2>3 DEF HoldsAt
  <2> QED  BY <2>1, <2>4, <2>5
<1>20. Moved(p, "makeVal", c, l, w) /\ c \in Call \cup {NoCall}
  BY <1>1, <1>2, <1>3, <1>14 DEF Moved, Asked, RightInv, TypesInv
<1>21. Typed  BY <1>2 DEF Typed, RightInv, TypesInv, noteVars
<1>22. \A u \in App : \A i \in DOMAIN pending'[u] :
         Full(obj', pending'[u][i].call, pending'[u][i].words)
  BY <1>2 DEF RightInv
<1>23. p[2] # "val" /\ "makeVal" \in Labels  BY DEF Labels
<1>24. \A u \in App : A(u) # p =>
         /\ HoldsAt(cell', obj', lock', pc[A(u)], call[A(u)], loc[A(u)], u)
         /\ p[2] = "app" /\ Owns("makeVal", l) /\ Owns(pc[A(u)], loc[A(u)])
            => l.dest # loc[A(u)].dest
  BY <1>19
<1> QED
  BY <1>7, <1>8, <1>9, <1>10, <1>12, <1>13, <1>15, <1>18, <1>20, <1>21, <1>22, <1>23, <1>24,
     Frame

\* Logs that wait stay right when objects come.
LEMMA PendingKept ==
  ASSUME RightInv, Grows(obj, obj'), pending' = pending
  PROVE  \A u \in App : \A i \in DOMAIN pending'[u] :
           Full(obj', pending'[u][i].call, pending'[u][i].words)
<1> SUFFICES ASSUME NEW u \in App, NEW i \in DOMAIN pending[u]
             PROVE  Full(obj', pending[u][i].call, pending[u][i].words)
  OBVIOUS
<1>1. PICK R : R = [call : Asked, struck : BOOLEAN, words : Seq(Word)]  OBVIOUS
<1>2. pending[u] \in Seq(R)  BY <1>1 DEF RightInv, TypesInv
<1>3. pending[u][i] \in R  BY <1>2
<1>4. pending[u][i].call \in Asked  BY <1>1, <1>3
<1>5. Full(obj, pending[u][i].call, pending[u][i].words) /\ ObjInv(obj, top)  BY DEF RightInv
<1> QED  BY <1>4, <1>5, FullKept

\* What the closures of others hold stays theirs when an object comes.
LEMMA OthersGrow ==
  ASSUME RightInv, NEW p \in Proc, p[2] = "app", NEW u \in App, A(u) # p,
         Grows(obj, obj'), cell' = cell, lock' = lock,
         \A e \in EntriesIn(obj') : e \in EntriesIn(obj) \/
           (Owns(pc[A(u)], loc[A(u)]) => CellOf(obj', e) # loc[A(u)].dest)
  PROVE  HoldsAt(cell', obj', lock', pc[A(u)], call[A(u)], loc[A(u)], u)
<1>1. HoldsAt(cell, obj, lock, pc[A(u)], call[A(u)], loc[A(u)], u)  BY Apart
<1>2. /\ \A e \in EntriesIn(obj) : CellOf(obj', e) = CellOf(obj, e)
      /\ \A c, v : IsVal(obj, c, v) => IsVal(obj', c, v)
  BY Kept DEF RightInv
<1>3. Owns(pc[A(u)], loc[A(u)]) =>
        \A e \in EntriesIn(obj') : CellOf(obj', e) # loc[A(u)].dest
  BY <1>1, <1>2 DEF HoldsAt
<1> QED  BY <1>1, <1>2, <1>3 DEF HoldsAt

\* The value that make_obj makes.
LEMMA ValueComes ==
  ASSUME RightInv, ~hit', NEW p \in Proc, p[2] = "app", MakeVal(p)
  PROVE  /\ ObjInv(obj', top') /\ Grows(obj, obj')
         /\ ValuesIn(obj') = ValuesIn(obj) \cup {top + 1} /\ EntriesIn(obj') = EntriesIn(obj)
         /\ obj'[top + 1].data = call[p].val /\ call[p].val \in Val
<1> USE ProcFacts
<1>1. PICK v : v = call[p].val  OBVIOUS
<1>2. PICK wrongs, o :
        /\ o \in Outcomes(p, [data |-> v, sum |-> v], wrongs)
        /\ obj' = Extend(obj, top + 1, o[1]) /\ top' = top + 1 /\ Note(p, o[2])
  BY <1>1 DEF MakeVal, Allocated
<1>3. ~o[2]  BY <1>2, Quietly
<1>4. o[1] = [data |-> v, sum |-> v]  BY <1>2, <1>3, Chosen
<1>5. pc[p] = "makeVal"  BY DEF MakeVal
<1>6. v \in Val  BY <1>1, <1>5 DEF LocalsAt, Asked, Call
<1>7. ObjInv(obj, top)  BY DEF RightInv
<1> QED  BY <1>1, <1>2, <1>4, <1>6, <1>7, AddValue DEF ObjInv

\* A new value, which nothing leads to yet.
LEMMA AppMakeVal ==
  ASSUME RightInv, ~hit', NEW p \in Proc, p[2] = "app", MakeVal(p)
  PROVE  RightInv'
<1> USE ProcFacts
<1>1. PICK c, k, a, l, v : /\ c = call[p] /\ k = loc[p] /\ a = top + 1 /\ v = c.val
                           /\ l = [k EXCEPT !.made = a]
  OBVIOUS
<1>2. PICK o :
        /\ Logged(p, <<a>>) /\ loc' = [loc EXCEPT ![p] = l] /\ top' = a /\ Note(p, o[2])
  BY <1>1 DEF MakeVal, Allocated
<1>3. pc[p] = "makeVal" /\ pc' = [pc EXCEPT ![p] = "store"]
      /\ UNCHANGED <<cell, lock, call, pending, left, reported, noteVars>>
  BY DEF MakeVal, Goto
<1>4. struck' \in [Proc -> BOOLEAN] /\ hit' = FALSE  BY <1>2, Quietly
<1>6. /\ c \in Asked /\ k.hv = Hash[c.key] /\ k.head \in Places(obj) /\ k \in Locals
      /\ c.op = "set"
      /\ \/ k.ret = kStored /\ Hit(obj, c, k) /\ k.dest = CellOf(obj, Found(obj, c, k))
         \/ k.ret = kCreated /\ ~Hit(obj, c, k)
  BY <1>1, <1>3 DEF LocalsAt
<1>8. ObjInv(obj, top) /\ CellInv(cell, obj, top) /\ top \in Nat
  BY DEF RightInv, ObjInv, HeapInv
<1>9. /\ ObjInv(obj', top') /\ Grows(obj, obj')
      /\ ValuesIn(obj') = ValuesIn(obj) \cup {a} /\ EntriesIn(obj') = EntriesIn(obj)
      /\ obj'[a].data = v
  BY <1>1, ValueComes
<1>10. /\ a \in Nat /\ a \in Word /\ DOMAIN cell \subseteq 1 .. a
       /\ Places(obj') = Places(obj)
       /\ \A e \in EntriesIn(obj) : CellOf(obj', e) = CellOf(obj, e)
  <2>1. a \in Nat /\ 1 .. top \subseteq 1 .. a  BY <1>1, <1>8
  <2> QED  BY <1>8, <1>9, <2>1, Words, Kept DEF CellInv, Places
<1>11. CellInv(cell', obj', top')
  BY <1>2, <1>3, <1>8, <1>9, <1>10 DEF CellInv
<1>12. /\ l \in Locals /\ l.made = a /\ l.ret = k.ret /\ l.hv = k.hv /\ l.head = k.head
       /\ l.dest = k.dest
  BY <1>1, <1>6, <1>10 DEF Locals
<1>13. IsVal(obj', c, a)  BY <1>1, <1>9 DEF IsVal
<1>14. LocalsAt(obj', "store", c, l)
  <2>1. (Hit(obj', c, k) <=> Hit(obj, c, k)) /\ Found(obj', c, k) = Found(obj, c, k)
        /\ (Hit(obj, c, k) => CellOf(obj', Found(obj, c, k)) = CellOf(obj, Found(obj, c, k)))
    BY <1>6, <1>8, <1>9, FoundKept
  <2>2. (Hit(obj', c, l) <=> Hit(obj', c, k)) /\ Found(obj', c, l) = Found(obj', c, k)
    BY <1>12 DEF Hit, Found
  <2> QED  BY <1>6, <1>10, <1>12, <1>13, <2>1, <2>2 DEF LocalsAt
<1>15. WroteAt(obj, "makeVal", c, k, log[p])  BY <1>1, <1>3
<1>16. PICK w : log' = [log EXCEPT ![p] = w] /\ w \in Seq(Word) /\ WroteAt(obj', "store", c, l, w)
  <2>1. PICK y2, y3 : y2 = <<SizeOfVal>> /\ y3 = <<a>>  OBVIOUS
  <2>2. Args(p) = y2 /\ Logged(p, y3)  BY <1>2, <1>3, <2>1, ArgsAre
  <2>3. SizeOfVal \in Word  BY <1>8, Words
  <2>4. CASE k.ret = kStored
    <3>1. PICK x \in Addr : log[p] = <<k.hv, k.head, k.dest, x>>
      BY <1>15, <2>4, WordsDiffer DEF WroteAt
    <3>2. PICK y1, w : /\ y1 = <<k.hv, k.head, k.dest, x>>
                       /\ w = <<k.hv, k.head, k.dest, x, SizeOfVal, a>>
      OBVIOUS
    <3>3. log[p] = y1 /\ y1 \o y2 \o y3 = w  BY <2>1, <3>1, <3>2, Join4_1_1
    <3>4. log' = [log EXCEPT ![p] = w]  BY <2>2, <3>3, AppLogged
    <3>5. WroteAt(obj', "store", c, l, w)  BY <1>12, <2>4, <3>2 DEF WroteAt
    <3>6. w \in Seq(Word)
      <4>1. x \in Word  BY <1>8, Words
      <4> QED  BY <1>6, <1>10, <2>3, <3>2, <4>1 DEF Locals
    <3> QED  BY <3>4, <3>5, <3>6
  <2>5. CASE k.ret = kCreated
    <3>1. log[p] = <<k.hv, k.head, k.dest>>
      BY <1>15, <2>5, WordsDiffer DEF WroteAt
    <3>2. PICK y1, w : /\ y1 = <<k.hv, k.head, k.dest>>
                       /\ w = <<k.hv, k.head, k.dest, SizeOfVal, a>>
      OBVIOUS
    <3>3. log[p] = y1 /\ y1 \o y2 \o y3 = w  BY <2>1, <3>1, <3>2, Join3_1_1
    <3>4. log' = [log EXCEPT ![p] = w]  BY <2>2, <3>3, AppLogged
    <3>5. WroteAt(obj', "store", c, l, w)  BY <1>12, <2>5, <3>2 DEF WroteAt
    <3>6. w \in Seq(Word)  BY <1>6, <1>10, <2>3, <3>2 DEF Locals
    <3> QED  BY <3>4, <3>5, <3>6
  <2> QED  BY <1>6, <2>4, <2>5
<1>17. HoldsAt(cell, obj, lock, "makeVal", c, k, p[1])  BY <1>1, <1>3
<1>18. Owns("store", l) => Owns("makeVal", k)  BY <1>12 DEF Owns
<1>19. HoldsAt(cell', obj', lock', "store", c, l, p[1])
  BY <1>3, <1>9, <1>10, <1>12, <1>17, <1>18 DEF HoldsAt, Inside, Started, Labels
<1>20. \A u \in App : A(u) # p =>
         /\ HoldsAt(cell', obj', lock', pc[A(u)], call[A(u)], loc[A(u)], u)
         /\ p[2] = "app" /\ Owns("store", l) /\ Owns(pc[A(u)], loc[A(u)])
            => l.dest # loc[A(u)].dest
  BY <1>1, <1>3, <1>9, <1>12, <1>18, Apart, OthersGrow
<1>21. Moved(p, "store", c, l, w) /\ c \in Call \cup {NoCall}
  BY <1>1, <1>2, <1>3, <1>6, <1>16 DEF Moved, Asked, RightInv, TypesInv
<1>22. Typed  BY <1>3, <1>4 DEF Typed, RightInv, TypesInv, noteVars
<1>23. \A u \in App : \A i \in DOMAIN pending'[u] :
         Full(obj', pending'[u][i].call, pending'[u][i].words)
  BY <1>3, <1>9, PendingKept
<1>24. p[2] # "val" /\ "store" \in Labels  BY DEF Labels
<1> QED
  BY <1>9, <1>11, <1>12, <1>14, <1>16, <1>19, <1>20, <1>21, <1>22, <1>23, <1>24, Frame

\* The cell of the entry, or of the entry to be, gets the value.
LEMMA AppStore ==
  ASSUME RightInv, ~hit', NEW p \in Proc, p[2] = "app", Store(p)
  PROVE  RightInv'
<1> USE ProcFacts
<1>1. PICK c, l : c = call[p] /\ l = loc[p]  OBVIOUS
<1>2. PICK wrongs, o :
        /\ o \in Outcomes(p, l.made, wrongs)
        /\ Logged(p, << >>) /\ cell' = [cell EXCEPT ![l.dest] = o[1]] /\ Note(p, o[2])
  BY <1>1 DEF Store
<1>3. /\ pc[p] = "store"
      /\ pc' = [pc EXCEPT ![p] = IF l.ret = kStored THEN "unlock" ELSE "makeEntry"]
      /\ UNCHANGED <<obj, top, lock, call, loc, pending, left, reported, noteVars>>
  BY <1>1 DEF Store, Goto
<1>4. ~o[2] /\ struck' \in [Proc -> BOOLEAN] /\ hit' = FALSE  BY <1>2, Quietly
<1>5. cell' = [cell EXCEPT ![l.dest] = l.made]
  <2>1. o[1] = l.made  BY <1>2, <1>4, Chosen
  <2> QED  BY <1>2, <2>1
<1>6. /\ c \in Asked /\ l.hv = Hash[c.key] /\ l.head \in Places(obj) /\ l \in Locals
      /\ c.op = "set" /\ IsVal(obj, c, l.made)
      /\ \/ l.ret = kStored /\ Hit(obj, c, l) /\ l.dest = CellOf(obj, Found(obj, c, l))
         \/ l.ret = kCreated /\ ~Hit(obj, c, l)
  BY <1>1, <1>3 DEF LocalsAt
<1>7. ObjInv(obj, top) /\ CellInv(cell, obj, top) /\ top \in Nat /\ c.key \in Key
  BY <1>6 DEF RightInv, ObjInv, HeapInv, Asked, Call
<1>8. HoldsAt(cell, obj, lock, "store", c, l, p[1])  BY <1>1, <1>3
<1>9. \/ /\ l.ret = kStored /\ Found(obj, c, l) \in EntriesIn(obj)
         /\ obj[Found(obj, c, l)].data.key = c.key /\ l.dest = CellOf(obj, Found(obj, c, l))
      \/ l.ret = kCreated /\ Owns("store", l) /\ \A e \in EntriesIn(obj) : CellOf(obj, e) # l.dest
  BY <1>6, <1>7, <1>8, LookStep DEF Owns, HoldsAt, Hit, Found
<1>10. l.dest \in DOMAIN cell \ Bucket
  BY <1>7, <1>8, <1>9 DEF CellInv, HoldsAt
<1>11. l.made \in ValuesIn(obj) /\ l.made \in Nat  BY <1>6, <1>7, Kinds DEF IsVal
<1>12. /\ DOMAIN cell' = DOMAIN cell /\ cell'[l.dest] = l.made
       /\ \A x \in DOMAIN cell : x # l.dest => cell'[x] = cell[x]
  BY <1>5, <1>10
<1>13. CellInv(cell', obj', top')
  BY <1>3, <1>7, <1>10, <1>11, <1>12 DEF CellInv, Addr
<1>14. ObjInv(obj', top') /\ Grows(obj, obj')  BY <1>3, <1>7 DEF Grows
<1>15. ASSUME NEW u \in App, A(u) # p
       PROVE  /\ HoldsAt(cell', obj', lock', pc[A(u)], call[A(u)], loc[A(u)], u)
              /\ Owns("makeEntry", l) /\ Owns(pc[A(u)], loc[A(u)]) /\ l.ret = kCreated =>
                   l.dest # loc[A(u)].dest
  <2>1. PICK q : q = A(u)  OBVIOUS
  <2>2. /\ HoldsAt(cell, obj, lock, pc[q], call[q], loc[q], u)
        /\ pc[q] \in Inside => Hash[c.key] # Hash[call[q].key]
        /\ Owns("store", l) /\ Owns(pc[q], loc[q]) => l.dest # loc[q].dest
    BY <1>1, <1>3, <1>15, <2>1, Apart DEF Inside, Labels
  <2>3. /\ pc[q] \in Started => loc[q].hv \in Bucket
        /\ Owns(pc[q], loc[q]) => loc[q].dest \in DOMAIN cell \ Bucket
        /\ pc[q] \in {"makeEntry", "link"} => loc[q].dest \in DOMAIN cell \ Bucket
        /\ pc[q] = "makeEntry" => Owns(pc[q], loc[q])
        /\ pc[q] = "link" => /\ loc[q].made \in EntriesIn(obj)
                             /\ CellOf(obj, loc[q].made) = loc[q].dest
                             /\ obj[loc[q].made].data.key = call[q].key
    BY <1>15, <2>1, OthersCells
  <2>4. pc[q] \in {"makeEntry", "link"} => loc[q].dest # l.dest
    <3>1. CASE pc[q] = "makeEntry"
      BY <1>9, <2>2, <2>3, <3>1 DEF HoldsAt
    <3>2. CASE pc[q] = "link" /\ l.ret = kCreated  BY <1>9, <2>3, <3>2, WordsDiffer
    <3>3. CASE pc[q] = "link" /\ l.ret = kStored
      <4>1. /\ Found(obj, c, l) \in EntriesIn(obj) /\ l.dest = CellOf(obj, Found(obj, c, l))
            /\ obj[Found(obj, c, l)].data.key = c.key
        BY <1>9, <3>3, WordsDiffer
      <4>2. loc[q].made # Found(obj, c, l)
        BY <2>2, <2>3, <3>3, <4>1 DEF Inside, Labels
      <4> QED  BY <1>7, <2>3, <3>3, <4>1, <4>2 DEF CellInv
    <3> QED  BY <1>6, <3>1, <3>2, <3>3
  <2>5. pc[q] \in Started => cell'[loc[q].hv] = cell[loc[q].hv]
    BY <1>7, <1>10, <1>12, <2>3 DEF CellInv
  <2>6. pc[q] \in {"makeEntry", "link"} => cell'[loc[q].dest] = cell[loc[q].dest]
    BY <1>12, <2>3, <2>4
  <2>7. HoldsAt(cell', obj', lock', pc[q], call[q], loc[q], u)
    BY <1>3, <1>12, <2>2, <2>5, <2>6 DEF HoldsAt
  <2>8. Owns("makeEntry", l) /\ Owns(pc[q], loc[q]) /\ l.ret = kCreated =>
          l.dest # loc[q].dest
    BY <1>6, <2>2 DEF Owns
  <2> QED  BY <2>1, <2>7, <2>8
<1>16. Typed  BY <1>3, <1>4 DEF Typed, RightInv, TypesInv, noteVars
<1>17. \A u \in App : \A i \in DOMAIN pending'[u] :
         Full(obj', pending'[u][i].call, pending'[u][i].words)
  BY <1>3, <1>14, PendingKept
<1>18. loc' = [loc EXCEPT ![p] = l] /\ call' = [call EXCEPT ![p] = c]
       /\ c \in Call \cup {NoCall}
  BY <1>1, <1>3, <1>6 DEF Asked, RightInv, TypesInv
<1>19. PICK y2, y3 : y2 = <<l.dest, l.made>> /\ y3 = << >>  OBVIOUS
<1>20. Args(p) = y2 /\ Logged(p, y3)  BY <1>1, <1>2, <1>3, <1>19, ArgsAre
<1>21. WroteAt(obj, "store", c, l, log[p])  BY <1>1, <1>3
<1>22. lock[Hash[c.key]] = p[1] /\ cell[l.hv] = l.head
  BY <1>8 DEF HoldsAt, Inside, Started, Labels
<1>23. /\ l.hv \in Word /\ l.head \in Word /\ l.dest \in Word /\ l.made \in Word
       /\ SizeOfVal \in Word
  BY <1>6, <1>7, Words DEF Locals
<1>24. CASE l.ret = kStored
  <2>1. PICK x \in Addr : log[p] = <<l.hv, l.head, l.dest, x, SizeOfVal, l.made>>
    BY <1>21, <1>24, WordsDiffer DEF WroteAt
  <2>2. PICK y1, w : /\ y1 = <<l.hv, l.head, l.dest, x, SizeOfVal, l.made>>
                     /\ w = <<l.hv, l.head, l.dest, x, SizeOfVal, l.made, l.dest, l.made>>
    OBVIOUS
  <2>3. log[p] = y1 /\ y1 \o y2 \o y3 = w  BY <1>19, <2>1, <2>2, Join6_2_0
  <2>4. log' = [log EXCEPT ![p] = w]  BY <1>20, <2>3, AppLogged
  <2>5. Hit(obj, c, l) /\ l.dest = CellOf(obj, Found(obj, c, l))
    BY <1>6, <1>24, WordsDiffer
  <2>6. WroteAt(obj', "unlock", c, l, w)
    BY <1>3, <1>6, <1>11, <2>2, <2>5 DEF WroteAt
  <2>7. LocalsAt(obj', "unlock", c, l)  BY <1>3, <1>6, <1>24, <2>5 DEF LocalsAt
  <2>8. x \in Word  BY <1>7, Words
  <2>9. w \in Seq(Word)  BY <1>23, <2>2, <2>8
  <2>10. HoldsAt(cell', obj', lock', "unlock", c, l, p[1]) /\ ~Owns("unlock", l)
    BY <1>3, <1>22 DEF HoldsAt, Started, Owns
  <2>11. Moved(p, "unlock", c, l, w) /\ "unlock" \in Labels
    BY <1>3, <1>18, <1>24, <2>4 DEF Moved, Labels
  <2>12. \A u \in App : A(u) # p =>
           HoldsAt(cell', obj', lock', pc[A(u)], call[A(u)], loc[A(u)], u)
    BY <1>15
  <2>13. p[2] # "val"  OBVIOUS
  <2> QED
    BY <1>6, <1>13, <1>14, <1>16, <1>17, <1>18, <2>6, <2>7, <2>9, <2>10, <2>11, <2>12, <2>13,
       Frame
<1>25. CASE l.ret = kCreated
  <2>1. log[p] = <<l.hv, l.head, l.dest, SizeOfVal, l.made>>
    BY <1>21, <1>25, WordsDiffer DEF WroteAt
  <2>2. PICK y1, w : /\ y1 = <<l.hv, l.head, l.dest, SizeOfVal, l.made>>
                     /\ w = <<l.hv, l.head, l.dest, SizeOfVal, l.made, l.dest, l.made>>
    OBVIOUS
  <2>3. log[p] = y1 /\ y1 \o y2 \o y3 = w  BY <1>19, <2>1, <2>2, Join5_2_0
  <2>4. log' = [log EXCEPT ![p] = w]  BY <1>20, <2>3, AppLogged
  <2>5. WroteAt(obj', "makeEntry", c, l, w)
    BY <1>3, <1>6, <1>11, <2>2 DEF WroteAt
  <2>6. LocalsAt(obj', "makeEntry", c, l)
    BY <1>3, <1>6, <1>25, WordsDiffer DEF LocalsAt
  <2>7. w \in Seq(Word)  BY <1>23, <2>2
  <2>8. cell'[l.hv] = l.head
    <3>1. l.hv \in Bucket  BY <1>6, <1>7, HashAssumption
    <3> QED  BY <1>7, <1>10, <1>12, <1>22, <3>1 DEF CellInv
  <2>9. l.dest \in DOMAIN cell' \ Bucket /\ \A e \in EntriesIn(obj') : CellOf(obj', e) # l.dest
    BY <1>3, <1>9, <1>10, <1>12, <1>25, WordsDiffer
  <2>10. HoldsAt(cell', obj', lock', "makeEntry", c, l, p[1])
    BY <1>3, <1>6, <1>12, <1>22, <2>8, <2>9 DEF HoldsAt
  <2>11. Moved(p, "makeEntry", c, l, w) /\ "makeEntry" \in Labels
    BY <1>3, <1>18, <1>25, <2>4, WordsDiffer DEF Moved, Labels
  <2>12. \A u \in App : A(u) # p =>
           /\ HoldsAt(cell', obj', lock', pc[A(u)], call[A(u)], loc[A(u)], u)
           /\ p[2] = "app" /\ Owns("makeEntry", l) /\ Owns(pc[A(u)], loc[A(u)])
              => l.dest # loc[A(u)].dest
    BY <1>15, <1>25
  <2>13. p[2] # "val"  OBVIOUS
  <2> QED
    BY <1>6, <1>13, <1>14, <1>16, <1>17, <1>18, <2>5, <2>6, <2>7, <2>10, <2>11, <2>12, <2>13,
       Frame
<1> QED  BY <1>6, <1>24, <1>25

\* The entry that make_obj makes.
LEMMA EntryComes ==
  ASSUME RightInv, ~hit', NEW p \in Proc, p[2] = "app", MakeEntry(p)
  PROVE  /\ ObjInv(obj', top') /\ Grows(obj, obj')
         /\ ValuesIn(obj') = ValuesIn(obj) /\ EntriesIn(obj') = EntriesIn(obj) \cup {top + 1}
         /\ obj'[top + 1].data =
              [key |-> call[p].key, cell |-> loc[p].dest, next |-> loc[p].head]
<1> USE ProcFacts
<1>1. PICK c, k, e : /\ c = call[p] /\ k = loc[p]
                     /\ e = [key |-> c.key, cell |-> k.dest, next |-> k.head]
  OBVIOUS
<1>2. PICK wrongs, o :
        /\ o \in Outcomes(p, [data |-> e, sum |-> e], wrongs)
        /\ obj' = Extend(obj, top + 1, o[1]) /\ top' = top + 1 /\ Note(p, o[2])
  BY <1>1 DEF MakeEntry, Allocated, NewEntry
<1>3. ~o[2]  BY <1>2, Quietly
<1>4. o[1] = [data |-> e, sum |-> e]  BY <1>2, <1>3, Chosen
<1>5. pc[p] = "makeEntry"  BY DEF MakeEntry
<1>6. c \in Asked /\ k.head \in Places(obj) /\ k.ret = kCreated
  BY <1>1, <1>5 DEF LocalsAt
<1>7. ObjInv(obj, top) /\ CellInv(cell, obj, top)  BY DEF RightInv
<1>8. HoldsAt(cell, obj, lock, "makeEntry", c, k, p[1])  BY <1>1, <1>5
<1>9. k.dest \in DOMAIN cell  BY <1>6, <1>8 DEF HoldsAt, Owns
<1>10. e \in Entry /\ e.next \in Places(obj)
  <2>1. c.key \in Key  BY <1>6 DEF Asked, Call
  <2>2. k.dest \in Addr  BY <1>7, <1>9 DEF CellInv, Addr
  <2>3. k.head \in Addr  BY <1>6, <1>7, Kinds DEF Addr
  <2> QED  BY <1>1, <1>6, <2>1, <2>2, <2>3 DEF Entry
<1> QED  BY <1>1, <1>2, <1>4, <1>7, <1>10, AddEntry DEF ObjInv

\* A new entry, before the head of the chain.
LEMMA AppMakeEntry ==
  ASSUME RightInv, ~hit', NEW p \in Proc, p[2] = "app", MakeEntry(p)
  PROVE  RightInv'
<1> USE ProcFacts
<1>1. PICK c, k, a, l, e :
        /\ c = call[p] /\ k = loc[p] /\ a = top + 1 /\ l = [k EXCEPT !.made = a]
        /\ e = [key |-> c.key, cell |-> k.dest, next |-> k.head]
  OBVIOUS
<1>2. PICK o :
        /\ Logged(p, <<a>>) /\ loc' = [loc EXCEPT ![p] = l] /\ top' = a /\ Note(p, o[2])
  BY <1>1 DEF MakeEntry, Allocated
<1>3. pc[p] = "makeEntry" /\ pc' = [pc EXCEPT ![p] = "link"]
      /\ UNCHANGED <<cell, lock, call, pending, left, reported, noteVars>>
  BY DEF MakeEntry, Goto
<1>4. struck' \in [Proc -> BOOLEAN] /\ hit' = FALSE  BY <1>2, Quietly
<1>6. /\ c \in Asked /\ k.hv = Hash[c.key] /\ k.head \in Places(obj) /\ k \in Locals
      /\ c.op = "set" /\ k.ret = kCreated /\ ~Hit(obj, c, k)
  BY <1>1, <1>3 DEF LocalsAt
<1>7. ObjInv(obj, top) /\ CellInv(cell, obj, top) /\ top \in Nat
  BY DEF RightInv, ObjInv, HeapInv
<1>8. HoldsAt(cell, obj, lock, "makeEntry", c, k, p[1])  BY <1>1, <1>3
<1>9. /\ k.dest \in DOMAIN cell \ Bucket
      /\ \A d \in EntriesIn(obj) : CellOf(obj, d) # k.dest
      /\ IsVal(obj, c, cell[k.dest])
  BY <1>6, <1>8 DEF HoldsAt, Owns
<1>11. /\ ObjInv(obj', top') /\ Grows(obj, obj')
       /\ ValuesIn(obj') = ValuesIn(obj) /\ EntriesIn(obj') = EntriesIn(obj) \cup {a}
       /\ obj'[a].data = e
  BY <1>1, EntryComes
<1>12. /\ a \in Nat /\ a \in Word /\ DOMAIN cell \subseteq 1 .. a
       /\ Places(obj) \subseteq Places(obj')
       /\ \A d \in EntriesIn(obj) : CellOf(obj', d) = CellOf(obj, d)
       /\ CellOf(obj', a) = k.dest
       /\ \A v : IsVal(obj, c, v) => IsVal(obj', c, v)
  <2>1. a \in Nat /\ 1 .. top \subseteq 1 .. a  BY <1>1, <1>7
  <2>2. CellOf(obj', a) = k.dest  BY <1>1, <1>11 DEF CellOf
  <2> QED  BY <1>7, <1>11, <2>1, <2>2, Words, Kept DEF CellInv
<1>13. CellInv(cell', obj', top')
  <2>1. \A d \in EntriesIn(obj') : /\ CellOf(obj', d) \in DOMAIN cell \ Bucket
                                   /\ cell[CellOf(obj', d)] \in ValuesIn(obj')
    BY <1>7, <1>9, <1>11, <1>12 DEF CellInv, IsVal
  <2>2. \A d, f \in EntriesIn(obj') : CellOf(obj', d) = CellOf(obj', f) => d = f
    BY <1>7, <1>9, <1>11, <1>12 DEF CellInv
  <2> QED  BY <1>2, <1>3, <1>7, <1>12, <2>1, <2>2 DEF CellInv
<1>14. /\ l \in Locals /\ l.made = a /\ l.ret = k.ret /\ l.hv = k.hv /\ l.head = k.head
       /\ l.dest = k.dest
  BY <1>1, <1>6, <1>12 DEF Locals
<1>15. IsEntry(obj', c, l.dest, l.head, l.made)  BY <1>1, <1>11, <1>14 DEF IsEntry
<1>16. LocalsAt(obj', "link", c, l)
  <2>1. Hit(obj', c, k) <=> Hit(obj, c, k)  BY <1>6, <1>7, <1>11, FoundKept
  <2>2. Hit(obj', c, l) <=> Hit(obj', c, k)  BY <1>14 DEF Hit, Found
  <2> QED  BY <1>6, <1>12, <1>14, <1>15, <2>1, <2>2 DEF LocalsAt
<1>17. WroteAt(obj, "makeEntry", c, k, log[p])  BY <1>1, <1>3
<1>18. PICK w : log' = [log EXCEPT ![p] = w] /\ w \in Seq(Word) /\ WroteAt(obj', "link", c, l, w)
  <2>1. PICK y2, y3 : y2 = <<SizeOfEntry>> /\ y3 = <<a>>  OBVIOUS
  <2>2. Args(p) = y2 /\ Logged(p, y3)  BY <1>2, <1>3, <2>1, ArgsAre
  <2>3. SizeOfVal \in Word /\ SizeOfEntry \in Word  BY <1>7, Words
  <2>4. PICK v \in ValuesIn(obj) :
          IsVal(obj, c, v) /\ log[p] = <<k.hv, k.head, k.dest, SizeOfVal, v, k.dest, v>>
    BY <1>17 DEF WroteAt
  <2>5. PICK y1, w : /\ y1 = <<k.hv, k.head, k.dest, SizeOfVal, v, k.dest, v>>
                     /\ w = <<k.hv, k.head, k.dest, SizeOfVal, v, k.dest, v, SizeOfEntry, a>>
    OBVIOUS
  <2>6. log[p] = y1 /\ y1 \o y2 \o y3 = w  BY <2>1, <2>4, <2>5, Join7_1_1
  <2>7. log' = [log EXCEPT ![p] = w]  BY <2>2, <2>6, AppLogged
  <2>8. WroteAt(obj', "link", c, l, w)
    BY <1>11, <1>12, <1>14, <2>4, <2>5 DEF WroteAt
  <2>9. v \in Word  BY <1>7, Words
  <2>10. w \in Seq(Word)  BY <1>6, <1>12, <2>3, <2>5, <2>9 DEF Locals
  <2> QED  BY <2>7, <2>8, <2>10
<1>19. ~Owns("link", l)  BY DEF Owns
<1>20. HoldsAt(cell', obj', lock', "link", c, l, p[1])
  BY <1>3, <1>8, <1>9, <1>12, <1>14, <1>19 DEF HoldsAt, Inside, Started, Labels
<1>21. Owns(pc[p], loc[p])  BY <1>1, <1>3, <1>6 DEF Owns
<1>22. \A u \in App : A(u) # p =>
         HoldsAt(cell', obj', lock', pc[A(u)], call[A(u)], loc[A(u)], u)
  BY <1>1, <1>3, <1>11, <1>12, <1>21, Apart, OthersGrow
<1>23. Moved(p, "link", c, l, w) /\ c \in Call \cup {NoCall}
  BY <1>1, <1>2, <1>3, <1>6, <1>18 DEF Moved, Asked, RightInv, TypesInv
<1>24. Typed  BY <1>3, <1>4 DEF Typed, RightInv, TypesInv, noteVars
<1>25. \A u \in App : \A i \in DOMAIN pending'[u] :
         Full(obj', pending'[u][i].call, pending'[u][i].words)
  BY <1>3, <1>11, PendingKept
<1>26. p[2] # "val" /\ "link" \in Labels  BY DEF Labels
<1> QED
  BY <1>11, <1>13, <1>14, <1>16, <1>18, <1>19, <1>20, <1>22, <1>23, <1>24, <1>25, <1>26, Frame

\* The chain of the bucket begins with the new entry.
LEMMA AppLink ==
  ASSUME RightInv, ~hit', NEW p \in Proc, p[2] = "app", Link(p)
  PROVE  RightInv'
<1> USE ProcFacts
<1>1. PICK c, l : c = call[p] /\ l = loc[p]  OBVIOUS
<1>2. PICK wrongs, o :
        /\ o \in Outcomes(p, l.made, wrongs)
        /\ Logged(p, << >>) /\ cell' = [cell EXCEPT ![l.hv] = o[1]] /\ Note(p, o[2])
  BY <1>1 DEF Link
<1>3. /\ pc[p] = "link" /\ pc' = [pc EXCEPT ![p] = "unlock"]
      /\ UNCHANGED <<obj, top, lock, call, loc, pending, left, reported, noteVars>>
  BY <1>1 DEF Link, Goto
<1>4. ~o[2] /\ struck' \in [Proc -> BOOLEAN] /\ hit' = FALSE  BY <1>2, Quietly
<1>5. cell' = [cell EXCEPT ![l.hv] = l.made]
  <2>1. o[1] = l.made  BY <1>2, <1>4, Chosen
  <2> QED  BY <1>2, <2>1
<1>6. /\ c \in Asked /\ l.hv = Hash[c.key] /\ l.head \in Places(obj) /\ l \in Locals
      /\ c.op = "set" /\ l.ret = kCreated /\ ~Hit(obj, c, l)
      /\ IsEntry(obj, c, l.dest, l.head, l.made)
  BY <1>1, <1>3 DEF LocalsAt
<1>7. ObjInv(obj, top) /\ CellInv(cell, obj, top) /\ top \in Nat /\ c.key \in Key
  BY <1>6 DEF RightInv, ObjInv, HeapInv, Asked, Call
<1>8. HoldsAt(cell, obj, lock, "link", c, l, p[1])  BY <1>1, <1>3
<1>9. l.hv \in Bucket /\ l.hv \in DOMAIN cell  BY <1>6, <1>7, HashAssumption DEF CellInv
<1>10. l.made \in EntriesIn(obj) /\ l.made \in Nat /\ CellOf(obj, l.made) = l.dest
  BY <1>6, <1>7, Kinds DEF IsEntry, CellOf
<1>11. l.dest \in DOMAIN cell /\ l.dest \in Addr
  BY <1>7, <1>10 DEF CellInv, Addr
<1>12. /\ DOMAIN cell' = DOMAIN cell /\ cell'[l.hv] = l.made
       /\ \A x \in DOMAIN cell : x # l.hv => cell'[x] = cell[x]
  BY <1>5, <1>9
<1>13. CellInv(cell', obj', top')
  BY <1>3, <1>7, <1>9, <1>10, <1>12 DEF CellInv, Addr, Places
<1>14. ObjInv(obj', top') /\ Grows(obj, obj')  BY <1>3, <1>7 DEF Grows
<1>15. ASSUME NEW u \in App, A(u) # p
       PROVE  HoldsAt(cell', obj', lock', pc[A(u)], call[A(u)], loc[A(u)], u)
  <2>1. PICK q : q = A(u)  OBVIOUS
  <2>2. /\ HoldsAt(cell, obj, lock, pc[q], call[q], loc[q], u)
        /\ pc[q] \in Inside => /\ Hash[c.key] # Hash[call[q].key]
                               /\ loc[q].hv = Hash[call[q].key]
    BY <1>1, <1>3, <1>15, <2>1, Apart DEF Inside, Labels
  <2>3. /\ pc[q] \in Started => loc[q].hv \in Bucket
        /\ Owns(pc[q], loc[q]) => loc[q].dest \in DOMAIN cell \ Bucket
        /\ pc[q] \in {"makeEntry", "link"} => loc[q].dest \in DOMAIN cell \ Bucket
    BY <1>15, <2>1, OthersCells
  <2>4. pc[q] \in Started => cell'[loc[q].hv] = cell[loc[q].hv]
    BY <1>6, <1>7, <1>12, <2>2, <2>3 DEF CellInv, Started
  <2>5. pc[q] \in {"makeEntry", "link"} => cell'[loc[q].dest] = cell[loc[q].dest]
    BY <1>9, <1>12, <2>3
  <2>6. HoldsAt(cell', obj', lock', pc[q], call[q], loc[q], u)
    BY <1>3, <1>12, <2>2, <2>4, <2>5 DEF HoldsAt
  <2> QED  BY <2>1, <2>6
<1>16. Typed  BY <1>3, <1>4 DEF Typed, RightInv, TypesInv, noteVars
<1>17. \A u \in App : \A i \in DOMAIN pending'[u] :
         Full(obj', pending'[u][i].call, pending'[u][i].words)
  BY <1>3, <1>14, PendingKept
<1>18. loc' = [loc EXCEPT ![p] = l] /\ call' = [call EXCEPT ![p] = c]
       /\ c \in Call \cup {NoCall}
  BY <1>1, <1>3, <1>6 DEF Asked, RightInv, TypesInv
<1>19. PICK w : log' = [log EXCEPT ![p] = w] /\ w \in Seq(Word) /\ WroteAt(obj', "unlock", c, l, w)
  <2>1. PICK y2, y3 : y2 = <<l.hv, l.made>> /\ y3 = << >>  OBVIOUS
  <2>2. Args(p) = y2 /\ Logged(p, y3)  BY <1>1, <1>2, <1>3, <2>1, ArgsAre
  <2>3. WroteAt(obj, "link", c, l, log[p])  BY <1>1, <1>3
  <2>4. PICK v \in ValuesIn(obj) :
          /\ IsVal(obj, c, v)
          /\ log[p] = <<l.hv, l.head, l.dest, SizeOfVal, v, l.dest, v, SizeOfEntry, l.made>>
    BY <2>3 DEF WroteAt
  <2>5. PICK y1, w :
          /\ y1 = <<l.hv, l.head, l.dest, SizeOfVal, v, l.dest, v, SizeOfEntry, l.made>>
          /\ w = <<l.hv, l.head, l.dest, SizeOfVal, v, l.dest, v, SizeOfEntry, l.made, l.hv, l.made>>
    OBVIOUS
  <2>6. log[p] = y1 /\ y1 \o y2 \o y3 = w  BY <2>1, <2>4, <2>5, Join9_2_0
  <2>7. log' = [log EXCEPT ![p] = w]  BY <2>2, <2>6, AppLogged
  <2>8. WroteAt(obj', "unlock", c, l, w)
    BY <1>3, <1>6, <1>10, <1>11, <2>4, <2>5 DEF WroteAt
  <2>9. v \in Word /\ SizeOfVal \in Word /\ SizeOfEntry \in Word  BY <1>7, Words
  <2>10. w \in Seq(Word)  BY <1>6, <2>5, <2>9 DEF Locals
  <2> QED  BY <2>7, <2>8, <2>10
<1>20. LocalsAt(obj', "unlock", c, l)  BY <1>3, <1>6 DEF LocalsAt
<1>21. HoldsAt(cell', obj', lock', "unlock", c, l, p[1]) /\ ~Owns("unlock", l)
  BY <1>3, <1>8 DEF HoldsAt, Started, Inside, Labels, Owns
<1>22. Moved(p, "unlock", c, l, w) /\ "unlock" \in Labels /\ p[2] # "val"
  BY <1>3, <1>18, <1>19 DEF Moved, Labels
<1> QED
  BY <1>6, <1>13, <1>14, <1>15, <1>16, <1>17, <1>18, <1>19, <1>20, <1>21, <1>22, Frame

\* The closure is done with the bucket.
LEMMA AppUnlock ==
  ASSUME RightInv, ~hit', NEW p \in Proc, p[2] = "app", Unlock(p)
  PROVE  RightInv'
<1> USE ProcFacts
<1>1. PICK c, l, w : c = call[p] /\ l = loc[p] /\ w = log[p]  OBVIOUS
<1>2. /\ pc[p] = "unlock" /\ pc' = [pc EXCEPT ![p] = "return"]
      /\ lock' = [lock EXCEPT ![l.hv] = NoApp]
      /\ UNCHANGED <<memVars, call, loc, log, pending, left, reported, hit, struck, wrong>>
  BY <1>1 DEF Unlock, Goto
<1>3. /\ DOMAIN owed' = DOMAIN owed
      /\ spec' = IF c.op = "get" THEN spec ELSE [spec EXCEPT ![c.key] = c.val]
  BY <1>1 DEF Unlock
<1>4. c \in Asked /\ l.hv = Hash[c.key] /\ LocalsAt(obj, "unlock", c, l)
      /\ l \in Locals /\ w \in Seq(Word) /\ WroteAt(obj, "unlock", c, l, w)
  BY <1>1, <1>2 DEF LocalsAt
<1>5. c.key \in Key /\ c.val \in Val \cup {NoVal} /\ l.hv \in Bucket
  <2>1. c.key \in Key /\ c.val \in Val \cup {NoVal}  BY <1>4 DEF Asked, Call
  <2> QED  BY <1>4, <2>1, HashAssumption
<1>6. Typed
  <2>1. lock' \in [Bucket -> App \cup {NoApp}]  BY <1>2 DEF RightInv, TypesInv
  <2>2. spec' \in [Key -> Val \cup {NoVal}]  BY <1>3, <1>5 DEF RightInv, TypesInv
  <2>3. DOMAIN owed' = App  BY <1>3 DEF RightInv, TypesInv
  <2> QED  BY <1>2, <2>1, <2>2, <2>3 DEF Typed, RightInv, TypesInv
<1>7. obj' = obj /\ cell' = cell /\ top' = top /\ pending' = pending  BY <1>2 DEF memVars
<1>8. LocalsAt(obj', "return", c, l) /\ WroteAt(obj', "return", c, l, w)
  BY <1>4, <1>7 DEF LocalsAt, WroteAt
<1>9. HoldsAt(cell', obj', lock', "return", c, l, p[1]) /\ ~Owns("return", l)
  BY DEF HoldsAt, Started, Inside, Owns
<1>10. /\ ObjInv(obj', top') /\ CellInv(cell', obj', top') /\ Grows(obj, obj')
       /\ \A u \in App : \A i \in DOMAIN pending'[u] :
            Full(obj', pending'[u][i].call, pending'[u][i].words)
  BY <1>7 DEF RightInv, Grows
<1>11. ASSUME NEW u \in App, A(u) # p
       PROVE  HoldsAt(cell', obj', lock', pc[A(u)], call[A(u)], loc[A(u)], u)
  <2>1. PICK q : q = A(u)  OBVIOUS
  <2>2. /\ HoldsAt(cell, obj, lock, pc[q], call[q], loc[q], u)
        /\ pc[q] \in Inside => /\ Hash[call[q].key] \in Bucket
                               /\ lock[Hash[call[q].key]] = u
                               /\ Hash[c.key] # Hash[call[q].key]
    BY <1>1, <1>2, <1>11, <2>1, Apart DEF Inside, Labels
  <2>3. pc[q] \in Inside => lock'[Hash[call[q].key]] = u
    BY <1>2, <1>4, <2>2 DEF RightInv, TypesInv
  <2> QED  BY <1>7, <2>1, <2>2, <2>3 DEF HoldsAt
<1>12. Moved(p, "return", c, l, w) /\ c \in Call \cup {NoCall}
  BY <1>1, <1>2 DEF Moved, RightInv, TypesInv
<1>13. p[2] # "val" /\ "return" \in Labels  BY DEF Labels
<1> QED  BY <1>4, <1>6, <1>8, <1>9, <1>10, <1>11, <1>12, <1>13, Frame

\* The return value and the tail make the log of the closure whole.
LEMMA Finishes ==
  ASSUME NEW m, NEW n, ObjInv(m, n), NEW c \in Asked, NEW l, NEW w,
         LocalsAt(m, "return", c, l), WroteAt(m, "return", c, l, w)
  PROVE  Full(m, c, w \o <<l.ret, Magic>>)
<1>1. PICK h, b, r, f, y : /\ h = l.head /\ b = Hash[c.key] /\ r = Look(m, c.key)[h]
                           /\ f = CellOf(m, r) /\ y = w \o <<l.ret, Magic>>
  OBVIOUS
<1>2. h \in Places(m) /\ l.hv = b  BY <1>1 DEF LocalsAt
<1>3. r = Found(m, c, l) /\ (Hit(m, c, l) <=> r # 0)  BY <1>1 DEF Hit, Found
<1>4. c.op \in {"get", "set"}  BY DEF Asked, Call
<1>5. CASE c.op = "get" /\ r # 0
  <2>1. w = <<b, h, f, l.ret>>  BY <1>1, <1>2, <1>3, <1>5 DEF WroteAt
  <2>2. l.ret \in ValuesIn(m)  BY <1>3, <1>5 DEF LocalsAt
  <2>3. y = <<b, h, f, l.ret, l.ret, Magic>>  BY <1>1, <2>1, Ends4
  <2> QED  BY <1>1, <1>2, <1>5, <2>2, <2>3 DEF Full
<1>6. CASE c.op = "get" /\ r = 0
  <2>1. w = <<b, h>>  BY <1>1, <1>2, <1>3, <1>6 DEF WroteAt
  <2>2. l.ret = 0  BY <1>3, <1>6 DEF LocalsAt
  <2>3. y = <<b, h, 0, Magic>>  BY <1>1, <2>1, <2>2, Ends2
  <2> QED  BY <1>1, <1>2, <1>6, <2>3 DEF Full
<1>7. CASE c.op = "set" /\ r # 0
  <2>1. PICK o \in Addr, v \in ValuesIn(m) :
          IsVal(m, c, v) /\ w = <<b, h, f, o, SizeOfVal, v, f, v>>
    BY <1>1, <1>2, <1>3, <1>7 DEF WroteAt
  <2>2. l.ret = kStored  BY <1>3, <1>7 DEF LocalsAt
  <2>3. y = <<b, h, f, o, SizeOfVal, v, f, v, kStored, Magic>>  BY <1>1, <2>1, <2>2, Ends8
  <2> QED  BY <1>1, <1>2, <1>7, <2>1, <2>3 DEF Full
<1>8. CASE c.op = "set" /\ r = 0
  <2>1. PICK a \in Addr, v \in ValuesIn(m), e \in EntriesIn(m) :
          /\ IsVal(m, c, v) /\ IsEntry(m, c, a, h, e)
          /\ w = <<b, h, a, SizeOfVal, v, a, v, SizeOfEntry, e, b, e>>
    BY <1>1, <1>2, <1>3, <1>8 DEF WroteAt
  <2>2. l.ret = kCreated  BY <1>3, <1>8 DEF LocalsAt
  <2>3. y = <<b, h, a, SizeOfVal, v, a, v, SizeOfEntry, e, b, e, kCreated, Magic>>
    BY <1>1, <2>1, <2>2, Ends11
  <2> QED  BY <1>1, <1>2, <1>8, <2>1, <2>3 DEF Full
<1> QED  BY <1>1, <1>4, <1>5, <1>6, <1>7, <1>8

\* The log is committed, whole.
LEMMA AppReturn ==
  ASSUME RightInv, ~hit', NEW t \in App, Return(t)
  PROVE  RightInv'
<1> USE ProcFacts
<1>1. PICK p \in Proc : p = A(t)  BY DEF A, Proc, Side
<1>2. p[2] = "app" /\ p[2] # "val" /\ p[1] = t  BY <1>1 DEF A
<1>3. PICK c, l, w : c = call[p] /\ l = loc[p] /\ w = log[p]  OBVIOUS
<1>4. PICK wrongs, o, f :
        /\ o \in Outcomes(p, l.ret, wrongs)
        /\ f = (struck[p] \/ o[2])
        /\ pending' = [pending EXCEPT ![t] =
             Append(@, [call |-> c, struck |-> f, words |-> w \o <<o[1], Magic>>])]
        /\ wrong' \in BOOLEAN /\ hit' = (hit \/ o[2])
  <2>1. PICK wrongs : wrongs = Wrong("return", IF call[p].op = "set" THEN {kStored, kCreated}
                                               ELSE Values \cup {0})
    OBVIOUS
  <2>2. PICK o \in Outcomes(p, l.ret, wrongs) :
          /\ pending' = [pending EXCEPT ![t] =
               Append(@, [call |-> c, struck |-> struck[p] \/ o[2],
                          words |-> w \o <<o[1], Magic>>])]
          /\ wrong' = (wrong \/ Answer(c.op, o[1]) # owed[t])
          /\ hit' = (hit \/ o[2])
    BY <1>1, <1>3, <2>1 DEF Return, A
  <2>3. PICK f : f = (struck[p] \/ o[2])  OBVIOUS
  <2>4. wrong' \in BOOLEAN  BY <2>2
  <2> QED  BY <2>2, <2>3, <2>4
<1>5. /\ pc[p] = "return" /\ struck' = [struck EXCEPT ![p] = FALSE]
      /\ Moved(p, "idle", NoCall, Fresh, << >>)
      /\ owed' = [owed EXCEPT ![t] = NoVal]
      /\ UNCHANGED <<memVars, lock, left, reported, spec>>
  BY <1>1 DEF Return, A, Goto, Moved
<1>6. ~o[2] /\ hit' = FALSE /\ f \in BOOLEAN  BY <1>4
<1>7. o[1] = l.ret  BY <1>4, <1>6, Chosen
<1>8. /\ LocalsAt(obj, "return", c, l) /\ WroteAt(obj, "return", c, l, w) /\ c \in Asked
      /\ l \in Locals /\ w \in Seq(Word)
  BY <1>2, <1>3, <1>5 DEF LocalsAt
<1>9. ObjInv(obj, top)  BY DEF RightInv
<1>10. PICK x, y, r : x = <<l.ret, Magic>> /\ y = w \o x
                      /\ r = [call |-> c, struck |-> f, words |-> y]
  OBVIOUS
<1>11. Full(obj, c, y)  BY <1>8, <1>9, <1>10, Finishes
<1>12. y \in Seq(Word)
  <2>1. x \in Seq(Word)  BY <1>8, <1>9, <1>10, Words DEF Locals
  <2> QED  BY <1>8, <1>10, <2>1, ConcatProperties
<1>13. pending' = [pending EXCEPT ![t] = Append(@, r)]  BY <1>4, <1>7, <1>10
<1>14. PICK R : R = [call : Asked, struck : BOOLEAN, words : Seq(Word)]  OBVIOUS
<1>15. r \in R /\ r.call = c /\ r.words = y  BY <1>6, <1>8, <1>10, <1>12, <1>14
<1>16. pending \in [App -> Seq(R)]  BY <1>14 DEF RightInv, TypesInv
<1>17. /\ pending' \in [App -> Seq(R)] /\ pending'[t] = Append(pending[t], r)
       /\ \A u \in App : u # t => pending'[u] = pending[u]
  BY <1>13, <1>15, <1>16
<1>18. Typed
  <2>1. owed' = [owed EXCEPT ![t] = NoVal] /\ DOMAIN owed = App
    BY <1>5 DEF RightInv, TypesInv
  <2>2. struck' \in [Proc -> BOOLEAN]  BY <1>5 DEF RightInv, TypesInv
  <2>3. DOMAIN owed' = App  BY <2>1
  <2> QED  BY <1>4, <1>5, <1>6, <1>14, <1>17, <2>2, <2>3 DEF Typed, RightInv, TypesInv
<1>19. obj' = obj  BY <1>5 DEF memVars
<1>20. ASSUME NEW u \in App, NEW i \in DOMAIN pending'[u]
       PROVE  Full(obj', pending'[u][i].call, pending'[u][i].words)
  <2>1. CASE u # t
    <3>1. pending'[u] = pending[u]  BY <1>17, <2>1
    <3> QED  BY <1>19, <1>20, <3>1 DEF RightInv
  <2>2. CASE u = t
    <3>1. PICK q : q = pending[t]  OBVIOUS
    <3>2. q \in Seq(R) /\ pending'[u] = Append(q, r)  BY <1>16, <1>17, <2>2, <3>1
    <3>3. CASE i \in DOMAIN q
      <4>1. pending'[u][i] = q[i]  BY <3>2, <3>3
      <4> QED  BY <1>19, <3>1, <3>3, <4>1 DEF RightInv
    <3>4. CASE i \notin DOMAIN q
      <4>1. pending'[u][i] = r  BY <1>20, <3>2, <3>4
      <4> QED  BY <1>11, <1>15, <1>19, <4>1
    <3> QED  BY <3>3, <3>4
  <2> QED  BY <2>1, <2>2
<1>21. /\ ObjInv(obj', top') /\ CellInv(cell', obj', top') /\ Grows(obj, obj')
       /\ \A u \in App : HoldsAt(cell', obj', lock', pc[A(u)], call[A(u)], loc[A(u)], u)
  BY <1>5, Still
<1>22. /\ LocalsAt(obj', "idle", NoCall, Fresh) /\ WroteAt(obj', "idle", NoCall, Fresh, << >>)
       /\ HoldsAt(cell', obj', lock', "idle", NoCall, Fresh, p[1]) /\ ~Owns("idle", Fresh)
  BY DEF LocalsAt, WroteAt, HoldsAt, Inside, Started, Owns
<1>23. "idle" \in Labels /\ Fresh \in Locals /\ << >> \in Seq(Word)
  BY DEF Labels, Fresh, Locals, Word, Addr
<1> QED  BY <1>2, <1>5, <1>18, <1>20, <1>21, <1>22, <1>23, Frame

\* No step of the application breaks the invariant, unless a fault strikes it.
LEMMA AppSafe ==
  ASSUME RightInv, ~hit', NEW t \in App, AppStep(t)
  PROVE  RightInv'
<1>1. A(t) \in Proc /\ A(t)[2] = "app"  BY DEF A, Proc, Side
<1>2. CASE Return(t)  BY <1>2, AppReturn
<1>3. CASE ClosureStep(A(t))
  BY <1>1, <1>3, AppLock, AppReadHead, WalkFind, WalkSkip, WalkMiss, AppWalk, AppLoad,
     AppNewCell, AppMakeVal, AppStore, AppMakeEntry, AppLink, AppUnlock
  DEF ClosureStep
<1> QED  BY <1>2, <1>3 DEF AppStep, A

-----------------------------------------------------------------------------
(* The invariant holds. *)

\* An empty map, no closure running.
LEMMA InitInv ==
  ASSUME Init
  PROVE  RightInv
<1>1. Buckets \in Nat /\ MaxOps \in Nat  BY SizesAssumption
<1>2. DOMAIN obj = {}  BY DEF Init
<1>3. EntriesIn(obj) = {} /\ ValuesIn(obj) = {} /\ Places(obj) = {0}
  BY <1>2 DEF EntriesIn, ValuesIn, Places
<1>4. ObjInv(obj, top)
  <2>1. ASSUME NEW k \in Key
        PROVE  /\ Walks(obj, k, Look(obj, k))
               /\ \A f : Walks(obj, k, f) => f = Look(obj, k)
               /\ \A a \in Places(obj) : Look(obj, k)[a] = 0
    <3>1. \A f : Walks(obj, k, f) <=> f = [a \in {0} |-> 0]
      <4> SUFFICES ASSUME NEW f PROVE Walks(obj, k, f) <=> f = [a \in {0} |-> 0]
        OBVIOUS
      <4>1. [a \in {0} |-> IF a = 0 THEN 0 ELSE IF obj[a].data.key = k THEN a
                           ELSE f[obj[a].data.next]] = [a \in {0} |-> 0]
        OBVIOUS
      <4> QED  BY <1>3, <4>1 DEF Walks
    <3>2. Walks(obj, k, Look(obj, k))  BY <3>1 DEF Look
    <3> QED  BY <1>3, <3>1, <3>2
  <2>2. top = Buckets  BY DEF Init
  <2> QED  BY <1>1, <1>2, <1>3, <2>1, <2>2 DEF ObjInv, HeapInv, Honest
<1>5. CellInv(cell, obj, top)
  BY <1>1, <1>3 DEF Init, CellInv, Bucket, Addr
<1>6. Fresh \in Locals /\ << >> \in Seq(Word)  BY DEF Fresh, Locals, Word, Addr
<1>7. TypesInv /\ ~reported
  <2>2. pending = [t \in App |-> << >>]  BY DEF Init
  <2>3. << >> \in Seq([call : Asked, struck : BOOLEAN, words : Seq(Word)])  OBVIOUS
  <2>4. pending \in [App -> Seq([call : Asked, struck : BOOLEAN, words : Seq(Word)])]
    BY <2>2, <2>3
  <2>5. /\ lock \in [Bucket -> App \cup {NoApp}] /\ left \in 0 .. MaxOps
        /\ spec \in [Key -> Val \cup {NoVal}] /\ DOMAIN owed = App
    BY <1>1 DEF Init
  <2>6. pc \in [Proc -> Labels] /\ call \in [Proc -> Call \cup {NoCall}]
    BY DEF Init, Labels
  <2>7. loc \in [Proc -> Locals] /\ log \in [Proc -> Seq(Word)]  BY <1>6 DEF Init
  <2>8. hit \in BOOLEAN /\ wrong \in BOOLEAN /\ struck \in [Proc -> BOOLEAN] /\ ~reported
    BY DEF Init
  <2> QED  BY <2>4, <2>5, <2>6, <2>7, <2>8 DEF TypesInv
<1>8. \A p \in Proc : /\ pc[p] = "idle" /\ call[p] = NoCall /\ loc[p] = Fresh
                      /\ log[p] = << >>
  BY DEF Init
<1>9. \A t \in App : A(t) \in Proc /\ V(t) \in Proc  BY DEF A, V, Proc, Side
<1>10. \A t \in App : DOMAIN pending[t] = {}  BY DEF Init
<1>11. \A p \in Proc : LocalsAt(obj, pc[p], call[p], loc[p])
  BY <1>8 DEF LocalsAt
<1>12. ASSUME NEW t \in App
       PROVE  /\ WroteAt(obj, pc[A(t)], call[A(t)], loc[A(t)], log[A(t)])
              /\ HoldsAt(cell, obj, lock, pc[A(t)], call[A(t)], loc[A(t)], t)
              /\ LeftAt(obj, pc[V(t)], call[V(t)], loc[V(t)], log[V(t)])
              /\ ~Owns(pc[A(t)], loc[A(t)])
  BY <1>8, <1>9 DEF WroteAt, HoldsAt, LeftAt, Owns, Inside, Started
<1> QED  BY <1>4, <1>5, <1>7, <1>10, <1>11, <1>12 DEF RightInv

\* A fault that struck has struck.
LEMMA HitStays ==
  ASSUME hit, [Next]_vars
  PROVE  hit'
<1>1. ASSUME NEW p, ClosureStep(p) PROVE hit'
  BY <1>1 DEF ClosureStep, Lock, ReadHead, Find, Skip, Miss, Load, NewCell, MakeVal, Store,
     MakeEntry, Link, Unlock, Note
<1>2. ASSUME NEW t \in App, Invoke(t) \/ AppStep(t) \/ ValStep(t) PROVE hit'
  BY <1>1, <1>2 DEF Invoke, AppStep, ValStep, Return, Open, Close, Report
<1>3. CASE UNCHANGED vars  BY <1>3 DEF vars
<1> QED  BY <1>2, <1>3 DEF Next

\* A step that changes nothing keeps the invariant.
LEMMA StutterInv ==
  ASSUME RightInv, UNCHANGED vars
  PROVE  RightInv'
<1>1. /\ cell' = cell /\ obj' = obj /\ top' = top /\ lock' = lock /\ pc' = pc
      /\ call' = call /\ loc' = loc /\ log' = log /\ pending' = pending /\ left' = left
      /\ reported' = reported /\ hit' = hit /\ struck' = struck /\ spec' = spec
      /\ owed' = owed /\ wrong' = wrong
  BY DEF vars, memVars, runVars, noteVars
<1>2. TypesInv'
  <2>1. TypesInv  BY DEF RightInv
  <2>2. /\ lock' \in [Bucket -> App \cup {NoApp}]
        /\ pc' \in [Proc -> Labels] /\ call' \in [Proc -> Call \cup {NoCall}]
    BY <1>1, <2>1 DEF TypesInv
  <2>3. loc' \in [Proc -> Locals] /\ log' \in [Proc -> Seq(Word)]
    BY <1>1, <2>1 DEF TypesInv
  <2>4. pending' \in [App -> Seq([call : Asked, struck : BOOLEAN, words : Seq(Word)])]
    BY <1>1, <2>1 DEF TypesInv
  <2>5. /\ left' \in 0 .. MaxOps /\ hit' \in BOOLEAN /\ wrong' \in BOOLEAN
        /\ struck' \in [Proc -> BOOLEAN]
        /\ spec' \in [Key -> Val \cup {NoVal}] /\ DOMAIN owed' = App
    BY <1>1, <2>1 DEF TypesInv
  <2> QED  BY <2>2, <2>3, <2>4, <2>5 DEF TypesInv
<1>3. ~reported' /\ ObjInv(obj', top') /\ CellInv(cell', obj', top')
  BY <1>1 DEF RightInv
<1>4. \A p \in Proc : LocalsAt(obj', pc'[p], call'[p], loc'[p])
  BY <1>1 DEF RightInv
<1>5. \A t \in App :
        /\ WroteAt(obj', pc'[A(t)], call'[A(t)], loc'[A(t)], log'[A(t)])
        /\ HoldsAt(cell', obj', lock', pc'[A(t)], call'[A(t)], loc'[A(t)], t)
        /\ LeftAt(obj', pc'[V(t)], call'[V(t)], loc'[V(t)], log'[V(t)])
        /\ \A i \in DOMAIN pending'[t] :
             Full(obj', pending'[t][i].call, pending'[t][i].words)
  BY <1>1 DEF RightInv
<1>6. ASSUME NEW t \in App, NEW u \in App,
             Owns(pc'[A(t)], loc'[A(t)]), Owns(pc'[A(u)], loc'[A(u)]),
             loc'[A(t)].dest = loc'[A(u)].dest
      PROVE  t = u
  <2>1. /\ Owns(pc[A(t)], loc[A(t)]) /\ Owns(pc[A(u)], loc[A(u)])
        /\ loc[A(t)].dest = loc[A(u)].dest
    BY <1>1, <1>6
  <2> QED  BY <2>1 DEF RightInv
<1> QED  BY <1>2, <1>3, <1>4, <1>5, <1>6 DEF RightInv

\* The invariant is inductive: a fault is there to stay, and without one every
\* step leaves what the logs and the objects say in agreement.
LEMMA NextInv ==
  ASSUME Inv, [Next]_vars
  PROVE  Inv'
<1>1. CASE hit  BY <1>1, HitStays DEF Inv
<1>2. CASE ~hit /\ ~hit'
  <2>1. RightInv  BY <1>2 DEF Inv
  <2>2. ASSUME NEW t \in App, Invoke(t) \/ AppStep(t) \/ ValStep(t) PROVE RightInv'
    BY <1>2, <2>1, <2>2, AppInvoke, AppSafe, ValSafe
  <2>3. ASSUME UNCHANGED vars PROVE RightInv'  BY <2>1, <2>3, StutterInv
  <2>4. RightInv'  BY <2>2, <2>3 DEF Next
  <2> QED  BY <2>4 DEF Inv
<1>3. CASE hit'  BY <1>3 DEF Inv
<1> QED  BY <1>1, <1>2, <1>3

\* Whatever may strike, an assertion fails only in a run that a fault hit.
THEOREM FaultsExplainAlarms == Spec => []NoFalseAlarm
<1>1. Init => Inv  BY InitInv DEF Inv
<1>2. Inv /\ [Next]_vars => Inv'  BY NextInv
<1>3. Inv => NoFalseAlarm  BY DEF Inv, RightInv, NoFalseAlarm
<1> QED  BY <1>1, <1>2, <1>3, PTL DEF Spec

-----------------------------------------------------------------------------
(* No faults. *)

\* A value that no fault may replace is the right one.
LEMMA Harmless ==
  ASSUME Faults = {}, NEW p, NEW right, NEW kind, NEW values,
         NEW o \in Outcomes(p, right, Wrong(kind, values))
  PROVE  ~o[2]
<1>1. o = <<right, FALSE>>  BY DEF Outcomes, Wrong
<1> QED  BY <1>1

\* Without kinds of fault none strikes.
LEMMA NoneStrikes ==
  ASSUME Faults = {}, ~hit, [Next]_vars
  PROVE  ~hit'
<1>1. ASSUME NEW p, ClosureStep(p) PROVE ~hit'
  <2>1. \A o : (Note(p, o[2]) /\ ~o[2]) => ~hit'  BY DEF Note
  <2>3. ASSUME Lock(p) PROVE ~hit'  BY <2>1, <2>3, Harmless DEF Lock
  <2>4. ASSUME ReadHead(p) PROVE ~hit'
    <3>1. PICK o : ~o[2] /\ Note(p, o[2])
      BY <2>4 DEF ReadHead, Loaded, Wrong, Outcomes
    <3> QED  BY <2>1, <3>1
  <2>5. ASSUME Find(p) PROVE ~hit'
    <3>1. PICK f : Note(p, f) /\ ~f
      BY <2>5, Harmless DEF Find
    <3> QED  BY <3>1 DEF Note
  <2>6. ASSUME Skip(p) PROVE ~hit'  BY <2>1, <2>6, Harmless DEF Skip
  <2>7. ASSUME Load(p) PROVE ~hit'
    <3>1. PICK o : ~o[2] /\ Note(p, o[2])
      BY <2>7 DEF Load, Loaded, Wrong, Outcomes
    <3> QED  BY <2>1, <3>1
  <2>8. ASSUME MakeVal(p) PROVE ~hit'
    <3>1. PICK o : ~o[2] /\ Note(p, o[2])
      BY <2>8 DEF MakeVal, Wrong, Outcomes
    <3> QED  BY <2>1, <3>1
  <2>9. ASSUME Store(p) PROVE ~hit'  BY <2>1, <2>9, Harmless DEF Store
  <2>10. ASSUME MakeEntry(p) PROVE ~hit'
    <3>1. PICK o : ~o[2] /\ Note(p, o[2])
      BY <2>10 DEF MakeEntry, Wrong, Outcomes
    <3> QED  BY <2>1, <3>1
  <2>11. ASSUME Link(p) PROVE ~hit'  BY <2>1, <2>11, Harmless DEF Link
  <2>12. ASSUME Miss(p) \/ NewCell(p) \/ Unlock(p) PROVE ~hit'
    BY <2>12 DEF Miss, NewCell, Unlock
  <2> QED
    BY <1>1, <2>3, <2>4, <2>5, <2>6, <2>7, <2>8, <2>9, <2>10, <2>11, <2>12 DEF ClosureStep
<1>2. ASSUME NEW t \in App, Return(t) PROVE ~hit'
  BY <1>2, Harmless DEF Return
<1>3. ASSUME NEW t \in App, Invoke(t) \/ AppStep(t) \/ ValStep(t) PROVE ~hit'
  BY <1>1, <1>2, <1>3 DEF Invoke, AppStep, ValStep, Open, Close, Report
<1>4. CASE UNCHANGED vars  BY <1>4 DEF vars
<1> QED  BY <1>3, <1>4 DEF Next

\* The invariant says of every variable what type it has.
LEMMA RightTypes ==
  ASSUME RightInv, reported \in BOOLEAN
  PROVE  TypeOK
<1>1. /\ TypesInv /\ ObjInv(obj, top) /\ CellInv(cell, obj, top) /\ ~reported
  BY DEF RightInv
<1>2. top \in Addr /\ DOMAIN cell \subseteq 1 .. top /\ \A a \in DOMAIN cell : cell[a] \in Addr
  BY <1>1 DEF ObjInv, HeapInv, CellInv, Addr
<1>3. DOMAIN obj \subseteq 1 .. top  BY <1>1, SizesAssumption DEF ObjInv, HeapInv
<1>4. \A a \in DOMAIN obj : {obj[a].data, obj[a].sum} \subseteq Val
                         \/ {obj[a].data, obj[a].sum} \subseteq Entry
  <2>1. \A a \in DOMAIN obj : obj[a].sum = obj[a].data /\ obj[a].data \in Val \cup Entry
    BY <1>1 DEF ObjInv, HeapInv, Honest
  <2> QED  BY <2>1
<1>5. \A p \in Proc : {loc[p][x] : x \in DOMAIN Fresh} \subseteq Word
  <2> SUFFICES ASSUME NEW p \in Proc, NEW x \in DOMAIN Fresh PROVE loc[p][x] \in Word
    OBVIOUS
  <2>1. loc[p] \in Locals  BY <1>1 DEF TypesInv
  <2>2. x \in {"hv", "head", "at", "dest", "made", "ret"}  BY DEF Fresh
  <2> QED  BY <2>1, <2>2 DEF Locals
<1>6. \A p \in Proc : call[p] \in Call \cup {NoCall} /\ log[p] \in Seq(Word)
  BY <1>1 DEF TypesInv
<1>7. ASSUME NEW t \in App, NEW c \in Range(pending[t])
      PROVE  c.call \in Call /\ c.struck \in BOOLEAN /\ c.words \in Seq(Word)
  <2>1. PICK R : R = [call : Asked, struck : BOOLEAN, words : Seq(Word)]  OBVIOUS
  <2>2. pending[t] \in Seq(R)  BY <1>1, <2>1 DEF TypesInv
  <2>3. PICK i \in DOMAIN pending[t] : c = pending[t][i]  BY <1>7 DEF Range
  <2>4. c \in R  BY <2>2, <2>3
  <2> QED  BY <2>1, <2>4 DEF Asked
<1>8. /\ lock \in [Bucket -> App \cup {NoApp}] /\ left \in 0 .. MaxOps
      /\ {reported, hit, wrong} \subseteq BOOLEAN /\ struck \in [Proc -> BOOLEAN]
      /\ spec \in [Key -> Val \cup {NoVal}]
  BY <1>1 DEF TypesInv
<1> QED  BY <1>2, <1>3, <1>4, <1>5, <1>6, <1>7, <1>8 DEF TypeOK

\* Without faults the invariant always holds.
LEMMA RightNext ==
  ASSUME Faults = {}, RightInv, ~hit, reported \in BOOLEAN, [Next]_vars
  PROVE  RightInv' /\ ~hit' /\ reported' \in BOOLEAN
<1>1. ~hit'  BY NoneStrikes
<1>2. Inv'  BY NextInv DEF Inv
<1>3. reported' \in BOOLEAN
  <2>1. ASSUME NEW p, ClosureStep(p) PROVE reported' = reported
    BY <2>1 DEF ClosureStep, Lock, ReadHead, Find, Skip, Miss, Load, NewCell, MakeVal, Store,
       MakeEntry, Link, Unlock
  <2>2. ASSUME NEW t \in App, Invoke(t) \/ AppStep(t) \/ ValStep(t)
        PROVE  reported' \in BOOLEAN
    BY <2>1, <2>2 DEF Invoke, AppStep, ValStep, Return, Open, Close, Report
  <2>3. CASE UNCHANGED vars  BY <2>3 DEF vars
  <2> QED  BY <2>2, <2>3 DEF Next
<1> QED  BY <1>1, <1>2, <1>3 DEF Inv

\* Every variable of the closures and their replay keeps its type.
THEOREM TypeCorrect ==
  ASSUME Faults = {}
  PROVE  Spec => []TypeOK
<1>1. Init => RightInv /\ ~hit /\ reported \in BOOLEAN  BY InitInv DEF Init
<1>2. RightInv /\ ~hit /\ reported \in BOOLEAN /\ [Next]_vars
        => (RightInv /\ ~hit /\ reported \in BOOLEAN)'
  BY RightNext
<1>3. RightInv /\ reported \in BOOLEAN => TypeOK  BY RightTypes
<1> QED  BY <1>1, <1>2, <1>3, PTL DEF Spec

-----------------------------------------------------------------------------
(* The atomic map. *)

\* What the map holds for a key, in cells q and objects m.
Holds(q, m, k) ==
  LET e == Look(m, k)[q[Hash[k]]] IN IF e = 0 THEN NoVal ELSE m[q[CellOf(m, e)]].data

\* What a client makes of the word w, in objects m.
Told(m, op, w) == IF op = "set" THEN w ELSE IF w = 0 THEN NoVal ELSE m[w].data

\* The mapping in the words of the invariant, before a step ...
LEMMA MapIs == mapMapped = [k \in Key |-> Holds(cell, obj, k)]
<1>1. \A k : Chain(k) = Look(obj, k)[cell[Hash[k]]]
  BY DEF Chain, Look, Walks, Places, EntriesIn, ValuesIn, Entries, Values
<1> QED  BY <1>1 DEF mapMapped, Contents, Holds, CellOf

\* ... and after it.
LEMMA MapWillBe == mapMapped' = [k \in Key |-> Holds(cell', obj', k)]
<1>1. \A k : Chain(k)' = Look(obj', k)[cell'[Hash[k]]]
  BY DEF Chain, Look, Walks, Places, EntriesIn, ValuesIn, Entries, Values
<1> QED  BY <1>1 DEF mapMapped, Contents, Holds, CellOf

\* Likewise the answers.
LEMMA AnswersAre ==
  /\ answerMapped = [t \in App |->
       IF pc[A(t)] \in {"unlock", "return"} THEN Told(obj, call[A(t)].op, loc[A(t)].ret)
       ELSE NoAnswer]
  /\ answerMapped' = [t \in App |->
       IF pc'[A(t)] \in {"unlock", "return"}
       THEN Told(obj', call'[A(t)].op, loc'[A(t)].ret)
       ELSE NoAnswer]
  /\ askedMapped = [t \in App |-> call[A(t)]] /\ askedMapped' = [t \in App |-> call'[A(t)]]
BY DEF answerMapped, askedMapped, Effective, Answer, Told, A

\* What the chain of a key leads to.
LEMMA Holding ==
  ASSUME RightInv, NEW k \in Key
  PROVE  LET h == cell[Hash[k]]  e == Look(obj, k)[h] IN
         /\ Hash[k] \in Bucket /\ h \in Places(obj)
         /\ e = 0 \/ /\ e \in EntriesIn(obj) /\ obj[e].data.key = k /\ e # 0
                     /\ CellOf(obj, e) \in DOMAIN cell \ Bucket
                     /\ cell[CellOf(obj, e)] \in ValuesIn(obj)
         /\ e = 0 <=> Holds(cell, obj, k) = NoVal
<1>1. PICK h, e : h = cell[Hash[k]] /\ e = Look(obj, k)[h]  OBVIOUS
<1>2. ObjInv(obj, top) /\ CellInv(cell, obj, top)  BY DEF RightInv
<1>3. Hash[k] \in Bucket /\ h \in Places(obj)  BY <1>1, <1>2, HashAssumption DEF CellInv
<1>4. e = 0 \/ (e \in EntriesIn(obj) /\ obj[e].data.key = k /\ e # 0)
  BY <1>1, <1>2, <1>3, LookStep
<1>5. e # 0 => /\ CellOf(obj, e) \in DOMAIN cell \ Bucket
               /\ cell[CellOf(obj, e)] \in ValuesIn(obj)
  BY <1>2, <1>4 DEF CellInv
<1>6. e # 0 => obj[cell[CellOf(obj, e)]].data \in Val  BY <1>5 DEF ValuesIn
<1>7. e = 0 <=> Holds(cell, obj, k) = NoVal  BY <1>1, <1>6, NullsAssumption DEF Holds
<1> QED  BY <1>1, <1>3, <1>4, <1>5, <1>7

\* The map is the same when the heads and the cells of entries are.
LEMMA MapSame ==
  ASSUME RightInv, Grows(obj, obj'), \A b \in Bucket : cell'[b] = cell[b],
         \A e \in EntriesIn(obj) : cell'[CellOf(obj, e)] = cell[CellOf(obj, e)]
  PROVE  mapMapped' = mapMapped
<1>1. ASSUME NEW k \in Key PROVE Holds(cell', obj', k) = Holds(cell, obj, k)
  <2>1. PICK h, e : h = cell[Hash[k]] /\ e = Look(obj, k)[h]  OBVIOUS
  <2>2. /\ Hash[k] \in Bucket /\ h \in Places(obj)
        /\ e # 0 => e \in EntriesIn(obj) /\ cell[CellOf(obj, e)] \in ValuesIn(obj)
    BY <2>1, Holding
  <2>3. cell'[Hash[k]] = h /\ Look(obj', k)[h] = e  BY <2>1, <2>2 DEF Grows
  <2>4. CASE e = 0  BY <2>1, <2>3, <2>4 DEF Holds
  <2>5. CASE e # 0
    <3>1. CellOf(obj', e) = CellOf(obj, e)  BY <2>2, <2>5 DEF Grows, CellOf, EntriesIn
    <3>2. cell'[CellOf(obj, e)] = cell[CellOf(obj, e)]  BY <2>2, <2>5
    <3>3. obj'[cell[CellOf(obj, e)]] = obj[cell[CellOf(obj, e)]]
      BY <2>2, <2>5 DEF Grows, ValuesIn
    <3> QED  BY <2>1, <2>3, <2>5, <3>1, <3>2, <3>3 DEF Holds
  <2> QED  BY <2>4, <2>5
<1> QED  BY <1>1, MapIs, MapWillBe

\* A step of one thread's closure.
Others(t) == \A u \in App \ {t} : /\ pc'[A(u)] = pc[A(u)] /\ call'[A(u)] = call[A(u)]
                                  /\ loc'[A(u)] = loc[A(u)]

\* Answers that others are about to give stay the same.
LEMMA OneMoves ==
  ASSUME RightInv, NEW t \in App, Others(t), Grows(obj, obj')
  PROVE  /\ askedMapped' = [askedMapped EXCEPT ![t] = call'[A(t)]]
         /\ answerMapped' = [answerMapped EXCEPT ![t] =
              IF pc'[A(t)] \in {"unlock", "return"}
              THEN Told(obj', call'[A(t)].op, loc'[A(t)].ret) ELSE NoAnswer]
<1>1. ASSUME NEW u \in App \ {t}, pc[A(u)] \in {"unlock", "return"}
      PROVE  Told(obj', call[A(u)].op, loc[A(u)].ret) = Told(obj, call[A(u)].op, loc[A(u)].ret)
  <2>1. PICK q : q = A(u)  OBVIOUS
  <2>2. q \in Proc  BY <2>1 DEF A, Proc, Side
  <2>3. LocalsAt(obj, pc[q], call[q], loc[q])  BY <2>2 DEF RightInv
  <2>4. \/ call[q].op = "set" \/ loc[q].ret = 0
        \/ loc[q].ret \in ValuesIn(obj)
    BY <1>1, <2>1, <2>3 DEF LocalsAt
  <2>5. \/ call[q].op = "set" \/ loc[q].ret = 0
        \/ obj'[loc[q].ret] = obj[loc[q].ret]
    BY <2>4 DEF Grows, ValuesIn
  <2> QED  BY <2>1, <2>5 DEF Told
<1>2. \A u \in App \ {t} : /\ askedMapped'[u] = askedMapped[u]
                           /\ answerMapped'[u] = answerMapped[u]
  <2> TAKE u \in App \ {t}
  <2>1. pc'[A(u)] = pc[A(u)] /\ call'[A(u)] = call[A(u)] /\ loc'[A(u)] = loc[A(u)]
    BY DEF Others
  <2> QED  BY <1>1, <2>1, AnswersAre
<1>3. /\ askedMapped'[t] = call'[A(t)]
      /\ answerMapped'[t] = IF pc'[A(t)] \in {"unlock", "return"}
                            THEN Told(obj', call'[A(t)].op, loc'[A(t)].ret) ELSE NoAnswer
  BY AnswersAre
<1>4. PICK x, y : /\ x = call'[A(t)]
                  /\ y = IF pc'[A(t)] \in {"unlock", "return"}
                         THEN Told(obj', call'[A(t)].op, loc'[A(t)].ret) ELSE NoAnswer
  OBVIOUS
<1>5. /\ DOMAIN askedMapped = App /\ DOMAIN askedMapped' = App
      /\ DOMAIN answerMapped = App /\ DOMAIN answerMapped' = App
      /\ askedMapped = [u \in App |-> askedMapped[u]]
      /\ askedMapped' = [u \in App |-> askedMapped'[u]]
      /\ answerMapped = [u \in App |-> answerMapped[u]]
      /\ answerMapped' = [u \in App |-> answerMapped'[u]]
  BY AnswersAre
<1>6. askedMapped' = [askedMapped EXCEPT ![t] = x]  BY <1>2, <1>3, <1>4, <1>5
<1>7. answerMapped' = [answerMapped EXCEPT ![t] = y]  BY <1>2, <1>3, <1>4, <1>5
<1> QED  BY <1>4, <1>6, <1>7

\* A step of the application moves one closure.
LEMMA OnlyMoves ==
  ASSUME RightInv, NEW t \in App, Invoke(t) \/ AppStep(t)
  PROVE  Others(t)
<1>1. ASSUME NEW u \in App \ {t} PROVE A(u) # A(t) /\ A(u) \in Proc
  BY DEF A, Proc, Side
<1>2. /\ DOMAIN pc = Proc /\ DOMAIN call = Proc /\ DOMAIN loc = Proc
      /\ pc = [q \in Proc |-> pc[q]] /\ call = [q \in Proc |-> call[q]]
      /\ loc = [q \in Proc |-> loc[q]]
  BY DEF RightInv, TypesInv
<1>3. ASSUME NEW x, NEW y, NEW q \in Proc \ {x}
      PROVE  /\ [pc EXCEPT ![x] = y][q] = pc[q] /\ [call EXCEPT ![x] = y][q] = call[q]
             /\ [loc EXCEPT ![x] = y][q] = loc[q]
  BY <1>2
<1>4. PICK p : p = A(t)  OBVIOUS
<1>5. p = <<t, "app">>  BY <1>4 DEF A
<1>6. CASE Invoke(t)  BY <1>1, <1>3, <1>4, <1>5, <1>6 DEF Invoke, Goto, Others
<1>7. CASE Return(t)  BY <1>1, <1>3, <1>4, <1>5, <1>7 DEF Return, Goto, Others
<1>8. ASSUME NEW x, pc' = [pc EXCEPT ![p] = x] \/ pc' = pc, call' = call,
             (\E y : loc' = [loc EXCEPT ![p] = y]) \/ loc' = loc
      PROVE  Others(t)
  <2> SUFFICES ASSUME NEW u \in App \ {t}
               PROVE  /\ pc'[A(u)] = pc[A(u)] /\ call'[A(u)] = call[A(u)]
                      /\ loc'[A(u)] = loc[A(u)]
    BY DEF Others
  <2>1. A(u) \in Proc \ {p}  BY <1>1, <1>4
  <2>2. pc'[A(u)] = pc[A(u)]
    <3>1. [pc EXCEPT ![p] = x][A(u)] = pc[A(u)]  BY <1>3, <2>1
    <3> QED  BY <1>8, <3>1
  <2>3. loc'[A(u)] = loc[A(u)]
    <3>1. CASE \E y : loc' = [loc EXCEPT ![p] = y]
      <4>1. PICK y : loc' = [loc EXCEPT ![p] = y]  BY <3>1
      <4>2. [loc EXCEPT ![p] = y][A(u)] = loc[A(u)]  BY <1>3, <2>1
      <4> QED  BY <4>1, <4>2
    <3> QED  BY <1>8, <3>1
  <2> QED  BY <1>8, <2>2, <2>3
<1>9. CASE Lock(p)
  <2>1. PICK o : loc' = [loc EXCEPT ![p].hv = o[1]]  BY <1>9 DEF Lock
  <2>2. loc' = [loc EXCEPT ![p] = [loc[p] EXCEPT !.hv = o[1]]]  BY <2>1
  <2> QED  BY <1>8, <1>9, <2>2 DEF Lock, Goto
<1>10. CASE ReadHead(p)
  <2>1. PICK o : loc' = [loc EXCEPT ![p].head = o[1], ![p].at = o[1]]
    BY <1>10 DEF ReadHead
  <2>2. \E y : loc' = [loc EXCEPT ![p] = y]
    <3>1. CASE p \in Proc
      <4>1. loc' = [loc EXCEPT ![p] = [loc[p] EXCEPT !.head = o[1], !.at = o[1]]]
        BY <1>2, <2>1, <3>1
      <4> QED  BY <4>1
    <3>2. p \in Proc  BY <1>5 DEF Proc, Side
    <3> QED  BY <3>1, <3>2
  <2> QED  BY <1>8, <1>10, <2>2 DEF ReadHead, Goto
<1>11. CASE Find(p)
  <2>1. PICK o : loc' = [loc EXCEPT ![p].dest = o[1]]  BY <1>11 DEF Find
  <2>2. loc' = [loc EXCEPT ![p] = [loc[p] EXCEPT !.dest = o[1]]]  BY <2>1
  <2> QED  BY <1>8, <1>11, <2>2 DEF Find, Goto
<1>12. CASE Skip(p)
  <2>1. loc' = [loc EXCEPT ![p] = [loc[p] EXCEPT !.at = obj[loc[p].at].data.next]]
    BY <1>12 DEF Skip
  <2> QED  BY <1>8, <1>12, <2>1 DEF Skip, Goto
<1>13. CASE Miss(p)  BY <1>8, <1>13 DEF Miss, Goto
<1>14. CASE Load(p)
  <2>1. PICK o : loc' = [loc EXCEPT ![p].ret = IF call[p].op = "get" THEN o[1] ELSE kStored]
    BY <1>14 DEF Load
  <2>2. PICK y : y = IF call[p].op = "get" THEN o[1] ELSE kStored  OBVIOUS
  <2>3. loc' = [loc EXCEPT ![p] = [loc[p] EXCEPT !.ret = y]]  BY <2>1, <2>2
  <2> QED  BY <1>8, <1>14, <2>3 DEF Load, Goto
<1>15. CASE NewCell(p)
  <2>1. loc' = [loc EXCEPT ![p].dest = Allocated(p), ![p].ret = kCreated]
    BY <1>15 DEF NewCell
  <2>2. p \in Proc  BY <1>5 DEF Proc, Side
  <2>3. loc' = [loc EXCEPT ![p] = [loc[p] EXCEPT !.dest = Allocated(p), !.ret = kCreated]]
    BY <1>2, <2>1, <2>2
  <2> QED  BY <1>8, <1>15, <2>3 DEF NewCell, Goto
<1>16. CASE MakeVal(p)
  <2>1. loc' = [loc EXCEPT ![p].made = Allocated(p)]  BY <1>16 DEF MakeVal
  <2>2. loc' = [loc EXCEPT ![p] = [loc[p] EXCEPT !.made = Allocated(p)]]  BY <2>1
  <2> QED  BY <1>8, <1>16, <2>2 DEF MakeVal, Goto
<1>17. CASE MakeEntry(p)
  <2>1. loc' = [loc EXCEPT ![p].made = Allocated(p)]  BY <1>17 DEF MakeEntry
  <2>2. loc' = [loc EXCEPT ![p] = [loc[p] EXCEPT !.made = Allocated(p)]]  BY <2>1
  <2> QED  BY <1>8, <1>17, <2>2 DEF MakeEntry, Goto
<1>18. CASE Store(p) \/ Link(p) \/ Unlock(p)
  BY <1>8, <1>18 DEF Store, Link, Unlock, Goto
<1> QED
  BY <1>5, <1>6, <1>7, <1>9, <1>10, <1>11, <1>12, <1>13, <1>14, <1>15, <1>16, <1>17, <1>18
  DEF AppStep, ClosureStep

\* A step before the operation takes effect, or after it, that leaves the map
\* as it is.
LEMMA Unseen ==
  ASSUME RightInv, NEW t \in App, Others(t), Grows(obj, obj'), mapMapped' = mapMapped,
         call'[A(t)] = call[A(t)],
         \/ pc[A(t)] \notin {"unlock", "return"} /\ pc'[A(t)] \notin {"unlock", "return"}
         \/ /\ pc[A(t)] = "unlock" /\ pc'[A(t)] = "return"
            /\ loc'[A(t)] = loc[A(t)] /\ obj' = obj
  PROVE  UNCHANGED Atomic!amVars
<1>1. PICK x, y : /\ x = call'[A(t)]
                  /\ y = IF pc'[A(t)] \in {"unlock", "return"}
                         THEN Told(obj', call'[A(t)].op, loc'[A(t)].ret) ELSE NoAnswer
  OBVIOUS
<1>2. askedMapped' = [askedMapped EXCEPT ![t] = x] /\ answerMapped' = [answerMapped EXCEPT ![t] = y]
  BY <1>1, OneMoves
<1>3. x = askedMapped[t]  BY <1>1, AnswersAre
<1>4. y = answerMapped[t]  BY <1>1, AnswersAre
<1>5. /\ askedMapped = [u \in App |-> askedMapped[u]]
      /\ answerMapped = [u \in App |-> answerMapped[u]]
  BY AnswersAre
<1>6. askedMapped' = askedMapped  BY <1>2, <1>3, <1>5
<1>7. answerMapped' = answerMapped  BY <1>2, <1>4, <1>5
<1> QED  BY <1>6, <1>7 DEF Atomic!amVars

\* Steps that write no memory leave the map as it is.
LEMMA Unwritten ==
  ASSUME RightInv, UNCHANGED memVars
  PROVE  Grows(obj, obj') /\ mapMapped' = mapMapped
<1>1. obj' = obj /\ cell' = cell  BY DEF memVars
<1>2. Grows(obj, obj')  BY <1>1 DEF Grows
<1> QED  BY <1>1, <1>2, MapSame

\* A get takes effect with the step that makes its answer what the map holds.
LEMMA Gets ==
  ASSUME RightInv, NEW t \in App, Others(t), UNCHANGED memVars, call'[A(t)] = call[A(t)],
         call[A(t)].op = "get", call[A(t)].key \in Key,
         pc[A(t)] \notin {"unlock", "return"}, pc'[A(t)] = "unlock",
         Told(obj, "get", loc'[A(t)].ret) = Holds(cell, obj, call[A(t)].key)
  PROVE  Atomic!Get(t)
<1>1. PICK x, y, k : /\ x = call[A(t)] /\ k = x.key
                     /\ y = Told(obj', call'[A(t)].op, loc'[A(t)].ret)
  OBVIOUS
<1>2. Grows(obj, obj') /\ mapMapped' = mapMapped /\ obj' = obj  BY Unwritten DEF memVars
<1>3. askedMapped' = [askedMapped EXCEPT ![t] = x] /\ answerMapped' = [answerMapped EXCEPT ![t] = y]
  BY <1>1, <1>2, OneMoves
<1>4. /\ askedMapped[t] = x /\ askedMapped = [u \in App |-> askedMapped[u]]
      /\ answerMapped[t] = NoAnswer
  BY <1>1, AnswersAre
<1>5. askedMapped' = askedMapped  BY <1>3, <1>4
<1>6. y = mapMapped[k]  BY <1>1, <1>2, MapIs
<1> QED  BY <1>1, <1>2, <1>3, <1>4, <1>5, <1>6 DEF Atomic!Get

\* A set takes effect with the step that changes the map.
LEMMA Sets ==
  ASSUME RightInv, NEW t \in App, Others(t), Grows(obj, obj'), call'[A(t)] = call[A(t)],
         call[A(t)].op = "set", call[A(t)].key \in Key,
         pc[A(t)] \notin {"unlock", "return"}, pc'[A(t)] = "unlock",
         loc'[A(t)].ret = IF Holds(cell, obj, call[A(t)].key) = NoVal THEN kCreated ELSE kStored,
         \A k \in Key : Holds(cell', obj', k) =
           IF k = call[A(t)].key THEN call[A(t)].val ELSE Holds(cell, obj, k)
  PROVE  Atomic!Set(t)
<1>1. PICK x, y, k, v :
        /\ x = call[A(t)] /\ k = x.key /\ v = x.val
        /\ y = IF Holds(cell, obj, k) = NoVal THEN kCreated ELSE kStored
  OBVIOUS
<1>2. Told(obj', call'[A(t)].op, loc'[A(t)].ret) = y  BY <1>1 DEF Told
<1>3. askedMapped' = [askedMapped EXCEPT ![t] = x] /\ answerMapped' = [answerMapped EXCEPT ![t] = y]
  BY <1>1, <1>2, OneMoves
<1>4. /\ askedMapped[t] = x /\ askedMapped = [u \in App |-> askedMapped[u]]
      /\ answerMapped[t] = NoAnswer
  BY <1>1, AnswersAre
<1>5. askedMapped' = askedMapped  BY <1>3, <1>4
<1>6. y = IF mapMapped[k] = NoVal THEN kCreated ELSE kStored  BY <1>1, MapIs
<1>7. mapMapped' = [mapMapped EXCEPT ![k] = v]
  <2>1. mapMapped' = [j \in Key |-> IF j = k THEN v ELSE Holds(cell, obj, j)]
    BY <1>1, MapWillBe
  <2> QED  BY <1>1, <2>1, MapIs
<1> QED  BY <1>1, <1>3, <1>4, <1>5, <1>6, <1>7 DEF Atomic!Set

\* The application's process of a thread.
LEMMA AppProc ==
  ASSUME RightInv, NEW t \in App
  PROVE  /\ A(t) \in Proc /\ A(t)[2] = "app" /\ A(t)[1] = t /\ A(t) = <<t, "app">>
         /\ LocalsAt(obj, pc[A(t)], call[A(t)], loc[A(t)])
         /\ HoldsAt(cell, obj, lock, pc[A(t)], call[A(t)], loc[A(t)], t)
         /\ DOMAIN pc = Proc
<1>1. A(t) \in Proc /\ A(t)[2] = "app" /\ A(t)[1] = t /\ A(t) = <<t, "app">>
  BY DEF A, Proc, Side
<1>2. DOMAIN pc = Proc  BY DEF RightInv, TypesInv
<1> QED  BY <1>1, <1>2 DEF RightInv

\* The head that a closure has read is still that of the bucket of its key.
LEMMA AtBucket ==
  ASSUME RightInv, NEW t \in App, pc[A(t)] \in Started
  PROVE  /\ call[A(t)].key \in Key /\ call[A(t)] \in Asked
         /\ cell[Hash[call[A(t)].key]] = loc[A(t)].head
         /\ loc[A(t)].hv = Hash[call[A(t)].key]
         /\ Found(obj, call[A(t)], loc[A(t)])
              = Look(obj, call[A(t)].key)[cell[Hash[call[A(t)].key]]]
<1>1. PICK s, c, l : s = pc[A(t)] /\ c = call[A(t)] /\ l = loc[A(t)]  OBVIOUS
<1>2. LocalsAt(obj, s, c, l) /\ HoldsAt(cell, obj, lock, s, c, l, t)  BY <1>1, AppProc
<1>3. s \in Started /\ s \notin {"idle", "lock"}  BY <1>1 DEF Started, Inside
<1>4. c \in Asked /\ l.hv = Hash[c.key] /\ cell[l.hv] = l.head
  BY <1>2, <1>3 DEF LocalsAt, HoldsAt
<1>5. c.key \in Key  BY <1>4 DEF Asked, Call
<1>6. Found(obj, c, l) = Look(obj, c.key)[cell[Hash[c.key]]]  BY <1>4 DEF Found
<1> QED  BY <1>1, <1>4, <1>5, <1>6

\* What reads and walks before the operation takes effect is not seen, nor is
\* the release of the lock.
LEMMA QuietMaps ==
  ASSUME RightInv, NEW t \in App, ClosureStep(A(t)),
         \/ Lock(A(t)) \/ ReadHead(A(t)) \/ Find(A(t)) \/ Skip(A(t)) \/ Unlock(A(t))
         \/ (Miss(A(t)) \/ Load(A(t))) /\ call[A(t)].op # "get"
  PROVE  UNCHANGED Atomic!amVars
<1>1. Others(t)  BY AppProc, OnlyMoves DEF AppStep
<1>2. PICK p : p = A(t)  OBVIOUS
<1>3. UNCHANGED memVars /\ call' = call
  BY DEF Lock, ReadHead, Find, Skip, Unlock, Miss, Load
<1>4. Grows(obj, obj') /\ mapMapped' = mapMapped /\ obj' = obj  BY <1>3, Unwritten DEF memVars
<1>5. CASE Unlock(p)
  <2>1. pc[p] = "unlock" /\ pc' = [pc EXCEPT ![p] = "return"] /\ loc' = loc
    BY <1>5 DEF Unlock, Goto
  <2>2. p \in Proc /\ DOMAIN pc = Proc  BY <1>2, AppProc
  <2>3. pc'[p] = "return"  BY <2>1, <2>2
  <2> QED  BY <1>1, <1>2, <1>3, <1>4, <2>1, <2>3, Unseen
<1>6. CASE ~Unlock(p)
  <2>1. p \in Proc /\ DOMAIN pc = Proc  BY <1>2, AppProc
  <2>2. pc[p] \notin {"unlock", "return"} /\ pc'[p] \notin {"unlock", "return"}
    <3>1. CASE Lock(p)  BY <2>1, <3>1 DEF Lock, Goto
    <3>2. CASE ReadHead(p)  BY <2>1, <3>2 DEF ReadHead, Goto
    <3>3. CASE Find(p)  BY <2>1, <3>3 DEF Find, Goto
    <3>4. CASE Skip(p)  BY <3>4 DEF Skip
    <3>5. CASE Miss(p) /\ call[p].op # "get"  BY <2>1, <3>5 DEF Miss, Goto
    <3>6. CASE Load(p) /\ call[p].op # "get"  BY <2>1, <3>6 DEF Load, Goto
    <3> QED  BY <1>2, <1>6, <3>1, <3>2, <3>3, <3>4, <3>5, <3>6
  <2> QED  BY <1>1, <1>2, <1>3, <1>4, <2>2, Unseen
<1> QED  BY <1>5, <1>6

\* A get that has come to the end of the chain.
LEMMA MissGets ==
  ASSUME RightInv, NEW t \in App, Miss(A(t)), call[A(t)].op = "get"
  PROVE  Atomic!Get(t)
<1>1. Others(t)  BY AppProc, OnlyMoves DEF AppStep, ClosureStep
<1>2. PICK p, c, l : p = A(t) /\ c = call[p] /\ l = loc[p]  OBVIOUS
<1>3. /\ pc[p] = "walk" /\ l.at = 0 /\ pc' = [pc EXCEPT ![p] = "unlock"]
      /\ UNCHANGED memVars /\ call' = call /\ loc' = loc
  BY <1>2 DEF Miss, Goto
<1>4. LocalsAt(obj, "walk", c, l)  BY <1>2, <1>3, AppProc
<1>5. l.ret = 0 /\ Found(obj, c, l) = Look(obj, c.key)[0]  BY <1>3, <1>4 DEF LocalsAt
<1>6. pc[p] \in Started  BY <1>3 DEF Started, Inside, Labels
<1>7. /\ c.key \in Key /\ Found(obj, c, l) = Look(obj, c.key)[cell[Hash[c.key]]]
  BY <1>2, <1>6, AtBucket
<1>8. Look(obj, c.key)[0] = 0  BY <1>7, LookStep DEF RightInv
<1>9. Holds(cell, obj, c.key) = NoVal  BY <1>5, <1>7, <1>8 DEF Holds
<1>10. Told(obj, "get", l.ret) = NoVal  BY <1>5 DEF Told
<1>11. pc'[p] = "unlock"
  <2>1. p \in Proc /\ DOMAIN pc = Proc  BY <1>2, AppProc
  <2> QED  BY <1>3, <2>1
<1> QED  BY <1>1, <1>2, <1>3, <1>7, <1>9, <1>10, <1>11, Gets

\* A get that reads the cell of its key.
LEMMA LoadGets ==
  ASSUME RightInv, ~hit', NEW t \in App, Load(A(t)), call[A(t)].op = "get"
  PROVE  Atomic!Get(t)
<1>1. Others(t)  BY AppProc, OnlyMoves DEF AppStep, ClosureStep
<1>2. PICK p, c, l : p = A(t) /\ c = call[p] /\ l = loc[p]  OBVIOUS
<1>3. p \in Proc /\ p[2] = "app"  BY <1>2, AppProc
<1>4. PICK o \in Outcomes(p, cell[l.dest], Wrong("load", Values)) :
        /\ loc' = [loc EXCEPT ![p].ret = o[1]] /\ Note(p, o[2])
  BY <1>2, <1>3 DEF Load, Loaded
<1>5. /\ pc[p] = "load" /\ pc' = [pc EXCEPT ![p] = "unlock"]
      /\ UNCHANGED memVars /\ call' = call
  BY <1>2 DEF Load, Goto
<1>6. o[1] = cell[l.dest]
  <2>1. ~o[2]  BY <1>3, <1>4, Quietly
  <2> QED  BY <2>1, Chosen
<1>7. loc'[p].ret = cell[l.dest]
  <2>1. loc[p] \in Locals /\ loc \in [Proc -> Locals]  BY <1>3 DEF RightInv, TypesInv
  <2> QED  BY <1>3, <1>4, <1>6, <2>1 DEF Locals
<1>8. LocalsAt(obj, "load", c, l)  BY <1>2, <1>5, AppProc
<1>9. Found(obj, c, l) # 0 /\ l.dest = CellOf(obj, Found(obj, c, l))
  BY <1>8 DEF LocalsAt, Hit
<1>10. pc[p] \in Started  BY <1>5 DEF Started, Inside, Labels
<1>11. c.key \in Key /\ Found(obj, c, l) = Look(obj, c.key)[cell[Hash[c.key]]]
  BY <1>2, <1>10, AtBucket
<1>12. Holds(cell, obj, c.key) = obj[cell[l.dest]].data  BY <1>9, <1>11 DEF Holds
<1>13. cell[l.dest] \in ValuesIn(obj)  BY <1>9, <1>11, Holding
<1>14. cell[l.dest] # 0  BY <1>13, Kinds DEF RightInv
<1>15. Told(obj, "get", loc'[p].ret) = Holds(cell, obj, c.key)
  BY <1>7, <1>12, <1>14 DEF Told
<1>16. pc'[p] = "unlock"
  <2>1. p \in Proc /\ DOMAIN pc = Proc  BY <1>2, AppProc
  <2> QED  BY <1>5, <2>1
<1> QED  BY <1>1, <1>2, <1>5, <1>11, <1>15, <1>16, Gets

\* A new cell, value or entry that nothing leads to is not seen.
LEMMA NewMaps ==
  ASSUME RightInv, ~hit', NEW t \in App,
         NewCell(A(t)) \/ MakeVal(A(t)) \/ MakeEntry(A(t))
  PROVE  UNCHANGED Atomic!amVars
<1>1. Others(t)  BY AppProc, OnlyMoves DEF AppStep, ClosureStep
<1>2. PICK p : p = A(t)  OBVIOUS
<1>3. p \in Proc /\ p[2] = "app" /\ DOMAIN pc = Proc  BY <1>2, AppProc
<1>4. ObjInv(obj, top) /\ CellInv(cell, obj, top)  BY DEF RightInv
<1>5. call' = call  BY DEF NewCell, MakeVal, MakeEntry
<1>6. pc[p] \notin {"unlock", "return"} /\ pc'[p] \notin {"unlock", "return"}
  <2>1. CASE NewCell(p)  BY <1>3, <2>1 DEF NewCell, Goto
  <2>2. CASE MakeVal(p)  BY <1>3, <2>2 DEF MakeVal, Goto
  <2>3. CASE MakeEntry(p)  BY <1>3, <2>3 DEF MakeEntry, Goto
  <2> QED  BY <1>2, <2>1, <2>2, <2>3
<1>7. Grows(obj, obj') /\ mapMapped' = mapMapped
  <2>1. CASE NewCell(p)
    <3>1. obj' = obj /\ cell' = Extend(cell, top + 1, 0)
      BY <1>3, <2>1 DEF NewCell, Allocated
    <3>2. \A a \in DOMAIN cell : cell'[a] = cell[a]
      <4>1. top + 1 \notin DOMAIN cell  BY <1>4 DEF ObjInv, HeapInv, CellInv
      <4> QED  BY <3>1, <4>1 DEF Extend
    <3>3. Grows(obj, obj')  BY <3>1 DEF Grows
    <3>4. /\ \A b \in Bucket : cell'[b] = cell[b]
          /\ \A e \in EntriesIn(obj) : cell'[CellOf(obj, e)] = cell[CellOf(obj, e)]
      BY <1>4, <3>2 DEF CellInv
    <3> QED  BY <3>3, <3>4, MapSame
  <2>2. CASE MakeVal(p)
    <3>1. Grows(obj, obj')  BY <1>3, <2>2, ValueComes
    <3>2. cell' = cell  BY <2>2 DEF MakeVal
    <3> QED  BY <3>1, <3>2, MapSame
  <2>3. CASE MakeEntry(p)
    <3>1. Grows(obj, obj')  BY <1>3, <2>3, EntryComes
    <3>2. cell' = cell  BY <2>3 DEF MakeEntry
    <3> QED  BY <3>1, <3>2, MapSame
  <2> QED  BY <1>2, <2>1, <2>2, <2>3
<1> QED  BY <1>1, <1>2, <1>5, <1>6, <1>7, Unseen

\* The value of a key that has an entry takes effect when its cell gets it; a
\* cell that no entry has is not seen.
LEMMA StoreMaps ==
  ASSUME RightInv, ~hit', NEW t \in App, Store(A(t))
  PROVE  Atomic!Set(t) \/ UNCHANGED Atomic!amVars
<1>1. Others(t)  BY AppProc, OnlyMoves DEF AppStep, ClosureStep
<1>2. PICK p, c, l : p = A(t) /\ c = call[p] /\ l = loc[p]  OBVIOUS
<1>3. p \in Proc /\ p[2] = "app" /\ DOMAIN pc = Proc  BY <1>2, AppProc
<1>4. PICK wrongs, o :
        /\ o \in Outcomes(p, l.made, wrongs)
        /\ cell' = [cell EXCEPT ![l.dest] = o[1]] /\ Note(p, o[2])
  BY <1>2, <1>3 DEF Store
<1>5. /\ pc[p] = "store" /\ obj' = obj /\ call' = call /\ loc' = loc
      /\ pc' = [pc EXCEPT ![p] = IF l.ret = kStored THEN "unlock" ELSE "makeEntry"]
  BY <1>2 DEF Store, Goto
<1>6. cell' = [cell EXCEPT ![l.dest] = l.made]
  <2>1. ~o[2]  BY <1>3, <1>4, Quietly
  <2>2. o[1] = l.made  BY <1>4, <2>1, Chosen
  <2> QED  BY <1>4, <2>2
<1>7. ObjInv(obj, top) /\ CellInv(cell, obj, top)  BY DEF RightInv
<1>8. LocalsAt(obj, "store", c, l) /\ HoldsAt(cell, obj, lock, "store", c, l, t)
  BY <1>2, <1>5, AppProc
<1>9. /\ c \in Asked /\ c.op = "set" /\ IsVal(obj, c, l.made)
      /\ \/ l.ret = kStored /\ Hit(obj, c, l) /\ l.dest = CellOf(obj, Found(obj, c, l))
         \/ l.ret = kCreated /\ ~Hit(obj, c, l)
  BY <1>8 DEF LocalsAt
<1>10. pc[p] \in Started  BY <1>5 DEF Started, Inside, Labels
<1>11. c.key \in Key /\ Found(obj, c, l) = Look(obj, c.key)[cell[Hash[c.key]]]
  BY <1>2, <1>10, AtBucket
<1>12. Grows(obj, obj')  BY <1>5 DEF Grows
<1>13. CASE l.ret = kStored
  <2>1. PICK e : e = Found(obj, c, l)  OBVIOUS
  <2>2. /\ e # 0 /\ l.dest = CellOf(obj, e) /\ e = Look(obj, c.key)[cell[Hash[c.key]]]
        /\ e \in EntriesIn(obj) /\ l.dest \in DOMAIN cell \ Bucket /\ obj[e].data.key = c.key
        /\ Holds(cell, obj, c.key) # NoVal
    <3>1. e # 0 /\ l.dest = CellOf(obj, e) /\ e = Look(obj, c.key)[cell[Hash[c.key]]]
      BY <1>9, <1>11, <1>13, <2>1, WordsDiffer DEF Hit
    <3> QED  BY <1>11, <3>1, Holding
  <2>3. cell'[l.dest] = l.made /\ \A x \in DOMAIN cell : x # l.dest => cell'[x] = cell[x]
    BY <1>6, <2>2
  <2>4. ASSUME NEW k \in Key
        PROVE  Holds(cell', obj', k) = IF k = c.key THEN c.val ELSE Holds(cell, obj, k)
    <3>1. PICK f : f = Look(obj, k)[cell[Hash[k]]]  OBVIOUS
    <3>2. /\ Hash[k] \in Bucket
          /\ f = 0 \/ /\ f \in EntriesIn(obj) /\ obj[f].data.key = k /\ f # 0
                      /\ CellOf(obj, f) \in DOMAIN cell
      BY <3>1, Holding
    <3>3. cell'[Hash[k]] = cell[Hash[k]]  BY <1>7, <2>2, <2>3, <3>2 DEF CellInv
    <3>4. CASE k = c.key
      <4>1. f = e  BY <2>2, <3>1, <3>4
      <4>2. Holds(cell', obj', k) = obj[l.made].data
        BY <1>5, <2>2, <2>3, <3>1, <3>3, <4>1 DEF Holds
      <4> QED  BY <1>9, <3>4, <4>2 DEF IsVal
    <3>5. CASE k # c.key /\ f = 0  BY <1>5, <3>1, <3>3, <3>5 DEF Holds
    <3>6. CASE k # c.key /\ f # 0
      <4>1. f # e  BY <2>2, <3>2, <3>6
      <4>2. CellOf(obj, f) # l.dest  BY <1>7, <2>2, <3>2, <3>6, <4>1 DEF CellInv
      <4>3. cell'[CellOf(obj, f)] = cell[CellOf(obj, f)]  BY <2>3, <3>2, <3>6, <4>2
      <4> QED  BY <1>5, <3>1, <3>3, <3>6, <4>3 DEF Holds
    <3> QED  BY <3>4, <3>5, <3>6
  <2>5. pc'[p] = "unlock"  BY <1>3, <1>5, <1>13
  <2>6. Atomic!Set(t)
    BY <1>1, <1>2, <1>5, <1>9, <1>11, <1>12, <1>13, <2>2, <2>4, <2>5, Sets
  <2> QED  BY <2>6
<1>14. CASE l.ret = kCreated
  <2>1. Owns("store", l)  BY <1>14 DEF Owns
  <2>2. /\ l.dest \in DOMAIN cell \ Bucket /\ \A e \in EntriesIn(obj) : CellOf(obj, e) # l.dest
    BY <1>8, <2>1 DEF HoldsAt
  <2>3. \A x \in DOMAIN cell : x # l.dest => cell'[x] = cell[x]  BY <1>6, <2>2
  <2>4. /\ \A b \in Bucket : cell'[b] = cell[b]
        /\ \A e \in EntriesIn(obj) : cell'[CellOf(obj, e)] = cell[CellOf(obj, e)]
    BY <1>7, <2>2, <2>3 DEF CellInv
  <2>5. mapMapped' = mapMapped  BY <1>12, <2>4, MapSame
  <2>6. pc'[p] = "makeEntry"  BY <1>3, <1>5, <1>14, WordsDiffer
  <2> QED  BY <1>1, <1>2, <1>5, <1>12, <2>5, <2>6, Unseen
<1> QED  BY <1>9, <1>13, <1>14

\* The value of a new key takes effect when the bucket leads to its entry.
LEMMA LinkSets ==
  ASSUME RightInv, ~hit', NEW t \in App, Link(A(t))
  PROVE  Atomic!Set(t)
<1>1. Others(t)  BY AppProc, OnlyMoves DEF AppStep, ClosureStep
<1>2. PICK p, c, l : p = A(t) /\ c = call[p] /\ l = loc[p]  OBVIOUS
<1>3. p \in Proc /\ p[2] = "app" /\ DOMAIN pc = Proc  BY <1>2, AppProc
<1>4. PICK wrongs, o :
        /\ o \in Outcomes(p, l.made, wrongs)
        /\ cell' = [cell EXCEPT ![l.hv] = o[1]] /\ Note(p, o[2])
  BY <1>2, <1>3 DEF Link
<1>5. /\ pc[p] = "link" /\ obj' = obj /\ call' = call /\ loc' = loc
      /\ pc' = [pc EXCEPT ![p] = "unlock"]
  BY <1>2 DEF Link, Goto
<1>6. cell' = [cell EXCEPT ![l.hv] = l.made]
  <2>1. ~o[2]  BY <1>3, <1>4, Quietly
  <2>2. o[1] = l.made  BY <1>4, <2>1, Chosen
  <2> QED  BY <1>4, <2>2
<1>7. ObjInv(obj, top) /\ CellInv(cell, obj, top)  BY DEF RightInv
<1>8. LocalsAt(obj, "link", c, l) /\ HoldsAt(cell, obj, lock, "link", c, l, t)
  BY <1>2, <1>5, AppProc
<1>9. /\ c \in Asked /\ c.op = "set" /\ l.ret = kCreated /\ ~Hit(obj, c, l)
      /\ IsEntry(obj, c, l.dest, l.head, l.made) /\ IsVal(obj, c, cell[l.dest])
  BY <1>8 DEF LocalsAt, HoldsAt
<1>10. pc[p] \in Started  BY <1>5 DEF Started, Inside, Labels
<1>11. /\ c.key \in Key /\ Found(obj, c, l) = Look(obj, c.key)[cell[Hash[c.key]]]
       /\ l.hv = Hash[c.key] /\ cell[l.hv] = l.head
  BY <1>2, <1>10, AtBucket
<1>12. Grows(obj, obj')  BY <1>5 DEF Grows
<1>13. Look(obj, c.key)[l.head] = 0 /\ Holds(cell, obj, c.key) = NoVal
  <2>1. Look(obj, c.key)[cell[Hash[c.key]]] = 0  BY <1>9, <1>11 DEF Hit
  <2> QED  BY <1>11, <2>1, Holding
<1>14. /\ l.made \in EntriesIn(obj) /\ l.made # 0 /\ CellOf(obj, l.made) = l.dest
       /\ obj[l.made].data.key = c.key /\ obj[l.made].data.next = l.head
       /\ l.dest \in DOMAIN cell \ Bucket
  <2>1. l.made \in EntriesIn(obj) /\ obj[l.made].data = [key |-> c.key, cell |-> l.dest, next |-> l.head]
    BY <1>9 DEF IsEntry
  <2>2. CellOf(obj, l.made) = l.dest  BY <2>1 DEF CellOf
  <2>3. l.made # 0  BY <1>7, <2>1, Kinds
  <2> QED  BY <1>7, <2>1, <2>2, <2>3 DEF CellInv
<1>15. l.hv \in Bucket /\ l.hv \in DOMAIN cell  BY <1>7, <1>11, HashAssumption DEF CellInv
<1>16. cell'[l.hv] = l.made /\ \A x \in DOMAIN cell : x # l.hv => cell'[x] = cell[x]
  BY <1>6, <1>15
<1>17. ASSUME NEW k \in Key
       PROVE  Holds(cell', obj', k) = IF k = c.key THEN c.val ELSE Holds(cell, obj, k)
  <2>1. PICK f : f = Look(obj, k)[cell[Hash[k]]]  OBVIOUS
  <2>2. /\ Hash[k] \in Bucket /\ Hash[k] \in DOMAIN cell
        /\ f = 0 \/ /\ f \in EntriesIn(obj) /\ f # 0 /\ CellOf(obj, f) \in DOMAIN cell \ Bucket
    BY <1>7, <2>1, Holding DEF CellInv
  <2>3. f # 0 => cell'[CellOf(obj, f)] = cell[CellOf(obj, f)]  BY <1>15, <1>16, <2>2
  <2>4. Look(obj, k)[l.made] = IF c.key = k THEN l.made ELSE Look(obj, k)[l.head]
    BY <1>7, <1>14, LookStep
  <2>5. CASE k = c.key
    <3>1. Look(obj, k)[cell'[Hash[k]]] = l.made  BY <1>11, <1>16, <2>4, <2>5
    <3>2. cell'[CellOf(obj, l.made)] = cell[l.dest]  BY <1>14, <1>15, <1>16
    <3>3. Holds(cell', obj', k) = obj[cell[l.dest]].data
      BY <1>5, <1>14, <3>1, <3>2 DEF Holds
    <3> QED  BY <1>9, <2>5, <3>3 DEF IsVal
  <2>6. CASE k # c.key
    <3>1. Look(obj, k)[cell'[Hash[k]]] = f
      <4>1. CASE Hash[k] = l.hv  BY <1>11, <1>16, <2>1, <2>4, <2>6, <4>1
      <4>2. CASE Hash[k] # l.hv  BY <1>16, <2>1, <2>2, <4>2
      <4> QED  BY <4>1, <4>2
    <3>2. Holds(cell', obj', k) = Holds(cell, obj, k)
      <4>1. CASE f = 0  BY <1>5, <2>1, <3>1, <4>1 DEF Holds
      <4>2. CASE f # 0  BY <1>5, <2>1, <2>3, <3>1, <4>2 DEF Holds
      <4> QED  BY <4>1, <4>2
    <3> QED  BY <2>6, <3>2
  <2> QED  BY <2>5, <2>6
<1>18. pc'[p] = "unlock"  BY <1>3, <1>5
<1> QED
  BY <1>1, <1>2, <1>5, <1>9, <1>11, <1>12, <1>13, <1>17, <1>18, Sets

\* A call asks.
LEMMA InvokeAsks ==
  ASSUME RightInv, NEW t \in App, Invoke(t)
  PROVE  Atomic!Ask(t)
<1>1. Others(t)  BY OnlyMoves
<1>2. PICK p : p = A(t)  OBVIOUS
<1>3. p \in Proc /\ DOMAIN pc = Proc /\ p = <<t, "app">>  BY <1>2, AppProc
<1>4. PICK c \in Call : call' = [call EXCEPT ![p] = c]  BY <1>3 DEF Invoke
<1>5. pc[p] = "idle" /\ pc' = [pc EXCEPT ![p] = "lock"] /\ UNCHANGED memVars
  BY <1>3 DEF Invoke, Goto
<1>6. call[p] = NoCall  BY <1>2, <1>5, AppProc DEF LocalsAt
<1>7. DOMAIN call = Proc  BY DEF RightInv, TypesInv
<1>8. call'[p] = c /\ pc'[p] = "lock"  BY <1>3, <1>4, <1>5, <1>7
<1>9. Grows(obj, obj') /\ mapMapped' = mapMapped  BY <1>5, Unwritten
<1>10. /\ askedMapped' = [askedMapped EXCEPT ![t] = c]
       /\ answerMapped' = [answerMapped EXCEPT ![t] = NoAnswer]
  BY <1>1, <1>2, <1>8, <1>9, OneMoves
<1>11. /\ askedMapped[t] = NoCall /\ answerMapped[t] = NoAnswer
       /\ answerMapped = [u \in App |-> answerMapped[u]]
  BY <1>2, <1>5, <1>6, AnswersAre
<1>12. answerMapped' = answerMapped  BY <1>10, <1>11
<1>13. c \in Atomic!Request /\ NoCall = Atomic!NoRequest
  BY DEF Call, Atomic!Request, NoCall, Atomic!NoRequest
<1> QED  BY <1>9, <1>10, <1>11, <1>12, <1>13 DEF Atomic!Ask

\* The client is told what the operation answered.
LEMMA ReturnTells ==
  ASSUME RightInv, NEW t \in App, Return(t)
  PROVE  Atomic!Tell(t)
<1>1. Others(t)  BY OnlyMoves DEF AppStep
<1>2. PICK p, c, l : p = A(t) /\ c = call[p] /\ l = loc[p]  OBVIOUS
<1>3. p \in Proc /\ DOMAIN pc = Proc /\ p = <<t, "app">>  BY <1>2, AppProc
<1>4. /\ pc[p] = "return" /\ pc' = [pc EXCEPT ![p] = "idle"]
      /\ call' = [call EXCEPT ![p] = NoCall] /\ UNCHANGED memVars
  BY <1>3 DEF Return, Goto
<1>5. DOMAIN call = Proc  BY DEF RightInv, TypesInv
<1>6. call'[p] = NoCall /\ pc'[p] = "idle"  BY <1>3, <1>4, <1>5
<1>7. Grows(obj, obj') /\ mapMapped' = mapMapped  BY <1>4, Unwritten
<1>8. /\ askedMapped' = [askedMapped EXCEPT ![t] = NoCall]
      /\ answerMapped' = [answerMapped EXCEPT ![t] = NoAnswer]
  BY <1>1, <1>2, <1>6, <1>7, OneMoves
<1>9. Told(obj, c.op, l.ret) # NoAnswer
  <2>1. LocalsAt(obj, "return", c, l)  BY <1>2, <1>4, AppProc
  <2>2. \/ c.op = "get" /\ l.ret \in ValuesIn(obj)
        \/ c.op = "get" /\ l.ret = 0
        \/ c.op = "set" /\ l.ret \in {kStored, kCreated}
    BY <2>1 DEF LocalsAt
  <2>3. CASE c.op = "get" /\ l.ret \in ValuesIn(obj)
    <3>1. l.ret # 0  BY <2>3, Kinds DEF RightInv
    <3>2. Told(obj, c.op, l.ret) \in Val  BY <2>3, <3>1 DEF Told, ValuesIn
    <3> QED  BY <3>2, NoAnswerAssumption
  <2>4. CASE c.op = "get" /\ l.ret = 0  BY <2>4, NoAnswerAssumption DEF Told
  <2>5. CASE c.op = "set" /\ l.ret \in {kStored, kCreated}
    BY <2>5, NoAnswerAssumption DEF Told
  <2> QED  BY <2>2, <2>3, <2>4, <2>5
<1>10. answerMapped[t] = Told(obj, c.op, l.ret)  BY <1>2, <1>4, AnswersAre
<1> QED
  BY <1>7, <1>8, <1>9, <1>10 DEF Atomic!Tell, NoCall, Atomic!NoRequest

\* Steps that leave memory and the closures of the application alone.
LEMMA Aside ==
  ASSUME UNCHANGED memVars, RightInv,
         \A u \in App : /\ pc'[A(u)] = pc[A(u)] /\ call'[A(u)] = call[A(u)]
                        /\ loc'[A(u)] = loc[A(u)]
  PROVE  UNCHANGED Atomic!amVars
<1>1. mapMapped' = mapMapped /\ obj' = obj  BY Unwritten DEF memVars
<1>2. askedMapped' = askedMapped  BY AnswersAre
<1>3. answerMapped' = answerMapped  BY <1>1, AnswersAre
<1> QED  BY <1>1, <1>2, <1>3 DEF Atomic!amVars

\* Validation is not seen.
LEMMA ValMaps ==
  ASSUME RightInv, ~hit', NEW t \in App, ValStep(t)
  PROVE  UNCHANGED Atomic!amVars
<1>1. PICK p : p = V(t)  OBVIOUS
<1>2. p \in Proc /\ p[2] = "val" /\ p = <<t, "val">>  BY <1>1 DEF V, Proc, Side
<1>3. \A u \in App : A(u) \in Proc /\ A(u) # p  BY <1>2 DEF A, Proc, Side
<1>4. DOMAIN pc = Proc /\ DOMAIN call = Proc /\ DOMAIN loc = Proc
  BY DEF RightInv, TypesInv
<1>5. ASSUME NEW s, NEW c, NEW l, UNCHANGED memVars, pc' = [pc EXCEPT ![p] = s],
             call' = [call EXCEPT ![p] = c] \/ call' = call,
             loc' = [loc EXCEPT ![p] = l] \/ loc' = loc
      PROVE  UNCHANGED Atomic!amVars
  BY <1>3, <1>4, <1>5, Aside
<1>6. CASE Open(t)
  <2>1. PICK c : call' = [call EXCEPT ![p] = c]  BY <1>2, <1>6 DEF Open
  <2>2. pc' = [pc EXCEPT ![p] = "lock"] /\ loc' = loc /\ UNCHANGED memVars
    BY <1>2, <1>6 DEF Open, Goto
  <2> QED  BY <1>5, <2>1, <2>2
<1>7. CASE Close(t)
  <2>1. /\ pc' = [pc EXCEPT ![p] = "idle"] /\ call' = [call EXCEPT ![p] = NoCall]
        /\ loc' = [loc EXCEPT ![p] = Fresh] /\ UNCHANGED memVars
    BY <1>2, <1>7 DEF Close, Goto
  <2> QED  BY <1>5, <2>1
<1>8. CASE Report(t)  BY <1>2, <1>8, ValPasses DEF Report
<1>9. CASE ClosureStep(p)
  <2>1. ValMoves(p)  BY <1>1, <1>9, ValClosure
  <2>2. PICK s, l, w : StepTo(p, s, l, w) /\ UNCHANGED memVars  BY <2>1 DEF ValMoves
  <2>3. /\ pc' = [pc EXCEPT ![p] = s] /\ loc' = [loc EXCEPT ![p] = l] /\ call' = call
    BY <2>2 DEF StepTo
  <2> QED  BY <1>5, <2>2, <2>3
<1> QED  BY <1>2, <1>6, <1>7, <1>8, <1>9 DEF ValStep

\* A step of a closure is one of the atomic map, or not seen.
LEMMA AppMaps ==
  ASSUME RightInv, ~hit', NEW t \in App, ClosureStep(A(t))
  PROVE  Atomic!Get(t) \/ Atomic!Set(t) \/ UNCHANGED Atomic!amVars
<1>1. PICK p : p = A(t)  OBVIOUS
<1>2. CASE Lock(p) \/ ReadHead(p) \/ Find(p) \/ Skip(p) \/ Unlock(p)
  BY <1>1, <1>2, QuietMaps
<1>3. CASE (Miss(p) \/ Load(p)) /\ call[p].op # "get"  BY <1>1, <1>3, QuietMaps
<1>4. CASE Miss(p) /\ call[p].op = "get"  BY <1>1, <1>4, MissGets
<1>5. CASE Load(p) /\ call[p].op = "get"  BY <1>1, <1>5, LoadGets
<1>6. CASE NewCell(p) \/ MakeVal(p) \/ MakeEntry(p)  BY <1>1, <1>6, NewMaps
<1>7. CASE Store(p)  BY <1>1, <1>7, StoreMaps
<1>8. CASE Link(p)  BY <1>1, <1>8, LinkSets
<1> QED
  BY <1>1, <1>2, <1>3, <1>4, <1>5, <1>6, <1>7, <1>8 DEF ClosureStep

\* The map is empty, and nobody has asked.
LEMMA MappedInit ==
  ASSUME Init
  PROVE  Atomic!AMInit
<1>1. RightInv  BY InitInv
<1>2. ASSUME NEW k \in Key PROVE Holds(cell, obj, k) = NoVal
  <2>1. Hash[k] \in Bucket  BY HashAssumption
  <2>2. cell[Hash[k]] = 0  BY <2>1 DEF Init
  <2>3. Look(obj, k)[0] = 0  BY <1>1, LookStep DEF RightInv
  <2> QED  BY <2>2, <2>3 DEF Holds
<1>3. mapMapped = [k \in Key |-> NoVal]  BY <1>2, MapIs
<1>4. \A t \in App : A(t) \in Proc  BY DEF A, Proc, Side
<1>5. \A t \in App : pc[A(t)] = "idle" /\ call[A(t)] = NoCall  BY <1>4 DEF Init
<1>6. askedMapped = [t \in App |-> NoCall]  BY <1>5, AnswersAre
<1>7. answerMapped = [t \in App |-> NoAnswer]  BY <1>5, AnswersAre
<1> QED
  BY <1>3, <1>6, <1>7 DEF Atomic!AMInit, NoCall, Atomic!NoRequest

\* Every step is one of the atomic map, or not seen.
LEMMA MappedNext ==
  ASSUME RightInv, ~hit', [Next]_vars
  PROVE  [Atomic!AMNext]_(Atomic!amVars)
<1>1. ASSUME NEW t \in App, Invoke(t) PROVE Atomic!AMNext
  BY <1>1, InvokeAsks DEF Atomic!AMNext
<1>2. ASSUME NEW t \in App, AppStep(t) PROVE Atomic!AMNext \/ UNCHANGED Atomic!amVars
  <2>1. CASE Return(t)  BY <2>1, ReturnTells DEF Atomic!AMNext
  <2>2. CASE ClosureStep(A(t))  BY <2>2, AppMaps DEF Atomic!AMNext
  <2> QED  BY <1>2, <2>1, <2>2 DEF AppStep, A
<1>3. ASSUME NEW t \in App, ValStep(t) PROVE UNCHANGED Atomic!amVars
  BY <1>3, ValMaps
<1>4. CASE UNCHANGED vars
  <2>1. pc' = pc /\ call' = call /\ loc' = loc /\ UNCHANGED memVars
    BY <1>4 DEF vars, runVars
  <2> QED  BY <2>1, Aside
<1> QED  BY <1>1, <1>2, <1>3, <1>4 DEF Next

\* The hash map is linearizable where nothing fails: for any number of threads,
\* keys and operations, and any hash function, gets and sets appear to run one
\* at a time, each between its call and its return.
THEOREM MapImplementsAtomic ==
  ASSUME Faults = {}
  PROVE  Spec => ImplementsAtomicMap
<1>1. Init => RightInv /\ ~hit /\ reported \in BOOLEAN /\ Atomic!AMInit
  BY InitInv, MappedInit DEF Init
<1>2. RightInv /\ ~hit /\ reported \in BOOLEAN /\ [Next]_vars
        => /\ (RightInv /\ ~hit /\ reported \in BOOLEAN)'
           /\ [Atomic!AMNext]_(Atomic!amVars)
  <2> SUFFICES ASSUME RightInv, ~hit, reported \in BOOLEAN, [Next]_vars
               PROVE  /\ (RightInv /\ ~hit /\ reported \in BOOLEAN)'
                      /\ [Atomic!AMNext]_(Atomic!amVars)
    OBVIOUS
  <2>1. RightInv' /\ ~hit' /\ reported' \in BOOLEAN  BY RightNext
  <2>2. [Atomic!AMNext]_(Atomic!amVars)  BY <2>1, MappedNext
  <2> QED  BY <2>1, <2>2
<1> QED  BY <1>1, <1>2, PTL DEF Spec, ImplementsAtomicMap, Atomic!AMSpec

=============================================================================
