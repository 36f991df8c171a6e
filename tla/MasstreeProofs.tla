--------------------------- MODULE MasstreeProofs ---------------------------
(***************************************************************************)
(* Masstree: nodes and locks.  IInv says which nodes a thread has locked   *)
(* at each label of its program, what the bits of their versions are then, *)
(* and that the new nodes of two splits are never the same.  It is kept by *)
(* every step before which LocateFinds holds: an entry that locate has not *)
(* found would lead the thread nowhere.  MasstreeOrderProofs does without  *)
(* that condition.                                                         *)
(***************************************************************************)
EXTENDS Masstree, FiniteSetTheorems, SequenceTheorems, TLAPS

\* The bits of a version.
Bits == {LOCK, INSERT, SPLIT, DELETED}

\* Raising one bit of a version leaves the other bits alone, ...
LEMMA RaiseBits ==
  ASSUME NEW v \in Nat, NEW b \in Bits
  PROVE  /\ Raise(v, b) \in Nat /\ Has(Raise(v, b), b)
         /\ \A c \in Bits : c # b => (Has(Raise(v, b), c) <=> Has(v, c))
  BY DEF Raise, Has, Bits, LOCK, INSERT, SPLIT, DELETED

\* ... so does toggling one, ...
LEMMA ToggleBits ==
  ASSUME NEW v \in Nat, NEW b \in Bits
  PROVE  /\ Toggle(v, b) \in Nat /\ (Has(Toggle(v, b), b) <=> ~Has(v, b))
         /\ \A c \in Bits : c # b => (Has(Toggle(v, b), c) <=> Has(v, c))
  <1>1. CASE ~Has(v, b)
    BY <1>1, RaiseBits DEF Toggle, Raise
  <1>2. CASE Has(v, b)
    <2>1. Toggle(v, b) = v - b
      BY <1>2 DEF Toggle
    <2>2. v - b \in Nat /\ ~Has(v - b, b)
      BY <1>2 DEF Has, Bits, LOCK, INSERT, SPLIT, DELETED
    <2>3. Raise(v - b, b) = v
      BY <2>2 DEF Raise, Bits, LOCK, INSERT, SPLIT, DELETED
    <2>4. \A c \in Bits : c # b => (Has(v - b, c) <=> Has(v, c))
      BY <2>2, <2>3, RaiseBits
    <2> QED
      BY <1>2, <2>1, <2>2, <2>4
  <1> QED
    BY <1>1, <1>2

\* ... and so does counting an insertion or a split.
LEMMA CountBits ==
  ASSUME NEW v \in Nat
  PROVE  /\ v + INSERTCNT \in Nat
         /\ \A c \in Bits : Has(v + INSERTCNT, c) <=> Has(v, c)
  BY DEF Has, Bits, LOCK, INSERT, SPLIT, DELETED, INSERTCNT

-----------------------------------------------------------------------------
(* The inductive invariant. *)

Entries == [key : Key \cup {0}, link : 0 .. MaxNodes]
Locals == [node : 0 .. MaxNodes, v : Nat, child : 0 .. MaxNodes, vc : Nat,
           left : 0 .. MaxNodes, right : 0 .. MaxNodes,
           near : 0 .. MaxNodes, old : Val \cup {NoVal}]

\* Nothing refers to a node that was not created yet, and an interior node
\* refers to nodes only.
NodesInv ==
  /\ used \in Node /\ root \in 1 .. used /\ ver \in [Node -> Nat]
  /\ type \in [Node -> {"ROOT", "INTERIOR", "LEAF"}]
  /\ data \in [Node -> Seq(Entries)]
  /\ \A n \in Node : Links(data[n]) \subseteq 0 .. used
  /\ \A n \in 1 .. used : /\ data[n] # << >>
                          /\ type[n] # "LEAF" => NoNode \notin Links(data[n])
  /\ parent \in [Node -> 0 .. used]
  /\ prev \in [Node -> 0 .. used] /\ next \in [Node -> 0 .. used]
  /\ cell \in [Key -> Val \cup {NoVal}]
  /\ done \in [Thread -> Nat] /\ alarm \in BOOLEAN

Descending == {"down", "child", "check", "recheck"}
AtLeaf == {"leaf", "act", "updated"}
Inserts == {"interior", "insert", "inserted"}
Splits == {"next", "prev", "lockprev", "parent", "lockparent", "newroot",
           "swapped", "replace"}
Labels == {"idle", "root", "stable"} \cup Descending \cup AtLeaf
             \cup Inserts \cup Splits

\* The locals of a thread, where it may be with them ...
LocalsAt(t) ==
  /\ at[t] \in Locals /\ pc[t] \in Labels
  /\ \A n \in {at[t].node, at[t].child, at[t].left, at[t].right, at[t].near} :
       n \in 0 .. used
  /\ pc[t] \notin {"idle", "root"} => at[t].node # NoNode
  /\ pc[t] \in {"child", "check"} => at[t].child # NoNode
  /\ pc[t] \in Descending => type[at[t].node] # "LEAF"
  /\ pc[t] \in AtLeaf => type[at[t].node] = "LEAF"
  /\ pc[t] \in Splits \cup {"interior"}
       => at[t].left # NoNode /\ at[t].right # NoNode
  /\ pc[t] = "insert" /\ type[at[t].node] # "LEAF"
       => at[t].left # NoNode /\ at[t].right # NoNode
  /\ pc[t] = "lockparent" => at[t].near # NoNode
  /\ pc[t] # "idle" => /\ S!Pending(t) /\ op(t).key \in Key
                       /\ op(t).val \in Val

\* ... and what the versions of the nodes it has locked say, which are all
\* different.
BitsAt(t) ==
  /\ pc[t] \in {"act", "updated", "interior"} => Stable(ver[at[t].node])
  /\ pc[t] \in {"insert", "inserted"} => /\ Has(ver[at[t].node], INSERT)
                                         /\ ~Has(ver[at[t].node], SPLIT)
  /\ pc[t] \in Splits =>
       /\ \A n \in {at[t].node, at[t].left, at[t].right} :
            Has(ver[n], SPLIT) /\ ~Has(ver[n], INSERT)
       /\ at[t].node # at[t].left /\ at[t].node # at[t].right
       /\ at[t].left # at[t].right
  /\ pc[t] = "replace" =>
       /\ at[t].near \notin {at[t].node, at[t].left, at[t].right}
       /\ at[t].near # NoNode => Stable(ver[at[t].near])
  /\ pc[t] = "swapped" =>
       /\ parent[at[t].left]
            \notin {NoNode, at[t].node, at[t].left, at[t].right}
       /\ Has(ver[parent[at[t].left]], SPLIT)
       /\ ~Has(ver[parent[at[t].left]], INSERT)

\* The new root that a thread has yet to open is above the left half only as
\* long as no other node links that half, for then its split would take it
\* over.
HalfAt(t) ==
  /\ pc[t] = "newroot" => \A n \in Node : at[t].left \notin Links(data[n])
  /\ pc[t] = "swapped" => \A n \in Node :
       at[t].left \in Links(data[n]) => n = parent[at[t].left]

Halves(t) == {at[t].left, at[t].right} \ {NoNode}
HalvesApart == \A t, u \in Thread : t # u => Halves(t) \cap Halves(u) = {}

DomainsInv == DOMAIN at = Thread /\ DOMAIN pc = Thread /\ DOMAIN call = Thread

IInv == /\ NodesInv /\ DomainsInv /\ LocksOwned /\ HalvesApart
        /\ \A t \in Thread : LocalsAt(t) /\ BitsAt(t) /\ HalfAt(t)

\* The bounds of the model.
LEMMA Constants ==
  /\ Node = 1 .. MaxNodes /\ MaxNodes \in Nat /\ MaxNodes > 1 /\ NoNode = 0
  /\ Half \in Nat \ {0} /\ 2 * Half = Fanout + 1 /\ Fanout \in Nat
  /\ Key \subseteq Nat \ {0}
  BY MasstreeAssumption DEF Node, NoNode, Half

-----------------------------------------------------------------------------
(* Sequences of entries. *)

\* locate, as long as it does not abort, finds an entry.
LEMMA LocateRange ==
  ASSUME NEW d \in Seq(Entries), NEW k
  PROVE  /\ Locate(d, k) \in 0 .. Len(d)
         /\ d # << >> /\ d[1].key <= k => Locate(d, k) \in 1 .. Len(d)
  <1> DEFINE I == {i \in DOMAIN d : d[i].key <= k}
  <1>1. /\ Len(d) \in Nat /\ DOMAIN d = 1 .. Len(d) /\ I \in SUBSET (1 .. Len(d))
        /\ d # << >> => 1 \in DOMAIN d
    OBVIOUS
  <1>2. IsFiniteSet(1 .. Len(d)) /\ Cardinality(1 .. Len(d)) = Len(d)
    <2>1. PICK m \in Nat : m = Len(d)
      BY <1>1
    <2>2. /\ IsFiniteSet(1 .. m)
          /\ Cardinality(1 .. m) = IF 1 > m THEN 0 ELSE m - 1 + 1
      BY FS_Interval
    <2>3. (IF 1 > m THEN 0 ELSE m - 1 + 1) = m
      OBVIOUS
    <2> QED
      BY <2>1, <2>2, <2>3
  <1>3. /\ IsFiniteSet(I) /\ Cardinality(I) \in Nat
        /\ Cardinality(I) <= Len(d)
    BY <1>1, <1>2, FS_Subset, FS_CardinalityType
  <1>4. Cardinality(I) = 0 => I = {}
    BY <1>3, FS_EmptySet
  <1>5. d # << >> /\ d[1].key <= k => 1 \in I
    BY <1>1
  <1> HIDE DEF I
  <1>6. d # << >> /\ d[1].key <= k => Cardinality(I) # 0
    BY <1>4, <1>5
  <1> QED
    BY <1>1, <1>3, <1>6 DEF Locate, I

\* x is d with entry new behind entry i, which links to relink if that is a node.
IsExtended(x, d, i, new, relink) ==
  /\ x \in Seq(Entries) /\ Len(x) = Len(d) + 1
  /\ \A j \in 1 .. i :
       /\ x[j].key = d[j].key
       /\ x[j].link = IF j = i /\ relink # NoNode THEN relink ELSE d[j].link
  /\ x[i + 1] = new
  /\ \A j \in i + 1 .. Len(d) : x[j + 1] = d[j]

\* That is what extend makes.
LEMMA ExtendedAt ==
  ASSUME NEW d \in Seq(Entries), NEW i \in 0 .. Len(d), NEW new \in Entries,
         NEW relink \in 0 .. MaxNodes
  PROVE  IsExtended(Extended(d, i, new, relink), d, i, new, relink)
  <1> DEFINE old == IF relink = NoNode THEN d ELSE [d EXCEPT ![i].link = relink]
  <1> DEFINE n == Len(d)
  <1>1. n \in Nat /\ DOMAIN d = 1 .. n /\ i \in Nat /\ i <= n
    OBVIOUS
  <1>2. /\ old \in Seq(Entries) /\ Len(old) = n
        /\ \A j \in 1 .. n :
             /\ old[j].key = d[j].key
             /\ old[j].link = IF j = i /\ relink # NoNode THEN relink ELSE d[j].link
             /\ j # i => old[j] = d[j]
    <2>1. CASE relink = NoNode
      BY <1>1, <2>1
    <2>2. CASE relink # NoNode
      <3>1. old = [j \in 1 .. n |->
                     IF j = i THEN [d[j] EXCEPT !.link = relink] ELSE d[j]]
        BY <1>1, <2>2
      <3>2. \A j \in 1 .. n : d[j] \in Entries
        OBVIOUS
      <3>3. \A j \in 1 .. n : /\ [d[j] EXCEPT !.link = relink] \in Entries
                              /\ [d[j] EXCEPT !.link = relink].link = relink
                              /\ [d[j] EXCEPT !.link = relink].key = d[j].key
        BY <3>2 DEF Entries
      <3>4. \A j \in 1 .. n :
              /\ old[j] \in Entries /\ old[j].key = d[j].key
              /\ old[j].link = IF j = i THEN relink ELSE d[j].link
              /\ j # i => old[j] = d[j]
        BY <3>1, <3>2, <3>3
      <3>5. old = [j \in 1 .. n |-> old[j]]
        BY <3>1
      <3> HIDE DEF old
      <3>6. old \in Seq(Entries) /\ Len(old) = n
        BY <1>1, <3>4, <3>5
      <3> QED
        BY <2>2, <3>4, <3>6
    <2> QED
      BY <2>1, <2>2
  <1> HIDE DEF old
  <1> DEFINE a == SubSeq(old, 1, i)
  <1> DEFINE b == SubSeq(old, i + 1, n)
  <1>3. /\ a \in Seq(Entries) /\ Len(a) = i
        /\ \A j \in 1 .. i : a[j] = old[j]
    <2>1. \A j \in 1 .. i : old[j] \in Entries
      BY <1>1, <1>2
    <2> QED
      BY <1>1, <2>1, SubSeqProperties
  <1>4. /\ b \in Seq(Entries) /\ Len(b) = n - i
        /\ \A j \in 1 .. n - i : b[j] = old[i + j]
    <2>1. \A j \in i + 1 .. n : old[j] \in Entries
      BY <1>1, <1>2
    <2>2. i + 1 \in Int /\ n \in Int
      BY <1>1
    <2>3. /\ b \in Seq(Entries)
          /\ Len(b) = IF i + 1 <= n THEN n - (i + 1) + 1 ELSE 0
          /\ \A j \in 1 .. n - (i + 1) + 1 : b[j] = old[(i + 1) + j - 1]
      BY <2>1, <2>2, SubSeqProperties
    <2>4. /\ n - (i + 1) + 1 = n - i
          /\ \A j \in 1 .. n - i : (i + 1) + j - 1 = i + j
      BY <1>1
    <2> HIDE DEF b
    <2>5. Len(b) = n - i
      <3>1. CASE i + 1 <= n
        BY <2>3, <2>4, <3>1
      <3>2. CASE ~(i + 1 <= n)
        <4>1. \A x, y \in Nat : x <= y /\ ~(x + 1 <= y) => y - x = 0
          OBVIOUS
        <4>2. n - i = 0
          BY <1>1, <3>2, <4>1
        <4> QED
          BY <2>3, <3>2, <4>2
      <3> QED
        BY <3>1, <3>2
    <2>6. \A j \in 1 .. n - i : b[j] = old[i + j]
      BY <2>3, <2>4
    <2> QED
      BY <2>3, <2>5, <2>6
  <1> HIDE DEF a, b
  <1> DEFINE c == a \o <<new>>
  <1>5. /\ c \in Seq(Entries) /\ Len(c) = i + 1
        /\ \A j \in 1 .. i + 1 : c[j] = IF j <= i THEN a[j] ELSE new
    <2> DEFINE s == <<new>>
    <2>1. s \in Seq(Entries) /\ Len(s) = 1 /\ s[1] = new
      OBVIOUS
    <2> HIDE DEF s
    <2>2. /\ a \o s \in Seq(Entries) /\ Len(a \o s) = i + 1
          /\ \A j \in 1 .. i + 1 :
               (a \o s)[j] = IF j <= i THEN a[j] ELSE s[j - i]
      <3>1. Len(a) + Len(s) = i + 1
        BY <1>3, <2>1
      <3>2. /\ a \o s \in Seq(Entries) /\ Len(a \o s) = Len(a) + Len(s)
            /\ \A j \in 1 .. Len(a) + Len(s) :
                 (a \o s)[j] = IF j <= Len(a) THEN a[j] ELSE s[j - Len(a)]
        BY <1>3, <2>1, ConcatProperties
      <3> QED
        BY <1>3, <3>1, <3>2
    <2>3. \A j \in 1 .. i + 1 : ~(j <= i) => j - i = 1
      BY <1>1
    <2> QED
      BY <2>1, <2>2, <2>3 DEF c, s
  <1> HIDE DEF c
  <1>6. /\ c \o b \in Seq(Entries) /\ Len(c \o b) = n + 1
        /\ \A j \in 1 .. n + 1 :
             (c \o b)[j] = IF j <= i + 1 THEN c[j] ELSE b[j - (i + 1)]
    <2>1. (i + 1) + (n - i) = n + 1
      BY <1>1
    <2> QED
      BY <1>4, <1>5, <2>1, ConcatProperties
  <1>7. Extended(d, i, new, relink) = c \o b
    BY <1>2 DEF Extended, old, a, b, c
  <1>8. ASSUME NEW j \in 1 .. i
        PROVE  (c \o b)[j] = old[j]
    <2>1. j \in 1 .. i + 1 /\ j \in 1 .. n + 1 /\ j <= i + 1 /\ j <= i
      BY <1>1
    <2> QED
      BY <1>3, <1>5, <1>6, <2>1
  <1>9. (c \o b)[i + 1] = new
    <2>1. i + 1 \in 1 .. i + 1 /\ i + 1 \in 1 .. n + 1 /\ ~(i + 1 <= i)
      BY <1>1
    <2> QED
      BY <1>5, <1>6, <2>1
  <1>10. ASSUME NEW j \in i + 1 .. n
         PROVE  (c \o b)[j + 1] = d[j]
    <2>1. PICK k : k = j - i
      OBVIOUS
    <2>2. /\ k \in 1 .. n - i /\ j + 1 - (i + 1) = k /\ i + k = j
          /\ j + 1 \in 1 .. n + 1 /\ ~(j + 1 <= i + 1) /\ j \in 1 .. n /\ j # i
      BY <1>1, <2>1
    <2>3. (c \o b)[j + 1] = b[j + 1 - (i + 1)]
      BY <1>6, <2>2
    <2>4. b[k] = old[i + k]
      BY <1>4, <2>2
    <2>5. old[j] = d[j]
      BY <1>2, <2>2
    <2> QED
      BY <2>2, <2>3, <2>4, <2>5
  <1>11. \A j \in 1 .. i : j \in 1 .. n
    BY <1>1
  <1> HIDE DEF n
  <1>12. IsExtended(c \o b, d, i, new, relink)
    BY <1>2, <1>6, <1>8, <1>9, <1>10, <1>11 DEF IsExtended, n
  <1> QED
    BY <1>7, <1>12

\* So its links are those there were and the new ones.
LEMMA ExtendedFacts ==
  ASSUME NEW d \in Seq(Entries), NEW i \in 0 .. Len(d), NEW new \in Entries,
         NEW relink \in 0 .. MaxNodes
  PROVE  /\ Extended(d, i, new, relink) \in Seq(Entries)
         /\ Len(Extended(d, i, new, relink)) = Len(d) + 1
         /\ Links(Extended(d, i, new, relink))
              \subseteq Links(d) \cup {new.link, relink}
         /\ relink = NoNode => Links(Extended(d, i, new, relink))
                                 \subseteq Links(d) \cup {new.link}
  <1>1. PICK x : x = Extended(d, i, new, relink)
    OBVIOUS
  <1>2. /\ x \in Seq(Entries) /\ Len(x) = Len(d) + 1
        /\ \A j \in 1 .. i :
             /\ x[j].key = d[j].key
             /\ x[j].link = IF j = i /\ relink # NoNode THEN relink ELSE d[j].link
        /\ x[i + 1] = new
        /\ \A j \in i + 1 .. Len(d) : x[j + 1] = d[j]
    <2>1. IsExtended(x, d, i, new, relink)
      BY <1>1, ExtendedAt
    <2> QED
      BY <2>1 DEF IsExtended
  <1>3. PICK n \in Nat : n = Len(d) /\ i \in 0 .. n /\ DOMAIN d = 1 .. n
                         /\ DOMAIN x = 1 .. n + 1
    BY <1>2
  <1>4. ASSUME NEW y \in Links(x)
        PROVE  \/ y \in Links(d) \cup {new.link}
               \/ relink # NoNode /\ y = relink
    <2>1. PICK j \in 1 .. n + 1 : y = x[j].link
      BY <1>3, <1>4 DEF Links
    <2>2. CASE j \in 1 .. i
      <3>1. j \in 1 .. n
        BY <1>3, <2>2
      <3> QED
        BY <1>2, <1>3, <2>1, <2>2, <3>1 DEF Links
    <2>3. CASE j = i + 1
      BY <1>2, <2>1, <2>3
    <2>4. CASE j > i + 1
      <3>1. PICK k : k = j - 1
        OBVIOUS
      <3>2. k \in i + 1 .. n /\ k \in 1 .. n /\ k + 1 = j
        BY <1>3, <2>4, <3>1
      <3> QED
        BY <1>2, <1>3, <2>1, <3>2 DEF Links
    <2>5. j \in 1 .. i \/ j = i + 1 \/ j > i + 1
      BY <1>3
    <2> QED
      BY <2>2, <2>3, <2>4, <2>5
  <1> QED
    BY <1>1, <1>2, <1>4

\* divide leaves two halves that are not empty.
LEMMA HalfFacts ==
  ASSUME NEW d \in Seq(Entries), Len(d) > Fanout
  PROVE  /\ LeftHalf(d) \in Seq(Entries) /\ RightHalf(d) \in Seq(Entries)
         /\ LeftHalf(d) # << >> /\ RightHalf(d) # << >>
         /\ Links(LeftHalf(d)) \subseteq Links(d)
         /\ Links(RightHalf(d)) \subseteq Links(d)
  <1>1. /\ Len(d) \in Nat /\ DOMAIN d = 1 .. Len(d)
        /\ Half \in Nat \ {0} /\ 2 * Half <= Len(d)
    BY Constants
  <1>2. ASSUME NEW i \in 1 .. Len(d), NEW j \in i .. Len(d)
        PROVE  /\ SubSeq(d, i, j) \in Seq(Entries) /\ SubSeq(d, i, j) # << >>
               /\ Links(SubSeq(d, i, j)) \subseteq Links(d)
    <2>1. /\ i \in Int /\ j \in Int /\ i <= j
          /\ \A k \in i .. j : d[k] \in Entries
      BY <1>1
    <2>2. /\ SubSeq(d, i, j) \in Seq(Entries)
          /\ Len(SubSeq(d, i, j)) = j - i + 1
          /\ \A k \in 1 .. j - i + 1 : SubSeq(d, i, j)[k] = d[i + k - 1]
      BY <2>1, SubSeqProperties
    <2>3. \A k \in 1 .. j - i + 1 : i + k - 1 \in 1 .. Len(d)
      BY <1>1
    <2>4. DOMAIN SubSeq(d, i, j) = 1 .. j - i + 1
      BY <2>2
    <2>5. Links(SubSeq(d, i, j)) \subseteq Links(d)
      BY <1>1, <2>2, <2>3, <2>4 DEF Links
    <2> QED
      BY <2>1, <2>2, <2>5
  <1>3. 1 \in 1 .. Len(d) /\ Half \in 1 .. Len(d)
    BY <1>1
  <1>4. Half + 1 \in 1 .. Len(d) /\ 2 * Half \in Half + 1 .. Len(d)
    BY <1>1
  <1> QED
    BY <1>2, <1>3, <1>4 DEF LeftHalf, RightHalf

-----------------------------------------------------------------------------
(* What a step of t leaves to the others. *)

LocalTo(t) ==
  /\ used <= used' /\ used' \in Nat
  /\ \A n \in 1 .. used : type'[n] = type[n]
  /\ \A n \in 1 .. used : n \notin Held(t) \cup Held(t)' => ver'[n] = ver[n]
  /\ \A u \in Thread \ {t} :
       /\ at'[u] = at[u] /\ pc'[u] = pc[u]
       /\ S!Pending(u) => S!Pending(u)' /\ op(u)' = op(u)
       /\ pc[u] = "swapped" => parent'[at[u].left] = parent[at[u].left]
       /\ pc[u] \in {"newroot", "swapped"} =>
            \A n \in Node : at[u].left \in Links(data'[n])
                              => at[u].left \in Links(data[n])

\* t locks and unlocks nodes nobody else has locked.
OwnedTo(t) ==
  /\ \A u \in Thread \ {t} : Held(t)' \cap Held(u) = {}
  /\ \A n \in Held(t)' : Has(ver'[n], LOCK)
  /\ \A n \in Held(t) \ Held(t)' : ~Has(ver'[n], LOCK) /\ Stable(ver'[n])
  /\ \A n \in 1 .. used' : n \notin 1 .. used => n \in Held(t)'

ThreadNext(t) ==
  /\ LocalTo(t) /\ OwnedTo(t)
  /\ LocalsAt(t)' /\ BitsAt(t)' /\ HalfAt(t)'
  /\ \A u \in Thread \ {t} : Halves(t)' \cap Halves(u) = {}

\* Held, label by label.
LEMMA HeldCases ==
  ASSUME NEW t
  PROVE  /\ pc[t] \in {"act", "updated"} \cup Inserts
              => Held(t) = {at[t].node} \ {NoNode}
         /\ pc[t] \in Splits \ {"replace", "swapped"}
              => Held(t) = {at[t].node, at[t].left, at[t].right} \ {NoNode}
         /\ pc[t] = "replace"
              => Held(t) = {at[t].node, at[t].left, at[t].right, at[t].near}
                             \ {NoNode}
         /\ pc[t] = "swapped"
              => Held(t) = {at[t].node, at[t].left, at[t].right,
                            parent[at[t].left]} \ {NoNode}
         /\ pc[t] \notin {"act", "updated"} \cup Inserts \cup Splits
              => Held(t) = {}
  <1>1. CASE pc[t] \in {"act", "updated"} \cup Inserts
    BY <1>1 DEF Held, Inserts, Splits
  <1>2. CASE pc[t] \in Splits \ {"replace", "swapped"}
    BY <1>2 DEF Held, Inserts, Splits
  <1>3. CASE pc[t] = "replace"
    BY <1>3 DEF Held, Inserts, Splits
  <1>4. CASE pc[t] = "swapped"
    BY <1>4 DEF Held, Inserts, Splits
  <1>5. CASE pc[t] \notin {"act", "updated"} \cup Inserts \cup Splits
    <2>1. /\ pc[t] \notin {"act", "updated", "interior", "insert", "inserted"}
          /\ pc[t] \notin {"next", "prev", "lockprev", "parent", "lockparent",
                           "newroot"}
          /\ pc[t] # "replace" /\ pc[t] # "swapped"
      BY <1>5 DEF Inserts, Splits
    <2>2. Held(t) = {}
      BY <2>1 DEF Held
    <2> QED
      BY <1>5, <2>2 DEF Splits
  <1> QED
    BY <1>1, <1>2, <1>3, <1>4, <1>5

\* Only nodes that exist are locked, and t has locked those it works on.
LEMMA HeldNodes ==
  ASSUME IInv, NEW t \in Thread
  PROVE  /\ Held(t) \subseteq 1 .. used
         /\ pc[t] \in {"act", "updated"} \cup Inserts \cup Splits
              => at[t].node \in Held(t)
         /\ pc[t] \in Splits => at[t].left \in Held(t) /\ at[t].right \in Held(t)
         /\ pc[t] = "replace" /\ at[t].near # NoNode => at[t].near \in Held(t)
         /\ pc[t] = "swapped" => parent[at[t].left] \in Held(t)
  <1>1. /\ \A n \in {at[t].node, at[t].left, at[t].right, at[t].near} :
             n \in 0 .. used
        /\ pc[t] \in {"act", "updated"} \cup Inserts \cup Splits
             => at[t].node # NoNode
        /\ pc[t] \in Splits => at[t].left # NoNode /\ at[t].right # NoNode
        /\ used \in Node
    <2>1. LocalsAt(t) /\ used \in Node
      BY DEF IInv, NodesInv
    <2>2. \A n \in {at[t].node, at[t].left, at[t].right, at[t].near} :
            n \in 0 .. used
      BY <2>1 DEF LocalsAt
    <2>3. /\ pc[t] \in {"act", "updated"} \cup Inserts \cup Splits
               => at[t].node # NoNode
          /\ pc[t] \in Splits => at[t].left # NoNode /\ at[t].right # NoNode
      BY <2>1 DEF LocalsAt, Inserts, Splits
    <2> QED
      BY <2>1, <2>2, <2>3
  <1>2. pc[t] = "swapped" =>
          /\ parent[at[t].left] \in 0 .. used
          /\ parent[at[t].left] # NoNode
    <2>1. SUFFICES ASSUME pc[t] = "swapped"
          PROVE  parent[at[t].left] \in 0 .. used /\ parent[at[t].left] # NoNode
      OBVIOUS
    <2>2. at[t].left \in Node
      BY <1>1, <2>1, Constants DEF Splits
    <2> QED
      BY <2>1, <2>2 DEF IInv, NodesInv, BitsAt
  <1>3. \A n \in 0 .. used : n # NoNode => n \in 1 .. used
    BY <1>1, Constants
  <1>4. Held(t) \subseteq 1 .. used
    BY <1>1, <1>2, <1>3, HeldCases DEF Splits
  <1> QED
    BY <1>1, <1>2, <1>4, HeldCases DEF Splits

\* What IInv says of the other threads is kept by such a step, ...
LEMMA OthersKeep ==
  ASSUME IInv, NEW t \in Thread, LocalTo(t), NEW u \in Thread \ {t},
         Held(t)' \cap Held(u) = {}
  PROVE  /\ Held(u)' = Held(u)
         /\ LocalsAt(u)' /\ BitsAt(u)' /\ HalfAt(u)'
  <1>1. /\ at'[u] = at[u] /\ pc'[u] = pc[u] /\ used <= used' /\ used' \in Nat
        /\ used \in Nat
        /\ S!Pending(u) => S!Pending(u)' /\ op(u)' = op(u)
        /\ pc[u] = "swapped" => parent'[at[u].left] = parent[at[u].left]
        /\ \A n \in 1 .. used : type'[n] = type[n]
    BY Constants DEF LocalTo, IInv, NodesInv
  <1>2. Held(u)' = Held(u)
    BY <1>1 DEF Held
  <1>3. \A n \in Held(u) : ver'[n] = ver[n]
    <2>1. Held(u) \subseteq 1 .. used /\ Held(t) \cap Held(u) = {}
      BY HeldNodes DEF IInv, LocksOwned
    <2> QED
      BY <2>1 DEF LocalTo
  <1>4. LocalsAt(u) /\ BitsAt(u) /\ HalfAt(u)
    BY DEF IInv
  <1>5. LocalsAt(u)'
    <2>1. at[u].node \in 0 .. used
      BY <1>4 DEF LocalsAt
    <2>2. at[u].node # NoNode => type'[at[u].node] = type[at[u].node]
      BY <1>1, <2>1, Constants
    <2>3. pc[u] \in Descending \cup AtLeaf \cup {"insert"}
            => at[u].node # NoNode
      BY <1>4 DEF LocalsAt, Descending, AtLeaf
    <2> QED
      BY <1>1, <1>4, <2>2, <2>3 DEF LocalsAt
  <1>6. BitsAt(u)'
    BY <1>1, <1>3, <1>4, HeldNodes DEF BitsAt, Inserts
  <1>7. HalfAt(u)'
    BY <1>1, <1>4 DEF HalfAt, LocalTo
  <1> QED
    BY <1>2, <1>5, <1>6, <1>7

\* ... and so are the locks.
LEMMA OwnedNext ==
  ASSUME IInv, NEW t \in Thread, LocalTo(t), OwnedTo(t)
  PROVE  LocksOwned'
  <1>1. /\ \A u \in Thread \ {t} : Held(u)' = Held(u)
        /\ \A u \in Thread \ {t} : Held(t) \cap Held(u) = {}
        /\ \A u \in Thread \ {t} : Held(t)' \cap Held(u) = {}
    BY OthersKeep DEF OwnedTo, IInv, LocksOwned
  <1>2. \A u, v \in Thread : u # v => Held(u)' \cap Held(v)' = {}
    <2>1. SUFFICES ASSUME NEW u \in Thread, NEW v \in Thread, u # v
          PROVE  Held(u)' \cap Held(v)' = {}
      OBVIOUS
    <2>2. CASE u = t
      BY <1>1, <2>1, <2>2
    <2>3. CASE v = t
      BY <1>1, <2>1, <2>3
    <2>4. CASE u # t /\ v # t
      BY <1>1, <2>1, <2>4 DEF IInv, LocksOwned
    <2> QED
      BY <2>2, <2>3, <2>4
  <1>3. ASSUME NEW n \in 1 .. used'
        PROVE  /\ Has(ver'[n], LOCK) <=> \E u \in Thread : n \in Held(u)'
               /\ ~Has(ver'[n], LOCK) => Stable(ver'[n])
    <2>1. CASE n \in Held(t)'
      BY <2>1 DEF OwnedTo
    <2>2. CASE n \in Held(t) /\ n \notin Held(t)'
      <3>1. ~Has(ver'[n], LOCK) /\ Stable(ver'[n])
        BY <2>2 DEF OwnedTo
      <3>2. \A u \in Thread : n \notin Held(u)'
        BY <1>1, <2>2
      <3> QED
        BY <3>1, <3>2
    <2>3. CASE n \notin Held(t) /\ n \notin Held(t)'
      <3>1. n \in 1 .. used /\ ver'[n] = ver[n]
        BY <2>3 DEF OwnedTo, LocalTo
      <3>2. \A u \in Thread : n \in Held(u)' <=> n \in Held(u)
        BY <1>1, <2>3
      <3> QED
        BY <3>1, <3>2 DEF IInv, LocksOwned
    <2> QED
      BY <2>1, <2>2, <2>3
  <1> QED
    BY <1>2, <1>3 DEF LocksOwned

\* So a step of t keeps IInv if it keeps what IInv says of t and of the nodes.
LEMMA StepKeeps ==
  ASSUME IInv, NEW t \in Thread, NodesInv', DomainsInv', ThreadNext(t)
  PROVE  IInv'
  <1>1. \A u \in Thread : LocalsAt(u)' /\ BitsAt(u)' /\ HalfAt(u)'
    <2>1. \A u \in Thread \ {t} : LocalsAt(u)' /\ BitsAt(u)' /\ HalfAt(u)'
      BY OthersKeep DEF ThreadNext, OwnedTo
    <2> QED
      BY <2>1 DEF ThreadNext
  <1>2. HalvesApart'
    <2>1. \A u \in Thread \ {t} : Halves(u)' = Halves(u)
      BY DEF ThreadNext, LocalTo, Halves
    <2>2. \A u \in Thread \ {t} : Halves(t)' \cap Halves(u)' = {}
      BY <2>1 DEF ThreadNext
    <2>3. \A u, v \in Thread \ {t} : u # v => Halves(u)' \cap Halves(v)' = {}
      BY <2>1 DEF IInv, HalvesApart
    <2> QED
      BY <2>2, <2>3 DEF HalvesApart
  <1> QED
    BY <1>1, <1>2, OwnedNext DEF IInv, ThreadNext

-----------------------------------------------------------------------------
(* The operations threads have asked for. *)

\* What a step does to the content of the map does not change what is asked.
LEMMA CallsKept ==
  ASSUME DomainsInv, NEW t \in Thread, Quiet(t) \/ Observe(t) \/ Promise(t)
  PROVE  /\ DOMAIN call' = Thread /\ UNCHANGED <<done, alarm>>
         /\ \A u \in Thread : S!Pending(u) => S!Pending(u)' /\ op(u)' = op(u)
  <1>1. CASE Quiet(t)
    BY <1>1 DEF Quiet, DomainsInv, S!Pending, op
  <1>2. CASE Observe(t)
    <2>1. /\ call' = [u \in Thread |-> S!Seen(t, map')[u]]
          /\ UNCHANGED <<done, alarm>>
      BY <1>2 DEF Observe, S!Seen
    <2>2. ASSUME NEW u \in Thread, S!Pending(u)
          PROVE  S!Pending(u)' /\ op(u)' = op(u)
      <3>1. call'[u] = [call[u] EXCEPT
                !.seen = @ \cup {map'[call[u].op.key]},
                !.took = IF u = t /\ map'[call[u].op.key] # map[call[u].op.key]
                         THEN S!Answer(call[u].op, map[call[u].op.key]) ELSE @]
        BY <2>1, <2>2 DEF S!Seen
      <3>2. DOMAIN call'[u] = DOMAIN call[u] /\ call'[u].op = call[u].op
        BY <2>2, <3>1 DEF S!Pending
      <3> QED
        BY <2>2, <3>2 DEF S!Pending, op
    <2> QED
      BY <2>1, <2>2
  <1>3. CASE Promise(t)
    <2>1. /\ call' = [call EXCEPT ![t] = [call[t] EXCEPT !.took = "new"]]
          /\ UNCHANGED <<done, alarm>>
      BY <1>3 DEF Promise
    <2>2. /\ DOMAIN call' = Thread
          /\ call'[t] = [call[t] EXCEPT !.took = "new"]
          /\ \A u \in Thread \ {t} : call'[u] = call[u]
      BY <2>1 DEF DomainsInv
    <2>3. S!Pending(t) => /\ DOMAIN call'[t] = DOMAIN call[t]
                          /\ call'[t].op = call[t].op
      BY <2>2 DEF S!Pending
    <2> QED
      BY <2>1, <2>2, <2>3 DEF S!Pending, op
  <1> QED
    BY <1>1, <1>2, <1>3

\* Returning ends the operation of t.
LEMMA Returned ==
  ASSUME DomainsInv, NEW t \in Thread, NEW a, Return(t, a)
  PROVE  /\ DomainsInv' /\ UNCHANGED <<done, alarm>>
         /\ pc'[t] = "idle" /\ at'[t] = NoLocals
         /\ \A u \in Thread \ {t} :
              /\ at'[u] = at[u] /\ pc'[u] = pc[u]
              /\ S!Pending(u) => S!Pending(u)' /\ op(u)' = op(u)
  BY DEF Return, DomainsInv, S!Pending, op

\* What holds of a thread without locals.
LEMMA IdleAt ==
  ASSUME IInv, NEW t \in Thread, pc'[t] = "idle", at'[t] = NoLocals,
         used' \in Nat
  PROVE  /\ LocalsAt(t)' /\ BitsAt(t)' /\ HalfAt(t)'
         /\ Held(t)' = {} /\ Halves(t)' = {}
  <1>1. NoLocals \in Locals
    BY Constants DEF NoLocals, Locals
  <1>2. LocalsAt(t)'
    BY <1>1, Constants
    DEF LocalsAt, NoLocals, Labels, Descending, AtLeaf, Splits, Inserts
  <1>3. BitsAt(t)' /\ HalfAt(t)'
    BY DEF BitsAt, HalfAt, Splits
  <1>4. Held(t)' = {}
    BY DEF Held
  <1>5. Halves(t)' = {}
    BY DEF Halves, NoLocals
  <1> QED
    BY <1>2, <1>3, <1>4, <1>5

\* What IInv says, where the steps below need it.
LEMMA Facts ==
  ASSUME IInv, NEW t \in Thread
  PROVE  /\ NodesInv /\ DomainsInv /\ LocalsAt(t) /\ BitsAt(t) /\ HalfAt(t)
         /\ used \in Nat /\ used <= MaxNodes /\ root \in 1 .. used
         /\ at[t] \in Locals
         /\ \A m \in 1 .. used : m \in Node /\ m # NoNode /\ ver[m] \in Nat
         /\ \A m \in 0 .. used : m \in 0 .. MaxNodes
                                 /\ (m # NoNode => m \in 1 .. used)
         /\ pc[t] \notin {"idle", "root"} => at[t].node \in 1 .. used
         /\ pc[t] \in Splits \cup {"interior"}
              => at[t].left \in 1 .. used /\ at[t].right \in 1 .. used
  <1>1. NodesInv /\ DomainsInv /\ LocalsAt(t) /\ BitsAt(t) /\ HalfAt(t)
    BY DEF IInv
  <1>2. /\ used \in Nat /\ used <= MaxNodes /\ root \in 1 .. used
        /\ ver \in [Node -> Nat]
    <2>1. used \in Node /\ root \in 1 .. used /\ ver \in [Node -> Nat]
      BY <1>1 DEF NodesInv
    <2> QED
      BY <2>1, Constants
  <1>3. /\ \A m \in 1 .. used : m \in Node /\ m # NoNode /\ ver[m] \in Nat
        /\ \A m \in 0 .. used : m \in 0 .. MaxNodes
                                /\ (m # NoNode => m \in 1 .. used)
    <2>1. Node = 1 .. MaxNodes /\ MaxNodes \in Nat /\ NoNode = 0
      BY Constants
    <2> QED
      BY <1>2, <2>1
  <1>4. /\ at[t] \in Locals
        /\ at[t].node \in 0 .. used /\ at[t].left \in 0 .. used
        /\ at[t].right \in 0 .. used
        /\ pc[t] \notin {"idle", "root"} => at[t].node # NoNode
        /\ pc[t] \in Splits \cup {"interior"}
             => at[t].left # NoNode /\ at[t].right # NoNode
    BY <1>1 DEF LocalsAt
  <1> QED
    BY <1>1, <1>2, <1>3, <1>4

-----------------------------------------------------------------------------
(* Steps that change nothing LocksOwned depends on. *)

\* A step of t that is the same for nodes and locks keeps IInv with t's own part.
LEMMA PlainStep ==
  ASSUME IInv, NEW t \in Thread,
         UNCHANGED <<root, used, ver, type, data, parent>>,
         prev' \in [Node -> 0 .. used], next' \in [Node -> 0 .. used],
         cell' \in [Key -> Val \cup {NoVal}],
         done' \in [Thread -> Nat], alarm' \in BOOLEAN,
         DomainsInv',
         \A u \in Thread \ {t} :
           /\ at'[u] = at[u] /\ pc'[u] = pc[u]
           /\ S!Pending(u) => S!Pending(u)' /\ op(u)' = op(u),
         Held(t)' = Held(t), Halves(t)' \subseteq Halves(t),
         LocalsAt(t)', BitsAt(t)', HalfAt(t)'
  PROVE  IInv'
  <1>1. NodesInv'
    BY DEF IInv, NodesInv
  <1>2. used \in Nat
    BY Constants DEF IInv, NodesInv
  <1>3. LocalTo(t)
    BY <1>2 DEF LocalTo
  <1>4. OwnedTo(t)
    <2>1. \A n \in Held(t) : Has(ver[n], LOCK)
      BY HeldNodes DEF IInv, LocksOwned
    <2> QED
      BY <2>1 DEF OwnedTo, IInv, LocksOwned
  <1>5. \A u \in Thread \ {t} : Halves(t)' \cap Halves(u) = {}
    BY DEF IInv, HalvesApart
  <1> QED
    BY <1>1, <1>3, <1>4, <1>5, StepKeeps DEF ThreadNext

\* The locals of a descent: a node and its version.
FreshAt(l, m) ==
  /\ l \in Locals /\ l.node = m /\ l.child = NoNode
  /\ l.left = NoNode /\ l.right = NoNode /\ l.near = NoNode

\* A descent has no halves and no neighbour in its locals, at its start ...
LEMMA FreshStart ==
  /\ FreshAt(NoLocals, NoNode)
  /\ \A m \in 0 .. MaxNodes : FreshAt([NoLocals EXCEPT !.node = m], m)
  <1>1. NoLocals \in Locals
    BY Constants DEF NoLocals, Locals
  <1>2. FreshAt(NoLocals, NoNode)
    BY <1>1 DEF FreshAt, NoLocals
  <1>3. ASSUME NEW m \in 0 .. MaxNodes
        PROVE  FreshAt([NoLocals EXCEPT !.node = m], m)
    <2>1. [NoLocals EXCEPT !.node = m] =
            [node |-> m, v |-> 0, child |-> NoNode, vc |-> 0, left |-> NoNode,
             right |-> NoNode, near |-> NoNode, old |-> NoVal]
      BY DEF NoLocals
    <2> QED
      BY <2>1, Constants DEF FreshAt, Locals
  <1> QED
    BY <1>2, <1>3

\* ... and when it has gone down a node.
LEMMA FreshStep ==
  ASSUME NEW m \in 0 .. MaxNodes, NEW w \in Nat
  PROVE  FreshAt([NoLocals EXCEPT !.node = m, !.v = w], m)
  <1> DEFINE l == [NoLocals EXCEPT !.node = m]
  <1>1. FreshAt(l, m)
    BY FreshStart
  <1>2. [NoLocals EXCEPT !.node = m, !.v = w] = [l EXCEPT !.v = w]
    OBVIOUS
  <1> HIDE DEF l
  <1>3. FreshAt([l EXCEPT !.v = w], m)
    BY <1>1 DEF FreshAt, Locals
  <1> QED
    BY <1>2, <1>3

\* reach_leaf, and starting it again from locate_locked.
LEMMA DescentKeeps ==
  ASSUME IInv, LocateFinds, NEW t \in Thread, Down(t) \/ LocateAgain(t)
  PROVE  IInv'
  <1> DEFINE n == at[t].node
  <1>1. /\ LocalsAt(t) /\ NodesInv /\ DomainsInv
        /\ used \in Nat /\ used <= MaxNodes /\ root \in 1 .. used
    BY Facts
  <1>2. /\ at[t] \in Locals
        /\ n \in 0 .. used /\ at[t].child \in 0 .. used
        /\ pc[t] \notin {"idle", "root"} => n \in 1 .. used
        /\ pc[t] \in {"child", "check"} => at[t].child \in 1 .. used
        /\ pc[t] # "idle" => S!Pending(t) /\ op(t).key \in Key
                                          /\ op(t).val \in Val
    BY <1>1, Constants DEF LocalsAt
  <1>3. \A m \in 1 .. used : ver[m] \in Nat /\ m \in Node /\ m # NoNode
    BY Facts
  <1>4. /\ Local(t) /\ DomainsInv'
        /\ pc[t] \in {"root", "stable", "leaf"} \cup Descending
    BY <1>1 DEF Down, LocateAgain, LoadRoot, RootVersion, Descend, ChildVersion,
                CheckSame, CheckChanged, Recheck, Resume, Goto, Local, Quiet,
                DomainsInv, Descending
  <1>5. \A u \in Thread \ {t} : at'[u] = at[u] /\ pc'[u] = pc[u]
    BY <1>1 DEF Down, LocateAgain, LoadRoot, RootVersion, Descend, ChildVersion,
                CheckSame, CheckChanged, Recheck, Resume, Goto, DomainsInv
  <1>6. \A u \in Thread : S!Pending(u) => S!Pending(u)' /\ op(u)' = op(u)
    BY <1>1, <1>4, CallsKept DEF Local
  <1>7. /\ UNCHANGED <<root, used, ver, type, data, parent, prev, next, cell>>
        /\ UNCHANGED <<done, alarm>>
    BY <1>4 DEF Local, tree, Quiet
  <1>8. /\ pc'[t] \in {"root", "stable", "leaf"} \cup Descending
        /\ at'[t] \in Locals
        /\ \/ at'[t].left = NoNode /\ at'[t].right = NoNode
           \/ at'[t].left = at[t].left /\ at'[t].right = at[t].right
        /\ at'[t].near \in {NoNode, at[t].near}
        /\ at'[t].node \in 0 .. used /\ at'[t].child \in 0 .. used
        /\ pc'[t] # "root" => at'[t].node # NoNode
        /\ pc'[t] \in {"child", "check"} => at'[t].child # NoNode
        /\ pc'[t] \in Descending => type[at'[t].node] # "LEAF"
        /\ pc'[t] = "leaf" => type[at'[t].node] = "LEAF"
    <2> USE DEF Goto, DomainsInv, Locals, NoLocals, Descending
    <2> USE <1>1, <1>2, <1>3, Constants
    <2>1. CASE LoadRoot(t)
      <3>1. /\ pc'[t] = "stable" /\ at'[t] = [NoLocals EXCEPT !.node = root]
            /\ root \in 0 .. used /\ root \in 0 .. MaxNodes /\ root # NoNode
        BY <2>1 DEF LoadRoot
      <3>2. FreshAt(at'[t], root)
        BY <3>1, FreshStart
      <3> QED
        BY <3>1, <3>2 DEF FreshAt
    <2>2. CASE RootVersion(t)
      BY <2>2 DEF RootVersion, Enter
    <2>3. CASE Descend(t)
      <3>1. PICK c : c = Child(n, op(t).key)
        OBVIOUS
      <3>2. c \in 1 .. used
        <4>1. /\ pc[t] = "down" /\ type[n] # "LEAF"
              /\ First(n) <= op(t).key
          BY <2>3 DEF Descend, LocalsAt, LocateFinds
        <4>2. /\ data[n] \in Seq(Entries) /\ data[n] # << >>
              /\ Links(data[n]) \subseteq 0 .. used
              /\ NoNode \notin Links(data[n])
          BY <4>1 DEF NodesInv
        <4>3. Locate(data[n], op(t).key) \in DOMAIN data[n]
          BY <4>1, <4>2, LocateRange DEF First
        <4>4. c \in Links(data[n])
          BY <3>1, <4>3 DEF Child, Links
        <4> QED
          BY <4>2, <4>4
      <3>3. /\ at' = [at EXCEPT ![t].child = c] /\ pc[t] = "down"
            /\ pc'[t] = "child"
        BY <2>3, <3>1 DEF Descend
      <3>4. c \in 0 .. MaxNodes /\ c \in 0 .. used /\ c # NoNode
        BY <3>2
      <3> QED
        BY <3>3, <3>4 DEF LocalsAt
    <2>4. CASE ChildVersion(t)
      BY <2>4 DEF ChildVersion, LocalsAt
    <2>5. CASE CheckSame(t)
      <3>1. /\ pc'[t] = Enter(at[t].child) /\ at[t].vc \in Nat
            /\ at'[t] = [NoLocals EXCEPT !.node = at[t].child, !.v = at[t].vc]
            /\ at[t].child \in 0 .. MaxNodes /\ at[t].child # NoNode
        BY <2>5 DEF CheckSame
      <3>2. FreshAt(at'[t], at[t].child)
        <4>1. FreshAt([NoLocals EXCEPT !.node = at[t].child, !.v = at[t].vc],
                      at[t].child)
          <5> HIDE DEF Locals, NoLocals
          <5> QED
            BY ONLY <3>1, FreshStep
        <4> HIDE DEF Locals, NoLocals
        <4> QED
          BY ONLY <3>1, <4>1
      <3>3. /\ at'[t].node # NoNode /\ at'[t].left = NoNode
            /\ at'[t].right = NoNode /\ at'[t].near = NoNode
            /\ at'[t].child = NoNode /\ at'[t].node = at[t].child
            /\ at'[t] \in Locals
        BY <3>1, <3>2 DEF FreshAt
      <3>4. \/ pc'[t] = "leaf" /\ type[at[t].child] = "LEAF"
            \/ pc'[t] = "down" /\ type[at[t].child] # "LEAF"
        BY <3>1 DEF Enter
      <3> HIDE DEF Locals, NoLocals
      <3> QED
        BY <3>3, <3>4
    <2>6. CASE CheckChanged(t) \/ Recheck(t)
      <3>1. /\ n \in 0 .. MaxNodes /\ n # NoNode /\ ver[n] \in Nat
            /\ type[n] # "LEAF"
        BY <2>6 DEF CheckChanged, Recheck, LocalsAt
      <3>2. CASE Resume(t, ver[n])
        <4>1. \/ pc'[t] = "root" /\ at'[t] = NoLocals
              \/ /\ pc'[t] = "down" /\ type[n] # "LEAF"
                 /\ at'[t] = [NoLocals EXCEPT !.node = n, !.v = ver[n]]
          BY <2>6, <3>2 DEF CheckChanged, Recheck, Resume, LocalsAt
        <4>2. /\ FreshAt(NoLocals, NoNode)
              /\ FreshAt([NoLocals EXCEPT !.node = n, !.v = ver[n]], n)
          <5> HIDE DEF Locals, NoLocals, n
          <5> QED
            BY ONLY <3>1, FreshStart, FreshStep
        <4>3. \/ pc'[t] = "root" /\ FreshAt(at'[t], NoNode)
              \/ pc'[t] = "down" /\ type[n] # "LEAF" /\ FreshAt(at'[t], n)
          <5> HIDE DEF Locals, NoLocals, n
          <5> QED
            BY ONLY <4>1, <4>2
        <4>4. CASE pc'[t] = "root" /\ FreshAt(at'[t], NoNode)
          BY <4>4 DEF FreshAt
        <4>5. CASE pc'[t] = "down" /\ type[n] # "LEAF" /\ FreshAt(at'[t], n)
          BY <3>1, <4>5 DEF FreshAt
        <4> QED
          BY <4>3, <4>4, <4>5
      <3>3. CASE at'[t] = at[t] /\ pc'[t] = "recheck" /\ type[n] # "LEAF"
        BY <3>1, <3>3
      <3> QED
        BY <2>6, <3>2, <3>3 DEF CheckChanged, Recheck, LocalsAt
    <2>7. CASE LocateAgain(t)
      <3>1. pc'[t] = "root" /\ at'[t] = NoLocals
        BY <2>7 DEF LocateAgain
      <3>2. FreshAt(at'[t], NoNode)
        BY <3>1, FreshStart
      <3> QED
        BY <3>1, <3>2 DEF FreshAt
    <2> QED
      BY <2>1, <2>2, <2>3, <2>4, <2>5, <2>6, <2>7 DEF Down
  <1>9. Held(t)' = {} /\ Held(t) = {}
    BY <1>4, <1>8, HeldCases DEF Held, Descending, Splits, Inserts
  <1>10. LocalsAt(t)'
    <2>1. /\ NoNode \in 0 .. used /\ at[t].near \in 0 .. used
          /\ at[t].left \in 0 .. used /\ at[t].right \in 0 .. used
      BY <1>1, Constants DEF LocalsAt
    <2>2. \A m \in {at'[t].node, at'[t].child, at'[t].left, at'[t].right,
                    at'[t].near} : m \in 0 .. used
      BY <1>8, <2>1
    <2>3. S!Pending(t)' /\ op(t)'.key \in Key /\ op(t)'.val \in Val
      BY <1>2, <1>4, <1>6 DEF Descending
    <2> QED
      BY <1>7, <1>8, <2>2, <2>3
      DEF LocalsAt, Labels, Descending, AtLeaf, Splits, Inserts
  <1>11. BitsAt(t)' /\ HalfAt(t)'
    BY <1>8 DEF BitsAt, HalfAt, Splits, Descending
  <1>12. Halves(t)' \subseteq Halves(t)
    BY <1>8 DEF Halves
  <1> QED
    BY <1>1, <1>4, <1>5, <1>6, <1>7, <1>9, <1>10, <1>11, <1>12, PlainStep
    DEF NodesInv

-----------------------------------------------------------------------------
(* Steps of a thread at nodes it has locked. *)

\* Finding out and linking the neighbours, and finding out the parent.
LEMMA LinkKeeps ==
  ASSUME IInv, NEW t \in Thread,
         LinkNext(t) \/ LoadPrev(t) \/ LinkPrev(t) \/ PrevAgain(t)
           \/ LoadParent(t) \/ ParentAgain(t)
  PROVE  IInv'
  <1> DEFINE walk == {"next", "prev", "lockprev", "parent", "lockparent"}
  <1>1. /\ pc[t] \in walk /\ pc'[t] \in walk
        /\ \A u \in Thread \ {t} : at'[u] = at[u] /\ pc'[u] = pc[u]
        /\ DOMAIN at' = Thread /\ DOMAIN pc' = Thread
    BY Facts DEF LinkNext, LoadPrev, LinkPrev, PrevAgain, LoadParent,
                 ParentAgain, Goto, DomainsInv
  <1>2. /\ UNCHANGED <<root, used, ver, type, data, parent, cell>> /\ Quiet(t)
    BY DEF LinkNext, LoadPrev, LinkPrev, PrevAgain, LoadParent, ParentAgain,
           Local, tree
  <1>3. \A u \in Thread : S!Pending(u) => S!Pending(u)' /\ op(u)' = op(u)
    BY <1>2, Facts, CallsKept
  <1>4. DOMAIN call' = Thread /\ UNCHANGED <<done, alarm>>
    BY <1>2, Facts, CallsKept
  <1>5. /\ at'[t] \in Locals
        /\ at'[t].node = at[t].node /\ at'[t].left = at[t].left
        /\ at'[t].right = at[t].right /\ at'[t].child = at[t].child
        /\ at'[t].near \in 0 .. used
        /\ pc'[t] = "lockparent" => at'[t].near # NoNode
    <2>1. /\ at[t] \in Locals /\ at[t].near \in 0 .. used
          /\ parent[at[t].node] \in 0 .. used /\ prev[at[t].node] \in 0 .. used
      BY <1>1, Facts DEF LocalsAt, NodesInv
    <2>2. \A m \in 0 .. used : m \in 0 .. MaxNodes
      BY Facts
    <2>3. CASE LoadPrev(t)
      <3>1. /\ at' = [at EXCEPT ![t].near = prev[at[t].node]]
            /\ pc'[t] = "lockprev"
        BY <2>3, Facts DEF LoadPrev, Goto, DomainsInv
      <3> QED
        BY <2>1, <2>2, <3>1, Facts DEF Locals, DomainsInv
    <2>4. CASE LoadParent(t)
      <3>1. /\ at' = [at EXCEPT ![t].near = parent[at[t].node]]
            /\ parent[at[t].node] # NoNode
        BY <2>4 DEF LoadParent
      <3> QED
        BY <2>1, <2>2, <3>1, Facts DEF Locals, DomainsInv
    <2>5. CASE LinkNext(t) \/ LinkPrev(t) \/ PrevAgain(t) \/ ParentAgain(t)
      <3>1. at' = at /\ pc'[t] # "lockparent"
        BY <2>5, Facts DEF LinkNext, LinkPrev, PrevAgain, ParentAgain, Goto,
                           DomainsInv
      <3> QED
        BY <2>1, <3>1
    <2> QED
      BY <2>3, <2>4, <2>5
  <1>6. prev' \in [Node -> 0 .. used] /\ next' \in [Node -> 0 .. used]
    <2>1. /\ prev \in [Node -> 0 .. used] /\ next \in [Node -> 0 .. used]
          /\ at[t].right \in 0 .. used /\ at[t].left \in 0 .. used
          /\ at[t].near \in 0 .. used
      BY Facts DEF LocalsAt, NodesInv
    <2>2. CASE LinkNext(t)
      BY <2>1, <2>2 DEF LinkNext
    <2>3. CASE LinkPrev(t)
      BY <2>1, <2>3 DEF LinkPrev
    <2>4. CASE LoadPrev(t) \/ PrevAgain(t) \/ LoadParent(t) \/ ParentAgain(t)
      BY <2>1, <2>4 DEF LoadPrev, PrevAgain, LoadParent, ParentAgain, Local,
                        tree
    <2> QED
      BY <2>2, <2>3, <2>4
  <1>7. Held(t)' = Held(t) /\ Halves(t)' = Halves(t)
    BY <1>1, <1>5 DEF Held, Halves
  <1>8. LocalsAt(t)'
    BY <1>1, <1>2, <1>3, <1>5, Facts
    DEF LocalsAt, Labels, Descending, AtLeaf, Inserts, Splits
  <1>9. BitsAt(t)' /\ HalfAt(t)'
    BY <1>1, <1>2, <1>5, Facts DEF BitsAt, HalfAt, Splits
  <1> QED
    BY <1>1, <1>2, <1>3, <1>4, <1>6, <1>7, <1>8, <1>9, Facts, PlainStep
    DEF DomainsInv, NodesInv

-----------------------------------------------------------------------------
(* Steps that lock and unlock. *)

\* A step that changes no more of the nodes than the versions of those that t
\* has locked before or after it.
LEMMA VersionStep ==
  ASSUME IInv, NEW t \in Thread,
         UNCHANGED <<root, used, type, data, parent, prev, next>>,
         ver' \in [Node -> Nat], cell' \in [Key -> Val \cup {NoVal}],
         UNCHANGED <<done, alarm>>, DomainsInv',
         \A u \in Thread \ {t} :
           /\ at'[u] = at[u] /\ pc'[u] = pc[u]
           /\ S!Pending(u) => S!Pending(u)' /\ op(u)' = op(u),
         \A n \in 1 .. used : n \notin Held(t) \cup Held(t)' => ver'[n] = ver[n],
         OwnedTo(t), Halves(t)' \subseteq Halves(t),
         LocalsAt(t)', BitsAt(t)', HalfAt(t)'
  PROVE  IInv'
  <1>1. NodesInv'
    BY DEF IInv, NodesInv
  <1>2. used \in Nat
    BY Facts
  <1>3. LocalTo(t)
    BY <1>2 DEF LocalTo
  <1>4. \A u \in Thread \ {t} : Halves(t)' \cap Halves(u) = {}
    BY DEF IInv, HalvesApart
  <1> QED
    BY <1>1, <1>3, <1>4, StepKeeps DEF ThreadNext

\* The bits of a version that is locked or unlocked.
LEMMA LockBits ==
  ASSUME NEW v \in Nat
  PROVE  /\ /\ Raise(v, LOCK) \in Nat /\ Has(Raise(v, LOCK), LOCK)
            /\ Has(Raise(v, LOCK), INSERT) <=> Has(v, INSERT)
            /\ Has(Raise(v, LOCK), SPLIT) <=> Has(v, SPLIT)
         /\ /\ Unlocked(v) \in Nat /\ (Has(Unlocked(v), LOCK) <=> ~Has(v, LOCK))
            /\ Has(Unlocked(v), INSERT) <=> Has(v, INSERT)
            /\ Has(Unlocked(v), SPLIT) <=> Has(v, SPLIT)
  <1>1. /\ LOCK \in Bits /\ INSERT \in Bits /\ SPLIT \in Bits
        /\ INSERT # LOCK /\ SPLIT # LOCK
    BY DEF Bits, LOCK, INSERT, SPLIT
  <1> QED
    BY <1>1, RaiseBits, ToggleBits DEF Unlocked

\* ... and of one whose insertion or split begins or is over.
LEMMA WriteBits ==
  ASSUME NEW v \in Nat
  PROVE  /\ /\ Raise(v, INSERT) \in Nat /\ Has(Raise(v, INSERT), INSERT)
            /\ Has(Raise(v, INSERT), LOCK) <=> Has(v, LOCK)
            /\ Has(Raise(v, INSERT), SPLIT) <=> Has(v, SPLIT)
         /\ /\ Raise(v, SPLIT) \in Nat /\ Has(Raise(v, SPLIT), SPLIT)
            /\ Has(Raise(v, SPLIT), LOCK) <=> Has(v, LOCK)
            /\ Has(Raise(v, SPLIT), INSERT) <=> Has(v, INSERT)
         /\ /\ DoneInsert(v) \in Nat
            /\ Has(DoneInsert(v), INSERT) <=> ~Has(v, INSERT)
            /\ Has(DoneInsert(v), LOCK) <=> Has(v, LOCK)
            /\ Has(DoneInsert(v), SPLIT) <=> Has(v, SPLIT)
         /\ \A w \in {DoneCreate(v), DoneSplitAndDelete(v)} :
              /\ w \in Nat /\ (Has(w, SPLIT) <=> ~Has(v, SPLIT))
              /\ Has(w, LOCK) <=> Has(v, LOCK)
              /\ Has(w, INSERT) <=> Has(v, INSERT)
  <1>1. /\ LOCK \in Bits /\ INSERT \in Bits /\ SPLIT \in Bits /\ DELETED \in Bits
        /\ INSERT # LOCK /\ SPLIT # LOCK /\ SPLIT # INSERT
        /\ DELETED # LOCK /\ DELETED # INSERT /\ DELETED # SPLIT
    BY DEF Bits, LOCK, INSERT, SPLIT, DELETED
  <1>2. /\ Raise(v, INSERT) \in Nat /\ Has(Raise(v, INSERT), INSERT)
        /\ Has(Raise(v, INSERT), LOCK) <=> Has(v, LOCK)
        /\ Has(Raise(v, INSERT), SPLIT) <=> Has(v, SPLIT)
    BY <1>1, RaiseBits
  <1>3. /\ Raise(v, SPLIT) \in Nat /\ Has(Raise(v, SPLIT), SPLIT)
        /\ Has(Raise(v, SPLIT), LOCK) <=> Has(v, LOCK)
        /\ Has(Raise(v, SPLIT), INSERT) <=> Has(v, INSERT)
    BY <1>1, RaiseBits
  <1> DEFINE w == v + INSERTCNT
  <1>4. /\ w \in Nat
        /\ \A c \in Bits : Has(w, c) <=> Has(v, c)
    BY CountBits
  <1>5. DoneInsert(v) = Toggle(w, INSERT) /\ DoneCreate(v) = Toggle(w, SPLIT)
        /\ DoneSplitAndDelete(v) = Toggle(Raise(w, DELETED), SPLIT)
    BY DEF DoneInsert, DoneCreate, DoneSplitAndDelete
  <1> HIDE DEF w
  <1>6. /\ DoneInsert(v) \in Nat
        /\ Has(DoneInsert(v), INSERT) <=> ~Has(v, INSERT)
        /\ Has(DoneInsert(v), LOCK) <=> Has(v, LOCK)
        /\ Has(DoneInsert(v), SPLIT) <=> Has(v, SPLIT)
    BY <1>1, <1>4, <1>5, ToggleBits
  <1>7. /\ DoneCreate(v) \in Nat
        /\ Has(DoneCreate(v), SPLIT) <=> ~Has(v, SPLIT)
        /\ Has(DoneCreate(v), LOCK) <=> Has(v, LOCK)
        /\ Has(DoneCreate(v), INSERT) <=> Has(v, INSERT)
    BY <1>1, <1>4, <1>5, ToggleBits
  <1> DEFINE x == Raise(w, DELETED)
  <1>8. /\ x \in Nat
        /\ Has(x, SPLIT) <=> Has(v, SPLIT)
        /\ Has(x, LOCK) <=> Has(v, LOCK)
        /\ Has(x, INSERT) <=> Has(v, INSERT)
    BY <1>1, <1>4, RaiseBits
  <1>9. DoneSplitAndDelete(v) = Toggle(x, SPLIT)
    BY <1>5
  <1> HIDE DEF x
  <1>10. /\ DoneSplitAndDelete(v) \in Nat
         /\ Has(DoneSplitAndDelete(v), SPLIT) <=> ~Has(v, SPLIT)
         /\ Has(DoneSplitAndDelete(v), LOCK) <=> Has(v, LOCK)
         /\ Has(DoneSplitAndDelete(v), INSERT) <=> Has(v, INSERT)
    BY <1>1, <1>8, <1>9, ToggleBits
  <1> QED
    BY <1>2, <1>3, <1>6, <1>7, <1>10

\* A node that is not locked is nobody's, and not being written.
LEMMA FreeNode ==
  ASSUME IInv, NEW n \in 1 .. used, ~Has(ver[n], LOCK)
  PROVE  /\ \A u \in Thread : n \notin Held(u)
         /\ Stable(ver[n])
  BY DEF IInv, LocksOwned

\* read and locate_locked lock the leaf.
LEMMA LockLeafKeeps ==
  ASSUME IInv, NEW t \in Thread, LockToRead(t) \/ LockToWrite(t)
  PROVE  IInv'
  <1> DEFINE n == at[t].node
  <1>1. /\ pc[t] = "leaf" /\ Lock(n) /\ pc' = [pc EXCEPT ![t] = "act"]
        /\ at' = at /\ Quiet(t)
        /\ UNCHANGED <<root, type, data, parent, prev, next, cell, used>>
    BY DEF LockToRead, LockToWrite, Goto
  <1>2. n \in 1 .. used /\ n \in Node /\ n # NoNode /\ ver[n] \in Nat
    BY <1>1, Facts
  <1>3. /\ ver \in [Node -> Nat] /\ ver' = [ver EXCEPT ![n] = Raise(ver[n], LOCK)]
        /\ ~Has(ver[n], LOCK)
    BY <1>1, Facts DEF NodesInv, Lock
  <1>4. /\ ver' \in [Node -> Nat] /\ ver'[n] = Raise(ver[n], LOCK)
        /\ \A m \in 1 .. used : m # n => ver'[m] = ver[m]
    BY <1>2, <1>3, LockBits
  <1>5. /\ Has(ver'[n], LOCK) /\ Stable(ver'[n])
        /\ \A u \in Thread : n \notin Held(u)
    BY <1>2, <1>3, <1>4, LockBits, FreeNode DEF Stable
  <1>6. /\ pc'[t] = "act" /\ DOMAIN pc' = Thread
        /\ \A u \in Thread \ {t} : pc'[u] = pc[u]
    BY <1>1, Facts DEF DomainsInv
  <1>7. Held(t) = {} /\ Held(t)' = {n}
    BY <1>1, <1>2, <1>6 DEF Held
  <1>8. /\ DOMAIN call' = Thread /\ UNCHANGED <<done, alarm>>
        /\ \A u \in Thread : S!Pending(u) => S!Pending(u)' /\ op(u)' = op(u)
    BY <1>1, Facts, CallsKept
  <1>9. OwnedTo(t)
    BY <1>1, <1>5, <1>7 DEF OwnedTo
  <1>10. LocalsAt(t)'
    BY <1>1, <1>2, <1>6, <1>8, Facts
    DEF LocalsAt, Labels, Descending, AtLeaf, Inserts, Splits
  <1>11. BitsAt(t)' /\ HalfAt(t)' /\ Halves(t)' = Halves(t)
    BY <1>1, <1>5, <1>6 DEF BitsAt, HalfAt, Halves, Splits
  <1>12. DomainsInv' /\ cell' \in [Key -> Val \cup {NoVal}]
    BY <1>1, <1>6, <1>8, Facts DEF DomainsInv, NodesInv
  <1> QED
    BY <1>1, <1>4, <1>6, <1>7, <1>8, <1>9, <1>10, <1>11, <1>12, VersionStep

\* A thread that returns has unlocked what it had locked.
LEMMA ReturnKeeps ==
  ASSUME IInv, NEW t \in Thread, NEW a, Return(t, a),
         UNCHANGED <<root, type, data, parent, prev, next, cell, used>>,
         ver' \in [Node -> Nat],
         \A n \in 1 .. used : n \notin Held(t) => ver'[n] = ver[n],
         \A n \in Held(t) : ~Has(ver'[n], LOCK) /\ Stable(ver'[n])
  PROVE  IInv'
  <1>1. /\ DomainsInv' /\ UNCHANGED <<done, alarm>>
        /\ pc'[t] = "idle" /\ at'[t] = NoLocals
        /\ \A u \in Thread \ {t} :
             /\ at'[u] = at[u] /\ pc'[u] = pc[u]
             /\ S!Pending(u) => S!Pending(u)' /\ op(u)' = op(u)
    BY Returned, Facts
  <1>2. used' \in Nat /\ cell' \in [Key -> Val \cup {NoVal}]
    BY Facts DEF NodesInv
  <1>3. /\ LocalsAt(t)' /\ BitsAt(t)' /\ HalfAt(t)'
        /\ Held(t)' = {} /\ Halves(t)' = {}
    BY <1>1, <1>2, IdleAt
  <1>4. OwnedTo(t)
    BY <1>3 DEF OwnedTo
  <1> QED
    BY <1>1, <1>2, <1>3, <1>4, VersionStep

\* Read, update and insert unlock the leaf, in which nothing was inserted ...
LEMMA LeafReturnKeeps ==
  ASSUME IInv, NEW t \in Thread, Read(t) \/ UpdateReturns(t) \/ InsertFinds(t)
  PROVE  IInv'
  <1> DEFINE n == at[t].node
  <1>1. /\ pc[t] \in {"act", "updated"} /\ Unlock(n)
        /\ UNCHANGED <<root, type, data, parent, prev, next, cell, used>>
    BY DEF Read, UpdateReturns, InsertFinds
  <1>2. PICK a : Return(t, a)
    BY DEF Read, UpdateReturns, InsertFinds
  <1>3. n \in 1 .. used /\ n \in Node /\ n # NoNode /\ ver[n] \in Nat
    BY <1>1, Facts
  <1>4. /\ ver \in [Node -> Nat] /\ ver' = [ver EXCEPT ![n] = Unlocked(ver[n])]
    BY <1>1, Facts DEF NodesInv, Unlock
  <1>5. /\ ver' \in [Node -> Nat] /\ ver'[n] = Unlocked(ver[n])
        /\ \A m \in 1 .. used : m # n => ver'[m] = ver[m]
    BY <1>3, <1>4, LockBits
  <1>6. Held(t) = {n} /\ Stable(ver[n])
    BY <1>1, <1>3, HeldCases, Facts DEF BitsAt
  <1>7. Has(ver[n], LOCK)
    BY <1>3, <1>6 DEF IInv, LocksOwned
  <1>8. ~Has(ver'[n], LOCK) /\ Stable(ver'[n])
    BY <1>3, <1>5, <1>6, <1>7, LockBits DEF Stable
  <1> QED
    BY <1>1, <1>2, <1>5, <1>6, <1>8, ReturnKeeps

\* ... and done_insert goes before the unlock of a node that was written.
LEMMA EndInsertKeeps ==
  ASSUME IInv, NEW t \in Thread, EndInsert(t)
  PROVE  IInv'
  <1> DEFINE n == at[t].node
  <1>1. /\ pc[t] = "inserted" /\ Return(t, "new")
        /\ ver' = [ver EXCEPT ![n] = Unlocked(DoneInsert(ver[n]))]
        /\ UNCHANGED <<root, type, data, parent, prev, next, cell, used>>
    BY DEF EndInsert
  <1>2. n \in 1 .. used /\ n \in Node /\ n # NoNode /\ ver[n] \in Nat
    BY <1>1, Facts
  <1>3. Held(t) = {n} /\ Has(ver[n], INSERT) /\ ~Has(ver[n], SPLIT)
    BY <1>1, <1>2, HeldCases, Facts DEF BitsAt, Inserts
  <1>4. Has(ver[n], LOCK)
    BY <1>2, <1>3 DEF IInv, LocksOwned
  <1> DEFINE w == DoneInsert(ver[n])
  <1>5. w \in Nat /\ Has(w, LOCK) /\ Stable(w)
    BY <1>2, <1>3, <1>4, WriteBits DEF Stable
  <1>6. ver \in [Node -> Nat] /\ ver' = [ver EXCEPT ![n] = Unlocked(w)]
    BY <1>1, Facts DEF NodesInv
  <1> HIDE DEF w
  <1>7. /\ Unlocked(w) \in Nat /\ ~Has(Unlocked(w), LOCK)
        /\ Stable(Unlocked(w))
    BY <1>5, LockBits DEF Stable
  <1>8. /\ ver' \in [Node -> Nat] /\ ver'[n] = Unlocked(w)
        /\ \A m \in 1 .. used : m # n => ver'[m] = ver[m]
    BY <1>2, <1>6, <1>7
  <1> QED
    BY <1>1, <1>3, <1>7, <1>8, ReturnKeeps

\* update exchanges the value.
LEMMA UpdateKeeps ==
  ASSUME IInv, NEW t \in Thread, Update(t)
  PROVE  IInv'
  <1> DEFINE n == at[t].node
  <1> DEFINE k == op(t).key
  <1>1. /\ pc[t] = "act" /\ pc' = [pc EXCEPT ![t] = "updated"] /\ Observe(t)
        /\ at' = [at EXCEPT ![t] = [at[t] EXCEPT !.old = cell[k]]]
        /\ cell' = [cell EXCEPT ![k] = op(t).val]
        /\ UNCHANGED <<root, ver, type, data, parent, prev, next, used>>
    BY DEF Update, Goto
  <1>2. k \in Key /\ op(t).val \in Val
    BY <1>1, Facts DEF LocalsAt
  <1>3. /\ at'[t] = [at[t] EXCEPT !.old = cell[k]] /\ pc'[t] = "updated"
        /\ \A u \in Thread \ {t} : at'[u] = at[u] /\ pc'[u] = pc[u]
        /\ DOMAIN at' = Thread /\ DOMAIN pc' = Thread
    BY <1>1, Facts DEF DomainsInv
  <1>4. cell[k] \in Val \cup {NoVal} /\ cell' \in [Key -> Val \cup {NoVal}]
    BY <1>1, <1>2, Facts DEF NodesInv
  <1>5. /\ at'[t] \in Locals /\ at'[t].node = n /\ at'[t].left = at[t].left
        /\ at'[t].right = at[t].right /\ at'[t].near = at[t].near
        /\ at'[t].child = at[t].child
    BY <1>3, <1>4, Facts DEF Locals
  <1>6. /\ DOMAIN call' = Thread /\ UNCHANGED <<done, alarm>>
        /\ \A u \in Thread : S!Pending(u) => S!Pending(u)' /\ op(u)' = op(u)
    BY <1>1, Facts, CallsKept
  <1>7. Held(t)' = Held(t) /\ Halves(t)' = Halves(t)
    BY <1>1, <1>3, <1>5 DEF Held, Halves
  <1>8. LocalsAt(t)'
    BY <1>1, <1>3, <1>5, <1>6, Facts
    DEF LocalsAt, Labels, Descending, AtLeaf, Inserts, Splits
  <1>9. BitsAt(t)' /\ HalfAt(t)'
    BY <1>1, <1>3, <1>5, Facts DEF BitsAt, HalfAt, Splits
  <1> QED
    BY <1>1, <1>3, <1>4, <1>6, <1>7, <1>8, <1>9, Facts, PlainStep
    DEF DomainsInv, NodesInv

\* A thread inserts where it has one node locked, which is not being written.
LEMMA InsertingAt ==
  ASSUME IInv, NEW t \in Thread, Inserting(t)
  PROVE  /\ pc[t] \in {"act", "interior"}
         /\ at[t].node \in 1 .. used /\ Held(t) = {at[t].node}
         /\ Has(ver[at[t].node], LOCK) /\ Stable(ver[at[t].node])
         /\ type[at[t].node] # "LEAF" => pc[t] = "interior"
         /\ S!Pending(t) /\ op(t).key \in Key /\ op(t).val \in Val
  <1>1. pc[t] \in {"act", "interior"}
    BY DEF Inserting
  <1>2. /\ at[t].node \in 1 .. used /\ at[t].node # NoNode
        /\ LocalsAt(t) /\ BitsAt(t)
    BY <1>1, Facts
  <1>3. Held(t) = {at[t].node}
    BY <1>1, <1>2, HeldCases DEF Inserts
  <1>4. Has(ver[at[t].node], LOCK)
    BY <1>2, <1>3 DEF IInv, LocksOwned
  <1> QED
    BY <1>1, <1>2, <1>3, <1>4 DEF LocalsAt, BitsAt, AtLeaf

\* do_insert raises the bit that tells descents to wait.
LEMMA BeginInsertKeeps ==
  ASSUME IInv, NEW t \in Thread, BeginInsert(t)
  PROVE  IInv'
  <1> DEFINE n == at[t].node
  <1>1. /\ Inserting(t) /\ pc' = [pc EXCEPT ![t] = "insert"] /\ at' = at
        /\ ver' = [ver EXCEPT ![n] = Raise(ver[n], INSERT)] /\ Observe(t)
        /\ \/ cell' = [cell EXCEPT ![op(t).key] = op(t).val]
           \/ cell' = cell
        /\ UNCHANGED <<root, type, data, parent, prev, next, used>>
    BY DEF BeginInsert, Goto
  <1>2. /\ pc[t] \in {"act", "interior"} /\ n \in 1 .. used /\ Held(t) = {n}
        /\ Has(ver[n], LOCK) /\ Stable(ver[n])
        /\ type[n] # "LEAF" => pc[t] = "interior"
        /\ S!Pending(t) /\ op(t).key \in Key /\ op(t).val \in Val
    BY <1>1, InsertingAt
  <1>3. n \in Node /\ n # NoNode /\ ver[n] \in Nat /\ ver \in [Node -> Nat]
    BY <1>2, Facts DEF NodesInv
  <1>4. /\ ver' \in [Node -> Nat] /\ ver'[n] = Raise(ver[n], INSERT)
        /\ \A m \in 1 .. used : m # n => ver'[m] = ver[m]
    BY <1>1, <1>3, WriteBits
  <1>5. /\ Has(ver'[n], LOCK) /\ Has(ver'[n], INSERT) /\ ~Has(ver'[n], SPLIT)
    BY <1>2, <1>3, <1>4, WriteBits DEF Stable
  <1>6. /\ pc'[t] = "insert" /\ DOMAIN pc' = Thread
        /\ \A u \in Thread \ {t} : pc'[u] = pc[u]
    BY <1>1, Facts DEF DomainsInv
  <1>7. Held(t)' = {n}
    BY <1>1, <1>3, <1>6 DEF Held
  <1>8. /\ DOMAIN call' = Thread /\ UNCHANGED <<done, alarm>>
        /\ \A u \in Thread : S!Pending(u) => S!Pending(u)' /\ op(u)' = op(u)
    BY <1>1, Facts, CallsKept
  <1>9. OwnedTo(t)
    <2>1. \A u \in Thread \ {t} : Held(t) \cap Held(u) = {}
      BY DEF IInv, LocksOwned
    <2> QED
      BY <1>1, <1>2, <1>5, <1>7, <2>1 DEF OwnedTo
  <1>10. LocalsAt(t)'
    BY <1>1, <1>2, <1>6, <1>8, Facts
    DEF LocalsAt, Labels, Descending, AtLeaf, Inserts, Splits
  <1>11. BitsAt(t)' /\ HalfAt(t)' /\ Halves(t)' = Halves(t)
    BY <1>1, <1>5, <1>6 DEF BitsAt, HalfAt, Halves, Splits
  <1>12. DomainsInv' /\ cell' \in [Key -> Val \cup {NoVal}]
    BY <1>1, <1>2, <1>6, <1>8, Facts DEF DomainsInv, NodesInv
  <1> QED
    BY <1>1, <1>2, <1>4, <1>6, <1>7, <1>8, <1>9, <1>10, <1>11, <1>12,
       VersionStep

\* The end of a split unlocks the node and its halves, for good and for use.
LEMMA ReplacedBits ==
  ASSUME IInv, NEW t \in Thread, pc[t] = "replace"
  PROVE  /\ Replaced(t) \in [Node -> Nat]
         /\ \A m \in 1 .. used : m \notin {at[t].node, at[t].left, at[t].right}
              => Replaced(t)[m] = ver[m]
         /\ \A m \in {at[t].node, at[t].left, at[t].right} :
              /\ m \in 1 .. used
              /\ ~Has(Replaced(t)[m], LOCK) /\ Stable(Replaced(t)[m])
  <1> DEFINE mine == {at[t].node, at[t].left, at[t].right}
  <1>1. \A m \in mine : m \in 1 .. used
    BY Facts DEF Splits
  <1>2. \A m \in mine : /\ m \in Held(t) /\ Has(ver[m], SPLIT)
                        /\ ~Has(ver[m], INSERT)
    BY HeldNodes, Facts DEF BitsAt, Splits
  <1>3. \A m \in mine : m \in Node /\ ver[m] \in Nat /\ Has(ver[m], LOCK)
    BY <1>1, <1>2, Facts DEF IInv, LocksOwned
  <1>4. ASSUME NEW m \in mine, NEW w \in {DoneCreate(ver[m]),
                                          DoneSplitAndDelete(ver[m])}
        PROVE  /\ Unlocked(w) \in Nat /\ ~Has(Unlocked(w), LOCK)
               /\ Stable(Unlocked(w))
    <2>1. /\ ver[m] \in Nat /\ Has(ver[m], LOCK) /\ Has(ver[m], SPLIT)
          /\ ~Has(ver[m], INSERT)
      BY <1>2, <1>3
    <2>2. \A x \in {DoneCreate(ver[m]), DoneSplitAndDelete(ver[m])} :
            x \in Nat /\ Has(x, LOCK) /\ ~Has(x, SPLIT) /\ ~Has(x, INSERT)
      BY <2>1, WriteBits
    <2>3. w \in Nat /\ Has(w, LOCK) /\ ~Has(w, SPLIT) /\ ~Has(w, INSERT)
      BY <2>2
    <2> QED
      BY <2>3, LockBits DEF Stable
  <1>5. ASSUME NEW m \in mine
        PROVE  \E w \in {DoneCreate(ver[m]), DoneSplitAndDelete(ver[m])} :
                 Replaced(t)[m] = Unlocked(w)
    <2>1. m \in Node
      BY <1>3
    <2>2. CASE m = at[t].node
      BY <2>1, <2>2 DEF Replaced
    <2>3. CASE m # at[t].node /\ m \in {at[t].left, at[t].right}
      BY <2>1, <2>3 DEF Replaced
    <2> QED
      BY <2>2, <2>3
  <1>6. \A m \in Node : m \notin mine => Replaced(t)[m] = ver[m]
    BY DEF Replaced
  <1>7. Replaced(t) \in [Node -> Nat]
    <2>1. ASSUME NEW m \in Node
          PROVE  Replaced(t)[m] \in Nat
      <3>1. CASE m \in mine
        <4>1. PICK w \in {DoneCreate(ver[m]), DoneSplitAndDelete(ver[m])} :
                Replaced(t)[m] = Unlocked(w)
          BY <1>5, <3>1
        <4> QED
          BY <1>4, <3>1, <4>1
      <3>2. CASE m \notin mine
        BY <1>6, <3>2, Facts DEF NodesInv
      <3> QED
        BY <3>1, <3>2
    <2> QED
      BY <2>1 DEF Replaced
  <1> QED
    BY <1>1, <1>4, <1>5, <1>6, <1>7, Facts

\* The old root is replaced: its split is over.
LEMMA ReplaceRootKeeps ==
  ASSUME IInv, NEW t \in Thread, ReplaceRoot(t)
  PROVE  IInv'
  <1>1. /\ pc[t] = "replace" /\ at[t].near = NoNode
        /\ ver' = Replaced(t) /\ Return(t, "new")
        /\ UNCHANGED <<root, type, data, parent, prev, next, cell, used>>
    BY DEF ReplaceRoot
  <1>2. Held(t) = {at[t].node, at[t].left, at[t].right}
    <2>1. Held(t) = {at[t].node, at[t].left, at[t].right} \ {NoNode}
      BY <1>1, HeldCases
    <2>2. /\ at[t].node # NoNode /\ at[t].left # NoNode
          /\ at[t].right # NoNode
      BY <1>1, Facts DEF Splits
    <2> QED
      BY <2>1, <2>2
  <1> QED
    BY <1>1, <1>2, ReplacedBits, ReturnKeeps

\* Any other node is replaced: on with its parent, which is locked.
LEMMA ReplaceKeeps ==
  ASSUME IInv, NEW t \in Thread, Replace(t)
  PROVE  IInv'
  <1> DEFINE mine == {at[t].node, at[t].left, at[t].right}
  <1> DEFINE p == at[t].near
  <1>1. /\ pc[t] = "replace" /\ p # NoNode /\ ver' = Replaced(t)
        /\ at' = [at EXCEPT ![t] = [at[t] EXCEPT !.node = at[t].near,
                                                 !.near = NoNode]]
        /\ pc' = [pc EXCEPT ![t] = "interior"] /\ Quiet(t)
        /\ UNCHANGED <<root, type, data, parent, prev, next, cell, used>>
    BY DEF Replace, Goto
  <1>2. /\ p \in 0 .. used /\ p \in 1 .. used /\ p \notin mine
        /\ Stable(ver[p]) /\ at[t].left # NoNode /\ at[t].right # NoNode
        /\ at[t].node # NoNode /\ at[t].child \in 0 .. used
    BY <1>1, Facts DEF BitsAt, LocalsAt, Splits
  <1>3. /\ ver' \in [Node -> Nat]
        /\ \A m \in 1 .. used : m \notin mine => ver'[m] = ver[m]
        /\ \A m \in mine : ~Has(ver'[m], LOCK) /\ Stable(ver'[m])
    BY <1>1, ReplacedBits
  <1>4. /\ pc'[t] = "interior"
        /\ at'[t] = [at[t] EXCEPT !.node = at[t].near, !.near = NoNode]
        /\ \A u \in Thread \ {t} : at'[u] = at[u] /\ pc'[u] = pc[u]
        /\ DOMAIN at' = Thread /\ DOMAIN pc' = Thread
    BY <1>1, Facts DEF DomainsInv
  <1>5. /\ at'[t] \in Locals /\ at'[t].node = p /\ at'[t].near = NoNode
        /\ at'[t].left = at[t].left /\ at'[t].right = at[t].right
        /\ at'[t].child = at[t].child
    <2>1. /\ at[t] \in Locals /\ p \in 0 .. MaxNodes
          /\ NoNode \in 0 .. MaxNodes
      BY <1>2, Constants, Facts
    <2> DEFINE l == [at[t] EXCEPT !.node = p]
    <2>2. /\ l \in Locals /\ l.node = p /\ l.child = at[t].child
          /\ l.left = at[t].left /\ l.right = at[t].right
      BY <2>1 DEF Locals
    <2>3. at'[t] = [l EXCEPT !.near = NoNode]
      BY <1>4
    <2> HIDE DEF l, p
    <2> QED
      BY <2>1, <2>2, <2>3 DEF Locals
  <1>6. Held(t) = mine \cup {p} /\ Held(t)' = {p}
    <2>1. Held(t) = (mine \cup {p}) \ {NoNode}
      BY <1>1, HeldCases
    <2>2. Held(t)' = {p}
      BY <1>1, <1>4, <1>5 DEF Held
    <2> QED
      BY <1>1, <1>2, <2>1, <2>2
  <1>7. ver'[p] = ver[p] /\ Has(ver[p], LOCK)
    BY <1>2, <1>3, <1>6 DEF IInv, LocksOwned
  <1>8. OwnedTo(t)
    <2>1. \A u \in Thread \ {t} : Held(t) \cap Held(u) = {}
      BY DEF IInv, LocksOwned
    <2> QED
      BY <1>1, <1>3, <1>6, <1>7, <2>1 DEF OwnedTo
  <1>9. /\ DOMAIN call' = Thread /\ UNCHANGED <<done, alarm>>
        /\ \A u \in Thread : S!Pending(u) => S!Pending(u)' /\ op(u)' = op(u)
    BY <1>1, Facts, CallsKept
  <1>10. LocalsAt(t)'
    BY <1>1, <1>2, <1>4, <1>5, <1>9, Constants, Facts
    DEF LocalsAt, Labels, Descending, AtLeaf, Inserts, Splits
  <1>11. BitsAt(t)' /\ HalfAt(t)' /\ Halves(t)' = Halves(t)
    BY <1>2, <1>4, <1>5, <1>7 DEF BitsAt, HalfAt, Halves, Splits
  <1>12. DomainsInv' /\ cell' \in [Key -> Val \cup {NoVal}]
    BY <1>1, <1>4, <1>9, Facts DEF DomainsInv, NodesInv
  <1> QED
    BY <1>1, <1>3, <1>4, <1>6, <1>8, <1>9, <1>10, <1>11, <1>12, VersionStep

\* The new root is opened; the old one is still to be replaced.
LEMMA OpenRootKeeps ==
  ASSUME IInv, NEW t \in Thread, OpenRoot(t)
  PROVE  IInv'
  <1> DEFINE mine == {at[t].node, at[t].left, at[t].right}
  <1> DEFINE p == parent[at[t].left]
  <1>1. /\ pc[t] = "swapped" /\ pc' = [pc EXCEPT ![t] = "replace"]
        /\ ver' = [ver EXCEPT ![p] = Unlocked(DoneCreate(ver[p]))]
        /\ at' = [at EXCEPT ![t] = [at[t] EXCEPT !.near = NoNode]] /\ Quiet(t)
        /\ UNCHANGED <<root, type, data, parent, prev, next, cell, used>>
    BY DEF OpenRoot, Goto
  <1>2. /\ \A m \in mine : /\ m # NoNode /\ m \in 1 .. used
                           /\ Has(ver[m], SPLIT) /\ ~Has(ver[m], INSERT)
        /\ p \notin mine /\ p # NoNode
        /\ Has(ver[p], SPLIT) /\ ~Has(ver[p], INSERT)
        /\ at[t].node # at[t].left /\ at[t].node # at[t].right
        /\ at[t].left # at[t].right /\ at[t].child \in 0 .. used
    BY <1>1, Facts DEF BitsAt, LocalsAt, Splits
  <1>3. /\ p \in 1 .. used /\ p \in Node /\ ver[p] \in Nat
        /\ ver \in [Node -> Nat]
    BY <1>1, HeldNodes, Facts DEF NodesInv
  <1>4. Held(t) = mine \cup {p}
    <2>1. Held(t) = (mine \cup {p}) \ {NoNode}
      BY <1>1, HeldCases
    <2> QED
      BY <1>2, <2>1
  <1>5. \A m \in mine \cup {p} : Has(ver[m], LOCK)
    BY <1>2, <1>3, <1>4 DEF IInv, LocksOwned
  <1>6. /\ ver' \in [Node -> Nat]
        /\ \A m \in 1 .. used : m # p => ver'[m] = ver[m]
        /\ ~Has(ver'[p], LOCK) /\ Stable(ver'[p])
    <2> DEFINE w == DoneCreate(ver[p])
    <2>1. w \in Nat /\ Has(w, LOCK) /\ ~Has(w, SPLIT) /\ ~Has(w, INSERT)
      BY <1>2, <1>3, <1>5, WriteBits
    <2>2. ver' = [ver EXCEPT ![p] = Unlocked(w)]
      BY <1>1
    <2> HIDE DEF w
    <2>3. /\ Unlocked(w) \in Nat /\ ~Has(Unlocked(w), LOCK)
          /\ Stable(Unlocked(w))
      BY <2>1, LockBits DEF Stable
    <2> HIDE DEF p
    <2> QED
      BY <1>3, <2>2, <2>3, Facts
  <1>7. /\ pc'[t] = "replace" /\ at'[t] = [at[t] EXCEPT !.near = NoNode]
        /\ \A u \in Thread \ {t} : at'[u] = at[u] /\ pc'[u] = pc[u]
        /\ DOMAIN at' = Thread /\ DOMAIN pc' = Thread
    BY <1>1, Facts DEF DomainsInv
  <1>8. /\ at'[t] \in Locals /\ at'[t].node = at[t].node
        /\ at'[t].near = NoNode /\ at'[t].child = at[t].child
        /\ at'[t].left = at[t].left /\ at'[t].right = at[t].right
    <2>1. at[t] \in Locals /\ NoNode \in 0 .. MaxNodes
      BY Constants, Facts
    <2> QED
      BY <1>7, <2>1 DEF Locals
  <1>9. Held(t)' = mine
    BY <1>2, <1>7, <1>8 DEF Held
  <1>10. OwnedTo(t)
    <2>1. \A u \in Thread \ {t} : Held(t) \cap Held(u) = {}
      BY DEF IInv, LocksOwned
    <2> HIDE DEF p, mine
    <2>2. \A m \in mine : m # p /\ ver'[m] = ver[m]
      BY <1>2, <1>6
    <2> QED
      BY <1>1, <1>4, <1>5, <1>6, <1>9, <2>1, <2>2 DEF OwnedTo
  <1>11. /\ DOMAIN call' = Thread /\ UNCHANGED <<done, alarm>>
         /\ \A u \in Thread : S!Pending(u) => S!Pending(u)' /\ op(u)' = op(u)
    BY <1>1, Facts, CallsKept
  <1>12. LocalsAt(t)'
    <2>1. \A m \in {at[t].node, at[t].child, at[t].left, at[t].right, NoNode} :
            m \in 0 .. used
      BY Constants, Facts DEF LocalsAt
    <2>2. S!Pending(t) /\ op(t).key \in Key /\ op(t).val \in Val
      BY <1>1, Facts DEF LocalsAt
    <2>3. /\ S!Pending(t)' /\ op(t)'.key \in Key /\ op(t)'.val \in Val
      BY <1>11, <2>2
    <2> QED
      BY <1>1, <1>2, <1>7, <1>8, <2>1, <2>3
      DEF LocalsAt, Labels, Descending, AtLeaf, Inserts, Splits
  <1>13. BitsAt(t)' /\ HalfAt(t)' /\ Halves(t)' = Halves(t)
    <2>1. \A m \in mine : ver'[m] = ver[m]
      BY <1>2, <1>6
    <2> QED
      BY <1>2, <1>7, <1>8, <2>1 DEF BitsAt, HalfAt, Halves, Splits
  <1>14. DomainsInv' /\ cell' \in [Key -> Val \cup {NoVal}]
    BY <1>1, <1>7, <1>11, Facts DEF DomainsInv, NodesInv
  <1> QED
    BY <1>1, <1>4, <1>6, <1>7, <1>9, <1>10, <1>11, <1>12, <1>13, <1>14,
       VersionStep

-----------------------------------------------------------------------------
(* Steps that link nodes. *)

\* A parent that is locked and still the parent gets the halves as children.
LEMMA LockParentKeeps ==
  ASSUME IInv, NEW t \in Thread, LockParent(t)
  PROVE  IInv'
  <1> DEFINE mine == {at[t].node, at[t].left, at[t].right}
  <1> DEFINE p == at[t].near
  <1>1. /\ pc[t] = "lockparent" /\ p = parent[at[t].node] /\ Lock(p)
        /\ parent' = [parent EXCEPT ![at[t].left] = p, ![at[t].right] = p]
        /\ pc' = [pc EXCEPT ![t] = "replace"] /\ at' = at /\ Quiet(t)
        /\ UNCHANGED <<root, type, data, prev, next, cell, used>>
    BY DEF LockParent, Goto
  <1>2. /\ p \in 0 .. used /\ p # NoNode /\ p \in 1 .. used /\ p \in Node
        /\ ver[p] \in Nat /\ ver \in [Node -> Nat]
    BY <1>1, Facts DEF LocalsAt, NodesInv
  <1>3. /\ ~Has(ver[p], LOCK) /\ ver' = [ver EXCEPT ![p] = Raise(ver[p], LOCK)]
    BY <1>1 DEF Lock
  <1>4. /\ ver' \in [Node -> Nat] /\ ver'[p] = Raise(ver[p], LOCK)
        /\ \A m \in 1 .. used : m # p => ver'[m] = ver[m]
    BY <1>2, <1>3, LockBits
  <1>5. /\ Has(ver'[p], LOCK) /\ Stable(ver'[p])
        /\ \A u \in Thread : p \notin Held(u)
    BY <1>2, <1>3, <1>4, LockBits, FreeNode DEF Stable
  <1>6. /\ \A m \in mine : /\ m # NoNode /\ m \in 1 .. used /\ m \in Held(t)
                           /\ Has(ver[m], SPLIT) /\ ~Has(ver[m], INSERT)
        /\ at[t].node # at[t].left /\ at[t].node # at[t].right
        /\ at[t].left # at[t].right
    BY <1>1, HeldNodes, Facts DEF BitsAt, Splits
  <1>7. /\ pc'[t] = "replace" /\ DOMAIN pc' = Thread
        /\ \A u \in Thread \ {t} : pc'[u] = pc[u]
    BY <1>1, Facts DEF DomainsInv
  <1>8. Held(t) = mine /\ Held(t)' = mine \cup {p}
    BY <1>1, <1>2, <1>6, <1>7 DEF Held
  <1>9. /\ DOMAIN call' = Thread /\ UNCHANGED <<done, alarm>>
        /\ \A u \in Thread : S!Pending(u) => S!Pending(u)' /\ op(u)' = op(u)
    BY <1>1, Facts, CallsKept
  <1>10. p \notin mine /\ \A m \in mine : ver'[m] = ver[m]
    BY <1>4, <1>5, <1>6
  <1>11. OwnedTo(t)
    <2>1. \A u \in Thread \ {t} : Held(t) \cap Held(u) = {}
      BY DEF IInv, LocksOwned
    <2>2. \A m \in mine : Has(ver'[m], LOCK)
      BY <1>6, <1>10 DEF IInv, LocksOwned
    <2> QED
      BY <1>1, <1>5, <1>8, <2>1, <2>2 DEF OwnedTo
  <1>12. LocalTo(t)
    <2>1. ASSUME NEW u \in Thread \ {t}, pc[u] = "swapped"
          PROVE  parent'[at[u].left] = parent[at[u].left]
      <3>1. at[u].left # NoNode /\ at[u].left \in Node
        BY <2>1, Facts DEF Splits
      <3>2. at[u].left \notin {at[t].left, at[t].right}
        BY <3>1 DEF IInv, HalvesApart, Halves
      <3>3. parent \in [Node -> 0 .. used]
        BY Facts DEF NodesInv
      <3> HIDE DEF p
      <3> QED
        BY <1>1, <3>1, <3>2, <3>3
    <2>2. used \in Nat /\ at' = at /\ used' = used /\ type' = type /\ data' = data
      BY <1>1, Facts
    <2>3. \A m \in 1 .. used : m \notin Held(t) \cup Held(t)' => ver'[m] = ver[m]
      BY <1>4, <1>8
    <2> QED
      BY <1>7, <1>9, <2>1, <2>2, <2>3 DEF LocalTo
  <1>13. LocalsAt(t)'
    BY <1>1, <1>6, <1>7, <1>9, Facts
    DEF LocalsAt, Labels, Descending, AtLeaf, Inserts, Splits
  <1>14. BitsAt(t)' /\ HalfAt(t)'
    BY <1>1, <1>5, <1>6, <1>7, <1>10 DEF BitsAt, HalfAt, Splits
  <1>15. DomainsInv' /\ NodesInv'
    <2>1. parent' \in [Node -> 0 .. used]
      BY <1>1, <1>2, Facts DEF NodesInv
    <2> QED
      BY <1>1, <1>4, <1>7, <1>9, <2>1, Facts DEF DomainsInv, NodesInv
  <1>16. \A u \in Thread \ {t} : Halves(t)' \cap Halves(u) = {}
    BY <1>1 DEF IInv, HalvesApart, Halves
  <1> QED
    BY <1>11, <1>12, <1>13, <1>14, <1>15, <1>16, StepKeeps DEF ThreadNext

\* What extend makes of a node that t is to insert into: one entry more, which
\* links the halves of the node below it that was split.
LEMMA NewDataFacts ==
  ASSUME IInv, NEW t \in Thread, at[t].node \in 1 .. used,
         S!Pending(t) /\ op(t).key \in Key,
         type[at[t].node] # "LEAF"
           => at[t].left \in 1 .. used /\ at[t].right \in 1 .. used
  PROVE  /\ NewData(t) \in Seq(Entries) /\ NewData(t) # << >>
         /\ Len(NewData(t)) = Len(data[at[t].node]) + 1
         /\ Links(NewData(t)) \subseteq 0 .. used
         /\ Links(NewData(t))
              \subseteq Links(data[at[t].node]) \cup Halves(t) \cup {NoNode}
         /\ type[at[t].node] # "LEAF" => NoNode \notin Links(NewData(t))
  <1> DEFINE d == data[at[t].node]
  <1>1. /\ \A m \in 1 .. used : /\ data[m] \in Seq(Entries) /\ data[m] # << >>
                                /\ Links(data[m]) \subseteq 0 .. used
        /\ type[at[t].node] # "LEAF" => NoNode \notin Links(d)
    BY Facts DEF NodesInv
  <1>2. d \in Seq(Entries) /\ Len(d) \in Nat /\ Links(d) \subseteq 0 .. used
    BY <1>1
  <1>3. \A k : Locate(d, k) \in 0 .. Len(d)
    BY <1>2, LocateRange
  <1>4. NoNode = 0 /\ used \in Nat /\ 0 .. used \subseteq 0 .. MaxNodes
    BY Constants, Facts
  <1>5. /\ NewData(t) \in Seq(Entries) /\ Len(NewData(t)) = Len(d) + 1
        /\ Links(NewData(t)) \subseteq 0 .. used
        /\ Links(NewData(t)) \subseteq Links(d) \cup Halves(t) \cup {NoNode}
        /\ type[at[t].node] # "LEAF" => NoNode \notin Links(NewData(t))
    <2>1. CASE type[at[t].node] = "LEAF"
      <3> DEFINE new == Entry(op(t).key, NoNode)
      <3> DEFINE i == Locate(d, op(t).key)
      <3>1. new \in Entries /\ new.link = NoNode
        BY <1>4 DEF Entry, Entries
      <3>2. i \in 0 .. Len(d) /\ NoNode \in 0 .. MaxNodes
        BY <1>3, <1>4
      <3>3. NewData(t) = Extended(d, i, new, NoNode)
        BY <2>1 DEF NewData
      <3> HIDE DEF new, i, d
      <3>4. /\ NewData(t) \in Seq(Entries) /\ Len(NewData(t)) = Len(d) + 1
            /\ Links(NewData(t)) \subseteq Links(d) \cup {NoNode}
        <4>1. /\ Extended(d, i, new, NoNode) \in Seq(Entries)
              /\ Len(Extended(d, i, new, NoNode)) = Len(d) + 1
              /\ Links(Extended(d, i, new, NoNode))
                   \subseteq Links(d) \cup {new.link}
          <5>1. d \in Seq(Entries) /\ new \in Entries
            BY <1>2, <3>1
          <5> QED
            BY ONLY <3>2, <5>1, ExtendedFacts
        <4> QED
          BY <3>1, <3>3, <4>1
      <3> QED
        BY <1>2, <1>4, <2>1, <3>4
    <2>2. CASE type[at[t].node] # "LEAF"
      <3> DEFINE new == Entry(First(at[t].right), at[t].right)
      <3> DEFINE i == Locate(d, SplitKey(t))
      <3>1. /\ at[t].left \in 1 .. used /\ at[t].right \in 1 .. used
            /\ at[t].left \in 0 .. MaxNodes /\ at[t].right \in 0 .. MaxNodes
            /\ at[t].left # NoNode /\ at[t].right # NoNode
        BY <1>4, <2>2
      <3>2. First(at[t].right) \in Key \cup {0}
        <4>1. /\ data[at[t].right] \in Seq(Entries)
              /\ data[at[t].right] # << >>
          BY <1>1, <3>1
        <4>2. data[at[t].right][1] \in Entries
          BY <4>1
        <4> QED
          BY <4>2 DEF First, Entries
      <3>3. new \in Entries /\ new.link = at[t].right
        BY <3>1, <3>2 DEF Entry, Entries
      <3>4. i \in 0 .. Len(d)
        BY <1>3
      <3>5. NewData(t) = Extended(d, i, new, at[t].left)
        BY <2>2 DEF NewData
      <3> HIDE DEF new, i, d
      <3>6. /\ NewData(t) \in Seq(Entries) /\ Len(NewData(t)) = Len(d) + 1
            /\ Links(NewData(t))
                 \subseteq Links(d) \cup {at[t].right, at[t].left}
        BY <1>2, <3>1, <3>3, <3>4, <3>5, ExtendedFacts
      <3>7. NoNode \notin Links(NewData(t))
        BY <1>1, <2>2, <3>1, <3>6 DEF d
      <3> QED
        BY <1>2, <1>4, <3>1, <3>6, <3>7 DEF Halves
    <2> QED
      BY <2>1, <2>2
  <1>6. NewData(t) # << >>
    <2>1. Len(NewData(t)) # 0
      BY <1>2, <1>5
    <2> QED
      BY <2>1
  <1> QED
    BY <1>5, <1>6

\* Nobody else refers to the halves that t has made, nor as new root to the
\* node that t has locked: what t links is not what another thread must find
\* linked nowhere else.
LEMMA LinksApart ==
  ASSUME IInv, NEW t \in Thread, NEW u \in Thread \ {t},
         pc[u] \in {"newroot", "swapped"}
  PROVE  /\ at[u].left \in 1 .. used /\ at[u].left # NoNode
         /\ at[u].left \notin Halves(t)
         /\ \A n \in Held(t) \cap Node : at[u].left \notin Links(data[n])
  <1>1. at[u].left \in 1 .. used /\ at[u].left # NoNode
    BY Facts DEF Splits
  <1>2. at[u].left \notin Halves(t)
    BY <1>1 DEF IInv, HalvesApart, Halves
  <1>3. ASSUME NEW n \in Held(t) \cap Node, at[u].left \in Links(data[n])
        PROVE  FALSE
    <2>1. pc[u] = "swapped" /\ n = parent[at[u].left]
      BY <1>3, Facts DEF HalfAt
    <2>2. n \in Held(u)
      BY <2>1, HeldNodes
    <2> QED
      BY <1>3, <2>2 DEF IInv, LocksOwned
  <1> QED
    BY <1>1, <1>2, <1>3

\* data->reref of the node that is locked.
LEMMA InsertKeeps ==
  ASSUME IInv, NEW t \in Thread, Insert(t)
  PROVE  IInv'
  <1> DEFINE n == at[t].node
  <1> DEFINE d == NewData(t)
  <1>1. /\ pc[t] = "insert" /\ pc' = [pc EXCEPT ![t] = "inserted"] /\ at' = at
        /\ data' = [data EXCEPT ![n] = d] /\ (Promise(t) \/ Observe(t))
        /\ UNCHANGED <<root, ver, type, parent, prev, next, cell, used>>
    BY DEF Insert, Goto
  <1>2. /\ n \in 1 .. used /\ n \in Node /\ n # NoNode /\ used \in Nat
        /\ Has(ver[n], INSERT) /\ ~Has(ver[n], SPLIT)
        /\ S!Pending(t) /\ op(t).key \in Key /\ op(t).val \in Val
    BY <1>1, Facts DEF LocalsAt, BitsAt
  <1>3. type[n] # "LEAF" => at[t].left \in 1 .. used /\ at[t].right \in 1 .. used
    BY <1>1, Facts DEF LocalsAt
  <1>4. /\ d \in Seq(Entries) /\ d # << >> /\ Links(d) \subseteq 0 .. used
        /\ Links(d) \subseteq Links(data[n]) \cup Halves(t) \cup {NoNode}
        /\ type[n] # "LEAF" => NoNode \notin Links(d)
    BY <1>2, <1>3, NewDataFacts
  <1> HIDE DEF d
  <1>5. /\ data' \in [Node -> Seq(Entries)] /\ data'[n] = d
        /\ \A m \in Node : m # n => data'[m] = data[m]
    BY <1>1, <1>2, <1>4, Facts DEF NodesInv
  <1>6. /\ pc'[t] = "inserted" /\ DOMAIN pc' = Thread
        /\ \A u \in Thread \ {t} : pc'[u] = pc[u]
    BY <1>1, Facts DEF DomainsInv
  <1>7. /\ DOMAIN call' = Thread /\ UNCHANGED <<done, alarm>>
        /\ \A u \in Thread : S!Pending(u) => S!Pending(u)' /\ op(u)' = op(u)
    BY <1>1, Facts, CallsKept
  <1>8. Held(t) = {n} /\ Held(t)' = {n}
    BY <1>1, <1>2, <1>6 DEF Held
  <1>9. OwnedTo(t)
    BY <1>1, <1>2, <1>8 DEF OwnedTo, IInv, LocksOwned
  <1>10. LocalTo(t)
    <2>1. ASSUME NEW u \in Thread \ {t}, pc[u] \in {"newroot", "swapped"},
                 NEW m \in Node, at[u].left \in Links(data'[m])
          PROVE  at[u].left \in Links(data[m])
      BY <1>2, <1>4, <1>5, <1>8, <2>1, LinksApart
    <2> QED
      BY <1>1, <1>2, <1>6, <1>7, <2>1 DEF LocalTo
  <1>11. LocalsAt(t)'
    BY <1>1, <1>2, <1>3, <1>6, <1>7, Facts
    DEF LocalsAt, Labels, Descending, AtLeaf, Inserts, Splits
  <1>12. BitsAt(t)' /\ HalfAt(t)'
    BY <1>1, <1>2, <1>6 DEF BitsAt, HalfAt, Splits
  <1>13. DomainsInv' /\ NodesInv'
    <2>1. /\ \A m \in Node : Links(data'[m]) \subseteq 0 .. used
          /\ \A m \in 1 .. used : /\ data'[m] # << >>
                                  /\ type[m] # "LEAF"
                                       => NoNode \notin Links(data'[m])
      BY <1>2, <1>4, <1>5, Facts DEF NodesInv
    <2> QED
      BY <1>1, <1>5, <1>6, <1>7, <2>1, Facts DEF DomainsInv, NodesInv
  <1>14. \A u \in Thread \ {t} : Halves(t)' \cap Halves(u) = {}
    BY <1>1 DEF IInv, HalvesApart, Halves
  <1> QED
    BY <1>9, <1>10, <1>11, <1>12, <1>13, <1>14, StepKeeps DEF ThreadNext

\* A new root over the halves of the old one.
LEMMA NewRootKeeps ==
  ASSUME IInv, NEW t \in Thread, NewRoot(t)
  PROVE  IInv'
  <1> DEFINE l == at[t].left
  <1> DEFINE r == at[t].right
  <1> DEFINE new == used + 1
  <1> DEFINE d == <<Entry(First(l), l), Entry(First(r), r)>>
  <1> DEFINE mine == {at[t].node, l, r}
  <1>1. /\ pc[t] = "newroot" /\ new <= MaxNodes /\ used' = new /\ root' = new
        /\ ver' = [ver EXCEPT ![new] = LOCK + SPLIT]
        /\ type' = [type EXCEPT ![new] = "ROOT"]
        /\ data' = [data EXCEPT ![new] = d]
        /\ parent' = [parent EXCEPT ![l] = new, ![r] = new]
        /\ pc' = [pc EXCEPT ![t] = "swapped"] /\ at' = at /\ Observe(t)
        /\ UNCHANGED <<prev, next, cell>>
    BY DEF NewRoot, Goto
  <1>2. /\ used \in Nat /\ new \in Nat /\ new \in Node /\ used <= new
        /\ new \notin 0 .. used /\ new # NoNode
        /\ \A m \in 1 .. new : m \in 1 .. used \/ m = new
        /\ \A m \in 0 .. used : m \in 0 .. new
        /\ \A m \in 1 .. used : m \in Node /\ m # new
        /\ new \in 0 .. new /\ new \in 1 .. new
    BY <1>1, Constants, Facts
  <1>3. /\ \A m \in mine : /\ m # NoNode /\ m \in 1 .. used /\ m \in Node
                           /\ m \in Held(t) /\ m # new
                           /\ Has(ver[m], SPLIT) /\ ~Has(ver[m], INSERT)
        /\ at[t].node # l /\ at[t].node # r /\ l # r
    BY <1>1, <1>2, HeldNodes, Facts DEF BitsAt, Splits
  <1>4. /\ d \in Seq(Entries) /\ d # << >> /\ Links(d) = {l, r}
    <2>1. ASSUME NEW m \in {l, r}
          PROVE  Entry(First(m), m) \in Entries /\ Entry(First(m), m).link = m
      <3>1. m \in 1 .. used /\ m \in 0 .. MaxNodes /\ m \in Node
        BY <1>3, Facts
      <3>2. data[m] \in Seq(Entries) /\ data[m] # << >>
        BY <3>1, Facts DEF NodesInv
      <3>3. data[m][1] \in Entries
        BY <3>2
      <3> QED
        BY <3>1, <3>3 DEF First, Entry, Entries
    <2> DEFINE e == Entry(First(l), l)
    <2> DEFINE f == Entry(First(r), r)
    <2>2. /\ e \in Entries /\ f \in Entries /\ e.link = l /\ f.link = r
          /\ d = <<e, f>>
      BY <2>1
    <2> HIDE DEF e, f, d
    <2>3. d \in Seq(Entries) /\ DOMAIN d = {1, 2} /\ d[1] = e /\ d[2] = f
      BY <2>2
    <2> QED
      BY <2>2, <2>3 DEF Links
  <1> HIDE DEF d
  <1>5. /\ ver' \in [Node -> Nat] /\ ver'[new] = LOCK + SPLIT
        /\ \A m \in 1 .. used : ver'[m] = ver[m]
        /\ type' \in [Node -> {"ROOT", "INTERIOR", "LEAF"}]
        /\ type'[new] = "ROOT" /\ \A m \in 1 .. used : type'[m] = type[m]
        /\ data' \in [Node -> Seq(Entries)] /\ data'[new] = d
        /\ \A m \in Node : m # new => data'[m] = data[m]
        /\ parent' \in [Node -> 0 .. new] /\ parent'[l] = new
        /\ \A m \in Node \ {l, r} : parent'[m] = parent[m]
    <2>1. /\ ver \in [Node -> Nat] /\ data \in [Node -> Seq(Entries)]
          /\ type \in [Node -> {"ROOT", "INTERIOR", "LEAF"}]
          /\ parent \in [Node -> 0 .. used]
      BY Facts DEF NodesInv
    <2>2. LOCK + SPLIT \in Nat
      BY DEF LOCK, SPLIT
    <2>3. l \in Node /\ r \in Node /\ new \in 0 .. new
      BY <1>2, <1>3
    <2>4. parent \in [Node -> 0 .. new]
      BY <1>2, <2>1
    <2> HIDE DEF new, l, r
    <2>5. /\ parent' \in [Node -> 0 .. new] /\ parent'[l] = new
          /\ \A m \in Node \ {l, r} : parent'[m] = parent[m]
      BY <1>1, <2>3, <2>4
    <2> QED
      BY <1>1, <1>2, <1>4, <2>1, <2>2, <2>5
  <1>6. /\ Has(LOCK + SPLIT, LOCK) /\ Has(LOCK + SPLIT, SPLIT)
        /\ ~Has(LOCK + SPLIT, INSERT)
    BY DEF Has, LOCK, SPLIT, INSERT
  <1>7. /\ pc'[t] = "swapped" /\ DOMAIN pc' = Thread
        /\ \A u \in Thread \ {t} : pc'[u] = pc[u]
    BY <1>1, Facts DEF DomainsInv
  <1>8. /\ DOMAIN call' = Thread /\ UNCHANGED <<done, alarm>>
        /\ \A u \in Thread : S!Pending(u) => S!Pending(u)' /\ op(u)' = op(u)
    BY <1>1, Facts, CallsKept
  <1>9. Held(t) = mine /\ Held(t)' = mine \cup {new}
    <2>1. Held(t) = mine
      BY <1>1, <1>3 DEF Held
    <2>2. Held(t)' = (mine \cup {parent'[l]}) \ {NoNode}
      BY <1>1, <1>7 DEF Held
    <2>3. parent'[l] = new
      BY <1>5
    <2>4. \A m \in mine : m # NoNode
      BY <1>3
    <2> HIDE DEF new, l, r, mine
    <2> QED
      BY <1>2, <2>1, <2>2, <2>3, <2>4
  <1>10. OwnedTo(t)
    <2>1. \A u \in Thread \ {t} : /\ Held(t) \cap Held(u) = {}
                                  /\ new \notin Held(u)
      BY <1>2, HeldNodes DEF IInv, LocksOwned
    <2>2. \A m \in mine : Has(ver'[m], LOCK)
      BY <1>3, <1>5 DEF IInv, LocksOwned
    <2>3. \A m \in 1 .. used' : m \notin 1 .. used => m = new
      BY <1>1, <1>2
    <2>4. Has(ver'[new], LOCK)
      BY <1>5, <1>6
    <2> HIDE DEF new, mine
    <2> QED
      BY <1>9, <2>1, <2>2, <2>3, <2>4 DEF OwnedTo
  <1>11. LocalTo(t)
    <2>1. ASSUME NEW u \in Thread \ {t}, pc[u] \in {"newroot", "swapped"}
          PROVE  /\ parent'[at[u].left] = parent[at[u].left]
                 /\ \A m \in Node : at[u].left \in Links(data'[m])
                                      => at[u].left \in Links(data[m])
      <3>1. at[u].left \notin {l, r} /\ at[u].left \in Node
        BY <1>3, <2>1, LinksApart, Facts DEF Halves
      <3> QED
        BY <1>4, <1>5, <3>1
    <2>2. at' = at /\ used <= used' /\ used' \in Nat
      BY <1>1, <1>2
    <2> QED
      BY <1>5, <1>7, <1>8, <2>1, <2>2 DEF LocalTo
  <1>12. LocalsAt(t)'
    <2>1. \A m \in {at[t].node, at[t].child, at[t].left, at[t].right,
                    at[t].near} : m \in 0 .. used'
      BY <1>1, <1>2, Facts DEF LocalsAt
    <2>2. S!Pending(t)' /\ op(t)'.key \in Key /\ op(t)'.val \in Val
      BY <1>1, <1>8, Facts DEF LocalsAt
    <2> QED
      BY <1>1, <1>3, <1>7, <2>1, <2>2, Facts
      DEF LocalsAt, Labels, Descending, AtLeaf, Inserts, Splits
  <1>13. BitsAt(t)'
    <2>1. \A m \in mine : Has(ver'[m], SPLIT) /\ ~Has(ver'[m], INSERT)
      BY <1>3, <1>5
    <2>2. /\ parent'[l] = new /\ new # NoNode /\ new \notin mine
          /\ Has(ver'[new], SPLIT) /\ ~Has(ver'[new], INSERT)
      BY <1>2, <1>3, <1>5, <1>6
    <2>3. at' = at
      BY <1>1
    <2> HIDE DEF new
    <2> QED
      BY <1>3, <1>7, <2>1, <2>2, <2>3 DEF BitsAt, Splits
  <1>14. HalfAt(t)'
    <2>1. \A m \in Node : m # new => l \notin Links(data'[m])
      BY <1>1, <1>5, Facts DEF HalfAt
    <2> QED
      BY <1>1, <1>5, <1>7, <2>1 DEF HalfAt
  <1>15. DomainsInv'
    BY <1>1, <1>7, <1>8, Facts DEF DomainsInv
  <1>16. NodesInv'
    <2>1. /\ \A m \in Node : Links(data'[m]) \subseteq 0 .. new
          /\ \A m \in 1 .. new : /\ data'[m] # << >>
                                 /\ type'[m] # "LEAF"
                                      => NoNode \notin Links(data'[m])
      <3>1. /\ \A m \in Node : Links(data[m]) \subseteq 0 .. used
            /\ \A m \in 1 .. used : /\ data[m] # << >>
                                    /\ type[m] # "LEAF"
                                         => NoNode \notin Links(data[m])
        BY Facts DEF NodesInv
      <3>2. /\ l \in 0 .. used /\ r \in 0 .. used
            /\ l # NoNode /\ r # NoNode
        BY <1>3
      <3>3. Links(d) \subseteq 0 .. new /\ NoNode \notin Links(d)
        BY <1>2, <1>4, <3>2
      <3> HIDE DEF new
      <3>4. ASSUME NEW m \in Node
            PROVE  Links(data'[m]) \subseteq 0 .. new
        BY <1>2, <1>5, <3>1, <3>3
      <3>5. ASSUME NEW m \in 1 .. new
            PROVE  /\ data'[m] # << >>
                   /\ type'[m] # "LEAF" => NoNode \notin Links(data'[m])
        BY <1>2, <1>4, <1>5, <3>1, <3>3
      <3> QED
        BY <3>4, <3>5
    <2>2. prev' \in [Node -> 0 .. new] /\ next' \in [Node -> 0 .. new]
      <3>1. /\ prev' \in [Node -> 0 .. used] /\ next' \in [Node -> 0 .. used]
            /\ 0 .. used \subseteq 0 .. new
        BY <1>1, <1>2, Facts DEF NodesInv
      <3> HIDE DEF new
      <3> QED
        BY <3>1
    <2> HIDE DEF new
    <2> QED
      BY <1>1, <1>2, <1>5, <1>8, <2>1, <2>2, Facts DEF NodesInv
  <1>17. \A u \in Thread \ {t} : Halves(t)' \cap Halves(u) = {}
    BY <1>1 DEF IInv, HalvesApart, Halves
  <1> QED
    BY <1>10, <1>11, <1>12, <1>13, <1>14, <1>15, <1>16, <1>17, StepKeeps
    DEF ThreadNext

\* What a split creates: two nodes that are locked, marked and filled in, while
\* descents are told to wait at the node that is split.
LEMMA SplitFacts ==
  ASSUME IInv, NEW t \in Thread, NEW kind \in {"INTERIOR", "LEAF"},
         Inserting(t), ~Roomy(at[t].node), Split(t, kind),
         kind = "LEAF" <=> type[at[t].node] = "LEAF",
         NEW n, n = at[t].node, NEW l, l = used + 1, NEW r, r = used + 2
  PROVE  /\ l \in Node /\ r \in Node /\ l # r /\ l \notin 0 .. used
         /\ r \notin 0 .. used /\ n # l /\ n # r /\ used' = r /\ r \in Node
         /\ 0 .. used \subseteq 0 .. r /\ l \in 1 .. r /\ r \in 1 .. r
         /\ \A m \in 1 .. r : m \in 1 .. used \/ m = l \/ m = r
         /\ ver' \in [Node -> Nat]
         /\ \A m \in {n, l, r} : /\ Has(ver'[m], LOCK) /\ Has(ver'[m], SPLIT)
                                 /\ ~Has(ver'[m], INSERT)
         /\ \A m \in 1 .. used : m # n => ver'[m] = ver[m]
         /\ type' \in [Node -> {"ROOT", "INTERIOR", "LEAF"}]
         /\ type'[l] = kind /\ type'[r] = kind
         /\ \A m \in 1 .. used : type'[m] = type[m]
         /\ data' \in [Node -> Seq(Entries)]
         /\ \A m \in Node \ {l, r} : data'[m] = data[m]
         /\ \A m \in {l, r} :
              /\ data'[m] # << >> /\ Links(data'[m]) \subseteq 0 .. used
              /\ Links(data'[m])
                   \subseteq Links(data[n]) \cup Halves(t) \cup {NoNode}
              /\ kind # "LEAF" => NoNode \notin Links(data'[m])
         /\ DOMAIN at' = Thread /\ \A u \in Thread \ {t} : at'[u] = at[u]
         /\ at'[t] \in Locals /\ at'[t].left = l /\ at'[t].right = r
         /\ at'[t].node = n /\ at'[t].child = at[t].child
         /\ at'[t].near = at[t].near
  <1> DEFINE d == NewData(t)
  <1>1. /\ r <= MaxNodes /\ used' = r
        /\ ver' = [ver EXCEPT ![n] = Raise(ver[n], SPLIT),
                              ![l] = LOCK + SPLIT, ![r] = LOCK + SPLIT]
        /\ type' = [type EXCEPT ![l] = kind, ![r] = kind]
        /\ data' = [data EXCEPT ![l] = LeftHalf(d), ![r] = RightHalf(d)]
        /\ at' = [at EXCEPT ![t] = [at[t] EXCEPT !.left = l, !.right = r]]
    BY DEF Split
  <1>2. /\ pc[t] \in {"act", "interior"} /\ n \in 1 .. used /\ Held(t) = {n}
        /\ Has(ver[n], LOCK) /\ Stable(ver[n])
        /\ type[n] # "LEAF" => pc[t] = "interior"
        /\ S!Pending(t) /\ op(t).key \in Key
    BY InsertingAt
  <1>3. /\ l \in Node /\ r \in Node /\ l # r /\ l \notin 0 .. used
        /\ r \notin 0 .. used /\ n # l /\ n # r /\ n \in Node
        /\ 0 .. used \subseteq 0 .. r /\ l \in 1 .. r /\ r \in 1 .. r
        /\ \A m \in 1 .. r : m \in 1 .. used \/ m = l \/ m = r
        /\ l \in 0 .. MaxNodes /\ r \in 0 .. MaxNodes
        /\ \A m \in 1 .. used : m # l /\ m # r /\ m \in Node
    <2>1. /\ used \in Nat /\ n \in 1 .. used /\ r <= MaxNodes
          /\ Node = 1 .. MaxNodes /\ MaxNodes \in Nat
      BY <1>1, <1>2, Constants, Facts
    <2> QED
      BY <2>1
  <1>4. /\ ver \in [Node -> Nat] /\ data \in [Node -> Seq(Entries)]
        /\ type \in [Node -> {"ROOT", "INTERIOR", "LEAF"}]
    BY Facts DEF NodesInv
  <1>5. type[n] # "LEAF" => at[t].left \in 1 .. used /\ at[t].right \in 1 .. used
    BY <1>2, Facts
  <1>6. /\ d \in Seq(Entries) /\ Len(d) = Len(data[n]) + 1
        /\ Links(d) \subseteq 0 .. used
        /\ Links(d) \subseteq Links(data[n]) \cup Halves(t) \cup {NoNode}
        /\ type[n] # "LEAF" => NoNode \notin Links(d)
    BY <1>2, <1>5, NewDataFacts
  <1> HIDE DEF d
  <1>7. Len(d) > Fanout
    <2>1. Len(data[n]) \in Nat /\ ~(Len(data[n]) < Fanout)
      BY <1>3, <1>4 DEF Roomy
    <2> QED
      BY <1>6, <2>1, Constants
  <1>8. /\ LeftHalf(d) \in Seq(Entries) /\ RightHalf(d) \in Seq(Entries)
        /\ LeftHalf(d) # << >> /\ RightHalf(d) # << >>
        /\ Links(LeftHalf(d)) \subseteq Links(d)
        /\ Links(RightHalf(d)) \subseteq Links(d)
    BY <1>6, <1>7, HalfFacts
  <1>9. /\ data' \in [Node -> Seq(Entries)]
        /\ data'[l] = LeftHalf(d) /\ data'[r] = RightHalf(d)
        /\ \A m \in Node \ {l, r} : data'[m] = data[m]
    BY <1>1, <1>3, <1>4, <1>8
  <1>10. /\ type' \in [Node -> {"ROOT", "INTERIOR", "LEAF"}]
         /\ type'[l] = kind /\ type'[r] = kind
         /\ \A m \in 1 .. used : type'[m] = type[m]
    BY <1>1, <1>3, <1>4
  <1>11. ver[n] \in Nat /\ Raise(ver[n], SPLIT) \in Nat /\ LOCK + SPLIT \in Nat
    <2>1. ver[n] \in Nat
      BY <1>3, <1>4
    <2>2. Raise(ver[n], SPLIT) \in Nat
      BY <2>1, WriteBits
    <2> QED
      BY <2>1, <2>2 DEF LOCK, SPLIT
  <1>12. /\ ver' \in [Node -> Nat]
         /\ ver'[n] = Raise(ver[n], SPLIT) /\ ver'[l] = LOCK + SPLIT
         /\ ver'[r] = LOCK + SPLIT
         /\ \A m \in 1 .. used : m # n => ver'[m] = ver[m]
    BY <1>1, <1>3, <1>4, <1>11
  <1>13. /\ Has(LOCK + SPLIT, LOCK) /\ Has(LOCK + SPLIT, SPLIT)
         /\ ~Has(LOCK + SPLIT, INSERT)
    BY DEF Has, LOCK, SPLIT, INSERT
  <1>14. /\ Has(ver'[n], LOCK) /\ Has(ver'[n], SPLIT) /\ ~Has(ver'[n], INSERT)
    BY <1>2, <1>11, <1>12, WriteBits DEF Stable
  <1>15. /\ DOMAIN at' = Thread /\ \A u \in Thread \ {t} : at'[u] = at[u]
         /\ at'[t] = [at[t] EXCEPT !.left = l, !.right = r]
    BY <1>1, Facts DEF DomainsInv
  <1>16. /\ at'[t] \in Locals /\ at'[t].left = l /\ at'[t].right = r
         /\ at'[t].node = n /\ at'[t].child = at[t].child
         /\ at'[t].near = at[t].near
    <2> DEFINE e == [at[t] EXCEPT !.left = l]
    <2>1. at[t] \in Locals
      BY Facts
    <2>2. /\ e \in Locals /\ e.left = l /\ e.node = n /\ e.child = at[t].child
          /\ e.near = at[t].near
      BY <1>3, <2>1 DEF Locals
    <2>3. at'[t] = [e EXCEPT !.right = r]
      BY <1>15
    <2> HIDE DEF e
    <2> QED
      BY <1>3, <2>2, <2>3 DEF Locals
  <1>17. \A m \in {l, r} :
           /\ data'[m] # << >> /\ Links(data'[m]) \subseteq 0 .. used
           /\ Links(data'[m])
                \subseteq Links(data[n]) \cup Halves(t) \cup {NoNode}
           /\ kind # "LEAF" => NoNode \notin Links(data'[m])
    BY <1>6, <1>8, <1>9
  <1>18. \A m \in {n, l, r} : /\ Has(ver'[m], LOCK) /\ Has(ver'[m], SPLIT)
                              /\ ~Has(ver'[m], INSERT)
    BY <1>12, <1>13, <1>14
  <1>19. used' = r
    BY <1>1
  <1> QED
    BY <1>3, <1>9, <1>10, <1>12, <1>15, <1>16, <1>17, <1>18, <1>19

\* A full node is split.
LEMMA SplitKeeps ==
  ASSUME IInv, NEW t \in Thread, SplitLeaf(t) \/ SplitInterior(t)
  PROVE  IInv'
  <1>1. PICK n : n = at[t].node
    OBVIOUS
  <1>2. PICK l : l = used + 1
    OBVIOUS
  <1>3. PICK r : r = used + 2
    OBVIOUS
  <1>4. PICK kind \in {"INTERIOR", "LEAF"} :
          /\ Split(t, kind) /\ (kind = "LEAF" <=> type[n] = "LEAF")
    BY <1>1 DEF SplitLeaf, SplitInterior
  <1>5. /\ Inserting(t) /\ ~Roomy(n) /\ Observe(t) /\ root' = root
        /\ \/ pc' = [pc EXCEPT ![t] = "next"]
           \/ pc' = [pc EXCEPT ![t] = "prev"]
           \/ pc' = [pc EXCEPT ![t] = "parent"]
           \/ pc' = [pc EXCEPT ![t] = "newroot"]
        /\ \/ cell' = [cell EXCEPT ![op(t).key] = op(t).val]
           \/ cell' = cell
    BY <1>1 DEF SplitLeaf, SplitInterior, Goto
  <1>6. /\ pc[t] \in {"act", "interior"} /\ n \in 1 .. used /\ Held(t) = {n}
        /\ S!Pending(t) /\ op(t).key \in Key /\ op(t).val \in Val
        /\ n \in Node /\ n # NoNode
    BY <1>1, <1>5, InsertingAt, Facts
  <1>7. /\ l \in Node /\ r \in Node /\ l # r /\ l \notin 0 .. used
        /\ r \notin 0 .. used /\ n # l /\ n # r /\ used' = r
        /\ 0 .. used \subseteq 0 .. r /\ l \in 1 .. r /\ r \in 1 .. r
        /\ \A m \in 1 .. r : m \in 1 .. used \/ m = l \/ m = r
    BY <1>1, <1>2, <1>3, <1>4, <1>5, SplitFacts
  <1>8. /\ ver' \in [Node -> Nat]
        /\ \A m \in {n, l, r} : /\ Has(ver'[m], LOCK) /\ Has(ver'[m], SPLIT)
                                /\ ~Has(ver'[m], INSERT)
        /\ \A m \in 1 .. used : m # n => ver'[m] = ver[m]
        /\ type' \in [Node -> {"ROOT", "INTERIOR", "LEAF"}]
        /\ type'[l] = kind /\ type'[r] = kind
        /\ \A m \in 1 .. used : type'[m] = type[m]
    BY <1>1, <1>2, <1>3, <1>4, <1>5, SplitFacts
  <1>9. /\ data' \in [Node -> Seq(Entries)]
        /\ \A m \in Node \ {l, r} : data'[m] = data[m]
        /\ \A m \in {l, r} :
             /\ data'[m] # << >> /\ Links(data'[m]) \subseteq 0 .. used
             /\ Links(data'[m])
                  \subseteq Links(data[n]) \cup Halves(t) \cup {NoNode}
             /\ kind # "LEAF" => NoNode \notin Links(data'[m])
    BY <1>1, <1>2, <1>3, <1>4, <1>5, SplitFacts
  <1>10. /\ DOMAIN at' = Thread /\ \A u \in Thread \ {t} : at'[u] = at[u]
         /\ at'[t] \in Locals /\ at'[t].left = l /\ at'[t].right = r
         /\ at'[t].node = n /\ at'[t].child = at[t].child
         /\ at'[t].near = at[t].near
    BY <1>1, <1>2, <1>3, <1>4, <1>5, SplitFacts
  <1>11. /\ pc'[t] \in {"next", "prev", "parent", "newroot"}
         /\ DOMAIN pc' = Thread
         /\ \A u \in Thread \ {t} : pc'[u] = pc[u]
    BY <1>5, Facts DEF DomainsInv
  <1>12. /\ DOMAIN call' = Thread /\ UNCHANGED <<done, alarm>>
         /\ \A u \in Thread : S!Pending(u) => S!Pending(u)' /\ op(u)' = op(u)
    BY <1>5, Facts, CallsKept
  <1>13. /\ \A m \in 0 .. used : m \in 0 .. r
         /\ \A m \in 1 .. used : m \in 0 .. used /\ m \in Node
         /\ l \in 0 .. r /\ r \in 0 .. r /\ l # NoNode /\ r # NoNode
         /\ used \in Nat /\ r \in Nat /\ used <= r
    BY <1>2, <1>3, Constants, Facts
  <1>14. /\ parent' \in [Node -> 0 .. r] /\ prev' \in [Node -> 0 .. r]
         /\ next' \in [Node -> 0 .. r]
    <2>1. /\ parent \in [Node -> 0 .. r] /\ prev \in [Node -> 0 .. r]
          /\ next \in [Node -> 0 .. r]
      BY <1>13, Facts DEF NodesInv
    <2>2. CASE SplitLeaf(t)
      <3>1. /\ next' = [next EXCEPT ![l] = r, ![r] = next[n]]
            /\ prev' = [prev EXCEPT ![r] = l] /\ parent' = parent
        BY <1>1, <1>2, <1>3, <2>2 DEF SplitLeaf
      <3> QED
        BY <1>6, <1>13, <2>1, <3>1
    <2>3. CASE SplitInterior(t)
      <3>1. /\ parent' = [m \in Node |-> CASE m \in Links(data'[l]) -> l
                                           [] m \in Links(data'[r]) -> r
                                           [] OTHER -> parent[m]]
            /\ next' = next /\ prev' = prev
        BY <1>1, <1>2, <1>3, <2>3 DEF SplitInterior
      <3> QED
        BY <1>13, <2>1, <3>1
    <2> QED
      BY <2>2, <2>3
  <1>15. Held(t)' = {n, l, r}
    BY <1>6, <1>10, <1>11, <1>13 DEF Held
  <1>16. OwnedTo(t)
    <2>1. ASSUME NEW u \in Thread \ {t}
          PROVE  {n, l, r} \cap Held(u) = {}
      <3>1. Held(u) \subseteq 1 .. used /\ n \notin Held(u)
        BY <1>6, HeldNodes DEF IInv, LocksOwned
      <3> QED
        BY <1>7, <1>13, <3>1
    <2>2. Held(t) \ Held(t)' = {}
      BY <1>6, <1>15
    <2> QED
      BY <1>7, <1>8, <1>15, <2>1, <2>2 DEF OwnedTo
  <1>17. ASSUME NEW u \in Thread \ {t}, pc[u] \in {"newroot", "swapped"}
         PROVE  /\ at[u].left \in Node
                /\ \A m \in {l, r} : at[u].left \notin Links(data'[m])
    <2>1. /\ at[u].left \in 1 .. used /\ at[u].left # NoNode
          /\ at[u].left \notin Halves(t)
          /\ at[u].left \notin Links(data[n])
      BY <1>6, <1>17, LinksApart
    <2> QED
      BY <1>9, <1>13, <2>1
  <1>18. LocalTo(t)
    <2>1. ASSUME NEW u \in Thread \ {t}, pc[u] = "swapped"
          PROVE  parent'[at[u].left] = parent[at[u].left]
      <3>1. /\ at[u].left \in Node
            /\ at[u].left \notin Links(data'[l])
            /\ at[u].left \notin Links(data'[r])
        BY <1>17, <2>1
      <3>2. CASE SplitLeaf(t)
        BY <3>2 DEF SplitLeaf
      <3>3. CASE SplitInterior(t)
        <4>1. parent' = [m \in Node |-> CASE m \in Links(data'[l]) -> l
                                          [] m \in Links(data'[r]) -> r
                                          [] OTHER -> parent[m]]
          BY <1>1, <1>2, <1>3, <3>3 DEF SplitInterior
        <4> QED
          BY <3>1, <4>1
      <3> QED
        BY <3>2, <3>3
    <2>2. ASSUME NEW u \in Thread \ {t}, pc[u] \in {"newroot", "swapped"},
                 NEW m \in Node, at[u].left \in Links(data'[m])
          PROVE  at[u].left \in Links(data[m])
      <3>1. m \notin {l, r}
        BY <1>17, <2>2
      <3> QED
        BY <1>9, <2>2, <3>1
    <2>3. used <= used' /\ used' \in Nat
      BY <1>7, <1>13
    <2>4. \A m \in 1 .. used : m \notin Held(t) => ver'[m] = ver[m]
      BY <1>6, <1>8
    <2> QED
      BY <1>8, <1>10, <1>11, <1>12, <2>1, <2>2, <2>3, <2>4 DEF LocalTo
  <1>19. LocalsAt(t)'
    <2>1. /\ n \in 0 .. r /\ at[t].child \in 0 .. r /\ at[t].near \in 0 .. r
      BY <1>6, <1>13, Facts DEF LocalsAt
    <2>2. S!Pending(t)' /\ op(t)'.key \in Key /\ op(t)'.val \in Val
      BY <1>6, <1>12
    <2> QED
      BY <1>6, <1>7, <1>10, <1>11, <1>13, <2>1, <2>2
      DEF LocalsAt, Labels, Descending, AtLeaf, Inserts, Splits
  <1>20. BitsAt(t)'
    BY <1>7, <1>8, <1>10, <1>11 DEF BitsAt, Splits
  <1>21. HalfAt(t)'
    <2>1. \A m \in Node : Links(data'[m]) \subseteq 0 .. used
      BY <1>9, Facts DEF NodesInv
    <2> QED
      BY <1>7, <1>10, <1>11, <2>1 DEF HalfAt
  <1>22. \A u \in Thread \ {t} : Halves(t)' \cap Halves(u) = {}
    <2>1. Halves(t)' = {l, r}
      BY <1>10, <1>13 DEF Halves
    <2>2. \A u \in Thread : Halves(u) \subseteq 0 .. used
      BY Facts DEF Halves, LocalsAt
    <2> QED
      BY <1>7, <2>1, <2>2
  <1>23. DomainsInv'
    BY <1>10, <1>11, <1>12 DEF DomainsInv
  <1>24. NodesInv'
    <2>1. \A m \in Node : Links(data'[m]) \subseteq 0 .. r
      BY <1>7, <1>9, Facts DEF NodesInv
    <2>2. ASSUME NEW m \in 1 .. r
          PROVE  /\ data'[m] # << >>
                 /\ type'[m] # "LEAF" => NoNode \notin Links(data'[m])
      <3>1. CASE m \in {l, r}
        BY <1>8, <1>9, <3>1
      <3>2. CASE m \in 1 .. used
        <4>1. m \in Node \ {l, r}
          BY <1>7, <1>13, <3>2
        <4> QED
          BY <1>8, <1>9, <3>2, <4>1, Facts DEF NodesInv
      <3> QED
        BY <1>7, <3>1, <3>2
    <2>3. root' \in 1 .. r
      BY <1>5, <1>13, Facts
    <2>4. cell' \in [Key -> Val \cup {NoVal}]
      BY <1>5, <1>6, Facts DEF NodesInv
    <2> QED
      BY <1>7, <1>8, <1>9, <1>12, <1>14, <2>1, <2>2, <2>3, <2>4, Facts
      DEF NodesInv
  <1> QED
    BY <1>16, <1>18, <1>19, <1>20, <1>21, <1>22, <1>23, <1>24, StepKeeps
    DEF ThreadNext

-----------------------------------------------------------------------------
(* Calls, and the theorem. *)

\* A thread asks for an operation.
LEMMA StartKeeps ==
  ASSUME IInv, NEW t \in Thread, Start(t)
  PROVE  IInv'
  <1>1. /\ pc[t] = "idle" /\ done[t] < Len(Work[t]) /\ at' = at
        /\ done' = [done EXCEPT ![t] = done[t] + 1]
        /\ pc' = [pc EXCEPT ![t] = "root"]
        /\ UNCHANGED <<tree, alarm>>
    BY DEF Start, Goto
  <1>2. PICK o \in Work[t][done[t] + 1] :
          call' = [call EXCEPT ![t] = S!Asked(o, map[o.key])]
    BY DEF Start
  <1>3. o \in [kind : {"read", "insert", "update"}, key : Key, val : Val]
    <2>1. Work[t] \in Seq(SUBSET [kind : {"read", "insert", "update"},
                                  key : Key, val : Val])
      BY MasstreeAssumption
    <2>2. done[t] \in Nat
      BY Facts DEF NodesInv
    <2>3. done[t] + 1 \in 1 .. Len(Work[t])
      BY <1>1, <2>1, <2>2
    <2>4. Work[t][done[t] + 1] \in SUBSET [kind : {"read", "insert", "update"},
                                           key : Key, val : Val]
      BY <2>1, <2>3
    <2> QED
      BY <2>4
  <1>4. /\ DOMAIN call' = Thread
        /\ call'[t] = [op |-> o, seen |-> {map[o.key]}, took |-> NoVal]
        /\ \A u \in Thread \ {t} : call'[u] = call[u]
    BY <1>2, Facts DEF DomainsInv, S!Asked
  <1>5. /\ S!Pending(t)' /\ op(t)'.key \in Key /\ op(t)'.val \in Val
        /\ \A u \in Thread \ {t} :
             S!Pending(u) => S!Pending(u)' /\ op(u)' = op(u)
    BY <1>3, <1>4 DEF S!Pending, op
  <1>6. /\ pc'[t] = "root" /\ DOMAIN pc' = Thread
        /\ \A u \in Thread \ {t} : pc'[u] = pc[u]
    BY <1>1, Facts DEF DomainsInv
  <1>7. Held(t) = {} /\ Held(t)' = {} /\ Halves(t)' = Halves(t)
    BY <1>1, <1>6 DEF Held, Halves
  <1>8. LocalsAt(t)'
    BY <1>1, <1>5, <1>6, Facts
    DEF LocalsAt, Labels, Descending, AtLeaf, Inserts, Splits, tree
  <1>9. BitsAt(t)' /\ HalfAt(t)'
    BY <1>6 DEF BitsAt, HalfAt, Splits
  <1>10. DomainsInv'
    BY <1>1, <1>4, <1>6, Facts DEF DomainsInv
  <1>11. /\ prev' \in [Node -> 0 .. used] /\ next' \in [Node -> 0 .. used]
         /\ cell' \in [Key -> Val \cup {NoVal}]
         /\ done' \in [Thread -> Nat] /\ alarm' \in BOOLEAN
    <2>1. NodesInv
      BY Facts
    <2>2. done[t] + 1 \in Nat /\ done \in [Thread -> Nat]
      BY <2>1 DEF NodesInv
    <2>3. done' \in [Thread -> Nat]
      BY <1>1, <2>2
    <2> QED
      BY <1>1, <2>1, <2>3 DEF NodesInv, tree
  <1> QED
    BY <1>1, <1>5, <1>6, <1>7, <1>8, <1>9, <1>10, <1>11, PlainStep DEF tree

\* Steps that leave all of this alone: replays among them.
LEMMA StutterKeeps ==
  ASSUME IInv, UNCHANGED <<tree, pc, at, done, call>>, alarm' \in BOOLEAN
  PROVE  IInv'
  <1>1. NodesInv' /\ DomainsInv'
    BY DEF IInv, NodesInv, DomainsInv, tree
  <1>2. \A t \in Thread : Held(t)' = Held(t) /\ Halves(t)' = Halves(t)
    BY DEF Held, Halves, tree
  <1>3. LocksOwned' /\ HalvesApart'
    BY <1>2 DEF IInv, LocksOwned, HalvesApart, tree
  <1>4. ASSUME NEW t \in Thread
        PROVE  LocalsAt(t)' /\ BitsAt(t)' /\ HalfAt(t)'
    <2>1. S!Pending(t)' = S!Pending(t) /\ op(t)' = op(t)
      BY DEF S!Pending, op
    <2>2. LocalsAt(t)'
      BY <2>1, Facts DEF LocalsAt, tree
    <2> QED
      BY <2>2, Facts DEF BitsAt, HalfAt, tree
  <1> QED
    BY <1>1, <1>3, <1>4 DEF IInv

\* build_tree leaves the nodes in order and nothing locked.
LEMMA InitIInv == Init => IInv
  <1> SUFFICES ASSUME Init PROVE IInv
    OBVIOUS
  <1> USE DEF Init
  <1>1. /\ 1 \in Node /\ 2 \in Node /\ used = 2 /\ root = 2 /\ NoNode = 0
        /\ \A n \in 1 .. used : n = 1 \/ n = 2
        /\ 0 \in 0 .. 2 /\ 1 \in 0 .. 2 /\ 2 \in 0 .. 2 /\ 2 \in 1 .. 2
    BY Constants
  <1>2. NodesInv
    <2> DEFINE e == Entry(0, NoNode)
    <2> DEFINE f == Entry(0, 1)
    <2>1. e \in Entries /\ f \in Entries /\ e.link = 0 /\ f.link = 1
      BY <1>1, Constants DEF Entry, Entries
    <2> HIDE DEF e, f
    <2>2. /\ data[1] = <<e>> /\ data[2] = <<f>>
          /\ \A n \in Node \ {1, 2} : data[n] = << >>
      BY <1>1 DEF e, f
    <2>3. data \in [Node -> Seq(Entries)]
      <3>1. \A n \in Node : data[n] \in Seq(Entries)
        BY <2>1, <2>2
      <3> QED
        BY <3>1
    <2>4. /\ Links(data[1]) = {0} /\ Links(data[2]) = {1}
          /\ data[1] # << >> /\ data[2] # << >>
          /\ \A n \in Node \ {1, 2} : Links(data[n]) = {}
      <3>1. /\ DOMAIN data[1] = {1} /\ data[1][1] = e /\ data[1] # << >>
            /\ DOMAIN data[2] = {1} /\ data[2][1] = f /\ data[2] # << >>
        BY <2>2
      <3>2. Links(data[1]) = {0} /\ Links(data[2]) = {1}
        <4> HIDE DEF Init
        <4> QED
          BY <2>1, <3>1 DEF Links
      <3>3. ASSUME NEW n \in Node \ {1, 2}
            PROVE  Links(data[n]) = {}
        <4>1. data[n] = << >> /\ DOMAIN << >> = {}
          BY <2>2
        <4> QED
          BY <4>1 DEF Links
      <3> QED
        BY <3>1, <3>2, <3>3
    <2>5. /\ \A n \in Node : Links(data[n]) \subseteq 0 .. 2
          /\ \A n \in 1 .. used : /\ data[n] # << >>
                                  /\ type[n] # "LEAF"
                                       => NoNode \notin Links(data[n])
      <3>1. type[1] = "LEAF"
        BY <1>1
      <3>2. ASSUME NEW n \in Node
            PROVE  Links(data[n]) \subseteq 0 .. 2
        <4>1. n = 1 \/ n = 2 \/ n \in Node \ {1, 2}
          OBVIOUS
        <4> HIDE DEF Init
        <4> QED
          BY <1>1, <2>4, <4>1
      <3>3. ASSUME NEW n \in 1 .. used
            PROVE  /\ data[n] # << >>
                   /\ type[n] # "LEAF" => NoNode \notin Links(data[n])
        <4>1. n = 1 \/ n = 2
          BY <1>1
        <4> HIDE DEF Init
        <4> QED
          BY <1>1, <2>4, <3>1, <4>1
      <3> QED
        BY <3>2, <3>3
    <2>6. /\ type \in [Node -> {"ROOT", "INTERIOR", "LEAF"}]
          /\ ver \in [Node -> Nat]
          /\ parent \in [Node -> 0 .. 2] /\ prev \in [Node -> 0 .. 2]
          /\ next \in [Node -> 0 .. 2]
      BY <1>1
    <2>7. /\ cell \in [Key -> Val \cup {NoVal}] /\ done \in [Thread -> Nat]
          /\ alarm \in BOOLEAN
      OBVIOUS
    <2> QED
      BY <1>1, <2>3, <2>5, <2>6, <2>7 DEF NodesInv
  <1>3. DomainsInv
    BY DEF DomainsInv
  <1>4. \A t \in Thread : pc[t] = "idle" /\ at[t] = NoLocals
    OBVIOUS
  <1>5. \A t \in Thread : Held(t) = {} /\ Halves(t) = {}
    BY <1>4 DEF Held, Halves, NoLocals
  <1>6. \A n \in 1 .. used : ~Has(ver[n], LOCK) /\ Stable(ver[n])
    <2>1. ~Has(0, LOCK) /\ ~Has(0, INSERT) /\ ~Has(0, SPLIT)
      BY DEF Has, LOCK, INSERT, SPLIT
    <2> QED
      BY <1>1, <2>1 DEF Stable
  <1>7. LocksOwned /\ HalvesApart
    BY <1>5, <1>6 DEF LocksOwned, HalvesApart
  <1>8. \A t \in Thread : LocalsAt(t)
    <2>1. /\ NoLocals \in Locals /\ NoLocals.node = NoNode
          /\ NoLocals.child = NoNode /\ NoLocals.left = NoNode
          /\ NoLocals.right = NoNode /\ NoLocals.near = NoNode
      BY FreshStart DEF FreshAt
    <2> QED
      BY <1>1, <1>4, <2>1
      DEF LocalsAt, Labels, Descending, AtLeaf, Inserts, Splits
  <1>9. \A t \in Thread : BitsAt(t) /\ HalfAt(t)
    BY <1>4 DEF BitsAt, HalfAt, Splits
  <1> QED
    BY <1>2, <1>3, <1>7, <1>8, <1>9 DEF IInv

\* Every step keeps the nodes and the locks in order where locate finds an entry.
LEMMA NextIInv == IInv /\ LocateFinds /\ [Next]_vars => IInv'
  <1> SUFFICES ASSUME IInv, LocateFinds, [Next]_vars PROVE IInv'
    OBVIOUS
  <1>1. ASSUME NEW t \in Thread, Down(t)
        PROVE  IInv'
    BY <1>1, DescentKeeps
  <1>2. ASSUME NEW t \in Thread, Leaf(t)
        PROVE  IInv'
    BY <1>2, LockLeafKeeps, DescentKeeps, LeafReturnKeeps, UpdateKeeps DEF Leaf
  <1>3. ASSUME NEW t \in Thread, Grow(t)
        PROVE  IInv'
    <2>1. CASE BeginInsert(t) \/ Insert(t) \/ EndInsert(t)
      BY <2>1, BeginInsertKeeps, InsertKeeps, EndInsertKeeps
    <2>2. CASE SplitLeaf(t) \/ SplitInterior(t)
      BY <2>2, SplitKeeps
    <2>3. CASE LinkNext(t) \/ LoadPrev(t) \/ LinkPrev(t) \/ PrevAgain(t)
                 \/ LoadParent(t) \/ ParentAgain(t)
      BY <2>3, LinkKeeps
    <2>4. CASE LockParent(t) \/ NewRoot(t)
      BY <2>4, LockParentKeeps, NewRootKeeps
    <2>5. CASE OpenRoot(t) \/ Replace(t) \/ ReplaceRoot(t)
      BY <2>5, OpenRootKeeps, ReplaceKeeps, ReplaceRootKeeps
    <2> QED
      BY <1>3, <2>1, <2>2, <2>3, <2>4, <2>5 DEF Grow
  <1>4. ASSUME NEW t \in Thread, Replay(t)
        PROVE  IInv'
    <2>1. UNCHANGED <<tree, pc, at, done, call>> /\ alarm' \in BOOLEAN
      BY <1>4 DEF Replay
    <2> QED
      BY <2>1, StutterKeeps
  <1>5. CASE UNCHANGED vars
    <2>1. UNCHANGED <<tree, pc, at, done, call>> /\ alarm' \in BOOLEAN
      BY <1>5 DEF vars, IInv, NodesInv
    <2> QED
      BY <2>1, StutterKeeps
  <1> QED
    BY <1>1, <1>2, <1>3, <1>4, <1>5, StartKeeps DEF Next, Act, Stopped

\* IInv is more than the types.
LEMMA IInvTypes == IInv => TypeOK
  <1> SUFFICES ASSUME IInv PROVE TypeOK
    OBVIOUS
  <1>1. NodesInv /\ DomainsInv
    BY DEF IInv
  <1>2. 0 .. used \subseteq 0 .. MaxNodes /\ root \in Node
    <2>1. used \in Node /\ root \in 1 .. used
      BY <1>1 DEF NodesInv
    <2> QED
      BY <2>1, Constants
  <1>3. {parent, prev, next} \subseteq [Node -> 0 .. MaxNodes]
    BY <1>1, <1>2 DEF NodesInv
  <1>4. \A n \in Node : data[n] \in Seq([key : Key \cup {0}, link : 0 .. MaxNodes])
    BY <1>1 DEF NodesInv, Entries
  <1> QED
    BY <1>1, <1>2, <1>3, <1>4 DEF TypeOK, NodesInv, DomainsInv
=============================================================================
